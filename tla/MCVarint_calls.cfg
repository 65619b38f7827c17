SPECIFICATION Spec
INVARIANT TypeOK
INVARIANT ZigzagMatchesSpec
INVARIANT DecodeMatchesSpec
CHECK_DEADLOCK FALSE
