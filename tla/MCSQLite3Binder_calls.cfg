CONSTANTS
  Stmts <- MCStmts
  Params <- MCParams
  Args <- MCArgs
  TypeBits <- MCTypeBits
SPECIFICATION Spec
INVARIANT TypeOK
INVARIANT BoundValuesReadBack
PROPERTY CallMatchesReference
