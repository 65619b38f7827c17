CONSTANTS
  ByteBits <- MCByteBits
  BaseSize <- MCBaseSize
  MaxCapacity <- MCMaxCapacity
  Bytes <- MCBytes
  Lengths = {0}
  Fields <- MCFields
  MaxFields <- MCMaxFields
  ReqType <- MCReqType
SPECIFICATION Spec
INVARIANT TypeOK
INVARIANT WireFormat
PROPERTY RoundTrip
