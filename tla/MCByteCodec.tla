---------------------------- MODULE MCByteCodec -----------------------------
(***************************************************************************)
(* Two-bit bytes, so that a uint16 is 4 bits and a uint32 8, and a varint  *)
(* group is one bit with 0x80 as 2: a length of 2 is the first that        *)
(* writeUint64 cannot write.  Every multi-byte value below has bytes that  *)
(* differ from their reverse, so a missing or extra byteswap changes what  *)
(* is stored.  A message holds up to two fields.                          *)
(***************************************************************************)
EXTENDS CodecSession

MCByteBits == 2
MCBaseSize == 4
MCMaxCapacity == 24
MCBytes == 0..3
MCMaxFields == 2
MCReqType == 1

\* writeFint8(-1), writeFuint16(1), writeFint16(-2), writeFloat of the bits
\* 0003, writeStringF16 of two bytes, writeStringF32 of none,
\* writeStringVint of none, of one byte and of two bytes,
\* writeStringWithoutLength of one byte, and two RockRequests, the second
\* with a two-byte body
MCFields ==
  { [call |-> "fixed",  w |-> 1, signed |-> TRUE,  value |-> -1],
    [call |-> "fixed",  w |-> 2, signed |-> FALSE, value |-> 1],
    [call |-> "fixed",  w |-> 2, signed |-> TRUE,  value |-> -2],
    [call |-> "float",  w |-> 4, signed |-> FALSE, value |-> 3],
    [call |-> "string", w |-> 2, signed |-> FALSE, value |-> <<1, 0>>],
    [call |-> "string", w |-> 4, signed |-> FALSE, value |-> <<>>],
    [call |-> "vint",   w |-> 0, signed |-> FALSE, value |-> <<>>],
    [call |-> "vint",   w |-> 0, signed |-> FALSE, value |-> <<3>>],
    [call |-> "vint",   w |-> 0, signed |-> FALSE, value |-> <<2, 1>>],
    [call |-> "raw",    w |-> 0, signed |-> FALSE, value |-> <<1>>],
    [call |-> "rock",   w |-> 0, signed |-> FALSE,
     value |-> [sn |-> 6, cmd |-> 1, body |-> <<2>>]],
    [call |-> "rock",   w |-> 0, signed |-> FALSE,
     value |-> [sn |-> 1, cmd |-> 6, body |-> <<1, 3>>]] }
=============================================================================
