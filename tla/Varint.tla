------------------------------- MODULE Varint -------------------------------
(***************************************************************************)
(* The zigzag mappings and the numeric vocabulary of the varint codec of   *)
(* sylar::ByteArray (bytearray.cpp 402-506), with the reference encodings  *)
(* of the specification (spec.md 4.3) they are checked against.           *)
(*                                                                         *)
(* Widths are scaled: TLC's integers stop at 2^31, so the code's 7-bit     *)
(* groups, 32- and 64-bit types and 5- and 10-byte temp arrays become      *)
(* GroupBits, Width32, Width64, Temp32 and Temp64.  Every relation the     *)
(* code relies on is kept: 0x80 is 2^GroupBits, 0x7F is 2^GroupBits - 1,   *)
(* the temp arrays hold ceil(width / group) bytes, and both decoders stop  *)
(* at a shift of Width32 (the literal 32 of both loops).                   *)
(***************************************************************************)
EXTENDS Integers, Sequences, Bitwise

CONSTANTS
  GroupBits,   \* 7: payload bits per encoded byte
  Width32,     \* 32: bits of uint32_t / int32_t
  Width64,     \* 64: bits of uint64_t / int64_t
  Temp32,      \* 5: uint8_t temp[5] in writeUint32
  Temp64       \* 10: uint8_t temp[10] in writeUint64

ASSUME /\ GroupBits \in Nat \ {0}
       /\ Width32 \in Nat \ {0} /\ Width64 = 2 * Width32
       /\ Temp32 * GroupBits >= Width32 /\ (Temp32 - 1) * GroupBits < Width32
       /\ Temp64 * GroupBits >= Width64 /\ (Temp64 - 1) * GroupBits < Width64

Cont == 2^GroupBits          \* 0x80, the continuation bit
Low  == 2^GroupBits - 1      \* 0x7F

Signed(w)   == -(2^(w - 1))..(2^(w - 1) - 1)
Unsigned(w) == 0..(2^w - 1)

\* the two's complement reading of an unsigned w-bit value
ToSigned(u, w) == IF u >= 2^(w - 1) THEN u - 2^w ELSE u

\* a zigzag that forgets the `- 1` of the negative branch
EncodeZigzag32NoOffset(v) ==
  IF v < 0 THEN (((-v) % 2^Width32) * 2) % 2^Width32
  ELSE (v * 2) % 2^Width32

\* EncodeZigzag32: `v < 0 ? (uint32_t)(-v)*2 - 1 : v * 2`; -INT32_MIN and
\* v * 2 overflow int32_t, and the build wraps both
EncodeZigzag32(v) ==
  IF v < 0 THEN (((-v) % 2^Width32) * 2 - 1) % 2^Width32
  ELSE (v * 2) % 2^Width32

\* EncodeZigzag64: the negative branch casts -v to uint32_t, not uint64_t
EncodeZigzag64(v) ==
  IF v < 0 THEN (((-v) % 2^Width32) * 2 - 1) % 2^Width32
  ELSE (v * 2) % 2^Width64

\* DecodeZigzag32/64: `(v >> 1) ^ -(v & 1)` in the unsigned type, returned
\* as the signed type
DecodeZigzag32(u) ==
  ToSigned(shiftR(u, 1) ^^ ((2^Width32 - (u & 1)) % 2^Width32), Width32)

DecodeZigzag64(u) ==
  ToSigned(shiftR(u, 1) ^^ ((2^Width64 - (u & 1)) % 2^Width64), Width64)

(***************************************************************************)
(* Reference definitions (spec.md 4.3), not code.                          *)
(***************************************************************************)
\* n >= 0 -> 2n, n < 0 -> 2|n| - 1
RefZigzag(n) == IF n >= 0 THEN 2 * n ELSE 2 * (-n) - 1

\* 7-bit groups, least significant first, high bit set on all but the last
RECURSIVE RefVarint(_)
RefVarint(u) ==
  IF u < Cont THEN <<u>> ELSE <<(u % Cont) + Cont>> \o RefVarint(u \div Cont)

=============================================================================
