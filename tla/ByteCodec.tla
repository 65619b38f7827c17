------------------------------ MODULE ByteCodec ------------------------------
(***************************************************************************)
(* The typed codecs of sylar::ByteArray over its byte stream: the          *)
(* fixed-width integers and floats with the byte-order flag m_endian, and  *)
(* the length-prefixed strings (src/sylar/bytearray.cpp 66-77, 256-371).   *)
(* Every codec call ends in write() or read() of ByteStream, which the     *)
(* block chain is shown to implement in MCByteArray.                       *)
(*                                                                         *)
(* The system around the buffer is the way every protocol layer uses it:  *)
(* a writer serialises a message field by field, choosing the byte order  *)
(* before any field, rewinds with setPosition(0), and a reader calls the  *)
(* read functions, with byte orders of its own.  The writer's record of   *)
(* what it wrote, and from which offset, is `fields` (bookkeeping, not    *)
(* code).                                                                  *)
(*                                                                         *)
(* Bytes are ByteBits wide, so that a uint16 holds 2 * ByteBits bits; the  *)
(* widths of the code's types are kept as byte counts (1, 2, 4).          *)
(***************************************************************************)
EXTENDS ByteStream, SequencesExt

CONSTANTS
  ByteBits,      \* the bits of a byte
  Fields,        \* the calls the writer can make, with their arguments
  MaxFields      \* bound: fields in a message

Radix == 2^ByteBits

VARIABLES
  m_endian,      \* ByteArray::m_endian
  host,          \* SYLAR_BYTE_ORDER of the platform the code runs on
  phase,         \* "write" while serialising, "read" after the rewind
  fields,        \* what the writer wrote: [field, endian, off]
  got            \* what the reader's last read call returned: a string,
                 \* or <<v>> for an integer v

vars == <<svars, m_endian, host, phase, fields, got>>

Orders == {"little", "big"}

(***************************************************************************)
(* Integers as bytes                                                       *)
(***************************************************************************)
LittleBytes(v, w) == [i \in 1..w |-> (v \div Radix^(i - 1)) % Radix]
BigBytes(v, w) == Reverse(LittleBytes(v, w))
FromBig(bs) == FoldLeft(LAMBDA acc, b : acc * Radix + b, 0, bs)
FromLittle(bs) == FromBig(Reverse(bs))

\* byteswap(v) of endian.h: the w bytes of v in reverse order
ByteSwap(v, w) == FromLittle(BigBytes(v, w))

\* the bytes of a w-byte integer in memory, as `write(&value, sizeof(value))`
\* copies them, and the integer `read(&v, sizeof(v))` makes of bytes
Native(v, w) == IF host = "little" THEN LittleBytes(v, w) ELSE BigBytes(v, w)
FromNative(bs) == IF host = "little" THEN FromLittle(bs) ELSE FromBig(bs)

\* the conversion of a value to the w-byte unsigned type, and of such a
\* value to the signed type of the same width (two's complement)
Unsigned(v, w) == v % (Radix^w)
ToSigned(u, w) == IF u >= Radix^w \div 2 THEN u - Radix^w ELSE u

\* a writer that swaps when the orders agree instead of when they differ
EncodeFixedSwapSame(v, w) ==
  LET u == Unsigned(v, w)
  IN Native(IF w > 1 /\ m_endian = host THEN ByteSwap(u, w) ELSE u, w)

\* writeFint8 .. writeFuint32: `if (m_endian != SYLAR_BYTE_ORDER) value =
\* byteswap(value); write(&value, sizeof(value));` (none for one byte)
EncodeFixed(v, w) ==
  LET u == Unsigned(v, w)
  IN Native(IF w > 1 /\ m_endian # host THEN ByteSwap(u, w) ELSE u, w)

\* a reader that never swaps
DecodeFixedNoSwap(bs, signed) ==
  LET u == FromNative(bs)
  IN IF signed THEN ToSigned(u, Len(bs)) ELSE u

\* the XX(type) body of readFint16 .. readFuint64, and readFint8/readFuint8
DecodeFixed(bs, signed) ==
  LET w == Len(bs)
      v == FromNative(bs)
      u == IF w > 1 /\ m_endian # host THEN ByteSwap(v, w) ELSE v
  IN IF signed THEN ToSigned(u, w) ELSE u

(***************************************************************************)
(* The calls                                                               *)
(***************************************************************************)
\* setIsLittleEndian(val)
SetIsLittleEndian(val) ==
  /\ m_endian' = IF val THEN "little" ELSE "big"
  /\ UNCHANGED <<svars, host, phase, fields, got>>

\* writeFint8 .. writeFuint32
WriteFixed(v, w) == WriteBytes(EncodeFixed(v, w))

\* writeFloat: the bits of the float, through writeFuint32
WriteFloat(bits) == WriteFixed(bits, 4)

\* writeStringF16/F32: writeFuint16/32(value.size()), then write(value).
\* Two writes in a row are one write of both: growth covers the end offset
\* with the fewest whole blocks either way.
WriteStringF(s, w) == WriteBytes(EncodeFixed(Len(s), w) \o s)

\* writeStringWithoutLength
WriteStringWithoutLength(s) == WriteBytes(s)

\* readFint8 .. readFuint32; a throw leaves the value returned before
ReadFixed(w, signed) ==
  /\ ReadBytes(w)
  /\ got' = IF w <= Len(data) - position
            THEN <<DecodeFixed(SubSeq(data, position + 1, position + w), signed)>>
            ELSE got

\* readFloat: readFuint32, and the bits as a float
ReadFloat == ReadFixed(4, FALSE)

\* a string read that moves past the declared length even when it throws
ReadStringFSkipDeclared(w) ==
  LET rem == Len(data) - position
      len == DecodeFixed(SubSeq(data, position + 1, position + w), FALSE)
  IN /\ ~crashed
     /\ IF w > rem
        THEN /\ exc' = "out_of_range"
             /\ UNCHANGED <<data, position, capacity, lastRead, crashed, got>>
        ELSE IF len > rem - w
        THEN /\ position' = position + w + len
             /\ lastRead' = SubSeq(data, position + 1, position + w)
             /\ exc' = "out_of_range"
             /\ UNCHANGED <<data, capacity, crashed, got>>
        ELSE /\ position' = position + w + len
             /\ lastRead' = SubSeq(data, position + w + 1, position + w + len)
             /\ got' = lastRead'
             /\ exc' = "none"
             /\ UNCHANGED <<data, capacity, crashed>>

\* readStringF16/F32: the length through readFuint16/32, then read() of that
\* many bytes, which throws NotEnoughData with the prefix already consumed
ReadStringF(w) ==
  LET rem == Len(data) - position
      len == DecodeFixed(SubSeq(data, position + 1, position + w), FALSE)
  IN /\ ~crashed
     /\ IF w > rem
        THEN /\ exc' = "out_of_range"
             /\ UNCHANGED <<data, position, capacity, lastRead, crashed, got>>
        ELSE IF len > rem - w
        THEN /\ position' = position + w
             /\ lastRead' = SubSeq(data, position + 1, position + w)
             /\ exc' = "out_of_range"
             /\ UNCHANGED <<data, capacity, crashed, got>>
        ELSE /\ position' = position + w + len
             /\ lastRead' = SubSeq(data, position + w + 1, position + w + len)
             /\ got' = lastRead'
             /\ exc' = "none"
             /\ UNCHANGED <<data, capacity, crashed>>

\* read(buf, n) of a string whose length the reader knows
ReadStringRaw(n) ==
  /\ ReadBytes(n)
  /\ got' = IF n <= Len(data) - position THEN lastRead' ELSE got

(***************************************************************************)
(* Length-prefixed strings with a varint length                            *)
(***************************************************************************)
\* the varint groups of writeUint64/readUint64 in ByteBits-bit bytes: a
\* group is the byte without its top bit, and VCont is 0x80
VGroup == ByteBits - 1
VCont == 2^VGroup

\* the iterations of readUint64's `for (int i = 0; i < 32; i += 7)`
VIters == 5

\* writeUint64(value) stores `temp[i++] = value; write(temp, i);` and
\* returns only for a value below 0x80: its loop discards `value >> 7;`,
\* so for a larger value it never ends, storing past temp[] with a
\* wrapping uint8_t index
WriteUint64Returns(v) == v < VCont

\* writeStringVint(value): writeUint64(value.size()), then write(value)
StringVintBytes(s) == <<Len(s)>> \o s

WriteStringVint(s) ==
  IF WriteUint64Returns(Len(s)) THEN WriteBytes(StringVintBytes(s)) ELSE Crash

\* readUint64 from offset p, at iteration k with the result r so far: each
\* readFuint8 consumes one byte or throws, consuming nothing, at the end of
\* the data.  `lasts` holds the bytes of the last read() that returned.
RECURSIVE VintFrom(_, _, _)
VintFrom(p, k, r) ==
  IF k = VIters THEN [ok |-> TRUE, end |-> p, val |-> r, lasts |-> <<>>]
  ELSE IF p >= Len(data) THEN [ok |-> FALSE, end |-> p, val |-> r, lasts |-> <<>>]
  ELSE LET b == data[p + 1]
           rest == VintFrom(p + 1, k + 1, r + (b % VCont) * 2^(VGroup * k))
       IN IF b < VCont
          THEN [ok |-> TRUE, end |-> p + 1, val |-> r + b * 2^(VGroup * k),
                lasts |-> <<<<b>>>>]
          ELSE [rest EXCEPT !.lasts = IF @ = <<>> THEN <<<<b>>>> ELSE @]

\* readStringVin from offset p: the length through readUint64, then
\* read() of that many bytes
StringVinFrom(p) ==
  LET v == VintFrom(p, 0, 0)
  IN IF v.ok /\ v.val <= Len(data) - v.end
     THEN [ok |-> TRUE, end |-> v.end + v.val,
           val |-> SubSeq(data, v.end + 1, v.end + v.val),
           lasts |-> <<SubSeq(data, v.end + 1, v.end + v.val)>>]
     ELSE [v EXCEPT !.ok = FALSE, !.val = <<>>]

\* lastRead after a call whose last returning read() returned `lasts`
LastOf(lasts) == IF lasts = <<>> THEN lastRead ELSE lasts[1]

ReadStringVin ==
  LET s == StringVinFrom(position)
  IN /\ ~crashed
     /\ position' = s.end
     /\ exc' = IF s.ok THEN "none" ELSE "out_of_range"
     /\ got' = IF s.ok THEN s.val ELSE got
     /\ lastRead' = LastOf(s.lasts)
     /\ UNCHANGED <<data, capacity, crashed>>

=============================================================================
