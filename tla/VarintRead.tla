---------------------------- MODULE VarintRead -----------------------------
(***************************************************************************)
(* The varint readers of sylar::ByteArray (bytearray.cpp 475-506):        *)
(* readUint32/readUint64 pull one byte per loop iteration with            *)
(* readFuint8() and or it into `result` at shift i; readInt32/readInt64   *)
(* zigzag-decode what the unsigned reader returns.  One call is modelled. *)
(* The bytes available to it, `wire`, are the encoding of a value a       *)
(* correct peer wrote, or a prefix of it (the rest has not arrived yet).  *)
(* readFuint8 on an exhausted buffer throws std::out_of_range (the        *)
(* `size > getReadSize()` check of read(), bytearray.cpp 164-166).         *)
(***************************************************************************)
EXTENDS Varint

CONSTANT ReadCalls   \* subset of {"readInt32","readUint32","readInt64","readUint64"}

VARIABLES
  fn,      \* the function called
  peer,    \* the value the peer encoded
  wire,    \* the bytes readable from the ByteArray
  rpos,    \* bytes consumed by readFuint8 so far
  i,       \* the loop's shift `i`
  result,  \* the local `result`
  pc       \* "loop", "done" or "thrown"

vars == <<fn, peer, wire, rpos, i, result, pc>>

Is64(f)     == f \in {"readInt64", "readUint64"}
IsSigned(f) == f \in {"readInt32", "readInt64"}
WidthOf(f)  == IF Is64(f) THEN Width64 ELSE Width32
PeerValues(f) == IF IsSigned(f) THEN Signed(WidthOf(f)) ELSE Unsigned(WidthOf(f))

\* the bytes a peer following the specification sends for v
Encoding(f, v) == RefVarint(IF IsSigned(f) THEN RefZigzag(v) ELSE v)

\* what the called function returns, from the unsigned reader's result
Returned(f, r) ==
  CASE f = "readInt32" -> DecodeZigzag32(r)
    [] f = "readInt64" -> DecodeZigzag64(r)
    [] OTHER           -> r

\* `result |= (uintW_t)b << i`: the shift drops the bits past the width
OrAt(r, b, f) == r | ((b * 2^i) % 2^WidthOf(f))

Complete == wire = Encoding(fn, peer)

TypeOK ==
  /\ fn \in ReadCalls /\ peer \in PeerValues(fn)
  /\ rpos \in 0..Len(wire) /\ i \in Nat
  /\ result \in Unsigned(WidthOf(fn))
  /\ pc \in {"loop", "done", "thrown"}

Init ==
  /\ fn \in ReadCalls
  /\ peer \in PeerValues(fn)
  /\ wire \in {SubSeq(Encoding(fn, peer), 1, k) : k \in 0..Len(Encoding(fn, peer))}
  /\ rpos = 0 /\ i = 0 /\ result = 0
  /\ pc = "loop"

\* readFuint8() with no byte left throws out of the reader
ReadPastEnd ==
  /\ pc = "loop" /\ i < Width32 /\ rpos = Len(wire)
  /\ pc' = "thrown"
  /\ UNCHANGED <<fn, peer, wire, rpos, i, result>>

\* a continuation byte or'ed in without masking off its 0x80 bit
DecodeGroupNoMask ==
  /\ pc = "loop" /\ i < Width32 /\ rpos < Len(wire)
  /\ LET b == wire[rpos + 1] IN
       /\ b >= Cont
       /\ result' = OrAt(result, b, fn)
  /\ rpos' = rpos + 1
  /\ i' = i + GroupBits
  /\ pc' = IF i + GroupBits < Width32 THEN "loop" ELSE "done"
  /\ UNCHANGED <<fn, peer, wire>>

\* a continuation byte: `result |= ((b & 0x7F)) << i`, then `i += 7`; the
\* loop ends once i reaches 32 -- in readUint64 as well as in readUint32
DecodeGroup ==
  /\ pc = "loop" /\ i < Width32 /\ rpos < Len(wire)
  /\ LET b == wire[rpos + 1] IN
       /\ b >= Cont
       /\ result' = OrAt(result, b & Low, fn)
  /\ rpos' = rpos + 1
  /\ i' = i + GroupBits
  /\ pc' = IF i + GroupBits < Width32 THEN "loop" ELSE "done"
  /\ UNCHANGED <<fn, peer, wire>>

\* the last byte: `result |= b << i; break;`
DecodeLast ==
  /\ pc = "loop" /\ i < Width32 /\ rpos < Len(wire)
  /\ LET b == wire[rpos + 1] IN
       /\ b < Cont
       /\ result' = OrAt(result, b, fn)
  /\ rpos' = rpos + 1
  /\ pc' = "done"
  /\ UNCHANGED <<fn, peer, wire, i>>

Next == ReadPastEnd \/ DecodeGroup \/ DecodeLast

Spec == Init /\ [][Next]_vars

(***************************************************************************)
(* Properties                                                              *)
(***************************************************************************)

\* A read that returns has been given the peer's whole encoding, consumed
\* exactly it, and returns the value the peer wrote; a read of an
\* incomplete encoding throws instead (the loops of readUint32/64 and the
\* zigzag decoding of readInt32/64).
DecodeMatchesSpec ==
  pc = "done" => /\ Complete
                 /\ rpos = Len(wire)
                 /\ Returned(fn, result) = peer

=============================================================================
