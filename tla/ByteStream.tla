----------------------------- MODULE ByteStream -----------------------------
(***************************************************************************)
(* What sylar::ByteArray promises its callers (spec.md 3 and 4.1): a       *)
(* growable byte sequence `data` (its length is m_size) with a cursor     *)
(* `position` and a capacity that grows in whole blocks.  This is the     *)
(* abstract specification: no blocks, no pointers.  ByteArray.tla is shown *)
(* to implement it (RefinesStream in MCByteArray), and the typed codecs of *)
(* ByteCodec.tla are written on top of it.                                 *)
(*                                                                         *)
(* A process that crashes loses the buffer: Crash may happen at any time,  *)
(* and nothing is observable afterwards.  That is how the implementation's *)
(* null dereferences and uses after free appear at this level, so a        *)
(* refinement of this specification says nothing about when the process   *)
(* faults; it says what the buffer holds as long as it does not.           *)
(***************************************************************************)
EXTENDS Naturals, Sequences

CONSTANTS
  BaseSize,      \* m_baseSize
  Bytes,         \* the byte values
  Lengths,       \* the lengths of raw writes and reads
  MaxCapacity    \* bound: the largest capacity

VARIABLES
  data,          \* the bytes at offsets 0 .. m_size - 1
  position,      \* m_position
  capacity,      \* m_capacity
  exc,           \* the exception the last call threw, or "none"
  lastRead,      \* the bytes the last read returned
  crashed        \* the process has died

svars == <<data, position, capacity, exc, lastRead, crashed>>

StreamInit ==
  /\ data = <<>>
  /\ position = 0
  /\ capacity = BaseSize
  /\ exc = "none"
  /\ lastRead = <<>>
  /\ crashed = FALSE

\* ensureSpare(n): append ceil((n - spare) / BaseSize) blocks
Grown(n) ==
  IF capacity - position >= n THEN capacity
  ELSE capacity + BaseSize * ((n - (capacity - position) + BaseSize - 1) \div BaseSize)

\* d with b written over it from offset p, extended as needed
Overwrite(d, p, b) ==
  [i \in 1..(IF p + Len(b) > Len(d) THEN p + Len(b) ELSE Len(d)) |->
     IF p < i /\ i <= p + Len(b) THEN b[i - p] ELSE d[i]]

\* write(buf, n)
WriteBytes(b) ==
  /\ ~crashed
  /\ Grown(Len(b)) <= MaxCapacity
  /\ position' = position + Len(b)
  /\ capacity' = Grown(Len(b))
  /\ exc' = "none"
  /\ UNCHANGED <<lastRead, crashed>>
  /\ LET d == data IN data' = Overwrite(d, position, b)

\* the caller's n-byte buffer: its i-th byte holds i, so that every offset
\* of the input is told apart
Input(n) == [i \in 1..n |-> i]

\* write(buf, n) of the caller's buffer: its bytes, in order, from the
\* cursor on (spec.md 4.1: write copies its input)
WriteInput(n) == WriteBytes(Input(n))

\* read(buf, n): NotEnoughData unless n <= m_size - m_position
ReadBytes(n) ==
  LET d == data IN
  /\ ~crashed
  /\ IF n > Len(d) - position
     THEN /\ exc' = "out_of_range"
          /\ UNCHANGED <<data, position, capacity, lastRead, crashed>>
     ELSE /\ position' = position + n
          /\ exc' = "none"
          /\ UNCHANGED <<capacity, crashed>>
          /\ lastRead' = SubSeq(d, position + 1, position + n)
          /\ UNCHANGED data

\* setPosition(v): OutOfRange past the capacity; a forward seek extends
\* m_size over bytes no write has set, whose values are unspecified
Extended(v) ==
  LET d == data IN
  IF v <= Len(d) THEN data' = d
  ELSE LET d2 == data' IN
       /\ Len(d2) = v
       /\ SubSeq(d2, 1, Len(d)) = d
       /\ \A i \in DOMAIN d2 : d2[i] \in Bytes

Seek(v) ==
  /\ ~crashed
  /\ IF v > capacity
     THEN /\ exc' = "out_of_range"
          /\ UNCHANGED <<data, position, capacity, lastRead, crashed>>
     ELSE /\ position' = v
          /\ exc' = "none"
          /\ UNCHANGED <<capacity, lastRead, crashed>>
          /\ Extended(v)

\* clear()
Reset ==
  /\ ~crashed
  /\ data' = <<>>
  /\ position' = 0
  /\ capacity' = BaseSize
  /\ exc' = "none"
  /\ UNCHANGED <<lastRead, crashed>>

Crash ==
  /\ ~crashed
  /\ crashed' = TRUE
  /\ data' = <<>> /\ position' = 0 /\ capacity' = 0
  /\ exc' = "none" /\ lastRead' = <<>>

StreamNext ==
  \/ \E n \in Lengths : WriteInput(n)
  \/ \E n \in Lengths : ReadBytes(n)
  \/ \E v \in 0..MaxCapacity + 1 : Seek(v)
  \/ Reset
  \/ Crash

StreamSpec == StreamInit /\ [][StreamNext]_svars

=============================================================================
