----------------------------- MODULE ByteArray -----------------------------
(***************************************************************************)
(* The chunk chain and cursor of sylar::ByteArray (src/sylar/bytearray.cpp)*)
(*                                                                         *)
(* The heap of Node objects is a sequence `nodes`: a node's id is its      *)
(* index, ids are never reused, and a deleted node stays in the sequence   *)
(* with its id in `freed`, so that a later dereference of it is seen as a  *)
(* use after free.  A dereference of nullptr, of a freed node, or a memcpy *)
(* past the end of a block ends the process: `fault` records it and no     *)
(* action is enabled afterwards.  A thrown std::out_of_range leaves the    *)
(* buffer as it was and is recorded in `exc`.                              *)
(*                                                                         *)
(* Bytes are abstracted to small integers: the i-th byte (1-based) of the  *)
(* buffer passed to write() holds the value i, which tells every offset of *)
(* the input apart; Garbage is a byte no write has stored.                 *)
(***************************************************************************)
EXTENDS Naturals, Sequences, FiniteSets

CONSTANTS
  BaseSize,      \* m_baseSize: the bytes of every block (new char[s])
  CtorNodeSize,  \* the value Node::Node(size_t s) stores in Node::size
  MaxNodes,      \* bound: nodes allocated over a behaviour
  SizeMod,       \* 2^w of size_t: unsigned differences wrap modulo it
  Lengths,       \* the lengths passed to write() and read()
  Offsets        \* the positions passed to the positional read()

ASSUME /\ BaseSize \in Nat \ {0}
       /\ CtorNodeSize \in Nat
       /\ MaxNodes \in Nat \ {0}
       /\ SizeMod \in Nat /\ SizeMod > 2 * MaxNodes * BaseSize
       /\ Lengths \subseteq Nat
       /\ Offsets \subseteq Nat

VARIABLES
  m_position,    \* ByteArray::m_position
  m_size,        \* ByteArray::m_size
  m_capacity,    \* ByteArray::m_capacity
  m_cur,         \* ByteArray::m_cur, a node id or Null
  nodes,         \* the Node objects ever allocated, by id; m_root is id 1
  freed,         \* ids of the nodes deleted so far
  fault,         \* how the process crashed, or "none"
  exc,           \* the exception the last call threw, or "none"
  lastRead,      \* the bytes the last read call copied into its buffer
  spans,         \* the iovecs the last getRead/WriteBuffers call pushed
  file           \* the bytes of the file writeToFile/readFromFile names

vars == <<m_position, m_size, m_capacity, m_cur, nodes, freed, fault, exc,
          lastRead, spans, file>>

Null == 0
Root == 1
Garbage == 0
MaxPosition == MaxNodes * BaseSize   \* bound: the largest capacity
Faults == {"none", "null_deref", "use_after_free", "heap_overflow", "destroyed"}

\* size_t subtraction a - b
SizeSub(a, b) == (a - b) % SizeMod

\* the bytes of the buffer passed to write(buf, n)
Payload(n) == [i \in 1..n |-> i]

\* ByteArray::Node::Node(size_t s): an uninitialised block, next = nullptr
NewNode == [next |-> Null, size |-> CtorNodeSize,
            data |-> [i \in 0..BaseSize-1 |-> Garbage]]

(***************************************************************************)
(* The buffer as a record, so that the steps of one member function can be *)
(* composed as functions from record to record.                            *)
(***************************************************************************)
Current == [pos |-> m_position, size |-> m_size, cap |-> m_capacity,
            cur |-> m_cur, nodes |-> nodes, freed |-> freed, fault |-> fault]

Apply(s) == /\ m_position' = s.pos
            /\ m_size' = s.size
            /\ m_capacity' = s.cap
            /\ m_cur' = s.cur
            /\ nodes' = s.nodes
            /\ freed' = s.freed
            /\ fault' = s.fault

\* what dereferencing pointer x does
DerefFault(s, x) == IF x = Null THEN "null_deref"
                    ELSE IF x \in s.freed THEN "use_after_free"
                    ELSE "none"

Crash(s, x) == [s EXCEPT !.fault = DerefFault(s, x)]

\* memcpy into block x at offset off
Memcpy(s, x, off, bytes) ==
  IF off + Len(bytes) > BaseSize THEN [s EXCEPT !.fault = "heap_overflow"]
  ELSE [s EXCEPT !.nodes[x].data =
          [i \in 0..BaseSize-1 |-> IF off <= i /\ i < off + Len(bytes)
                                   THEN bytes[i - off + 1] ELSE @[i]]]

\* the bytes of block x from offset off (a memcpy out of it)
Block(s, x, off, len) == [i \in 1..len |-> s.nodes[x].data[off + i - 1]]

AdvanceOnFill(s, x, npos, size) ==
  IF s.nodes[x].size = npos + size THEN s.nodes[x].next ELSE x

(***************************************************************************)
(* The chain as the code's pointers lay it out (a ghost view, not code).   *)
(***************************************************************************)
RECURSIVE NodeAtIndex(_, _, _)
NodeAtIndex(ns, x, k) ==
  IF k = 0 \/ x = Null THEN x ELSE NodeAtIndex(ns, ns[x].next, k - 1)

RECURSIVE ChainFrom(_, _)
ChainFrom(ns, x) == IF x = Null THEN {} ELSE {x} \cup ChainFrom(ns, ns[x].next)

StorageByte(ns, i) ==
  LET x == NodeAtIndex(ns, Root, i \div BaseSize)
  IN IF x = Null THEN Garbage ELSE ns[x].data[i % BaseSize]

StorageSlice(ns, p, n) == [i \in 1..n |-> StorageByte(ns, p + i - 1)]

(***************************************************************************)
(* ByteArray::addCapacity(size): grow the chain so that getCapacity(),     *)
(* m_capacity - m_position, covers size.                                   *)
(***************************************************************************)
\* `Node* temp = m_root; while (temp->next) temp = temp->next;`
RECURSIVE TailFrom(_, _)
TailFrom(s, x) ==
  IF DerefFault(s, x) # "none" THEN [node |-> x, fault |-> DerefFault(s, x)]
  ELSE IF s.nodes[x].next = Null THEN [node |-> x, fault |-> "none"]
  ELSE TailFrom(s, s.nodes[x].next)

\* `size_t count = ceil(1.0 * (size / m_baseSize));`
GrowCount(gap) == gap \div BaseSize

\* new nodes allocated but never linked after the tail
AppendNodesUnlinked(s, tail, count) ==
  LET k == Len(s.nodes)
  IN [i \in 1..k + count |->
        IF i <= k THEN s.nodes[i]
        ELSE [NewNode EXCEPT !.next = IF i < k + count THEN i + 1 ELSE Null]]

\* count new nodes linked after tail, ids Len(s.nodes)+1 .. Len(s.nodes)+count
AppendNodes(s, tail, count) ==
  LET k == Len(s.nodes)
  IN [i \in 1..k + count |->
        IF i = tail /\ count > 0 THEN [s.nodes[i] EXCEPT !.next = k + 1]
        ELSE IF i <= k THEN s.nodes[i]
        ELSE [NewNode EXCEPT !.next = IF i < k + count THEN i + 1 ELSE Null]]

AddCapacity(s, size) ==
  LET old_cap == SizeSub(s.cap, s.pos)
      count   == GrowCount(size - old_cap)
      tail    == TailFrom(s, Root)
      first   == IF count > 0 THEN Len(s.nodes) + 1 ELSE Null
  IN IF s.fault # "none" \/ size = 0 \/ old_cap >= size THEN s
     ELSE IF tail.fault # "none" THEN [s EXCEPT !.fault = tail.fault]
     ELSE [s EXCEPT !.nodes = AppendNodes(s, tail.node, count),
                    !.cap   = @ + count * BaseSize,
                    !.cur   = IF old_cap = 0 THEN first ELSE @]

(***************************************************************************)
(* ByteArray::write(buf, size)                                             *)
(***************************************************************************)
\* a copy loop whose last chunk also reads buf from its start
RECURSIVE CopyInFromStart(_, _, _, _, _, _)
CopyInFromStart(s, buf, npos, ncap, bpos, size) ==
  IF size = 0 THEN s
  ELSE IF ncap >= size THEN
    LET s1 == Memcpy(s, s.cur, npos, SubSeq(buf, 1, size))
    IN IF s1.fault # "none" THEN s1
       ELSE [s1 EXCEPT !.cur = AdvanceOnFill(s1, s1.cur, npos, size),
                       !.pos = @ + size]
  ELSE
    LET s1 == Memcpy(s, s.cur, npos, SubSeq(buf, 1, ncap))
        s2 == [s1 EXCEPT !.pos = @ + ncap, !.cur = s1.nodes[s1.cur].next]
    IN IF s1.fault # "none" THEN s1
       ELSE IF DerefFault(s2, s2.cur) # "none" THEN Crash(s2, s2.cur)
       ELSE CopyInFromStart(s2, buf, 0, s2.nodes[s2.cur].size, bpos + ncap, size - ncap)

\* the copy loop; the partial copy reads buf from its start, not buf + bpos
RECURSIVE CopyIn(_, _, _, _, _, _)
CopyIn(s, buf, npos, ncap, bpos, size) ==
  IF size = 0 THEN s
  ELSE IF ncap >= size THEN
    LET s1 == Memcpy(s, s.cur, npos, SubSeq(buf, bpos + 1, bpos + size))
    IN IF s1.fault # "none" THEN s1
       ELSE [s1 EXCEPT !.cur = AdvanceOnFill(s1, s1.cur, npos, size),
                       !.pos = @ + size]
  ELSE
    LET s1 == Memcpy(s, s.cur, npos, SubSeq(buf, 1, ncap))
        s2 == [s1 EXCEPT !.pos = @ + ncap, !.cur = s1.nodes[s1.cur].next]
    IN IF s1.fault # "none" THEN s1
       ELSE IF DerefFault(s2, s2.cur) # "none" THEN Crash(s2, s2.cur)
       ELSE CopyIn(s2, buf, 0, s2.nodes[s2.cur].size, bpos + ncap, size - ncap)

WriteBytes(s, buf) ==
  LET npos == s.pos % BaseSize
      r    == CopyIn(s, buf, npos, SizeSub(s.nodes[s.cur].size, npos), 0, Len(buf))
  IN IF s.fault # "none" THEN s
     ELSE IF DerefFault(s, s.cur) # "none" THEN Crash(s, s.cur)
     ELSE IF r.fault = "none" /\ r.pos > r.size THEN [r EXCEPT !.size = r.pos]
     ELSE r

Write(n) ==
  LET s1 == AddCapacity(Current, n)
  IN /\ fault = "none"
     /\ UNCHANGED <<spans, file>>
     /\ Len(s1.nodes) <= MaxNodes
     /\ Apply(WriteBytes(s1, Payload(n)))
     /\ exc' = "none"
     /\ UNCHANGED lastRead

(***************************************************************************)
(* ByteArray::read(buf, size) and read(buf, size, position)                *)
(***************************************************************************)
\* the copy loop of both overloads, walking the node pointer x
RECURSIVE CopyOut(_, _, _, _, _, _)
CopyOut(s, x, npos, ncap, size, out) ==
  LET done(y, o, f) == [cur |-> y, out |-> o, fault |-> f]
  IN IF size = 0 THEN done(x, out, "none")
     ELSE IF ncap >= size THEN
       IF npos + size > BaseSize THEN done(x, out, "heap_overflow")
       ELSE done(AdvanceOnFill(s, x, npos, size), out \o Block(s, x, npos, size), "none")
     ELSE IF npos + ncap > BaseSize THEN done(x, out, "heap_overflow")
     ELSE LET y == s.nodes[x].next
              o == out \o Block(s, x, npos, ncap)
          IN IF DerefFault(s, y) # "none" THEN done(y, o, DerefFault(s, y))
             ELSE CopyOut(s, y, 0, s.nodes[y].size, size - ncap, o)

\* a loop that starts at the beginning of the block, ignoring p's offset
ReadFromNodeStart(s, x, p, size) ==
  IF DerefFault(s, x) # "none" THEN [cur |-> x, out |-> <<>>, fault |-> DerefFault(s, x)]
  ELSE CopyOut(s, x, 0, s.nodes[x].size, size, <<>>)

\* the loop started at node x for logical offset p
ReadFrom(s, x, p, size) ==
  IF DerefFault(s, x) # "none" THEN [cur |-> x, out |-> <<>>, fault |-> DerefFault(s, x)]
  ELSE CopyOut(s, x, p % BaseSize, SizeSub(s.nodes[x].size, p % BaseSize), size, <<>>)

\* getReadSize(): m_size - m_position
ReadSize(s) == SizeSub(s.size, s.pos)

Read(n) ==
  LET r == ReadFrom(Current, m_cur, m_position, n)
  IN /\ fault = "none"
     /\ UNCHANGED <<spans, file>>
     /\ IF n > ReadSize(Current)
        THEN /\ exc' = "out_of_range"
             /\ UNCHANGED <<m_position, m_size, m_capacity, m_cur, nodes,
                            freed, fault, lastRead>>
        ELSE /\ m_position' = m_position + Len(r.out)
             /\ m_cur' = r.cur
             /\ fault' = r.fault
             /\ lastRead' = r.out
             /\ exc' = "none"
             /\ UNCHANGED <<m_size, m_capacity, nodes, freed>>

\* `Node* cur = m_root; while (node_index) { cur = cur->next; node_index--; }`
RECURSIVE Hop(_, _, _)
Hop(s, x, k) ==
  IF k = 0 THEN [node |-> x, fault |-> "none"]
  ELSE IF DerefFault(s, x) # "none" THEN [node |-> x, fault |-> DerefFault(s, x)]
  ELSE Hop(s, s.nodes[x].next, k - 1)

\* the overload with a position: it walks its own pointer from m_root, but
\* every copy still advances the member m_position
ReadAt(n, p) ==
  LET h == Hop(Current, Root, p \div BaseSize)
      r == ReadFrom(Current, h.node, p, n)
  IN /\ fault = "none"
     /\ UNCHANGED <<spans, file>>
     /\ m_position + n <= MaxPosition
     /\ IF n > SizeSub(m_size, p)
        THEN /\ exc' = "out_of_range"
             /\ UNCHANGED <<m_position, m_size, m_capacity, m_cur, nodes,
                            freed, fault, lastRead>>
        ELSE /\ m_position' = m_position + (IF h.fault = "none" THEN Len(r.out) ELSE 0)
             /\ fault' = IF h.fault = "none" THEN r.fault ELSE h.fault
             /\ lastRead' = IF h.fault = "none" THEN r.out ELSE <<>>
             /\ exc' = "none"
             /\ UNCHANGED <<m_size, m_capacity, m_cur, nodes, freed>>

\* toString() (and toHexString(), which formats what it returns):
\* `str.resize(getReadSize()); if (str.empty()) return str;
\*  read(&str[0], str.size(), m_position);`
ToString ==
  /\ ReadSize(Current) > 0
  /\ ReadAt(ReadSize(Current), m_position)

(***************************************************************************)
(* ByteArray::setPosition(v)                                               *)
(***************************************************************************)
\* `while (v > m_cur->size) { v -= m_cur->size; m_cur = m_cur->next; }
\*  if (v == m_cur->size) m_cur = m_cur->next;`
RECURSIVE Seek(_, _, _)
Seek(s, x, v) ==
  IF DerefFault(s, x) # "none" THEN [node |-> x, fault |-> DerefFault(s, x)]
  ELSE IF v > s.nodes[x].size THEN Seek(s, s.nodes[x].next, v - s.nodes[x].size)
  ELSE IF v = s.nodes[x].size THEN [node |-> s.nodes[x].next, fault |-> "none"]
  ELSE [node |-> x, fault |-> "none"]

\* a setPosition without the `v > m_capacity` check
SetPositionNoRangeCheck(v) ==
  LET w == Seek(Current, Root, v)
  IN /\ fault = "none"
     /\ UNCHANGED <<spans, file>>
     /\ m_position' = v
     /\ m_size' = IF v > m_size THEN v ELSE m_size
     /\ m_cur' = w.node
     /\ fault' = w.fault
     /\ exc' = "none"
     /\ UNCHANGED <<m_capacity, nodes, freed, lastRead>>

\* setPosition(v): out_of_range past the capacity; else move m_position,
\* raise m_size to it, and walk m_cur to the block holding it
SetPosition(v) ==
  LET w == Seek(Current, Root, v)
  IN /\ fault = "none"
     /\ UNCHANGED <<spans, file>>
     /\ IF v > m_capacity
        THEN /\ exc' = "out_of_range"
             /\ UNCHANGED <<m_position, m_size, m_capacity, m_cur, nodes,
                            freed, fault, lastRead>>
        ELSE /\ m_position' = v
             /\ m_size' = IF v > m_size THEN v ELSE m_size
             /\ m_cur' = w.node
             /\ fault' = w.fault
             /\ exc' = "none"
             /\ UNCHANGED <<m_capacity, nodes, freed, lastRead>>

(***************************************************************************)
(* ByteArray::clear(): delete every node after m_root.  The last statement *)
(* `m_root->next == nullptr;` compares and discards, so m_root keeps its   *)
(* pointer to the node just deleted.                                       *)
(***************************************************************************)
\* `Node* temp = m_root->next; while (temp) { m_cur = temp; temp = temp->next;
\*  delete m_cur; }`
RECURSIVE FreeChain(_, _)
FreeChain(s, x) ==
  IF x = Null THEN s
  ELSE IF x \in s.freed THEN [s EXCEPT !.fault = "use_after_free"]
  ELSE FreeChain([s EXCEPT !.freed = @ \cup {x}], s.nodes[x].next)

\* a clear() whose delete loop starts at m_root instead of m_root->next
ClearFromRoot ==
  LET s == FreeChain(Current, Root)
  IN /\ fault = "none"
     /\ UNCHANGED <<spans, file>>
     /\ m_position' = 0
     /\ m_size' = 0
     /\ m_capacity' = BaseSize
     /\ m_cur' = Root
     /\ freed' = s.freed
     /\ fault' = s.fault
     /\ exc' = "none"
     /\ UNCHANGED <<nodes, lastRead>>

Clear ==
  LET s == FreeChain(Current, nodes[Root].next)
  IN /\ fault = "none"
     /\ UNCHANGED <<spans, file>>
     /\ m_position' = 0
     /\ m_size' = 0
     /\ m_capacity' = BaseSize
     /\ m_cur' = Root
     /\ freed' = s.freed
     /\ fault' = s.fault
     /\ exc' = "none"
     /\ UNCHANGED <<nodes, lastRead>>

(***************************************************************************)
(* getReadBuffers / getWriteBuffers: the iovecs over the chain for readv   *)
(* and writev.  An iovec is [node, off, len]: `cur->ptr + npos`, length.   *)
(***************************************************************************)
\* a walk that keeps the first block's offset on every later block
RECURSIVE SpanWalkKeepOffset(_, _, _, _, _, _)
SpanWalkKeepOffset(s, x, npos, ncap, len, out) ==
  IF len = 0 THEN [out |-> out, fault |-> "none"]
  ELSE IF DerefFault(s, x) # "none" THEN [out |-> out, fault |-> DerefFault(s, x)]
  ELSE IF ncap > len
  THEN [out |-> Append(out, [node |-> x, off |-> npos, len |-> len]), fault |-> "none"]
  ELSE SpanWalkKeepOffset(s, s.nodes[x].next, npos, s.nodes[x].size - npos, len - ncap,
                          Append(out, [node |-> x, off |-> npos, len |-> ncap]))

\* the loop shared by the three functions; `ncap = cur->size` is taken
\* before `cur = cur->next`, so the next block's capacity is the current one's
RECURSIVE SpanWalk(_, _, _, _, _, _)
SpanWalk(s, x, npos, ncap, len, out) ==
  IF len = 0 THEN [out |-> out, fault |-> "none"]
  ELSE IF DerefFault(s, x) # "none" THEN [out |-> out, fault |-> DerefFault(s, x)]
  ELSE IF ncap > len
  THEN [out |-> Append(out, [node |-> x, off |-> npos, len |-> len]), fault |-> "none"]
  ELSE SpanWalk(s, s.nodes[x].next, 0, s.nodes[x].size, len - ncap,
                Append(out, [node |-> x, off |-> npos, len |-> ncap]))

\* the walk from node x at logical offset p: `ncap = cur->size - npos`
\* dereferences x first
SpansFrom(s, x, p, len) ==
  IF DerefFault(s, x) # "none" THEN [out |-> <<>>, fault |-> DerefFault(s, x)]
  ELSE SpanWalk(s, x, p % BaseSize, SizeSub(s.nodes[x].size, p % BaseSize), len, <<>>)

\* the answer of getReadBuffers: len clamped to getReadSize(); `return;` on
\* zero (the value is not used by callers that check the vector)
ExportSpans(r) ==
  /\ spans' = r.out
  /\ fault' = r.fault
  /\ exc' = "none"
  /\ UNCHANGED <<m_position, m_size, m_capacity, m_cur, nodes, freed, lastRead, file>>

ClampedLen(len) == IF len > ReadSize(Current) THEN ReadSize(Current) ELSE len

GetReadBuffers(len) ==
  /\ fault = "none"
  /\ ExportSpans(IF ClampedLen(len) = 0 THEN [out |-> <<>>, fault |-> "none"]
                 ELSE SpansFrom(Current, m_cur, m_position, ClampedLen(len)))

\* the overload with a position: it clamps len by m_size - m_position, not
\* by m_size - position, and hops `position / m_baseSize` nodes from m_root
GetReadBuffersAt(len, p) ==
  LET h == Hop(Current, Root, p \div BaseSize)
  IN /\ fault = "none"
     /\ ExportSpans(IF ClampedLen(len) = 0 THEN [out |-> <<>>, fault |-> "none"]
                    ELSE IF h.fault # "none" THEN [out |-> <<>>, fault |-> h.fault]
                    ELSE SpansFrom(Current, h.node, p, ClampedLen(len)))

\* addCapacity(len), then the walk from m_cur
GetWriteBuffers(len) ==
  LET s1 == AddCapacity(Current, len)
      r  == IF len = 0 THEN [out |-> <<>>, fault |-> "none"]
            ELSE IF s1.fault # "none" THEN [out |-> <<>>, fault |-> s1.fault]
            ELSE SpansFrom(s1, s1.cur, s1.pos, len)
  IN /\ fault = "none"
     /\ Len(s1.nodes) <= MaxNodes
     /\ Apply([s1 EXCEPT !.fault = r.fault])
     /\ spans' = r.out
     /\ exc' = "none"
     /\ UNCHANGED <<lastRead, file>>

(***************************************************************************)
(* writeToFile / readFromFile.  Opening the file may fail; then the call   *)
(* returns false and changes nothing.                                      *)
(***************************************************************************)
\* `len = (read_size > m_baseSize ? m_baseSize : read_size) - diff;
\*  ofs.write(cur->ptr + diff, len); cur = cur->next;` -- an ostream
\* writes nothing for a count that is not positive
RECURSIVE Drain(_, _, _, _, _)
Drain(s, x, pos, rs, out) ==
  IF rs <= 0 THEN [out |-> out, fault |-> "none"]
  ELSE LET diff == pos % BaseSize
           len  == (IF rs > BaseSize THEN BaseSize ELSE rs) - diff
       IN IF DerefFault(s, x) # "none" THEN [out |-> out, fault |-> DerefFault(s, x)]
          ELSE Drain(s, s.nodes[x].next, pos + len, rs - len,
                     IF len > 0 THEN out \o Block(s, x, diff, len) ELSE out)

WriteToFile ==
  LET r == Drain(Current, m_cur, m_position, ReadSize(Current), <<>>)
  IN /\ fault = "none"
     /\ \/ /\ file' = r.out
           /\ fault' = r.fault
        \/ UNCHANGED <<file, fault>>
     /\ exc' = "none"
     /\ UNCHANGED <<m_position, m_size, m_capacity, m_cur, nodes, freed, lastRead, spans>>

\* `while (!ifs.eof()) { ifs.read(buff, m_baseSize); write(buff, ifs.gcount()); }`:
\* eof is set only by a read that comes up short, so a file whose length is
\* a multiple of m_baseSize ends with a write of 0 bytes
FileChunks(f) ==
  [i \in 1..(Len(f) \div BaseSize + 1) |->
     SubSeq(f, (i - 1) * BaseSize + 1,
            IF i * BaseSize < Len(f) THEN i * BaseSize ELSE Len(f))]

RECURSIVE FillFrom(_, _)
FillFrom(s, chunks) ==
  IF chunks = <<>> \/ s.fault # "none" THEN s
  ELSE FillFrom(WriteBytes(AddCapacity(s, Len(Head(chunks))), Head(chunks)), Tail(chunks))

ReadFromFile ==
  LET s1 == FillFrom(Current, FileChunks(file))
  IN /\ fault = "none"
     /\ \/ /\ Len(s1.nodes) <= MaxNodes
           /\ Apply(s1)
        \/ UNCHANGED <<m_position, m_size, m_capacity, m_cur, nodes, freed, fault>>
     /\ exc' = "none"
     /\ UNCHANGED <<lastRead, spans, file>>

(***************************************************************************)
(* ByteArray::~ByteArray(): delete every node from m_root on.              *)
(***************************************************************************)
\* a destructor that starts at m_root->next and never deletes m_root
DestroyFromNext ==
  LET s == FreeChain(Current, nodes[Root].next)
  IN /\ fault = "none"
     /\ freed' = s.freed
     /\ fault' = IF s.fault = "none" THEN "destroyed" ELSE s.fault
     /\ UNCHANGED <<m_position, m_size, m_capacity, m_cur, nodes, exc, lastRead, spans, file>>

Destroy ==
  LET s == FreeChain(Current, Root)
  IN /\ fault = "none"
     /\ freed' = s.freed
     /\ fault' = IF s.fault = "none" THEN "destroyed" ELSE s.fault
     /\ UNCHANGED <<m_position, m_size, m_capacity, m_cur, nodes, exc, lastRead, spans, file>>

(***************************************************************************)
(* ByteArray::ByteArray(base_size) and the calls a user may make.          *)
(***************************************************************************)
Init ==
  /\ m_position = 0
  /\ m_size = 0
  /\ m_capacity = BaseSize
  /\ m_cur = Root
  /\ nodes = <<NewNode>>
  /\ freed = {}
  /\ fault = "none"
  /\ exc = "none"
  /\ lastRead = <<>>
  /\ spans = <<>>
  /\ file = <<>>

\* every call except the positional read
CursorNext ==
  \/ \E n \in Lengths : Write(n)
  \/ \E n \in Lengths : Read(n)
  \/ \E v \in 0..MaxPosition + 1 : SetPosition(v)
  \/ Clear

\* the iovec exports
ExportNext ==
  \/ \E n \in Lengths : GetReadBuffers(n) \/ GetWriteBuffers(n)
  \/ \E n \in Lengths, p \in Offsets : GetReadBuffersAt(n, p)

\* every call except the positional read, which moves m_position without
\* m_cur and so leaves a cursor no other call expects
ChainNext ==
  \/ CursorNext
  \/ ExportNext
  \/ WriteToFile
  \/ ReadFromFile
  \/ Destroy

Next ==
  \/ ChainNext
  \/ \E n \in Lengths, p \in Offsets : ReadAt(n, p)
  \/ ToString

Spec == Init /\ [][Next]_vars
CursorSpec == Init /\ [][CursorNext]_vars
ChainSpec == Init /\ [][ChainNext]_vars
DrainSpec == Init /\ [][CursorNext \/ WriteToFile]_vars

(***************************************************************************)
(* Properties                                                              *)
(***************************************************************************)
TypeOK ==
  /\ m_position \in 0..MaxPosition
  /\ m_size \in 0..MaxPosition
  /\ m_capacity \in 0..MaxPosition
  /\ m_cur \in 0..MaxNodes
  /\ nodes \in Seq([next : 0..MaxNodes, size : {CtorNodeSize},
                    data : [0..BaseSize-1 -> Nat]])
  /\ Len(nodes) \in 1..MaxNodes
  /\ freed \subseteq 1..Len(nodes)
  /\ fault \in Faults
  /\ exc \in {"none", "out_of_range"}
  /\ lastRead \in Seq(Nat)
  /\ spans \in Seq([node : 0..MaxNodes, off : Nat, len : Nat])
  /\ file \in Seq(Nat)

ReadIsStorageSlice ==
  [][\A n \in Lengths :
       (Read(n) /\ exc' = "none" /\ fault' = "none")
          => lastRead' = StorageSlice(nodes, m_position, n)]_vars

Live == (1..Len(nodes)) \ freed

\* Heap ownership of the chain (constructor, addCapacity, clear): while the
\* process runs, every node not yet deleted hangs off m_root, and
\* m_capacity counts exactly those nodes' blocks.
OwnedBlocks ==
  fault = "none" =>
    /\ Live \subseteq ChainFrom(nodes, Root)
    /\ m_capacity = BaseSize * Cardinality(Live)

\* clear() leaves no deleted node reachable from m_root while the buffer
\* is in use.
ClearReleasesChain == fault = "none" => ChainFrom(nodes, Root) \cap freed = {}

\* The positional read(buf, size, position), and toString()/toHexString()
\* that call it at m_position, leave the stream cursor alone (spec.md 4.1).
ReadAtKeepsCursor ==
  [][/\ \A n \in Lengths, p \in Offsets :
         ReadAt(n, p) => m_position' = m_position
     /\ ToString => m_position' = m_position]_vars

\* A write that completes stores its input, in order, at logical offsets
\* [m_position, m_position + n).
WriteStoresPayload ==
  [][\A n \in Lengths :
       (Write(n) /\ fault' = "none")
          => StorageSlice(nodes', m_position, n) = Payload(n)]_vars

RECURSIVE SpanBytes(_)
SpanBytes(sp) == IF sp = <<>> THEN 0 ELSE Head(sp).len + SpanBytes(Tail(sp))

\* iovecs sp cover logical offsets [p, p + n) of the chain ns in order, each
\* a non-empty piece of the one block that holds its first byte
SpansCover(sp, ns, p, n) ==
  /\ SpanBytes(sp) = n
  /\ \A i \in DOMAIN sp :
       LET at == p + SpanBytes(SubSeq(sp, 1, i - 1))
       IN /\ sp[i].len > 0
          /\ sp[i].node = NodeAtIndex(ns, Root, at \div BaseSize)
          /\ sp[i].off = at % BaseSize
          /\ sp[i].off + sp[i].len <= BaseSize

\* Span coverage (spec.md 4.5, 8): the iovecs getReadBuffers(len) pushes
\* cover exactly [m_position, m_position + min(len, m_size - m_position)),
\* and those of getWriteBuffers(len) exactly [m_position, m_position + len)
\* of the grown chain, one block per iovec, in chain order.
SpansTileChain ==
  [][\A n \in Lengths :
       /\ (GetReadBuffers(n) /\ fault' = "none")
             => SpansCover(spans', nodes, m_position, ClampedLen(n))
       /\ (GetWriteBuffers(n) /\ fault' = "none")
             => SpansCover(spans', nodes', m_position, n)]_vars

\* The destructor that completes deletes every node ever allocated: none
\* is leaked, whatever writes, clears and exports came before.
DestroyReleasesAll ==
  [][(Destroy /\ fault' = "destroyed") => freed' = 1..Len(nodes)]_vars

\* Bulk transfer (spec.md 4.6): writeToFile either fails to open the file
\* or writes exactly the readable bytes [m_position, m_size) to it, without
\* crashing the process.
DrainWritesReadable ==
  [][WriteToFile =>
       /\ fault' = "none"
       /\ file' = file \/ file' = StorageSlice(nodes, m_position, ReadSize(Current))]_vars

=============================================================================
