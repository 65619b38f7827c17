---------------------------- MODULE MCByteArray ----------------------------
(***************************************************************************)
(* ByteArray with Node::size holding the block size s, the reading every   *)
(* function after the constructor relies on (`ncap = m_cur->size - npos`). *)
(* Blocks of 2 bytes and up to 3 nodes: writes of 5 bytes cross two chunk  *)
(* boundaries, and positions reach past the largest capacity.             *)
(***************************************************************************)
EXTENDS ByteArray

MCBaseSize == 2
MCCtorNodeSize == MCBaseSize
MCMaxNodes == 3
MCSizeMod == 2^16
MCLengths == {0, 1, 2, 5}
MCOffsets == {0, 3}

\* lengths of at most 3 bytes: a copy within a block, one ending on a block
\* boundary, and one crossing into a second block, but none spanning three
\* blocks, where the payload defect would hide every other behaviour
MCShortLengths == {0, 1, 3}

(***************************************************************************)
(* Refinement: the block chain implements the byte stream of ByteStream.   *)
(* The stream's bytes are the chain's bytes at offsets 0 .. m_size - 1; a  *)
(* fault of the chain is the stream's Crash.                               *)
(***************************************************************************)
Running == fault = "none"

StreamBytes == {Garbage} \cup UNION {DOMAIN Payload(n) : n \in Lengths}

Stream == INSTANCE ByteStream
            WITH Bytes <- StreamBytes,
                 MaxCapacity <- MaxPosition,
                 data <- IF Running THEN StorageSlice(nodes, 0, m_size) ELSE <<>>,
                 position <- IF Running THEN m_position ELSE 0,
                 capacity <- IF Running THEN m_capacity ELSE 0,
                 exc <- IF Running THEN exc ELSE "none",
                 lastRead <- IF Running THEN lastRead ELSE <<>>,
                 crashed <- ~Running

\* write, read, setPosition and clear, run on the chain of blocks, behave as
\* the byte stream that spec.md 4.1 describes, or crash the process.
RefinesStream == Stream!StreamSpec

\* No guard, growth or cursor step reads a byte's value: the heap layout
\* alone decides what every call does, so states that differ only in the
\* bytes stored or last read are merged for the runs about the heap.
HeapView == <<m_position, m_size, m_capacity, m_cur, freed, fault, exc,
              [x \in DOMAIN nodes |-> nodes[x].next], spans, Len(file)>>
=============================================================================
