---------------------------- MODULE VarintWrite ----------------------------
(***************************************************************************)
(* The varint writers of sylar::ByteArray (bytearray.cpp 443-473):        *)
(* writeInt32/writeInt64 zigzag the value and call writeUint32/            *)
(* writeUint64, which fill a stack array temp[] with one byte per loop     *)
(* iteration and hand temp[0..i) to write().  One call is modelled, from   *)
(* its argument to its return; the bytes handed to write() are `out`      *)
(* (what write() does with them is the ByteArray module).                 *)
(***************************************************************************)
EXTENDS Varint

CONSTANT WriteCalls   \* subset of {"writeInt32","writeUint32","writeInt64","writeUint64"}

VARIABLES
  fn,      \* the function called
  arg,     \* its argument
  value,   \* the local `value` of writeUint32/64
  i,       \* uint8_t i, the next index of temp
  temp,    \* uint8_t temp[Temp32] / temp[Temp64]
  out,     \* the bytes passed to write(temp, i)
  pc       \* "loop", "done", or "overflow" (temp[i++] past the array)

vars == <<fn, arg, value, i, temp, out, pc>>

Is64(f)     == f \in {"writeInt64", "writeUint64"}
IsSigned(f) == f \in {"writeInt32", "writeInt64"}
TempLen(f)  == IF Is64(f) THEN Temp64 ELSE Temp32
ArgsOf(f)   == IF IsSigned(f)
               THEN Signed(IF Is64(f) THEN Width64 ELSE Width32)
               ELSE Unsigned(IF Is64(f) THEN Width64 ELSE Width32)

\* writeInt32 / writeInt64: the unsigned value passed on to writeUint32/64
Zigzagged(f, v) ==
  CASE f = "writeInt32" -> EncodeZigzag32(v)
    [] f = "writeInt64" -> EncodeZigzag64(v)
    [] OTHER            -> v

\* the unsigned value the specification says is encoded for this call
RefUnsigned(f, v) == IF IsSigned(f) THEN RefZigzag(v) ELSE v

TypeOK ==
  /\ fn \in WriteCalls
  /\ value \in Nat /\ i \in 0..TempLen(fn)
  /\ temp \in [0..(TempLen(fn) - 1) -> 0..(2^(GroupBits + 1) - 1)]
  /\ out \in Seq(0..(2^(GroupBits + 1) - 1))
  /\ pc \in {"loop", "done", "overflow"}

Init ==
  /\ fn \in WriteCalls
  /\ arg \in ArgsOf(fn)
  /\ value = Zigzagged(fn, arg)
  /\ i = 0
  /\ temp = [k \in 0..(TempLen(fn) - 1) |-> 0]   \* never read before written
  /\ out = <<>>
  /\ pc = "loop"

\* the loop body with an off-by-one bound on temp
EncodeGroupPastEnd ==
  /\ pc = "loop" /\ value >= Cont /\ i <= TempLen(fn)
  /\ temp' = [temp EXCEPT ![i] = (Low & value) | Cont]
  /\ i' = i + 1
  /\ UNCHANGED <<fn, arg, value, out, pc>>

\* `temp[i++] = (0x7F & value) | 0x80; value >> 7;` -- the shift's result
\* is discarded, so value keeps its value
EncodeGroup ==
  /\ pc = "loop" /\ value >= Cont /\ i < TempLen(fn)
  /\ temp' = [temp EXCEPT ![i] = (Low & value) | Cont]
  /\ i' = i + 1
  /\ UNCHANGED <<fn, arg, value, out, pc>>

\* the same statement once i has reached the end of temp: a store past the
\* stack array
TempOverrun ==
  /\ pc = "loop" /\ value >= Cont /\ i = TempLen(fn)
  /\ pc' = "overflow"
  /\ UNCHANGED <<fn, arg, value, i, temp, out>>

\* `temp[i++] = value; write(temp, i);`
EncodeLast ==
  /\ pc = "loop" /\ value < Cont /\ i < TempLen(fn)
  /\ temp' = [temp EXCEPT ![i] = value]
  /\ i' = i + 1
  /\ out' = [k \in 1..(i + 1) |-> temp'[k - 1]]
  /\ pc' = "done"
  /\ UNCHANGED <<fn, arg, value>>

Next == EncodeGroup \/ TempOverrun \/ EncodeLast

Spec == Init /\ [][Next]_vars

(***************************************************************************)
(* Properties                                                              *)
(***************************************************************************)

\* writeInt32/writeInt64 map a signed argument to the unsigned value the
\* zigzag rule of the specification gives (n -> 2n, -n -> 2n - 1), over the
\* whole range of the type, its minimum included (EncodeZigzag32/64).
ZigzagMatchesSpec ==
  IsSigned(fn) => Zigzagged(fn, arg) = RefUnsigned(fn, arg)

\* Once the writer has finished, it has stayed inside temp[] and handed
\* write() exactly the varint groups of the value, least significant first
\* (the while loop of writeUint32/64).
EncodeMatchesSpec ==
  pc # "loop" => pc = "done" /\ out = RefVarint(RefUnsigned(fn, arg))

=============================================================================
