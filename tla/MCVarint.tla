------------------------------ MODULE MCVarint ------------------------------
(***************************************************************************)
(* One call of a 32-bit varint function of sylar::ByteArray: a writer     *)
(* (writeInt32, writeUint32) or a reader (readInt32, readUint32).  The     *)
(* writer and the reader are VarintWrite and VarintRead with their         *)
(* variables renamed apart; the side not called stays idle.               *)
(*                                                                         *)
(* Scaled widths: 3-bit groups, 8- and 16-bit integer types, and temp      *)
(* arrays of ceil(8/3) = 3 and ceil(16/3) = 6 bytes.                       *)
(***************************************************************************)
EXTENDS Naturals

GroupBits == 3
Width32   == 8
Width64   == 16
Temp32    == 3
Temp64    == 6
WriteCalls == {"writeInt32", "writeUint32"}
ReadCalls  == {"readInt32", "readUint32"}

VARIABLES side, wfn, warg, wvalue, wi, wtemp, wout, wpc,
          rfn, rpeer, rwire, rpos, ri, rresult, rpc

wvars == <<wfn, warg, wvalue, wi, wtemp, wout, wpc>>
rvars == <<rfn, rpeer, rwire, rpos, ri, rresult, rpc>>
vars == <<side, wvars, rvars>>

W == INSTANCE VarintWrite WITH fn <- wfn, arg <- warg, value <- wvalue, i <- wi,
                               temp <- wtemp, out <- wout, pc <- wpc
R == INSTANCE VarintRead WITH fn <- rfn, peer <- rpeer, wire <- rwire, rpos <- rpos,
                              i <- ri, result <- rresult, pc <- rpc

WIdle == /\ wfn = "none" /\ warg = 0 /\ wvalue = 0 /\ wi = 0
         /\ wtemp = <<>> /\ wout = <<>> /\ wpc = "idle"
RIdle == /\ rfn = "none" /\ rpeer = 0 /\ rwire = <<>> /\ rpos = 0
         /\ ri = 0 /\ rresult = 0 /\ rpc = "idle"

Init ==
  \/ side = "write" /\ W!Init /\ RIdle
  \/ side = "read" /\ R!Init /\ WIdle

Next ==
  \/ side = "write" /\ W!Next /\ UNCHANGED <<side, rvars>>
  \/ side = "read" /\ R!Next /\ UNCHANGED <<side, wvars>>

Spec == Init /\ [][Next]_vars

TypeOK ==
  /\ side = "write" => W!TypeOK
  /\ side = "read" => R!TypeOK

\* writeInt32 maps its argument by the zigzag rule of spec.md 4.3
\* (EncodeZigzag32), over the whole int32 range, INT32_MIN included.
ZigzagMatchesSpec == side = "write" => W!ZigzagMatchesSpec

\* readUint32/readInt32 return the peer's value for a complete encoding,
\* having consumed exactly it, and throw on a truncated one.
DecodeMatchesSpec == side = "read" => R!DecodeMatchesSpec
=============================================================================
