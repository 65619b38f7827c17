-------------------------------- MODULE Rock --------------------------------
(***************************************************************************)
(* RockRequest of the rock protocol (src/sylar/rock/rock_protocol.cpp)    *)
(* serialised into and parsed out of a ByteArray.  A request is its       *)
(* Request header, then its RockBody: the body string with a varint       *)
(* length (writeStringVint / readStringVin).                              *)
(*                                                                         *)
(* Request::serializeToByteArray and parseFromByteArray (sylar/protocol.h) *)
(* are not in the repository.  Their layout is the one the comment of      *)
(* RockRequest::parseFromByteArray gives: nine bytes, the type, sn and     *)
(* cmd, through readFuint8 and readFuint32.                                *)
(*                                                                         *)
(* RockBody::parseFromByteArray calls readStringVint, which ByteArray does *)
(* not define; it is taken as the readStringVin that ByteArray does.       *)
(***************************************************************************)
EXTENDS ByteCodec

CONSTANT ReqType   \* Message::REQUEST, the type byte of a request

\* the fixed-width fields of the Request header: type, sn, cmd
HeaderWidths == <<1, 4, 4>>

\* Request::serializeToByteArray: writeFuint8(type), writeFuint32(m_sn),
\* writeFuint32(m_cmd)
RequestBytes(r) ==
  EncodeFixed(ReqType, 1) \o EncodeFixed(r.sn, 4) \o EncodeFixed(r.cmd, 4)

\* RockBody::serializeToByteArray: writeStringVint(m_body)
RockBodyBytes(r) == StringVintBytes(r.body)

\* RockRequest::serializeToByteArray: the header, then RockBody's
\* writeStringVint(m_body).  The catch(...) does not help when writeUint64
\* never returns.
RockRequestSerialize(r) ==
  IF WriteUint64Returns(Len(r.body))
  THEN WriteBytes(RequestBytes(r) \o RockBodyBytes(r))
  ELSE Crash

\* the readFuint8/readFuint32 calls of widths ws from offset p: each
\* consumes its bytes, or throws and consumes nothing
RECURSIVE FixedFrom(_, _)
FixedFrom(p, ws) ==
  IF ws = <<>> THEN [ok |-> TRUE, end |-> p, vals |-> <<>>, lasts |-> <<>>]
  ELSE IF Head(ws) > Len(data) - p
  THEN [ok |-> FALSE, end |-> p, vals |-> <<>>, lasts |-> <<>>]
  ELSE LET bs == SubSeq(data, p + 1, p + Head(ws))
           rest == FixedFrom(p + Head(ws), Tail(ws))
       IN [rest EXCEPT !.vals = <<DecodeFixed(bs, FALSE)>> \o @,
                       !.lasts = IF @ = <<>> THEN <<bs>> ELSE @]

\* RockBody::parseFromByteArray from offset p: m_body = readStringVint()
RockBodyParsed(p) == StringVinFrom(p)

\* what the reader has after a parse, in the form of the other reads: the
\* return value as 1 or 0, then m_sn, m_cmd and the bytes of m_body
RockResult(ret, sn, cmd, body) == <<IF ret THEN 1 ELSE 0, sn, cmd>> \o body

\* RockRequest::parseFromByteArray from offset p into a new request:
\* Request::parseFromByteArray assigns m_sn and m_cmd as their reads
\* return, then RockBody's readStringVin assigns m_body; a throw from any
\* read is caught and the call returns false, with the bytes read before it
\* consumed
RockRequestParsed(p) ==
  LET h == FixedFrom(p, HeaderWidths)
      b == RockBodyParsed(h.end)
      ok == h.ok /\ b.ok
  IN [ok   |-> ok,
      end  |-> IF h.ok THEN b.end ELSE h.end,
      lasts |-> IF h.ok /\ b.lasts # <<>> THEN b.lasts ELSE h.lasts,
      msg  |-> RockResult(ok, IF Len(h.vals) >= 2 THEN h.vals[2] ELSE 0,
                              IF Len(h.vals) >= 3 THEN h.vals[3] ELSE 0,
                              IF ok THEN b.val ELSE <<>>)]

\* the call; `got` is the request with what the call returned
RockRequestParse ==
  LET r == RockRequestParsed(position)
  IN /\ ~crashed
     /\ position' = r.end
     /\ exc' = "none"
     /\ got' = r.msg
     /\ lastRead' = LastOf(r.lasts)
     /\ UNCHANGED <<data, capacity, crashed>>

=============================================================================
