---------------------------- MODULE CodecSession ----------------------------
(***************************************************************************)
(* A writer and a reader of one ByteArray, the way every protocol layer   *)
(* uses it: the writer serialises a message field by field, choosing the  *)
(* byte order before any field, rewinds with setPosition(0), and the      *)
(* reader calls the read functions, with byte orders of its own.  A field *)
(* is a ByteArray codec call of ByteCodec or a whole RockRequest of Rock.  *)
(* The writer's record of what it wrote, and from which offset, is        *)
(* `fields` (bookkeeping, not code); a call that never returns records    *)
(* nothing.                                                                *)
(***************************************************************************)
EXTENDS Rock

(***************************************************************************)
(* The writer and the reader                                               *)
(***************************************************************************)
Init ==
  /\ StreamInit
  /\ m_endian = "big"
  /\ host \in Orders
  /\ phase = "write"
  /\ fields = <<>>
  /\ got = <<>>

\* the writer serialises field f with the current byte order
WriteField(f) ==
  /\ phase = "write"
  /\ Len(fields) < MaxFields
  /\ UNCHANGED <<m_endian, host, phase, got>>
  /\ \/ f.call = "fixed" /\ WriteFixed(f.value, f.w)
     \/ f.call = "float" /\ WriteFloat(f.value)
     \/ f.call = "string" /\ WriteStringF(f.value, f.w)
     \/ f.call = "vint" /\ WriteStringVint(f.value)
     \/ f.call = "raw" /\ WriteStringWithoutLength(f.value)
     \/ f.call = "rock" /\ RockRequestSerialize(f.value)
  /\ fields' = IF crashed' THEN fields
                ELSE Append(fields, [field |-> f, endian |-> m_endian, off |-> position])

\* setPosition(0) before the message is parsed
Rewind ==
  /\ phase = "write"
  /\ phase' = "read"
  /\ Seek(0)
  /\ UNCHANGED <<m_endian, host, fields, got>>

\* the reader calls the read function of field f at the current position
ReadField(f) ==
  /\ phase = "read"
  /\ UNCHANGED <<m_endian, host, phase, fields>>
  /\ \/ f.call = "fixed" /\ ReadFixed(f.w, f.signed)
     \/ f.call = "float" /\ ReadFloat
     \/ f.call = "string" /\ ReadStringF(f.w)
     \/ f.call = "vint" /\ ReadStringVin
     \/ f.call = "raw" /\ ReadStringRaw(Len(f.value))
     \/ f.call = "rock" /\ RockRequestParse

Next ==
  \/ \E val \in BOOLEAN : SetIsLittleEndian(val)
  \/ \E f \in Fields : WriteField(f)
  \/ Rewind
  \/ \E f \in Fields : ReadField(f)

Spec == Init /\ [][Next]_vars

(***************************************************************************)
(* Properties                                                              *)
(***************************************************************************)
TypeOK ==
  /\ data \in Seq(0..Radix - 1) /\ position \in 0..Len(data)
  /\ m_endian \in Orders /\ host \in Orders
  /\ phase \in {"write", "read"}
  /\ fields \in Seq([field : Fields, endian : Orders, off : Nat])
  /\ Len(fields) <= MaxFields
  /\ exc \in {"none", "out_of_range"}

\* the bytes a field takes on the wire, and their order as spec.md 6 fixes
\* it: big-endian or little-endian as m_endian says, whatever the host's
\* order; a string is its prefix, then its bytes; a varint length is
\* least significant group first whatever m_endian says; a request is its
\* header, then its body as a varint-prefixed string
Wire(r) ==
  LET f == r.field
      Fixed(v, w) == IF r.endian = "big" THEN BigBytes(Unsigned(v, w), w)
                     ELSE LittleBytes(Unsigned(v, w), w)
  IN CASE f.call = "fixed"  -> Fixed(f.value, f.w)
       [] f.call = "float"  -> Fixed(f.value, 4)
       [] f.call = "string" -> Fixed(Len(f.value), f.w) \o f.value
       [] f.call = "vint"   -> <<Len(f.value)>> \o f.value
       [] f.call = "raw"    -> f.value
       [] f.call = "rock"   -> Fixed(ReqType, 1) \o Fixed(f.value.sn, 4)
                               \o Fixed(f.value.cmd, 4)
                               \o <<Len(f.value.body)>> \o f.value.body

\* what reading field f returns
Returned(f) ==
  CASE f.call \in {"string", "vint", "raw"} -> f.value
    [] f.call = "rock" -> RockResult(TRUE, f.value.sn, f.value.cmd, f.value.body)
    [] OTHER -> <<f.value>>

FieldEnd(k) == fields[k].off + Len(Wire(fields[k]))

\* Every field the writer serialised lies in the buffer in the wire format
\* of spec.md 6, on a little- and on a big-endian host: the byteswap of
\* writeFint16 .. writeFuint32 and the prefix of writeStringF16/F32 put the
\* bytes in the order m_endian names, writeStringVint's length is not
\* swapped, and a RockRequest is its header followed by its body.  A
\* process whose writer never returned has no buffer left to read.
WireFormat ==
  ~crashed =>
  \A k \in DOMAIN fields :
    /\ FieldEnd(k) <= Len(data)
    /\ SubSeq(data, fields[k].off + 1, FieldEnd(k)) = Wire(fields[k])

\* A read call of the kind that wrote a field, made at that field's offset
\* with the byte order it was written in, returns the value written and
\* leaves the position just past the field (spec.md 8, the fixed-width and
\* string framing round trips; readFint16 .. readStringVin).  For a
\* RockRequest, parseFromByteArray returns true with the sn, cmd and body
\* that serializeToByteArray wrote.
RoundTrip ==
  [][\A k \in DOMAIN fields :
       (/\ position = fields[k].off
        /\ m_endian = fields[k].endian
        /\ ReadField(fields[k].field))
         => /\ exc' = "none"
            /\ got' = Returned(fields[k].field)
            /\ position' = FieldEnd(k)]_vars

=============================================================================
