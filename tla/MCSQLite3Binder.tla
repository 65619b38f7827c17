--------------------------- MODULE MCSQLite3Binder ---------------------------
(***************************************************************************)
(* Three statements with no, one and two parameters, and argument lists of *)
(* up to two arguments, so that a call binds too few, exactly enough and   *)
(* too many.  Integer widths are scaled: 8 bits to 2, 16 to 3, 32 to 4 and *)
(* 64 to 6.  Each integer argument is out of the signed range of its own   *)
(* width or of the width of a narrower type, so a conversion to a type too *)
(* narrow changes it.  Text values are numbered.                          *)
(***************************************************************************)
EXTENDS SQLite3Binder

MCStmts == {"s0", "s1", "s2"}
MCParams == [s \in MCStmts |-> CASE s = "s0" -> 0 [] s = "s1" -> 1 [] OTHER -> 2]

MCTypeBits ==
  [t \in {"int8_t", "uint8_t", "int16_t", "uint16_t", "int32_t",
          "uint32_t", "int64_t", "uint64_t"} |->
     CASE t \in {"int8_t", "uint8_t"}   -> 2
       [] t \in {"int16_t", "uint16_t"} -> 3
       [] t \in {"int32_t", "uint32_t"} -> 4
       [] OTHER                         -> 6]

MCArgVals ==
  { [type |-> "const char*", v |-> 1],
    [type |-> "std::string", v |-> 2],
    [type |-> "int8_t",      v |-> -2],
    [type |-> "uint16_t",    v |-> 7],
    [type |-> "uint32_t",    v |-> 12],
    [type |-> "int64_t",     v |-> -30],
    [type |-> "uint64_t",    v |-> 40],
    [type |-> "float",       v |-> 3] }

MCArgs == {<<>>} \cup {<<x>> : x \in MCArgVals}
                 \cup {<<x, y>> : x, y \in MCArgVals}
=============================================================================
