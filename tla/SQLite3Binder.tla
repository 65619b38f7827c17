---------------------------- MODULE SQLite3Binder ----------------------------
(***************************************************************************)
(* The variadic statement calls of the SQLite3 binding                     *)
(* (src/sylar/db/sqlite3.h): SQLite3::execStmt and SQLite3::queryStmt      *)
(* create a prepared statement, bind their arguments through bindX and the *)
(* recursive SQLite3Binder templates, and run it.                          *)
(*                                                                         *)
(* The recursion over the argument pack is the operator Binder; the XX     *)
(* list of type pairs is TypeMap, and a bound value is what the implicit   *)
(* conversion of the argument to `const type2&` produces.  Integer widths  *)
(* are the constant TypeBits, so a model can scale them down.             *)
(*                                                                         *)
(* SQLite3Stmt's bodies (Create, bind, execute, query) are not in the      *)
(* repository.  They are taken as the sqlite3_prepare / sqlite3_bind_* /   *)
(* sqlite3_step calls they wrap: Create may fail, a bind at an index       *)
(* outside 1..(number of ?) returns SQLITE_RANGE, a text bind that copies  *)
(* its value (Type COPY) may return SQLITE_NOMEM, and every parameter not  *)
(* bound is NULL.                                                          *)
(***************************************************************************)
EXTENDS Integers, Sequences, FiniteSetsExt

CONSTANTS
  Stmts,      \* the SQL texts a call prepares
  Params,     \* Params[s]: the number of ? parameters of s
  Args,       \* the argument lists a call may pass, of records [type, v]
  TypeBits    \* TypeBits[t]: the width in bits of the integer type t

VARIABLES
  slots,      \* the parameters of the statement the last call created
  ret,        \* what the last call returned
  last,       \* the last call: execStmt or queryStmt, its SQL, its arguments
  ran         \* whether the last call ran its statement (execute() or query())

vars == <<slots, ret, last, ran>>

\* result codes of <sqlite3.h>
SQLITE_OK == 0
SQLITE_ERROR == 1
SQLITE_NOMEM == 7
SQLITE_RANGE == 25
SQLITE_DONE == 101

Unsigned == {"uint8_t", "uint16_t", "uint32_t", "uint64_t"}

\* mutant: uint64_t listed with the types bound as int32_t
TypeMapUint64Narrow ==
  [t \in {"char*", "const char*", "std::string", "int8_t", "uint8_t",
          "int16_t", "uint16_t", "int32_t", "uint32_t", "int64_t",
          "uint64_t", "float", "double"} |->
     CASE t \in {"char*", "const char*"}        -> "char* const"
       [] t = "std::string"                     -> "std::string"
       [] t = "int64_t"                         -> "int64_t"
       [] t \in {"float", "double"}             -> "double"
       [] OTHER                                 -> "int32_t"]

\* the XX(type, type2) list: an argument of type `type` is bound as a
\* `const type2&`
TypeMap ==
  [t \in {"char*", "const char*", "std::string", "int8_t", "uint8_t",
          "int16_t", "uint16_t", "int32_t", "uint32_t", "int64_t",
          "uint64_t", "float", "double"} |->
     CASE t \in {"char*", "const char*"}        -> "char* const"
       [] t = "std::string"                     -> "std::string"
       [] t \in {"int64_t", "uint64_t"}         -> "int64_t"
       [] t \in {"float", "double"}             -> "double"
       [] OTHER                                 -> "int32_t"]

\* the primary SQLite3Binder<N, Head, Tail...>: any argument type the XX
\* list lacks hits static_assert(sizeof...(Tail) < 0), which never holds,
\* so only argument lists of listed types compile
Supported(args) == \A i \in DOMAIN args : args[i].type \in DOMAIN TypeMap

ASSUME \A a \in Args : Supported(a)
ASSUME \A t \in DOMAIN TypeBits : TypeBits[t] > 1

\* the conversion of an integer to a signed type of width w (modular, as
\* the compiler does it)
SignedWrap(v, w) == ((v + 2^(w - 1)) % 2^w) - 2^(w - 1)

\* mutant: the argument bound as its own type, not as type2
ConvertUnconverted(a) == [kind |-> a.type, v |-> a.v]

\* the `const type2& value` an argument binds to: integers narrowed or
\* widened to int32_t or int64_t, float widened to double, text as it is
Convert(a) ==
  LET t2 == TypeMap[a.type]
  IN [kind |-> t2,
      v    |-> IF t2 \in DOMAIN TypeBits THEN SignedWrap(a.v, TypeBits[t2])
               ELSE a.v]

\* a parameter nothing was bound to
Null == [kind |-> "null", v |-> 0]

\* stmt->bind(N, value): the overload for type2 (int32_t, int64_t, double,
\* const char* or const std::string&, the last two with Type COPY); the
\* codes it may return
StmtBind(st, idx, b) ==
  IF idx < 1 \/ idx > Params[st] THEN {SQLITE_RANGE}
  ELSE IF b.kind \in {"char* const", "std::string"}
  THEN {SQLITE_OK, SQLITE_NOMEM}
  ELSE {SQLITE_OK}

\* the parameters of st after the binds in `bound`, <<index, value>> pairs
\* in the order made: a later bind at an index replaces an earlier one
SlotsAfter(st, bound) ==
  [i \in 1..Params[st] |->
     LET js == {j \in DOMAIN bound : bound[j][1] = i}
     IN IF js = {} THEN Null ELSE bound[Max(js)][2]]

\* SQLite3Binder<N, Args...>::Bind with no argument left: SQLITE_OK
BinderBase == [rt |-> SQLITE_OK, bound |-> <<>>]

\* SQLite3Binder<N, type, Tail...>::Bind of the XX macro: bind the head at
\* N; if that fails return its code, else bind the tail from N + 1.  The
\* set of outcomes: the code returned and the binds that took effect.
RECURSIVE Binder(_, _, _)
Binder(N, st, args) ==
  IF args = <<>> THEN {BinderBase}
  ELSE LET b == Convert(Head(args))
       IN UNION {IF rt # SQLITE_OK THEN {[rt |-> rt, bound |-> <<>>]}
                 ELSE {[r EXCEPT !.bound = <<<<N, b>>>> \o @] :
                         r \in Binder(N + 1, st, Tail(args))}
                 : rt \in StmtBind(st, N, b)}

\* mutant: the binder started at parameter 0
bindXFromZero(st, args) == Binder(0, st, args)

\* bindX(stmt, args...): SQLite3Binder<1, Args...>::Bind
bindX(st, args) == Binder(1, st, args)

\* what a call returns: execStmt an int, queryStmt a pointer
IntRet(n) == [ptr |-> FALSE, v |-> n]
NullPtr == [ptr |-> TRUE, v |-> 0]
DataPtr == [ptr |-> TRUE, v |-> 1]

Init ==
  /\ slots = <<>>
  /\ ret = IntRet(SQLITE_OK)
  /\ last = [op |-> "none", st |-> "none", args |-> <<>>]
  /\ ran = FALSE

\* SQLite3::execStmt(stmt, args...): Create, `if(!st) return -1;`,
\* rt = bindX(st, args...), `if(rt != SQLITE_OK) return rt;`, then
\* st->execute(), whose sqlite3_step gives SQLITE_DONE or an error
execStmt(st, args) ==
  /\ last' = [op |-> "execStmt", st |-> st, args |-> args]
  /\ \/ /\ slots' = <<>>
        /\ ret' = IntRet(-1)
        /\ ran' = FALSE
     \/ \E r \in bindX(st, args) :
          /\ slots' = SlotsAfter(st, r.bound)
          /\ \/ /\ r.rt # SQLITE_OK
                /\ ret' = IntRet(r.rt)
                /\ ran' = FALSE
             \/ /\ r.rt = SQLITE_OK
                /\ ran' = TRUE
                /\ ret' \in {IntRet(SQLITE_DONE), IntRet(SQLITE_ERROR)}

\* SQLite3::queryStmt(stmt, args...): as execStmt, but nullptr where
\* execStmt returns a code, and st->query() at the end, which gives the
\* result set or nullptr
queryStmt(st, args) ==
  /\ last' = [op |-> "queryStmt", st |-> st, args |-> args]
  /\ \/ /\ slots' = <<>>
        /\ ret' = NullPtr
        /\ ran' = FALSE
     \/ \E r \in bindX(st, args) :
          /\ slots' = SlotsAfter(st, r.bound)
          /\ \/ /\ r.rt # SQLITE_OK
                /\ ret' = NullPtr
                /\ ran' = FALSE
             \/ /\ r.rt = SQLITE_OK
                /\ ran' = TRUE
                /\ ret' \in {DataPtr, NullPtr}

Next == \E st \in Stmts, a \in Args : execStmt(st, a) \/ queryStmt(st, a)

Spec == Init /\ [][Next]_vars

-----------------------------------------------------------------------------

TypeOK ==
  /\ ret \in [ptr : BOOLEAN, v : Int]
  /\ last.op \in {"none", "execStmt", "queryStmt"}
  /\ \A i \in DOMAIN slots :
       slots[i].kind \in {"null"} \cup {TypeMap[t] : t \in DOMAIN TypeMap}

\* the return a call gives when bind number k + 1 fails with code c, and
\* the returns of a call whose statement ran
FailRet(op, c) == IF op = "execStmt" THEN IntRet(c) ELSE NullPtr
RunRets(op) ==
  IF op = "execStmt" THEN {IntRet(SQLITE_DONE), IntRet(SQLITE_ERROR)}
  ELSE {DataPtr, NullPtr}

\* Each call of execStmt / queryStmt does what a loop over its arguments
\* would, written here without the template recursion: argument i is bound
\* to parameter i; the first bind that fails ends the call with its code
\* (nullptr for queryStmt) and leaves the later parameters NULL, and the
\* statement is not run; the statement runs only when every argument was
\* bound.  A failed Create returns -1 (nullptr) with no statement.
CallMatchesReference ==
  [][LET op == last'.op
         st == last'.st
         a  == last'.args
     IN \/ /\ slots' = <<>>
           /\ ret' = FailRet(op, -1)
           /\ ~ran'
        \/ \E k \in 0..Len(a) :
             /\ DOMAIN slots' = 1..Params[st]
             /\ \A i \in 1..Params[st] :
                  slots'[i] = IF i <= k THEN Convert(a[i]) ELSE Null
             /\ k <= Params[st]
             /\ IF k = Len(a)
                THEN /\ ran'
                     /\ ret' \in RunRets(op)
                ELSE /\ ~ran'
                     /\ \E c \in StmtBind(st, k + 1, Convert(a[k + 1])) \ {SQLITE_OK} :
                          ret' = FailRet(op, c)]_vars

\* the value an integer column gives back, read as the argument's own type
CastBack(t, b) ==
  IF t \in DOMAIN TypeBits
  THEN IF t \in Unsigned THEN b.v % 2^TypeBits[t] ELSE SignedWrap(b.v, TypeBits[t])
  ELSE b.v

\* Every value SQLite3Binder binds reads back, cast to the type of the
\* argument it came from, as that argument: the XX list never binds an
\* argument as a type too narrow for it.
BoundValuesReadBack ==
  \A i \in DOMAIN slots \cap DOMAIN last.args :
    slots[i] # Null => CastBack(last.args[i].type, slots[i]) = last.args[i].v
=============================================================================
