------------------------------ MODULE OrmTable ------------------------------
(***************************************************************************)
(* The ORM table of src/sylar/orm/table.cpp: Table::init reads a table    *)
(* description from XML, and Table::gen then writes the C++ class that     *)
(* maps a row.  The model keeps the control of init (every early return,   *)
(* in order, and the two do-while loops over <column> and <index>), and    *)
(* of the generators of toInsertSQL and toUpdateSQL, whose output is the   *)
(* code that builds SQL at run time.                                       *)
(*                                                                         *)
(* The XML is read element by element: each step of a loop takes the next *)
(* element from a small set of possible elements, and decides whether a    *)
(* sibling follows.  Column::init and Index::init are not under src/: what *)
(* they accept is a free choice (`ok`).  Names are model values; generated *)
(* text is a sequence of tokens, a column's name standing for its name in  *)
(* the SQL and for its member's value in a value list.  A column's data    *)
(* type only chooses how a value is quoted, and is left out.               *)
(***************************************************************************)
EXTENDS Naturals, Sequences, FiniteSets, SequencesExt

CONSTANTS
  ColNames,      \* names a <column> element may carry
  IdxNames,      \* names an <index> element may carry
  IdxCols,       \* the column lists an <index cols=...> may name
  MaxCols,       \* bound: <column> elements
  MaxIdxs,       \* bound: <index> elements
  NullCol        \* the nullptr getCol returns

ASSUME NullCol \notin ColNames

\* the elements of the XML: what Column::init and Index::init read
ColElems == [name : ColNames, ok : BOOLEAN, autoinc : BOOLEAN]
IdxElems == [name : IdxNames, ok : BOOLEAN, pk : BOOLEAN, cols : IdxCols]

VARIABLES
  pc,            \* where Table::init (and then gen) is
  doc,           \* the XML read so far: [name, ns, cols, idxs]
  m_cols,        \* Table::m_cols: [name, autoinc, index]
  m_idxs,        \* Table::m_idxs: [name, pk, cols]
  col_names,     \* the local std::set col_names
  idx_names,     \* the local std::set idx_names
  has_pk,        \* the local has_pk
  result,        \* what init returned
  src            \* the generated setters, the SQL builders generated so
                 \* far, and which of those (made)

vars == <<pc, doc, m_cols, m_idxs, col_names, idx_names, has_pk, result, src>>

(***************************************************************************)
(* Table::init                                                             *)
(***************************************************************************)
\* `return false;` after logging
Fail ==
  /\ pc' = "done"
  /\ result' = FALSE

\* the name and namespace attributes: either missing returns false
Attrs ==
  /\ pc = "attrs"
  /\ \E hasName, hasNs \in BOOLEAN :
       /\ doc' = [doc EXCEPT !.name = hasName, !.ns = hasNs]
       /\ IF hasName /\ hasNs THEN pc' = "columns" /\ UNCHANGED result ELSE Fail
  /\ UNCHANGED <<m_cols, m_idxs, col_names, idx_names, has_pk, src>>

\* FirstChildElement("columns") and its FirstChildElement("column"): no
\* <columns>, or no <column> in it, returns false
Columns ==
  /\ pc = "columns"
  /\ \E found \in BOOLEAN :
       IF found THEN pc' = "column" /\ UNCHANGED result ELSE Fail
  /\ UNCHANGED <<doc, m_cols, m_idxs, col_names, idx_names, has_pk, src>>

\* a column numbered from 1: `m_index = ++index`
NewColPreIncrement(c) ==
  [name |-> c.name, autoinc |-> c.autoinc, index |-> Len(m_cols) + 1]

\* the Column of element c, numbered `col_ptr->m_index = index++`
NewCol(c) == [name |-> c.name, autoinc |-> c.autoinc, index |-> Len(m_cols)]

\* one pass of the column loop: Column::init, the duplicate-name check of
\* col_names.insert, `m_index = index++`, push_back, NextSiblingElement
Column(c, more) ==
  /\ pc = "column"
  /\ more => Len(m_cols) + 1 < MaxCols
  /\ doc' = [doc EXCEPT !.cols = Append(@, c)]
  /\ IF ~c.ok \/ c.name \in col_names
     THEN Fail /\ UNCHANGED <<m_cols, col_names>>
     ELSE /\ col_names' = col_names \cup {c.name}
          /\ m_cols' = Append(m_cols, NewCol(c))
          /\ pc' = IF more THEN "column" ELSE "indexs"
          /\ UNCHANGED result
  /\ UNCHANGED <<m_idxs, idx_names, has_pk, src>>

\* FirstChildElement("indexs") and its FirstChildElement("index")
Indexs ==
  /\ pc = "indexs"
  /\ \E found \in BOOLEAN :
       IF found THEN pc' = "index" /\ UNCHANGED result ELSE Fail
  /\ UNCHANGED <<doc, m_cols, m_idxs, col_names, idx_names, has_pk, src>>

\* the index checks without the second-primary-key check
IndexAcceptedNoPkCheck(x) ==
  /\ x.ok
  /\ x.name \notin idx_names
  /\ \A k \in DOMAIN x.cols : x.cols[k] \in col_names

\* the index checks without the look-up of its columns in col_names
IndexAcceptedAnyCols(x) ==
  /\ x.ok
  /\ x.name \notin idx_names
  /\ ~(x.pk /\ has_pk)

\* the checks of one index, in the code's order: Index::init, a duplicate
\* name, a second primary key, a column that is not in col_names
IndexAccepted(x) ==
  /\ x.ok
  /\ x.name \notin idx_names
  /\ ~(x.pk /\ has_pk)
  /\ \A k \in DOMAIN x.cols : x.cols[k] \in col_names

\* one pass of the index loop; after the last index init returns true
Index(x, more) ==
  /\ pc = "index"
  /\ more => Len(m_idxs) + 1 < MaxIdxs
  /\ doc' = [doc EXCEPT !.idxs = Append(@, x)]
  /\ IF ~IndexAccepted(x)
     THEN Fail /\ UNCHANGED <<m_idxs, idx_names, has_pk>>
     ELSE /\ idx_names' = idx_names \cup {x.name}
          /\ has_pk' = (has_pk \/ x.pk)
          /\ m_idxs' = Append(m_idxs, [name |-> x.name, pk |-> x.pk, cols |-> x.cols])
          /\ IF more THEN pc' = "index" /\ UNCHANGED result
                     ELSE pc' = "done" /\ result' = TRUE
  /\ UNCHANGED <<m_cols, col_names, src>>

(***************************************************************************)
(* The generators                                                          *)
(***************************************************************************)
\* the items of s with "," between them
Joined(s) == FoldLeft(LAMBDA acc, x : IF acc = <<>> THEN <<x>> ELSE acc \o <<",", x>>,
                      <<>>, s)

Inserted(cols) == SelectSeq(cols, LAMBDA c : ~c.autoinc)

\* genToInsertSQL: the column list is text of the generated function; the
\* value list is generated statements: `ss << ","` when !is_first, then
\* the member, then `is_first = true;`
GenToInsertSQL(cols) ==
  [cols |-> Joined([k \in DOMAIN Inserted(cols) |-> Inserted(cols)[k].name]),
   vals |-> FoldLeft(LAMBDA acc, c :
                        [stmts |-> acc.stmts \o (IF acc.first THEN <<>> ELSE <<",">>)
                                             \o <<c.name>>,
                         first |-> TRUE],
                     [stmts |-> <<>>, first |-> TRUE], Inserted(cols)).stmts]

\* an update generator whose blocks never emit `is_first = false;`
GenToUpdateSQLKeepFirst(cols) ==
  [k \in DOMAIN cols |-> [bit |-> 2^(k - 1), name |-> cols[k].name, clears |-> FALSE]]

\* genToUpdateSQL: per column i, a block `if(_flags & (1ul << i)ul)` that
\* emits "," unless is_first, then `name = value`, then clears is_first
GenToUpdateSQL(cols) ==
  [k \in DOMAIN cols |-> [bit |-> 2^(k - 1), name |-> cols[k].name, clears |-> TRUE]]

\* genToDeleteSQL: `delete from <name>` and genWhere
GenToDeleteSQL == <<"delete", "where">>

\* gen_src: getSetFunImpl(class_name, i) for m_cols[i], the setter that
\* stores the value and sets `_flags |= 1ul << i` (Column is not under
\* src/; the bit is the one genToUpdateSQL tests for position i)
GenSetters(cols) == [k \in DOMAIN cols |-> [name |-> cols[k].name, bit |-> 2^(k - 1)]]

\* Table::gen -> gen_inc, gen_src: the class header and source.  Of what
\* they write the model keeps the setters; the declarations, the
\* constructor and toJsonString are text no property reads.
Gen ==
  /\ pc = "done" /\ result
  /\ pc' = "generated"
  /\ src' = [src EXCEPT !.setters = GenSetters(m_cols)]
  /\ UNCHANGED <<doc, m_cols, m_idxs, col_names, idx_names, has_pk, result>>

\* a call of one of the public generators genToInsertSQL, genToUpdateSQL,
\* genToDeleteSQL on an initialized table: gen never calls them, so their
\* text reaches a class only if its caller adds it
GenSQL ==
  /\ result
  /\ \/ src' = [src EXCEPT !.insert = GenToInsertSQL(m_cols), !.made = @ \cup {"insert"}]
     \/ src' = [src EXCEPT !.update = GenToUpdateSQL(m_cols), !.made = @ \cup {"update"}]
     \/ src' = [src EXCEPT !.delete = GenToDeleteSQL, !.made = @ \cup {"delete"}]
  /\ UNCHANGED <<pc, doc, m_cols, m_idxs, col_names, idx_names, has_pk, result>>

\* getCol(name): the first column of that name, or nullptr
GetCol(n) == IF \E k \in DOMAIN m_cols : m_cols[k].name = n
             THEN m_cols[CHOOSE k \in DOMAIN m_cols : m_cols[k].name = n]
             ELSE NullCol

\* getPKs(): getCol of every column of every primary-key index, in order
GetPKs == FlattenSeq([k \in DOMAIN SelectSeq(m_idxs, LAMBDA x : x.pk) |->
            LET cs == SelectSeq(m_idxs, LAMBDA x : x.pk)[k].cols
            IN [j \in DOMAIN cs |-> GetCol(cs[j])]])

(***************************************************************************)
(* The generated code at run time                                          *)
(***************************************************************************)
\* the SET list toUpdateSQL() prints when the setters have set `flags`
RunUpdate(blocks, flags) ==
  FoldLeft(LAMBDA acc, b :
             IF (flags \div b.bit) % 2 = 1
             THEN [out |-> acc.out \o (IF acc.first THEN <<>> ELSE <<",">>) \o <<b.name>>,
                   first |-> IF b.clears THEN FALSE ELSE acc.first]
             ELSE acc,
           [out |-> <<>>, first |-> TRUE], blocks).out

Init ==
  /\ pc = "attrs"
  /\ doc = [name |-> FALSE, ns |-> FALSE, cols |-> <<>>, idxs |-> <<>>]
  /\ m_cols = <<>> /\ m_idxs = <<>>
  /\ col_names = {} /\ idx_names = {} /\ has_pk = FALSE
  /\ result = FALSE
  /\ src = [setters |-> <<>>, insert |-> [cols |-> <<>>, vals |-> <<>>],
             update |-> <<>>, delete |-> <<>>, made |-> {}]

Next ==
  \/ Attrs
  \/ Columns
  \/ \E c \in ColElems, more \in BOOLEAN : Column(c, more)
  \/ Indexs
  \/ \E x \in IdxElems, more \in BOOLEAN : Index(x, more)
  \/ Gen
  \/ GenSQL

\* Table::init and gen run once for a table, and the tool then exits.
Spec == Init /\ [][Next]_vars

(***************************************************************************)
(* Properties                                                              *)
(***************************************************************************)
TypeOK ==
  /\ pc \in {"attrs", "columns", "column", "indexs", "index", "done", "generated"}
  /\ m_cols \in Seq([name : ColNames, autoinc : BOOLEAN, index : 0..MaxCols - 1])
  /\ m_idxs \in Seq([name : IdxNames, pk : BOOLEAN, cols : IdxCols])
  /\ Len(m_cols) <= MaxCols /\ Len(m_idxs) <= MaxIdxs
  /\ col_names \subseteq ColNames /\ idx_names \subseteq IdxNames
  /\ has_pk \in BOOLEAN /\ result \in BOOLEAN

\* what a table description must be, by the conditions init logs as errors
ValidTable(d) ==
  LET cn == [k \in DOMAIN d.cols |-> d.cols[k].name]
      xn == [k \in DOMAIN d.idxs |-> d.idxs[k].name]
  IN /\ d.name /\ d.ns
     /\ d.cols # <<>> /\ d.idxs # <<>>
     /\ \A k \in DOMAIN d.cols : d.cols[k].ok
     /\ \A k \in DOMAIN d.idxs : d.idxs[k].ok
     /\ IsInjective(cn) /\ IsInjective(xn)
     /\ \A k, j \in DOMAIN d.idxs : d.idxs[k].pk /\ d.idxs[j].pk => k = j
     /\ \A k \in DOMAIN d.idxs : ToSet(d.idxs[k].cols) \subseteq ToSet(cn)

\* Table::init returns true exactly for the descriptions that have a name
\* and namespace, at least one column and one index, every element
\* accepted by Column::init / Index::init, no two columns or indexes of one
\* name, at most one primary key, and indexes over declared columns only;
\* the early returns of its two do-while loops reject the rest.
InitAcceptsValid ==
  pc \in {"done", "generated"} => (result <=> ValidTable(doc))

\* After a successful init every column of the primary key resolves:
\* getPKs() never hands genWhere a nullptr from getCol(), because init
\* checked each index's columns against col_names.
PKColumnsResolve ==
  result => \A k \in DOMAIN GetPKs : GetPKs[k] # NullCol

\* the _flags value after the generated setters of the columns at
\* positions S (the setters named for those columns) ran: each ORs in its bit
Flags(S) ==
  SumSet({src.setters[k].bit :
            k \in {j \in DOMAIN src.setters : \E i \in S : src.setters[j].name = m_cols[i].name}})

\* For every combination of generated setters called, the generated
\* toUpdateSQL() sets exactly those columns, in column order, separated by
\* commas: the bit gen_src's setter of a column sets is the one the
\* `_flags & (1ul << i)` block of genToUpdateSQL tests for it, and is_first
\* puts a comma before every column but the first.
UpdateSetsFlagged ==
  pc = "generated" /\ "update" \in src.made =>
    \A S \in SUBSET DOMAIN m_cols :
      RunUpdate(src.update, Flags(S)) =
        Joined([j \in 1..Cardinality(S) |-> m_cols[SetToSortSeq(S, <)[j]].name])

\* The value list of the toInsertSQL() that genToInsertSQL writes lines up
\* with its column list: one value per inserted column, separated by
\* commas as the names are (genToInsertSQL, its is_first flag).
InsertValuesMatchColumns ==
  "insert" \in src.made => src.insert.vals = src.insert.cols

=============================================================================
