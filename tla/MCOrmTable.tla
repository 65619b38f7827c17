----------------------------- MODULE MCOrmTable -----------------------------
(***************************************************************************)
(* Two column names and two index names, so that a duplicate of either can *)
(* occur; index column lists over a declared column, both columns in       *)
(* reverse order, and a column c no <column> declares.  Two columns and    *)
(* two indexes: a second primary key, and an update of two columns.        *)
(***************************************************************************)
EXTENDS OrmTable
CONSTANTS a, b, c, i, j
MCColNames == {a, b}
MCIdxNames == {i, j}
MCIdxCols == {<<a>>, <<b, a>>, <<c>>}
MCMaxCols == 2
MCMaxIdxs == 2
=============================================================================
