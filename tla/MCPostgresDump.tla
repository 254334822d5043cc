--------------------------- MODULE MCPostgresDump ---------------------------
(***************************************************************************)
(* PostgresDump for TLC: one table name in two schemas, tables of one and  *)
(* of two columns, dumps of MaxStatements statements.                      *)
(***************************************************************************)
EXTENDS PostgresDump

ShortLists == {<<"a">>, <<"b", "a">>}

Plain == [allow |-> {}, exclude |-> {}, excludeExample |-> {}, hide |-> {},
          sample |-> 0, ordered |-> FALSE, views |-> TRUE, partitioned |-> TRUE]

\* Every option in one set or another.
SomeOptions ==
  {[Plain EXCEPT !.sample = 1, !.allow = {"app"}, !.excludeExample = {"t"}],
   [Plain EXCEPT !.exclude = {"t"}],
   [Plain EXCEPT !.sample = 1, !.ordered = TRUE, !.views = FALSE],
   [Plain EXCEPT !.sample = 2, !.hide = {"b"}, !.partitioned = FALSE]}
=============================================================================
