--------------------------- MODULE MCGenericDump ---------------------------
(***************************************************************************)
(* GenericDump for TLC: one table name in two schemas, tables of one and   *)
(* of two columns, dumps of MaxStatements statements.                      *)
(***************************************************************************)
EXTENDS GenericDump

ShortLists == {<<"a">>, <<"b", "a">>}

Plain == [allow |-> {}, exclude |-> {}, excludeExample |-> {}, hide |-> {},
          sample |-> 0, ordered |-> FALSE, views |-> FALSE]

\* Each option on and off, examples of one row and of two; where a schema is chosen
\* so are views, and its examples are excluded.
SomeOptions ==
  {Plain,
   [Plain EXCEPT !.allow = {"app"}, !.views = TRUE, !.sample = 2, !.excludeExample = {"t"}],
   [Plain EXCEPT !.exclude = {"t"}],
   [Plain EXCEPT !.sample = 1, !.ordered = TRUE],
   [Plain EXCEPT !.sample = 2, !.hide = {"a"}]}
=============================================================================
