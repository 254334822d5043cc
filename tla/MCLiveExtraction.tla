--------------------------- MODULE MCLiveExtraction ---------------------------
(***************************************************************************)
(* LiveExtraction for TLC: one table name in two schemas; column lists that *)
(* differ in length, in order and in one column only.                      *)
(***************************************************************************)
EXTENDS LiveExtraction

TwoSchemas == <<"app", "ops">>
ShortLists == {<<"a">>, <<"a", "b">>, <<"b", "a">>}

Plain == [exclude |-> {}, hide |-> {}, sample |-> TRUE, ordered |-> FALSE]

\* Both schemas with examples, with every column hidden, with one hidden and
\* ordered, and without examples; the last two of one schema only.
SomeRequests ==
  {Plain,
   [Plain EXCEPT !.hide = {"a", "b"}],
   [Plain EXCEPT !.hide = {"b"}, !.ordered = TRUE, !.exclude = {<<"app", "t">>}],
   [Plain EXCEPT !.sample = FALSE, !.exclude = {<<"ops", "t">>}]}
=============================================================================
