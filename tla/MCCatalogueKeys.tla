-------------------------- MODULE MCCatalogueKeys --------------------------
(***************************************************************************)
(* CatalogueKeys for TLC: a table t of two columns, another table u of its *)
(* schema, tables of another schema, six names.                            *)
(***************************************************************************)
EXTENDS CatalogueKeys

AB == <<"a", "b">>
BA == <<"b", "a">>

Plain(kind, name, table, columns) ==
  [kind |-> kind, name |-> name, table |-> table, columns |-> columns, owner |-> "app",
   included |-> <<>>, partition |-> <<>>, to |-> Null, toColumns |-> <<>>]

Fk(name, columns, to, toColumns) ==
  [Plain("fk", name, "t", columns) EXCEPT !.to = to, !.toColumns = toColumns]

SomeDeclarations ==
  {Plain("pk", 1, "t", BA), Plain("pk", 1, "t", AB),
   Plain("unique", 2, "t", BA), Plain("unique", 2, "u", AB),
   Fk(2, BA, <<"app", "u">>, <<"x", "y">>), Fk(3, <<"a">>, <<"other", "u">>, <<"x">>),
   Fk(3, <<"b">>, <<"app", "u">>, <<>>), Fk(4, AB, <<"other", "v">>, <<"y", "x">>),
   Plain("check", 2, "t", <<>>), Plain("check", 2, "u", <<>>), Plain("check", 3, "t", <<>>),
   Plain("index", 4, "t", BA),
   [Plain("index", 4, "t", AB) EXCEPT !.owner = "other"],
   Plain("index", 3, "t", <<Null, "a">>),
   [Plain("index", 5, "t", <<"a">>) EXCEPT !.included = <<"b">>],
   [Plain("index", 5, "t", <<"b">>) EXCEPT !.partition = <<"a">>],
   Plain("trigger", 6, "t", <<"delete", "update">>), Plain("trigger", 4, "t", <<"update">>),
   Plain("trigger", 4, "t", <<"delete", Null>>), Plain("trigger", 6, "u", <<"delete">>),
   [Plain("trigger", 6, "t", <<"update">>) EXCEPT !.owner = "other"]}

Unseen == {<<"other", "v">>}
=============================================================================
