---------------------------- MODULE MCDbmlParser ----------------------------
(***************************************************************************)
(* DbmlParser for TLC: a table of the default schema, which a reference    *)
(* may spell out, and one of another schema, which one may call by an      *)
(* alias.                                                                  *)
(***************************************************************************)
EXTENDS DbmlParser

Table(schema, name) == [schema |-> schema, name |-> name]
SomeHeaders == {Table("", "users"), Table("core", "orders")}

End(schema, table, columns) == [schema |-> schema, table |-> table, columns |-> columns]
Users == End("", "users", <<"a">>)
Orders == End("core", "orders", <<"a">>)
UsersAB == End("", "users", <<"a", "b">>)
OrdersAB == End("core", "orders", <<"a", "b">>)
Alias == End("", "o", <<"a">>)
Public == End("public", "users", <<"a">>)

SomeLinks ==
  {Link(Orders, ">", Users), Link(Orders, "<", Users),
   Link(UsersAB, ">", OrdersAB), Link(Alias, "-", Public)}

Setting(name, key, ref) ==
  [name |-> name, pk |-> key, unique |-> key /\ name = "b", ref |-> ref]
SomeSettings ==
  {Setting("a", TRUE, NoRef), Setting("a", FALSE, [op |-> ">", end |-> Users]),
   Setting("b", TRUE, NoRef),
   Setting("indexes_on", FALSE, NoRef)}

SomeIndexes == {[keys |-> <<"a">>, pk |-> TRUE], [keys |-> <<"b", "a">>, pk |-> FALSE]}
=============================================================================
