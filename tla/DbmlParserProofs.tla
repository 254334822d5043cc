--------------------------- MODULE DbmlParserProofs ---------------------------
(***************************************************************************)
(* Every property that the run of DbmlParser checks, for documents of any  *)
(* length over any tables, columns, indexes and references.                *)
(*                                                                         *)
(* The invariant is a simulation: as long as the document uses none of the *)
(* constructs that consume() does not know, the parser is in the block the *)
(* author is in, its tables are the author's up to the last line, and the  *)
(* references it has kept are those that were written, in their order;     *)
(* after the last line each table has the foreign keys of the references   *)
(* resolved so far.                                                        *)
(***************************************************************************)
EXTENDS DbmlParser, FilterProofs, FiniteSetTheorems

Starts == {"table", "ref", "enum", "note", "note:", "index", "indexes", "value", "link",
           "text", "column", "}"}
Terms == Columns \cup Starts

\* The lines that an author writes.
LineOK(line) ==
  /\ line.starts \in Starts
  /\ line.starts = "column" => line.says \in Settings
  /\ line.starts = "index" => line.says \in Indexes
  /\ line.starts = "table" => line.says \in Headers
  /\ line.starts = "ref" => line.says \in AllLinks \cup {Malformed}
  /\ line.starts = "text" => line.words < 2

SchemaNames == {h.schema : h \in Headers}
TableNames == {h.name : h \in Headers}

TableSet ==
  [schema : SchemaNames, name : TableNames, columns : Seq(Words), pk : Seq(Columns),
   uniques : Seq(Columns), indexes : Seq(Seq(Terms)), comment : BOOLEAN,
   fks : Seq({ForeignKey(l) : l \in AllLinks})]

MeantSet ==
  [schema : SchemaNames, name : TableNames, columns : Seq(Columns),
   pk : Seq(Columns), uniques : Seq(Columns), indexes : Seq(Seq(Columns)), comment : BOOLEAN]

HasHeader(t) == \E h \in Headers : h.schema = t.schema /\ h.name = t.name

\* The parser's state, whatever lines come.
ParserOK ==
  /\ TypeOK
  /\ tables \in Seq(TableSet)
  /\ \A i \in DOMAIN tables : HasHeader(tables[i])
  /\ refs \in Seq(AllLinks \cup {Malformed})
  /\ pk \in Seq(Columns)
  /\ open => Range(pk) \subseteq Range(OpenTable.columns)

\* What an author writes.
AuthorOK ==
  /\ meant \in Seq(MeantSet)
  /\ \A i \in DOMAIN meant : HasHeader(meant[i])
  /\ \A i, j \in DOMAIN meant :
       meant[i].schema = meant[j].schema /\ meant[i].name = meant[j].name => i = j
  /\ links \in Seq(AllLinks)
  /\ block \in {"table", "indexes", "note"} => meant # <<>>

Plain == shapes \subseteq {"pk index"}

\* A table of the parser is that of the author; its key is, once it is closed.
Agrees(i) ==
  LET t == tables[i]
      m == meant[i]
  IN  /\ t.schema = m.schema /\ t.name = m.name
      /\ t.columns = m.columns /\ t.uniques = m.uniques /\ t.comment = m.comment
      /\ shapes = {} => /\ t.indexes = m.indexes
                        /\ ~open \/ i # Len(tables) => t.pk = m.pk

\* Parser and author are in the same block.
InStep ==
  /\ block \in {"top", "enum", "table", "indexes"}
  /\ open <=> block \in {"table", "indexes"}
  /\ inIndexes <=> block = "indexes"
  /\ refs = links
  /\ open /\ shapes = {} => pk = Meant.pk
  /\ \A i \in DOMAIN tables : tables[i].fks = <<>>

Mirrored == Len(tables) = Len(meant) /\ \A i \in DOMAIN tables : Agrees(i)

MirrorOK ==
  Plain /\ phase # "failed" =>
    /\ Mirrored
    /\ phase = "reading" => InStep
    /\ phase # "reading" => ~open

\* The links whose foreign key a table gets.
OwnedBy(t, ls) ==
  Keep(ls, {l \in AllLinks : Owner(l).schema = t.schema /\ Owner(l).table = t.name})
KeysOf(ls) == [k \in DOMAIN ls |-> ForeignKey(ls[k])]

Resolved == Len(links) - Len(refs)

\* The references are resolved from the first on.
ResolvedOK ==
  Plain /\ phase \in {"resolving", "done"} =>
    /\ Len(refs) <= Len(links)
    /\ \A k \in 1 .. Len(refs) : refs[k] = links[Resolved + k]
    /\ \A i \in DOMAIN tables :
         tables[i].fks = KeysOf(OwnedBy(tables[i], SubSeq(links, 1, Resolved)))

RefusedOK == Plain /\ phase = "failed" => ~Strict

DoneOK == phase = "done" => refs = <<>> /\ out = Encode(tables)

IInv ==
  /\ ParserOK
  /\ AuthorOK
  /\ MirrorOK
  /\ ResolvedOK
  /\ RefusedOK
  /\ DoneOK

-----------------------------------------------------------------------------
(* Lists. *)

\* A list with another last element.
LEMMA UpdateLast ==
  ASSUME NEW T, NEW s \in Seq(T), s # <<>>, NEW u \in T
  PROVE  LET n == Len(s)
             v == [s EXCEPT ![Len(s)] = u]
         IN  /\ n \in Nat /\ n \in 1 .. n /\ DOMAIN s = 1 .. n
             /\ s[n] \in T
             /\ v \in Seq(T) /\ Len(v) = n /\ DOMAIN v = 1 .. n /\ v # <<>>
             /\ v[n] = u
             /\ \A i \in 1 .. n : i # n => v[i] = s[i]
  <1> DEFINE n == Len(s)
             v == [s EXCEPT ![Len(s)] = u]
  <1>1. n \in Nat /\ DOMAIN s = 1 .. n /\ n # 0
    OBVIOUS
  <1>2. n \in 1 .. n
    BY <1>1
  <1>3. s \in [1 .. n -> T]
    OBVIOUS
  <1>4. v \in [1 .. n -> T] /\ v[n] = u /\ \A i \in 1 .. n : i # n => v[i] = s[i]
    BY <1>2, <1>3
  <1> HIDE DEF v, n
  <1>5. v \in Seq(T) /\ Len(v) = n
    BY <1>1, <1>4
  <1>6. v # <<>>
    BY <1>1, <1>5
  <1> QED
    BY <1>1, <1>2, <1>3, <1>4, <1>5, <1>6 DEF v, n

LEMMA RangeOf ==
  ASSUME NEW T, NEW s \in Seq(T) PROVE Range(s) \subseteq T
  BY DEF Range

LEMMA Appended ==
  ASSUME NEW T, NEW s \in Seq(T), NEW e \in T
  PROVE  Append(s, e) \in Seq(T) /\ Range(Append(s, e)) = Range(s) \cup {e}
  BY RangeOfAppend, AppendParts

-----------------------------------------------------------------------------
(* The parser's state keeps its types, whatever lines come. *)

LEMMA TheOpenTable ==
  ASSUME ParserOK, open
  PROVE  /\ tables # <<>> /\ Len(tables) \in DOMAIN tables
         /\ OpenTable \in TableSet /\ HasHeader(OpenTable)
         /\ Range(OpenTable.pk) \subseteq Range(OpenTable.columns)
  <1>1. tables \in Seq(TableSet) /\ tables # <<>>
    BY DEF ParserOK, TypeOK
  <1>2. Len(tables) \in 1 .. Len(tables) /\ DOMAIN tables = 1 .. Len(tables)
    BY <1>1
  <1>3. tables[Len(tables)] \in TableSet
    BY <1>1, <1>2
  <1> QED
    BY <1>1, <1>2, <1>3 DEF ParserOK, TypeOK, OpenTable

\* The open table is replaced by one of its type; the others stay.
LEMMA UpdateOpenTypes ==
  ASSUME ParserOK, open, NEW t \in TableSet, UpdateOpen(t), HasHeader(t),
         Range(t.pk) \subseteq Range(t.columns)
  PROVE  /\ tables' \in Seq(TableSet) /\ tables' # <<>>
         /\ Len(tables') = Len(tables) /\ OpenTable' = t
         /\ \A i \in DOMAIN tables' : /\ HasHeader(tables'[i])
                                      /\ Range(tables'[i].columns) \subseteq Words
                                      /\ Range(tables'[i].pk) \subseteq Range(tables'[i].columns)
  <1> DEFINE n == Len(tables)
  <1>1. tables \in Seq(TableSet) /\ tables # <<>>
    BY TheOpenTable DEF ParserOK
  <1>2. tables' = [tables EXCEPT ![n] = t]
    BY DEF UpdateOpen
  <1>3. /\ n \in Nat /\ DOMAIN tables = 1 .. n
        /\ tables' \in Seq(TableSet) /\ Len(tables') = n /\ DOMAIN tables' = 1 .. n
        /\ tables' # <<>> /\ tables'[n] = t
        /\ \A i \in 1 .. n : i # n => tables'[i] = tables[i]
    BY <1>1, <1>2, UpdateLast
  <1>4. Range(t.columns) \subseteq Words
    BY RangeOf DEF TableSet
  <1> HIDE DEF n
  <1>5. ASSUME NEW i \in 1 .. n
        PROVE  /\ HasHeader(tables'[i])
               /\ Range(tables'[i].columns) \subseteq Words
               /\ Range(tables'[i].pk) \subseteq Range(tables'[i].columns)
    <2>1. CASE i = n
      BY <1>3, <1>4, <2>1
    <2>2. CASE i # n
      BY <1>3, <2>2 DEF ParserOK, TypeOK
    <2> QED
      BY <2>1, <2>2
  <1> QED
    BY <1>3, <1>5 DEF OpenTable, n

\* Outside a table: a new one, a reference, or nothing.
LEMMA OutsideTypes ==
  ASSUME ParserOK, NEW line, LineOK(line), phase = "reading", ~open, ConsumeOutside(line)
  PROVE  ParserOK'
  <1>1. UNCHANGED <<phase, inIndexes>> /\ ~inIndexes
    BY DEF ConsumeOutside, ParserOK, TypeOK
  <1>2. refs' \in Seq(AllLinks \cup {Malformed})
    BY DEF ConsumeOutside, ParserOK, LineOK
  <1>3. CASE line.starts # "table"
    <2>1. UNCHANGED <<tables, open, pk>>
      BY <1>3 DEF ConsumeOutside
    <2> QED
      BY <1>1, <1>2, <2>1 DEF ParserOK, TypeOK
  <1>4. CASE line.starts = "table"
    <2> DEFINE h == line.says
               t == NewTable(h)
    <2>1. h \in Headers /\ tables' = Append(tables, t) /\ open' = TRUE /\ pk' = <<>>
      BY <1>4 DEF ConsumeOutside, LineOK
    <2>2. t \in TableSet /\ t.columns = <<>> /\ t.pk = <<>>
      BY <2>1, EmptySeq DEF NewTable, TableSet, SchemaNames, TableNames
    <2>3. HasHeader(t)
      BY <2>1 DEF NewTable, HasHeader
    <2>4. Range(<<>>) = {}
      BY EmptyDomain DEF Range
    <2>5. tables \in Seq(TableSet)
      BY DEF ParserOK
    <2> HIDE DEF h, t
    <2> DEFINE n == Len(tables)
    <2>6. /\ n \in Nat /\ DOMAIN tables = 1 .. n
          /\ tables' \in Seq(TableSet) /\ Len(tables') = n + 1 /\ DOMAIN tables' = 1 .. n + 1
          /\ \A i \in 1 .. n : tables'[i] = tables[i]
          /\ tables'[n + 1] = t
      BY <2>1, <2>2, <2>5, AppendParts
    <2>7. tables' # <<>>
      BY <2>6
    <2> HIDE DEF n
    <2>8. ASSUME NEW i \in 1 .. n + 1
          PROVE  /\ HasHeader(tables'[i])
                 /\ Range(tables'[i].columns) \subseteq Words
                 /\ Range(tables'[i].pk) \subseteq Range(tables'[i].columns)
      <3>1. CASE i = n + 1
        BY <2>2, <2>3, <2>4, <2>6, <3>1
      <3>2. CASE i # n + 1
        <4>1. i \in 1 .. n
          BY <2>6, <3>2
        <4> QED
          BY <2>6, <4>1 DEF ParserOK, TypeOK
      <3> QED
        BY <3>1, <3>2
    <2>9. TypeOK'
      BY <1>1, <2>1, <2>4, <2>6, <2>7, <2>8 DEF ParserOK, TypeOK
    <2> QED
      BY <1>2, <2>1, <2>4, <2>6, <2>8, <2>9, EmptySeq DEF ParserOK
  <1> QED
    BY <1>3, <1>4

LEMMA InlineLinks ==
  ASSUME NEW t, HasHeader(t), NEW c \in Settings, c.ref # NoRef
  PROVE  InlineLink(t, c) \in AllLinks
  <1>1. PICK h \in Headers : h.schema = t.schema /\ h.name = t.name
    BY DEF HasHeader
  <1>2. InlineLink(t, c) = InlineLink(h, c)
    BY <1>1 DEF InlineLink
  <1>3. InlineLink(h, c) \in {InlineLink(g, d) : g \in Headers, d \in {d \in Settings : d.ref # NoRef}}
    OBVIOUS
  <1> QED
    BY <1>2, <1>3 DEF AllLinks

\* A column joins the open table, and its key and its references with it.
LEMMA ColumnTypes ==
  ASSUME ParserOK, NEW line, LineOK(line), phase = "reading", open, ~inIndexes,
         line.starts \notin {"}", "indexes", "note:", "text"}, Column(line)
  PROVE  ParserOK'
  <1> DEFINE t == OpenTable
             c == line.says
  <1>1. UNCHANGED <<phase, open, inIndexes>>
    BY DEF Column
  <1>2. t \in TableSet /\ HasHeader(t) /\ Range(t.pk) \subseteq Range(t.columns)
    BY TheOpenTable
  <1>3. Range(pk) \subseteq Range(t.columns) /\ pk \in Seq(Columns)
    BY DEF ParserOK
  <1>4. t.columns \in Seq(Words) /\ Columns \subseteq Words
    BY <1>2 DEF TableSet, Words
  <1> HIDE DEF t, c
  <1>5. CASE line.starts = "column"
    <2> DEFINE u == WithColumn(t, c)
               e == c.name
    <2>1. c \in Settings /\ UpdateOpen(u) /\ Set(c)
      BY <1>5 DEF Column, LineOK, t, c
    <2>2. e \in Columns /\ e \in Words /\ c.unique \in BOOLEAN
      BY <1>4, <2>1, ConstantsOK
    <2> HIDE DEF e
    <2>3. /\ Append(t.columns, e) \in Seq(Words)
          /\ Range(Append(t.columns, e)) = Range(t.columns) \cup {e}
      <3>1. t.columns \in Seq(Words)
        BY <1>4
      <3>2. e \in Words
        BY <2>2
      <3> QED
        BY <3>1, <3>2, Appended, Zenon
    <2>4. Append(t.uniques, e) \in Seq(Columns) /\ t.uniques \in Seq(Columns)
      <3>1. t.uniques \in Seq(Columns)
        BY <1>2 DEF TableSet
      <3> QED
        BY <2>2, <3>1, Appended, Zenon
    <2>5. u = [t EXCEPT !.columns = Append(@, e),
                        !.uniques = IF c.unique THEN Append(@, e) ELSE @]
      BY DEF WithColumn, e
    <2>6. u.columns = Append(t.columns, e) /\ u.pk = t.pk /\ u.schema = t.schema
          /\ u.name = t.name /\ u \in TableSet
      BY <1>2, <2>3, <2>4, <2>5 DEF TableSet
    <2>7. HasHeader(u)
      BY <1>2, <2>6 DEF HasHeader
    <2> HIDE DEF u
    <2>8. /\ tables' \in Seq(TableSet) /\ tables' # <<>> /\ OpenTable' = u
          /\ \A i \in DOMAIN tables' : /\ HasHeader(tables'[i])
                                       /\ Range(tables'[i].columns) \subseteq Words
                                       /\ Range(tables'[i].pk) \subseteq Range(tables'[i].columns)
      BY <1>2, <2>1, <2>3, <2>6, <2>7, UpdateOpenTypes
    <2>9. pk' \in Seq(Columns) /\ Range(pk') \subseteq Range(u.columns)
      <3>1. pk' = IF c.pk THEN Append(pk, e) ELSE pk
        BY <2>1 DEF Set, e
      <3>2. Append(pk, e) \in Seq(Columns) /\ Range(Append(pk, e)) = Range(pk) \cup {e}
        <4>1. pk \in Seq(Columns)
          BY <1>3
        <4>2. e \in Columns
          BY <2>2
        <4> QED
          BY <4>1, <4>2, Appended, Zenon
      <3> QED
        BY <1>3, <2>3, <2>6, <3>1, <3>2
    <2>10. refs' \in Seq(AllLinks \cup {Malformed})
      <3>1. refs \in Seq(AllLinks \cup {Malformed})
        BY DEF ParserOK
      <3>2. CASE c.ref = NoRef
        BY <2>1, <3>1, <3>2 DEF Set
      <3>3. CASE c.ref # NoRef
        <4> DEFINE link == InlineLink(t, c)
        <4>1. refs' = Append(refs, link)
          BY <2>1, <3>3 DEF Set, t
        <4>2. link \in AllLinks
          BY <1>2, <2>1, <3>3, InlineLinks
        <4> HIDE DEF link
        <4> QED
          <5>1. link \in AllLinks \cup {Malformed}
            BY <4>2
          <5> QED
            BY <3>1, <4>1, <5>1, Appended, Zenon
      <3> QED
        BY <3>2, <3>3
    <2>11. Range(pk') \subseteq Columns
      BY <2>9, RangeOf
    <2> QED
      BY <1>1, <2>8, <2>9, <2>10, <2>11 DEF ParserOK, TypeOK
  <1>6. CASE line.starts # "column"
    <2> DEFINE u == [t EXCEPT !.columns = Append(@, line.starts)]
               e == line.starts
    <2>1. UpdateOpen(u) /\ UNCHANGED <<pk, refs>>
      BY <1>6 DEF Column, t
    <2>2. e \in Words
      BY <1>6 DEF LineOK, Starts, Words
    <2>3. u = [t EXCEPT !.columns = Append(@, e)]
      OBVIOUS
    <2> HIDE DEF e, u
    <2>4. /\ Append(t.columns, e) \in Seq(Words)
          /\ Range(Append(t.columns, e)) = Range(t.columns) \cup {e}
      <3>1. t.columns \in Seq(Words)
        BY <1>4
      <3>2. e \in Words
        BY <2>2
      <3> QED
        BY <3>1, <3>2, Appended, Zenon
    <2>5. u.columns = Append(t.columns, e) /\ u.pk = t.pk /\ u.schema = t.schema
          /\ u.name = t.name /\ u \in TableSet
      BY <1>2, <2>3, <2>4 DEF TableSet
    <2>6. HasHeader(u)
      BY <1>2, <2>5 DEF HasHeader
    <2>7. /\ tables' \in Seq(TableSet) /\ tables' # <<>> /\ OpenTable' = u
          /\ \A i \in DOMAIN tables' : /\ HasHeader(tables'[i])
                                       /\ Range(tables'[i].columns) \subseteq Words
                                       /\ Range(tables'[i].pk) \subseteq Range(tables'[i].columns)
      BY <1>2, <2>1, <2>4, <2>5, <2>6, UpdateOpenTypes
    <2> QED
      BY <1>1, <1>3, <2>1, <2>4, <2>5, <2>7 DEF ParserOK, TypeOK
  <1> QED
    BY <1>5, <1>6

\* Another change of the open table that leaves its columns and its key alone.
LEMMA DetailTypes ==
  ASSUME ParserOK, open, NEW t \in TableSet, UpdateOpen(t),
         t.schema = OpenTable.schema, t.name = OpenTable.name,
         t.columns = OpenTable.columns, Range(t.pk) \subseteq Range(t.columns),
         UNCHANGED <<phase, refs, pk>>,
         open' \in BOOLEAN, inIndexes' \in BOOLEAN, inIndexes' => open'
  PROVE  ParserOK'
  <1>1. HasHeader(t)
    BY TheOpenTable DEF HasHeader
  <1>2. /\ tables' \in Seq(TableSet) /\ tables' # <<>> /\ OpenTable' = t
        /\ \A i \in DOMAIN tables' : /\ HasHeader(tables'[i])
                                     /\ Range(tables'[i].columns) \subseteq Words
                                     /\ Range(tables'[i].pk) \subseteq Range(tables'[i].columns)
    BY <1>1, UpdateOpenTypes
  <1> QED
    BY <1>2 DEF ParserOK, TypeOK

LEMMA ConsumeTypes ==
  ASSUME ParserOK, NEW line, LineOK(line), phase = "reading", Consume(line)
  PROVE  ParserOK'
  <1>1. CASE ~open /\ ConsumeOutside(line)
    BY <1>1, OutsideTypes
  <1>2. open \in BOOLEAN /\ inIndexes \in BOOLEAN
    BY DEF ParserOK, TypeOK
  <1>3. CASE open /\ inIndexes /\ InIndexes(line)
    <2>1. CASE line.starts = "}"
      BY <1>2, <1>3, <2>1 DEF InIndexes, ParserOK, TypeOK, OpenTable
    <2>2. CASE line.starts # "}"
      <3> DEFINE entry == IF line.starts = "index" THEN line.says.keys ELSE <<line.starts>>
                 t == [OpenTable EXCEPT !.indexes = Append(@, entry)]
      <3>1. UpdateOpen(t) /\ UNCHANGED <<phase, open, inIndexes, refs, pk>>
        BY <1>3, <2>2 DEF InIndexes, Index
      <3>2. entry \in Seq(Terms)
        <4>1. line.starts = "index" => line.says.keys \in Seq(Columns)
          BY ConstantsOK DEF LineOK
        <4>2. line.starts \in Terms /\ Columns \subseteq Terms
          BY DEF LineOK, Terms
        <4>3. <<line.starts>> \in Seq(Terms)
          BY <4>2
        <4> QED
          BY <4>1, <4>2, <4>3, SeqMonotonic
      <3>3. OpenTable \in TableSet /\ Range(OpenTable.pk) \subseteq Range(OpenTable.columns)
        BY <1>3, TheOpenTable
      <3> HIDE DEF entry
      <3>4. Append(OpenTable.indexes, entry) \in Seq(Seq(Terms))
        BY <3>2, <3>3 DEF TableSet
      <3>5. /\ t \in TableSet /\ t.schema = OpenTable.schema /\ t.name = OpenTable.name
            /\ t.columns = OpenTable.columns /\ t.pk = OpenTable.pk
        BY <3>3, <3>4 DEF TableSet
      <3> QED
        BY <1>2, <1>3, <3>1, <3>3, <3>5, DetailTypes
    <2> QED
      BY <2>1, <2>2
  <1>4. CASE open /\ ~inIndexes /\ InTable(line)
    <2>1. OpenTable \in TableSet /\ Range(OpenTable.pk) \subseteq Range(OpenTable.columns)
          /\ Range(pk) \subseteq Range(OpenTable.columns) /\ pk \in Seq(Columns)
      BY <1>4, TheOpenTable DEF ParserOK
    <2>2. CASE CloseTable
      <3> DEFINE t == [OpenTable EXCEPT !.pk = pk]
      <3>1. /\ t \in TableSet /\ t.schema = OpenTable.schema /\ t.name = OpenTable.name
            /\ t.columns = OpenTable.columns /\ t.pk = pk
        BY <2>1 DEF TableSet
      <3>2. UpdateOpen(t) /\ open' = FALSE /\ UNCHANGED <<phase, inIndexes, refs, pk>>
        BY <2>2 DEF CloseTable
      <3> QED
        BY <1>2, <1>4, <2>1, <3>1, <3>2, DetailTypes
    <2>3. CASE inIndexes' = TRUE /\ UNCHANGED <<phase, tables, open, refs, pk>>
      BY <1>4, <2>3 DEF ParserOK, TypeOK, OpenTable
    <2>4. CASE /\ UpdateOpen([OpenTable EXCEPT !.comment = TRUE])
               /\ UNCHANGED <<phase, open, inIndexes, refs, pk>>
      <3> DEFINE t == [OpenTable EXCEPT !.comment = TRUE]
      <3>1. /\ t \in TableSet /\ t.schema = OpenTable.schema /\ t.name = OpenTable.name
            /\ t.columns = OpenTable.columns /\ t.pk = OpenTable.pk
        BY <2>1 DEF TableSet
      <3> QED
        BY <1>2, <1>4, <2>1, <2>4, <3>1, DetailTypes
    <2>5. CASE /\ line.starts \notin {"}", "indexes", "note:"}
               /\ IF line.words < 2 THEN Refuse ELSE Column(line)
      <3>1. CASE Refuse
        BY <3>1 DEF Refuse, ParserOK, TypeOK, OpenTable
      <3>2. CASE ~(line.words < 2) /\ Column(line)
        <4>1. line.starts # "text"
          BY <3>2 DEF LineOK
        <4> QED
          BY <1>4, <2>5, <3>2, <4>1, ColumnTypes
      <3> QED
        BY <2>5, <3>1, <3>2
    <2> QED
      BY <1>4, <2>2, <2>3, <2>4, <2>5 DEF InTable
  <1> QED
    BY <1>1, <1>3, <1>4 DEF Consume

-----------------------------------------------------------------------------
(* What the author writes keeps its types, and the parser follows. *)

\* The type of the table that the author is in.
LEMMA TheMeantTable ==
  ASSUME AuthorOK, meant # <<>>
  PROVE  /\ Len(meant) \in DOMAIN meant
         /\ Meant \in MeantSet /\ HasHeader(Meant)
  <1>1. meant \in Seq(MeantSet)
    BY DEF AuthorOK
  <1>2. Len(meant) \in 1 .. Len(meant) /\ DOMAIN meant = 1 .. Len(meant)
    BY <1>1
  <1>3. meant[Len(meant)] \in MeantSet
    BY <1>1, <1>2
  <1> QED
    BY <1>2, <1>3 DEF AuthorOK, Meant

\* The author's table is replaced by one of the same name.
LEMMA UpdateMeantTypes ==
  ASSUME AuthorOK, meant # <<>>, NEW m \in MeantSet, UpdateMeant(m),
         m.schema = Meant.schema, m.name = Meant.name,
         links' \in Seq(AllLinks)
  PROVE  AuthorOK' /\ meant' # <<>> /\ Len(meant') = Len(meant) /\ Meant' = m
  <1> DEFINE n == Len(meant)
  <1>1. meant \in Seq(MeantSet) /\ HasHeader(m)
    BY TheMeantTable DEF AuthorOK, HasHeader
  <1>2. meant' = [meant EXCEPT ![n] = m]
    BY DEF UpdateMeant
  <1>3. /\ n \in Nat /\ DOMAIN meant = 1 .. n
        /\ meant' \in Seq(MeantSet) /\ Len(meant') = n /\ DOMAIN meant' = 1 .. n
        /\ meant' # <<>> /\ meant'[n] = m
        /\ \A i \in 1 .. n : i # n => meant'[i] = meant[i]
    BY <1>1, <1>2, UpdateLast
  <1>4. m.schema = meant[n].schema /\ m.name = meant[n].name
    BY DEF Meant
  <1> HIDE DEF n
  <1>5. \A i \in 1 .. n : meant'[i].schema = meant[i].schema /\ meant'[i].name = meant[i].name
    BY <1>3, <1>4
  <1>6. \A i \in 1 .. n : HasHeader(meant'[i])
    BY <1>1, <1>3, <1>5 DEF AuthorOK
  <1>7. \A i, j \in DOMAIN meant' :
          meant'[i].schema = meant'[j].schema /\ meant'[i].name = meant'[j].name => i = j
    BY <1>3, <1>5 DEF AuthorOK
  <1> QED
    BY <1>3, <1>6, <1>7 DEF AuthorOK, Meant, n

\* Both last tables are replaced, by ones that agree.
LEMMA UpdateBoth ==
  ASSUME ParserOK, AuthorOK, tables # <<>>, Mirrored, shapes \subseteq shapes',
         NEW t \in TableSet, UpdateOpen(t), NEW m \in MeantSet, UpdateMeant(m),
         ~open' \/ open,
         t.schema = m.schema, t.name = m.name, t.columns = m.columns,
         t.uniques = m.uniques, t.comment = m.comment,
         shapes' = {} => t.indexes = m.indexes,
         shapes' = {} /\ ~open' => t.pk = m.pk,
         t.fks = OpenTable.fks, \A i \in DOMAIN tables : tables[i].fks = <<>>
  PROVE  Mirrored' /\ Meant' = m /\ \A i \in DOMAIN tables' : tables'[i].fks = <<>>
  <1> DEFINE n == Len(tables)
  <1>1. tables \in Seq(TableSet) /\ meant \in Seq(MeantSet) /\ n = Len(meant) /\ meant # <<>>
    BY DEF ParserOK, AuthorOK, Mirrored
  <1>2. tables' = [tables EXCEPT ![Len(tables)] = t] /\ meant' = [meant EXCEPT ![Len(meant)] = m]
    BY DEF UpdateOpen, UpdateMeant
  <1>3. /\ n \in Nat /\ DOMAIN tables = 1 .. n /\ Len(tables') = n /\ DOMAIN tables' = 1 .. n
        /\ n \in 1 .. n /\ tables'[n] = t
        /\ \A i \in 1 .. n : i # n => tables'[i] = tables[i]
    BY <1>1, <1>2, UpdateLast
  <1>4. /\ Len(meant') = n /\ meant'[n] = m
        /\ \A i \in 1 .. n : i # n => meant'[i] = meant[i]
    BY <1>1, <1>2, UpdateLast
  <1>5. OpenTable.fks = <<>>
    BY <1>3 DEF OpenTable, n
  <1> HIDE DEF n
  <1>6. ASSUME NEW i \in 1 .. n
        PROVE  Agrees(i)' /\ tables'[i].fks = <<>>
    <2>1. CASE i = n
      BY <1>3, <1>4, <1>5, <2>1 DEF Agrees
    <2>2. CASE i # n
      <3>1. Agrees(i) /\ tables[i].fks = <<>>
        BY <1>3 DEF Mirrored
      <3>2. tables'[i] = tables[i] /\ meant'[i] = meant[i] /\ Len(tables) = n
        BY <1>3, <1>4, <2>2 DEF n
      <3>3. shapes' = {} => shapes = {}
        OBVIOUS
      <3> QED
        BY <2>2, <3>1, <3>2, <3>3 DEF Agrees
    <2> QED
      BY <2>1, <2>2
  <1> QED
    BY <1>3, <1>4, <1>6 DEF Mirrored, Meant

LEMMA ConsumePhase ==
  ASSUME NEW line, phase = "reading", Consume(line)
  PROVE  phase' \in {"reading", "failed"}
  BY DEF Consume, ConsumeOutside, InIndexes, Index, InTable, CloseTable, Refuse, Column

\* A line is written and consumed: what is left to show is that the author
\* keeps the types and that the parser is in step after it.
LEMMA Written ==
  ASSUME IInv, phase = "reading", NEW line, LineOK(line), Consume(line),
         shapes \subseteq shapes', AuthorOK',
         Plain' /\ Plain /\ Mirrored /\ InStep => phase' = "reading" /\ Mirrored' /\ InStep'
  PROVE  IInv'
  <1>1. ParserOK'
    BY ConsumeTypes DEF IInv
  <1>2. phase' \in {"reading", "failed"}
    BY ConsumePhase
  <1>3. Plain' => Plain /\ Mirrored /\ InStep
    BY DEF IInv, MirrorOK, Plain
  <1>4. Plain' => phase' = "reading" /\ Mirrored' /\ InStep'
    BY <1>3
  <1>5. MirrorOK' /\ ResolvedOK' /\ RefusedOK' /\ DoneOK'
    BY <1>2, <1>4 DEF MirrorOK, ResolvedOK, RefusedOK, DoneOK
  <1> QED
    BY <1>1, <1>5 DEF IInv

\* A construct that is not plain leaves nothing to show.
LEMMA NotPlain ==
  ASSUME NEW x, x # "pk index", Uses({x})
  PROVE  ~Plain' /\ shapes \subseteq shapes'
  BY DEF Uses, Plain

LEMMA TableStep ==
  ASSUME IInv, NEW h \in Headers, NEW oneLine \in BOOLEAN, WriteTable(h, oneLine)
  PROVE  IInv'
  <1> DEFINE line == Line("table", 2, h)
             t == NewTable(h)
             m == MeantTable(h)
             n == Len(meant)
  <1>1. /\ phase = "reading" /\ block = "top" /\ links' = links /\ Consume(line)
        /\ shapes \subseteq shapes' /\ (oneLine => ~Plain')
    BY NotPlain DEF WriteTable, CanWrite, Write, Uses
  <1>2. LineOK(line) /\ line.starts = "table" /\ line.says = h
    BY DEF LineOK, Line, Starts
  <1>3. m \in MeantSet /\ m.schema = h.schema /\ m.name = h.name
    BY EmptySeq DEF MeantTable, MeantSet, SchemaNames, TableNames
  <1>4. meant \in Seq(MeantSet) /\ meant' = Append(meant, m)
        /\ block' = IF oneLine THEN "top" ELSE "table"
    BY DEF IInv, AuthorOK, WriteTable, Wrote
  <1>5. \A i \in DOMAIN meant : ~(meant[i].schema = h.schema /\ meant[i].name = h.name)
    BY DEF WriteTable, SameTable, Space
  <1>6. m.columns = <<>> /\ m.pk = <<>> /\ m.uniques = <<>> /\ m.indexes = <<>> /\ m.comment = FALSE
    BY DEF MeantTable
  <1>7. /\ t.schema = h.schema /\ t.name = h.name /\ t.columns = <<>> /\ t.pk = <<>>
        /\ t.uniques = <<>> /\ t.indexes = <<>> /\ t.comment = FALSE /\ t.fks = <<>>
    BY DEF NewTable
  <1> HIDE DEF m, line, t
  <1>8. /\ n \in Nat /\ DOMAIN meant = 1 .. n
        /\ meant' \in Seq(MeantSet) /\ Len(meant') = n + 1 /\ DOMAIN meant' = 1 .. n + 1
        /\ \A i \in 1 .. n : meant'[i] = meant[i]
        /\ meant'[n + 1] = m
    BY <1>3, <1>4, AppendParts
  <1> HIDE DEF n
  <1>9. AuthorOK'
    <2>1. \A i \in 1 .. n + 1 : HasHeader(meant'[i])
      BY <1>3, <1>8 DEF IInv, AuthorOK, HasHeader
    <2>2. \A i \in 1 .. n + 1 : i = n + 1 \/ i \in 1 .. n
      BY <1>8
    <2>3. \A i, j \in 1 .. n + 1 :
            meant'[i].schema = meant'[j].schema /\ meant'[i].name = meant'[j].name => i = j
      BY <1>3, <1>5, <1>8, <2>2 DEF IInv, AuthorOK
    <2>4. meant' # <<>>
      BY <1>8
    <2> QED
      BY <1>1, <1>4, <1>8, <2>1, <2>3, <2>4 DEF IInv, AuthorOK
  <1>10. ASSUME Plain', Plain, Mirrored, InStep
         PROVE  phase' = "reading" /\ Mirrored' /\ InStep'
    <2>1. ~oneLine /\ ~open /\ ~inIndexes /\ refs = links /\ block' = "table"
      BY <1>1, <1>4, <1>10 DEF InStep
    <2>2. /\ tables' = Append(tables, t) /\ open' = TRUE /\ pk' = <<>> /\ refs' = refs
          /\ phase' = phase /\ inIndexes' = inIndexes
      BY <1>1, <1>2, <2>1 DEF Consume, ConsumeOutside, t
    <2>3. tables \in Seq(TableSet) /\ Len(tables) = n
      BY <1>10 DEF IInv, ParserOK, Mirrored, n
    <2>4. t \in TableSet
      BY EmptySeq DEF t, NewTable, TableSet, SchemaNames, TableNames
    <2>5. /\ Len(tables') = n + 1 /\ DOMAIN tables' = 1 .. n + 1 /\ DOMAIN tables = 1 .. n
          /\ \A i \in 1 .. n : tables'[i] = tables[i]
          /\ tables'[n + 1] = t
      BY <2>2, <2>3, <2>4, AppendParts
    <2>6. ASSUME NEW i \in 1 .. n + 1
          PROVE  Agrees(i)' /\ tables'[i].fks = <<>>
      <3>1. CASE i = n + 1
        BY <1>3, <1>6, <1>7, <1>8, <2>5, <3>1 DEF Agrees
      <3>2. CASE i # n + 1
        <4>1. i \in 1 .. n
          BY <1>8, <3>2
        <4>2. Agrees(i) /\ tables[i].fks = <<>>
          BY <1>10, <2>5, <4>1 DEF Mirrored, InStep
        <4>3. tables'[i] = tables[i] /\ meant'[i] = meant[i]
          BY <1>8, <2>5, <4>1
        <4>4. shapes' = {} => shapes = {}
          BY <1>1
        <4> QED
          BY <2>1, <4>2, <4>3, <4>4 DEF Agrees
      <3> QED
        BY <3>1, <3>2
    <2>7. Mirrored'
      BY <1>8, <2>5, <2>6 DEF Mirrored
    <2>8. Meant'.pk = <<>>
      BY <1>6, <1>8 DEF Meant
    <2> QED
      BY <1>1, <2>1, <2>2, <2>5, <2>6, <2>7, <2>8 DEF InStep
  <1> QED
    BY <1>1, <1>2, <1>9, <1>10, Written

\* The author is in a table or in its indexes; so is the parser, if in step.
LEMMA InTableTogether ==
  ASSUME IInv, block \in {"table", "indexes"}
  PROVE  /\ AuthorOK /\ meant # <<>> /\ Meant \in MeantSet
         /\ Mirrored /\ InStep =>
              /\ open /\ tables # <<>> /\ OpenTable \in TableSet
              /\ inIndexes = (block = "indexes")
              /\ OpenTable.schema = Meant.schema /\ OpenTable.name = Meant.name
              /\ OpenTable.columns = Meant.columns /\ OpenTable.uniques = Meant.uniques
              /\ OpenTable.comment = Meant.comment
              /\ shapes = {} => OpenTable.indexes = Meant.indexes
  <1>1. AuthorOK /\ meant # <<>>
    BY DEF IInv, AuthorOK
  <1>2. ASSUME Mirrored, InStep
        PROVE  /\ open /\ inIndexes = (block = "indexes")
               /\ tables # <<>> /\ OpenTable \in TableSet /\ Agrees(Len(tables))
    <2>1. open
      BY <1>2 DEF InStep
    <2>2. tables # <<>> /\ Len(tables) \in DOMAIN tables /\ OpenTable \in TableSet
      BY <2>1, TheOpenTable DEF IInv
    <2>3. inIndexes = (block = "indexes")
      BY <1>2 DEF InStep, IInv, ParserOK, TypeOK
    <2> QED
      BY <1>2, <2>1, <2>2, <2>3 DEF Mirrored
  <1>3. Mirrored => Len(tables) = Len(meant)
    BY DEF Mirrored
  <1> QED
    BY <1>1, <1>2, <1>3, TheMeantTable DEF Agrees, OpenTable, Meant

LEMMA ColumnStep ==
  ASSUME IInv, NEW c \in Settings, WriteColumn(c)
  PROVE  IInv'
  <1> DEFINE line == Line(IF c.name \in Prefixed THEN "indexes" ELSE "column", 2, c)
             m == [WithColumn(Meant, c) EXCEPT !.pk = IF c.pk THEN Append(@, c.name) ELSE @]
             t == WithColumn(OpenTable, c)
             e == c.name
  <1>1. /\ phase = "reading" /\ block = "table" /\ Consume(line) /\ block' = "table"
        /\ shapes \subseteq shapes' /\ UpdateMeant(m)
        /\ (e \in Prefixed => ~Plain')
    BY NotPlain DEF WriteColumn, CanWrite, Write, Wrote, Uses
  <1>2. LineOK(line) /\ (line.starts = "column" => line.says = c)
        /\ line.words = 2
        /\ (e \notin Prefixed => line.starts = "column")
    BY DEF LineOK, Line, Starts
  <1>3. e \in Columns /\ e \in Words
    BY ConstantsOK DEF Words
  <1>4. AuthorOK /\ meant # <<>> /\ Meant \in MeantSet
    BY <1>1, InTableTogether
  <1>5. links' = IF c.ref = NoRef THEN links ELSE Append(links, InlineLink(Meant, c))
    BY DEF WriteColumn
  <1> DEFINE cs == Append(Meant.columns, e)
             ks == Append(Meant.pk, e)
             us == Append(Meant.uniques, e)
  <1>6. cs \in Seq(Columns) /\ ks \in Seq(Columns) /\ us \in Seq(Columns)
    <2>1. Meant.columns \in Seq(Columns)
      BY <1>4 DEF MeantSet
    <2>2. Meant.pk \in Seq(Columns)
      BY <1>4 DEF MeantSet
    <2>3. Meant.uniques \in Seq(Columns)
      BY <1>4 DEF MeantSet
    <2>4. e \in Columns
      BY <1>3
    <2> HIDE DEF e
    <2>5. cs \in Seq(Columns)
      BY <2>1, <2>4, Appended, Zenon
    <2>6. ks \in Seq(Columns)
      BY <2>2, <2>4, Appended, Zenon
    <2>7. us \in Seq(Columns)
      BY <2>3, <2>4, Appended, Zenon
    <2> QED
      BY <2>5, <2>6, <2>7
  <1>7. /\ m = [Meant EXCEPT !.columns = cs,
                             !.uniques = IF c.unique THEN us ELSE @,
                             !.pk = IF c.pk THEN ks ELSE @]
    BY <1>4 DEF WithColumn, MeantSet
  <1> HIDE DEF m, cs, ks, us, e, line
  <1>8. /\ m \in MeantSet /\ m.schema = Meant.schema /\ m.name = Meant.name
        /\ m.columns = cs /\ m.uniques = (IF c.unique THEN us ELSE Meant.uniques)
        /\ m.pk = (IF c.pk THEN ks ELSE Meant.pk)
        /\ m.comment = Meant.comment /\ m.indexes = Meant.indexes
    BY <1>4, <1>6, <1>7 DEF MeantSet
  <1>9. links' \in Seq(AllLinks)
    <2>1. links \in Seq(AllLinks)
      BY <1>4 DEF AuthorOK
    <2>2. CASE c.ref = NoRef
      BY <1>5, <2>1, <2>2
    <2>3. CASE c.ref # NoRef
      <3>1. InlineLink(Meant, c) \in AllLinks
        BY <1>4, <2>3, TheMeantTable, InlineLinks
      <3>2. links' = Append(links, InlineLink(Meant, c))
        BY <1>5, <2>3
      <3> QED
        BY <2>1, <3>1, <3>2, Appended, Zenon
    <2> QED
      BY <2>2, <2>3
  <1>10. AuthorOK'
    BY <1>1, <1>4, <1>8, <1>9, UpdateMeantTypes
  <1>11. ASSUME Plain', Plain, Mirrored, InStep
         PROVE  phase' = "reading" /\ Mirrored' /\ InStep'
    <2>1. /\ open /\ ~inIndexes /\ tables # <<>> /\ OpenTable \in TableSet
          /\ OpenTable.schema = Meant.schema /\ OpenTable.name = Meant.name
          /\ OpenTable.columns = Meant.columns /\ OpenTable.uniques = Meant.uniques
          /\ OpenTable.comment = Meant.comment
          /\ shapes = {} => OpenTable.indexes = Meant.indexes
      BY <1>1, <1>11, InTableTogether
    <2>2. line.starts = "column" /\ line.says = c
      BY <1>1, <1>2, <1>11
    <2>3. Column(line)
      BY <1>1, <1>2, <2>1, <2>2 DEF Consume, InTable
    <2>4. UpdateOpen(t) /\ Set(c) /\ UNCHANGED <<phase, open, inIndexes>>
      BY <2>2, <2>3 DEF Column
    <2>5. t = [OpenTable EXCEPT !.columns = cs, !.uniques = IF c.unique THEN us ELSE @]
      BY <2>1 DEF WithColumn, TableSet, cs, us, e
    <2>6. cs \in Seq(Words)
      <3>1. Columns \subseteq Words
        BY DEF Words
      <3> QED
        BY <1>6, <3>1, SeqMonotonic
    <2> HIDE DEF t
    <2>7. /\ t \in TableSet /\ t.schema = OpenTable.schema /\ t.name = OpenTable.name
          /\ t.columns = cs /\ t.uniques = (IF c.unique THEN us ELSE Meant.uniques)
          /\ t.comment = OpenTable.comment /\ t.indexes = OpenTable.indexes
          /\ t.fks = OpenTable.fks
      BY <1>6, <2>1, <2>5, <2>6 DEF TableSet
    <2>8. /\ ParserOK /\ \A i \in DOMAIN tables : tables[i].fks = <<>>
          /\ shapes' = {} => shapes = {}
      BY <1>1, <1>11 DEF IInv, InStep
    <2>9. Mirrored' /\ Meant' = m /\ \A i \in DOMAIN tables' : tables'[i].fks = <<>>
      BY <1>1, <1>4, <1>8, <1>11, <2>1, <2>4, <2>7, <2>8, UpdateBoth
    <2>10. refs' = links'
      BY <1>5, <1>11, <2>1, <2>4 DEF InStep, Set, InlineLink
    <2>11. shapes' = {} => pk' = m.pk
      BY <1>8, <1>11, <2>1, <2>4, <2>8 DEF InStep, Set, ks, e
    <2> QED
      BY <1>1, <1>11, <2>1, <2>4, <2>9, <2>10, <2>11 DEF InStep
  <1> QED
    BY <1>1, <1>2, <1>10, <1>11, Written

\* A detail is added to the last table of both.
LEMMA DetailStep ==
  ASSUME IInv, block \in {"table", "indexes"}, block' = block, phase = "reading",
         NEW line, LineOK(line), Consume(line), shapes \subseteq shapes', links' = links,
         NEW m \in MeantSet, UpdateMeant(m),
         m.schema = Meant.schema, m.name = Meant.name, m.columns = Meant.columns,
         m.uniques = Meant.uniques, shapes' = {} => m.pk = Meant.pk,
         ASSUME open, Mirrored, InStep, Plain'
         PROVE  \E t \in TableSet :
                  /\ UpdateOpen(t) /\ UNCHANGED <<phase, open, inIndexes, refs, pk>>
                  /\ t.schema = OpenTable.schema /\ t.name = OpenTable.name
                  /\ t.columns = OpenTable.columns /\ t.uniques = OpenTable.uniques
                  /\ t.fks = OpenTable.fks /\ t.comment = m.comment
                  /\ shapes' = {} => t.indexes = m.indexes
  PROVE  IInv'
  <1>1. AuthorOK /\ meant # <<>> /\ links \in Seq(AllLinks)
    BY InTableTogether DEF AuthorOK
  <1>2. AuthorOK' /\ Meant' = m
    BY <1>1, UpdateMeantTypes
  <1>3. ASSUME Plain', Plain, Mirrored, InStep
        PROVE  phase' = "reading" /\ Mirrored' /\ InStep'
    <2>1. /\ open /\ tables # <<>>
          /\ OpenTable.schema = Meant.schema /\ OpenTable.name = Meant.name
          /\ OpenTable.columns = Meant.columns /\ OpenTable.uniques = Meant.uniques
      BY <1>3, InTableTogether
    <2>2. PICK t \in TableSet :
            /\ UpdateOpen(t) /\ UNCHANGED <<phase, open, inIndexes, refs, pk>>
            /\ t.schema = OpenTable.schema /\ t.name = OpenTable.name
            /\ t.columns = OpenTable.columns /\ t.uniques = OpenTable.uniques
            /\ t.fks = OpenTable.fks /\ t.comment = m.comment
            /\ shapes' = {} => t.indexes = m.indexes
      BY <1>3, <2>1
    <2>3. /\ ParserOK /\ \A i \in DOMAIN tables : tables[i].fks = <<>>
          /\ shapes' = {} => shapes = {}
      BY <1>3 DEF IInv, InStep
    <2>4. Mirrored' /\ Meant' = m /\ \A i \in DOMAIN tables' : tables'[i].fks = <<>>
      BY <1>1, <1>3, <2>1, <2>2, <2>3, UpdateBoth
    <2> QED
      BY <1>3, <2>1, <2>2, <2>3, <2>4 DEF InStep
  <1> QED
    BY <1>2, <1>3, Written

LEMMA CommentStep == ASSUME IInv, WriteComment PROVE IInv'
  <1> DEFINE line == Line("note:", 2, NoRef)
             m == [Meant EXCEPT !.comment = TRUE]
             t == [OpenTable EXCEPT !.comment = TRUE]
  <1>1. /\ phase = "reading" /\ block = "table" /\ Consume(line) /\ block' = "table"
        /\ links' = links /\ shapes' = shapes /\ UpdateMeant(m)
    BY DEF WriteComment, CanWrite, Write, Wrote
  <1>2. LineOK(line) /\ line.starts = "note:"
    BY DEF LineOK, Line, Starts
  <1>3. Meant \in MeantSet
    BY <1>1, InTableTogether
  <1>4. /\ m \in MeantSet /\ m.schema = Meant.schema /\ m.name = Meant.name
        /\ m.columns = Meant.columns /\ m.uniques = Meant.uniques /\ m.pk = Meant.pk
        /\ m.comment = TRUE /\ m.indexes = Meant.indexes
    BY <1>3 DEF MeantSet
  <1> HIDE DEF m, line
  <1>5. ASSUME open, Mirrored, InStep, Plain'
        PROVE  \E u \in TableSet :
                 /\ UpdateOpen(u) /\ UNCHANGED <<phase, open, inIndexes, refs, pk>>
                 /\ u.schema = OpenTable.schema /\ u.name = OpenTable.name
                 /\ u.columns = OpenTable.columns /\ u.uniques = OpenTable.uniques
                 /\ u.fks = OpenTable.fks /\ u.comment = m.comment
                 /\ shapes' = {} => u.indexes = m.indexes
    <2>1. /\ OpenTable \in TableSet /\ ~inIndexes
          /\ shapes = {} => OpenTable.indexes = Meant.indexes
      BY <1>1, <1>5, InTableTogether
    <2>2. UpdateOpen(t) /\ UNCHANGED <<phase, open, inIndexes, refs, pk>>
      BY <1>1, <1>2, <1>5, <2>1 DEF Consume, InTable
    <2>3. /\ t \in TableSet /\ t.schema = OpenTable.schema /\ t.name = OpenTable.name
          /\ t.columns = OpenTable.columns /\ t.uniques = OpenTable.uniques
          /\ t.fks = OpenTable.fks /\ t.comment = TRUE /\ t.indexes = OpenTable.indexes
      BY <2>1 DEF TableSet
    <2> HIDE DEF t
    <2> QED
      BY <1>1, <1>4, <2>1, <2>2, <2>3
  <1>6. block \in {"table", "indexes"} /\ block' = block /\ shapes \subseteq shapes'
    BY <1>1
  <1> QED
    BY <1>1, <1>2, <1>4, <1>5, <1>6, DetailStep

LEMMA IndexStep == ASSUME IInv, NEW i \in Indexes, WriteIndex(i) PROVE IInv'
  <1> DEFINE line == Line("index", 2, i)
             m == IF i.pk THEN [Meant EXCEPT !.pk = i.keys]
                  ELSE [Meant EXCEPT !.indexes = Append(@, i.keys)]
             ix == Append(Meant.indexes, i.keys)
             t == [OpenTable EXCEPT !.indexes = Append(@, i.keys)]
             iy == Append(OpenTable.indexes, i.keys)
  <1>1. /\ phase = "reading" /\ block = "indexes" /\ Consume(line) /\ block' = "indexes"
        /\ links' = links /\ shapes \subseteq shapes' /\ UpdateMeant(m)
        /\ (i.pk => shapes' # {})
    BY DEF WriteIndex, CanWrite, Write, Wrote, Uses
  <1>2. LineOK(line) /\ line.starts = "index" /\ line.says = i
    BY DEF LineOK, Line, Starts
  <1>3. Meant \in MeantSet
    BY <1>1, InTableTogether
  <1>4. i.keys \in Seq(Columns)
    BY ConstantsOK
  <1>5. ix \in Seq(Seq(Columns))
    <2>1. Meant.indexes \in Seq(Seq(Columns))
      BY <1>3 DEF MeantSet
    <2> QED
      BY <1>4, <2>1, Appended, Zenon
  <1> HIDE DEF ix
  <1>6. /\ m \in MeantSet /\ m.schema = Meant.schema /\ m.name = Meant.name
        /\ m.columns = Meant.columns /\ m.uniques = Meant.uniques /\ m.comment = Meant.comment
        /\ (i.pk \/ m.pk = Meant.pk) /\ (i.pk \/ m.indexes = ix)
    <2>1. CASE i.pk
      BY <1>3, <1>4, <2>1 DEF MeantSet
    <2>2. CASE ~i.pk
      <3>1. m = [Meant EXCEPT !.indexes = ix]
        BY <1>3, <2>2 DEF MeantSet, ix
      <3> HIDE DEF m
      <3> QED
        BY <1>3, <1>5, <2>2, <3>1 DEF MeantSet
    <2> QED
      BY <2>1, <2>2
  <1> HIDE DEF m, line
  <1>7. ASSUME open, Mirrored, InStep, Plain'
        PROVE  \E u \in TableSet :
                 /\ UpdateOpen(u) /\ UNCHANGED <<phase, open, inIndexes, refs, pk>>
                 /\ u.schema = OpenTable.schema /\ u.name = OpenTable.name
                 /\ u.columns = OpenTable.columns /\ u.uniques = OpenTable.uniques
                 /\ u.fks = OpenTable.fks /\ u.comment = m.comment
                 /\ shapes' = {} => u.indexes = m.indexes
    <2>1. /\ OpenTable \in TableSet /\ inIndexes
          /\ OpenTable.comment = Meant.comment
          /\ shapes = {} => OpenTable.indexes = Meant.indexes
      BY <1>1, <1>7, InTableTogether
    <2>2. UpdateOpen(t) /\ UNCHANGED <<phase, open, inIndexes, refs, pk>>
      BY <1>1, <1>2, <1>7, <2>1 DEF Consume, InIndexes, Index
    <2>3. iy \in Seq(Seq(Terms))
      <3>1. OpenTable.indexes \in Seq(Seq(Terms))
        BY <2>1 DEF TableSet
      <3>2. Columns \subseteq Terms
        BY DEF Terms
      <3>3. i.keys \in Seq(Terms)
        BY <1>4, <3>2, SeqMonotonic
      <3> QED
        BY <3>1, <3>3, Appended, Zenon
    <2>4. t = [OpenTable EXCEPT !.indexes = iy]
      BY <2>1 DEF TableSet
    <2>5. shapes' = {} => ~i.pk /\ iy = ix
      BY <1>1, <2>1 DEF ix
    <2> HIDE DEF t, iy
    <2>6. /\ t \in TableSet /\ t.schema = OpenTable.schema /\ t.name = OpenTable.name
          /\ t.columns = OpenTable.columns /\ t.uniques = OpenTable.uniques
          /\ t.fks = OpenTable.fks /\ t.comment = OpenTable.comment /\ t.indexes = iy
      BY <2>1, <2>3, <2>4 DEF TableSet
    <2> QED
      BY <1>6, <2>1, <2>2, <2>5, <2>6
  <1>8. block \in {"table", "indexes"} /\ block' = block /\ (shapes' = {} => m.pk = Meant.pk)
    BY <1>1, <1>6
  <1> QED
    BY <1>1, <1>2, <1>6, <1>7, <1>8, DetailStep

\* No table is touched: the author keeps the types.
LEMMA SameMeant ==
  ASSUME AuthorOK, meant' = meant, links' = links,
         block' \in {"table", "indexes", "note"} => block \in {"table", "indexes", "note"}
  PROVE  AuthorOK'
  BY DEF AuthorOK

\* Nor has the parser changed one.
LEMMA SameTables ==
  ASSUME Mirrored, InStep, tables' = tables, meant' = meant, shapes \subseteq shapes',
         ~open \/ open'
  PROVE  Mirrored' /\ \A i \in DOMAIN tables' : tables'[i].fks = <<>>
  <1>1. shapes' = {} => shapes = {}
    OBVIOUS
  <1>2. ASSUME NEW i \in DOMAIN tables
        PROVE  Agrees(i)'
    BY <1>1 DEF Mirrored, Agrees
  <1> QED
    BY <1>2 DEF Mirrored, InStep

LEMMA IndexesStep == ASSUME IInv, WriteIndexes PROVE IInv'
  <1> DEFINE line == Line("indexes", 2, NoRef)
  <1>1. /\ phase = "reading" /\ block = "table" /\ Consume(line) /\ block' = "indexes"
        /\ links' = links /\ shapes' = shapes /\ meant' = meant
    BY DEF WriteIndexes, CanWrite, Write, Wrote
  <1>2. LineOK(line) /\ line.starts = "indexes"
    BY DEF LineOK, Line, Starts
  <1> HIDE DEF line
  <1>3. AuthorOK'
    BY <1>1, SameMeant DEF IInv
  <1>4. ASSUME Plain', Plain, Mirrored, InStep
        PROVE  phase' = "reading" /\ Mirrored' /\ InStep'
    <2>1. open /\ inIndexes = FALSE
      BY <1>1, <1>4, InTableTogether
    <2>2. inIndexes' = TRUE /\ UNCHANGED <<phase, tables, open, refs, pk>>
      BY <1>1, <1>2, <2>1 DEF Consume, InTable
    <2>3. Mirrored' /\ (\A i \in DOMAIN tables' : tables'[i].fks = <<>>) /\ Meant' = Meant
      BY <1>1, <1>4, <2>2, SameTables DEF Meant
    <2> QED
      BY <1>1, <1>4, <2>1, <2>2, <2>3 DEF InStep
  <1> QED
    BY <1>1, <1>2, <1>3, <1>4, Written

\* Outside a table the parser does nothing with a line of another kind.
LEMMA SkippedStep ==
  ASSUME IInv, phase = "reading", NEW line, LineOK(line), Consume(line),
         meant' = meant, links' = links, shapes \subseteq shapes',
         Plain' => /\ block \in {"top", "enum"} /\ block' \in {"top", "enum"}
                   /\ line.starts \notin {"ref", "table"},
         block' \in {"table", "indexes", "note"} => block \in {"table", "indexes", "note"}
  PROVE  IInv'
  <1>1. AuthorOK'
    BY SameMeant DEF IInv
  <1>2. ASSUME Plain', Plain, Mirrored, InStep
        PROVE  phase' = "reading" /\ Mirrored' /\ InStep'
    <2>1. ~open /\ ~inIndexes
      BY <1>2 DEF InStep
    <2>2. UNCHANGED <<phase, tables, open, inIndexes, refs, pk>>
      BY <1>2, <2>1 DEF Consume, ConsumeOutside
    <2>3. Mirrored' /\ \A i \in DOMAIN tables' : tables'[i].fks = <<>>
      BY <1>2, <2>2, SameTables
    <2> QED
      BY <1>2, <2>1, <2>2, <2>3 DEF InStep
  <1> QED
    BY <1>1, <1>2, Written

LEMMA NoteStep == ASSUME IInv, WriteNote PROVE IInv'
  <1> DEFINE line == Line("note", 2, NoRef)
  <1>1. /\ phase = "reading" /\ block = "table" /\ Consume(line)
        /\ links' = links /\ shapes \subseteq shapes' /\ meant' = meant /\ ~Plain'
    BY NotPlain DEF WriteNote, CanWrite, Write, Wrote
  <1>2. LineOK(line)
    BY DEF LineOK, Line, Starts
  <1> HIDE DEF line
  <1> QED
    BY <1>1, <1>2, SkippedStep

LEMMA TextStep == ASSUME IInv, WriteText PROVE IInv'
  <1> DEFINE line == Line("text", 1, NoRef)
  <1>1. /\ phase = "reading" /\ block = "note" /\ Consume(line) /\ block' = "note"
        /\ links' = links /\ shapes' = shapes /\ meant' = meant
    BY DEF WriteText, CanWrite, Write, Wrote
  <1>2. ~Plain'
    BY <1>1 DEF IInv, MirrorOK, InStep, Plain
  <1>3. LineOK(line)
    BY DEF LineOK, Line, Starts
  <1> HIDE DEF line
  <1> QED
    BY <1>1, <1>2, <1>3, SkippedStep

LEMMA EnumStep == ASSUME IInv, WriteEnum PROVE IInv'
  <1> DEFINE line == Line("enum", 2, NoRef)
  <1>1. /\ phase = "reading" /\ block = "top" /\ Consume(line) /\ block' = "enum"
        /\ links' = links /\ shapes' = shapes /\ meant' = meant
    BY DEF WriteEnum, CanWrite, Write, Wrote
  <1>2. LineOK(line) /\ line.starts = "enum"
    BY DEF LineOK, Line, Starts
  <1> HIDE DEF line
  <1> QED
    BY <1>1, <1>2, SkippedStep

LEMMA ValueStep ==
  ASSUME IInv, NEW refLike \in BOOLEAN, WriteValue(refLike)
  PROVE  IInv'
  <1> DEFINE line == Line(IF refLike THEN "ref" ELSE "value", 1, Malformed)
  <1>1. /\ phase = "reading" /\ block = "enum" /\ Consume(line) /\ block' = "enum"
        /\ links' = links /\ shapes \subseteq shapes' /\ meant' = meant
        /\ (refLike => ~Plain')
    BY NotPlain DEF WriteValue, CanWrite, Write, Wrote, Uses
  <1>2. LineOK(line) /\ (~refLike => line.starts = "value")
    BY DEF LineOK, Line, Starts
  <1> HIDE DEF line
  <1> QED
    BY <1>1, <1>2, SkippedStep

LEMMA RefBlockStep == ASSUME IInv, WriteRefBlock PROVE IInv'
  <1> DEFINE line == Line("ref", 2, Malformed)
  <1>1. /\ phase = "reading" /\ block = "top" /\ Consume(line) /\ block' = "ref"
        /\ links' = links /\ shapes \subseteq shapes' /\ meant' = meant /\ ~Plain'
    BY NotPlain DEF WriteRefBlock, CanWrite, Write, Wrote
  <1>2. LineOK(line)
    BY DEF LineOK, Line, Starts
  <1> HIDE DEF line
  <1> QED
    BY <1>1, <1>2, SkippedStep

LEMMA RefStep ==
  ASSUME IInv, NEW b \in {"top", "ref"}, NEW link \in Links, NEW tight \in BOOLEAN,
         WriteRef(b, link, tight)
  PROVE  IInv'
  <1> DEFINE line == Line(IF b = "top" THEN "ref" ELSE "link", 2,
                          IF tight THEN Malformed ELSE link)
  <1>1. /\ phase = "reading" /\ block = b /\ Consume(line) /\ block' = b
        /\ links' = Append(links, link) /\ shapes \subseteq shapes' /\ meant' = meant
        /\ (tight => ~Plain')
    BY NotPlain DEF WriteRef, CanWrite, Write, Wrote, Uses
  <1>2. link \in AllLinks
    BY DEF AllLinks
  <1>3. LineOK(line) /\ (b = "top" => line.starts = "ref" /\ (~tight => line.says = link))
    BY <1>2 DEF LineOK, Line, Starts
  <1> HIDE DEF line
  <1>4. AuthorOK'
    <2>1. links \in Seq(AllLinks)
      BY DEF IInv, AuthorOK
    <2>2. links' \in Seq(AllLinks)
      BY <1>1, <1>2, <2>1, Appended, Zenon
    <2> QED
      BY <1>1, <2>2 DEF IInv, AuthorOK
  <1>5. ASSUME Plain', Plain, Mirrored, InStep
        PROVE  phase' = "reading" /\ Mirrored' /\ InStep'
    <2>1. b = "top" /\ ~open /\ ~inIndexes /\ ~tight
      BY <1>1, <1>5 DEF InStep
    <2>2. refs' = Append(refs, link) /\ UNCHANGED <<phase, tables, open, inIndexes, pk>>
      BY <1>1, <1>3, <2>1 DEF Consume, ConsumeOutside
    <2>3. Mirrored' /\ \A i \in DOMAIN tables' : tables'[i].fks = <<>>
      BY <1>1, <1>5, <2>2, SameTables
    <2> QED
      BY <1>1, <1>5, <2>1, <2>2, <2>3 DEF InStep
  <1> QED
    BY <1>1, <1>3, <1>4, <1>5, Written

LEMMA CloseStep == ASSUME IInv, CloseBlock PROVE IInv'
  <1> DEFINE line == Line("}", 1, NoRef)
  <1>1. /\ phase = "reading" /\ block # "top" /\ Consume(line)
        /\ block' = (IF block \in {"indexes", "note"} THEN "table" ELSE "top")
        /\ links' = links /\ shapes' = shapes /\ meant' = meant
    BY DEF CloseBlock, Write
  <1>2. LineOK(line) /\ line.starts = "}"
    BY DEF LineOK, Line, Starts
  <1> HIDE DEF line
  <1>3. AuthorOK'
    BY <1>1, SameMeant DEF IInv
  <1>4. ASSUME Plain', Plain, Mirrored, InStep
        PROVE  phase' = "reading" /\ Mirrored' /\ InStep'
    <2>1. CASE block = "enum"
      <3>1. ~open /\ ~inIndexes /\ UNCHANGED <<phase, tables, open, inIndexes, refs, pk>>
        BY <1>1, <1>2, <1>4, <2>1 DEF InStep, Consume, ConsumeOutside
      <3>2. Mirrored' /\ \A i \in DOMAIN tables' : tables'[i].fks = <<>>
        BY <1>1, <1>4, <3>1, SameTables
      <3> QED
        BY <1>1, <1>4, <2>1, <3>1, <3>2 DEF InStep
    <2>2. CASE block = "indexes"
      <3>1. open /\ inIndexes = TRUE
        BY <1>4, <2>2, InTableTogether
      <3>2. inIndexes' = FALSE /\ UNCHANGED <<phase, tables, open, refs, pk>>
        BY <1>1, <1>2, <3>1 DEF Consume, InIndexes
      <3>3. Mirrored' /\ (\A i \in DOMAIN tables' : tables'[i].fks = <<>>) /\ Meant' = Meant
        BY <1>1, <1>4, <3>2, SameTables DEF Meant
      <3> QED
        BY <1>1, <1>4, <2>2, <3>1, <3>2, <3>3 DEF InStep
    <2>3. CASE block = "table"
      <3> DEFINE t == [OpenTable EXCEPT !.pk = pk]
      <3>1. /\ AuthorOK /\ meant # <<>> /\ Meant \in MeantSet
            /\ open /\ inIndexes = FALSE /\ tables # <<>> /\ OpenTable \in TableSet
            /\ OpenTable.schema = Meant.schema /\ OpenTable.name = Meant.name
            /\ OpenTable.columns = Meant.columns /\ OpenTable.uniques = Meant.uniques
            /\ OpenTable.comment = Meant.comment
            /\ shapes = {} => OpenTable.indexes = Meant.indexes
        BY <1>4, <2>3, InTableTogether
      <3>2. CloseTable
        BY <1>1, <1>2, <3>1 DEF Consume, InTable
      <3>3. UpdateOpen(t) /\ open' = FALSE /\ UNCHANGED <<phase, inIndexes, refs, pk>>
        BY <3>2 DEF CloseTable
      <3>4. UpdateMeant(Meant)
        <4>1. meant \in Seq(MeantSet)
          BY <3>1 DEF AuthorOK
        <4>2. meant = [meant EXCEPT ![Len(meant)] = meant[Len(meant)]]
          BY <4>1
        <4> QED
          BY <1>1, <4>2 DEF UpdateMeant, Meant
      <3>5. pk \in Seq(Columns) /\ ParserOK /\ (shapes = {} => pk = Meant.pk)
            /\ \A i \in DOMAIN tables : tables[i].fks = <<>>
        BY <1>4, <3>1 DEF IInv, ParserOK, InStep
      <3>6. /\ t \in TableSet /\ t.schema = OpenTable.schema /\ t.name = OpenTable.name
            /\ t.columns = OpenTable.columns /\ t.uniques = OpenTable.uniques
            /\ t.comment = OpenTable.comment /\ t.indexes = OpenTable.indexes
            /\ t.fks = OpenTable.fks /\ t.pk = pk
        BY <3>1, <3>5 DEF TableSet
      <3> HIDE DEF t
      <3>7. Mirrored' /\ \A i \in DOMAIN tables' : tables'[i].fks = <<>>
        BY <1>1, <1>4, <3>1, <3>3, <3>4, <3>5, <3>6, UpdateBoth
      <3> QED
        BY <1>1, <1>4, <2>3, <3>1, <3>3, <3>7 DEF InStep
    <2> QED
      BY <1>1, <1>4, <2>1, <2>2, <2>3 DEF InStep
  <1> QED
    BY <1>1, <1>2, <1>3, <1>4, Written

-----------------------------------------------------------------------------
(* The references are resolved. *)

LEMMA KeysOfAppend ==
  ASSUME NEW ls \in Seq(AllLinks), NEW l \in AllLinks
  PROVE  KeysOf(Append(ls, l)) = Append(KeysOf(ls), ForeignKey(l))
  <1> DEFINE n == Len(ls)
             ms == Append(ls, l)
             K == {ForeignKey(k) : k \in AllLinks}
             keys == [k \in DOMAIN ls |-> ForeignKey(ls[k])]
             a == Append(keys, ForeignKey(l))
             b == [k \in DOMAIN ms |-> ForeignKey(ms[k])]
  <1>1. /\ n \in Nat /\ DOMAIN ls = 1 .. n /\ DOMAIN ms = 1 .. n + 1
        /\ \A i \in 1 .. n : ms[i] = ls[i] /\ ls[i] \in AllLinks
        /\ ms[n + 1] = l
    BY AppendParts
  <1> HIDE DEF ms, n
  <1>2. keys \in Seq(K) /\ Len(keys) = n /\ \A i \in 1 .. n : keys[i] = ForeignKey(ls[i])
    BY <1>1
  <1> HIDE DEF keys
  <1>3. ForeignKey(l) \in K
    OBVIOUS
  <1> HIDE DEF K
  <1>4. /\ \A i \in 1 .. n : a[i] = ForeignKey(ls[i])
        /\ a[n + 1] = ForeignKey(l)
        /\ a = [i \in 1 .. n + 1 |-> a[i]]
    BY <1>2, <1>3, AppendParts
  <1> HIDE DEF a
  <1>5. ASSUME NEW i \in 1 .. n + 1 PROVE a[i] = ForeignKey(ms[i])
    <2>1. i = n + 1 \/ i \in 1 .. n
      BY <1>1
    <2> QED
      BY <1>1, <1>4, <2>1
  <1>6. b = a
    BY <1>1, <1>4, <1>5
  <1> QED
    BY <1>6 DEF KeysOf, a, b, keys, ms

LEMMA NoKeys == KeysOf(<<>>) = <<>>
  <1>1. DOMAIN <<>> = {}
    BY EmptyDomain
  <1> QED
    BY <1>1 DEF KeysOf

LEMMA EndStep == ASSUME IInv, EndOfDocument PROVE IInv'
  <1>1. /\ phase = "reading" /\ block = "top" /\ phase' = IF open THEN "failed" ELSE "resolving"
        /\ UNCHANGED <<block, meant, links, shapes, tables, open, inIndexes, refs, pk>>
    BY DEF EndOfDocument, author
  <1>2. ParserOK' /\ AuthorOK' /\ DoneOK'
    BY <1>1 DEF IInv, ParserOK, TypeOK, OpenTable, AuthorOK, DoneOK
  <1>3. ASSUME Plain
        PROVE  Mirrored /\ InStep /\ ~open /\ phase' = "resolving"
    BY <1>1, <1>3 DEF IInv, MirrorOK, InStep
  <1>4. MirrorOK' /\ RefusedOK'
    BY <1>1, <1>3 DEF MirrorOK, RefusedOK, Mirrored, Agrees, Plain
  <1>5. ASSUME Plain
        PROVE  ResolvedOK'
    <2>1. refs = links /\ links \in Seq(AllLinks)
      BY <1>3, <1>5 DEF InStep, IInv, AuthorOK
    <2>2. Resolved = 0 /\ Len(links) \in Nat /\ \A k \in 1 .. Len(links) : 0 + k = k
      BY <2>1 DEF Resolved
    <2>3. SubSeq(links, 1, 0) = <<>>
      BY <2>1
    <2>4. \A i \in DOMAIN tables : OwnedBy(tables[i], <<>>) = <<>>
      BY KeepOfEmpty DEF OwnedBy
    <2>5. \A i \in DOMAIN tables : tables[i].fks = <<>>
      BY <1>3, <1>5 DEF InStep
    <2>6. Resolved' = Resolved
      BY <1>1 DEF Resolved
    <2>7. \A k \in 1 .. Len(refs) : refs[k] = links[Resolved + k]
      BY <2>1, <2>2
    <2>8. \A i \in DOMAIN tables :
            tables[i].fks = KeysOf(OwnedBy(tables[i], SubSeq(links, 1, Resolved)))
      BY <2>2, <2>3, <2>4, <2>5, NoKeys
    <2>9. Len(refs) <= Len(links)
      BY <2>1, <2>2
    <2> QED
      BY <1>1, <2>6, <2>7, <2>8, <2>9 DEF ResolvedOK, OwnedBy
  <1>6. ResolvedOK'
    BY <1>1, <1>5 DEF ResolvedOK, Plain
  <1> QED
    BY <1>2, <1>4, <1>6 DEF IInv

LEMMA ConvertStep == ASSUME IInv, Convert PROVE IInv'
  <1>1. /\ phase = "resolving" /\ phase' = "done" /\ refs = <<>> /\ out' = Encode(tables)
        /\ UNCHANGED <<block, meant, links, shapes, tables, open, inIndexes, refs, pk>>
    BY DEF Convert, author
  <1>2. ParserOK' /\ AuthorOK'
    BY <1>1 DEF IInv, ParserOK, TypeOK, OpenTable, AuthorOK
  <1>3. DoneOK'
    BY <1>1 DEF DoneOK
  <1>4. MirrorOK' /\ RefusedOK'
    BY <1>1 DEF IInv, MirrorOK, RefusedOK, Mirrored, Agrees, Plain
  <1>5. ResolvedOK'
    BY <1>1 DEF IInv, ResolvedOK, Plain, OwnedBy, Resolved
  <1> QED
    BY <1>2, <1>3, <1>4, <1>5 DEF IInv

LEMMA StutterStep == ASSUME IInv, UNCHANGED vars PROVE IInv'
  <1>1. UNCHANGED <<block, meant, links, shapes, phase, tables, open, inIndexes, refs, pk, out>>
    BY DEF vars, author, parser
  <1>2. ParserOK' /\ AuthorOK' /\ DoneOK'
    BY <1>1 DEF IInv, ParserOK, TypeOK, OpenTable, AuthorOK, DoneOK
  <1>3. MirrorOK'
    BY <1>1 DEF IInv, MirrorOK, Mirrored, Agrees, Plain, InStep, Meant
  <1>4. ResolvedOK'
    BY <1>1 DEF IInv, ResolvedOK, Plain, OwnedBy, Resolved
  <1>5. RefusedOK'
    BY <1>1 DEF IInv, RefusedOK, Plain, Strict, Loose
  <1> QED
    BY <1>2, <1>3, <1>4, <1>5 DEF IInv

LEMMA MinIn == ASSUME NEW S, S \subseteq Nat, S # {} PROVE Min(S) \in S
  <1>1. PICK least \in S : \A n \in S : ~(<<n, least>> \in Below)
    BY BelowWellFounded, WFMin
  <1>2. ASSUME NEW n \in S PROVE least <= n
    <2>1. n \in Nat /\ least \in Nat
      OBVIOUS
    <2>2. n < least => <<n, least>> \in Below
      BY <2>1 DEF Below
    <2>3. ~(n < least)
      BY <1>1, <2>2
    <2> QED
      BY <2>1, <2>3
  <1> QED
    BY <1>2 DEF Min

\* The fields of a table that gets a foreign key more.
LEMMA AttachParts ==
  ASSUME ParserOK, NEW i \in DOMAIN tables, NEW l \in AllLinks, Attach(i, Oriented(l))
  PROVE  /\ tables' \in Seq(TableSet) /\ DOMAIN tables' = DOMAIN tables
         /\ Len(tables') = Len(tables) /\ (tables # <<>> => tables' # <<>>)
         /\ \A j \in DOMAIN tables : j # i => tables'[j] = tables[j]
         /\ \A j \in DOMAIN tables :
              /\ tables'[j].schema = tables[j].schema /\ tables'[j].name = tables[j].name
              /\ tables'[j].columns = tables[j].columns /\ tables'[j].pk = tables[j].pk
              /\ tables'[j].uniques = tables[j].uniques
              /\ tables'[j].indexes = tables[j].indexes
              /\ tables'[j].comment = tables[j].comment
         /\ tables'[i].fks = Append(tables[i].fks, ForeignKey(l))
  <1> DEFINE n == Len(tables)
             t == tables[i]
             fks == Append(t.fks, ForeignKey(l))
             u == [t EXCEPT !.fks = fks]
  <1>1. tables \in Seq(TableSet)
    BY DEF ParserOK
  <1>2. n \in Nat /\ DOMAIN tables = 1 .. n /\ i \in 1 .. n /\ t \in TableSet
        /\ tables \in [1 .. n -> TableSet]
    BY <1>1
  <1>3. fks \in Seq({ForeignKey(k) : k \in AllLinks})
    <2>1. t.fks \in Seq({ForeignKey(k) : k \in AllLinks})
      BY <1>2 DEF TableSet
    <2>2. ForeignKey(l) \in {ForeignKey(k) : k \in AllLinks}
      OBVIOUS
    <2> QED
      BY <2>1, <2>2, Appended, Zenon
  <1>4. tables' = [tables EXCEPT ![i].fks = Append(@, ForeignKey(l))]
    BY DEF Attach, Oriented, ForeignKey, Owner, Target
  <1>5. tables' = [tables EXCEPT ![i] = u]
    BY <1>2, <1>4 DEF TableSet
  <1> HIDE DEF fks, t, n
  <1>6. /\ u \in TableSet /\ u.schema = t.schema /\ u.name = t.name /\ u.columns = t.columns
        /\ u.pk = t.pk /\ u.uniques = t.uniques /\ u.indexes = t.indexes
        /\ u.comment = t.comment /\ u.fks = fks
    BY <1>2, <1>3 DEF TableSet
  <1> HIDE DEF u
  <1>7. /\ tables' \in [1 .. n -> TableSet]
        /\ tables'[i] = u
        /\ \A j \in 1 .. n : j # i => tables'[j] = tables[j]
    BY <1>2, <1>5, <1>6
  <1>8. tables' \in Seq(TableSet) /\ DOMAIN tables' = 1 .. n
    BY <1>2, <1>7
  <1>9. Len(tables') = n
    BY <1>2, <1>8
  <1>10. tables' # <<>>
    BY <1>2, <1>8
  <1>11. \A j \in 1 .. n :
           /\ tables'[j].schema = tables[j].schema /\ tables'[j].name = tables[j].name
           /\ tables'[j].columns = tables[j].columns /\ tables'[j].pk = tables[j].pk
           /\ tables'[j].uniques = tables[j].uniques
           /\ tables'[j].indexes = tables[j].indexes
           /\ tables'[j].comment = tables[j].comment
    BY <1>6, <1>7 DEF t
  <1> QED
    BY <1>2, <1>6, <1>7, <1>8, <1>9, <1>10, <1>11 DEF fks, t, n

LEMMA AttachTypes ==
  ASSUME ParserOK, refs # <<>>, NEW i \in DOMAIN tables, NEW l \in AllLinks,
         Attach(i, Oriented(l))
  PROVE  ParserOK'
  <1>1. UNCHANGED <<phase, open, inIndexes, pk>> /\ refs' = Tail(refs)
    BY DEF Attach
  <1>2. refs' \in Seq(AllLinks \cup {Malformed})
    BY <1>1 DEF ParserOK
  <1>3. open => OpenTable'.columns = OpenTable.columns
    BY AttachParts, TheOpenTable DEF OpenTable
  <1>4. \A j \in DOMAIN tables' : HasHeader(tables'[j])
    BY AttachParts DEF ParserOK, HasHeader
  <1>5. TypeOK'
    <2>1. \A j \in DOMAIN tables' :
            /\ Range(tables'[j].columns) \subseteq Words
            /\ Range(tables'[j].pk) \subseteq Range(tables'[j].columns)
      BY AttachParts DEF ParserOK, TypeOK
    <2> QED
      BY <1>1, <2>1, AttachParts DEF ParserOK, TypeOK
  <1> QED
    BY <1>1, <1>2, <1>3, <1>4, <1>5, AttachParts DEF ParserOK

\* A link more is resolved: its owner has its key, the others have what they had.
LEMMA ResolvedMore ==
  ASSUME IInv, Plain, phase = "resolving", refs # <<>>, NEW l \in AllLinks, l = Head(refs),
         NEW i \in DOMAIN tables, Attach(i, Oriented(l)), UNCHANGED <<author, out>>,
         tables[i].schema = Owner(l).schema, tables[i].name = Owner(l).table
  PROVE  ResolvedOK'
  <1> DEFINE r == Resolved
             done == SubSeq(links, 1, r)
             more == SubSeq(links, 1, r + 1)
  <1>1. ParserOK /\ links \in Seq(AllLinks) /\ Mirrored
    BY DEF IInv, AuthorOK, MirrorOK
  <1>2. links' = links /\ refs' = Tail(refs) /\ UNCHANGED <<meant, phase, shapes>>
    BY DEF Attach, author
  <1>3. /\ Len(refs) <= Len(links)
        /\ \A k \in 1 .. Len(refs) : refs[k] = links[r + k]
        /\ \A j \in DOMAIN tables : tables[j].fks = KeysOf(OwnedBy(tables[j], done))
    BY DEF IInv, ResolvedOK
  <1>4. /\ Len(refs) \in Nat \ {0} /\ Len(links) \in Nat /\ r \in Nat
        /\ r = Len(links) - Len(refs) /\ r + 1 \in DOMAIN links /\ Head(refs) = refs[1]
        /\ Len(Tail(refs)) = Len(refs) - 1
        /\ \A k \in 1 .. Len(refs) - 1 : Tail(refs)[k] = refs[k + 1]
    BY <1>1, <1>3 DEF ParserOK, Resolved
  <1>5. Resolved' = r + 1
    BY <1>2, <1>4 DEF Resolved
  <1>6. links[r + 1] = l
    BY <1>3, <1>4
  <1>7. more = Append(done, l) /\ done \in Seq(AllLinks)
    BY <1>1, <1>4, <1>6, NextPrefix
  <1> HIDE DEF done, more, r
  <1>8. ASSUME NEW j \in DOMAIN tables
        PROVE  tables'[j].fks = KeysOf(OwnedBy(tables[j], more))
    <2> DEFINE own == {k \in AllLinks : /\ Owner(k).schema = tables[j].schema
                                        /\ Owner(k).table = tables[j].name}
    <2>1. OwnedBy(tables[j], done) = Keep(done, own) /\ OwnedBy(tables[j], more) = Keep(more, own)
      BY DEF OwnedBy
    <2> HIDE DEF own
    <2>2. Keep(more, own) = IF l \in own THEN Append(Keep(done, own), l) ELSE Keep(done, own)
      BY <1>7, KeepOfAppend
    <2>3. Keep(done, own) \in Seq(AllLinks)
      BY <1>7, KeepType
    <2>4. CASE j = i
      <3>1. l \in own
        BY <2>4 DEF own
      <3>2. tables'[j].fks = Append(tables[j].fks, ForeignKey(l))
        BY <1>1, <2>4, AttachParts
      <3>3. KeysOf(Append(Keep(done, own), l)) = Append(KeysOf(Keep(done, own)), ForeignKey(l))
        BY <2>3, KeysOfAppend
      <3> QED
        BY <1>3, <2>1, <2>2, <3>1, <3>2, <3>3
    <2>5. CASE j # i
      <3>1. l \notin own
        <4>1. /\ meant[i].schema = tables[i].schema /\ meant[i].name = tables[i].name
              /\ meant[j].schema = tables[j].schema /\ meant[j].name = tables[j].name
              /\ i \in DOMAIN meant /\ j \in DOMAIN meant
          <5>1. tables \in Seq(TableSet) /\ meant \in Seq(MeantSet) /\ Len(tables) = Len(meant)
            BY <1>1 DEF IInv, ParserOK, AuthorOK, Mirrored
          <5>2. DOMAIN tables = DOMAIN meant
            BY <5>1
          <5> QED
            BY <1>1, <5>2 DEF Mirrored, Agrees
        <4> QED
          BY <2>5, <4>1 DEF own, IInv, AuthorOK
      <3>2. tables'[j] = tables[j]
        BY <1>1, <2>5, AttachParts
      <3> QED
        BY <1>3, <2>1, <2>2, <3>1, <3>2
    <2> QED
      BY <2>4, <2>5
  <1>9. \A j \in DOMAIN tables' :
          tables'[j].fks = KeysOf(OwnedBy(tables'[j], SubSeq(links, 1, r + 1)))
    BY <1>1, <1>8, AttachParts DEF OwnedBy, more
  <1>10. Len(refs') <= Len(links) /\ \A k \in 1 .. Len(refs') : refs'[k] = links[r + 1 + k]
    BY <1>2, <1>3, <1>4
  <1> QED
    BY <1>2, <1>5, <1>9, <1>10 DEF ResolvedOK, OwnedBy

LEMMA ReferenceStep == ASSUME IInv, AddReference PROVE IInv'
  <1>1. /\ phase = "resolving" /\ refs # <<>>
        /\ UNCHANGED <<block, meant, links, shapes, out>> /\ UNCHANGED <<author, out>>
    BY DEF AddReference, author
  <1>2. ParserOK /\ AuthorOK /\ refs \in Seq(AllLinks \cup {Malformed})
    BY DEF IInv, ParserOK
  <1>3. Head(refs) \in AllLinks \cup {Malformed} /\ Head(refs) = refs[1] /\ Len(refs) \in Nat \ {0}
    BY <1>1, <1>2
  <1>4. AuthorOK'
    BY <1>1, <1>2 DEF AuthorOK
  <1>5. ASSUME Plain
        PROVE  /\ Mirrored /\ ~open
               /\ \E k \in DOMAIN links : links[k] = Head(refs)
    <2>1. /\ Mirrored /\ ~open /\ Len(refs) <= Len(links)
          /\ \A k \in 1 .. Len(refs) : refs[k] = links[Resolved + k]
      BY <1>1, <1>5 DEF IInv, MirrorOK, ResolvedOK
    <2>2. links \in Seq(AllLinks)
      BY <1>2 DEF AuthorOK
    <2>3. Resolved + 1 \in DOMAIN links
      BY <1>3, <2>1, <2>2 DEF Resolved
    <2> QED
      BY <1>3, <2>1, <2>3
  <1>6. ASSUME Refuse, Plain => ~Strict
        PROVE  IInv'
    <2>1. phase' = "failed" /\ UNCHANGED <<tables, open, inIndexes, refs, pk>>
      BY <1>6 DEF Refuse
    <2>2. ParserOK'
      BY <1>2, <2>1 DEF ParserOK, TypeOK, OpenTable
    <2>3. MirrorOK' /\ ResolvedOK' /\ DoneOK'
      BY <2>1 DEF MirrorOK, ResolvedOK, DoneOK
    <2>4. RefusedOK'
      BY <1>1, <1>6 DEF RefusedOK, Plain, Strict, Loose
    <2> QED
      BY <1>4, <2>2, <2>3, <2>4 DEF IInv
  <1>7. CASE Head(refs) = Malformed
    <2>1. Refuse
      BY <1>7 DEF AddReference
    <2>2. ~Plain
      <3>1. \A k \in DOMAIN links : links[k] \in AllLinks
        BY <1>2 DEF AuthorOK
      <3> QED
        BY <1>5, <1>7, <3>1, ConstantsOK
    <2> QED
      BY <1>6, <2>1, <2>2
  <1>8. CASE Head(refs) # Malformed
    <2> DEFINE l == Head(refs)
               i == FindTable(Owner(l))
    <2>1. l \in AllLinks /\ Oriented(l).left = Owner(l)
      BY <1>3, <1>8 DEF Oriented, Owner
    <2>2. IF i = 0 THEN Refuse ELSE Attach(i, Oriented(l))
      BY <1>8, <2>1 DEF AddReference
    <2>3. Named(Owner(l)) \subseteq DOMAIN tables /\ DOMAIN tables \subseteq Nat \ {0}
      <3>1. DOMAIN tables = 1 .. Len(tables) /\ Len(tables) \in Nat
        BY <1>2 DEF ParserOK
      <3> QED
        BY <3>1 DEF Named
    <2>4. CASE i = 0
      <3>1. Named(Owner(l)) = {}
        <4>1. SUFFICES ASSUME Named(Owner(l)) # {} PROVE FALSE
          OBVIOUS
        <4>2. Min(Named(Owner(l))) \in Named(Owner(l))
          BY <2>3, <4>1, MinIn
        <4>3. i = Min(Named(Owner(l)))
          BY <4>1 DEF FindTable
        <4> QED
          BY <2>3, <2>4, <4>2, <4>3
      <3>2. ASSUME Plain PROVE ~Strict
        <4>1. PICK k \in DOMAIN links : links[k] = l
          BY <1>5, <3>2
        <4>2. Mirrored /\ tables \in Seq(TableSet) /\ meant \in Seq(MeantSet)
          BY <1>2, <1>5, <3>2 DEF ParserOK, AuthorOK
        <4>3. DOMAIN meant = DOMAIN tables
          BY <4>2 DEF Mirrored
        <4>4. Loose(Owner(l))
          BY <3>1, <4>2, <4>3 DEF Loose, Named, Mirrored, Agrees
        <4>5. Owner(l) \in EndsOf(links[k])
          BY <4>1 DEF EndsOf, Owner
        <4> QED
          BY <4>4, <4>5 DEF Strict
      <3> QED
        BY <1>6, <2>2, <2>4, <3>2
    <2>5. CASE i # 0
      <3>1. i \in Named(Owner(l))
        <4>1. Named(Owner(l)) # {} /\ i = Min(Named(Owner(l)))
          BY <2>5 DEF FindTable
        <4>2. Named(Owner(l)) \subseteq Nat
          BY <2>3
        <4> QED
          BY <4>1, <4>2, MinIn
      <3>2. /\ i \in DOMAIN tables /\ tables[i].schema = Owner(l).schema
            /\ tables[i].name = Owner(l).table
        BY <3>1 DEF Named
      <3>3. Attach(i, Oriented(l))
        BY <2>2, <2>5
      <3> HIDE DEF i
      <3>4. UNCHANGED <<phase, open>>
        BY <3>3 DEF Attach
      <3>5. ParserOK'
        BY <1>1, <1>2, <2>1, <3>2, <3>3, AttachTypes
      <3>6. MirrorOK'
        <4>1. Plain' => Plain
          BY <1>1 DEF Plain
        <4>2. ASSUME Plain PROVE Mirrored'
          <5>1. Mirrored /\ ~open
            BY <1>5, <4>2
          <5> QED
            BY <1>1, <1>2, <2>1, <3>2, <3>3, <3>4, <5>1, AttachParts DEF Mirrored, Agrees
        <4> QED
          BY <1>1, <1>5, <3>4, <4>1, <4>2 DEF MirrorOK
      <3>7. ResolvedOK'
        <4>1. CASE Plain
          BY <1>1, <2>1, <3>2, <3>3, <4>1, ResolvedMore
        <4>2. CASE ~Plain
          BY <1>1, <4>2 DEF ResolvedOK, Plain
        <4> QED
          BY <4>1, <4>2
      <3>8. RefusedOK' /\ DoneOK'
        BY <1>1, <3>4 DEF RefusedOK, DoneOK
      <3> QED
        BY <1>4, <3>5, <3>6, <3>7, <3>8 DEF IInv
    <2> QED
      BY <2>4, <2>5
  <1> QED
    BY <1>7, <1>8

-----------------------------------------------------------------------------
(* The theorems. *)

LEMMA InitOK == Init => IInv
  <1> SUFFICES ASSUME Init PROVE IInv
    OBVIOUS
  <1>1. /\ block = "top" /\ meant = <<>> /\ links = <<>> /\ shapes = {}
        /\ phase = "reading" /\ tables = <<>> /\ open = FALSE /\ inIndexes = FALSE
        /\ refs = <<>> /\ pk = <<>>
    BY DEF Init
  <1>2. DOMAIN tables = {} /\ DOMAIN meant = {} /\ Range(pk) = {}
    BY <1>1, EmptyDomain DEF Range
  <1>3. ParserOK
    BY <1>1, <1>2, EmptySeq DEF ParserOK, TypeOK
  <1>4. AuthorOK
    BY <1>1, <1>2, EmptySeq DEF AuthorOK
  <1>5. MirrorOK
    BY <1>1, <1>2 DEF MirrorOK, Mirrored, InStep
  <1>6. ResolvedOK /\ RefusedOK /\ DoneOK
    BY <1>1 DEF ResolvedOK, RefusedOK, DoneOK
  <1> QED
    BY <1>3, <1>4, <1>5, <1>6 DEF IInv

LEMMA StepOK == ASSUME IInv, [Next]_vars PROVE IInv'
  <1>1. ASSUME NEW h \in Headers, NEW oneLine \in BOOLEAN, WriteTable(h, oneLine) PROVE IInv'
    BY <1>1, TableStep
  <1>2. ASSUME NEW c \in Settings, WriteColumn(c) PROVE IInv'
    BY <1>2, ColumnStep
  <1>3. ASSUME NEW i \in Indexes, WriteIndex(i) PROVE IInv'
    BY <1>3, IndexStep
  <1>4. ASSUME NEW refLike \in BOOLEAN, WriteValue(refLike) PROVE IInv'
    BY <1>4, ValueStep
  <1>5. ASSUME NEW b \in {"top", "ref"}, NEW link \in Links, NEW tight \in BOOLEAN,
               WriteRef(b, link, tight)
        PROVE  IInv'
    BY <1>5, RefStep
  <1> QED
    BY <1>1, <1>2, <1>3, <1>4, <1>5, CommentStep, IndexesStep, NoteStep, TextStep, EnumStep,
       RefBlockStep, CloseStep, EndStep, ReferenceStep, ConvertStep, StutterStep DEF Next

\* The simulation, from the first line to the document in TOON.
THEOREM Invariant == Spec => []IInv
  <1>1. Init => IInv
    BY InitOK
  <1>2. IInv /\ [Next]_vars => IInv'
    BY StepOK
  <1> QED
    BY <1>1, <1>2, PTL DEF Spec

\* consume() writes into a table only while there is one, and the primary key
\* of a table is made of its columns.
THEOREM TypeCorrect == Spec => []TypeOK
  <1>1. IInv => TypeOK
    BY DEF IInv, ParserOK
  <1> QED
    BY <1>1, Invariant, PTL

\* A document is refused only for a construct that the parser takes for
\* something else, or for a reference that does not repeat the words of a
\* table header.
THEOREM RefusalsAlwaysNamed == Spec => []RefusalsNamed
  <1>1. IInv => RefusalsNamed
    BY DEF IInv, RefusedOK, RefusalsNamed, Plain
  <1> QED
    BY <1>1, Invariant, PTL

\* What is accepted is what the author wrote, table by table and reference by
\* reference.
THEOREM DocumentAlwaysKept == Spec => []DocumentKept
  <1>1. ASSUME IInv, phase = "done", Plain
        PROVE  /\ Len(tables) = Len(meant)
               /\ \A i \in DOMAIN tables :
                    LET t == tables[i]
                        Here(link) == Owner(link).schema = t.schema /\ Owner(link).table = t.name
                        here == Keep(links, {link \in Range(links) : Here(link)})
                    IN /\ SameTable(t, meant[i])
                       /\ t.columns = meant[i].columns /\ t.uniques = meant[i].uniques
                       /\ t.comment = meant[i].comment
                       /\ t.fks = [k \in DOMAIN here |-> ForeignKey(here[k])]
                       /\ shapes = {} => t.pk = meant[i].pk /\ t.indexes = meant[i].indexes
    <2>1. /\ Mirrored /\ ~open /\ refs = <<>> /\ links \in Seq(AllLinks)
          /\ \A i \in DOMAIN tables :
               tables[i].fks = KeysOf(OwnedBy(tables[i], SubSeq(links, 1, Resolved)))
      BY <1>1 DEF IInv, MirrorOK, DoneOK, ResolvedOK, AuthorOK
    <2>2. SubSeq(links, 1, Resolved) = links
      <3>1. Resolved = Len(links) /\ Len(links) \in Nat
        BY <2>1 DEF Resolved
      <3>2. SubSeq(links, 1, Len(links)) = links
        BY <2>1
      <3> QED
        BY <3>1, <3>2
    <2>3. ASSUME NEW i \in DOMAIN tables
          PROVE  OwnedBy(tables[i], links) =
                   Keep(links, {link \in Range(links) : /\ Owner(link).schema = tables[i].schema
                                                        /\ Owner(link).table = tables[i].name})
      <3> DEFINE own == {l \in AllLinks : /\ Owner(l).schema = tables[i].schema
                                          /\ Owner(l).table = tables[i].name}
                 here == {l \in Range(links) : /\ Owner(l).schema = tables[i].schema
                                               /\ Owner(l).table = tables[i].name}
      <3>1. \A k \in DOMAIN links : links[k] \in AllLinks /\ links[k] \in Range(links)
        BY <2>1 DEF Range
      <3>2. \A k \in DOMAIN links : links[k] \in own <=> links[k] \in here
        BY <3>1
      <3> HIDE DEF own, here
      <3>3. Keep(links, own) = Keep(links, here)
        BY <2>1, <3>2, KeepSame
      <3> QED
        BY <3>3 DEF OwnedBy, own, here
    <2>4. ASSUME NEW i \in DOMAIN tables
          PROVE  LET t == tables[i]
                 IN  /\ SameTable(t, meant[i])
                     /\ t.columns = meant[i].columns /\ t.uniques = meant[i].uniques
                     /\ t.comment = meant[i].comment
                     /\ shapes = {} => t.pk = meant[i].pk /\ t.indexes = meant[i].indexes
      BY <2>1 DEF Mirrored, Agrees, SameTable
    <2>5. ASSUME NEW i \in DOMAIN tables
          PROVE  LET t == tables[i]
                     Here(link) == Owner(link).schema = t.schema /\ Owner(link).table = t.name
                     here == Keep(links, {link \in Range(links) : Here(link)})
                 IN  t.fks = [k \in DOMAIN here |-> ForeignKey(here[k])]
      <3> DEFINE here == Keep(links, {link \in Range(links) :
                                        /\ Owner(link).schema = tables[i].schema
                                        /\ Owner(link).table = tables[i].name})
      <3>1. tables[i].fks = KeysOf(here)
        BY <2>1, <2>2, <2>3
      <3> HIDE DEF here
      <3>2. tables[i].fks = [k \in DOMAIN here |-> ForeignKey(here[k])]
        BY <3>1 DEF KeysOf
      <3> QED
        BY <3>2 DEF here
    <2>6. Len(tables) = Len(meant)
      BY <2>1 DEF Mirrored
    <2> QED
      BY <2>4, <2>5, <2>6, Zenon
  <1>2. IInv => DocumentKept
    BY <1>1 DEF DocumentKept, Plain
  <1> QED
    BY <1>2, Invariant, PTL

-----------------------------------------------------------------------------
(* The document in TOON. *)

\* Two tables with different schemas are enough to write the schemas out.
LEMMA TwoSchemas ==
  ASSUME NEW ts \in Seq(TableSet), NEW i \in DOMAIN ts, NEW j \in DOMAIN ts,
         ts[i].schema # ts[j].schema
  PROVE  Multiple(ts)
  <1> DEFINE S == Schemas(ts)
             a == ts[i].schema
             b == ts[j].schema
             n == Len(ts)
             f == [k \in 1 .. n |-> ts[k].schema]
  <1>1. n \in Nat /\ DOMAIN ts = 1 .. n
    OBVIOUS
  <1>2. IsFiniteSet(1 .. n)
    BY <1>1, FS_Interval
  <1>3. f \in Surjection(1 .. n, S)
    BY <1>1 DEF Surjection, Schemas
  <1>4. a \in S /\ b \in S /\ a # b
    BY DEF Schemas
  <1> HIDE DEF S, a, b, n, f
  <1>5. IsFiniteSet(S)
    BY <1>2, <1>3, FS_Surjection
  <1>6. IsFiniteSet({a}) /\ Cardinality({a}) = 1
    BY FS_Singleton
  <1>7. Cardinality({a} \cup {b}) = 2
    <2>1. Cardinality({a} \cup {b}) =
            IF b \in {a} THEN Cardinality({a}) ELSE Cardinality({a}) + 1
      BY <1>6, FS_AddElement, Zenon
    <2>2. b \notin {a}
      BY <1>4
    <2> QED
      BY <1>6, <2>1, <2>2
  <1>8. Cardinality({a} \cup {b}) <= Cardinality(S)
    BY <1>4, <1>5, FS_Subset
  <1>9. Cardinality(S) \in Nat
    BY <1>5, FS_CardinalityType
  <1>10. Cardinality(S) > 1
    <2> DEFINE m == Cardinality({a} \cup {b})
               k == Cardinality(S)
    <2>1. m = 2 /\ m <= k /\ k \in Nat
      BY <1>7, <1>8, <1>9
    <2> HIDE DEF m, k
    <2>2. k > 1
      BY <2>1
    <2> QED
      BY <2>2 DEF k
  <1> QED
    BY <1>10 DEF Multiple, S

LEMMA Pairs ==
  ASSUME NEW a, NEW b
  PROVE  /\ SubSeq(<<a, b>>, 1, Len(<<a, b>>) - 1) = <<a>>
         /\ <<a>> \o <<b>> = <<a, b>>
  <1> DEFINE T == {a, b}
             p == <<a, b>>
             x == <<a>>
             y == <<b>>
  <1>1. /\ p \in Seq(T) /\ Len(p) = 2 /\ p[1] = a /\ p[2] = b
        /\ x \in Seq(T) /\ Len(x) = 1 /\ x[1] = a
        /\ y \in Seq(T) /\ Len(y) = 1 /\ y[1] = b
    OBVIOUS
  <1> HIDE DEF T, p, x, y
  <1>2. SubSeq(p, 1, 1) = x
    <2>1. 1 \in 0 .. Len(p)
      BY <1>1
    <2>2. /\ SubSeq(p, 1, 1) \in Seq(T) /\ Len(SubSeq(p, 1, 1)) = 1
          /\ SubSeq(p, 1, 1)[1] = a
      BY <1>1, <2>1, RangeOfSubSeq
    <2> QED
      BY <1>1, <2>2, SeqEqual
  <1>3. x \o y = p
    <2>1. x \o y \in Seq(T) /\ Len(x \o y) = 2 /\ (x \o y)[1] = a /\ (x \o y)[2] = b
      BY <1>1
    <2>2. \A i \in 1 .. 2 : i = 1 \/ i = 2
      OBVIOUS
    <2> QED
      BY <1>1, <2>1, <2>2, SeqEqual
  <1>4. Len(p) - 1 = 1
    BY <1>1
  <1> QED
    BY <1>2, <1>3, <1>4 DEF p, x, y

\* A reference reads as the table that it was written for.
LEMMA ReadsAsMeant ==
  ASSUME NEW ts \in Seq(TableSet), NEW i \in DOMAIN ts, NEW fk, ~Misread(ts[i], fk),
         NEW j \in DOMAIN ts, ts[j].schema = fk.schema, ts[j].name = fk.table,
         NEW section, section.name = TableName(ts[i], ts)
  PROVE  Meaning(section, Reference(ts[i], fk)) =
           TableName([schema |-> fk.schema, name |-> fk.table], ts)
  <1> DEFINE t == ts[i]
             u == [schema |-> fk.schema, name |-> fk.table]
  <1>1. u.schema = fk.schema /\ u.name = fk.table
    OBVIOUS
  <1>2. CASE fk.schema # t.schema
    <2>1. Multiple(ts)
      BY <1>2, TwoSchemas
    <2>2. Reference(t, fk) = <<fk.schema, fk.table>>
      BY <1>2 DEF Reference, Misread
    <2>3. Meaning(section, <<fk.schema, fk.table>>) = <<fk.schema, fk.table>>
      BY DEF Meaning
    <2>4. TableName(u, ts) = <<fk.schema, fk.table>>
      BY <1>1, <2>1 DEF TableName
    <2> QED
      BY <2>2, <2>3, <2>4
  <1>3. CASE fk.schema = t.schema
    <2>1. Reference(t, fk) = <<fk.table>>
      BY <1>3 DEF Reference
    <2>2. Meaning(section, <<fk.table>>) =
            SubSeq(section.name, 1, Len(section.name) - 1) \o <<fk.table>>
      BY DEF Meaning
    <2>3. CASE Multiple(ts) \/ t.schema \notin Unnamed
      <3>1. section.name = <<t.schema, t.name>> /\ TableName(u, ts) = <<t.schema, fk.table>>
        BY <1>1, <1>3, <2>3 DEF TableName
      <3>2. SubSeq(<<t.schema, t.name>>, 1, Len(<<t.schema, t.name>>) - 1) = <<t.schema>>
        BY Pairs
      <3>3. <<t.schema>> \o <<fk.table>> = <<t.schema, fk.table>>
        BY Pairs
      <3> QED
        BY <2>1, <2>2, <3>1, <3>2, <3>3
    <2>4. CASE ~(Multiple(ts) \/ t.schema \notin Unnamed)
      <3>1. section.name = <<t.name>> /\ TableName(u, ts) = <<fk.table>>
        BY <1>1, <1>3, <2>4 DEF TableName
      <3>2. SubSeq(<<t.name>>, 1, Len(<<t.name>>) - 1) = <<>>
        OBVIOUS
      <3>3. <<>> \o <<fk.table>> = <<fk.table>>
        OBVIOUS
      <3> QED
        BY <2>1, <2>2, <3>1, <3>2, <3>3
    <2> QED
      BY <2>3, <2>4
  <1> QED
    BY <1>2, <1>3

\* What a reader finds in a section, line by line.
LEMMA ReferenceFound ==
  ASSUME NEW section, NEW e
  PROVE  e \in References(section) <=>
           \/ \E line \in Range(section.columns) : \E ref \in line.refs :
                e = << <<line.column>>, Meaning(section, ref.to), ref.columns>>
           \/ \E line \in Range(section.refs) :
                e = <<line.columns, Meaning(section, line.to), line.refColumns>>
  <1> DEFINE inline(line) ==
               {<< <<line.column>>, Meaning(section, ref.to), ref.columns>> : ref \in line.refs}
             below == {<<line.columns, Meaning(section, line.to), line.refColumns>> :
                         line \in Range(section.refs)}
             above == UNION {inline(line) : line \in Range(section.columns)}
  <1>1. References(section) = above \cup below
    BY DEF References
  <1>2. e \in below <=> \E line \in Range(section.refs) :
                          e = <<line.columns, Meaning(section, line.to), line.refColumns>>
    OBVIOUS
  <1>3. \A line : e \in inline(line) <=>
                   \E ref \in line.refs :
                     e = << <<line.column>>, Meaning(section, ref.to), ref.columns>>
    OBVIOUS
  <1> HIDE DEF inline, below
  <1>4. e \in above <=>
          \E line \in Range(section.columns) : e \in inline(line)
    OBVIOUS
  <1> HIDE DEF above
  <1>5. e \in References(section) <=> e \in above \/ e \in below
    BY <1>1, Zenon
  <1> QED
    BY <1>2, <1>3, <1>4, <1>5, Zenon

\* A foreign key of one column has the one.
LEMMA SingleColumn ==
  ASSUME NEW fk \in {ForeignKey(l) : l \in AllLinks}, Single(fk)
  PROVE  fk.columns = <<fk.columns[1]>>
  <1>1. PICK l \in AllLinks : fk = ForeignKey(l)
    OBVIOUS
  <1>2. fk.columns \in Seq(Columns)
    BY <1>1, ConstantsOK DEF ForeignKey, Owner
  <1>3. Len(fk.columns) = 1
    BY DEF Single
  <1> DEFINE cs == fk.columns
             c == cs[1]
             one == <<c>>
  <1>4. cs \in Seq(Columns) /\ Len(cs) = 1 /\ c \in Columns
    BY <1>2, <1>3
  <1> HIDE DEF cs
  <1>5. one \in Seq(Columns) /\ Len(one) = 1 /\ one[1] = cs[1]
    BY <1>4
  <1> HIDE DEF one
  <1>6. cs = one
    BY <1>4, <1>5, SeqEqual
  <1> QED
    BY <1>6 DEF one, cs

\* The lines of a section hold the references of its table, the exact ones
\* that are not dropped among them.
LEMMA SectionReferences ==
  ASSUME NEW ts \in Seq(TableSet), NEW i \in DOMAIN ts,
         \A k \in DOMAIN ts[i].fks : \E j \in DOMAIN ts : /\ ts[j].schema = ts[i].fks[k].schema
                                                          /\ ts[j].name = ts[i].fks[k].table
  PROVE  LET t == ts[i]
             Means(fk) == <<fk.columns,
                            TableName([schema |-> fk.schema, name |-> fk.table], ts),
                            fk.refColumns>>
             exact == {k \in DOMAIN t.fks : ~Misread(t, t.fks[k])}
         IN  /\ \A k \in exact : ~Dropped(t, k) => Means(t.fks[k]) \in References(Encode(ts)[i])
             /\ exact = DOMAIN t.fks =>
                  \A e \in References(Encode(ts)[i]) : \E k \in exact : e = Means(t.fks[k])
  <1> DEFINE t == ts[i]
             section == Encode(ts)[i]
             place(fk) == TableName([schema |-> fk.schema, name |-> fk.table], ts)
             keys == {ForeignKey(l) : l \in AllLinks}
             several == {fk \in Range(t.fks) : ~Single(fk)}
             kept == Keep(t.fks, several)
  <1>1. /\ section.name = TableName(t, ts)
        /\ section.columns = [x \in DOMAIN t.columns |-> ColumnLine(t, t.columns[x])]
        /\ section.refs = [x \in DOMAIN kept |->
                             [columns |-> kept[x].columns, to |-> Reference(t, kept[x]),
                              refColumns |-> kept[x].refColumns]]
    BY DEF Encode, Section, RefLines
  <1>2. t.fks \in Seq(keys) /\ t.columns \in Seq(Words)
    <2>1. ts[i] \in TableSet
      OBVIOUS
    <2> QED
      BY <2>1 DEF TableSet
  <1>3. \A k \in DOMAIN t.fks : t.fks[k] \in keys /\ t.fks[k] \in Range(t.fks)
    BY <1>2 DEF Range
  <1>4. DOMAIN t.fks = 1 .. Len(t.fks) /\ Len(t.fks) \in Nat
    BY <1>2
  <1>5. Range(kept) = several
    <2>1. Range(kept) = Range(t.fks) \cap several
      BY <1>2, KeepRange
    <2> QED
      BY <2>1
  <1>6. ASSUME NEW k \in DOMAIN t.fks, ~Misread(t, t.fks[k])
        PROVE  Meaning(section, Reference(t, t.fks[k])) = place(t.fks[k])
    <2>1. PICK j \in DOMAIN ts : ts[j].schema = t.fks[k].schema /\ ts[j].name = t.fks[k].table
      OBVIOUS
    <2> HIDE DEF section
    <2> QED
      BY <1>1, <1>6, <2>1, ReadsAsMeant
  <1> HIDE DEF section, place, keys, several, kept
  <1>7. ASSUME NEW k \in DOMAIN t.fks, ~Misread(t, t.fks[k]), ~Dropped(t, k)
        PROVE  <<t.fks[k].columns, place(t.fks[k]), t.fks[k].refColumns>> \in References(section)
    <2> DEFINE fk == t.fks[k]
    <2>1. CASE Single(fk)
      <3> DEFINE c == fk.columns[1]
                 here == {x \in DOMAIN t.fks : Single(t.fks[x]) /\ t.fks[x].columns = <<c>>}
                 ref == [to |-> Reference(t, fk), columns |-> fk.refColumns]
                 line == ColumnLine(t, c)
      <3>1. fk.columns = <<c>>
        BY <1>3, <2>1, SingleColumn DEF keys
      <3>2. PICK x \in DOMAIN t.columns : t.columns[x] = c
        BY <1>7, <2>1 DEF Dropped, Range
      <3>3. line \in Range(section.columns)
        BY <1>1, <3>2 DEF Range
      <3>4. k \in here /\ \A j \in here : j <= k
        <4>1. k \in here
          BY <2>1, <3>1
        <4>2. ASSUME NEW j \in here PROVE j <= k
          <5>1. j \in 1 .. Len(t.fks) /\ k \in 1 .. Len(t.fks)
            BY <1>4
          <5>2. j \notin k + 1 .. Len(t.fks)
            BY <1>7, <2>1, <3>1, <4>2 DEF Dropped
          <5> QED
            BY <1>4, <5>1, <5>2
        <4> QED
          BY <4>1, <4>2
      <3>5. ref \in Inline(t, c)
        <4> DEFINE latest == {x0 \in here : \A j \in here : j <= x0}
        <4>1. k \in latest
          BY <3>4
        <4>2. Inline(t, c) = {[to |-> Reference(t, t.fks[x0]), columns |-> t.fks[x0].refColumns] :
                                x0 \in latest}
          BY DEF Inline
        <4> HIDE DEF latest
        <4> QED
          BY <4>1, <4>2
      <3>6. ref \in line.refs /\ line.column = c
        BY <3>5 DEF ColumnLine
      <3>7. ref.to = Reference(t, fk) /\ ref.columns = fk.refColumns
        OBVIOUS
      <3> HIDE DEF line, ref, c
      <3>8. << <<line.column>>, Meaning(section, ref.to), ref.columns>> \in References(section)
        BY <3>3, <3>6, ReferenceFound
      <3> QED
        BY <1>6, <1>7, <3>1, <3>6, <3>7, <3>8
    <2>2. CASE ~Single(fk)
      <3>1. fk \in Range(kept)
        BY <1>3, <1>5, <2>2 DEF several
      <3>2. PICK x \in DOMAIN kept : kept[x] = fk
        BY <3>1 DEF Range
      <3> DEFINE line == [columns |-> fk.columns, to |-> Reference(t, fk),
                          refColumns |-> fk.refColumns]
      <3>3. line \in Range(section.refs)
        BY <1>1, <3>2 DEF Range
      <3>4. /\ line.columns = fk.columns /\ line.to = Reference(t, fk)
            /\ line.refColumns = fk.refColumns
        OBVIOUS
      <3> HIDE DEF line
      <3>5. <<line.columns, Meaning(section, line.to), line.refColumns>> \in References(section)
        BY <3>3, ReferenceFound
      <3> QED
        BY <1>6, <1>7, <3>4, <3>5
    <2> QED
      BY <2>1, <2>2
  <1>8. ASSUME \A k \in DOMAIN t.fks : ~Misread(t, t.fks[k]), NEW e \in References(section)
        PROVE  \E k \in DOMAIN t.fks : e = <<t.fks[k].columns, place(t.fks[k]), t.fks[k].refColumns>>
    <2>1. CASE \E line \in Range(section.columns) : \E ref \in line.refs :
                 e = << <<line.column>>, Meaning(section, ref.to), ref.columns>>
      <3>1. PICK line \in Range(section.columns) : \E ref \in line.refs :
              e = << <<line.column>>, Meaning(section, ref.to), ref.columns>>
        BY <2>1
      <3>2. PICK ref \in line.refs : e = << <<line.column>>, Meaning(section, ref.to), ref.columns>>
        BY <3>1
      <3>3. PICK x \in DOMAIN t.columns : line = ColumnLine(t, t.columns[x])
        BY <1>1 DEF Range
      <3> DEFINE c == t.columns[x]
      <3>4. line.column = c /\ ref \in Inline(t, c)
        BY <3>3 DEF ColumnLine
      <3>5. PICK k \in DOMAIN t.fks :
              /\ t.fks[k].columns = <<c>>
              /\ ref = [to |-> Reference(t, t.fks[k]), columns |-> t.fks[k].refColumns]
        BY <3>4 DEF Inline
      <3>6. ref.to = Reference(t, t.fks[k]) /\ ref.columns = t.fks[k].refColumns
        BY <3>5
      <3> HIDE DEF c
      <3>7. e = <<t.fks[k].columns, place(t.fks[k]), t.fks[k].refColumns>>
        BY <1>6, <1>8, <3>2, <3>4, <3>5, <3>6
      <3> QED
        BY <3>7
    <2>2. CASE \E line \in Range(section.refs) :
                 e = <<line.columns, Meaning(section, line.to), line.refColumns>>
      <3>1. PICK line \in Range(section.refs) :
              e = <<line.columns, Meaning(section, line.to), line.refColumns>>
        BY <2>2
      <3>2. PICK x \in DOMAIN kept :
              line = [columns |-> kept[x].columns, to |-> Reference(t, kept[x]),
                      refColumns |-> kept[x].refColumns]
        BY <1>1 DEF Range
      <3>3. kept[x] \in Range(t.fks)
        <4>1. kept[x] \in Range(kept)
          BY DEF Range
        <4> QED
          BY <1>5, <4>1 DEF several
      <3>4. PICK k \in DOMAIN t.fks : t.fks[k] = kept[x]
        BY <3>3 DEF Range
      <3>5. /\ line.columns = t.fks[k].columns /\ line.to = Reference(t, t.fks[k])
            /\ line.refColumns = t.fks[k].refColumns
        BY <3>2, <3>4
      <3> QED
        BY <1>6, <1>8, <3>1, <3>5
    <2> QED
      BY <1>8, <2>1, <2>2, ReferenceFound
  <1> QED
    BY <1>7, <1>8 DEF place, section

\* The references a reader finds in the TOON document are those of the DBML
\* document, but for those that the encoder drops or that read as others.
THEOREM ReferencesAlwaysKept == Spec => []ReferencesKept
  <1>1. ASSUME IInv, phase = "done", Plain, Strict, NEW i \in DOMAIN tables,
               NEW k \in DOMAIN tables[i].fks
        PROVE  \E j \in DOMAIN tables : /\ tables[j].schema = tables[i].fks[k].schema
                                        /\ tables[j].name = tables[i].fks[k].table
    <2>1. /\ Mirrored /\ links \in Seq(AllLinks) /\ refs = <<>>
          /\ tables \in Seq(TableSet) /\ meant \in Seq(MeantSet)
          /\ tables[i].fks = KeysOf(OwnedBy(tables[i], SubSeq(links, 1, Resolved)))
      BY <1>1 DEF IInv, ParserOK, AuthorOK, MirrorOK, DoneOK, ResolvedOK
    <2>2. SubSeq(links, 1, Resolved) = links
      <3>1. Resolved = Len(links) /\ Len(links) \in Nat
        BY <2>1 DEF Resolved
      <3>2. SubSeq(links, 1, Len(links)) = links
        BY <2>1
      <3> QED
        BY <3>1, <3>2
    <2> DEFINE own == OwnedBy(tables[i], links)
               l == own[k]
    <2>3. k \in DOMAIN own /\ tables[i].fks[k] = ForeignKey(l)
      BY <2>1, <2>2 DEF KeysOf
    <2>4. l \in Range(links)
      <3>1. Range(own) \subseteq Range(links)
        BY <2>1, KeepRange DEF OwnedBy
      <3>2. l \in Range(own)
        BY <2>3 DEF Range
      <3> QED
        BY <3>1, <3>2
    <2> HIDE DEF l
    <2>5. PICK n \in DOMAIN links : links[n] = l
      BY <2>4 DEF Range
    <2>6. Target(l) \in EndsOf(links[n])
      BY <2>5 DEF EndsOf, Target
    <2>7. ~Loose(Target(l))
      BY <1>1, <2>6 DEF Strict
    <2>8. PICK j \in DOMAIN meant :
            meant[j].schema = Target(l).schema /\ meant[j].name = Target(l).table
      BY <2>7 DEF Loose
    <2>9. DOMAIN tables = DOMAIN meant
      BY <2>1 DEF Mirrored
    <2>10. tables[j].schema = Target(l).schema /\ tables[j].name = Target(l).table
      BY <2>1, <2>8, <2>9 DEF Mirrored, Agrees
    <2>11. ForeignKey(l).schema = Target(l).schema /\ ForeignKey(l).table = Target(l).table
      BY DEF ForeignKey
    <2> QED
      BY <2>3, <2>8, <2>9, <2>10, <2>11
  <1>2. ASSUME IInv, phase = "done", Plain, Strict, NEW i \in DOMAIN tables
        PROVE  LET t == tables[i]
                   Means(fk) == <<fk.columns,
                                  TableName([schema |-> fk.schema, name |-> fk.table], tables),
                                  fk.refColumns>>
                   exact == {k \in DOMAIN t.fks : ~Misread(t, t.fks[k])}
               IN  /\ {Means(t.fks[k]) : k \in {k \in exact : ~Dropped(t, k)}}
                        \subseteq References(out[i])
                   /\ exact = DOMAIN t.fks =>
                        References(out[i]) \subseteq {Means(t.fks[k]) : k \in exact}
    <2> DEFINE t == tables[i]
               Means(fk) == <<fk.columns,
                              TableName([schema |-> fk.schema, name |-> fk.table], tables),
                              fk.refColumns>>
               exact == {k \in DOMAIN t.fks : ~Misread(t, t.fks[k])}
    <2>1. out = Encode(tables) /\ tables \in Seq(TableSet)
      BY <1>2 DEF IInv, DoneOK, ParserOK
    <2>2. /\ \A k \in exact : ~Dropped(t, k) => Means(t.fks[k]) \in References(Encode(tables)[i])
          /\ exact = DOMAIN t.fks =>
               \A e \in References(Encode(tables)[i]) : \E k \in exact : e = Means(t.fks[k])
      <3>1. \A k \in DOMAIN tables[i].fks : \E j \in DOMAIN tables :
              /\ tables[j].schema = tables[i].fks[k].schema
              /\ tables[j].name = tables[i].fks[k].table
        BY <1>1, <1>2
      <3> QED
        BY <2>1, <3>1, SectionReferences
    <2> HIDE DEF t, Means, exact
    <2>3. /\ {Means(t.fks[k]) : k \in {k \in exact : ~Dropped(t, k)}} \subseteq References(out[i])
          /\ exact = DOMAIN t.fks => References(out[i]) \subseteq {Means(t.fks[k]) : k \in exact}
      BY <2>1, <2>2
    <2> QED
      BY <2>3 DEF t, Means, exact
  <1>3. IInv => ReferencesKept
    BY <1>2, Zenon DEF ReferencesKept, Plain
  <1> QED
    BY <1>3, Invariant, PTL
=============================================================================
