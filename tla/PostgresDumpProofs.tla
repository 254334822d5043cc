-------------------------- MODULE PostgresDumpProofs --------------------------
(***************************************************************************)
(* Every safety property that the runs of PostgresDump and of DumpScanner  *)
(* check.  The first part is about the parser of PostgreSQL's dumps, for   *)
(* dumps of any length, with any schemas, tables and columns, under any    *)
(* options; the second about the scanners that cut dumps into pieces,      *)
(* those of the other dialects with them, for texts of any length and any  *)
(* contents.                                                               *)
(*                                                                         *)
(* The parser's invariant has two halves.  ParsedInv relates what it keeps *)
(* to what the dump said, statement by statement; ResultInv relates the    *)
(* tables of the result, and their examples, to what the parser kept,      *)
(* position by position of apply().                                        *)
(*                                                                         *)
(* The scanners' is Understood: after what is written so far a scanner is  *)
(* within no quotes, whatever follows, has cut what was meant so far and   *)
(* counts the author's parentheses.                                        *)
(***************************************************************************)
EXTENDS PostgresDump, DumpScanner, FilterProofs

\* A definition is heard of in due and owed alike, and one that was not understood
\* counts as missed.
Heard == DOMAIN owed = DOMAIN due /\ stale \subseteq missed
Ordered == Range(order) = DOMAIN tables

\* What is kept and what is owed are lists.
RowLists == \A k \in DOMAIN rows : \E T : rows[k] \in Seq(T)
OwedLists == \A k \in DOMAIN owed : owed[k] \in Seq(SUBSET Columns)

\* Rows are as wide as their table, until it is defined again.
RowsWide ==
  \A k \in DOMAIN rows \ redefined : \A r \in Range(rows[k]) :
    DOMAIN r = DOMAIN tables[k].columns

ParsedInv ==
  /\ Heard
  /\ Ordered
  /\ DetailsKept
  /\ RowLists
  /\ OwedLists
  /\ RowsWide
  /\ RowsKept

\* The cells that an example shows of a row that named some columns.
ShownFor(k, named) == [j \in Shown(k) |-> CellsFor(tables[k].columns, named)[j]]

\* x is the table x.key with its example, as the dump and the options have it.
ExampleFits(x) ==
  LET k == x.key
  IN  /\ Len(x.example) = IF Shown(k) = {} THEN 0 ELSE SampleSize(k, owed[k])
      /\ \A i \in DOMAIN x.example :
           IF options.ordered
           THEN \E named \in Range(owed[k]) : x.example[i] = ShownFor(k, named)
           ELSE x.example[i] = ShownFor(k, owed[k][i])

\* The keys left out of what is said of rows.
Unsure == missed \cup strayed \cup redefined \cup foreign

OutList == \E T : out \in Seq(T)
NoResultYet == phase \in {"parsing", "failed"} => next = 1 /\ out = <<>>
KeysSoFar ==
  phase \in {"emitting", "done"} =>
    Keep(KeysOf(out), Asked) = Keep(SubSeq(order, 1, next - 1), Asked)
NoneButSelected ==
  phase \in {"emitting", "done"} =>
    \A x \in Range(out) :
      x.key \in Asked \/ (x.kind \in {"view", "partitioned"} /\ Wanted(x.key))
AtTheEnd == phase = "done" => next = Len(order) + 1
ExamplesFit == \A x \in Range(out) : x.key \notin Unsure => ExampleFits(x)
PanicExplained == phase = "panicked" => redefined # {}

ResultInv ==
  /\ OutList
  /\ NoResultYet
  /\ KeysSoFar
  /\ NoneButSelected
  /\ AtTheEnd
  /\ ExamplesFit
  /\ PanicExplained

IInv == TypeOK /\ ParsedInv /\ ResultInv

-----------------------------------------------------------------------------
(* The operators. *)

LEMMA KeyType ==
  ASSUME NEW q \in Qualifiers, NEW n \in TableNames
  PROVE  Space(q) \in SchemaNames /\ Key(q, n) \in Keys /\ Key(q, n)[1] = Space(q)
  BY ConstantsOK DEF Space, Key, Keys, Qualifiers

\* Where a name is not one table, both keys are noted.
LEMMA StrayNoted ==
  ASSUME NEW q \in Qualifiers, NEW n \in TableNames, Stray(q, n)
  PROVE  /\ strayed \subseteq strayed'
         /\ \/ Intended(q, n) = Key(q, n)
            \/ Key(q, n) \in strayed' /\ Intended(q, n) \in strayed'
  BY DEF Stray, Key, Space, Intended

\* What a statement adds to the history.
LEMMA WithDetailParts ==
  ASSUME NEW f, NEW k, NEW detail
  PROVE  /\ DOMAIN WithDetail(f, k, detail) = DOMAIN f
         /\ \A x \in DOMAIN f :
              WithDetail(f, k, detail)[x] = IF x = k THEN f[x] \cup {detail} ELSE f[x]
  BY DEF WithDetail

LEMMA WithRowParts ==
  ASSUME NEW f, NEW k, NEW values
  PROVE  /\ DOMAIN WithRow(f, k, values) = DOMAIN f
         /\ \A x \in DOMAIN f :
              WithRow(f, k, values)[x] = IF x = k THEN Append(f[x], Range(values)) ELSE f[x]
  BY DEF WithRow

LEMMA ColumnsType ==
  ASSUME NEW columns \in ColumnLists \cup {<<>>}
  PROVE  columns \in Seq(Columns) /\ IsInjective(columns)
  <1>1. IsInjective(<<>>)
    BY EmptyDomain DEF IsInjective
  <1> QED
    BY <1>1, ConstantsOK, EmptySeq

\* When the heads are the names of the values, each value comes under its column.
LEMMA RowIsCells ==
  ASSUME NEW columns \in Seq(Columns), NEW values \in Seq(Columns), IsInjective(values)
  PROVE  Row(columns, values, values) = CellsFor(columns, Range(values))
  <1> DEFINE at(j) == {i \in DOMAIN values : i <= Len(values) /\ values[i] = columns[j]}
  <1>1. DOMAIN columns = 1 .. Len(columns) /\ DOMAIN values = 1 .. Len(values)
        /\ Len(values) \in Nat
    OBVIOUS
  <1>2. ASSUME NEW j \in DOMAIN columns
        PROVE  (IF at(j) = {} THEN "null" ELSE values[Max(at(j))])
                 = IF columns[j] \in Range(values) THEN columns[j] ELSE "null"
    <2>1. CASE columns[j] \notin Range(values)
      <3>1. at(j) = {}
        BY <2>1 DEF Range
      <3> QED
        BY <2>1, <3>1
    <2>2. CASE columns[j] \in Range(values)
      <3>1. PICK i \in DOMAIN values : values[i] = columns[j]
        BY <2>2 DEF Range
      <3>2. at(j) = {i}
        BY <1>1, <3>1 DEF IsInjective
      <3>3. Max({i}) = i
        BY <1>1 DEF Max
      <3> HIDE DEF at
      <3> QED
        BY <2>2, <3>1, <3>2, <3>3
    <2> QED
      BY <2>1, <2>2
  <1> QED
    BY <1>1, <1>2 DEF Row, CellsFor

LEMMA RowWidth ==
  ASSUME NEW columns \in Seq(Columns), NEW heads, NEW values
  PROVE  DOMAIN Row(columns, heads, values) = DOMAIN columns
  BY DEF Row

-----------------------------------------------------------------------------
(* Parsing. *)

LEMMA IInvInit == Init => IInv
  <1> SUFFICES ASSUME Init PROVE IInv
    OBVIOUS
  <1>1. DOMAIN tables = {} /\ DOMAIN rows = {} /\ DOMAIN due = {} /\ DOMAIN owed = {}
        /\ DOMAIN out = {} /\ DOMAIN order = {}
    <2>1. tables = <<>> /\ rows = <<>> /\ due = <<>> /\ owed = <<>> /\ out = <<>>
          /\ order = <<>>
      BY DEF Init
    <2> QED
      BY <2>1, EmptyDomain
  <1>2. TypeOK
    <2>1. order \in Seq(DOMAIN tables) /\ Len(order) = 0
      BY EmptySeq DEF Init
    <2>2. /\ phase = "parsing" /\ statements = 0 /\ crlf \in BOOLEAN /\ glued = FALSE
          /\ schemas = {} /\ options = None /\ next = 1
      BY DEF Init
    <2>3. statements \in 0 .. MaxStatements /\ next \in 1 .. Len(order) + 1
      BY <2>1, <2>2, ConstantsOK
    <2>4. /\ phase \in {"parsing", "emitting", "done", "failed", "stopped", "panicked"}
          /\ options \in IF phase \in {"parsing", "failed"} THEN {None} ELSE Options
      BY <2>2
    <2> QED
      BY <1>1, <2>1, <2>2, <2>3, <2>4 DEF TypeOK
  <1>3. ParsedInv
    BY <1>1 DEF Init, ParsedInv, Heard, Ordered, DetailsKept, RowLists, OwedLists,
                RowsWide, RowsKept, Range
  <1>4. ResultInv
    BY <1>1, EmptySeq DEF Init, ResultInv, OutList, NoResultYet, KeysSoFar,
                          NoneButSelected, AtTheEnd, ExamplesFit, PanicExplained, Range
  <1> QED
    BY <1>2, <1>3, <1>4 DEF IInv

\* A statement leaves the result alone: it is still to come.
LEMMA ReadingResult ==
  ASSUME IInv, Reading, phase' \in {"parsing", "failed"}
  PROVE  ResultInv'
  <1>1. next' = 1 /\ out' = <<>>
    BY DEF IInv, ResultInv, NoResultYet, Reading
  <1>2. DOMAIN out' = {}
    BY <1>1, EmptyDomain
  <1> QED
    BY <1>1, <1>2, EmptySeq
    DEF ResultInv, OutList, NoResultYet, KeysSoFar, NoneButSelected, AtTheEnd,
        ExamplesFit, PanicExplained, Range

\* A statement that defines nothing keeps the types, if it keeps those of its table.
LEMMA ReadingType ==
  ASSUME IInv, Reading, phase' \in {"parsing", "failed"}, glued' \in BOOLEAN,
         order' = order, DOMAIN tables' = DOMAIN tables, DOMAIN rows' \subseteq DOMAIN tables,
         \A x \in DOMAIN tables : tables'[x] \in TableType,
         schemas \subseteq schemas', schemas' \subseteq SchemaNames
  PROVE  TypeOK'
  <1>1. statements' \in 0 .. MaxStatements
    BY ConstantsOK DEF IInv, TypeOK, Reading
  <1>2. order' \in Seq(DOMAIN tables') /\ next' \in 1 .. Len(order') + 1
    BY DEF IInv, TypeOK, Reading
  <1>3. options' \in IF phase' \in {"parsing", "failed"} THEN {None} ELSE Options
    BY DEF IInv, TypeOK, Reading
  <1>4. crlf' \in BOOLEAN
    BY DEF IInv, TypeOK, Reading
  <1>5. DOMAIN tables' \subseteq Keys
        /\ \A x \in DOMAIN tables' : tables'[x] \in TableType /\ x[1] \in schemas'
    BY DEF IInv, TypeOK
  <1> QED
    BY <1>1, <1>2, <1>3, <1>4, <1>5 DEF TypeOK

\* A statement that is about no table.
LEMMA OtherStep ==
  ASSUME IInv, Reading, phase' \in {"parsing", "failed"}, glued' \in BOOLEAN,
         UNCHANGED <<tables, order, rows, said>>,
         schemas \subseteq schemas', schemas' \subseteq SchemaNames
  PROVE  IInv'
  <1>1. TypeOK'
    BY ReadingType DEF IInv, TypeOK
  <1>2. ParsedInv'
    BY DEF IInv, ParsedInv, said, Heard, Ordered, DetailsKept, RowLists, OwedLists,
           RowsWide, RowsKept
  <1> QED
    BY <1>1, <1>2, ReadingResult DEF IInv

LEMMA DefineStep ==
  ASSUME IInv, Statement, NEW q \in Qualifiers, NEW n \in TableNames,
         NEW t \in TableType, t.attached = {}, Define(q, n, t),
         UNCHANGED <<rows, foreign>>
  PROVE  IInv'
  <1> DEFINE k == Key(q, n)
             I == Intended(q, n)
  <1> USE DEF IInv, ParsedInv
  <1>1. k \in Keys /\ k[1] = Space(q) /\ Space(q) \in SchemaNames
    BY KeyType
  <1>2. /\ DOMAIN tables' = DOMAIN tables \cup {k}
        /\ tables'[k] = t
        /\ \A x \in DOMAIN tables \ {k} : tables'[x] = tables[x]
    <2>1. tables' = Put(tables, k, t)
      BY DEF Define
    <2> QED
      BY <2>1 DEF Put
  <1>3. /\ DOMAIN due' = DOMAIN due \cup {I}
        /\ due'[I] = {}
        /\ \A x \in DOMAIN due \ {I} : due'[x] = due[x]
    <2>1. due' = Put(due, I, {})
      BY DEF Define, Redefine
    <2> QED
      BY <2>1 DEF Put
  <1>4. /\ DOMAIN owed' = DOMAIN owed \cup {I}
        /\ owed'[I] = <<>>
        /\ \A x \in DOMAIN owed \ {I} : owed'[x] = owed[x]
    <2>1. owed' = Put(owed, I, <<>>)
      BY DEF Define, Redefine
    <2> QED
      BY <2>1 DEF Put
  <1>5. order' = Append(order, k) /\ schemas' = schemas \cup {Space(q)}
    BY DEF Define
  <1>6. redefined' = IF At(rows, k, <<>>) = <<>> THEN redefined ELSE redefined \cup {k}
    BY DEF Define, Redefine
  <1>7. missed' = missed \ {I} /\ stale' = stale \ {I}
    BY DEF Define, Redefine
  <1>8. /\ strayed \subseteq strayed'
        /\ I = k \/ (k \in strayed' /\ I \in strayed')
    BY StrayNoted DEF Define, Redefine
  <1> HIDE DEF k, I
  <1>9. order \in Seq(DOMAIN tables') /\ k \in DOMAIN tables'
    BY <1>2, SeqMonotonic DEF TypeOK
  <1>10. TypeOK'
    <2>1. order' \in Seq(DOMAIN tables') /\ Len(order') = Len(order) + 1
      BY <1>5, <1>9, AppendParts
    <2>2. next' \in 1 .. Len(order') + 1
      BY <1>9, <2>1 DEF TypeOK, Statement, Reading
    <2>3. \A x \in DOMAIN tables' : x \in Keys /\ tables'[x] \in TableType /\ x[1] \in schemas'
      BY <1>1, <1>2, <1>5 DEF TypeOK
    <2>4. statements' \in 0 .. MaxStatements
      BY ConstantsOK DEF TypeOK, Statement, Reading
    <2> QED
      BY <1>1, <1>2, <1>5, <2>1, <2>2, <2>3, <2>4 DEF TypeOK, Statement, Reading
  <1>11. Heard'
    BY <1>3, <1>4, <1>7 DEF Heard
  <1>12. DetailsKept'
    <2> SUFFICES ASSUME NEW x \in (DOMAIN due' \cup DOMAIN tables') \ strayed'
                 PROVE  /\ x \in DOMAIN due'
                        /\ x \in DOMAIN tables' /\ x \notin stale' =>
                             tables'[x].attached \subseteq due'[x]
                        /\ x \notin missed' =>
                             x \in DOMAIN tables' /\ due'[x] \subseteq tables'[x].attached
      BY DEF DetailsKept
    <2>1. CASE x = k
      BY <1>2, <1>3, <1>8, <2>1
    <2>2. CASE x # k
      BY <1>2, <1>3, <1>7, <1>8, <2>2 DEF DetailsKept
    <2> QED
      BY <2>1, <2>2
  <1>13. Ordered'
    <2>1. Range(order') = Range(order) \cup {k}
      BY <1>5, <1>9, RangeOfAppend
    <2> QED
      BY <1>2, <2>1 DEF Ordered
  <1>14. RowLists' /\ OwedLists'
    BY <1>4, EmptySeq DEF RowLists, OwedLists
  <1>15. At(rows, k, <<>>) # <<>> => k \in redefined'
    BY <1>6
  <1>16. RowsWide'
    <2>1. ASSUME NEW x \in DOMAIN rows \ redefined', NEW r \in Range(rows[x])
          PROVE  DOMAIN r = DOMAIN tables'[x].columns
      <3>1. x \in DOMAIN rows \ redefined /\ x \in DOMAIN tables
        BY <1>6, <2>1 DEF TypeOK
      <3>2. x # k
        <4> SUFFICES ASSUME x = k PROVE FALSE
          OBVIOUS
        <4>1. rows[x] = <<>>
          BY <1>15, <2>1 DEF At
        <4> QED
          BY <2>1, <4>1, EmptyDomain DEF Range
      <3> QED
        BY <1>2, <3>1, <3>2, <2>1 DEF RowsWide
    <2> QED
      BY <2>1 DEF RowsWide
  <1>17. RowsKept'
    <2> SUFFICES ASSUME NEW x \in DOMAIN owed' \ (strayed' \cup stale' \cup redefined' \cup foreign)
                 PROVE  LET kept == At(rows, x, <<>>)
                        IN  /\ \A i \in DOMAIN kept : \E named \in Range(owed'[x]) :
                                 kept[i] = CellsFor(tables'[x].columns, named)
                            /\ x \notin missed' =>
                                 /\ Len(kept) = Len(owed'[x])
                                 /\ \A i \in DOMAIN kept :
                                      kept[i] = CellsFor(tables'[x].columns, owed'[x][i])
      BY DEF RowsKept, At
    <2>1. CASE x = k
      <3>1. At(rows, x, <<>>) = <<>> /\ owed'[x] = <<>>
        BY <1>4, <1>8, <1>15, <2>1
      <3> QED
        BY <3>1, EmptyDomain
    <2>2. CASE x # k
      <3>1. x # I
        BY <1>8, <2>2
      <3>2. /\ x \in DOMAIN owed \ (strayed \cup stale \cup redefined \cup foreign)
            /\ owed'[x] = owed[x]
            /\ x \notin missed' => x \notin missed
        BY <1>4, <1>6, <1>7, <1>8, <3>1
      <3>3. x \in DOMAIN tables => tables'[x] = tables[x]
        BY <1>2, <2>2
      <3>4. x \notin DOMAIN tables => DOMAIN At(rows, x, <<>>) = {}
        BY EmptyDomain DEF At, TypeOK
      <3> QED
        BY <3>2, <3>3, <3>4 DEF RowsKept
    <2> QED
      BY <2>1, <2>2
  <1> QED
    BY <1>10, <1>11, <1>12, <1>13, <1>14, <1>16, <1>17, ReadingResult DEF Statement, Reading

LEMMA AttachStep ==
  ASSUME IInv, NEW q \in Qualifiers, NEW n \in TableNames,
         NEW detail \in Attached \cup Columns, Attach(q, n, detail)
  PROVE  IInv'
  <1> DEFINE k == Key(q, n)
             I == Intended(q, n)
  <1> USE DEF IInv, ParsedInv
  <1>1. /\ Statement
        /\ UNCHANGED <<order, rows, schemas, owed, missed, stale, redefined, foreign>>
    BY DEF Attach
  <1>2. /\ DOMAIN tables' = DOMAIN tables
        /\ \A x \in DOMAIN tables :
             /\ tables'[x].columns = tables[x].columns
             /\ tables'[x].attached = IF x = k THEN tables[x].attached \cup {detail}
                                      ELSE tables[x].attached
             /\ tables'[x] \in TableType
    BY DEF Attach, TypeOK, TableType
  <1>3. /\ DOMAIN due' = DOMAIN due
        /\ \A x \in DOMAIN due : due'[x] = IF x = I THEN due[x] \cup {detail} ELSE due[x]
    BY WithDetailParts DEF Attach
  <1>4. /\ strayed \subseteq strayed'
        /\ I = k \/ (k \in strayed' /\ I \in strayed')
    BY StrayNoted DEF Attach
  <1> HIDE DEF k, I
  <1>5. TypeOK'
    BY <1>1, <1>2, ReadingType DEF TypeOK, Statement, Reading
  <1>6. Heard' /\ Ordered' /\ RowLists' /\ OwedLists'
    BY <1>1, <1>2, <1>3 DEF Heard, Ordered, RowLists, OwedLists
  <1>7. DetailsKept'
    <2> SUFFICES ASSUME NEW x \in (DOMAIN due \cup DOMAIN tables) \ strayed'
                 PROVE  /\ x \in DOMAIN due
                        /\ x \in DOMAIN tables /\ x \notin stale =>
                             tables'[x].attached \subseteq due'[x]
                        /\ x \notin missed =>
                             x \in DOMAIN tables /\ due'[x] \subseteq tables'[x].attached
      BY <1>1, <1>2, <1>3 DEF DetailsKept
    <2>1. x = I <=> x = k
      BY <1>4
    <2>2. /\ x \in DOMAIN due
          /\ x \in DOMAIN tables /\ x \notin stale => tables[x].attached \subseteq due[x]
          /\ x \notin missed => x \in DOMAIN tables /\ due[x] \subseteq tables[x].attached
      BY <1>4 DEF DetailsKept
    <2> QED
      BY <1>2, <1>3, <2>1, <2>2
  <1>8. RowsWide'
    <2>1. ASSUME NEW x \in DOMAIN rows \ redefined, NEW r \in Range(rows[x])
          PROVE  DOMAIN r = DOMAIN tables'[x].columns
      <3>1. tables'[x].columns = tables[x].columns
        BY <1>2 DEF TypeOK
      <3> QED
        BY <2>1, <3>1 DEF RowsWide
    <2> QED
      BY <1>1, <2>1 DEF RowsWide
  <1>9. RowsKept'
    <2>1. ASSUME NEW x, x \notin DOMAIN tables PROVE DOMAIN At(rows, x, <<>>) = {}
      BY <2>1, EmptyDomain DEF At, TypeOK
    <2>2. \A x \in DOMAIN tables : tables'[x].columns = tables[x].columns
      BY <1>2
    <2>3. strayed \subseteq strayed'
      BY <1>4
    <2> QED
      BY <1>1, <2>1, <2>2, <2>3 DEF RowsKept
  <1> QED
    BY <1>1, <1>5, <1>6, <1>7, <1>8, <1>9, ReadingResult DEF Statement, Reading

\* What was overlooked leaves what the parser keeps alone.
LEMMA OverlookKeeps ==
  ASSUME IInv, NEW q \in Qualifiers, NEW n \in TableNames, Overlook(q, n),
         glued' \in BOOLEAN
  PROVE  TypeOK' /\ Ordered' /\ RowLists' /\ RowsWide' /\ ResultInv'
  <1>1. Reading /\ phase' = "parsing" /\ UNCHANGED <<tables, order, rows, schemas, redefined>>
    BY DEF Overlook, Reading, parsed
  <1>2. TypeOK'
    BY <1>1, ReadingType DEF IInv, TypeOK
  <1>3. ResultInv'
    BY <1>1, ReadingResult
  <1> QED
    BY <1>1, <1>2, <1>3 DEF IInv, ParsedInv, Ordered, RowLists, RowsWide

LEMMA OverlookDefinitionStep ==
  ASSUME IInv, NEW q \in Qualifiers, NEW n \in TableNames, OverlookDefinition(q, n)
  PROVE  IInv'
  <1> DEFINE I == Intended(q, n)
  <1> USE DEF IInv, ParsedInv
  <1>1. /\ Overlook(q, n)
        /\ UNCHANGED <<tables, rows, redefined, foreign>>
        /\ missed' = missed \cup {I} /\ stale' = stale \cup {I}
        /\ strayed \subseteq strayed'
    BY StrayNoted DEF OverlookDefinition, Overlook, parsed
  <1>2. /\ DOMAIN due' = DOMAIN due \cup {I}
        /\ \A x \in DOMAIN due \ {I} : due'[x] = due[x]
    <2>1. due' = Put(due, I, {})
      BY DEF OverlookDefinition
    <2> QED
      BY <2>1 DEF Put
  <1>3. /\ DOMAIN owed' = DOMAIN owed \cup {I}
        /\ owed'[I] = <<>>
        /\ \A x \in DOMAIN owed \ {I} : owed'[x] = owed[x]
    <2>1. owed' = Put(owed, I, <<>>)
      BY DEF OverlookDefinition
    <2> QED
      BY <2>1 DEF Put
  <1> HIDE DEF I
  <1>4. Heard'
    BY <1>1, <1>2, <1>3 DEF Heard
  <1>5. DetailsKept'
    BY <1>1, <1>2 DEF DetailsKept
  <1>6. OwedLists'
    BY <1>3, EmptySeq DEF OwedLists
  <1>7. RowsKept'
    BY <1>1, <1>3 DEF RowsKept
  <1> QED
    BY <1>1, <1>4, <1>5, <1>6, <1>7, OverlookKeeps DEF OverlookDefinition

LEMMA OverlookDetailStep ==
  ASSUME IInv, NEW q \in Qualifiers, NEW n \in TableNames, NEW detail,
         OverlookDetail(q, n, detail)
  PROVE  IInv'
  <1> DEFINE I == Intended(q, n)
  <1> USE DEF IInv, ParsedInv
  <1>1. /\ Overlook(q, n)
        /\ UNCHANGED <<tables, rows, owed, stale, redefined, foreign>>
        /\ missed' = missed \cup {I}
        /\ strayed \subseteq strayed'
    BY StrayNoted DEF OverlookDetail, Overlook, parsed
  <1>2. /\ DOMAIN due' = DOMAIN due
        /\ \A x \in DOMAIN due : due'[x] = IF x = I THEN due[x] \cup {detail} ELSE due[x]
    BY WithDetailParts DEF OverlookDetail
  <1> HIDE DEF I
  <1>3. Heard' /\ OwedLists'
    BY <1>1, <1>2 DEF Heard, OwedLists
  <1>4. DetailsKept'
    BY <1>1, <1>2 DEF DetailsKept
  <1>5. RowsKept'
    BY <1>1 DEF RowsKept
  <1> QED
    BY <1>1, <1>3, <1>4, <1>5, OverlookKeeps DEF OverlookDetail

LEMMA OverlookRowStep ==
  ASSUME IInv, NEW q \in Qualifiers, NEW n \in TableNames, NEW values \in ColumnLists,
         NEW copies \in BOOLEAN, OverlookRow(q, n, values, copies)
  PROVE  IInv'
  <1> DEFINE I == Intended(q, n)
             named == Range(values)
  <1> USE DEF IInv, ParsedInv
  <1>1. /\ Overlook(q, n)
        /\ UNCHANGED <<tables, rows, due, stale, redefined, foreign>>
        /\ missed' = missed \cup {I}
        /\ strayed \subseteq strayed'
    BY StrayNoted DEF OverlookRow, Overlook, parsed
  <1>2. /\ DOMAIN owed' = DOMAIN owed
        /\ \A x \in DOMAIN owed : owed'[x] = IF x = I THEN Append(owed[x], named) ELSE owed[x]
    BY WithRowParts DEF OverlookRow
  <1>3. named \in SUBSET Columns
    <2>1. values \in Seq(Columns)
      BY ColumnsType
    <2> QED
      BY <2>1 DEF Range
  <1> HIDE DEF I, named
  <1>4. Heard' /\ DetailsKept'
    BY <1>1, <1>2 DEF Heard, DetailsKept
  <1>5. ASSUME NEW x \in DOMAIN owed
        PROVE  owed'[x] \in Seq(SUBSET Columns) /\ Range(owed[x]) \subseteq Range(owed'[x])
    <2>1. owed[x] \in Seq(SUBSET Columns)
      BY DEF OwedLists
    <2>2. Append(owed[x], named) \in Seq(SUBSET Columns)
          /\ Range(Append(owed[x], named)) = Range(owed[x]) \cup {named}
      BY <1>3, <2>1, AppendParts, RangeOfAppend
    <2> QED
      BY <1>2, <2>1, <2>2
  <1>6. OwedLists'
    BY <1>2, <1>5 DEF OwedLists
  <1>7. RowsKept'
    <2> SUFFICES ASSUME NEW x \in DOMAIN owed \ (strayed' \cup stale \cup redefined \cup foreign)
                 PROVE  LET kept == At(rows, x, <<>>)
                        IN  /\ \A i \in DOMAIN kept : \E m \in Range(owed'[x]) :
                                 kept[i] = CellsFor(tables[x].columns, m)
                            /\ x \notin missed' =>
                                 /\ Len(kept) = Len(owed'[x])
                                 /\ \A i \in DOMAIN kept :
                                      kept[i] = CellsFor(tables[x].columns, owed'[x][i])
      BY <1>1, <1>2 DEF RowsKept
    <2>1. x \notin missed' => x \notin missed /\ owed'[x] = owed[x]
      BY <1>1, <1>2
    <2>2. Range(owed[x]) \subseteq Range(owed'[x])
      BY <1>5
    <2>3. x \notin strayed
      BY <1>1
    <2> QED
      BY <2>1, <2>2, <2>3 DEF RowsKept
  <1> QED
    BY <1>1, <1>4, <1>6, <1>7, OverlookKeeps DEF OverlookRow

\* A row for a table that is known: it is kept as wide as the table, and as it was
\* written when the heads are the names of the values.
LEMMA AddRowStep ==
  ASSUME IInv, Statement, NEW q \in Qualifiers, NEW n \in TableNames, NEW heads,
         NEW values \in Seq(Columns), IsInjective(values), AddRow(q, n, heads, values),
         foreign \subseteq foreign',
         heads = values \/ Key(q, n) \notin DOMAIN tables \/ Key(q, n) \in foreign'
  PROVE  IInv'
  <1> DEFINE k == Key(q, n)
             I == Intended(q, n)
             columns == tables[k].columns
             old == At(rows, k, <<>>)
             row == Row(columns, heads, values)
             named == Range(values)
  <1> USE DEF IInv, ParsedInv
  <1>1. UNCHANGED <<tables, order, schemas, due, missed, stale, redefined>>
    BY DEF AddRow
  <1>2. /\ strayed \subseteq strayed'
        /\ I = k \/ (k \in strayed' /\ I \in strayed')
    BY StrayNoted DEF AddRow
  <1>3. /\ DOMAIN owed' = DOMAIN owed
        /\ \A x \in DOMAIN owed : owed'[x] = IF x = I THEN Append(owed[x], named) ELSE owed[x]
    BY WithRowParts DEF AddRow
  <1>4. named \in SUBSET Columns
    BY DEF Range
  <1>5. /\ k \notin DOMAIN tables => rows' = rows
        /\ k \in DOMAIN tables => /\ DOMAIN rows' = DOMAIN rows \cup {k}
                                  /\ rows'[k] = Append(old, row)
                                  /\ \A x \in DOMAIN rows \ {k} : rows'[x] = rows[x]
    <2>1. k \in DOMAIN tables => rows' = Put(rows, k, Append(old, row))
      BY DEF AddRow
    <2>2. k \notin DOMAIN tables => rows' = rows
      BY DEF AddRow
    <2> QED
      BY <2>1, <2>2 DEF Put
  <1>6. k \in DOMAIN tables => columns \in Seq(Columns)
    BY ColumnsType DEF TypeOK, TableType
  <1>7. k \in DOMAIN tables => DOMAIN row = DOMAIN columns
    BY <1>6, RowWidth
  <1>8. k \in DOMAIN tables /\ heads = values => row = CellsFor(columns, named)
    BY <1>6, RowIsCells
  <1>9. heads = values \/ k \notin DOMAIN tables \/ k \in foreign'
    OBVIOUS
  <1>10. PICK T : old \in Seq(T)
    BY EmptySeq DEF At, RowLists
  <1> DEFINE U == T \cup {row}
  <1>11. old \in Seq(U) /\ row \in U
    BY <1>10, SeqMonotonic
  <1>12. k \notin DOMAIN rows => Range(old) = {}
    BY EmptyDomain DEF At, Range
  <1>13. k \in DOMAIN rows => old = rows[k]
    BY DEF At
  <1>14. old = At(rows, k, <<>>)
    OBVIOUS
  <1> HIDE DEF k, I, old, row, named, U
  <1>15. TypeOK'
    <2>1. DOMAIN rows' \subseteq DOMAIN tables
      BY <1>5 DEF TypeOK
    <2> QED
      BY <1>1, <2>1, ReadingType DEF TypeOK, Statement, Reading
  <1>16. Heard' /\ DetailsKept' /\ Ordered'
    BY <1>1, <1>2, <1>3 DEF Heard, DetailsKept, Ordered
  <1>17. RowLists'
    <2>1. Append(old, row) \in Seq(U)
      BY <1>11, AppendParts
    <2>2. ASSUME NEW x \in DOMAIN rows' PROVE \E S : rows'[x] \in Seq(S)
      <3>1. CASE k \in DOMAIN tables /\ x = k
        BY <1>5, <2>1, <3>1
      <3>2. CASE k \notin DOMAIN tables \/ x # k
        BY <1>5, <3>2 DEF RowLists
      <3> QED
        BY <3>1, <3>2
    <2> QED
      BY <2>2 DEF RowLists
  <1>18. ASSUME NEW x \in DOMAIN owed
         PROVE  /\ owed[x] \in Seq(SUBSET Columns) /\ owed'[x] \in Seq(SUBSET Columns)
                /\ Range(owed[x]) \subseteq Range(owed'[x])
    <2>1. owed[x] \in Seq(SUBSET Columns)
      BY DEF OwedLists
    <2>2. Append(owed[x], named) \in Seq(SUBSET Columns)
          /\ Range(Append(owed[x], named)) = Range(owed[x]) \cup {named}
      BY <1>4, <2>1, AppendParts, RangeOfAppend
    <2> QED
      BY <1>3, <2>1, <2>2
  <1>19. OwedLists'
    BY <1>3, <1>18 DEF OwedLists
  <1>20. RowsWide'
    <2>1. ASSUME NEW x \in DOMAIN rows' \ redefined, NEW r \in Range(rows'[x])
          PROVE  DOMAIN r = DOMAIN tables[x].columns
      <3>1. CASE x \in DOMAIN rows /\ r \in Range(rows[x])
        BY <2>1, <3>1 DEF RowsWide
      <3>2. CASE ~(x \in DOMAIN rows /\ r \in Range(rows[x]))
        <4>1. x = k /\ k \in DOMAIN tables
          BY <1>5, <2>1, <3>2
        <4>2. r \in Range(old) \cup {row}
          <5>1. r \in Range(Append(old, row))
            BY <1>5, <2>1, <4>1
          <5> QED
            BY <1>11, <5>1, RangeOfAppend
        <4>3. r = row
          BY <1>12, <1>13, <3>2, <4>1, <4>2
        <4> QED
          BY <1>7, <4>1, <4>3
      <3> QED
        BY <3>1, <3>2
    <2> QED
      BY <1>1, <2>1 DEF RowsWide
  <1>21. RowsKept'
    <2> SUFFICES ASSUME NEW x \in DOMAIN owed \ (strayed' \cup stale \cup redefined \cup foreign')
                 PROVE  LET kept == At(rows', x, <<>>)
                        IN  /\ \A i \in DOMAIN kept : \E m \in Range(owed'[x]) :
                                 kept[i] = CellsFor(tables[x].columns, m)
                            /\ x \notin missed =>
                                 /\ Len(kept) = Len(owed'[x])
                                 /\ \A i \in DOMAIN kept :
                                      kept[i] = CellsFor(tables[x].columns, owed'[x][i])
      BY <1>1, <1>3 DEF RowsKept
    <2>1. x \in DOMAIN owed \ (strayed \cup stale \cup redefined \cup foreign)
      BY <1>2
    <2>2. x = I <=> x = k
      BY <1>2
    <2>3. CASE x # k
      <3>1. At(rows', x, <<>>) = At(rows, x, <<>>) /\ owed'[x] = owed[x]
        BY <1>3, <1>5, <2>2, <2>3 DEF At
      <3> QED
        BY <2>1, <3>1 DEF RowsKept
    <2>4. CASE x = k /\ k \notin DOMAIN tables
      <3>1. DOMAIN At(rows', x, <<>>) = {}
        BY <1>5, <2>4, EmptyDomain DEF At, TypeOK
      <3>2. x \in missed
        BY <2>1, <2>4 DEF Heard, DetailsKept
      <3> QED
        BY <3>1, <3>2
    <2>5. CASE x = k /\ k \in DOMAIN tables
      <3> DEFINE l == Len(old)
                 kept == Append(old, row)
                 written == Append(owed[x], named)
      <3>1. row = CellsFor(columns, named)
        BY <1>8, <1>9, <2>5
      <3>2. At(rows', x, <<>>) = kept /\ owed'[x] = written
        BY <1>3, <1>5, <2>2, <2>5 DEF At
      <3>3. /\ \A i \in DOMAIN old : \E m \in Range(owed[x]) : old[i] = CellsFor(columns, m)
            /\ x \notin missed =>
                 /\ Len(old) = Len(owed[x])
                 /\ \A i \in DOMAIN old : old[i] = CellsFor(columns, owed[x][i])
        BY <1>14, <2>1, <2>5 DEF RowsKept
      <3>4. /\ l \in Nat /\ DOMAIN old = 1 .. l /\ DOMAIN kept = 1 .. l + 1
            /\ Len(kept) = l + 1
            /\ \A i \in 1 .. l : kept[i] = old[i]
            /\ kept[l + 1] = row
        BY <1>11, AppendParts
      <3>5. Range(written) = Range(owed[x]) \cup {named}
        BY <1>4, <1>18, RangeOfAppend
      <3>6. /\ Len(owed[x]) \in Nat
            /\ Len(written) = Len(owed[x]) + 1
            /\ \A i \in 1 .. Len(owed[x]) : written[i] = owed[x][i]
            /\ written[Len(owed[x]) + 1] = named
        BY <1>4, <1>18, AppendParts
      <3> HIDE DEF kept, written, l
      <3>7. ASSUME NEW i \in DOMAIN kept
            PROVE  \E m \in Range(written) : kept[i] = CellsFor(columns, m)
        <4>1. i = l + 1 \/ i \in 1 .. l
          BY <3>4
        <4> QED
          BY <3>1, <3>3, <3>4, <3>5, <4>1
      <3>8. ASSUME x \notin missed
            PROVE  /\ Len(kept) = Len(written)
                   /\ \A i \in DOMAIN kept : kept[i] = CellsFor(columns, written[i])
        <4>1. Len(owed[x]) = l /\ \A i \in DOMAIN old : old[i] = CellsFor(columns, owed[x][i])
          BY <3>3, <3>8 DEF l
        <4>2. ASSUME NEW i \in DOMAIN kept PROVE kept[i] = CellsFor(columns, written[i])
          <5>1. i = l + 1 \/ i \in 1 .. l
            BY <3>4
          <5> QED
            BY <3>1, <3>4, <3>6, <4>1, <5>1
        <4> QED
          BY <3>4, <3>6, <4>1, <4>2
      <3>9. columns = tables[x].columns
        BY <2>5
      <3> HIDE DEF columns
      <3> QED
        BY <3>2, <3>7, <3>8, <3>9
    <2> QED
      BY <2>3, <2>4, <2>5
  <1> QED
    BY <1>15, <1>16, <1>17, <1>19, <1>20, <1>21, ReadingResult DEF Statement, Reading

LEMMA InsertStep ==
  ASSUME IInv, NEW q \in Qualifiers, NEW n \in TableNames, NEW named \in ColumnLists,
         Insert(q, n, named)
  PROVE  IInv'
  BY ColumnsType, AddRowStep DEF Insert

LEMMA CopyStep ==
  ASSUME IInv, NEW q \in Qualifiers, NEW n \in TableNames,
         NEW named \in ColumnLists \cup {<<>>}, Copy(q, n, named)
  PROVE  IInv'
  <1> DEFINE k == Key(q, n)
             columns == At(tables, k, [columns |-> <<>>]).columns
             values == IF named = <<>> THEN columns ELSE named
             heads == Heads(columns, values)
  <1>1. columns \in ColumnLists \cup {<<>>}
    BY DEF IInv, TypeOK, TableType, At
  <1>2. values \in Seq(Columns) /\ IsInjective(values)
    BY <1>1, ColumnsType
  <1>3. /\ Statement
        /\ AddRow(q, n, heads, values)
        /\ foreign' = IF k \in DOMAIN tables /\ ~(Range(values) \subseteq Range(columns))
                      THEN foreign \cup {k} ELSE foreign
    BY DEF Copy
  <1>4. k = Key(q, n)
    OBVIOUS
  <1> HIDE DEF k, columns, values, heads
  <1>5. Range(values) \subseteq Range(columns) => heads = values
    BY <1>2, KeepAll DEF heads, Heads
  <1> QED
    BY <1>2, <1>3, <1>4, <1>5, AddRowStep

-----------------------------------------------------------------------------
(* The result. *)

\* A step of the result leaves what was parsed, and the options, alone.
ResultOnly ==
  /\ UNCHANGED <<statements, crlf, glued, parsed, history, options>>
  /\ phase = "emitting"
  /\ phase' \notin {"parsing", "failed"}

LEMMA ResultOnlyKeeps ==
  ASSUME IInv, ResultOnly
  PROVE  ParsedInv' /\ NoResultYet'
  BY DEF IInv, ParsedInv, ResultOnly, parsed, history, said, Heard, Ordered, DetailsKept,
         RowLists, OwedLists, RowsWide, RowsKept, NoResultYet

\* What is asked for is settled when the result is begun.
LEMMA AskedSettled ==
  ASSUME ResultOnly
  PROVE  Asked' = Asked
  BY DEF ResultOnly, parsed, Asked, Wanted

LEMMA ExampleFitsFixed ==
  ASSUME ResultOnly, NEW x, ExampleFits(x)
  PROVE  ExampleFits(x)'
  <1>1. UNCHANGED <<tables, owed, options>>
    BY DEF ResultOnly, parsed, history, said
  <1>2. \A k : Shown(k)' = Shown(k)
    BY <1>1 DEF Shown
  <1>3. \A k, all : SampleSize(k, all)' = SampleSize(k, all)
    BY <1>1 DEF SampleSize
  <1>4. \A k, named : ShownFor(k, named)' = ShownFor(k, named)
    BY <1>1, <1>2 DEF ShownFor
  <1> QED
    BY <1>1, <1>2, <1>3, <1>4 DEF ExampleFits

LEMMA EndOfInputStep ==
  ASSUME IInv, EndOfInput PROVE IInv'
  <1> USE DEF IInv
  <1>1. /\ phase = "parsing" /\ phase' = "emitting" /\ options' \in Options
        /\ UNCHANGED <<statements, crlf, glued, parsed, next, out, history>>
    BY DEF EndOfInput
  <1>2. next' - 1 = 0 /\ out' = <<>>
    BY <1>1 DEF ResultInv, NoResultYet
  <1>3. TypeOK'
    BY <1>1 DEF parsed, TypeOK
  <1>4. ParsedInv'
    BY <1>1 DEF ParsedInv, parsed, history, said, Heard, Ordered, DetailsKept, RowLists,
                OwedLists, RowsWide, RowsKept
  <1>5. SubSeq(order', 1, 0) = <<>>
    <2>1. order' \in Seq(DOMAIN tables')
      BY <1>3 DEF TypeOK
    <2> QED
      BY <2>1
  <1>6. DOMAIN out' = {} /\ KeysOf(out') = <<>>
    BY <1>2, EmptyDomain DEF KeysOf
  <1>7. KeysSoFar'
    <2> DEFINE W == Asked
    <2>1. /\ Keep(SubSeq(order', 1, next' - 1), W') = <<>>
          /\ Keep(KeysOf(out'), W') = <<>>
      <3> HIDE DEF W
      <3> QED
        BY <1>2, <1>5, <1>6, KeepOfEmpty
    <2> QED
      BY <2>1 DEF KeysSoFar
  <1>8. OutList' /\ NoResultYet' /\ NoneButSelected' /\ AtTheEnd' /\ ExamplesFit'
        /\ PanicExplained'
    BY <1>1, <1>2, <1>6, EmptySeq
    DEF OutList, NoResultYet, NoneButSelected, AtTheEnd, ExamplesFit, PanicExplained, Range
  <1> QED
    BY <1>3, <1>4, <1>7, <1>8 DEF ResultInv

\* The database of a context that died is none.
LEMMA StopStep ==
  ASSUME IInv, Stop PROVE IInv'
  <1> USE DEF IInv
  <1>1. ResultOnly /\ phase' = "stopped" /\ out' = <<>> /\ next' = next
    BY DEF Stop, Emitting, ResultOnly
  <1>2. DOMAIN out' = {}
    BY <1>1, EmptyDomain
  <1>3. TypeOK'
    BY <1>1 DEF ResultOnly, parsed, TypeOK
  <1>4. OutList' /\ KeysSoFar' /\ NoneButSelected' /\ AtTheEnd' /\ ExamplesFit'
        /\ PanicExplained'
    BY <1>1, <1>2, EmptySeq DEF OutList, KeysSoFar, NoneButSelected, AtTheEnd, ExamplesFit,
                                PanicExplained, Range
  <1> QED
    BY <1>1, <1>3, <1>4, ResultOnlyKeeps DEF ResultInv

\* The result is left as it is.
LEMMA SameOut ==
  ASSUME IInv, ResultOnly, out' = out, phase' # "done" \/ next' = next
  PROVE  OutList' /\ ExamplesFit' /\ NoneButSelected'
  <1> USE DEF IInv, ResultInv
  <1>1. Unsure' = Unsure /\ Asked' = Asked
    BY AskedSettled DEF ResultOnly, history, said, Unsure
  <1>2. ASSUME NEW x \in Range(out), x.key \notin Unsure
        PROVE  ExampleFits(x)'
    BY <1>2, ExampleFitsFixed DEF ExamplesFit
  <1>3. Range(out') = Range(out)
    OBVIOUS
  <1>4. ExamplesFit'
    BY <1>1, <1>2, <1>3 DEF ExamplesFit
  <1>5. \A k : Wanted(k)' = Wanted(k)
    BY DEF ResultOnly, Wanted
  <1>6. NoneButSelected'
    BY <1>1, <1>3, <1>5 DEF NoneButSelected, ResultOnly
  <1> QED
    BY <1>4, <1>6 DEF OutList

\* The keys of a prefix one longer.
LEMMA KeysOfNext ==
  ASSUME IInv, phase = "emitting", next <= Len(order)
  PROVE  /\ next \in Nat /\ next \in DOMAIN order /\ order[next] \in DOMAIN tables
         /\ SubSeq(order, 1, next - 1) \in Seq(DOMAIN tables)
         /\ SubSeq(order, 1, next) = Append(SubSeq(order, 1, next - 1), order[next])
  <1>1. order \in Seq(DOMAIN tables) /\ next \in Nat /\ next \in DOMAIN order
    BY DEF IInv, TypeOK
  <1> QED
    BY <1>1, NextPrefix

LEMMA SkipStep ==
  ASSUME IInv, Skip PROVE IInv'
  <1> USE DEF IInv
  <1>1. /\ ResultOnly /\ phase' = phase /\ out' = out /\ next' = next + 1
        /\ next <= Len(order) /\ ~Wanted(order[next])
    BY DEF Skip, Emitting, ResultOnly
  <1>2. /\ next \in Nat /\ order[next] \in DOMAIN tables
        /\ SubSeq(order, 1, next - 1) \in Seq(DOMAIN tables)
        /\ SubSeq(order, 1, next) = Append(SubSeq(order, 1, next - 1), order[next])
    BY <1>1, KeysOfNext DEF ResultOnly
  <1>3. TypeOK'
    BY <1>1, <1>2 DEF ResultOnly, parsed, TypeOK
  <1>4. KeysSoFar'
    <2> DEFINE W == Asked
               before == SubSeq(order, 1, next - 1)
    <2>1. W' = W /\ order' = order /\ out' = out /\ next' - 1 = next
      BY <1>1, <1>2, AskedSettled DEF ResultOnly, parsed
    <2>2. order[next] \notin W
      BY <1>1 DEF Asked
    <2>3. Keep(SubSeq(order, 1, next), W) = Keep(before, W)
      <3> DEFINE k == order[next]
                 after == SubSeq(order, 1, next)
      <3>1. /\ after = Append(before, k) /\ before \in Seq(DOMAIN tables)
            /\ k \in DOMAIN tables /\ k \notin W
        BY <1>2, <2>2
      <3> HIDE DEF W, before, after, k
      <3>2. Keep(Append(before, k), W) = Keep(before, W)
        BY <3>1, KeepOfAppend
      <3> QED
        BY <3>1, <3>2 DEF after
    <2>4. Keep(KeysOf(out), W) = Keep(before, W)
      BY <1>1 DEF ResultInv, KeysSoFar, ResultOnly
    <2>5. KeysOf(out)' = KeysOf(out)
      BY <2>1 DEF KeysOf
    <2> HIDE DEF W, before
    <2>6. Keep(KeysOf(out)', W') = Keep(SubSeq(order', 1, next' - 1), W')
      BY <2>1, <2>3, <2>4, <2>5
    <2> QED
      BY <2>6 DEF KeysSoFar, W
  <1>5. AtTheEnd' /\ PanicExplained'
    BY <1>1 DEF ResultOnly, AtTheEnd, PanicExplained
  <1> QED
    BY <1>1, <1>3, <1>4, <1>5, SameOut, ResultOnlyKeeps DEF ResultInv, ResultOnly

LEMMA FinishStep ==
  ASSUME IInv, Finish PROVE IInv'
  <1> USE DEF IInv
  <1>1. /\ ResultOnly /\ phase' = "done" /\ out' = out /\ next' = next
        /\ next > Len(order)
    BY DEF Finish, ResultOnly
  <1>2. TypeOK'
    BY <1>1 DEF ResultOnly, parsed, TypeOK
  <1>3. AtTheEnd'
    <2>1. order' = order /\ next = Len(order) + 1
      BY <1>1 DEF TypeOK, ResultOnly, parsed
    <2> QED
      BY <1>1, <2>1 DEF AtTheEnd
  <1>4. KeysSoFar'
    <2> DEFINE W == Asked
    <2>1. W' = W /\ order' = order
      BY <1>1, AskedSettled DEF ResultOnly, parsed
    <2>2. Keep(KeysOf(out), W) = Keep(SubSeq(order, 1, next - 1), W)
      BY <1>1 DEF ResultInv, KeysSoFar, ResultOnly
    <2>3. KeysOf(out)' = KeysOf(out)
      BY <1>1 DEF KeysOf
    <2> HIDE DEF W
    <2>4. Keep(KeysOf(out)', W') = Keep(SubSeq(order', 1, next' - 1), W')
      BY <1>1, <2>1, <2>2, <2>3
    <2> QED
      BY <2>4 DEF KeysSoFar, W
  <1>5. PanicExplained'
    BY <1>1 DEF PanicExplained
  <1> QED
    BY <1>1, <1>2, <1>3, <1>4, <1>5, SameOut, ResultOnlyKeeps DEF ResultInv

\* An example is made of rows that are kept for the table: the first ones, unless
\* they are ordered.
LEMMA SamplesAreRows ==
  ASSUME IInv, options \in AllOptions, NEW k, NEW sample \in Samples(k)
  PROVE  LET all == At(rows, k, <<>>)
             size == SampleSize(k, all)
         IN  /\ size \in Nat
             /\ DOMAIN sample = 1 .. size
             /\ \A i \in 1 .. size :
                  \E j \in DOMAIN all : sample[i] = all[j] /\ (~options.ordered => j = i)
  <1> DEFINE all == At(rows, k, <<>>)
             size == SampleSize(k, all)
  <1>1. PICK T : all \in Seq(T)
    BY EmptySeq DEF At, IInv, ParsedInv, RowLists
  <1>2. Len(all) \in Nat /\ DOMAIN all = 1 .. Len(all)
    BY <1>1
  <1>3. options.sample \in Nat
    BY DEF AllOptions
  <1>4. size \in 0 .. Len(all)
    BY <1>2, <1>3 DEF SampleSize
  <1>5. \/ ~options.ordered /\ sample = SubSeq(all, 1, size)
        \/ options.ordered /\ \E p \in Injection(1 .. size, DOMAIN all) :
                                sample = [i \in 1 .. size |-> all[p[i]]]
    BY DEF Samples
  <1> HIDE DEF all, size
  <1>6. CASE ~options.ordered /\ sample = SubSeq(all, 1, size)
    <2>1. DOMAIN sample = 1 .. size /\ \A i \in 1 .. size : sample[i] = all[i]
      BY <1>1, <1>2, <1>4, <1>6
    <2> QED
      BY <1>2, <1>4, <2>1 DEF all, size
  <1>7. CASE options.ordered /\ \E p \in Injection(1 .. size, DOMAIN all) :
                                  sample = [i \in 1 .. size |-> all[p[i]]]
    <2>1. PICK p \in [1 .. size -> DOMAIN all] : sample = [i \in 1 .. size |-> all[p[i]]]
      BY <1>7 DEF Injection
    <2>2. DOMAIN sample = 1 .. size
          /\ \A i \in 1 .. size : p[i] \in DOMAIN all /\ sample[i] = all[p[i]]
      BY <2>1
    <2> QED
      BY <1>4, <1>7, <2>2 DEF all, size
  <1> QED
    BY <1>5, <1>6, <1>7

\* What apply() puts into the result for a table whose rows are as written.
LEMMA EmittedExampleFits ==
  ASSUME IInv, options \in AllOptions, NEW k \in DOMAIN tables,
         k \notin Unsure, NEW sample \in Samples(k),
         NEW x, x.key = k, x.example = Example(k, sample)
  PROVE  ExampleFits(x)
  <1> DEFINE all == At(rows, k, <<>>)
             size == SampleSize(k, all)
             columns == tables[k].columns
  <1> USE DEF IInv, ParsedInv
  <1>1. /\ size \in Nat
        /\ DOMAIN sample = 1 .. size
        /\ \A i \in 1 .. size :
             \E j \in DOMAIN all : sample[i] = all[j] /\ (~options.ordered => j = i)
    BY SamplesAreRows
  <1>2. /\ Len(all) = Len(owed[k])
        /\ \A i \in DOMAIN all : all[i] = CellsFor(columns, owed[k][i])
        /\ k \in DOMAIN owed
    <2>1. k \in DOMAIN owed
      BY DEF Unsure, Heard, DetailsKept
    <2> QED
      BY <2>1 DEF Unsure, Heard, RowsKept
  <1>3. DOMAIN all = DOMAIN owed[k]
    <2>1. PICK T : all \in Seq(T)
      BY EmptySeq DEF At, RowLists
    <2>2. owed[k] \in Seq(SUBSET Columns)
      BY <1>2 DEF OwedLists
    <2> QED
      BY <1>2, <2>1, <2>2
  <1>4. size = SampleSize(k, owed[k])
    BY <1>2 DEF SampleSize
  <1> HIDE DEF all, size
  <1>5. CASE Shown(k) = {}
    <2>1. x.example = <<>>
      BY <1>5 DEF Example
    <2> QED
      BY <1>5, <2>1, EmptyDomain DEF ExampleFits
  <1>6. CASE Shown(k) # {}
    <2> DEFINE e == x.example
    <2>1. e = [i \in 1 .. size |-> [j \in Shown(k) |-> sample[i][j]]]
      BY <1>1, <1>6 DEF Example
    <2>2. DOMAIN e = 1 .. size /\ e = [i \in 1 .. size |-> e[i]]
      BY <2>1
    <2>3. Len(e) = size
      <3> HIDE DEF e
      <3> QED
        BY <1>1, <2>2, FunctionIsList
    <2>4. ASSUME NEW i \in 1 .. size
          PROVE  \E m \in DOMAIN owed[k] :
                   e[i] = ShownFor(k, owed[k][m]) /\ (~options.ordered => m = i)
      <3>1. PICK m \in DOMAIN all : sample[i] = all[m] /\ (~options.ordered => m = i)
        BY <1>1
      <3>2. sample[i] = CellsFor(columns, owed[k][m])
        BY <1>2, <3>1
      <3>3. e[i] = ShownFor(k, owed[k][m])
        BY <2>1, <3>2 DEF ShownFor
      <3> QED
        BY <1>3, <3>1, <3>3
    <2>5. ASSUME NEW i \in DOMAIN e
          PROVE  IF options.ordered
                 THEN \E named \in Range(owed[k]) : e[i] = ShownFor(k, named)
                 ELSE e[i] = ShownFor(k, owed[k][i])
      BY <2>2, <2>4 DEF Range
    <2> QED
      BY <1>4, <1>6, <2>3, <2>5 DEF ExampleFits
  <1> QED
    BY <1>5, <1>6

LEMMA PanicStep ==
  ASSUME IInv, Panic PROVE IInv'
  <1> USE DEF IInv
  <1> DEFINE k == order[next]
  <1>1. /\ ResultOnly /\ phase' = "panicked" /\ out' = out /\ next' = next
        /\ next <= Len(order)
    BY DEF Panic, Emitting, ResultOnly
  <1>2. k \in DOMAIN tables
    BY <1>1, KeysOfNext DEF ResultOnly
  <1>3. TypeOK'
    BY <1>1 DEF ResultOnly, parsed, TypeOK
  <1>4. redefined # {}
    <2> SUFFICES ASSUME redefined = {} PROVE FALSE
      OBVIOUS
    <2>1. PICK sample \in Samples(k) :
            \E i \in DOMAIN sample : ~(Shown(k) \subseteq DOMAIN sample[i])
      BY DEF Panic
    <2> PICK i \in DOMAIN sample : ~(Shown(k) \subseteq DOMAIN sample[i])
      BY <2>1
    <2>2. options \in AllOptions
      BY <1>1, ConstantsOK DEF TypeOK, ResultOnly
    <2>3. \E j \in DOMAIN At(rows, k, <<>>) : sample[i] = At(rows, k, <<>>)[j]
      BY <2>2, SamplesAreRows
    <2>4. k \in DOMAIN rows /\ sample[i] \in Range(rows[k])
      BY <2>3, EmptyDomain DEF At, Range
    <2>5. DOMAIN sample[i] = DOMAIN tables[k].columns
      BY <2>4 DEF ParsedInv, RowsWide
    <2> QED
      BY <2>5 DEF Shown
  <1>5. KeysSoFar' /\ AtTheEnd' /\ PanicExplained'
    BY <1>1, <1>4 DEF KeysSoFar, AtTheEnd, PanicExplained, ResultOnly, history, said
  <1> QED
    BY <1>1, <1>3, <1>5, SameOut, ResultOnlyKeeps DEF ResultInv

\* The table joins the result under its own schema, which is there.
LEMMA EmitStep ==
  ASSUME IInv, Emit PROVE IInv'
  <1> USE DEF IInv
  <1> DEFINE k == order[next]
             W == Asked
             before == SubSeq(order, 1, next - 1)
             after == SubSeq(order, 1, next)
  <1>1. /\ ResultOnly /\ phase = "emitting" /\ phase' = phase /\ next' = next + 1
        /\ next <= Len(order) /\ Wanted(k)
    BY DEF Emit, Emitting, ResultOnly
  <1>2. /\ next \in Nat /\ next \in DOMAIN order /\ k \in DOMAIN tables
        /\ before \in Seq(DOMAIN tables) /\ after = Append(before, k)
    BY <1>1, KeysOfNext DEF ResultOnly
  <1>3. options \in AllOptions
    BY ConstantsOK, <1>1 DEF TypeOK, ResultOnly
  <1>4. PICK sample \in Samples(k) :
          out' = Append(out, [key |-> k, kind |-> tables[k].kind,
                              example |-> Example(k, sample)])
    <2>1. k[1] \in schemas
      BY <1>2 DEF TypeOK
    <2> QED
      BY <2>1 DEF Emit
  <1>5. PICK T : out \in Seq(T)
    BY DEF ResultInv, OutList
  <1> DEFINE e == [key |-> k, kind |-> tables[k].kind, example |-> Example(k, sample)]
             U == T \cup {e}
             Found == {out[i].key : i \in DOMAIN out} \cup DOMAIN tables
  <1>6. e.key = k /\ e.kind = tables[k].kind /\ e.example = Example(k, sample)
    OBVIOUS
  <1>7. k \notin Unsure => ExampleFits(e)
    <2> HIDE DEF e, k
    <2> QED
      BY <1>2, <1>3, <1>6, EmittedExampleFits
  <1>8. out' = Append(out, e)
    BY <1>4
  <1>9. k \in W \/ (tables[k].kind \in {"view", "partitioned"} /\ Wanted(k))
    BY <1>1, <1>2 DEF Asked
  <1> HIDE DEF k, e, W, before, after
  <1>10. out \in Seq(U) /\ e \in U
    BY <1>5, SeqMonotonic
  <1>11. out' \in Seq(U) /\ Range(out') = Range(out) \cup {e}
    BY <1>8, <1>10, AppendParts, RangeOfAppend
  <1>12. TypeOK'
    BY <1>1, <1>2 DEF ResultOnly, parsed, TypeOK
  <1>13. OutList'
    BY <1>11 DEF OutList
  <1>14. W' = W /\ order' = order /\ next' - 1 = next
    BY <1>1, <1>2, AskedSettled DEF ResultOnly, parsed, W
  <1>15. KeysSoFar'
    <2>1. KeysOf(out)' = Append(KeysOf(out), k)
      <3>1. [i \in DOMAIN out' |-> out'[i].key] = Append([i \in DOMAIN out |-> out[i].key], e.key)
        BY <1>8, <1>10, MapOfAppend
      <3> QED
        BY <1>6, <3>1 DEF KeysOf
    <2>2. KeysOf(out) \in Seq(Found) /\ k \in Found
      <3>1. DOMAIN out = 1 .. Len(out) /\ Len(out) \in Nat
        BY <1>5
      <3> QED
        BY <1>2, <3>1 DEF KeysOf
    <2>3. Keep(KeysOf(out), W) = Keep(before, W)
      BY <1>1 DEF ResultInv, KeysSoFar, W, before
    <2> HIDE DEF Found
    <2>4. /\ Keep(after, W) = IF k \in W THEN Append(Keep(before, W), k) ELSE Keep(before, W)
          /\ Keep(Append(KeysOf(out), k), W) =
               IF k \in W THEN Append(Keep(KeysOf(out), W), k) ELSE Keep(KeysOf(out), W)
      BY <1>2, <2>2, KeepOfAppend
    <2>5. Keep(KeysOf(out)', W') = Keep(SubSeq(order', 1, next' - 1), W')
      BY <1>14, <2>1, <2>3, <2>4 DEF after
    <2> QED
      BY <2>5 DEF KeysSoFar, W
  <1>16. NoneButSelected'
    <2>1. \A x : Wanted(x)' = Wanted(x)
      BY <1>1 DEF ResultOnly, Wanted
    <2>2. \A x \in Range(out') : x.key \in W \/ (x.kind \in {"view", "partitioned"} /\ Wanted(x.key))
      BY <1>1, <1>6, <1>9, <1>11 DEF ResultInv, NoneButSelected, W
    <2> QED
      BY <1>14, <2>1, <2>2 DEF NoneButSelected, W
  <1>17. ExamplesFit'
    <2>1. Unsure' = Unsure
      BY <1>1 DEF ResultOnly, history, said, Unsure
    <2>2. ASSUME NEW x \in Range(out'), x.key \notin Unsure
          PROVE  ExampleFits(x)'
      <3>1. ExampleFits(x)
        BY <1>6, <1>7, <1>11, <2>2 DEF ResultInv, ExamplesFit
      <3> QED
        BY <1>1, <3>1, ExampleFitsFixed
    <2> QED
      BY <2>1, <2>2 DEF ExamplesFit
  <1>18. AtTheEnd' /\ PanicExplained'
    BY <1>1 DEF AtTheEnd, PanicExplained, ResultOnly
  <1> QED
    BY <1>1, <1>12, <1>13, <1>15, <1>16, <1>17, <1>18, ResultOnlyKeeps DEF ResultInv

LEMMA Stutter == ASSUME IInv, UNCHANGED vars PROVE IInv'
  <1> USE DEF vars, parsed, history, said
  <1>1. TypeOK'
    BY DEF IInv, TypeOK
  <1>2. ParsedInv'
    BY DEF IInv, ParsedInv, Heard, Ordered, DetailsKept, RowLists, OwedLists, RowsWide,
           RowsKept
  <1>3. OutList' /\ NoResultYet' /\ AtTheEnd' /\ KeysSoFar' /\ NoneButSelected'
        /\ PanicExplained'
    BY DEF IInv, ResultInv, OutList, NoResultYet, AtTheEnd, KeysSoFar, KeysOf,
           NoneButSelected, Asked, Wanted, PanicExplained
  <1>4. ExamplesFit'
    <2>1. \A k : Shown(k)' = Shown(k)
      BY DEF Shown
    <2>2. \A k, all : SampleSize(k, all)' = SampleSize(k, all)
      BY DEF SampleSize
    <2>3. \A k, named : ShownFor(k, named)' = ShownFor(k, named)
      BY <2>1 DEF ShownFor
    <2>4. \A x : ExampleFits(x) => ExampleFits(x)'
      BY <2>1, <2>2, <2>3 DEF ExampleFits
    <2> QED
      BY <2>4 DEF IInv, ResultInv, ExamplesFit, Unsure
  <1> QED
    BY <1>1, <1>2, <1>3, <1>4 DEF IInv, ResultInv

LEMMA IInvNext == IInv /\ [Next]_vars => IInv'
  <1> SUFFICES ASSUME IInv, [Next]_vars PROVE IInv'
    OBVIOUS
  <1>1. CASE Failing
    <2>1. glued' \in BOOLEAN /\ schemas' = schemas /\ schemas \subseteq SchemaNames
      BY <1>1 DEF Failing, Malformed, AlterOtherwise, parsed, IInv, TypeOK
    <2> QED
      BY <1>1, <2>1, OtherStep
      DEF Failing, Malformed, AlterOtherwise, parsed, history
  <1>2. CASE Defining
    <2>1. ASSUME NEW q \in Qualifiers, NEW n \in TableNames,
                 NEW kind \in {"table", "partitioned"}, NEW cols \in ColumnLists,
                 CreateTable(q, n, kind, cols)
          PROVE  IInv'
      <3> DEFINE t == [kind |-> kind, columns |-> cols, attached |-> {}]
      <3>1. t \in TableType /\ t.attached = {}
        BY DEF TableType, TableKinds
      <3> QED
        BY <2>1, <3>1, DefineStep DEF CreateTable
    <2>2. ASSUME NEW q \in Qualifiers, NEW n \in TableNames, View(q, n)
          PROVE  IInv'
      <3> DEFINE t == [kind |-> "view", columns |-> <<>>, attached |-> {}]
      <3>1. t \in TableType /\ t.attached = {}
        BY DEF TableType, TableKinds
      <3> QED
        BY <2>2, <3>1, DefineStep DEF View
    <2> QED
      BY <1>2, <2>1, <2>2 DEF Defining
  <1>3. CASE Attaching
    <2>1. {"constraint", "index", "trigger", "comment"} \subseteq Attached \cup Columns
          /\ Columns \subseteq Attached \cup Columns
      BY DEF Attached
    <2> QED
      BY <1>3, <2>1, AttachStep
      DEF Attaching, AlterAdd, Index, Trigger, CommentOnTable, CommentOnColumn
  <1>4. CASE AddingRows
    BY <1>4, InsertStep, CopyStep, OverlookRowStep DEF AddingRows, CopyUnended
  <1>5. CASE Overlooking
    BY <1>5, OverlookDefinitionStep, OverlookDetailStep, OverlookRowStep DEF Overlooking
  <1>6. ASSUME NEW q \in Qualifiers, AddObject(q)
        PROVE  IInv'
    <2>1. Space(q) \in SchemaNames
      BY ConstantsOK DEF Space, Qualifiers
    <2>2. glued' \in BOOLEAN /\ schemas \subseteq schemas' /\ schemas' \subseteq SchemaNames
          /\ phase' = "parsing" /\ Reading
      BY <1>6, <2>1 DEF AddObject, Statement, Reading, IInv, TypeOK
    <2> QED
      BY <1>6, <2>2, OtherStep DEF AddObject
  <1>7. CASE Ignore \/ \E s \in SchemaNames : SetPath(s)
    <2>1. glued' \in BOOLEAN /\ schemas' = schemas /\ schemas \subseteq SchemaNames
          /\ phase' = "parsing" /\ Reading
      BY <1>7 DEF Ignore, SetPath, Reading, parsed, IInv, TypeOK
    <2> QED
      BY <1>7, <2>1, OtherStep DEF Ignore, SetPath, parsed, history
  <1>8. CASE UNCHANGED vars \/ Terminated
    BY <1>8, Stutter DEF Terminated
  <1> QED
    BY <1>1, <1>2, <1>3, <1>4, <1>5, <1>6, <1>7, <1>8, EndOfInputStep, StopStep,
       SkipStep, EmitStep, PanicStep, FinishStep DEF Next

-----------------------------------------------------------------------------
(* The theorems. *)

\* The inductive invariant holds at every state of the parser (dump_parser.go).
THEOREM Invariant == SafeSpec => []IInv
  BY IInvInit, IInvNext, PTL DEF SafeSpec

\* The parser's state keeps its types: every key of the order has a table, and the
\* table its schema; rows only for tables that are known (dump_parser.go:30-60).
THEOREM TypeCorrect == SafeSpec => []TypeOK
  BY Invariant, PTL DEF IInv

\* A table of which every statement was understood is known and holds what the dump
\* attached to it since its last definition; another lacks what was not understood,
\* and holds nothing else, until a definition is (dump_parser.go:140-301, 450-500).
THEOREM DetailsAlwaysKept == SafeSpec => []DetailsKept
  BY Invariant, PTL DEF IInv, ParsedInv

\* The rows of a table are rows the dump wrote for it, each value under its own
\* column, and all of them in their order when none was overlooked, however long the
\* dump and whatever the column lists (dump_parser.go:279-347).
THEOREM RowsAlwaysKept == SafeSpec => []RowsKept
  BY Invariant, PTL DEF IInv, ParsedInv

\* The result is what was asked for, in the order of the dump, and views and
\* partitioned tables that were not, with the examples that were asked for; it panics
\* for no other reason than a table defined again under its rows
\* (dump_parser.go:348-407).
THEOREM ResultAsAsked == SafeSpec => []ResultIsTheDump
  <1>1. ASSUME IInv, phase = "done" PROVE Asked \subseteq Range(KeysOf(out))
    <2> USE DEF IInv
    <2> DEFINE keys == KeysOf(out)
               Found == {out[i].key : i \in DOMAIN out}
               W == Asked
    <2>1. order \in Seq(DOMAIN tables) /\ SubSeq(order, 1, next - 1) = order
      <3>1. order \in Seq(DOMAIN tables) /\ next - 1 = Len(order)
        BY <1>1 DEF TypeOK, ResultInv, AtTheEnd
      <3> QED
        BY <3>1
    <2>2. keys \in Seq(Found)
      <3>1. DOMAIN out = 1 .. Len(out) /\ Len(out) \in Nat
        BY <1>1 DEF ResultInv, OutList
      <3> QED
        BY <3>1 DEF KeysOf
    <2>3. Keep(keys, W) = Keep(order, W)
      BY <1>1, <2>1 DEF ResultInv, KeysSoFar
    <2>4. W \subseteq Range(order)
      BY <1>1 DEF ParsedInv, Ordered, Asked
    <2> HIDE DEF keys, Found, W
    <2>5. Range(keys) \cap W = Range(order) \cap W
      BY <2>1, <2>2, <2>3, KeepRange
    <2>6. W \subseteq Range(keys)
      BY <2>4, <2>5
    <2> QED
      BY <2>6 DEF W, keys
  <1>2. IInv => ResultIsTheDump
    <2> SUFFICES ASSUME IInv PROVE ResultIsTheDump
      OBVIOUS
    <2>1. ASSUME NEW x \in Range(out), x.key \notin missed \cup strayed \cup redefined \cup foreign
          PROVE  ExampleFits(x)
      BY <2>1 DEF IInv, ResultInv, ExamplesFit, Unsure
    <2>2. /\ phase \in {"emitting", "done"} =>
               /\ Keep(KeysOf(out), Asked) = Keep(SubSeq(order, 1, next - 1), Asked)
               /\ \A x \in Range(out) :
                    x.key \in Asked \/ (x.kind \in {"view", "partitioned"} /\ Wanted(x.key))
          /\ phase = "panicked" => redefined # {}
      BY DEF IInv, ResultInv, KeysSoFar, NoneButSelected, PanicExplained
    <2> QED
      BY <1>1, <2>1, <2>2 DEF ResultIsTheDump, ExampleFits, ShownFor
  <1> QED
    BY <1>2, Invariant, PTL

-----------------------------------------------------------------------------
(***************************************************************************)
(* The scanners.                                                           *)
(*                                                                         *)
(* First the recursion of a scan, and where it may be in any text (Placed, *)
(* Whole): nothing is lost.  Then what a scanner does over a construct     *)
(* that it follows (Goes, Takes), so that what is before it does not       *)
(* matter (Settled); what it has cut after it (Cutting, Rows, Wrapped,     *)
(* Script, for one kind of scanner each); and at last the author's actions *)
(* one by one.                                                             *)
(***************************************************************************)

-----------------------------------------------------------------------------
(* The recursions. *)

\* One step of the recursion of Scans.
Scanned(scanner, t, f, i) ==
  IF i = 0 THEN Start
  ELSE IF i < f[i - 1].next THEN f[i - 1] ELSE Step(scanner, t, f[i - 1], i)

\* The recursion has a solution, so that the definition means what it says.
LEMMA ScansDef ==
  ASSUME NEW scanner, NEW t, Len(t) \in Nat
  PROVE  LET f == Scans(scanner, t)
         IN  f = [i \in 0 .. Len(t) |-> Scanned(scanner, t, f, i)]
  <1> DEFINE Solution(m, f) == f = [i \in 0 .. m |-> Scanned(scanner, t, f, i)]
             Solvable == {m \in Nat : \E f : Solution(m, f)}
  <1>1. 0 \in Solvable
    <2> DEFINE f == [i \in 0 .. 0 |-> Start]
    <2>1. Solution(0, f)
      BY DEF Scanned
    <2> QED
      BY <2>1
  <1>2. ASSUME NEW m \in Nat, m \in Solvable
        PROVE  m + 1 \in Solvable
    <2>1. PICK f : Solution(m, f)
      BY <1>2
    <2> DEFINE g == [i \in 0 .. m + 1 |-> IF i = m + 1 THEN Scanned(scanner, t, f, i) ELSE f[i]]
    <2>2. \A i \in 0 .. m : g[i] = f[i] /\ f[i] = Scanned(scanner, t, f, i)
      BY <2>1
    <2>3. \A i \in 0 .. m + 1 : Scanned(scanner, t, g, i) = Scanned(scanner, t, f, i)
      BY <2>2 DEF Scanned
    <2>4. Solution(m + 1, g)
      BY <2>2, <2>3
    <2> HIDE DEF g
    <2> QED
      BY <2>4
  <1>3. Len(t) \in Solvable
    <2> HIDE DEF Solvable
    <2> QED
      BY <1>1, <1>2, InductionOnSet
  <1> QED
    BY <1>3 DEF Scans, Scanned

\* What it says.
LEMMA ScansParts ==
  ASSUME NEW scanner, NEW T, NEW t \in Seq(T)
  PROVE  /\ Scans(scanner, t)[0] = Start
         /\ \A i \in 1 .. Len(t) :
              Scans(scanner, t)[i] = IF i < Scans(scanner, t)[i - 1].next THEN Scans(scanner, t)[i - 1]
                                     ELSE Step(scanner, t, Scans(scanner, t)[i - 1], i)
  <1> DEFINE f == Scans(scanner, t)
  <1>1. Len(t) \in Nat
    OBVIOUS
  <1>2. f = [i \in 0 .. Len(t) |-> Scanned(scanner, t, f, i)]
    BY <1>1, ScansDef
  <1> HIDE DEF f
  <1>3. f[0] = Scanned(scanner, t, f, 0) /\ \A i \in 1 .. Len(t) : f[i] = Scanned(scanner, t, f, i)
    BY <1>1, <1>2
  <1>4. f[0] = Start
    BY <1>3 DEF Scanned
  <1>5. \A i \in 1 .. Len(t) : f[i] = IF i < f[i - 1].next THEN f[i - 1] ELSE Step(scanner, t, f[i - 1], i)
    BY <1>3 DEF Scanned
  <1> QED
    BY <1>4, <1>5 DEF f

\* One step of the recursion of Delimited.
Delimiting(t, f, i) ==
  IF i = 0 THEN [left |-> FALSE, set |-> FALSE, out |-> <<>>] ELSE DelimiterStep(t, f[i - 1], i)

\* This recursion has a solution, too.
LEMMA DelimitedDef ==
  ASSUME NEW t, Len(t) \in Nat
  PROVE  LET f == Delimited(t)
         IN  f = [i \in 0 .. Len(t) |-> Delimiting(t, f, i)]
  <1> DEFINE Solution(m, f) == f = [i \in 0 .. m |-> Delimiting(t, f, i)]
             Solvable == {m \in Nat : \E f : Solution(m, f)}
  <1>1. 0 \in Solvable
    <2> DEFINE f == [i \in 0 .. 0 |-> [left |-> FALSE, set |-> FALSE, out |-> <<>>]]
    <2>1. Solution(0, f)
      BY DEF Delimiting
    <2> QED
      BY <2>1
  <1>2. ASSUME NEW m \in Nat, m \in Solvable
        PROVE  m + 1 \in Solvable
    <2>1. PICK f : Solution(m, f)
      BY <1>2
    <2> DEFINE g == [i \in 0 .. m + 1 |-> IF i = m + 1 THEN Delimiting(t, f, i) ELSE f[i]]
    <2>2. \A i \in 0 .. m : g[i] = f[i] /\ f[i] = Delimiting(t, f, i)
      BY <2>1
    <2>3. \A i \in 0 .. m + 1 : Delimiting(t, g, i) = Delimiting(t, f, i)
      BY <2>2 DEF Delimiting
    <2>4. Solution(m + 1, g)
      BY <2>2, <2>3
    <2> HIDE DEF g
    <2> QED
      BY <2>4
  <1>3. Len(t) \in Solvable
    <2> HIDE DEF Solvable
    <2> QED
      BY <1>1, <1>2, InductionOnSet
  <1> QED
    BY <1>3 DEF Delimited, Delimiting

\* What it says.
LEMMA DelimitedParts ==
  ASSUME NEW T, NEW t \in Seq(T)
  PROVE  /\ Delimited(t)[0] = [left |-> FALSE, set |-> FALSE, out |-> <<>>]
         /\ \A i \in 1 .. Len(t) : Delimited(t)[i] = DelimiterStep(t, Delimited(t)[i - 1], i)
  <1> DEFINE f == Delimited(t)
  <1>1. Len(t) \in Nat
    OBVIOUS
  <1>2. f = [i \in 0 .. Len(t) |-> Delimiting(t, f, i)]
    BY <1>1, DelimitedDef
  <1> HIDE DEF f
  <1>3. f[0] = Delimiting(t, f, 0) /\ \A i \in 1 .. Len(t) : f[i] = Delimiting(t, f, i)
    BY <1>1, <1>2
  <1>4. f[0] = [left |-> FALSE, set |-> FALSE, out |-> <<>>]
    BY <1>3 DEF Delimiting
  <1>5. \A i \in 1 .. Len(t) : f[i] = DelimiterStep(t, f[i - 1], i)
    BY <1>3 DEF Delimiting
  <1> QED
    BY <1>4, <1>5 DEF f

-----------------------------------------------------------------------------
(* Where a scanner can be. *)

Places0(t, T) ==
  [next : 1 .. Len(t) + 1, start : 1 .. Len(t) + 1, quote : T \cup {"none"}, dollar : Seq(T),
   depth : Int, out : Seq(Seq(T))]

\* After n symbols the open piece has begun.
Placed(t, T, s, n) ==
  /\ s \in Places0(t, T)
  /\ s.start <= n + 1 \/ s.start <= s.next

\* The separators that a scanner leaves out.
SeparatorOf(scanner) == IF scanner[2] = "script" THEN "semi" ELSE "comma"

\* A step that cuts off a piece, and leaves out nothing but a separator.
Cuts(scanner, t, s, u) ==
  \/ u.out = s.out /\ u.start = s.start
  \/ \E e \in s.start - 1 .. Len(t) :
       /\ u.out = Append(s.out, SubSeq(t, s.start, e))
       /\ \/ u.start = e + 1
          \/ e < Len(t) /\ t[e + 1] = SeparatorOf(scanner) /\ u.start = e + 2

\* A step that leaves what was cut and where the open piece began.
LEMMA NoCut ==
  ASSUME NEW T, NEW t \in Seq(T), NEW i \in 1 .. Len(t), NEW s, Placed(t, T, s, i - 1),
         NEW u \in Places0(t, T), u.out = s.out, u.start = s.start, s.next <= u.next \/ s.next <= i,
         NEW scanner
  PROVE  Placed(t, T, u, i) /\ Cuts(scanner, t, s, u)
  <1>1. Len(t) \in Nat /\ s \in Places0(t, T) /\ (s.start <= i \/ s.start <= s.next)
    BY DEF Placed
  <1>2. s.start \in Int /\ s.next \in Int /\ u.next \in Int
    BY <1>1 DEF Places0
  <1>3. u.start <= i + 1 \/ u.start <= u.next
    BY <1>1, <1>2
  <1>4. Placed(t, T, u, i)
    BY <1>3 DEF Placed
  <1>5. Cuts(scanner, t, s, u)
    BY Zenon DEF Cuts
  <1> QED
    BY <1>4, <1>5

\* The steps that leave it.
LEMMA Kept ==
  ASSUME NEW T, NEW t \in Seq(T), NEW i \in 1 .. Len(t), NEW s, Placed(t, T, s, i - 1), s.next <= i,
         NEW u, u = s, NEW scanner
  PROVE  Placed(t, T, u, i) /\ Cuts(scanner, t, s, u)
  <1>1. Len(t) \in Nat /\ s \in Places0(t, T) /\ i + 1 \in 1 .. Len(t) + 1
    BY DEF Placed
  <1>2. u \in Places0(t, T) /\ u.out = s.out /\ u.start = s.start
    BY <1>1 DEF Places0
  <1> QED
    BY <1>1, <1>2, NoCut

LEMMA KeptNext ==
  ASSUME NEW T, NEW t \in Seq(T), NEW i \in 1 .. Len(t), NEW s, Placed(t, T, s, i - 1), s.next <= i,
         NEW x \in i + 1 .. Len(t) + 1, NEW u, u = [s EXCEPT !.next = x], NEW scanner
  PROVE  Placed(t, T, u, i) /\ Cuts(scanner, t, s, u)
  <1>1. Len(t) \in Nat /\ s \in Places0(t, T) /\ i + 1 \in 1 .. Len(t) + 1
    BY DEF Placed
  <1>3. x \in 1 .. Len(t) + 1 /\ s.next <= x
    BY <1>1 DEF Places0
  <1>2. u \in Places0(t, T) /\ u.out = s.out /\ u.start = s.start
    BY <1>1, <1>3 DEF Places0
  <1> QED
    BY <1>1, <1>2, NoCut

LEMMA KeptDollar ==
  ASSUME NEW T, NEW t \in Seq(T), NEW i \in 1 .. Len(t), NEW s, Placed(t, T, s, i - 1), s.next <= i,
         NEW x \in i + 1 .. Len(t) + 1, NEW g \in Seq(T), NEW u, u = [s EXCEPT !.next = x, !.dollar = g], NEW scanner
  PROVE  Placed(t, T, u, i) /\ Cuts(scanner, t, s, u)
  <1>1. Len(t) \in Nat /\ s \in Places0(t, T) /\ i + 1 \in 1 .. Len(t) + 1
    BY DEF Placed
  <1>3. x \in 1 .. Len(t) + 1 /\ s.next <= x
    BY <1>1 DEF Places0
  <1>2. u \in Places0(t, T) /\ u.out = s.out /\ u.start = s.start
    BY <1>1, <1>3 DEF Places0
  <1> QED
    BY <1>1, <1>2, NoCut

LEMMA KeptQuote ==
  ASSUME NEW T, NEW t \in Seq(T), NEW i \in 1 .. Len(t), NEW s, Placed(t, T, s, i - 1), s.next <= i,
         NEW q \in T \cup {"none"}, NEW u, u = [s EXCEPT !.quote = q], NEW scanner
  PROVE  Placed(t, T, u, i) /\ Cuts(scanner, t, s, u)
  <1>1. Len(t) \in Nat /\ s \in Places0(t, T) /\ i + 1 \in 1 .. Len(t) + 1
    BY DEF Placed
  <1>2. u \in Places0(t, T) /\ u.out = s.out /\ u.start = s.start
    BY <1>1 DEF Places0
  <1> QED
    BY <1>1, <1>2, NoCut

LEMMA KeptDepth ==
  ASSUME NEW T, NEW t \in Seq(T), NEW i \in 1 .. Len(t), NEW s, Placed(t, T, s, i - 1), s.next <= i,
         NEW d \in Int, NEW u, u = [s EXCEPT !.depth = d], NEW scanner
  PROVE  Placed(t, T, u, i) /\ Cuts(scanner, t, s, u)
  <1>1. Len(t) \in Nat /\ s \in Places0(t, T) /\ i + 1 \in 1 .. Len(t) + 1
    BY DEF Placed
  <1>2. u \in Places0(t, T) /\ u.out = s.out /\ u.start = s.start
    BY <1>1 DEF Places0
  <1> QED
    BY <1>1, <1>2, NoCut

LEMMA InQuotePlaced ==
  ASSUME NEW T, NEW t \in Seq(T), NEW i \in 1 .. Len(t), NEW s, Placed(t, T, s, i - 1), s.next <= i,
         NEW scanner
  PROVE  Placed(t, T, InQuote(t, s, i), i) /\ Cuts(scanner, t, s, InQuote(t, s, i))
  <1> SUFFICES ASSUME NEW u, u = InQuote(t, s, i)
               PROVE  Placed(t, T, u, i) /\ Cuts(scanner, t, s, u)
    OBVIOUS
  <1>1. \/ u = s
        \/ i < Len(t) /\ u = [s EXCEPT !.next = i + 2]
        \/ u = [s EXCEPT !.quote = "none"]
    BY Zenon DEF InQuote
  <1>2. CASE u = s
    BY <1>2, Kept
  <1>3. CASE i < Len(t) /\ u = [s EXCEPT !.next = i + 2]
    <2>1. i + 2 \in i + 1 .. Len(t) + 1
      BY <1>3
    <2> QED
      BY <1>3, <2>1, KeptNext
  <1>4. CASE u = [s EXCEPT !.quote = "none"]
    <2>1. "none" \in T \cup {"none"}
      OBVIOUS
    <2> QED
      BY <1>4, <2>1, KeptQuote
  <1> QED
    BY <1>1, <1>2, <1>3, <1>4

\* A piece of a text.
LEMMA Piece ==
  ASSUME NEW T, NEW t \in Seq(T), NEW i \in 1 .. Len(t) + 1, NEW e \in 0 .. Len(t)
  PROVE  SubSeq(t, i, e) \in Seq(T) /\ Len(SubSeq(t, i, e)) = IF i <= e THEN e - i + 1 ELSE 0
  <1>1. \A j \in i .. e : t[j] \in T
    OBVIOUS
  <1>2. i \in Int /\ e \in Int
    OBVIOUS
  <1> QED
    BY <1>1, <1>2, SubSeqProperties

LEMMA CutPlaced ==
  ASSUME NEW T, NEW t \in Seq(T), NEW i \in 1 .. Len(t), NEW s, Placed(t, T, s, i - 1),
         s.next <= i, NEW scanner, t[i] = SeparatorOf(scanner)
  PROVE  Placed(t, T, Cut(t, s, i), i) /\ Cuts(scanner, t, s, Cut(t, s, i))
  <1> DEFINE p == SubSeq(t, s.start, i - 1)
             u == Cut(t, s, i)
  <1>1. Len(t) \in Nat /\ s \in Places0(t, T) /\ s.start <= i
    BY DEF Placed, Places0
  <1>2. s.start \in 1 .. Len(t) + 1 /\ s.out \in Seq(Seq(T)) /\ i - 1 \in 0 .. Len(t)
    BY <1>1 DEF Places0
  <1>3. p \in Seq(T)
    BY <1>2, Piece
  <1>4. u = [s EXCEPT !.out = Append(s.out, p), !.start = i + 1]
    BY DEF Cut
  <1> HIDE DEF p
  <1>5. Append(s.out, p) \in Seq(Seq(T))
    BY <1>2, <1>3
  <1>6. i + 1 \in 1 .. Len(t) + 1
    BY <1>1
  <1>7. /\ u \in Places0(t, T) /\ u.start = i + 1 /\ u.out = Append(s.out, p)
    BY <1>1, <1>4, <1>5, <1>6 DEF Places0
  <1>8. Cuts(scanner, t, s, u)
    <2>1. i - 1 \in s.start - 1 .. Len(t) /\ i - 1 < Len(t) /\ t[(i - 1) + 1] = SeparatorOf(scanner)
          /\ u.start = (i - 1) + 2
      BY <1>1, <1>2, <1>7
    <2> HIDE DEF u
    <2> QED
      BY <1>7, <2>1 DEF Cuts, p
  <1> QED
    BY <1>1, <1>7, <1>8 DEF Placed

LEMMA ListStepPlaced ==
  ASSUME NEW T, NEW t \in Seq(T), NEW i \in 1 .. Len(t), NEW s, Placed(t, T, s, i - 1), s.next <= i,
         NEW scanner, scanner[2] # "script", NEW family
  PROVE  Placed(t, T, ListStep(family, t, s, i), i) /\ Cuts(scanner, t, s, ListStep(family, t, s, i))
  <1> SUFFICES ASSUME NEW u, u = ListStep(family, t, s, i)
               PROVE  Placed(t, T, u, i) /\ Cuts(scanner, t, s, u)
    OBVIOUS
  <1>2. \/ u = InQuote(t, s, i)
        \/ u = [s EXCEPT !.quote = t[i]]
        \/ u = [s EXCEPT !.depth = s.depth + 1]
        \/ u = [s EXCEPT !.depth = s.depth - 1]
        \/ t[i] = "comma" /\ u = Cut(t, s, i)
        \/ u = s
    BY Zenon DEF ListStep
  <1>3. CASE u = InQuote(t, s, i)
    BY <1>3, InQuotePlaced
  <1>4. CASE u = [s EXCEPT !.quote = t[i]]
    <2>1. t[i] \in T \cup {"none"}
      OBVIOUS
    <2> QED
      BY <1>4, <2>1, KeptQuote
  <1>5. CASE u = [s EXCEPT !.depth = s.depth + 1]
    <2>1. s.depth + 1 \in Int
      BY DEF Placed, Places0
    <2> QED
      BY <1>5, <2>1, KeptDepth
  <1>6. CASE u = [s EXCEPT !.depth = s.depth - 1]
    <2>1. s.depth - 1 \in Int
      BY DEF Placed, Places0
    <2> QED
      BY <1>6, <2>1, KeptDepth
  <1>7. CASE t[i] = "comma" /\ u = Cut(t, s, i)
    <2>1. t[i] = SeparatorOf(scanner)
      BY <1>7 DEF SeparatorOf
    <2> QED
      BY <1>7, <2>1, CutPlaced
  <1>8. CASE u = s
    BY <1>8, Kept
  <1> QED
    BY <1>2, <1>3, <1>4, <1>5, <1>6, <1>7, <1>8

LEMMA StatementStepPlaced ==
  ASSUME NEW T, NEW t \in Seq(T), NEW i \in 1 .. Len(t), NEW s, Placed(t, T, s, i - 1), s.next <= i,
         NEW scanner, scanner[2] = "script"
  PROVE  Placed(t, T, StatementStep(t, s, i), i) /\ Cuts(scanner, t, s, StatementStep(t, s, i))
  <1> SUFFICES ASSUME NEW u, u = StatementStep(t, s, i)
               PROVE  Placed(t, T, u, i) /\ Cuts(scanner, t, s, u)
    OBVIOUS
  <1>2. \/ u = InQuote(t, s, i)
        \/ u = [s EXCEPT !.quote = t[i]]
        \/ t[i] = "semi" /\ u = Cut(t, s, i)
        \/ u = s
    BY Zenon DEF StatementStep
  <1>3. CASE u = InQuote(t, s, i)
    BY <1>3, InQuotePlaced
  <1>4. CASE u = [s EXCEPT !.quote = t[i]]
    <2>1. t[i] \in T \cup {"none"}
      OBVIOUS
    <2> QED
      BY <1>4, <2>1, KeptQuote
  <1>5. CASE t[i] = "semi" /\ u = Cut(t, s, i)
    <2>1. t[i] = SeparatorOf(scanner)
      BY <1>5 DEF SeparatorOf
    <2> QED
      BY <1>5, <2>1, CutPlaced
  <1>6. CASE u = s
    BY <1>6, Kept
  <1> QED
    BY <1>2, <1>3, <1>4, <1>5, <1>6

\* The first of a set of numbers.
LEMMA Least ==
  ASSUME NEW S \in SUBSET Nat, S # {}
  PROVE  \E j \in S : \A k \in S : j <= k
  <1>1. PICK least \in S : \A n \in S : ~(<<n, least>> \in Below)
    <2>1. IsWellFoundedOn(Below, S)
      BY BelowWellFounded, IsWellFoundedOnSubset
    <2> QED
      BY <2>1, WFMin
  <1>2. ASSUME NEW k \in S PROVE least <= k
    <2>1. least \in Nat /\ k \in Nat
      OBVIOUS
    <2>2. ~(k < least)
      BY <1>1, <2>1 DEF Below
    <2> QED
      BY <2>1, <2>2
  <1> QED
    BY <1>2

\* Where the data of a COPY ends.
LEMMA MarkersPlaced ==
  ASSUME NEW T, NEW t \in Seq(T), NEW i \in 1 .. Len(t), Markers(t, i) # {}
  PROVE  LET M == Markers(t, i)
             j == CHOOSE j \in M : \A k \in M : j <= k
         IN  /\ j \in M /\ j \in i + 1 .. Len(t) /\ j + 2 <= Len(t) /\ HasAt(t, j, Marker)
             /\ \A k \in M : j <= k
  <1> DEFINE M == Markers(t, i)
             j == CHOOSE j \in M : \A k \in M : j <= k
  <1>1. Len(Marker) = 3 /\ Len(t) \in Nat
    BY DEF Marker
  <1>2. \A k \in M : k \in i + 1 .. Len(t) /\ k + 2 <= Len(t) /\ HasAt(t, k, Marker)
    BY <1>1 DEF Markers, HasAt
  <1>3. M \in SUBSET Nat
    BY <1>1, <1>2
  <1>4. \E k \in M : \A l \in M : k <= l
    BY <1>3, Least
  <1>5. j \in M /\ \A k \in M : j <= k
    BY <1>4
  <1> HIDE DEF j, M
  <1>6. j \in i + 1 .. Len(t) /\ j + 2 <= Len(t) /\ HasAt(t, j, Marker)
    BY <1>2, <1>5
  <1> QED
    BY <1>5, <1>6 DEF j, M

LEMMA TerminatePlaced ==
  ASSUME NEW T, NEW t \in Seq(T), NEW i \in 1 .. Len(t), NEW s, Placed(t, T, s, i - 1), s.next <= i,
         NEW scanner, t[i] = SeparatorOf(scanner)
  PROVE  Placed(t, T, Terminate(t, s, i), i) /\ Cuts(scanner, t, s, Terminate(t, s, i))
  <1> DEFINE M == Markers(t, i)
             e == 1 + CHOOSE j \in M : \A k \in M : j <= k
             p == SubSeq(t, s.start, e)
  <1> SUFFICES ASSUME NEW u, u = Terminate(t, s, i)
               PROVE  Placed(t, T, u, i) /\ Cuts(scanner, t, s, u)
    OBVIOUS
  <1>a. Len(t) \in Nat /\ s \in Places0(t, T) /\ s.start <= i
    BY DEF Placed, Places0
  <1>1. s.start \in 1 .. Len(t) + 1 /\ s.out \in Seq(Seq(T)) /\ s.start <= i /\ Len(t) \in Nat
    BY <1>a DEF Places0
  <1>2. \/ u = Cut(t, s, i)
        \/ M # {} /\ u = [s EXCEPT !.out = Append(s.out, p), !.start = e + 1, !.next = e + 1]
    BY Zenon DEF Terminate
  <1>3. CASE u = Cut(t, s, i)
    BY <1>3, CutPlaced
  <1>4. CASE M # {} /\ u = [s EXCEPT !.out = Append(s.out, p), !.start = e + 1, !.next = e + 1]
    <2>1. e \in i .. Len(t) /\ e + 1 \in 1 .. Len(t) + 1
      <3> DEFINE j == CHOOSE j \in M : \A k \in M : j <= k
      <3>1. j \in i + 1 .. Len(t) /\ j + 2 <= Len(t)
        BY <1>4, MarkersPlaced
      <3> HIDE DEF j
      <3>2. 1 + j \in i .. Len(t) /\ (1 + j) + 1 \in 1 .. Len(t) + 1
        BY <1>1, <3>1
      <3> QED
        BY <3>2 DEF j
    <2> HIDE DEF M, e
    <2>2. p \in Seq(T)
      BY <1>1, <2>1, Piece
    <2> HIDE DEF p
    <2>3. Append(s.out, p) \in Seq(Seq(T))
      BY <1>1, <2>2
    <2>4. u \in Places0(t, T) /\ u.start = e + 1 /\ u.next = e + 1 /\ u.out = Append(s.out, p)
      <3> DEFINE o == Append(s.out, p)
      <3>1. o \in Seq(Seq(T)) /\ u = [s EXCEPT !.out = o, !.start = e + 1, !.next = e + 1]
        BY <1>4, <2>3
      <3> HIDE DEF o
      <3>2. u \in Places0(t, T) /\ u.start = e + 1 /\ u.next = e + 1 /\ u.out = o
        BY <1>a, <2>1, <3>1 DEF Places0
      <3> QED
        BY <3>2 DEF o
    <2>5. e \in s.start - 1 .. Len(t)
      BY <1>1, <2>1
    <2>6. Cuts(scanner, t, s, u)
      BY <2>4, <2>5, Zenon DEF Cuts, p
    <2>7. Placed(t, T, u, i)
      BY <1>1, <2>1, <2>4 DEF Placed
    <2> QED
      BY <2>6, <2>7
  <1> QED
    BY <1>2, <1>3, <1>4

\* A dollar tag.
LEMMA TagPlaced ==
  ASSUME NEW T, NEW t \in Seq(T), NEW i \in 1 .. Len(t), TagAt(t, i) # <<>>
  PROVE  TagAt(t, i) \in Seq(T) /\ i + Len(TagAt(t, i)) \in i + 1 .. Len(t) + 1
  <1> DEFINE ends == {j \in i + 1 .. Len(t) : t[j] = "$" /\ \A k \in i + 1 .. j - 1 : t[k] = "w"}
             j == CHOOSE j \in ends : TRUE
  <1>1. ends # {} /\ TagAt(t, i) = SubSeq(t, i, j)
    BY Zenon DEF TagAt
  <1>2. j \in ends
    BY <1>1
  <1>3. j \in i + 1 .. Len(t) /\ Len(t) \in Nat
    BY <1>2
  <1> HIDE DEF ends, j
  <1>4. i \in 1 .. Len(t) + 1 /\ j \in 0 .. Len(t) /\ i <= j
    BY <1>3
  <1>5. SubSeq(t, i, j) \in Seq(T) /\ Len(SubSeq(t, i, j)) = j - i + 1
    BY <1>4, Piece
  <1>6. i + (j - i + 1) \in i + 1 .. Len(t) + 1
    BY <1>3
  <1> QED
    BY <1>1, <1>5, <1>6

LEMMA DumpStepPlaced ==
  ASSUME NEW T, NEW t \in Seq(T), NEW i \in 1 .. Len(t), NEW s, Placed(t, T, s, i - 1), s.next <= i,
         NEW scanner, scanner[2] = "script"
  PROVE  Placed(t, T, DumpStep(t, s, i), i) /\ Cuts(scanner, t, s, DumpStep(t, s, i))
  <1> SUFFICES ASSUME NEW u, u = DumpStep(t, s, i)
               PROVE  Placed(t, T, u, i) /\ Cuts(scanner, t, s, u)
    OBVIOUS
  <1>2. \/ /\ s.dollar # <<>> /\ HasAt(t, i, s.dollar)
           /\ u = [s EXCEPT !.next = i + Len(s.dollar), !.dollar = <<>>]
        \/ u = InQuote(t, s, i)
        \/ u = [s EXCEPT !.quote = t[i]]
        \/ TagAt(t, i) # <<>> /\ u = [s EXCEPT !.next = i + Len(TagAt(t, i)), !.dollar = TagAt(t, i)]
        \/ t[i] = "semi" /\ u = Terminate(t, s, i)
        \/ u = s
    BY Zenon DEF DumpStep
  <1>3. CASE /\ s.dollar # <<>> /\ HasAt(t, i, s.dollar)
             /\ u = [s EXCEPT !.next = i + Len(s.dollar), !.dollar = <<>>]
    <2>1. s.dollar \in Seq(T)
      BY DEF Placed, Places0
    <2> DEFINE l == Len(s.dollar)
    <2>2. l \in Nat /\ l # 0 /\ Len(t) \in Nat /\ i + l - 1 <= Len(t)
      BY <1>3, <2>1 DEF HasAt
    <2> HIDE DEF l
    <2>3. i + l \in i + 1 .. Len(t) + 1
      BY <2>2
    <2>4. PICK x, g : x = i + l /\ g = <<>>
      OBVIOUS
    <2>5. x \in i + 1 .. Len(t) + 1 /\ g \in Seq(T)
      BY <2>3, <2>4
    <2>6. u = [s EXCEPT !.next = x, !.dollar = g]
      BY <1>3, <2>4, Zenon DEF l
    <2> QED
      BY <2>5, <2>6, KeptDollar
  <1>4. CASE u = InQuote(t, s, i)
    BY <1>4, InQuotePlaced
  <1>5. CASE u = [s EXCEPT !.quote = t[i]]
    <2>1. t[i] \in T \cup {"none"}
      OBVIOUS
    <2> QED
      BY <1>5, <2>1, KeptQuote
  <1>6. CASE TagAt(t, i) # <<>> /\ u = [s EXCEPT !.next = i + Len(TagAt(t, i)), !.dollar = TagAt(t, i)]
    <2>1. PICK x, g : x = i + Len(TagAt(t, i)) /\ g = TagAt(t, i)
      OBVIOUS
    <2>2. x \in i + 1 .. Len(t) + 1 /\ g \in Seq(T)
      BY <1>6, <2>1, TagPlaced
    <2>3. u = [s EXCEPT !.next = x, !.dollar = g]
      BY <1>6, <2>1, Zenon
    <2> QED
      BY <2>2, <2>3, KeptDollar
  <1>7. CASE t[i] = "semi" /\ u = Terminate(t, s, i)
    <2>1. t[i] = SeparatorOf(scanner)
      BY <1>7 DEF SeparatorOf
    <2> QED
      BY <1>7, <2>1, TerminatePlaced
  <1>8. CASE u = s
    BY <1>8, Kept
  <1> QED
    BY <1>2, <1>3, <1>4, <1>5, <1>6, <1>7, <1>8

LEMMA GroupStepPlaced ==
  ASSUME NEW T, NEW t \in Seq(T), NEW i \in 1 .. Len(t), NEW s, Placed(t, T, s, i - 1), s.next <= i
  PROVE  Placed(t, T, GroupStep(t, s, i), i)
  <1> SUFFICES ASSUME NEW u, u = GroupStep(t, s, i)
               PROVE  Placed(t, T, u, i)
    OBVIOUS
  <1>1. Len(t) \in Nat /\ s \in Places0(t, T) /\ s.start <= i
    BY DEF Placed, Places0
  <1>2. s.start \in 1 .. Len(t) + 1 /\ i + 1 \in 1 .. Len(t) + 1 /\ i - 1 \in 0 .. Len(t)
    BY <1>1 DEF Places0
  <1>3. PICK p : p = SubSeq(t, s.start, i - 1)
    OBVIOUS
  <1>4. p \in Seq(T)
    BY <1>2, <1>3, Piece
  <1>5. PICK o : o = IF s.depth = 1 THEN Append(s.out, p) ELSE s.out
    OBVIOUS
  <1>6. o \in Seq(Seq(T))
    BY <1>1, <1>4, <1>5 DEF Places0
  <1>7. PICK b : b = IF s.depth = 0 THEN i + 1 ELSE s.start
    OBVIOUS
  <1>8. b \in 1 .. Len(t) + 1 /\ b <= i + 1
    BY <1>1, <1>2, <1>7
  <1>9. \/ u = [s EXCEPT !.depth = s.depth + 1, !.start = b]
        \/ u = [s EXCEPT !.depth = s.depth - 1, !.out = o]
        \/ u = s
    BY <1>3, <1>5, <1>7, Zenon DEF GroupStep
  <1>10. s.depth + 1 \in Int /\ s.depth - 1 \in Int
    BY <1>1 DEF Places0
  <1>11. u \in Places0(t, T) /\ (u.start = b \/ u.start = s.start)
    <2>1. CASE u = [s EXCEPT !.depth = s.depth + 1, !.start = b]
      BY <1>1, <1>8, <1>10, <2>1 DEF Places0
    <2>2. CASE u = [s EXCEPT !.depth = s.depth - 1, !.out = o]
      BY <1>1, <1>6, <1>10, <2>2 DEF Places0
    <2> QED
      BY <1>1, <1>9, <2>1, <2>2
  <1> QED
    BY <1>1, <1>2, <1>8, <1>11 DEF Placed

\* Wherever a scanner is, it is somewhere in the text, and what it has cut are
\* pieces of it.
LEMMA StepPlaced ==
  ASSUME NEW T, NEW t \in Seq(T), NEW i \in 1 .. Len(t), NEW s, Placed(t, T, s, i - 1), s.next <= i,
         NEW scanner \in Families \X Tasks
  PROVE  /\ Placed(t, T, Step(scanner, t, s, i), i)
         /\ scanner # <<"postgres", "values">> => Cuts(scanner, t, s, Step(scanner, t, s, i))
  <1>1. CASE scanner = <<"postgres", "script">>
    <2>1. scanner[2] = "script" /\ scanner # <<"postgres", "values">>
      BY <1>1
    <2>2. Step(scanner, t, s, i) = DumpStep(t, s, i)
      BY <1>1 DEF Step
    <2> QED
      BY <2>1, <2>2, DumpStepPlaced
  <1>2. CASE scanner = <<"generic", "script">>
    <2>1. scanner[2] = "script" /\ scanner # <<"postgres", "values">> /\ scanner # <<"postgres", "script">>
      BY <1>2
    <2>2. Step(scanner, t, s, i) = StatementStep(t, s, i)
      BY <1>2, <2>1 DEF Step
    <2> QED
      BY <2>1, <2>2, StatementStepPlaced
  <1>3. CASE scanner = <<"postgres", "values">>
    <2>1. scanner # <<"postgres", "script">> /\ scanner # <<"generic", "script">>
      BY <1>3
    <2>2. Step(scanner, t, s, i) = GroupStep(t, s, i)
      BY <1>3, <2>1 DEF Step
    <2> QED
      BY <1>3, <2>2, GroupStepPlaced
  <1>4. CASE /\ scanner # <<"postgres", "script">> /\ scanner # <<"generic", "script">>
             /\ scanner # <<"postgres", "values">>
    <2>1. scanner[2] # "script"
      BY <1>4 DEF Families, Tasks
    <2>2. Step(scanner, t, s, i) = ListStep(scanner[1], t, s, i)
      BY <1>4 DEF Step
    <2> QED
      BY <2>1, <2>2, ListStepPlaced
  <1> QED
    BY <1>1, <1>2, <1>3, <1>4

LEMMA ScansPlaced ==
  ASSUME NEW T, NEW t \in Seq(T), NEW scanner \in Families \X Tasks
  PROVE  \A n \in 0 .. Len(t) : Placed(t, T, Scans(scanner, t)[n], n)
  <1> DEFINE f == Scans(scanner, t)
             Good == {n \in Nat : n <= Len(t) => Placed(t, T, f[n], n)}
  <1>1. /\ f[0] = Start
        /\ \A i \in 1 .. Len(t) : f[i] = IF i < f[i - 1].next THEN f[i - 1]
                                         ELSE Step(scanner, t, f[i - 1], i)
    BY ScansParts
  <1> HIDE DEF f
  <1>2. Len(t) \in Nat
    OBVIOUS
  <1>3. 0 \in Good
    <2>1. Start \in Places0(t, T)
      BY <1>2 DEF Start, Places0
    <2>2. Start.start = 1
      BY DEF Start
    <2> QED
      BY <1>1, <2>1, <2>2 DEF Placed
  <1>4. ASSUME NEW n \in Nat, n \in Good PROVE n + 1 \in Good
    <2> SUFFICES ASSUME NEW i, i = n + 1, i <= Len(t) PROVE Placed(t, T, f[i], i)
      OBVIOUS
    <2> DEFINE s == f[n]
    <2>1. i \in 1 .. Len(t) /\ i - 1 = n /\ Placed(t, T, s, i - 1)
      BY <1>2, <1>4
    <2>2. f[i] = IF i < s.next THEN s ELSE Step(scanner, t, s, i)
      BY <1>1, <2>1
    <2>3. s.next \in Nat /\ s \in Places0(t, T) /\ (s.start <= i \/ s.start <= s.next) /\ s.start \in Nat
      BY <1>2, <2>1 DEF Placed, Places0
    <2> HIDE DEF s
    <2>4. CASE i < s.next
      BY <2>1, <2>2, <2>3, <2>4 DEF Placed
    <2>5. CASE ~(i < s.next)
      <3>1. s.next <= i
        BY <2>1, <2>3, <2>5
      <3>2. Placed(t, T, Step(scanner, t, s, i), i)
        BY <2>1, <3>1, StepPlaced
      <3> QED
        BY <2>2, <2>5, <3>2
    <2> QED
      BY <2>4, <2>5
  <1>5. Nat \subseteq Good
    <2> HIDE DEF Good
    <2> QED
      BY <1>3, <1>4, InductionOnSet
  <1> QED
    BY <1>5 DEF f

-----------------------------------------------------------------------------
(* Nothing lost. *)

\* A filter goes through one list and then the other.
LEMMA KeepConcat ==
  ASSUME NEW T, NEW s \in Seq(T), NEW t \in Seq(T), NEW S
  PROVE  Keep(s \o t, S) = Keep(s, S) \o Keep(t, S)
  <1> DEFINE Good == {u \in Seq(T) : Keep(s \o u, S) = Keep(s, S) \o Keep(u, S)}
  <1>1. << >> \in Good
    <2>1. s \o <<>> = s /\ Keep(s, S) \o <<>> = Keep(s, S)
      BY ConcatEmptySeq, KeepType
    <2>2. << >> \in Seq(T)
      OBVIOUS
    <2>3. Keep(<<>>, S) = <<>>
      BY KeepOfEmpty
    <2> QED
      BY <2>1, <2>2, <2>3, Zenon
  <1>2. ASSUME NEW u \in Seq(T), NEW x \in T, u \in Good
        PROVE  Append(u, x) \in Good
    <2>1. s \o Append(u, x) = Append(s \o u, x) /\ s \o u \in Seq(T)
      <3>1. <<x>> \in Seq(T) /\ s \o u \in Seq(T)
        OBVIOUS
      <3>2. Append(u, x) = u \o <<x>> /\ Append(s \o u, x) = (s \o u) \o <<x>>
        BY <3>1, AppendIsConcat
      <3> QED
        BY <3>1, <3>2, ConcatAssociative
    <2>2. Keep(Append(s \o u, x), S) = IF x \in S THEN Append(Keep(s \o u, S), x) ELSE Keep(s \o u, S)
      BY <2>1, KeepOfAppend
    <2>3. Keep(Append(u, x), S) = IF x \in S THEN Append(Keep(u, S), x) ELSE Keep(u, S)
      BY KeepOfAppend
    <2> DEFINE a == Keep(s, S)
               b == Keep(u, S)
    <2>4. a \in Seq(T) /\ b \in Seq(T) /\ Keep(s \o u, S) = a \o b
      BY <1>2, KeepType
    <2> HIDE DEF a, b
    <2>5. a \o Append(b, x) = Append(a \o b, x)
      <3>1. <<x>> \in Seq(T) /\ a \o b \in Seq(T)
        BY <2>4
      <3>2. Append(b, x) = b \o <<x>> /\ Append(a \o b, x) = (a \o b) \o <<x>>
        BY <2>4, <3>1, AppendIsConcat
      <3> QED
        BY <2>4, <3>1, <3>2, ConcatAssociative
    <2>6. Keep(s \o Append(u, x), S) = a \o Keep(Append(u, x), S)
      BY <2>1, <2>2, <2>3, <2>4, <2>5, Zenon DEF b
    <2>7. Append(u, x) \in Seq(T)
      OBVIOUS
    <2> QED
      BY <2>6, <2>7, Zenon DEF a
  <1>3. Seq(T) \subseteq Good
    <2> HIDE DEF Good
    <2> QED
      BY <1>1, <1>2, InductionOnLists
  <1> QED
    BY <1>3

\* What is cut holds what comes before the open piece, but for separators.
WholeUpTo(t, S, cut, n) == Keep(FlattenSeq(cut), S) = Keep(SubSeq(t, 1, n), S)

Whole(t, S, s) == WholeUpTo(t, S, s.out, s.start - 1)

LEMMA FlattenType ==
  ASSUME NEW T, NEW s \in Seq(Seq(T))
  PROVE  FlattenSeq(s) \in Seq(T)
  <1> DEFINE Good == {u \in Seq(Seq(T)) : FlattenSeq(u) \in Seq(T)}
  <1>1. << >> \in Good
    <2>1. << >> \in Seq(Seq(T)) /\ << >> \in Seq(T)
      BY EmptySeq
    <2> QED
      BY <2>1, FlattenEmpty, Zenon
  <1>2. ASSUME NEW u \in Seq(Seq(T)), NEW x \in Seq(T), u \in Good
        PROVE  Append(u, x) \in Good
    <2>1. FlattenSeq(Append(u, x)) = FlattenSeq(u) \o x
      BY FlattenAppend
    <2>2. FlattenSeq(u) \o x \in Seq(T)
      BY <1>2
    <2>3. Append(u, x) \in Seq(Seq(T))
      OBVIOUS
    <2> QED
      BY <2>1, <2>2, <2>3
  <1>3. Seq(Seq(T)) \subseteq Good
    <2> HIDE DEF Good
    <2> QED
      BY <1>1, <1>2, InductionOnLists
  <1> QED
    BY <1>3

LEMMA KeepSameConcat ==
  ASSUME NEW T, NEW p \in Seq(T), NEW x \in Seq(T), NEW y \in Seq(T), NEW S
  PROVE  Keep(y, S) = Keep(x, S) => Keep(y \o p, S) = Keep(x \o p, S)
  <1>1. Keep(y \o p, S) = Keep(y, S) \o Keep(p, S)
    BY KeepConcat
  <1>2. Keep(x \o p, S) = Keep(x, S) \o Keep(p, S)
    BY KeepConcat
  <1> QED
    BY <1>1, <1>2

\* A piece more.
LEMMA WholeMore ==
  ASSUME NEW T, NEW t \in Seq(T), NEW S, NEW l \in Seq(Seq(T)), NEW b \in 1 .. Len(t) + 1,
         NEW e \in b - 1 .. Len(t), WholeUpTo(t, S, l, b - 1)
  PROVE  WholeUpTo(t, S, Append(l, SubSeq(t, b, e)), e)
  <1> DEFINE p == SubSeq(t, b, e)
             x == SubSeq(t, 1, b - 1)
             y == FlattenSeq(l)
  <1>1. Len(t) \in Nat /\ 1 \in 1 .. Len(t) + 1 /\ b - 1 \in 0 .. Len(t) /\ e \in 0 .. Len(t)
    OBVIOUS
  <1>2. p \in Seq(T)
    BY <1>1, Piece
  <1>3. x \in Seq(T)
    BY <1>1, Piece
  <1>4. y \in Seq(T)
    BY FlattenType
  <1>5. x \o p = SubSeq(t, 1, e)
    <2>1. SubSeq(t, 1, b - 1) \o SubSeq(t, (b - 1) + 1, e) = SubSeq(t, 1, e)
      BY <1>1, ConcatAdjacentSubSeq
    <2>2. (b - 1) + 1 = b
      OBVIOUS
    <2> QED
      BY <2>1, <2>2
  <1>6. FlattenSeq(Append(l, p)) = y \o p
    BY <1>2, FlattenAppend
  <1>7. Keep(y, S) = Keep(x, S)
    BY DEF WholeUpTo
  <1> HIDE DEF p, x, y
  <1>8. Keep(y \o p, S) = Keep(x \o p, S)
    BY <1>2, <1>3, <1>4, <1>7, KeepSameConcat
  <1>9. Keep(FlattenSeq(Append(l, p)), S) = Keep(SubSeq(t, 1, e), S)
    BY <1>5, <1>6, <1>7, <1>8, Zenon
  <1> QED
    BY <1>9, Zenon DEF p, WholeUpTo

LEMMA CutsWhole ==
  ASSUME NEW T, NEW t \in Seq(T), NEW S, NEW scanner, SeparatorOf(scanner) \notin S,
         NEW s \in Places0(t, T), NEW u, Cuts(scanner, t, s, u), Whole(t, S, s)
  PROVE  Whole(t, S, u)
  <1>1. s.out \in Seq(Seq(T)) /\ s.start \in 1 .. Len(t) + 1 /\ Len(t) \in Nat
    BY DEF Places0
  <1>2. CASE u.out = s.out /\ u.start = s.start
    BY <1>2, Zenon DEF Whole
  <1>3. ASSUME NEW e \in s.start - 1 .. Len(t), u.out = Append(s.out, SubSeq(t, s.start, e)),
               \/ u.start = e + 1
               \/ e < Len(t) /\ t[e + 1] = SeparatorOf(scanner) /\ u.start = e + 2
        PROVE  Whole(t, S, u)
    <2>1. WholeUpTo(t, S, u.out, e)
      <3>1. WholeUpTo(t, S, s.out, s.start - 1)
        BY Zenon DEF Whole
      <3>2. WholeUpTo(t, S, Append(s.out, SubSeq(t, s.start, e)), e)
        BY <1>1, <3>1, WholeMore
      <3> QED
        BY <1>3, <3>2, Zenon
    <2>2. CASE u.start = e + 1
      <3>1. u.start - 1 = e
        BY <1>1, <2>2
      <3> QED
        BY <2>1, <3>1, Zenon DEF Whole
    <2>3. CASE e < Len(t) /\ t[e + 1] = SeparatorOf(scanner) /\ u.start = e + 2
      <3>1. /\ u.start - 1 = e + 1 /\ 1 \in 1 .. Len(t) /\ e + 1 \in 1 .. Len(t) /\ (e + 1) - 1 = e
            /\ e \in 0 .. Len(t) /\ 1 \in 1 .. Len(t) + 1
        BY <1>1, <2>3
      <3> DEFINE x == SubSeq(t, 1, e)
                 c == t[e + 1]
      <3>2. SubSeq(t, 1, e + 1) = x \o <<c>>
        <4>1. SubSeq(t, 1, e + 1) = SubSeq(t, 1, (e + 1) - 1) \o <<c>>
          BY <3>1, SubSeqRecursiveSecond
        <4> QED
          BY <3>1, <4>1, Zenon
      <3>3. x \in Seq(T) /\ c \in T
        BY <3>1, Piece
      <3>4. c \notin S
        BY <2>3
      <3> HIDE DEF x, c
      <3>5. x \o <<c>> = Append(x, c)
        BY <3>3, AppendIsConcat
      <3>6. Keep(Append(x, c), S) = Keep(x, S)
        BY <3>3, <3>4, KeepOfAppend
      <3>7. Keep(SubSeq(t, 1, u.start - 1), S) = Keep(x, S)
        BY <3>1, <3>2, <3>5, <3>6, Zenon
      <3>8. Keep(FlattenSeq(u.out), S) = Keep(x, S)
        BY <2>1, Zenon DEF WholeUpTo, x
      <3> QED
        BY <3>7, <3>8, Zenon DEF Whole, WholeUpTo
    <2> QED
      BY <1>3, <2>2, <2>3
  <1> QED
    BY <1>2, <1>3 DEF Cuts

LEMMA ScansWhole ==
  ASSUME NEW T, NEW t \in Seq(T), NEW scanner \in Families \X Tasks, scanner # <<"postgres", "values">>,
         NEW S, SeparatorOf(scanner) \notin S
  PROVE  \A n \in 0 .. Len(t) : Whole(t, S, Scans(scanner, t)[n])
  <1> DEFINE f == Scans(scanner, t)
             Good == {n \in Nat : n <= Len(t) => Whole(t, S, f[n])}
  <1>1. /\ f[0] = Start
        /\ \A i \in 1 .. Len(t) : f[i] = IF i < f[i - 1].next THEN f[i - 1]
                                         ELSE Step(scanner, t, f[i - 1], i)
    BY ScansParts
  <1>2. \A n \in 0 .. Len(t) : Placed(t, T, f[n], n)
    BY ScansPlaced
  <1> HIDE DEF f
  <1>3. Len(t) \in Nat
    OBVIOUS
  <1>4. 0 \in Good
    <2>1. Start.out = <<>> /\ Start.start - 1 = 0
      BY DEF Start
    <2>2. SubSeq(t, 1, 0) = <<>>
      BY SubSeqEmpty
    <2> QED
      BY <1>1, <2>1, <2>2, FlattenEmpty, Zenon DEF Whole, WholeUpTo
  <1>5. ASSUME NEW n \in Nat, n \in Good PROVE n + 1 \in Good
    <2> SUFFICES ASSUME NEW i, i = n + 1, i <= Len(t) PROVE Whole(t, S, f[i])
      OBVIOUS
    <2> DEFINE s == f[n]
    <2>1. i \in 1 .. Len(t) /\ i - 1 = n /\ Placed(t, T, s, i - 1) /\ Whole(t, S, s)
      BY <1>2, <1>3, <1>5
    <2>2. f[i] = IF i < s.next THEN s ELSE Step(scanner, t, s, i)
      BY <1>1, <2>1
    <2>3. s.next \in Nat /\ s \in Places0(t, T)
      BY <2>1 DEF Placed, Places0
    <2> HIDE DEF s
    <2>4. CASE i < s.next
      BY <2>1, <2>2, <2>4
    <2>5. CASE ~(i < s.next)
      <3>1. s.next <= i
        BY <2>1, <2>3, <2>5
      <3>2. Cuts(scanner, t, s, Step(scanner, t, s, i))
        BY <2>1, <3>1, StepPlaced
      <3>3. Whole(t, S, Step(scanner, t, s, i))
        BY <2>1, <2>3, <3>2, CutsWhole
      <3> QED
        BY <2>2, <2>5, <3>3
    <2> QED
      BY <2>4, <2>5
  <1>6. Nat \subseteq Good
    <2> HIDE DEF Good
    <2> QED
      BY <1>4, <1>5, InductionOnSet
  <1> QED
    BY <1>6 DEF f

\* The parts of a text are pieces of it, and hold all of it but the separators.
LEMMA PartsWhole ==
  ASSUME NEW T, NEW t \in Seq(T), NEW scanner \in Families \X Tasks
  PROVE  /\ Parts(scanner, t) \in Seq(Seq(T)) /\ Scan(scanner, t).out \in Seq(Seq(T))
         /\ \A S : scanner # <<"postgres", "values">> /\ SeparatorOf(scanner) \notin S =>
                     Keep(FlattenSeq(Parts(scanner, t)), S) = Keep(t, S)
  <1> DEFINE s == Scan(scanner, t)
  <1>1. Len(t) \in Nat /\ Len(t) \in 0 .. Len(t)
    OBVIOUS
  <1>2. s \in Places0(t, T)
    BY <1>1, ScansPlaced DEF Scan, Placed
  <1>3. s.out \in Seq(Seq(T)) /\ s.start \in 1 .. Len(t) + 1
    BY <1>2 DEF Places0
  <1>4. Rest(t, s) \in Seq(T)
    BY <1>1, <1>3, Piece DEF Rest
  <1>5. Append(s.out, Rest(t, s)) \in Seq(Seq(T))
    BY <1>3, <1>4
  <1>6. ASSUME NEW S, scanner # <<"postgres", "values">>, SeparatorOf(scanner) \notin S
        PROVE  Keep(FlattenSeq(Parts(scanner, t)), S) = Keep(t, S)
    <2>1. Whole(t, S, s)
      BY <1>1, <1>6, ScansWhole DEF Scan
    <2> HIDE DEF s
    <2>2. Len(t) \in s.start - 1 .. Len(t)
      BY <1>1, <1>3
    <2>3. WholeUpTo(t, S, s.out, s.start - 1)
      BY <2>1, Zenon DEF Whole
    <2>4. WholeUpTo(t, S, Append(s.out, SubSeq(t, s.start, Len(t))), Len(t))
      BY <1>3, <2>2, <2>3, WholeMore
    <2>5. SubSeq(t, 1, Len(t)) = t
      BY SubSeqFull
    <2> QED
      BY <2>4, <2>5, Zenon DEF s, Parts, Rest, WholeUpTo
  <1> QED
    BY <1>3, <1>5, <1>6, Zenon DEF Parts

-----------------------------------------------------------------------------
(* A script that is not PostgreSQL's. *)

\* Ends of statements, hidden or not.
Ends == {"semi", "GO", "//", "NUL"}

LEMMA BatchesParts ==
  ASSUME NEW T, NEW t \in Seq(T)
  PROVE  /\ Batches(t) \in Seq(T \cup {"semi"}) /\ Len(Batches(t)) = Len(t)
         /\ \A i \in 1 .. Len(t) : Batches(t)[i] = t[i] \/ (t[i] = "GO" /\ Batches(t)[i] = "semi")
  <1>1. Len(t) \in Nat /\ DOMAIN t = 1 .. Len(t) /\ \A i \in 1 .. Len(t) : t[i] \in T
    OBVIOUS
  <1>2. Batches(t) = [i \in 1 .. Len(t) |->
                        IF t[i] = "GO" /\ LineStart(t, i) /\ LineEnd(t, i) THEN "semi" ELSE t[i]]
    BY <1>1, Zenon DEF Batches
  <1>3. /\ Batches(t) \in [1 .. Len(t) -> T \cup {"semi"}]
        /\ \A i \in 1 .. Len(t) : Batches(t)[i] = t[i] \/ (t[i] = "GO" /\ Batches(t)[i] = "semi")
    BY <1>1, <1>2
  <1> HIDE DEF Batches
  <1> QED
    BY <1>1, <1>3

LEMMA ShownParts ==
  ASSUME NEW T, NEW p \in Seq(T \cup {"NUL"}), "semi" \in T
  PROVE  /\ Restored(p) \in Seq(T) /\ Len(Restored(p)) = Len(p)
         /\ \A i \in 1 .. Len(p) : Restored(p)[i] = IF p[i] = "NUL" THEN "semi" ELSE p[i]
  <1>1. Len(p) \in Nat /\ DOMAIN p = 1 .. Len(p) /\ \A i \in 1 .. Len(p) : p[i] \in T \cup {"NUL"}
    OBVIOUS
  <1>2. Restored(p) = [i \in 1 .. Len(p) |-> IF p[i] = "NUL" THEN "semi" ELSE p[i]]
    BY <1>1, Zenon DEF Restored
  <1>3. /\ Restored(p) \in [1 .. Len(p) -> T]
        /\ \A i \in 1 .. Len(p) : Restored(p)[i] = IF p[i] = "NUL" THEN "semi" ELSE p[i]
    BY <1>1, <1>2
  <1> HIDE DEF Restored
  <1> QED
    BY <1>1, <1>3

\* Whether a line is left out is decided by its first symbol.
LEMMA OnDelimiterLineParts ==
  ASSUME NEW T, NEW t \in Seq(T), NEW i \in 1 .. Len(t)
  PROVE  OnDelimiterLine(t, i) <=>
           IF LineStart(t, i) THEN t[i] \in Delimiters ELSE OnDelimiterLine(t, i - 1)
  <1>1. Len(t) \in Nat /\ i \in Nat
    OBVIOUS
  <1>2. CASE LineStart(t, i)
    <2>1. ASSUME NEW h \in 1 .. i, \A j \in h .. i - 1 : t[j] # "nl" PROVE h = i
      <3>1. CASE i = 1
        BY <3>1
      <3>2. CASE t[i - 1] = "nl" /\ h # i
        BY <1>1, <2>1, <3>2
      <3> QED
        BY <1>2, <3>1, <3>2 DEF LineStart
    <2>2. i \in 1 .. i /\ \A j \in i .. i - 1 : t[j] # "nl"
      BY <1>1
    <2> QED
      BY <1>2, <2>1, <2>2, Zenon DEF OnDelimiterLine
  <1>3. CASE ~LineStart(t, i)
    <2>1. i # 1 /\ t[i - 1] # "nl"
      BY <1>3 DEF LineStart
    <2>2. ASSUME OnDelimiterLine(t, i) PROVE OnDelimiterLine(t, i - 1)
      <3>1. PICK h \in 1 .. i : /\ LineStart(t, h) /\ t[h] \in Delimiters
                                /\ \A j \in h .. i - 1 : t[j] # "nl"
        BY <2>2, Zenon DEF OnDelimiterLine
      <3>2. h # i
        BY <1>3, <3>1
      <3>3. h \in 1 .. i - 1 /\ \A j \in h .. (i - 1) - 1 : t[j] # "nl"
        BY <1>1, <3>1, <3>2
      <3> QED
        BY <3>1, <3>3, Zenon DEF OnDelimiterLine
    <2>3. ASSUME OnDelimiterLine(t, i - 1) PROVE OnDelimiterLine(t, i)
      <3>1. PICK h \in 1 .. i - 1 : /\ LineStart(t, h) /\ t[h] \in Delimiters
                                    /\ \A j \in h .. (i - 1) - 1 : t[j] # "nl"
        BY <2>3, Zenon DEF OnDelimiterLine
      <3>2. h \in 1 .. i /\ \A j \in h .. i - 1 : t[j] # "nl"
        <4> SUFFICES ASSUME NEW j \in h .. i - 1 PROVE t[j] # "nl"
          BY <1>1, <3>1
        <4>1. j = i - 1 \/ j \in h .. (i - 1) - 1
          BY <1>1
        <4> QED
          BY <2>1, <3>1, <4>1
      <3> QED
        BY <3>1, <3>2, Zenon DEF OnDelimiterLine
    <2> QED
      BY <1>3, <2>2, <2>3
  <1> QED
    BY <1>2, <1>3

\* The lines up to n that do not begin with DELIMITER.
OtherLinesUpTo(t, n) ==
  LET others == Keep([i \in 1 .. n |-> i], {i \in DOMAIN t : ~OnDelimiterLine(t, i)})
  IN [k \in DOMAIN others |-> t[others[k]]]

LEMMA OtherLinesMore ==
  ASSUME NEW T, NEW t \in Seq(T), NEW n \in 0 .. Len(t)
  PROVE  /\ OtherLinesUpTo(t, n) \in Seq(T)
         /\ n = 0 => OtherLinesUpTo(t, n) = <<>>
         /\ n # 0 => OtherLinesUpTo(t, n) =
                       IF OnDelimiterLine(t, n) THEN OtherLinesUpTo(t, n - 1)
                       ELSE Append(OtherLinesUpTo(t, n - 1), t[n])
  <1> DEFINE D == DOMAIN t
             S == {i \in D : ~OnDelimiterLine(t, i)}
             ids(m) == [i \in 1 .. m |-> i]
             others(m) == Keep(ids(m), S)
             lines(m) == [k \in DOMAIN others(m) |-> t[others(m)[k]]]
  <1>1. Len(t) \in Nat /\ D = 1 .. Len(t) /\ \A i \in D : t[i] \in T
    OBVIOUS
  <1>2. \A m : lines(m) = OtherLinesUpTo(t, m)
    BY Zenon DEF OtherLinesUpTo
  <1>3. ASSUME NEW m \in 0 .. Len(t)
        PROVE  /\ ids(m) \in Seq(D) /\ others(m) \in Seq(D) /\ Len(others(m)) \in Nat
               /\ DOMAIN others(m) = 1 .. Len(others(m)) /\ lines(m) \in Seq(T)
               /\ Len(lines(m)) = Len(others(m))
    <2>1. ids(m) \in Seq(D)
      BY <1>1
    <2> DEFINE p == others(m)
    <2>2. p \in Seq(D)
      BY <2>1, KeepType
    <2> HIDE DEF p
    <2>3. Len(p) \in Nat /\ DOMAIN p = 1 .. Len(p) /\ \A k \in DOMAIN p : p[k] \in D
      BY <2>2
    <2> HIDE DEF D
    <2>4. [k \in DOMAIN p |-> t[p[k]]] \in [1 .. Len(p) -> T]
      BY <1>1, <2>3
    <2>5. [k \in DOMAIN p |-> t[p[k]]] \in Seq(T) /\ Len([k \in DOMAIN p |-> t[p[k]]]) = Len(p)
      BY <2>3, <2>4
    <2> QED
      BY <2>1, <2>2, <2>3, <2>5, Zenon DEF p
  <1>4. ASSUME n = 0 PROVE lines(n) = <<>>
    <2>1. ids(n) = <<>>
      BY <1>4
    <2>2. others(n) = <<>>
      BY <2>1, KeepOfEmpty, Zenon
    <2>3. lines(n) \in Seq(T) /\ Len(lines(n)) = 0
      BY <1>3, <2>2, EmptySeq
    <2> HIDE DEF lines
    <2> QED
      BY <2>3, EmptySeq
  <1>5. ASSUME n # 0
        PROVE  lines(n) = IF OnDelimiterLine(t, n) THEN lines(n - 1) ELSE Append(lines(n - 1), t[n])
    <2>1. n - 1 \in 0 .. Len(t) /\ n \in D
      BY <1>1, <1>5
    <2> DEFINE a == ids(n - 1)
    <2>2. a \in Seq(D) /\ Len(a) = n - 1
      BY <1>1, <2>1
    <2>3. ids(n) = Append(a, n)
      <3>1. \A i \in 1 .. n - 1 : a[i] = i
        OBVIOUS
      <3> HIDE DEF a
      <3>2. Append(a, n) = [i \in 1 .. (n - 1) + 1 |-> Append(a, n)[i]]
            /\ (\A i \in 1 .. n - 1 : Append(a, n)[i] = a[i]) /\ Append(a, n)[(n - 1) + 1] = n
        BY <2>1, <2>2, AppendParts
      <3>3. \A i \in 1 .. n : Append(a, n)[i] = i
        BY <2>1, <3>1, <3>2
      <3>4. (n - 1) + 1 = n
        OBVIOUS
      <3>5. Append(a, n) = [i \in 1 .. n |-> Append(a, n)[i]]
        BY <3>2, <3>4
      <3> QED
        BY <3>3, <3>5
    <2> DEFINE p == others(n - 1)
    <2>4. p \in Seq(D) /\ Len(p) \in Nat /\ DOMAIN p = 1 .. Len(p)
      BY <1>3, <2>1
    <2>5. others(n) = IF n \in S THEN Append(p, n) ELSE p
      <3> HIDE DEF D, S
      <3>1. Keep(Append(a, n), S) = IF n \in S THEN Append(Keep(a, S), n) ELSE Keep(a, S)
        <4> HIDE DEF a
        <4> QED
          BY <2>1, <2>2, KeepOfAppend
      <3> QED
        BY <2>3, <3>1, Zenon
    <2>6. n \in S <=> ~OnDelimiterLine(t, n)
      BY <2>1
    <2>7. lines(n) = [k \in DOMAIN others(n) |-> t[others(n)[k]]]
          /\ lines(n - 1) = [k \in DOMAIN p |-> t[p[k]]]
      OBVIOUS
    <2>8. CASE OnDelimiterLine(t, n)
      BY <2>5, <2>6, <2>7, <2>8, Zenon
    <2>9. CASE ~OnDelimiterLine(t, n)
      <3> DEFINE l == lines(n - 1)
                 m == lines(n)
      <3>1. others(n) = Append(p, n)
        BY <2>5, <2>6, <2>9
      <3>2. l = [k \in DOMAIN p |-> t[p[k]]] /\ m = [k \in DOMAIN Append(p, n) |-> t[Append(p, n)[k]]]
        BY <2>7, <3>1, Zenon
      <3>3. l \in Seq(T) /\ Len(l) = Len(p)
        BY <1>3, <2>1
      <3>4. t[n] \in T
        BY <1>1, <2>1
      <3> HIDE DEF p, l, m, S, D
      <3>5. /\ DOMAIN Append(p, n) = 1 .. Len(p) + 1
            /\ \A i \in 1 .. Len(p) : Append(p, n)[i] = p[i]
            /\ Append(p, n)[Len(p) + 1] = n
        BY <2>1, <2>4, AppendParts
      <3>6. /\ \A i \in 1 .. Len(p) : Append(l, t[n])[i] = l[i]
            /\ Append(l, t[n])[Len(p) + 1] = t[n]
            /\ Append(l, t[n]) = [i \in 1 .. Len(p) + 1 |-> Append(l, t[n])[i]]
        BY <3>3, <3>4, AppendParts
      <3>7. ASSUME NEW i \in 1 .. Len(p) + 1 PROVE t[Append(p, n)[i]] = Append(l, t[n])[i]
        <4>1. i = Len(p) + 1 \/ i \in 1 .. Len(p)
          BY <2>4
        <4> QED
          BY <2>4, <3>2, <3>5, <3>6, <4>1
      <3>8. m = [i \in 1 .. Len(p) + 1 |-> t[Append(p, n)[i]]]
        BY <3>2, <3>5
      <3>9. m = Append(l, t[n])
        BY <3>6, <3>7, <3>8
      <3> QED
        BY <2>9, <3>9, Zenon DEF l, m
    <2> QED
      BY <2>8, <2>9
  <1> HIDE DEF lines
  <1> QED
    BY <1>2, <1>3, <1>4, <1>5

\* Where normalizeMySQLDelimiters is after n symbols: on a line that is left out
\* or not, and with the other lines passed on, but for the ends of statements.
Undelimiting(t, T, S, s, n) ==
  /\ s.out \in Seq(T \cup {"semi", "NUL"})
  /\ s.left <=> OnDelimiterLine(t, n)
  /\ Keep(s.out, S) = Keep(OtherLinesUpTo(t, n), S)

LEMMA DelimiterStepWhole ==
  ASSUME NEW T, NEW t \in Seq(T), NEW S, S \cap Ends = {}, NEW i \in 1 .. Len(t), NEW s,
         Undelimiting(t, T, S, s, i - 1)
  PROVE  Undelimiting(t, T, S, DelimiterStep(Batches(t), s, i), i)
  <1> DEFINE b == Batches(t)
             U == T \cup {"semi", "NUL"}
             left == IF LineStart(b, i) THEN b[i] \in Delimiters ELSE s.left
             set == IF LineStart(b, i) /\ left THEN b[i] = "DELIMITER//" ELSE s.set
             c == IF set /\ b[i] = "semi" THEN "NUL"
                  ELSE IF set /\ b[i] = "//" /\ LineEnd(b, i) THEN "semi" ELSE b[i]
             u == DelimiterStep(b, s, i)
             o == OtherLinesUpTo(t, i - 1)
  <1>1. Len(t) \in Nat /\ i \in Nat /\ i - 1 \in 0 .. Len(t) /\ i \in 0 .. Len(t) /\ t[i] \in T
    OBVIOUS
  <1>2. \A j \in 1 .. Len(t) : b[j] = t[j] \/ (t[j] = "GO" /\ b[j] = "semi")
    BY BatchesParts
  <1>3. /\ s.out \in Seq(U)
        /\ s.left <=> OnDelimiterLine(t, i - 1)
        /\ Keep(s.out, S) = Keep(o, S)
    BY Zenon DEF Undelimiting
  <1>4. u = [left |-> left, set |-> set, out |-> IF left THEN s.out ELSE Append(s.out, c)]
    BY Zenon DEF DelimiterStep
  <1> HIDE DEF b, u, o
  <1>5. LineStart(b, i) <=> LineStart(t, i)
    <2>1. CASE i = 1
      BY <2>1 DEF LineStart
    <2>2. CASE i # 1
      <3>1. i - 1 \in 1 .. Len(t)
        BY <1>1, <2>2
      <3>2. b[i - 1] = "nl" <=> t[i - 1] = "nl"
        BY <1>2, <3>1
      <3> QED
        BY <3>2, Zenon DEF LineStart
    <2> QED
      BY <2>1, <2>2
  <1>6. b[i] \in Delimiters <=> t[i] \in Delimiters
    BY <1>2 DEF Delimiters
  <1>7. left <=> OnDelimiterLine(t, i)
    <2>1. OnDelimiterLine(t, i) <=> IF LineStart(t, i) THEN t[i] \in Delimiters ELSE OnDelimiterLine(t, i - 1)
      BY OnDelimiterLineParts
    <2> QED
      BY <1>3, <1>5, <1>6, <2>1, Zenon
  <1>9. c = b[i] \/ (b[i] \in {"semi", "//"} /\ c \in {"NUL", "semi"})
    BY Zenon
  <1> HIDE DEF c, left, set
  <1>10. c \in U /\ (c = t[i] \/ (c \in Ends /\ t[i] \in Ends))
    BY <1>1, <1>2, <1>9 DEF Ends
  <1>11. u.left = left /\ u.set = set /\ u.out = IF left THEN s.out ELSE Append(s.out, c)
    BY <1>4
  <1>12. /\ o \in Seq(T)
         /\ OtherLinesUpTo(t, i) = IF OnDelimiterLine(t, i) THEN o ELSE Append(o, t[i])
    <2>1. i # 0
      OBVIOUS
    <2> QED
      BY <1>1, <2>1, OtherLinesMore, Zenon DEF o
  <1>13. u.out \in Seq(U)
    BY <1>3, <1>10, <1>11
  <1>14. Keep(u.out, S) = Keep(OtherLinesUpTo(t, i), S)
    <2>1. CASE left
      BY <1>3, <1>7, <1>11, <1>12, <2>1, Zenon
    <2>2. CASE ~left
      <3>1. u.out = Append(s.out, c) /\ OtherLinesUpTo(t, i) = Append(o, t[i])
        BY <1>7, <1>11, <1>12, <2>2, Zenon
      <3>2. Keep(Append(s.out, c), S) = IF c \in S THEN Append(Keep(s.out, S), c) ELSE Keep(s.out, S)
        <4>1. s.out \in Seq(U) /\ c \in U
          BY <1>3, <1>10, Zenon
        <4> HIDE DEF U
        <4> QED
          BY <4>1, KeepOfAppend
      <3>3. Keep(Append(o, t[i]), S) = IF t[i] \in S THEN Append(Keep(o, S), t[i]) ELSE Keep(o, S)
        <4>1. o \in Seq(T) /\ t[i] \in T
          BY <1>1, <1>12, Zenon
        <4> QED
          BY <4>1, KeepOfAppend
      <3>4. (c \in S <=> t[i] \in S) /\ (c \in S => c = t[i])
        BY <1>10
      <3> QED
        BY <1>3, <3>1, <3>2, <3>3, <3>4, Zenon
    <2> QED
      BY <2>1, <2>2, Zenon
  <1>15. Undelimiting(t, T, S, u, i)
    BY <1>7, <1>11, <1>13, <1>14, Zenon DEF Undelimiting
  <1> QED
    BY <1>15, Zenon DEF u, b

LEMMA UndelimitedWhole ==
  ASSUME NEW T, NEW t \in Seq(T), NEW S, S \cap Ends = {}
  PROVE  /\ Undelimited(Batches(t)) \in Seq(T \cup {"semi", "NUL"})
         /\ Keep(Undelimited(Batches(t)), S) = Keep(OtherLines(t), S)
  <1> DEFINE b == Batches(t)
             f == Delimited(b)
             Good == {n \in Nat : n <= Len(t) => Undelimiting(t, T, S, f[n], n)}
  <1>1. b \in Seq(T \cup {"semi"}) /\ Len(b) = Len(t) /\ Len(t) \in Nat
    <2>1. Len(t) \in Nat
      OBVIOUS
    <2> QED
      BY <2>1, BatchesParts, Zenon
  <1>2. /\ f[0] = [left |-> FALSE, set |-> FALSE, out |-> <<>>]
        /\ \A i \in 1 .. Len(t) : f[i] = DelimiterStep(b, f[i - 1], i)
    <2> HIDE DEF b
    <2> QED
      BY <1>1, DelimitedParts
  <1>3. \A i \in 1 .. Len(t) : \A s : Undelimiting(t, T, S, s, i - 1)
                                        => Undelimiting(t, T, S, DelimiterStep(b, s, i), i)
    BY DelimiterStepWhole
  <1> HIDE DEF f
  <1>4. 0 \in Good
    <2>1. f[0].left = FALSE /\ f[0].set = FALSE /\ f[0].out = <<>> /\ <<>> \in Seq(T \cup {"semi", "NUL"})
      BY <1>2
    <2>2. ~OnDelimiterLine(t, 0)
      BY DEF OnDelimiterLine
    <2>3. OtherLinesUpTo(t, 0) = <<>>
      BY <1>1, OtherLinesMore
    <2>4. Undelimiting(t, T, S, f[0], 0)
      BY <2>1, <2>2, <2>3, Zenon DEF Undelimiting
    <2> QED
      BY <2>4
  <1>5. ASSUME NEW n \in Nat, n \in Good PROVE n + 1 \in Good
    <2> SUFFICES ASSUME NEW i, i = n + 1, i <= Len(t) PROVE Undelimiting(t, T, S, f[i], i)
      OBVIOUS
    <2>1. i \in 1 .. Len(t) /\ i - 1 = n
      BY <1>1
    <2>2. Undelimiting(t, T, S, f[i - 1], i - 1)
      BY <1>1, <1>5, <2>1
    <2> QED
      BY <1>2, <1>3, <2>1, <2>2, Zenon
  <1>6. Nat \subseteq Good
    <2> HIDE DEF Good
    <2> QED
      BY <1>4, <1>5, InductionOnSet
  <1>7. Undelimiting(t, T, S, f[Len(t)], Len(t))
    BY <1>1, <1>6
  <1>8. OtherLines(t) = OtherLinesUpTo(t, Len(t))
    <2>1. DOMAIN t = 1 .. Len(t)
      OBVIOUS
    <2>2. [i \in DOMAIN t |-> i] = [i \in 1 .. Len(t) |-> i]
      BY <2>1
    <2> QED
      BY <2>2, Zenon DEF OtherLines, OtherLinesUpTo
  <1>9. Undelimited(b) = f[Len(t)].out
    BY <1>1, Zenon DEF Undelimited, f
  <1> QED
    BY <1>7, <1>8, <1>9, Zenon DEF Undelimiting

LEMMA FunctionToList ==
  ASSUME NEW n \in Nat, NEW Q, NEW f \in [1 .. n -> Q]
  PROVE  f \in Seq(Q) /\ Len(f) = n
  OBVIOUS

\* Showing what was hidden changes ends of statements only.
LEMMA ShownWhole ==
  ASSUME NEW T, "semi" \in T, NEW cut \in Seq(Seq(T \cup {"NUL"})), NEW S, S \cap Ends = {}
  PROVE  LET shown == [k \in DOMAIN cut |-> Restored(cut[k])]
         IN  /\ shown \in Seq(Seq(T)) /\ Len(shown) = Len(cut)
             /\ Keep(FlattenSeq(shown), S) = Keep(FlattenSeq(cut), S)
  <1> DEFINE U == T \cup {"NUL"}
             shown(l) == [k \in DOMAIN l |-> Restored(l[k])]
             Good == {l \in Seq(Seq(U)) : Keep(FlattenSeq(shown(l)), S) = Keep(FlattenSeq(l), S)}
  <1>1. \A p \in Seq(U) : Restored(p) \in Seq(T) /\ Keep(Restored(p), S) = Keep(p, S)
    <2> DEFINE Fair == {p \in Seq(U) : Keep(Restored(p), S) = Keep(p, S)}
    <2>1. << >> \in Fair
      <3>1. << >> \in Seq(U) /\ Len(<<>>) = 0
        BY EmptySeq
      <3>2. Restored(<<>>) \in Seq(T) /\ Len(Restored(<<>>)) = 0
        BY <3>1, ShownParts
      <3>3. Restored(<<>>) = <<>>
        BY <3>2, EmptySeq
      <3> QED
        BY <3>1, <3>3, Zenon
    <2>2. ASSUME NEW p \in Seq(U), NEW x \in U, p \in Fair PROVE Append(p, x) \in Fair
      <3> DEFINE y == IF x = "NUL" THEN "semi" ELSE x
                 q == Restored(p)
                 a == Append(p, x)
                 r == Restored(a)
      <3>1. /\ Len(p) \in Nat /\ a \in Seq(U) /\ Len(a) = Len(p) + 1
            /\ (\A i \in 1 .. Len(p) : a[i] = p[i]) /\ a[Len(p) + 1] = x
        BY AppendParts
      <3> HIDE DEF a
      <3>2. /\ q \in Seq(T) /\ Len(q) = Len(p)
            /\ \A i \in 1 .. Len(p) : q[i] = IF p[i] = "NUL" THEN "semi" ELSE p[i]
        BY ShownParts
      <3>3. /\ r \in Seq(T) /\ Len(r) = Len(a)
            /\ \A i \in 1 .. Len(a) : r[i] = IF a[i] = "NUL" THEN "semi" ELSE a[i]
        BY <3>1, ShownParts
      <3>4. y \in T /\ (x \in S <=> y \in S) /\ (x \in S => x = y)
        BY DEF Ends
      <3> HIDE DEF q, r
      <3>5. \A i \in 1 .. Len(a) : r[i] = IF i = Len(p) + 1 THEN y ELSE q[i]
        <4> SUFFICES ASSUME NEW i \in 1 .. Len(a) PROVE r[i] = IF i = Len(p) + 1 THEN y ELSE q[i]
          OBVIOUS
        <4>1. r[i] = IF a[i] = "NUL" THEN "semi" ELSE a[i]
          BY <3>3
        <4>2. i = Len(p) + 1 \/ (i \in 1 .. Len(p) /\ i # Len(p) + 1)
          BY <3>1
        <4> QED
          BY <3>1, <3>2, <4>1, <4>2
      <3> HIDE DEF y
      <3>6. r = Append(q, y)
        <4>1. Append(q, y) \in Seq(T) /\ Len(Append(q, y)) = Len(p) + 1
              /\ (\A i \in 1 .. Len(p) : Append(q, y)[i] = q[i]) /\ Append(q, y)[Len(p) + 1] = y
          BY <3>2, <3>4, AppendParts
        <4> DEFINE z == Append(q, y)
        <4> HIDE DEF z
        <4>2. \A i \in 1 .. Len(r) : r[i] = z[i]
          BY <3>1, <3>3, <3>5, <4>1 DEF z
        <4>3. z \in Seq(T) /\ Len(r) = Len(z)
          BY <3>1, <3>3, <4>1, Zenon DEF z
        <4>4. r = z
          BY <3>3, <4>2, <4>3, SeqEqual
        <4> QED
          BY <4>4 DEF z
      <3>7. Keep(Append(q, y), S) = IF y \in S THEN Append(Keep(q, S), y) ELSE Keep(q, S)
        BY <3>2, <3>4, KeepOfAppend
      <3>8. Keep(Append(p, x), S) = IF x \in S THEN Append(Keep(p, S), x) ELSE Keep(p, S)
        BY KeepOfAppend
      <3>9. Keep(q, S) = Keep(p, S)
        BY <2>2 DEF q
      <3>10. Keep(r, S) = Keep(a, S)
        BY <3>4, <3>6, <3>7, <3>8, <3>9, Zenon DEF a
      <3> QED
        BY <3>1, <3>10, Zenon DEF r, a
    <2>3. Seq(U) \subseteq Fair
      <3> HIDE DEF Fair, U
      <3> QED
        BY <2>1, <2>2, InductionOnLists
    <2>4. \A p \in Seq(U) : Restored(p) \in Seq(T)
      BY ShownParts
    <2> QED
      BY <2>3, <2>4
  <1>2. \A l \in Seq(Seq(U)) : /\ shown(l) \in Seq(Seq(T)) /\ Len(shown(l)) = Len(l)
                               /\ \A k \in 1 .. Len(l) : shown(l)[k] = Restored(l[k])
    <2> HIDE DEF U
    <2> SUFFICES ASSUME NEW l \in Seq(Seq(U))
                 PROVE  /\ shown(l) \in Seq(Seq(T)) /\ Len(shown(l)) = Len(l)
                        /\ \A k \in 1 .. Len(l) : shown(l)[k] = Restored(l[k])
      OBVIOUS
    <2>1. Len(l) \in Nat /\ DOMAIN l = 1 .. Len(l) /\ \A k \in 1 .. Len(l) : l[k] \in Seq(U)
      OBVIOUS
    <2>2. \A k \in 1 .. Len(l) : Restored(l[k]) \in Seq(T)
      BY <1>1, <2>1
    <2> DEFINE v == shown(l)
    <2>3. v \in [1 .. Len(l) -> Seq(T)] /\ \A k \in 1 .. Len(l) : v[k] = Restored(l[k])
      BY <2>1, <2>2
    <2> HIDE DEF v
    <2>4. v \in Seq(Seq(T)) /\ Len(v) = Len(l) /\ \A k \in 1 .. Len(l) : v[k] = Restored(l[k])
      <3>1. PICK Q : Q = Seq(T)
        OBVIOUS
      <3>2. v \in [1 .. Len(l) -> Q]
        BY <2>3, <3>1
      <3>3. v \in Seq(Q) /\ Len(v) = Len(l)
        BY <2>1, <3>2, FunctionToList, Zenon
      <3> QED
        BY <2>3, <3>1, <3>3
    <2> QED
      BY <2>4, Zenon DEF v
  <1>3. << >> \in Good
    <2>1. << >> \in Seq(Seq(U)) /\ Len(<<>>) = 0
      BY EmptySeq
    <2>2. shown(<<>>) \in Seq(Seq(T)) /\ Len(shown(<<>>)) = 0
      BY <1>2, <2>1
    <2> HIDE DEF shown
    <2>3. shown(<<>>) = <<>>
      BY <2>2, EmptySeq
    <2> QED
      BY <2>1, <2>3, Zenon
  <1>4. ASSUME NEW l \in Seq(Seq(U)), NEW x \in Seq(U), l \in Good PROVE Append(l, x) \in Good
    <2> DEFINE a == Append(l, x)
               q == shown(l)
               r == shown(a)
               y == Restored(x)
    <2>1. /\ Len(l) \in Nat /\ a \in Seq(Seq(U)) /\ Len(a) = Len(l) + 1
          /\ (\A k \in 1 .. Len(l) : a[k] = l[k]) /\ a[Len(l) + 1] = x
      <3> HIDE DEF U
      <3> QED
        BY AppendParts
    <2> HIDE DEF a
    <2>2. /\ q \in Seq(Seq(T)) /\ Len(q) = Len(l)
          /\ \A k \in 1 .. Len(l) : q[k] = Restored(l[k])
      BY <1>2
    <2>3. /\ r \in Seq(Seq(T)) /\ Len(r) = Len(a)
          /\ \A k \in 1 .. Len(a) : r[k] = Restored(a[k])
      BY <1>2, <2>1
    <2>4. y \in Seq(T) /\ Keep(y, S) = Keep(x, S)
      BY <1>1
    <2>5. Keep(FlattenSeq(q), S) = Keep(FlattenSeq(l), S)
      BY <1>4
    <2> HIDE DEF q, r, shown, y, U
    <2>6. r = Append(q, y)
      <3> DEFINE z == Append(q, y)
      <3>1. /\ z \in Seq(Seq(T)) /\ Len(z) = Len(l) + 1
            /\ (\A k \in 1 .. Len(l) : z[k] = q[k]) /\ z[Len(l) + 1] = y
        BY <2>2, <2>4, AppendParts
      <3> HIDE DEF z
      <3>2. \A k \in 1 .. Len(r) : r[k] = z[k]
        <4> SUFFICES ASSUME NEW k \in 1 .. Len(r) PROVE r[k] = z[k]
          OBVIOUS
        <4>1. r[k] = Restored(a[k])
          BY <2>3
        <4>2. k = Len(l) + 1 \/ k \in 1 .. Len(l)
          BY <2>1, <2>3
        <4>3. Restored(x) = y
          BY DEF y
        <4> QED
          BY <2>1, <2>2, <3>1, <4>1, <4>2, <4>3
      <3>3. Len(r) = Len(z)
        BY <2>1, <2>3, <3>1
      <3>4. r = z
        BY <2>3, <3>1, <3>2, <3>3, SeqEqual
      <3> QED
        BY <3>4 DEF z
    <2>7. FlattenSeq(Append(q, y)) = FlattenSeq(q) \o y /\ FlattenSeq(q) \in Seq(T)
      BY <2>2, <2>4, FlattenAppend, FlattenType
    <2>8. FlattenSeq(Append(l, x)) = FlattenSeq(l) \o x /\ FlattenSeq(l) \in Seq(U)
      BY FlattenAppend, FlattenType
    <2> DEFINE fq == FlattenSeq(q)
               fl == FlattenSeq(l)
    <2>9. Keep(fq \o y, S) = Keep(fq, S) \o Keep(y, S)
      <3> HIDE DEF fq
      <3>1. fq \in Seq(T) /\ y \in Seq(T)
        BY <2>4, <2>7 DEF fq
      <3> QED
        BY <3>1, KeepConcat
    <2>10. Keep(fl \o x, S) = Keep(fl, S) \o Keep(x, S)
      <3> HIDE DEF fl
      <3>1. fl \in Seq(U) /\ x \in Seq(U)
        BY <2>8 DEF fl
      <3> QED
        BY <3>1, KeepConcat
    <2>11. Keep(FlattenSeq(r), S) = Keep(FlattenSeq(a), S)
      BY <2>4, <2>5, <2>6, <2>7, <2>8, <2>9, <2>10, Zenon DEF a
    <2> QED
      BY <2>1, <2>11, Zenon DEF r, a
  <1>5. Seq(Seq(U)) \subseteq Good
    <2> HIDE DEF Good, U
    <2> QED
      BY <1>3, <1>4, InductionOnLists
  <1>6. cut \in Seq(Seq(U)) /\ cut \in Good
    BY <1>5
  <1> HIDE DEF U
  <1>7. shown(cut) \in Seq(Seq(T)) /\ Len(shown(cut)) = Len(cut)
    BY <1>2, <1>6
  <1>8. Keep(FlattenSeq(shown(cut)), S) = Keep(FlattenSeq(cut), S)
    BY <1>6
  <1> QED
    BY <1>7, <1>8, Zenon

\* A script is cut into pieces of its symbols, with all that is not on a DELIMITER
\* line, but for the ends of statements.
LEMMA SplitScriptWhole ==
  ASSUME NEW T, NEW t \in Seq(T), NEW S, S \cap Ends = {}
  PROVE  /\ SplitScript(t) \in Seq(Seq(T \cup {"semi"}))
         /\ Keep(FlattenSeq(SplitScript(t)), S) = Keep(OtherLines(t), S)
  <1> DEFINE gs == <<"generic", "script">>
             U == T \cup {"semi"}
             v == Undelimited(Batches(t))
             cut == Parts(gs, v)
  <1>1. v \in Seq(T \cup {"semi", "NUL"}) /\ Keep(v, S) = Keep(OtherLines(t), S)
    BY UndelimitedWhole
  <1>2. T \cup {"semi", "NUL"} = U \cup {"NUL"}
    OBVIOUS
  <1>3. v \in Seq(U \cup {"NUL"})
    BY <1>1, <1>2
  <1>4. gs \in Families \X Tasks /\ gs # <<"postgres", "values">> /\ SeparatorOf(gs) \notin S
    BY DEF Families, Tasks, SeparatorOf, Ends
  <1>5. SplitScript(t) = [k \in DOMAIN cut |-> Restored(cut[k])]
    BY Zenon DEF SplitScript
  <1> HIDE DEF v, gs
  <1>6. cut \in Seq(Seq(U \cup {"NUL"})) /\ Keep(FlattenSeq(cut), S) = Keep(v, S)
    <2> HIDE DEF U
    <2> QED
      BY <1>3, <1>4, PartsWhole
  <1> HIDE DEF cut
  <1>7. "semi" \in U
    OBVIOUS
  <1> HIDE DEF U
  <1>8. /\ [k \in DOMAIN cut |-> Restored(cut[k])] \in Seq(Seq(U))
        /\ Keep(FlattenSeq([k \in DOMAIN cut |-> Restored(cut[k])]), S) = Keep(FlattenSeq(cut), S)
    BY <1>6, <1>7, ShownWhole
  <1> QED
    BY <1>1, <1>5, <1>6, <1>8, Zenon DEF U

\* The last of a set of numbers.
LEMMA Greatest ==
  ASSUME NEW n \in Nat, NEW S \in SUBSET (1 .. n), S # {}
  PROVE  \E j \in S : \A k \in S : k <= j
  <1> DEFINE R == {n - k : k \in S}
  <1>1. R \in SUBSET Nat /\ R # {}
    <2>1. \A k \in S : n - k \in Nat
      OBVIOUS
    <2>2. \A k \in S : n - k \in R
      OBVIOUS
    <2> QED
      BY <2>1, <2>2
  <1>2. PICK least \in R : \A k \in R : least <= k
    <2> HIDE DEF R
    <2> QED
      BY <1>1, Least
  <1>3. PICK j \in S : least = n - j
    BY <1>2
  <1>4. ASSUME NEW k \in S PROVE k <= j
    <2>1. n - j <= n - k
      BY <1>2, <1>3
    <2>2. j \in 1 .. n /\ k \in 1 .. n
      OBVIOUS
    <2> QED
      BY <2>1, <2>2
  <1> QED
    BY <1>4

\* What is left of a text without the empty lines around it.
LEMMA TrimmedParts ==
  ASSUME NEW T, NEW t \in Seq(T)
  PROVE  \/ Trimmed(t) = <<>> /\ \A i \in 1 .. Len(t) : t[i] = "nl"
         \/ \E a, e \in 1 .. Len(t) :
              /\ Trimmed(t) = SubSeq(t, a, e) /\ t[a] # "nl" /\ t[e] # "nl"
              /\ \A i \in 1 .. Len(t) : t[i] # "nl" => a <= i /\ i <= e
  <1> DEFINE solid == {i \in DOMAIN t : t[i] # "nl"}
             a == CHOOSE i \in solid : \A j \in solid : i <= j
             e == CHOOSE i \in solid : \A j \in solid : j <= i
  <1>1. DOMAIN t = 1 .. Len(t) /\ Len(t) \in Nat
    OBVIOUS
  <1>2. CASE solid = {}
    <2>1. Trimmed(t) = <<>>
      BY <1>2, Zenon DEF Trimmed
    <2>2. \A i \in 1 .. Len(t) : t[i] = "nl"
      BY <1>1, <1>2
    <2> QED
      BY <2>1, <2>2
  <1>3. CASE solid # {}
    <2>1. Trimmed(t) = SubSeq(t, a, e)
      BY <1>3, Zenon DEF Trimmed
    <2>2. solid \in SUBSET (1 .. Len(t)) /\ solid \in SUBSET Nat
      BY <1>1
    <2>3. a \in solid /\ \A j \in solid : a <= j
      <3>1. \E i \in solid : \A j \in solid : i <= j
        <4> HIDE DEF solid
        <4> QED
          BY <1>3, <2>2, Least
      <3> HIDE DEF solid
      <3> QED
        BY <3>1
    <2>4. e \in solid /\ \A j \in solid : j <= e
      <3>1. \E i \in solid : \A j \in solid : j <= i
        <4> HIDE DEF solid
        <4> QED
          BY <1>1, <1>3, <2>2, Greatest
      <3> HIDE DEF solid
      <3> QED
        BY <3>1
    <2> HIDE DEF a, e
    <2>5. a \in 1 .. Len(t) /\ e \in 1 .. Len(t) /\ t[a] # "nl" /\ t[e] # "nl"
      BY <1>1, <2>3, <2>4
    <2>6. \A i \in 1 .. Len(t) : t[i] # "nl" => a <= i /\ i <= e
      BY <1>1, <2>3, <2>4
    <2> QED
      BY <2>1, <2>5, <2>6, Zenon
  <1> QED
    BY <1>2, <1>3

LEMMA TrimmedType ==
  ASSUME NEW T, NEW t \in Seq(T)
  PROVE  Trimmed(t) \in Seq(T)
  <1>1. CASE Trimmed(t) = <<>>
    BY <1>1
  <1>2. CASE \E a, e \in 1 .. Len(t) : Trimmed(t) = SubSeq(t, a, e)
    <2>1. PICK a, e \in 1 .. Len(t) : Trimmed(t) = SubSeq(t, a, e)
      BY <1>2
    <2>2. a \in 1 .. Len(t) + 1 /\ e \in 0 .. Len(t)
      OBVIOUS
    <2>3. SubSeq(t, a, e) \in Seq(T)
      BY <2>2, Piece
    <2> QED
      BY <2>1, <2>3, Zenon
  <1> QED
    BY <1>1, <1>2, TrimmedParts, Zenon

LEMMA GroupsType ==
  ASSUME NEW T, NEW parts \in Seq(Seq(T))
  PROVE  Groups(parts) \in Seq(Seq(T))
  <1> DEFINE trimmed == [k \in DOMAIN parts |-> Trimmed(parts[k])]
             wrapped == {p \in Range(trimmed) : p # <<>> /\ Head(p) = "(" /\ Last(p) = ")"}
             found == Keep(trimmed, wrapped)
  <1>1. Groups(parts) = [k \in DOMAIN found |-> SubSeq(found[k], 2, Len(found[k]) - 1)]
    BY Zenon DEF Groups
  <1>2. Len(parts) \in Nat /\ DOMAIN parts = 1 .. Len(parts) /\ \A k \in DOMAIN parts : parts[k] \in Seq(T)
    OBVIOUS
  <1>3. trimmed \in [1 .. Len(parts) -> Seq(T)]
    BY <1>2, TrimmedType
  <1>4. trimmed \in Seq(Seq(T))
    BY <1>2, <1>3, FunctionToList, Zenon
  <1> HIDE DEF trimmed, wrapped
  <1>5. found \in Seq(Seq(T)) /\ \A k \in DOMAIN found : found[k] \in wrapped
    BY <1>4, KeepType
  <1> HIDE DEF found
  <1>6. Len(found) \in Nat /\ DOMAIN found = 1 .. Len(found) /\ \A k \in DOMAIN found : found[k] \in Seq(T)
    BY <1>5
  <1>7. ASSUME NEW k \in DOMAIN found PROVE SubSeq(found[k], 2, Len(found[k]) - 1) \in Seq(T)
    <2>1. found[k] \in Seq(T) /\ found[k] # <<>>
      BY <1>5, <1>6 DEF wrapped
    <2>2. Len(found[k]) \in Nat /\ Len(found[k]) # 0
      BY <2>1
    <2>3. 2 \in 1 .. Len(found[k]) + 1 /\ Len(found[k]) - 1 \in 0 .. Len(found[k])
      BY <2>2
    <2> QED
      BY <2>1, <2>3, Piece
  <1>8. [k \in DOMAIN found |-> SubSeq(found[k], 2, Len(found[k]) - 1)] \in [1 .. Len(found) -> Seq(T)]
    BY <1>6, <1>7
  <1> QED
    BY <1>1, <1>6, <1>8, FunctionToList, Zenon

\* Any text is cut into pieces of its own symbols.
LEMMA SplitType ==
  ASSUME NEW T, NEW t \in Seq(T), reader \in Families \X Tasks
  PROVE  Split(t) \in Seq(Seq(T \cup {"semi"}))
  <1> DEFINE U == T \cup {"semi"}
  <1>1. t \in Seq(U)
    BY SeqMonotonic
  <1>2. SplitScript(t) \in Seq(Seq(U))
    <2>1. {} \cap Ends = {}
      OBVIOUS
    <2> QED
      BY <2>1, SplitScriptWhole
  <1> HIDE DEF U
  <1>3. Parts(reader, t) \in Seq(Seq(U)) /\ Scan(reader, t).out \in Seq(Seq(U))
    BY <1>1, PartsWhole
  <1>4. Groups(Parts(reader, t)) \in Seq(Seq(U))
    BY <1>3, GroupsType
  <1>5. \/ Split(t) = SplitScript(t)
        \/ Split(t) = Scan(reader, t).out
        \/ Split(t) = Groups(Parts(reader, t))
        \/ Split(t) = Parts(reader, t)
    BY DEF Split
  <1> QED
    BY <1>2, <1>3, <1>4, <1>5, Zenon DEF U

-----------------------------------------------------------------------------
(* The author. *)

Kinds == {"quoted", "escaped", "bracketed", "comment", "dollar-quoted", "name", "copy"}

\* The parts of the state are of their types, and the text is cut when it has ended.
ScanTyped ==
  /\ reader \in Readers
  /\ text \in Seq(Symbols)
  /\ meant \in Seq(Seq(Range(text)))
  /\ depth \in 0 .. count /\ count \in 0 .. MaxConstructs[Task] /\ filled \in 0 .. MaxFilled[Task]
  /\ odd \subseteq Kinds
  /\ ended \in BOOLEAN
  /\ pieces = IF ended THEN Split(text) ELSE <<>>

\* Lists whose members are of the text stay so when the text grows.
LEMMA MeantGrows ==
  ASSUME NEW t \in Seq(Symbols), NEW x \in Seq(Symbols), NEW l \in Seq(Seq(Range(t)))
  PROVE  /\ t \o x \in Seq(Symbols)
         /\ l \in Seq(Seq(Range(t \o x)))
         /\ x \in Seq(Range(t \o x))
  <1>1. t \o x \in Seq(Symbols)
    OBVIOUS
  <1>2. Range(t \o x) = Range(t) \cup Range(x)
    BY RangeConcatenation
  <1>3. x \in Seq(Range(x))
    BY SeqOfRange
  <1> DEFINE A == Range(t)
             B == Range(t \o x)
             C == Range(x)
  <1>4. A \subseteq B /\ C \subseteq B
    BY <1>2
  <1> HIDE DEF A, B, C
  <1>5. x \in Seq(B)
    BY <1>3, <1>4, SeqMonotonic DEF C
  <1>6. Seq(A) \subseteq Seq(B)
    BY <1>4, SeqMonotonic
  <1>7. l \in Seq(Seq(B))
    BY <1>6, SeqMonotonic DEF A
  <1> QED
    BY <1>1, <1>5, <1>7 DEF B

\* To the open piece more of the text can be added.
LEMMA OpenGrows ==
  ASSUME NEW U, NEW l \in Seq(Seq(U)), NEW x \in Seq(U)
  PROVE  [l EXCEPT ![Len(l)] = @ \o x] \in Seq(Seq(U))
  <1> DEFINE n == Len(l)
  <1>1. n \in Nat /\ DOMAIN l = 1 .. n
    OBVIOUS
  <1>2. CASE n = 0
    <2>1. [l EXCEPT ![n] = @ \o x] = l
      BY <1>1, <1>2
    <2> QED
      BY <2>1
  <1>3. CASE n # 0
    <2>1. n \in 1 .. n /\ l[n] \in Seq(U)
      BY <1>1, <1>3
    <2> DEFINE y == l[n] \o x
    <2>2. y \in Seq(U)
      BY <2>1
    <2> HIDE DEF n, y
    <2>3. [l EXCEPT ![n] = y] \in Seq(Seq(U))
      <3> DEFINE Q == Seq(U)
      <3>1. y \in Q /\ l \in Seq(Q)
        BY <2>2
      <3> HIDE DEF Q
      <3>2. [l EXCEPT ![n] = y] \in Seq(Q)
        BY <2>1, <3>1, ExceptSeq DEF n
      <3> QED
        BY <3>2 DEF Q
    <2> QED
      BY <2>3, Zenon DEF y, n
  <1> QED
    BY <1>2, <1>3

LEMMA WritingTyped ==
  ASSUME ScanTyped, NEW n \in {0, 1}, Writing(n), NEW x \in Seq(Symbols), text' = text \o x,
         meant' \in Seq(Seq(Range(text \o x))), depth' \in {depth, depth + 1, depth - 1}, depth' >= 0,
         odd' \subseteq Kinds
  PROVE  ScanTyped'
  <1>1. /\ reader' = reader /\ pieces' = pieces /\ ended' = ended /\ ~ended
        /\ count < MaxConstructs[Task] /\ count' = count + 1
        /\ filled + n <= MaxFilled[Task] /\ filled' = filled + n
    BY Zenon DEF Writing
  <1>2. /\ reader \in Readers /\ text \in Seq(Symbols)
        /\ depth \in 0 .. count /\ count \in 0 .. MaxConstructs[Task] /\ filled \in 0 .. MaxFilled[Task]
        /\ ended \in BOOLEAN /\ pieces = IF ended THEN Split(text) ELSE <<>>
    BY Zenon DEF ScanTyped
  <1>3. Task' = Task
    BY <1>1, Zenon DEF Task
  <1>4. MaxConstructs[Task] \in Nat /\ MaxFilled[Task] \in Nat
    <2>1. Task \in Tasks
      BY <1>2, ScanConstantsOK DEF Task
    <2> QED
      BY <2>1, ScanConstantsOK
  <1>5. text' \in Seq(Symbols)
    BY <1>2, ConcatProperties, Zenon
  <1>6. meant' \in Seq(Seq(Range(text')))
    BY Zenon
  <1>7. count' \in 0 .. MaxConstructs[Task] /\ depth' \in 0 .. count'
    BY <1>1, <1>2, <1>4
  <1>8. filled' \in 0 .. MaxFilled[Task]
    BY <1>1, <1>2, <1>4
  <1>9. pieces' = IF ended' THEN Split(text)' ELSE <<>>
    BY <1>1, <1>2, Zenon
  <1> QED
    BY <1>1, <1>2, <1>3, <1>5, <1>6, <1>7, <1>8, <1>9, Zenon DEF ScanTyped

\* What is added to the text is added to the open piece.
LEMMA AddTyped ==
  ASSUME ScanTyped, NEW x \in Seq(Symbols), Add(x)
  PROVE  text' = text \o x /\ meant' \in Seq(Seq(Range(text \o x)))
  <1>1. text' = text \o x /\ meant' = [meant EXCEPT ![Len(meant)] = @ \o x]
    BY Zenon DEF Add
  <1>2. text \in Seq(Symbols) /\ meant \in Seq(Seq(Range(text)))
    BY Zenon DEF ScanTyped
  <1>3. meant \in Seq(Seq(Range(text \o x))) /\ x \in Seq(Range(text \o x))
    BY <1>2, MeantGrows
  <1> QED
    BY <1>1, <1>3, OpenGrows, Zenon

LEMMA FollowsTyped ==
  ASSUME ScanTyped, NEW followed, NEW construct \in Kinds, Follows(followed, construct)
  PROVE  odd' \subseteq Kinds
  BY DEF ScanTyped, Follows

LEMMA DoubledType ==
  ASSUME NEW T, NEW c \in Seq(T), NEW q \in T
  PROVE  Doubled(c, q) \in Seq(T)
  <1> DEFINE twice == [i \in DOMAIN c |-> IF c[i] = q THEN <<q, q>> ELSE <<c[i]>>]
  <1>1. Len(c) \in Nat /\ DOMAIN c = 1 .. Len(c) /\ \A i \in DOMAIN c : c[i] \in T
    OBVIOUS
  <1>2. \A y \in T : <<q, q>> \in Seq(T) /\ <<y>> \in Seq(T)
    OBVIOUS
  <1>3. twice \in [1 .. Len(c) -> Seq(T)]
    BY <1>1, <1>2
  <1>4. twice \in Seq(Seq(T))
    BY <1>1, <1>3, FunctionToList, Zenon
  <1> HIDE DEF twice
  <1>5. FlattenSeq(twice) \in Seq(T)
    BY <1>4, FlattenType
  <1> QED
    BY <1>5, Zenon DEF twice, Doubled

\* The symbols that the author writes are symbols.
LEMMA SymbolLists ==
  /\ \A a \in Symbols : <<a>> \in Seq(Symbols)
  /\ \A a, b, c \in Symbols : <<a, b>> \in Seq(Symbols) /\ <<a, b, c>> \in Seq(Symbols)
  /\ \A a, b, c, d \in Symbols : <<a, b, c, d>> \in Seq(Symbols)
  /\ \A a, b, c, d, e \in Symbols : <<a, b, c, d, e>> \in Seq(Symbols)
  OBVIOUS

\* What is added at an end is added as a text is.
LEMMA FinishedTyped ==
  ASSUME ScanTyped, NEW x \in Seq(Symbols), NEW p \in Seq(Symbols), NEW a \in Seq(Symbols),
         Range(p) \cup Range(a) \subseteq Range(x), Finished(x, p, a)
  PROVE  text' = text \o x /\ meant' \in Seq(Seq(Range(text \o x))) /\ depth' = depth
  <1> DEFINE B == Range(text \o x)
             l == [meant EXCEPT ![Len(meant)] = @ \o p]
  <1>1. text' = text \o x /\ meant' = Append(l, a) /\ depth' = depth
    BY Zenon DEF Finished
  <1>2. text \in Seq(Symbols) /\ meant \in Seq(Seq(Range(text)))
    BY Zenon DEF ScanTyped
  <1>3. meant \in Seq(Seq(B)) /\ Range(x) \subseteq B
    <2>1. Range(text \o x) = Range(text) \cup Range(x)
      BY <1>2, RangeConcatenation
    <2> QED
      BY <1>2, <2>1, MeantGrows
  <1>4. p \in Seq(Range(p)) /\ a \in Seq(Range(a)) /\ Range(p) \subseteq B /\ Range(a) \subseteq B
    BY <1>3, SeqOfRange
  <1> HIDE DEF B
  <1>5. p \in Seq(B) /\ a \in Seq(B)
    BY <1>4, SeqMonotonic
  <1>6. l \in Seq(Seq(B))
    BY <1>3, <1>5, OpenGrows
  <1> HIDE DEF l
  <1>7. Append(l, a) \in Seq(Seq(B))
    BY <1>5, <1>6
  <1> QED
    BY <1>1, <1>7, Zenon DEF B

\* A new piece, with what may begin it.
LEMMA NewPieceTyped ==
  ASSUME ScanTyped, NEW y \in Symbols, text' = Append(text, y), meant' = Append(meant, <<>>) \/ meant' = meant
  PROVE  text' = text \o <<y>> /\ <<y>> \in Seq(Symbols) /\ meant' \in Seq(Seq(Range(text \o <<y>>)))
  <1> DEFINE x == <<y>>
             B == Range(text \o x)
  <1>1. text \in Seq(Symbols) /\ meant \in Seq(Seq(Range(text)))
    BY Zenon DEF ScanTyped
  <1>2. x \in Seq(Symbols)
    OBVIOUS
  <1>3. text' = text \o x
    BY <1>1, AppendIsConcat
  <1> HIDE DEF x
  <1>4. meant \in Seq(Seq(B))
    BY <1>1, <1>2, MeantGrows
  <1> HIDE DEF B
  <1>5. Append(meant, <<>>) \in Seq(Seq(B))
    BY <1>4
  <1>6. meant' \in Seq(Seq(B))
    BY <1>4, <1>5, Zenon
  <1> QED
    BY <1>2, <1>3, <1>6, Zenon DEF x, B

\* A construct within one piece.
LEMMA AddingTyped ==
  ASSUME ScanTyped, NEW n \in {0, 1}, Writing(n), NEW x \in Seq(Symbols), Add(x),
         depth' \in {depth, depth + 1, depth - 1}, depth' >= 0, odd' \subseteq Kinds
  PROVE  ScanTyped'
  <1>1. text' = text \o x /\ meant' \in Seq(Seq(Range(text \o x)))
    BY AddTyped
  <1> QED
    BY <1>1, WritingTyped

LEMMA UnchangedDepth ==
  ASSUME ScanTyped, depth' = depth
  PROVE  depth' \in {depth, depth + 1, depth - 1} /\ depth' >= 0
  BY DEF ScanTyped

LEMMA UnchangedOdd ==
  ASSUME ScanTyped, odd' = odd
  PROVE  odd' \subseteq Kinds
  BY DEF ScanTyped

LEMMA ContentType ==
  ASSUME NEW c \in Contents
  PROVE  c \in Seq(Symbols)
  BY ScanConstantsOK

\* What each construct is made of.
LEMMA ConstructTypes ==
  ASSUME NEW c \in Seq(Symbols), NEW q \in Symbols, NEW tag \in Tags
  PROVE  /\ <<q>> \o Doubled(c, q) \o <<q>> \in Seq(Symbols)
         /\ <<"[">> \o c \o <<"]">> \in Seq(Symbols)
         /\ <<"--">> \o c \o <<"nl">> \in Seq(Symbols)
         /\ tag \in Seq(Symbols) /\ tag \o c \o tag \in Seq(Symbols)
  <1>1. tag \in Seq(Symbols)
    <2>1. "w" \in Symbols /\ "$" \in Symbols
      BY DEF Symbols
    <2>2. <<"$", "$">> \in Seq(Symbols) /\ <<"$", "w", "$">> \in Seq(Symbols)
      BY <2>1, SymbolLists
    <2> QED
      BY <2>2 DEF Tags
  <1>2. "[" \in Symbols /\ "]" \in Symbols /\ "--" \in Symbols /\ "nl" \in Symbols
    BY DEF Symbols
  <1>3. Doubled(c, q) \in Seq(Symbols)
    BY DoubledType
  <1>4. \A a, b \in Symbols : \A x \in Seq(Symbols) : <<a>> \o x \o <<b>> \in Seq(Symbols)
    OBVIOUS
  <1>5. tag \o c \o tag \in Seq(Symbols)
    BY <1>1
  <1> QED
    BY <1>1, <1>2, <1>3, <1>4, <1>5

LEMMA WordTyped == ASSUME ScanTyped, WriteWord PROVE ScanTyped'
  <1>1. Writing(0) /\ Add(<<"w">>) /\ depth' = depth /\ odd' = odd
    BY Zenon DEF WriteWord
  <1>2. <<"w">> \in Seq(Symbols)
    BY DEF Symbols
  <1> QED
    BY <1>1, <1>2, UnchangedDepth, UnchangedOdd, AddingTyped

LEMMA QuotedTyped ==
  ASSUME ScanTyped, NEW q \in {"sq", "dq", "bq"}, NEW c \in Contents, WriteQuoted(q, c)
  PROVE  ScanTyped'
  <1> DEFINE x == <<q>> \o Doubled(c, q) \o <<q>>
  <1>1. Writing(1) /\ Add(x) /\ depth' = depth /\ \E b : Follows(b, "quoted")
    BY Zenon DEF WriteQuoted
  <1>2. x \in Seq(Symbols)
    <2>1. c \in Seq(Symbols) /\ q \in Symbols /\ <<"$", "$">> \in Tags
      BY ContentType DEF Symbols, Tags
    <2> QED
      BY <2>1, ConstructTypes
  <1>3. odd' \subseteq Kinds
    BY <1>1, FollowsTyped DEF Kinds
  <1> HIDE DEF x
  <1> QED
    BY <1>1, <1>2, <1>3, UnchangedDepth, AddingTyped

LEMMA EscapedTyped == ASSUME ScanTyped, WriteEscaped PROVE ScanTyped'
  <1>1. Writing(1) /\ Add(<<"sq", "w", "\\", "sq", "sq">>) /\ depth' = depth /\ \E b : Follows(b, "escaped")
    BY Zenon DEF WriteEscaped
  <1>2. <<"sq", "w", "\\", "sq", "sq">> \in Seq(Symbols)
    <2>1. "sq" \in Symbols /\ "w" \in Symbols /\ "\\" \in Symbols
      BY DEF Symbols
    <2> QED
      BY <2>1, SymbolLists
  <1>3. odd' \subseteq Kinds
    BY <1>1, FollowsTyped DEF Kinds
  <1> QED
    BY <1>1, <1>2, <1>3, UnchangedDepth, AddingTyped

LEMMA BracketedTyped ==
  ASSUME ScanTyped, NEW c \in Contents, WriteBracketed(c)
  PROVE  ScanTyped'
  <1> DEFINE x == <<"[">> \o c \o <<"]">>
  <1>1. Writing(1) /\ Add(x) /\ depth' = depth /\ \E b : Follows(b, "bracketed")
    BY Zenon DEF WriteBracketed
  <1>2. x \in Seq(Symbols)
    <2>1. c \in Seq(Symbols) /\ "sq" \in Symbols /\ <<"$", "$">> \in Tags
      BY ContentType DEF Symbols, Tags
    <2> QED
      BY <2>1, ConstructTypes
  <1>3. odd' \subseteq Kinds
    BY <1>1, FollowsTyped DEF Kinds
  <1> HIDE DEF x
  <1> QED
    BY <1>1, <1>2, <1>3, UnchangedDepth, AddingTyped

LEMMA CommentTyped ==
  ASSUME ScanTyped, NEW c \in Contents, WriteComment(c)
  PROVE  ScanTyped'
  <1> DEFINE x == <<"--">> \o c \o <<"nl">>
  <1>1. Writing(1) /\ Add(x) /\ depth' = depth /\ \E b : Follows(b, "comment")
    BY Zenon DEF WriteComment
  <1>2. x \in Seq(Symbols)
    <2>1. c \in Seq(Symbols) /\ "sq" \in Symbols /\ <<"$", "$">> \in Tags
      BY ContentType DEF Symbols, Tags
    <2> QED
      BY <2>1, ConstructTypes
  <1>3. odd' \subseteq Kinds
    BY <1>1, FollowsTyped DEF Kinds
  <1> HIDE DEF x
  <1> QED
    BY <1>1, <1>2, <1>3, UnchangedDepth, AddingTyped

LEMMA DollarQuotedTyped ==
  ASSUME ScanTyped, NEW tag \in Tags, NEW c \in Contents, WriteDollarQuoted(tag, c)
  PROVE  ScanTyped'
  <1> DEFINE x == tag \o c \o tag
  <1>1. Writing(1) /\ Add(x) /\ depth' = depth /\ \E b : Follows(b, "dollar-quoted")
    BY Zenon DEF WriteDollarQuoted
  <1>2. x \in Seq(Symbols)
    <2>1. c \in Seq(Symbols) /\ "sq" \in Symbols
      BY ContentType DEF Symbols
    <2> QED
      BY <2>1, ConstructTypes
  <1>3. odd' \subseteq Kinds
    BY <1>1, FollowsTyped DEF Kinds
  <1> HIDE DEF x
  <1> QED
    BY <1>1, <1>2, <1>3, UnchangedDepth, AddingTyped

LEMMA DollarNameTyped == ASSUME ScanTyped, WriteDollarName PROVE ScanTyped'
  <1>1. Writing(1) /\ Add(<<"w", "$", "w">>) /\ depth' = depth /\ \E b : Follows(b, "name")
    BY Zenon DEF WriteDollarName
  <1>2. <<"w", "$", "w">> \in Seq(Symbols)
    <2>1. "w" \in Symbols /\ "$" \in Symbols
      BY DEF Symbols
    <2> QED
      BY <2>1, SymbolLists
  <1>3. odd' \subseteq Kinds
    BY <1>1, FollowsTyped DEF Kinds
  <1> QED
    BY <1>1, <1>2, <1>3, UnchangedDepth, AddingTyped

LEMMA OpenParenthesisTyped == ASSUME ScanTyped, OpenParenthesis PROVE ScanTyped'
  <1>1. Writing(0) /\ depth' = depth + 1 /\ odd' = odd
    BY Zenon DEF OpenParenthesis
  <1>2. \/ Add(<<"(">>)
        \/ text' = Append(text, "(") /\ meant' = Append(meant, <<>>)
    BY Zenon DEF OpenParenthesis
  <1>3. "(" \in Symbols /\ <<"(">> \in Seq(Symbols)
    BY DEF Symbols
  <1>4. text' = text \o <<"(">> /\ meant' \in Seq(Seq(Range(text \o <<"(">>)))
    BY <1>2, <1>3, AddTyped, NewPieceTyped
  <1>5. depth' \in {depth, depth + 1, depth - 1} /\ depth' >= 0
    BY <1>1 DEF ScanTyped
  <1> QED
    BY <1>1, <1>3, <1>4, <1>5, UnchangedOdd, WritingTyped

LEMMA CloseParenthesisTyped == ASSUME ScanTyped, CloseParenthesis PROVE ScanTyped'
  <1>1. Writing(0) /\ depth > 0 /\ depth' = depth - 1 /\ odd' = odd
    BY Zenon DEF CloseParenthesis
  <1>2. \/ Add(<<")">>)
        \/ text' = Append(text, ")") /\ meant' = meant
    BY Zenon DEF CloseParenthesis
  <1>3. ")" \in Symbols /\ <<")">> \in Seq(Symbols)
    BY DEF Symbols
  <1>4. text' = text \o <<")">> /\ meant' \in Seq(Seq(Range(text \o <<")">>)))
    BY <1>2, <1>3, AddTyped, NewPieceTyped
  <1>5. depth' \in {depth, depth + 1, depth - 1} /\ depth' >= 0
    BY <1>1 DEF ScanTyped
  <1> QED
    BY <1>1, <1>3, <1>4, <1>5, UnchangedOdd, WritingTyped

LEMMA SeparatorTyped == ASSUME ScanTyped, WriteSeparator PROVE ScanTyped'
  <1>1. Writing(0) /\ depth' = depth /\ odd' = odd
    BY Zenon DEF WriteSeparator
  <1>2. "comma" \in Symbols /\ Separator \in Symbols /\ <<Separator>> \in Seq(Symbols)
    BY DEF Symbols, Separator
  <1>3. PICK y \in Symbols :
          \/ Add(<<y>>)
          \/ text' = Append(text, y) /\ (meant' = Append(meant, <<>>) \/ meant' = meant)
    BY <1>2 DEF WriteSeparator
  <1>4. <<y>> \in Seq(Symbols)
    OBVIOUS
  <1>5. text' = text \o <<y>> /\ meant' \in Seq(Seq(Range(text \o <<y>>)))
    BY <1>3, <1>4, AddTyped, NewPieceTyped
  <1> QED
    BY <1>1, <1>4, <1>5, UnchangedDepth, UnchangedOdd, WritingTyped

\* What ends a piece without a separator.
LEMMA FinishingTyped ==
  ASSUME ScanTyped, NEW n \in {0, 1}, Writing(n), NEW x \in Seq(Symbols), NEW p \in Seq(Symbols),
         NEW a \in Seq(Symbols), Range(p) \cup Range(a) \subseteq Range(x), Finished(x, p, a),
         odd' \subseteq Kinds
  PROVE  ScanTyped'
  <1>1. text' = text \o x /\ meant' \in Seq(Seq(Range(text \o x))) /\ depth' = depth
    BY FinishedTyped
  <1> QED
    BY <1>1, UnchangedDepth, WritingTyped

\* The symbols of a text between two others are symbols of the whole.
LEMMA RangeOfMiddle ==
  ASSUME NEW a \in Seq(Symbols), NEW c \in Seq(Symbols), NEW e \in Seq(Symbols)
  PROVE  a \o c \o e \in Seq(Symbols) /\ Range(a \o c \o e) = Range(a) \cup Range(c) \cup Range(e)
  <1>1. a \o c \in Seq(Symbols) /\ Range(a \o c) = Range(a) \cup Range(c)
    BY RangeConcatenation
  <1> DEFINE b == a \o c
  <1> HIDE DEF b
  <1>2. b \in Seq(Symbols) /\ Range(b) = Range(a) \cup Range(c)
    BY <1>1 DEF b
  <1>3. b \o e \in Seq(Symbols) /\ Range(b \o e) = Range(b) \cup Range(e)
    BY <1>2, RangeConcatenation
  <1> QED
    BY <1>2, <1>3 DEF b

LEMMA CopyTyped ==
  ASSUME ScanTyped, NEW c \in Contents, WriteCopy(c)
  PROVE  ScanTyped'
  <1> DEFINE h == <<"COPY", "w", "semi", "nl">>
             e == <<"nl", "\\.">>
             copy == h \o c \o e
             n == <<"nl">>
             x == copy \o n
  <1>1. Writing(1) /\ Finished(x, copy, n) /\ \E b : Follows(b, "copy")
    BY Zenon DEF WriteCopy
  <1>2. h \in Seq(Symbols) /\ e \in Seq(Symbols) /\ n \in Seq(Symbols) /\ c \in Seq(Symbols)
    <2>1. "COPY" \in Symbols /\ "w" \in Symbols /\ "semi" \in Symbols /\ "nl" \in Symbols /\ "\\." \in Symbols
      BY DEF Symbols
    <2> QED
      BY <2>1, SymbolLists, ContentType
  <1>3. odd' \subseteq Kinds
    BY <1>1, FollowsTyped DEF Kinds
  <1>4. copy \in Seq(Symbols)
    <2> HIDE DEF h, e
    <2> QED
      BY <1>2, RangeOfMiddle
  <1> HIDE DEF copy, n
  <1>5. x \in Seq(Symbols) /\ Range(x) = Range(copy) \cup Range(n)
    BY <1>2, <1>4, RangeConcatenation
  <1> HIDE DEF x
  <1> QED
    BY <1>1, <1>2, <1>3, <1>4, <1>5, FinishingTyped

LEMMA BatchTyped == ASSUME ScanTyped, WriteBatch PROVE ScanTyped'
  <1> DEFINE x == <<"nl", "GO", "nl">>
             n == <<"nl">>
  <1>1. Writing(0) /\ Finished(x, n, n) /\ odd' = odd
    BY Zenon DEF WriteBatch
  <1>2. x \in Seq(Symbols) /\ n \in Seq(Symbols)
    <2>1. "nl" \in Symbols /\ "GO" \in Symbols
      BY DEF Symbols
    <2> QED
      BY <2>1, SymbolLists
  <1>3. Range(n) \subseteq Range(x)
    <2>1. DOMAIN n = {1} /\ n[1] = "nl" /\ 1 \in DOMAIN x /\ x[1] = "nl"
      OBVIOUS
    <2> HIDE DEF x, n
    <2> QED
      BY <2>1 DEF Range
  <1> HIDE DEF x, n
  <1> QED
    BY <1>1, <1>2, <1>3, UnchangedOdd, FinishingTyped

LEMMA RoutineTyped ==
  ASSUME ScanTyped, NEW c \in Contents, WriteRoutine(c)
  PROVE  ScanTyped'
  <1> DEFINE h == <<"nl", "DELIMITER//", "nl">>
             e == <<"//", "nl", "DELIMITERsemi", "nl">>
             n == <<"nl">>
             x == h \o c \o e
             p == n \o c
  <1>1. Writing(1) /\ Finished(x, p, n) /\ odd' = odd
    BY Zenon DEF WriteRoutine
  <1>2. h \in Seq(Symbols) /\ e \in Seq(Symbols) /\ n \in Seq(Symbols) /\ c \in Seq(Symbols)
    <2>1. /\ "nl" \in Symbols /\ "DELIMITER//" \in Symbols /\ "//" \in Symbols
          /\ "DELIMITERsemi" \in Symbols
      BY DEF Symbols
    <2> QED
      BY <2>1, SymbolLists, ContentType
  <1>3. Range(n) \subseteq Range(h)
    <2>1. DOMAIN n = {1} /\ n[1] = "nl" /\ 1 \in DOMAIN h /\ h[1] = "nl"
      OBVIOUS
    <2> HIDE DEF h, n
    <2> QED
      BY <2>1 DEF Range
  <1> HIDE DEF h, e, n
  <1>4. x \in Seq(Symbols) /\ Range(x) = Range(h) \cup Range(c) \cup Range(e)
    BY <1>2, RangeOfMiddle
  <1>5. p \in Seq(Symbols) /\ Range(p) = Range(n) \cup Range(c)
    BY <1>2, RangeConcatenation
  <1> HIDE DEF x, p
  <1>6. Range(p) \cup Range(n) \subseteq Range(x)
    BY <1>3, <1>4, <1>5
  <1> QED
    BY <1>1, <1>2, <1>4, <1>5, <1>6, UnchangedOdd, FinishingTyped

LEMMA EndTyped == ASSUME ScanTyped, EndOfText PROVE ScanTyped'
  <1>1. /\ ended' = TRUE /\ pieces' = Split(text)
        /\ reader' = reader /\ text' = text /\ meant' = meant /\ depth' = depth /\ odd' = odd
        /\ count' = count /\ filled' = filled
    BY Zenon DEF EndOfText
  <1>2. Split(text)' = Split(text)
    BY <1>1 DEF Split
  <1>3. Task' = Task
    BY <1>1 DEF Task
  <1>4. pieces' = IF ended' THEN Split(text)' ELSE <<>>
    BY <1>1, <1>2
  <1> QED
    BY <1>1, <1>3, <1>4, Zenon DEF ScanTyped

LEMMA ScanInitTyped == ScanInit => ScanTyped
  <1> SUFFICES ASSUME ScanInit PROVE ScanTyped
    OBVIOUS
  <1>1. /\ reader \in Readers /\ text = <<>> /\ meant \in {<<>>, << <<>> >>} /\ depth = 0 /\ odd = {}
        /\ count = 0 /\ filled = 0 /\ pieces = <<>> /\ ended = FALSE
    BY DEF ScanInit
  <1>2. MaxConstructs[Task] \in Nat /\ MaxFilled[Task] \in Nat
    <2>1. Task \in Tasks
      BY <1>1, ScanConstantsOK DEF Task
    <2> QED
      BY <2>1, ScanConstantsOK
  <1>3. meant \in Seq(Seq(Range(text)))
    <2> DEFINE B == Range(text)
    <2> HIDE DEF B
    <2>1. <<>> \in Seq(B)
      OBVIOUS
    <2>2. <<>> \in Seq(Seq(B)) /\ << <<>> >> \in Seq(Seq(B))
      BY <2>1
    <2> QED
      BY <1>1, <2>2 DEF B
  <1>4. text \in Seq(Symbols) /\ odd \subseteq Kinds /\ ended \in BOOLEAN
    <2>1. <<>> \in Seq(Symbols)
      BY EmptySeq
    <2> QED
      BY <1>1, <2>1
  <1>5. depth \in 0 .. count /\ count \in 0 .. MaxConstructs[Task] /\ filled \in 0 .. MaxFilled[Task]
    BY <1>1, <1>2
  <1>6. pieces = IF ended THEN Split(text) ELSE <<>>
    BY <1>1
  <1> QED
    BY <1>1, <1>3, <1>4, <1>5, <1>6, Zenon DEF ScanTyped

LEMMA ScanStepTyped == ScanTyped /\ [ScanNext]_scanVars => ScanTyped'
  <1> SUFFICES ASSUME ScanTyped, [ScanNext]_scanVars PROVE ScanTyped'
    OBVIOUS
  <1>1. CASE WriteWord
    BY <1>1, WordTyped
  <1>2. CASE WriteEscaped
    BY <1>2, EscapedTyped
  <1>3. CASE WriteDollarName
    BY <1>3, DollarNameTyped
  <1>4. ASSUME NEW c \in Contents, NEW q \in {"sq", "dq", "bq"}, WriteQuoted(q, c) PROVE ScanTyped'
    BY <1>4, QuotedTyped
  <1>5. ASSUME NEW c \in Contents, WriteBracketed(c) PROVE ScanTyped'
    BY <1>5, BracketedTyped
  <1>6. ASSUME NEW c \in Contents, WriteComment(c) PROVE ScanTyped'
    BY <1>6, CommentTyped
  <1>7. ASSUME NEW c \in Contents, WriteCopy(c) PROVE ScanTyped'
    BY <1>7, CopyTyped
  <1>8. ASSUME NEW c \in Contents, WriteRoutine(c) PROVE ScanTyped'
    BY <1>8, RoutineTyped
  <1>9. ASSUME NEW c \in Contents, NEW tag \in Tags, WriteDollarQuoted(tag, c) PROVE ScanTyped'
    BY <1>9, DollarQuotedTyped
  <1>10. CASE OpenParenthesis
    BY <1>10, OpenParenthesisTyped
  <1>11. CASE CloseParenthesis
    BY <1>11, CloseParenthesisTyped
  <1>12. CASE WriteSeparator
    BY <1>12, SeparatorTyped
  <1>13. CASE WriteBatch
    BY <1>13, BatchTyped
  <1>14. CASE EndOfText
    BY <1>14, EndTyped
  <1>15. CASE UNCHANGED scanVars
    BY <1>15 DEF ScanTyped, scanVars, Task, Split
  <1> QED
    BY <1>1, <1>2, <1>3, <1>4, <1>5, <1>6, <1>7, <1>8, <1>9, <1>10, <1>11, <1>12, <1>13, <1>14, <1>15,
       Zenon DEF ScanNext

LEMMA AlwaysScanTyped == ScanSpec => []ScanTyped
  <1>1. ScanInit => ScanTyped
    BY ScanInitTyped
  <1>2. ScanTyped /\ [ScanNext]_scanVars => ScanTyped'
    BY ScanStepTyped
  <1> QED
    BY <1>1, <1>2, PTL DEF ScanSpec

LEMMA TypedIsTypeOK == ScanTyped => ScanTypeOK
  <1> SUFFICES ASSUME ScanTyped PROVE ScanTypeOK
    OBVIOUS
  <1>1. text \in Seq(Symbols) /\ meant \in Seq(Seq(Range(text))) /\ reader \in Readers
        /\ pieces = IF ended THEN Split(text) ELSE <<>>
    BY Zenon DEF ScanTyped
  <1>2. \A k \in DOMAIN meant : meant[k] \in Seq(Range(text))
    <2> DEFINE B == Range(text)
    <2> HIDE DEF B
    <2>1. meant \in Seq(Seq(B))
      BY <1>1 DEF B
    <2>2. \A k \in DOMAIN meant : meant[k] \in Seq(B)
      BY <2>1
    <2> QED
      BY <2>2 DEF B
  <1>3. \A k \in DOMAIN pieces : pieces[k] \in Seq(Range(text) \cup {"semi"})
    <2> DEFINE B == Range(text)
               Q == Seq(B \cup {"semi"})
    <2>1. text \in Seq(B)
      BY <1>1, SeqOfRange
    <2>2. reader \in Families \X Tasks
      BY <1>1, ScanConstantsOK
    <2>3. Split(text) \in Seq(Q)
      <3> HIDE DEF B
      <3> QED
        BY <2>1, <2>2, SplitType
    <2> HIDE DEF Q
    <2>4. <<>> \in Seq(Q)
      OBVIOUS
    <2>5. pieces \in Seq(Q)
      BY <1>1, <2>3, <2>4, Zenon
    <2>6. \A k \in DOMAIN pieces : pieces[k] \in Q
      BY <2>5
    <2> QED
      BY <2>6, Zenon DEF Q
  <1> QED
    BY <1>2, <1>3, Zenon DEF ScanTyped, ScanTypeOK, Kinds

\* However an author puts constructs together, the scanners read within the text
\* and hand on pieces of its symbols (splitDumpStatements, genericStatements,
\* genericSplitByte, splitTopLevel, splitValueGroups, genericGroups).
THEOREM ScannerTypeCorrect == ScanSpec => []ScanTypeOK
  BY AlwaysScanTyped, TypedIsTypeOK, PTL

LEMMA TypedLosesNothing == ScanTyped => NothingLost
  <1> SUFFICES ASSUME ScanTyped, ended PROVE NothingLost
    BY DEF NothingLost
  <1> DEFINE gs == <<"generic", "script">>
  <1>1. text \in Seq(Symbols) /\ reader \in Readers /\ pieces = Split(text)
    BY Zenon DEF ScanTyped
  <1>2. reader \in Families \X Tasks
    BY <1>1, ScanConstantsOK
  <1>3. CASE reader = gs
    <2> DEFINE S == Symbols \ {"semi", "GO", "//", "NUL"}
    <2>1. S \cap Ends = {}
      BY DEF Ends
    <2>2. pieces = SplitScript(text)
      BY <1>1, <1>3 DEF Split
    <2> HIDE DEF S
    <2>3. Keep(FlattenSeq(pieces), S) = Keep(OtherLines(text), S)
      BY <1>1, <2>1, <2>2, SplitScriptWhole
    <2> QED
      BY <1>3, <2>3, Zenon DEF NothingLost, Without, S
  <1>4. CASE reader # gs /\ Task # "values"
    <2> DEFINE S == Symbols \ {Separator}
    <2>1. SeparatorOf(reader) = Separator
      BY Zenon DEF SeparatorOf, Separator, Task
    <2>2. SeparatorOf(reader) \notin S
      BY <2>1
    <2>3. reader # <<"postgres", "values">> /\ reader # <<"generic", "values">>
      BY <1>4 DEF Task
    <2>4. pieces = Parts(reader, text)
      BY <1>1, <1>4, <2>3 DEF Split
    <2> HIDE DEF S
    <2>5. Keep(FlattenSeq(pieces), S) = Keep(text, S)
      BY <1>1, <1>2, <2>2, <2>3, <2>4, PartsWhole
    <2> QED
      BY <1>4, <2>5, Zenon DEF NothingLost, Without, S
  <1>5. CASE reader # gs /\ Task = "values"
    BY <1>5 DEF NothingLost
  <1> QED
    BY <1>3, <1>4, <1>5

\* Whatever the text, well formed or not: the statements of a script, and the parts
\* of a list, put one after another are the text without separators (and DELIMITER
\* lines), so that the scanners drop, repeat and move nothing.
THEOREM NothingEverLost == ScanSpec => []NothingLost
  BY AlwaysScanTyped, TypedLosesNothing, PTL

-----------------------------------------------------------------------------
(* How a scanner goes through a construct. *)

Scanners == Families \X Tasks

\* What opens a quoted text, and what a scanner acts upon outside of one.
Opening(scanner) ==
  IF scanner = <<"postgres", "values">> THEN {} ELSE QuotesOf(scanner[1], scanner[2])

ActsUpon(scanner) ==
  IF scanner = <<"postgres", "script">> THEN {"sq", "dq", "$", "semi"}
  ELSE IF scanner = <<"generic", "script">> THEN {"sq", "dq", "bq", "semi"}
  ELSE IF scanner = <<"postgres", "values">> THEN {"(", ")"}
  ELSE QuotesOf(scanner[1], "list") \cup {"(", ")", "comma"}

LEMMA OpeningParts ==
  ASSUME NEW scanner \in Scanners
  PROVE  /\ Opening(scanner) \subseteq ActsUpon(scanner) /\ ActsUpon(scanner) \subseteq Symbols
         /\ "none" \notin Opening(scanner)
  BY DEF Scanners, Opening, ActsUpon, QuotesOf, Families, Tasks, Symbols

\* Every scanner is one of four.
LEMMA FourScanners ==
  ASSUME NEW scanner \in Scanners
  PROVE  \/ scanner = <<"postgres", "script">>
         \/ scanner = <<"generic", "script">>
         \/ scanner = <<"postgres", "values">>
         \/ /\ scanner # <<"postgres", "script">> /\ scanner # <<"generic", "script">>
            /\ scanner # <<"postgres", "values">> /\ scanner[2] # "script"
            /\ QuotesOf(scanner[1], scanner[2]) = QuotesOf(scanner[1], "list")
            /\ ActsUpon(scanner) = QuotesOf(scanner[1], "list") \cup {"(", ")", "comma"}
            /\ \A t, s, i : Step(scanner, t, s, i) = ListStep(scanner[1], t, s, i)
  <1>1. scanner[1] \in Families /\ scanner[2] \in Tasks /\ scanner = <<scanner[1], scanner[2]>>
    BY DEF Scanners
  <1> SUFFICES ASSUME scanner # <<"postgres", "script">>, scanner # <<"generic", "script">>,
                      scanner # <<"postgres", "values">>
               PROVE  /\ scanner[2] # "script"
                      /\ QuotesOf(scanner[1], scanner[2]) = QuotesOf(scanner[1], "list")
                      /\ ActsUpon(scanner) = QuotesOf(scanner[1], "list") \cup {"(", ")", "comma"}
                      /\ \A t, s, i : Step(scanner, t, s, i) = ListStep(scanner[1], t, s, i)
    OBVIOUS
  <1>2. scanner[2] # "script"
    BY <1>1 DEF Families, Tasks
  <1>3. QuotesOf(scanner[1], scanner[2]) = QuotesOf(scanner[1], "list")
    BY <1>2 DEF QuotesOf
  <1>4. ActsUpon(scanner) = QuotesOf(scanner[1], "list") \cup {"(", ")", "comma"}
    BY Zenon DEF ActsUpon
  <1>5. \A t, s, i : Step(scanner, t, s, i) = ListStep(scanner[1], t, s, i)
    BY Zenon DEF Step
  <1> QED
    BY <1>2, <1>3, <1>4, <1>5

\* Three steps that all scanners have in common.
LEMMA StepInert ==
  ASSUME NEW scanner \in Scanners, NEW t, NEW s, NEW i, s.quote = "none", s.dollar = <<>>,
         t[i] \notin ActsUpon(scanner)
  PROVE  Step(scanner, t, s, i) = s
  <1>1. CASE scanner = <<"postgres", "script">>
    <2>1. t[i] \notin QuotesOf("postgres", "script") /\ t[i] # "$" /\ t[i] # "semi"
      BY <1>1 DEF ActsUpon, QuotesOf
    <2>2. Step(scanner, t, s, i) = DumpStep(t, s, i)
      BY <1>1, Zenon DEF Step
    <2> QED
      BY <2>1, <2>2, Zenon DEF DumpStep
  <1>2. CASE scanner = <<"generic", "script">>
    <2>1. scanner # <<"postgres", "script">>
      BY <1>2
    <2>2. t[i] \notin QuotesOf("generic", "script") /\ t[i] # "semi"
      BY <1>2, <2>1 DEF ActsUpon, QuotesOf
    <2>3. Step(scanner, t, s, i) = StatementStep(t, s, i)
      BY <1>2, <2>1, Zenon DEF Step
    <2> QED
      BY <2>2, <2>3, Zenon DEF StatementStep
  <1>3. CASE scanner = <<"postgres", "values">>
    <2>1. scanner # <<"postgres", "script">> /\ scanner # <<"generic", "script">>
      BY <1>3
    <2>2. t[i] # "(" /\ t[i] # ")"
      BY <1>3, <2>1 DEF ActsUpon
    <2>3. Step(scanner, t, s, i) = GroupStep(t, s, i)
      BY <1>3, <2>1, Zenon DEF Step
    <2> QED
      BY <2>2, <2>3, Zenon DEF GroupStep
  <1>4. CASE /\ ActsUpon(scanner) = QuotesOf(scanner[1], "list") \cup {"(", ")", "comma"}
             /\ Step(scanner, t, s, i) = ListStep(scanner[1], t, s, i)
    <2>1. t[i] \notin QuotesOf(scanner[1], "list") /\ t[i] # "(" /\ t[i] # ")" /\ t[i] # "comma"
      BY <1>4
    <2> QED
      BY <1>4, <2>1, Zenon DEF ListStep
  <1> QED
    BY <1>1, <1>2, <1>3, <1>4, FourScanners

LEMMA StepOpens ==
  ASSUME NEW scanner \in Scanners, NEW t, NEW s, NEW i, s.quote = "none", s.dollar = <<>>,
         t[i] \in Opening(scanner)
  PROVE  Step(scanner, t, s, i) = [s EXCEPT !.quote = t[i]]
  <1>1. CASE scanner = <<"postgres", "script">>
    <2>1. t[i] \in QuotesOf("postgres", "script")
      BY <1>1 DEF Opening
    <2>2. Step(scanner, t, s, i) = DumpStep(t, s, i)
      BY <1>1, Zenon DEF Step
    <2> QED
      BY <2>1, <2>2, Zenon DEF DumpStep
  <1>2. CASE scanner = <<"generic", "script">>
    <2>1. scanner # <<"postgres", "script">>
      BY <1>2
    <2>2. t[i] \in QuotesOf("generic", "script")
      BY <1>2 DEF Opening
    <2>3. Step(scanner, t, s, i) = StatementStep(t, s, i)
      BY <1>2, <2>1, Zenon DEF Step
    <2> QED
      BY <2>2, <2>3, Zenon DEF StatementStep
  <1>3. CASE scanner = <<"postgres", "values">>
    BY <1>3 DEF Opening
  <1>4. CASE /\ scanner # <<"postgres", "values">>
             /\ QuotesOf(scanner[1], scanner[2]) = QuotesOf(scanner[1], "list")
             /\ Step(scanner, t, s, i) = ListStep(scanner[1], t, s, i)
    <2>1. t[i] \in QuotesOf(scanner[1], "list")
      BY <1>4 DEF Opening
    <2> QED
      BY <1>4, <2>1, Zenon DEF ListStep
  <1> QED
    BY <1>1, <1>2, <1>3, <1>4, FourScanners

LEMMA StepWithin ==
  ASSUME NEW scanner \in Scanners, scanner # <<"postgres", "values">>, NEW t, NEW s, NEW i,
         s.quote # "none", s.dollar = <<>>
  PROVE  Step(scanner, t, s, i) = InQuote(t, s, i)
  <1>1. CASE scanner = <<"postgres", "script">>
    BY <1>1, Zenon DEF Step, DumpStep
  <1>2. CASE scanner = <<"generic", "script">>
    <2>1. scanner # <<"postgres", "script">>
      BY <1>2
    <2> QED
      BY <1>2, <2>1, Zenon DEF Step, StatementStep
  <1>3. CASE Step(scanner, t, s, i) = ListStep(scanner[1], t, s, i)
    BY <1>3, Zenon DEF ListStep
  <1> QED
    BY <1>1, <1>2, <1>3, FourScanners

-----------------------------------------------------------------------------

\* n symbols of t are read: q is open ("none" when nothing is), within d
\* parentheses, the open piece began at start, and what comes before it is cut.  A
\* text in quotes that has just ended may seem to go on, when the next begins with
\* the same quote.
Stands(scanner, t, n, q, d, start, cut) ==
  LET s == Scans(scanner, t)[n]
  IN /\ s.out = cut /\ s.start = start /\ s.depth = d /\ s.dollar = <<>>
     /\ \/ s.quote = q /\ s.next <= n + 1
        \/ /\ q = "none" /\ n < Len(t) /\ s.next = n + 2
           /\ s.quote = t[n + 1] /\ t[n + 1] \in Opening(scanner)

\* After n symbols of t comes k.
Has(t, n, k) == n + Len(k) <= Len(t) /\ \A i \in 1 .. Len(k) : t[n + i] = k[i]

\* Over k a scanner comes from within p to within q, and to no new piece.
Goes(scanner, k, p, q) ==
  \A t \in Seq(Symbols) : \A n \in Nat : \A d, start, cut :
    Has(t, n, k) /\ Stands(scanner, t, n, p, d, start, cut) => Stands(scanner, t, n + Len(k), q, d, start, cut)

\* One step of the scan.
LEMMA ScanStep ==
  ASSUME NEW scanner \in Scanners, NEW t \in Seq(Symbols), NEW n \in Nat, n < Len(t)
  PROVE  LET s == Scans(scanner, t)[n]
             u == Scans(scanner, t)[n + 1]
         IN  /\ s \in Places0(t, Symbols) /\ s.next \in Nat /\ n + 1 \in 1 .. Len(t)
             /\ n + 1 < s.next => u = s
             /\ s.next <= n + 1 => u = Step(scanner, t, s, n + 1)
  <1> DEFINE f == Scans(scanner, t)
             i == n + 1
  <1>1. Len(t) \in Nat /\ n \in 0 .. Len(t) /\ i \in 1 .. Len(t) /\ i - 1 = n
    OBVIOUS
  <1>2. f[i] = IF i < f[i - 1].next THEN f[i - 1] ELSE Step(scanner, t, f[i - 1], i)
    BY <1>1, ScansParts
  <1>3. Placed(t, Symbols, f[n], n)
    BY <1>1, ScansPlaced DEF Scanners
  <1> HIDE DEF f, i
  <1>4. f[n] \in Places0(t, Symbols)
    BY <1>3, Zenon DEF Placed
  <1>5. f[n].next \in Nat
    BY <1>1, <1>4 DEF Places0
  <1>6. f[i] = IF i < f[n].next THEN f[n] ELSE Step(scanner, t, f[n], i)
    BY <1>1, <1>2, Zenon
  <1>7. i < f[n].next => f[i] = f[n]
    BY <1>6
  <1>8. f[n].next <= i => f[i] = Step(scanner, t, f[n], i)
    <2>1. f[n].next <= i => ~(i < f[n].next)
      BY <1>1, <1>5
    <2> QED
      BY <1>6, <2>1
  <1> QED
    BY <1>1, <1>4, <1>5, <1>7, <1>8, Zenon DEF f, i

LEMMA GoesInert ==
  ASSUME NEW scanner \in Scanners, NEW x \in Symbols \ ActsUpon(scanner)
  PROVE  Goes(scanner, <<x>>, "none", "none")
  <1> SUFFICES ASSUME NEW t \in Seq(Symbols), NEW n \in Nat, NEW d, NEW start, NEW cut,
                      Has(t, n, <<x>>), Stands(scanner, t, n, "none", d, start, cut)
               PROVE  Stands(scanner, t, n + Len(<<x>>), "none", d, start, cut)
    BY Zenon DEF Goes
  <1> DEFINE s == Scans(scanner, t)[n]
             u == Scans(scanner, t)[n + 1]
  <1>1. n < Len(t) /\ t[n + 1] = x /\ Len(<<x>>) = 1
    BY DEF Has
  <1>2. x \notin Opening(scanner)
    BY OpeningParts
  <1>3. /\ s.out = cut /\ s.start = start /\ s.depth = d /\ s.dollar = <<>>
        /\ s.quote = "none" /\ s.next <= n + 1
    BY <1>1, <1>2, Zenon DEF Stands
  <1>4. s.next \in Nat /\ (s.next <= n + 1 => u = Step(scanner, t, s, n + 1))
    BY <1>1, ScanStep
  <1> HIDE DEF s, u
  <1>5. Step(scanner, t, s, n + 1) = s
    BY <1>1, <1>3, StepInert
  <1>6. u = s /\ s.next <= (n + 1) + 1
    BY <1>3, <1>4, <1>5
  <1> QED
    BY <1>1, <1>3, <1>6, Zenon DEF Stands, s, u

LEMMA GoesOpens ==
  ASSUME NEW scanner \in Scanners, NEW q \in Opening(scanner)
  PROVE  Goes(scanner, <<q>>, "none", q)
  <1> SUFFICES ASSUME NEW t \in Seq(Symbols), NEW n \in Nat, NEW d, NEW start, NEW cut,
                      Has(t, n, <<q>>), Stands(scanner, t, n, "none", d, start, cut)
               PROVE  Stands(scanner, t, n + Len(<<q>>), q, d, start, cut)
    BY Zenon DEF Goes
  <1> DEFINE s == Scans(scanner, t)[n]
             u == Scans(scanner, t)[n + 1]
  <1>1. n < Len(t) /\ t[n + 1] = q /\ Len(<<q>>) = 1
    BY DEF Has
  <1>2. /\ s.out = cut /\ s.start = start /\ s.depth = d /\ s.dollar = <<>>
        /\ \/ s.quote = "none" /\ s.next <= n + 1
           \/ s.next = n + 2 /\ s.quote = q
    BY <1>1, Zenon DEF Stands
  <1>3. /\ s \in Places0(t, Symbols) /\ s.next \in Nat
        /\ n + 1 < s.next => u = s
        /\ s.next <= n + 1 => u = Step(scanner, t, s, n + 1)
    BY <1>1, ScanStep
  <1> HIDE DEF s, u
  <1>4. u.out = cut /\ u.start = start /\ u.depth = d /\ u.dollar = <<>> /\ u.quote = q /\ u.next <= (n + 1) + 1
    <2>1. CASE s.quote = "none" /\ s.next <= n + 1
      <3>1. u = [s EXCEPT !.quote = q]
        BY <1>1, <1>2, <1>3, <2>1, StepOpens
      <3>2. u.out = s.out /\ u.start = s.start /\ u.depth = s.depth /\ u.dollar = s.dollar /\ u.quote = q
            /\ u.next = s.next
        BY <1>3, <3>1 DEF Places0
      <3>3. s.next <= (n + 1) + 1
        BY <1>3, <2>1
      <3> QED
        BY <1>2, <3>2, <3>3
    <2>2. CASE s.next = n + 2 /\ s.quote = q
      <3>1. n + 1 < s.next /\ s.next <= (n + 1) + 1
        BY <2>2
      <3> QED
        BY <1>2, <1>3, <2>2, <3>1
    <2> QED
      BY <1>2, <2>1, <2>2
  <1> QED
    BY <1>1, <1>4, Zenon DEF Stands, u

LEMMA GoesWithin ==
  ASSUME NEW scanner \in Scanners, NEW q \in Opening(scanner), NEW x, x # q
  PROVE  Goes(scanner, <<x>>, q, q)
  <1> SUFFICES ASSUME NEW t \in Seq(Symbols), NEW n \in Nat, NEW d, NEW start, NEW cut,
                      Has(t, n, <<x>>), Stands(scanner, t, n, q, d, start, cut)
               PROVE  Stands(scanner, t, n + Len(<<x>>), q, d, start, cut)
    BY Zenon DEF Goes
  <1> DEFINE s == Scans(scanner, t)[n]
             u == Scans(scanner, t)[n + 1]
  <1>1. n < Len(t) /\ t[n + 1] = x /\ Len(<<x>>) = 1
    BY DEF Has
  <1>2. q # "none" /\ scanner # <<"postgres", "values">>
    BY OpeningParts DEF Opening
  <1>3. /\ s.out = cut /\ s.start = start /\ s.depth = d /\ s.dollar = <<>>
        /\ s.quote = q /\ s.next <= n + 1
    BY <1>2, Zenon DEF Stands
  <1>4. s.next \in Nat /\ (s.next <= n + 1 => u = Step(scanner, t, s, n + 1))
    BY <1>1, ScanStep
  <1> HIDE DEF s, u
  <1>5. Step(scanner, t, s, n + 1) = InQuote(t, s, n + 1)
    BY <1>2, <1>3, StepWithin
  <1>6. InQuote(t, s, n + 1) = s
    BY <1>1, <1>3, Zenon DEF InQuote
  <1>7. u = s /\ s.next <= (n + 1) + 1
    BY <1>3, <1>4, <1>5, <1>6
  <1> QED
    BY <1>1, <1>3, <1>7, Zenon DEF Stands, s, u

LEMMA GoesDoubled ==
  ASSUME NEW scanner \in Scanners, NEW q \in Opening(scanner)
  PROVE  Goes(scanner, <<q, q>>, q, q)
  <1> SUFFICES ASSUME NEW t \in Seq(Symbols), NEW n \in Nat, NEW d, NEW start, NEW cut,
                      Has(t, n, <<q, q>>), Stands(scanner, t, n, q, d, start, cut)
               PROVE  Stands(scanner, t, n + Len(<<q, q>>), q, d, start, cut)
    BY Zenon DEF Goes
  <1> DEFINE s == Scans(scanner, t)[n]
             u == Scans(scanner, t)[n + 1]
             v == Scans(scanner, t)[n + 2]
  <1>1. /\ n < Len(t) /\ n + 1 < Len(t) /\ n + 1 \in Nat /\ (n + 1) + 1 = n + 2
        /\ t[n + 1] = q /\ t[(n + 1) + 1] = q /\ Len(<<q, q>>) = 2
    <2>1. Len(<<q, q>>) = 2 /\ n + 2 <= Len(t) /\ t[n + 1] = q /\ t[n + 2] = q
      BY DEF Has
    <2> QED
      BY <2>1
  <1>2. q # "none" /\ scanner # <<"postgres", "values">>
    BY OpeningParts DEF Opening
  <1>3. /\ s.out = cut /\ s.start = start /\ s.depth = d /\ s.dollar = <<>>
        /\ s.quote = q /\ s.next <= n + 1
    BY <1>2, Zenon DEF Stands
  <1>4. s \in Places0(t, Symbols) /\ s.next \in Nat /\ (s.next <= n + 1 => u = Step(scanner, t, s, n + 1))
    BY <1>1, ScanStep
  <1>5. (n + 1) + 1 < u.next => v = u
    BY <1>1, ScanStep
  <1> HIDE DEF s, u, v
  <1>6. Step(scanner, t, s, n + 1) = InQuote(t, s, n + 1)
    BY <1>2, <1>3, StepWithin
  <1>7. InQuote(t, s, n + 1) = [s EXCEPT !.next = (n + 1) + 2]
    BY <1>1, <1>3, Zenon DEF InQuote
  <1>8. u = [s EXCEPT !.next = n + 3]
    <2>1. (n + 1) + 2 = n + 3
      OBVIOUS
    <2> QED
      BY <1>3, <1>4, <1>6, <1>7, <2>1
  <1>9. u.out = cut /\ u.start = start /\ u.depth = d /\ u.dollar = <<>> /\ u.quote = q /\ u.next = n + 3
    BY <1>3, <1>4, <1>8 DEF Places0
  <1>10. v = u /\ u.next <= (n + 2) + 1
    BY <1>5, <1>9
  <1> QED
    BY <1>1, <1>9, <1>10, Zenon DEF Stands, v

LEMMA GoesCloses ==
  ASSUME NEW scanner \in Scanners, NEW q \in Opening(scanner)
  PROVE  Goes(scanner, <<q>>, q, "none")
  <1> SUFFICES ASSUME NEW t \in Seq(Symbols), NEW n \in Nat, NEW d, NEW start, NEW cut,
                      Has(t, n, <<q>>), Stands(scanner, t, n, q, d, start, cut)
               PROVE  Stands(scanner, t, n + Len(<<q>>), "none", d, start, cut)
    BY Zenon DEF Goes
  <1> DEFINE s == Scans(scanner, t)[n]
             u == Scans(scanner, t)[n + 1]
             m == n + 1
  <1>1. n < Len(t) /\ m \in Nat /\ t[m] = q /\ Len(<<q>>) = 1
    BY DEF Has
  <1>2. q # "none" /\ scanner # <<"postgres", "values">>
    BY OpeningParts DEF Opening
  <1>3. /\ s.out = cut /\ s.start = start /\ s.depth = d /\ s.dollar = <<>>
        /\ s.quote = q /\ s.next <= m
    BY <1>2, Zenon DEF Stands
  <1>4. s \in Places0(t, Symbols) /\ s.next \in Nat /\ (s.next <= m => u = Step(scanner, t, s, m))
    BY <1>1, ScanStep
  <1> HIDE DEF s, u, m
  <1>5. u = InQuote(t, s, m)
    BY <1>2, <1>3, <1>4, StepWithin
  <1>6. CASE m < Len(t) /\ t[m + 1] = q
    <2>1. u = [s EXCEPT !.next = m + 2]
      BY <1>1, <1>3, <1>5, <1>6, Zenon DEF InQuote
    <2>2. u.out = cut /\ u.start = start /\ u.depth = d /\ u.dollar = <<>> /\ u.quote = q /\ u.next = m + 2
      BY <1>1, <1>3, <1>4, <2>1 DEF Places0
    <2> QED
      BY <1>1, <1>6, <2>2, Zenon DEF Stands, u, m
  <1>7. CASE ~(m < Len(t) /\ t[m + 1] = q)
    <2>1. u = [s EXCEPT !.quote = "none"]
      BY <1>1, <1>3, <1>5, <1>7, Zenon DEF InQuote
    <2>2. u.out = cut /\ u.start = start /\ u.depth = d /\ u.dollar = <<>> /\ u.quote = "none" /\ u.next = s.next
      BY <1>3, <1>4, <2>1 DEF Places0
    <2>3. u.next <= m + 1
      BY <1>1, <1>3, <1>4, <2>2
    <2> QED
      BY <1>1, <2>2, <2>3, Zenon DEF Stands, u, m
  <1> QED
    BY <1>6, <1>7

\* A text that goes on with two constructs goes on with each.
LEMMA HasConcat ==
  ASSUME NEW t \in Seq(Symbols), NEW n \in Nat, NEW j \in Seq(Symbols), NEW k \in Seq(Symbols),
         Has(t, n, j \o k)
  PROVE  /\ Has(t, n, j) /\ Has(t, n + Len(j), k)
         /\ n + Len(j) \in Nat /\ n + Len(j \o k) = (n + Len(j)) + Len(k)
  <1> DEFINE l == j \o k
  <1>1. Len(j) \in Nat /\ Len(k) \in Nat /\ Len(t) \in Nat
    OBVIOUS
  <1>2. /\ Len(l) = Len(j) + Len(k)
        /\ \A i \in 1 .. Len(j) + Len(k) : l[i] = IF i <= Len(j) THEN j[i] ELSE k[i - Len(j)]
    BY ConcatProperties
  <1>3. n + Len(l) <= Len(t) /\ \A i \in 1 .. Len(l) : t[n + i] = l[i]
    BY Zenon DEF Has
  <1> HIDE DEF l
  <1>4. n + Len(j) <= Len(t) /\ (n + Len(j)) + Len(k) <= Len(t)
    BY <1>1, <1>2, <1>3
  <1>5. ASSUME NEW i \in 1 .. Len(j) PROVE t[n + i] = j[i]
    <2>1. i \in 1 .. Len(j) + Len(k) /\ i <= Len(j)
      BY <1>1
    <2> QED
      BY <1>2, <1>3, <2>1
  <1>6. ASSUME NEW i \in 1 .. Len(k) PROVE t[(n + Len(j)) + i] = k[i]
    <2> DEFINE m == Len(j) + i
    <2>1. m \in 1 .. Len(j) + Len(k) /\ ~(m <= Len(j)) /\ m - Len(j) = i /\ (n + Len(j)) + i = n + m
      BY <1>1
    <2> HIDE DEF m
    <2>2. l[m] = k[i] /\ t[n + m] = l[m]
      BY <1>2, <1>3, <2>1
    <2> QED
      BY <2>1, <2>2
  <1>7. n + Len(j) \in Nat /\ n + Len(l) = (n + Len(j)) + Len(k)
    BY <1>1, <1>2
  <1> QED
    BY <1>4, <1>5, <1>6, <1>7, Zenon DEF Has, l

LEMMA GoesConcat ==
  ASSUME NEW scanner, NEW j \in Seq(Symbols), NEW k \in Seq(Symbols), NEW p, NEW q, NEW r,
         Goes(scanner, j, p, q), Goes(scanner, k, q, r)
  PROVE  Goes(scanner, j \o k, p, r)
  <1> SUFFICES ASSUME NEW t \in Seq(Symbols), NEW n \in Nat, NEW d, NEW start, NEW cut,
                      Has(t, n, j \o k), Stands(scanner, t, n, p, d, start, cut)
               PROVE  Stands(scanner, t, n + Len(j \o k), r, d, start, cut)
    BY Zenon DEF Goes
  <1>1. /\ Has(t, n, j) /\ Has(t, n + Len(j), k)
        /\ n + Len(j) \in Nat /\ n + Len(j \o k) = (n + Len(j)) + Len(k)
    BY HasConcat
  <1>2. Stands(scanner, t, n + Len(j), q, d, start, cut)
    BY <1>1, Zenon DEF Goes
  <1>3. Stands(scanner, t, (n + Len(j)) + Len(k), r, d, start, cut)
    BY <1>1, <1>2, Zenon DEF Goes
  <1> QED
    BY <1>1, <1>3, Zenon

LEMMA GoesNowhere ==
  ASSUME NEW scanner, NEW p
  PROVE  Goes(scanner, <<>>, p, p)
  <1> SUFFICES ASSUME NEW t \in Seq(Symbols), NEW n \in Nat, NEW d, NEW start, NEW cut,
                      Stands(scanner, t, n, p, d, start, cut)
               PROVE  Stands(scanner, t, n + Len(<<>>), p, d, start, cut)
    BY Zenon DEF Goes
  <1>1. n + Len(<<>>) = n
    OBVIOUS
  <1> QED
    BY <1>1, Zenon

\* Nothing happens over symbols that the scanner does not act upon.
LEMMA GoesInertList ==
  ASSUME NEW scanner \in Scanners, NEW k \in Seq(Symbols), Range(k) \cap ActsUpon(scanner) = {}
  PROVE  Goes(scanner, k, "none", "none")
  <1> DEFINE T == Symbols \ ActsUpon(scanner)
             Inert == {l \in Seq(Symbols) : Goes(scanner, l, "none", "none")}
  <1>1. <<>> \in Inert
    <2>1. <<>> \in Seq(Symbols)
      BY EmptySeq
    <2> QED
      BY <2>1, GoesNowhere
  <1>2. ASSUME NEW l \in Seq(T), NEW x \in T, l \in Inert PROVE Append(l, x) \in Inert
    <2>1. x \in Symbols /\ <<x>> \in Seq(Symbols) /\ l \in Seq(Symbols)
      BY <1>2
    <2>2. Append(l, x) = l \o <<x>>
      BY <2>1, AppendIsConcat
    <2>3. Append(l, x) \in Seq(Symbols)
      BY <2>1, AppendProperties
    <2>4. Goes(scanner, <<x>>, "none", "none")
      BY <1>2, GoesInert
    <2>5. Goes(scanner, l, "none", "none")
      BY <1>2
    <2>6. Goes(scanner, l \o <<x>>, "none", "none")
      BY <2>1, <2>4, <2>5, GoesConcat
    <2> QED
      BY <2>2, <2>3, <2>6
  <1> HIDE DEF Inert
  <1>3. Seq(T) \subseteq Inert
    BY <1>1, <1>2, InductionOnLists
  <1>4. k \in Seq(T)
    <2>1. k \in Seq(Range(k)) /\ Range(k) \in SUBSET Symbols
      BY SeqOfRange, RangeOfSeq
    <2>2. Range(k) \subseteq T
      BY <2>1
    <2> HIDE DEF T
    <2> QED
      BY <2>1, <2>2, SeqMonotonic
  <1> QED
    BY <1>3, <1>4 DEF Inert

\* A quoted text, symbol by symbol.
LEMMA DoubledParts ==
  ASSUME NEW c \in Seq(Symbols), NEW x \in Symbols, NEW q \in Symbols
  PROVE  /\ Doubled(<<>>, q) = <<>>
         /\ Doubled(Append(c, x), q) = Doubled(c, q) \o (IF x = q THEN <<q, q>> ELSE <<x>>)
  <1> DEFINE Twice(y) == IF y = q THEN <<q, q>> ELSE <<y>>
             l == Len(c)
             a == Append(c, x)
             m == [i \in DOMAIN c |-> Twice(c[i])]
             u == [i \in DOMAIN a |-> Twice(a[i])]
             v == Append(m, Twice(x))
  <1>1. /\ l \in Nat /\ DOMAIN c = 1 .. l /\ DOMAIN a = 1 .. l + 1
        /\ \A i \in 1 .. l : a[i] = c[i] /\ c[i] \in Symbols
        /\ a[l + 1] = x
    BY AppendParts
  <1> HIDE DEF a, l
  <1>2. \A y \in Symbols : Twice(y) \in Seq(Symbols)
    OBVIOUS
  <1> HIDE DEF Twice
  <1>3. m \in Seq(Seq(Symbols)) /\ Len(m) = l /\ \A i \in 1 .. l : m[i] = Twice(c[i])
    <2>1. m \in [1 .. l -> Seq(Symbols)] /\ \A i \in 1 .. l : m[i] = Twice(c[i])
      BY <1>1, <1>2
    <2> HIDE DEF m
    <2> QED
      BY <1>1, <2>1, FunctionToList
  <1> HIDE DEF m
  <1>4. /\ v \in Seq(Seq(Symbols))
        /\ \A i \in 1 .. l : v[i] = m[i]
        /\ v[l + 1] = Twice(x)
        /\ v = [i \in 1 .. l + 1 |-> v[i]]
    BY <1>2, <1>3, AppendParts
  <1> HIDE DEF v
  <1>5. ASSUME NEW i \in 1 .. l + 1 PROVE v[i] = Twice(a[i])
    <2>1. i = l + 1 \/ i \in 1 .. l
      BY <1>1
    <2> QED
      BY <1>1, <1>3, <1>4, <2>1
  <1>6. u = v
    BY <1>1, <1>4, <1>5
  <1>7. FlattenSeq(v) = FlattenSeq(m) \o Twice(x)
    BY <1>2, <1>3, FlattenAppend DEF v
  <1>8. Doubled(a, q) = FlattenSeq(u) /\ Doubled(c, q) = FlattenSeq(m)
    BY Zenon DEF Doubled, Twice, u, m
  <1>9. Doubled(<<>>, q) = <<>>
    <2>1. [i \in DOMAIN <<>> |-> IF <<>>[i] = q THEN <<q, q>> ELSE <<(<<>>[i])>>] = <<>>
      OBVIOUS
    <2> QED
      BY <2>1, FlattenEmpty, Zenon DEF Doubled
  <1> QED
    BY <1>6, <1>7, <1>8, <1>9, Zenon DEF a, Twice

\* Over a text in quotes, with the quotes in it doubled, a scanner cuts nothing.
LEMMA GoesQuoted ==
  ASSUME NEW scanner \in Scanners, NEW q \in Opening(scanner), NEW c \in Seq(Symbols)
  PROVE  Goes(scanner, <<q>> \o Doubled(c, q) \o <<q>>, "none", "none")
  <1>1. q \in Symbols /\ <<q>> \in Seq(Symbols) /\ <<q, q>> \in Seq(Symbols)
    BY OpeningParts
  <1> DEFINE Inside0 == {l \in Seq(Symbols) : Goes(scanner, Doubled(l, q), q, q)}
  <1>2. <<>> \in Inside0
    <2>1. <<>> \in Seq(Symbols)
      BY EmptySeq
    <2>2. Doubled(<<>>, q) = <<>>
      BY <1>1, <2>1, DoubledParts
    <2> QED
      BY <2>1, <2>2, GoesNowhere
  <1>3. ASSUME NEW l \in Seq(Symbols), NEW x \in Symbols, l \in Inside0 PROVE Append(l, x) \in Inside0
    <2> DEFINE y == IF x = q THEN <<q, q>> ELSE <<x>>
    <2>1. Doubled(Append(l, x), q) = Doubled(l, q) \o y
      BY <1>1, DoubledParts
    <2>2. y \in Seq(Symbols) /\ Doubled(l, q) \in Seq(Symbols) /\ Append(l, x) \in Seq(Symbols)
      BY <1>1, DoubledType, AppendProperties
    <2>3. Goes(scanner, y, q, q)
      <3>1. CASE x = q
        BY <3>1, GoesDoubled
      <3>2. CASE x # q
        BY <3>2, GoesWithin
      <3> QED
        BY <3>1, <3>2
    <2> HIDE DEF y
    <2>4. Goes(scanner, Doubled(l, q), q, q)
      BY <1>3
    <2>5. Goes(scanner, Doubled(l, q) \o y, q, q)
      BY <2>2, <2>3, <2>4, GoesConcat
    <2> QED
      BY <2>1, <2>2, <2>5
  <1> HIDE DEF Inside0
  <1>4. c \in Inside0
    BY <1>2, <1>3, InductionOnLists
  <1>5. Goes(scanner, Doubled(c, q), q, q)
    BY <1>4 DEF Inside0
  <1> DEFINE e == Doubled(c, q)
  <1>6. e \in Seq(Symbols)
    BY <1>1, DoubledType
  <1>7. Goes(scanner, <<q>>, "none", q) /\ Goes(scanner, <<q>>, q, "none")
    BY GoesOpens, GoesCloses
  <1> HIDE DEF e
  <1>8. Goes(scanner, <<q>> \o e, "none", q) /\ <<q>> \o e \in Seq(Symbols)
    BY <1>1, <1>5, <1>6, <1>7, GoesConcat, ConcatProperties DEF e
  <1>9. Goes(scanner, (<<q>> \o e) \o <<q>>, "none", "none")
    BY <1>1, <1>7, <1>8, GoesConcat
  <1> QED
    BY <1>9, Zenon DEF e

-----------------------------------------------------------------------------
(* Where a scanner is whatever follows. *)

\* After x a scanner is within nothing but d parentheses, whatever follows: the open
\* piece began at start, and what comes before it is cut.
Settled(scanner, x, d, start, cut) ==
  /\ start \in 1 .. Len(x) + 1
  /\ \A u \in Seq(Symbols) : Stands(scanner, x \o u, Len(x), "none", d, start, cut)

\* The open piece.
Open(x, start) == SubSeq(x, start, Len(x))

LEMMA OpenOfLonger ==
  ASSUME NEW T, NEW x \in Seq(T), NEW k \in Seq(T), NEW start \in 1 .. Len(x) + 1
  PROVE  /\ start \in 1 .. Len(x \o k) + 1
         /\ Open(x \o k, start) = Open(x, start) \o k
         /\ SubSeq(x \o k, start, Len(x)) = Open(x, start)
         /\ Open(x, start) \in Seq(T)
  <1> DEFINE t == x \o k
             a == SubSeq(t, start, Len(t))
             b == SubSeq(x, start, Len(x))
             c == b \o k
             e == SubSeq(t, start, Len(x))
             l == Len(x) - start + 1
  <1>1. /\ t \in Seq(T) /\ Len(t) = Len(x) + Len(k)
        /\ \A i \in 1 .. Len(x) + Len(k) : t[i] = IF i <= Len(x) THEN x[i] ELSE k[i - Len(x)]
    BY ConcatProperties
  <1>2. Len(x) \in Nat /\ Len(k) \in Nat /\ l \in Nat /\ start \in Nat /\ start >= 1
    OBVIOUS
  <1> HIDE DEF t
  <1>3. \A i \in 1 .. Len(t) : t[i] \in T
    BY <1>1, ElementOfSeq
  <1>4. a \in Seq(T) /\ Len(a) = l + Len(k) /\ \A i \in 1 .. l + Len(k) : a[i] = t[start + i - 1]
    <2>1. \A i \in start .. Len(t) : t[i] \in T
      BY <1>2, <1>3
    <2>2. /\ a \in Seq(T) /\ Len(a) = IF start <= Len(t) THEN Len(t) - start + 1 ELSE 0
          /\ \A i \in 1 .. Len(t) - start + 1 : a[i] = t[start + i - 1]
      BY <1>1, <1>2, <2>1, SubSeqProperties
    <2>3. Len(t) - start + 1 = l + Len(k)
      BY <1>1, <1>2
    <2>4. ~(start <= Len(t)) => Len(t) - start + 1 = 0
      BY <1>1, <1>2
    <2> HIDE DEF a, l
    <2> QED
      BY <2>2, <2>3, <2>4
  <1>5. b \in Seq(T) /\ Len(b) = l /\ \A i \in 1 .. l : b[i] = x[start + i - 1]
    <2>1. \A i \in start .. Len(x) : x[i] \in T
      BY <1>2, ElementOfSeq
    <2>2. /\ b \in Seq(T) /\ Len(b) = IF start <= Len(x) THEN Len(x) - start + 1 ELSE 0
          /\ \A i \in 1 .. Len(x) - start + 1 : b[i] = x[start + i - 1]
      BY <1>2, <2>1, SubSeqProperties
    <2>3. ~(start <= Len(x)) => Len(x) - start + 1 = 0
      BY <1>2
    <2> HIDE DEF b
    <2> QED
      BY <2>2, <2>3
  <1>6. e \in Seq(T) /\ Len(e) = l /\ \A i \in 1 .. l : e[i] = t[start + i - 1]
    <2>1. \A i \in start .. Len(x) : t[i] \in T
      BY <1>1, <1>2, <1>3
    <2>2. /\ e \in Seq(T) /\ Len(e) = IF start <= Len(x) THEN Len(x) - start + 1 ELSE 0
          /\ \A i \in 1 .. Len(x) - start + 1 : e[i] = t[start + i - 1]
      BY <1>2, <2>1, SubSeqProperties
    <2>3. ~(start <= Len(x)) => Len(x) - start + 1 = 0
      BY <1>2
    <2> HIDE DEF e
    <2> QED
      BY <2>2, <2>3
  <1> HIDE DEF a, b, e
  <1>7. c \in Seq(T) /\ Len(c) = l + Len(k)
        /\ \A i \in 1 .. l + Len(k) : c[i] = IF i <= l THEN b[i] ELSE k[i - l]
    <2>1. b \in Seq(T)
      BY <1>5
    <2>2. /\ c \in Seq(T) /\ Len(c) = Len(b) + Len(k)
          /\ \A i \in 1 .. Len(b) + Len(k) : c[i] = IF i <= Len(b) THEN b[i] ELSE k[i - Len(b)]
      BY <2>1, ConcatProperties
    <2>3. Len(b) = l
      BY <1>5
    <2> HIDE DEF l, c
    <2> QED
      BY <2>2, <2>3
  <1> HIDE DEF c
  <1>8. ASSUME NEW i \in 1 .. l + Len(k) PROVE a[i] = c[i]
    <2>1. start + i - 1 \in 1 .. Len(x) + Len(k)
      BY <1>2
    <2>2. CASE i <= l
      <3>1. start + i - 1 <= Len(x) /\ i \in 1 .. l
        BY <1>2, <2>2
      <3> HIDE DEF l
      <3> QED
        BY <1>1, <1>4, <1>5, <1>7, <2>1, <2>2, <3>1
    <2>3. CASE ~(i <= l)
      <3>1. ~(start + i - 1 <= Len(x)) /\ (start + i - 1) - Len(x) = i - l
        BY <1>2, <2>3
      <3> HIDE DEF l
      <3> QED
        BY <1>1, <1>4, <1>7, <2>1, <2>3, <3>1
    <2> QED
      BY <2>2, <2>3
  <1>9. a = c
    BY <1>4, <1>7, <1>8, SeqEqual
  <1>10. ASSUME NEW i \in 1 .. l PROVE e[i] = b[i]
    <2>1. start + i - 1 \in 1 .. Len(x) + Len(k) /\ start + i - 1 <= Len(x)
      BY <1>2
    <2> HIDE DEF l
    <2> QED
      BY <1>1, <1>5, <1>6, <2>1
  <1>11. e = b
    BY <1>5, <1>6, <1>10, SeqEqual
  <1>12. start \in 1 .. Len(t) + 1
    BY <1>1, <1>2
  <1> QED
    BY <1>5, <1>9, <1>11, <1>12, Zenon DEF Open, t, a, b, c, e

LEMMA OpenOfNew ==
  ASSUME NEW T, NEW x \in Seq(T), NEW y \in T
  PROVE  /\ Len(x) + 2 \in 1 .. Len(x \o <<y>>) + 1
         /\ Open(x \o <<y>>, Len(x) + 2) = <<>>
  <1>1. <<y>> \in Seq(T) /\ Len(<<y>>) = 1 /\ Len(x) \in Nat
    OBVIOUS
  <1>2. Len(x \o <<y>>) = Len(x) + 1
    BY <1>1, ConcatProperties
  <1>3. Len(x) + 2 \in Int /\ Len(x) + 1 \in Int /\ Len(x) + 1 < Len(x) + 2
    BY <1>1
  <1>4. SubSeq(x \o <<y>>, Len(x) + 2, Len(x) + 1) = <<>>
    BY <1>3, SubSeqEmpty
  <1> QED
    BY <1>1, <1>2, <1>4 DEF Open

\* At first a scanner is within nothing.
LEMMA SettledAtFirst ==
  ASSUME NEW scanner \in Scanners
  PROVE  Settled(scanner, <<>>, 0, 1, <<>>) /\ Open(<<>>, 1) = <<>>
  <1>1. <<>> \in Seq(Symbols) /\ Len(<<>>) = 0
    BY EmptySeq
  <1>2. ASSUME NEW u \in Seq(Symbols) PROVE Stands(scanner, <<>> \o u, 0, "none", 0, 1, <<>>)
    <2>1. <<>> \o u = u
      BY ConcatEmptySeq
    <2>2. Scans(scanner, u)[0] = Start
      BY ScansParts
    <2>3. Stands(scanner, u, 0, "none", 0, 1, <<>>)
      BY <2>2 DEF Stands, Start
    <2> QED
      BY <2>1, <2>3, Zenon
  <1>3. Open(<<>>, 1) = <<>>
    BY <1>1, SubSeqEmpty DEF Open
  <1> QED
    BY <1>1, <1>2, <1>3 DEF Settled

\* What follows x is after it.
LEMMA HasNext ==
  ASSUME NEW x \in Seq(Symbols), NEW k \in Seq(Symbols), NEW u \in Seq(Symbols)
  PROVE  Has(x \o (k \o u), Len(x), k)
  <1> DEFINE v == k \o u
             t == x \o v
  <1>1. /\ Len(x) \in Nat /\ Len(k) \in Nat /\ Len(u) \in Nat
    OBVIOUS
  <1>2. /\ v \in Seq(Symbols) /\ Len(v) = Len(k) + Len(u)
        /\ \A i \in 1 .. Len(k) + Len(u) : v[i] = IF i <= Len(k) THEN k[i] ELSE u[i - Len(k)]
    BY ConcatProperties
  <1> HIDE DEF v
  <1>3. v \in Seq(Symbols)
    BY <1>2
  <1>4. /\ t \in Seq(Symbols) /\ Len(t) = Len(x) + Len(v)
        /\ \A i \in 1 .. Len(x) + Len(v) : t[i] = IF i <= Len(x) THEN x[i] ELSE v[i - Len(x)]
    BY <1>3, ConcatProperties
  <1> HIDE DEF t
  <1>5. Len(x) + Len(k) <= Len(t)
    BY <1>1, <1>2, <1>4
  <1>6. ASSUME NEW i \in 1 .. Len(k) PROVE t[Len(x) + i] = k[i]
    <2>1. Len(x) + i \in 1 .. Len(x) + Len(v) /\ ~(Len(x) + i <= Len(x)) /\ (Len(x) + i) - Len(x) = i
          /\ i \in 1 .. Len(k) + Len(u) /\ i <= Len(k)
      BY <1>1, <1>2
    <2>2. t[Len(x) + i] = v[i]
      BY <1>4, <2>1
    <2>3. v[i] = k[i]
      BY <1>2, <2>1
    <2> QED
      BY <2>2, <2>3
  <1> QED
    BY <1>5, <1>6, Zenon DEF Has, t, v

\* It stays so over a construct that it goes through.
LEMMA SettledGoes ==
  ASSUME NEW scanner, NEW x \in Seq(Symbols), NEW k \in Seq(Symbols), NEW d, NEW start, NEW cut,
         Settled(scanner, x, d, start, cut), Goes(scanner, k, "none", "none")
  PROVE  Settled(scanner, x \o k, d, start, cut)
  <1>1. start \in 1 .. Len(x \o k) + 1
    BY OpenOfLonger, Zenon DEF Settled
  <1>2. ASSUME NEW u \in Seq(Symbols)
        PROVE  Stands(scanner, (x \o k) \o u, Len(x \o k), "none", d, start, cut)
    <2> DEFINE v == k \o u
               t == x \o v
    <2>1. /\ Len(x) \in Nat /\ Len(k) \in Nat /\ Len(u) \in Nat /\ Len(x \o k) = Len(x) + Len(k)
      BY ConcatProperties
    <2>2. v \in Seq(Symbols) /\ t \in Seq(Symbols)
      BY ConcatProperties
    <2>3. (x \o k) \o u = t
      BY ConcatAssociative
    <2>4. Has(t, Len(x), k)
      BY HasNext, Zenon
    <2> HIDE DEF v
    <2>5. Stands(scanner, t, Len(x), "none", d, start, cut)
      BY <2>2 DEF Settled
    <2> HIDE DEF t
    <2>6. Stands(scanner, t, Len(x) + Len(k), "none", d, start, cut)
      BY <2>1, <2>2, <2>4, <2>5, Zenon DEF Goes
    <2> QED
      BY <2>1, <2>3, <2>6, Zenon
  <1> QED
    BY <1>1, <1>2, Zenon DEF Settled

\* At the end the pieces are those that are cut, and the open one.
LEMMA SettledAtLast ==
  ASSUME NEW scanner, NEW x \in Seq(Symbols), NEW d, NEW start, NEW cut,
         Settled(scanner, x, d, start, cut)
  PROVE  Scan(scanner, x).out = cut /\ Parts(scanner, x) = Append(cut, Open(x, start))
  <1> DEFINE s == Scans(scanner, x)[Len(x)]
  <1>1. <<>> \in Seq(Symbols) /\ x \o <<>> = x
    BY EmptySeq, ConcatEmptySeq
  <1>2. Stands(scanner, x, Len(x), "none", d, start, cut)
    BY <1>1 DEF Settled
  <1>3. s.out = cut /\ s.start = start
    BY <1>2, Zenon DEF Stands
  <1>4. Scan(scanner, x) = s
    BY Zenon DEF Scan
  <1> HIDE DEF s
  <1>5. Parts(scanner, x) = Append(s.out, SubSeq(x, s.start, Len(x)))
    BY <1>4, Zenon DEF Parts, Rest
  <1> QED
    BY <1>3, <1>4, <1>5, Zenon DEF Open

\* What a scanner does with y after x, whatever follows.
Takes(scanner, x, y, d, start, cut, d1, start1, cut1) ==
  \A t \in Seq(Symbols) : \A s \in Places0(t, Symbols) :
    /\ t[Len(x) + 1] = y /\ SubSeq(t, start, Len(x)) = Open(x, start)
    /\ s.quote = "none" /\ s.dollar = <<>> /\ s.depth = d /\ s.start = start /\ s.out = cut
    => LET v == Step(scanner, t, s, Len(x) + 1)
       IN  /\ v.quote = "none" /\ v.dollar = <<>> /\ v.depth = d1 /\ v.start = start1 /\ v.out = cut1
           /\ v.next = s.next

LEMMA SettledTakes ==
  ASSUME NEW scanner \in Scanners, NEW x \in Seq(Symbols), NEW y \in Symbols \ Opening(scanner),
         NEW d, NEW start, NEW cut, NEW d1, NEW start1 \in 1 .. Len(x) + 2, NEW cut1,
         Settled(scanner, x, d, start, cut),
         Takes(scanner, x, y, d, start, cut, d1, start1, cut1)
  PROVE  Settled(scanner, x \o <<y>>, d1, start1, cut1)
  <1>1. /\ <<y>> \in Seq(Symbols) /\ Len(<<y>>) = 1 /\ <<y>>[1] = y /\ Len(x) \in Nat
    OBVIOUS
  <1>2. Len(x \o <<y>>) = Len(x) + 1 /\ x \o <<y>> \in Seq(Symbols)
    BY <1>1, ConcatProperties
  <1>3. start1 \in 1 .. Len(x \o <<y>>) + 1
    BY <1>1, <1>2
  <1>4. start \in 1 .. Len(x) + 1
    BY Zenon DEF Settled
  <1>5. ASSUME NEW u \in Seq(Symbols)
        PROVE  Stands(scanner, (x \o <<y>>) \o u, Len(x) + 1, "none", d1, start1, cut1)
    <2> DEFINE v == <<y>> \o u
               t == x \o v
               s == Scans(scanner, t)[Len(x)]
               w == Scans(scanner, t)[Len(x) + 1]
               n == Len(x)
    <2>1. (x \o <<y>>) \o u = t
      BY <1>1, ConcatAssociative
    <2>2. v \in Seq(Symbols) /\ Len(v) = 1 + Len(u) /\ Len(u) \in Nat /\ v[1] = y
      BY <1>1, ConcatProperties
    <2> HIDE DEF v
    <2>3. v \in Seq(Symbols)
      BY <2>2
    <2>4. /\ t \in Seq(Symbols) /\ Len(t) = Len(x) + Len(v)
          /\ \A i \in 1 .. Len(x) + Len(v) : t[i] = IF i <= Len(x) THEN x[i] ELSE v[i - Len(x)]
      BY <2>3, ConcatProperties
    <2>5. SubSeq(t, start, Len(x)) = Open(x, start)
      BY <1>4, <2>3, OpenOfLonger
    <2>6. Stands(scanner, t, Len(x), "none", d, start, cut)
      BY <2>3 DEF Settled
    <2> HIDE DEF t
    <2>7. n \in Nat /\ n < Len(t) /\ t[n + 1] = y
      <3>1. n + 1 \in 1 .. Len(x) + Len(v) /\ ~(n + 1 <= Len(x)) /\ (n + 1) - Len(x) = 1
        BY <1>1, <2>2
      <3>2. n < Len(t)
        BY <1>1, <2>2, <2>4
      <3>3. t[n + 1] = v[1]
        BY <2>4, <3>1
      <3> QED
        BY <1>1, <2>2, <3>2, <3>3
    <2> HIDE DEF n
    <2>8. /\ s.out = cut /\ s.start = start /\ s.depth = d /\ s.dollar = <<>>
          /\ s.quote = "none" /\ s.next <= n + 1
      BY <2>6, <2>7, Zenon DEF Stands, n
    <2>9. t \in Seq(Symbols)
      BY <2>4
    <2>10. /\ s \in Places0(t, Symbols) /\ s.next \in Nat
           /\ s.next <= n + 1 => w = Step(scanner, t, s, n + 1)
      BY <2>7, <2>9, ScanStep DEF n
    <2> HIDE DEF s, w
    <2>11. w = Step(scanner, t, s, n + 1)
      BY <2>8, <2>10
    <2>12. /\ w.quote = "none" /\ w.dollar = <<>> /\ w.depth = d1 /\ w.start = start1 /\ w.out = cut1
           /\ w.next = s.next
      BY <2>5, <2>7, <2>8, <2>9, <2>10, <2>11, Zenon DEF Takes, n
    <2>13. w.next <= (n + 1) + 1
      BY <2>7, <2>8, <2>10, <2>12
    <2> QED
      BY <2>1, <2>12, <2>13, Zenon DEF Stands, w, n
  <1> QED
    BY <1>2, <1>3, <1>5, Zenon DEF Settled

\* A separator cuts off the open piece.
LEMMA TakesSeparator ==
  ASSUME NEW scanner \in Scanners, NEW x \in Seq(Symbols), NEW y, NEW d, NEW start, NEW cut,
         \/ scanner = <<"generic", "script">> /\ y = "semi"
         \/ scanner = <<"postgres", "script">> /\ y = "semi" /\ ~IsCopy(Open(x, start))
         \/ scanner[2] = "list" /\ y = "comma" /\ d = 0
         \/ scanner = <<"generic", "values">> /\ y = "comma" /\ d = 0
  PROVE  Takes(scanner, x, y, d, start, cut, d, Len(x) + 2, Append(cut, Open(x, start)))
  <1> SUFFICES ASSUME NEW t \in Seq(Symbols), NEW s \in Places0(t, Symbols),
                      t[Len(x) + 1] = y, SubSeq(t, start, Len(x)) = Open(x, start),
                      s.quote = "none", s.dollar = <<>>, s.depth = d, s.start = start, s.out = cut,
                      NEW v, v = Step(scanner, t, s, Len(x) + 1)
               PROVE  /\ v.quote = "none" /\ v.dollar = <<>> /\ v.depth = d /\ v.start = Len(x) + 2
                      /\ v.out = Append(cut, Open(x, start)) /\ v.next = s.next
    BY Zenon DEF Takes
  <1> DEFINE n == Len(x)
  <1>1. n \in Nat /\ (n + 1) - 1 = n /\ (n + 1) + 1 = n + 2
    OBVIOUS
  <1>2. v = Step(scanner, t, s, n + 1) /\ t[n + 1] = y 
        /\ SubSeq(t, start, n) = Open(x, start)
    OBVIOUS
  <1> HIDE DEF n
  <1>3. v = Cut(t, s, n + 1)
    <2>1. CASE scanner = <<"generic", "script">> /\ y = "semi"
      <3>1. scanner # <<"postgres", "script">> /\ t[n + 1] \notin QuotesOf("generic", "script")
        BY <1>2, <2>1 DEF QuotesOf
      <3>2. v = StatementStep(t, s, n + 1)
        BY <1>2, <2>1, <3>1, Zenon DEF Step
      <3> QED
        BY <1>2, <2>1, <3>1, <3>2, Zenon DEF StatementStep
    <2>2. CASE scanner = <<"postgres", "script">> /\ y = "semi" /\ ~IsCopy(Open(x, start))
      <3>1. t[n + 1] \notin QuotesOf("postgres", "script") /\ t[n + 1] = "semi" /\ t[n + 1] # "$"
        BY <1>2, <2>2 DEF QuotesOf
      <3>2. v = DumpStep(t, s, n + 1)
        BY <1>2, <2>2, Zenon DEF Step
      <3>3. v = Terminate(t, s, n + 1)
        BY <3>1, <3>2, Zenon DEF DumpStep
      <3>4. ~IsCopy(SubSeq(t, s.start, (n + 1) - 1))
        BY <1>1, <1>2, <2>2, Zenon
      <3> QED
        BY <3>3, <3>4, Zenon DEF Terminate
    <2>3. CASE d = 0 /\ y = "comma" /\ (scanner[2] = "list" \/ scanner = <<"generic", "values">>)
      <3>1. scanner # <<"postgres", "script">> /\ scanner # <<"generic", "script">>
            /\ scanner # <<"postgres", "values">>
        BY <2>3
      <3>2. v = ListStep(scanner[1], t, s, n + 1)
        BY <1>2, <3>1, Zenon DEF Step
      <3>3. /\ t[n + 1] \notin QuotesOf(scanner[1], "list")
            /\ t[n + 1] # "(" /\ t[n + 1] # ")" /\ t[n + 1] = "comma" /\ s.depth = 0
        BY <1>2, <2>3 DEF QuotesOf
      <3> QED
        BY <3>2, <3>3, Zenon DEF ListStep
    <2> QED
      BY <2>1, <2>2, <2>3
  <1>4. /\ v.quote = s.quote /\ v.dollar = s.dollar /\ v.depth = s.depth /\ v.next = s.next
        /\ v.start = (n + 1) + 1 /\ v.out = Append(s.out, SubSeq(t, s.start, (n + 1) - 1))
    <2> DEFINE p == SubSeq(t, s.start, (n + 1) - 1)
               a == Append(s.out, p)
               b == (n + 1) + 1
    <2>1. v = [s EXCEPT !.out = Append(@, p), !.start = b]
      BY <1>3, Zenon DEF Cut
    <2>2. v = [s EXCEPT !.out = a, !.start = b]
      BY <2>1, Zenon
    <2> HIDE DEF a, b
    <2>3. /\ v.quote = s.quote /\ v.dollar = s.dollar /\ v.depth = s.depth /\ v.next = s.next
          /\ v.start = b /\ v.out = a
      BY <2>2 DEF Places0
    <2> QED
      BY <2>3, Zenon DEF a, b, p
  <1>5. v.out = Append(cut, Open(x, start))
    BY <1>1, <1>2, <1>4, Zenon
  <1> QED
    BY <1>1, <1>4, <1>5, Zenon DEF n

\* Parentheses, for the scanners of lists.
LEMMA TakesParentheses ==
  ASSUME NEW scanner \in Scanners, NEW x \in Seq(Symbols), NEW d \in Int, NEW start, NEW cut,
         scanner[2] = "list" \/ scanner = <<"generic", "values">>
  PROVE  /\ Takes(scanner, x, "(", d, start, cut, d + 1, start, cut)
         /\ Takes(scanner, x, ")", d, start, cut, d - 1, start, cut)
         /\ d # 0 => Takes(scanner, x, "comma", d, start, cut, d, start, cut)
  <1>1. scanner # <<"postgres", "script">> /\ scanner # <<"generic", "script">>
        /\ scanner # <<"postgres", "values">>
    OBVIOUS
  <1>2. /\ \A t, s, i : Step(scanner, t, s, i) = ListStep(scanner[1], t, s, i)
        /\ QuotesOf(scanner[1], "list") \cap {"(", ")", "comma"} = {}
    <2>1. \A t, s, i : Step(scanner, t, s, i) = ListStep(scanner[1], t, s, i)
      BY <1>1, Zenon DEF Step
    <2>2. QuotesOf(scanner[1], "list") \cap {"(", ")", "comma"} = {}
      BY DEF QuotesOf
    <2> QED
      BY <2>1, <2>2
  <1>3. Takes(scanner, x, "(", d, start, cut, d + 1, start, cut)
    <2> SUFFICES ASSUME NEW t \in Seq(Symbols), NEW s \in Places0(t, Symbols), t[Len(x) + 1] = "(",
                        s.quote = "none", s.dollar = <<>>, s.depth = d, s.start = start, s.out = cut,
                        NEW v, v = Step(scanner, t, s, Len(x) + 1)
                 PROVE  /\ v.quote = "none" /\ v.dollar = <<>> /\ v.depth = d + 1 /\ v.start = start
                        /\ v.out = cut /\ v.next = s.next
      BY Zenon DEF Takes
    <2>1. v = ListStep(scanner[1], t, s, Len(x) + 1)
      BY <1>2, Zenon
    <2>2. t[Len(x) + 1] \notin QuotesOf(scanner[1], "list")
      BY <1>2
    <2>3. v = [s EXCEPT !.depth = @ + 1]
      BY <2>1, <2>2, Zenon DEF ListStep
    <2> QED
      BY <2>3 DEF Places0
  <1>4. Takes(scanner, x, ")", d, start, cut, d - 1, start, cut)
    <2> SUFFICES ASSUME NEW t \in Seq(Symbols), NEW s \in Places0(t, Symbols), t[Len(x) + 1] = ")",
                        s.quote = "none", s.dollar = <<>>, s.depth = d, s.start = start, s.out = cut,
                        NEW v, v = Step(scanner, t, s, Len(x) + 1)
                 PROVE  /\ v.quote = "none" /\ v.dollar = <<>> /\ v.depth = d - 1 /\ v.start = start
                        /\ v.out = cut /\ v.next = s.next
      BY Zenon DEF Takes
    <2>1. v = ListStep(scanner[1], t, s, Len(x) + 1)
      BY <1>2, Zenon
    <2>2. t[Len(x) + 1] \notin QuotesOf(scanner[1], "list")
          /\ t[Len(x) + 1] # "("
      BY <1>2
    <2>3. v = [s EXCEPT !.depth = @ - 1]
      BY <2>1, <2>2, Zenon DEF ListStep
    <2> QED
      BY <2>3 DEF Places0
  <1>5. ASSUME d # 0 PROVE Takes(scanner, x, "comma", d, start, cut, d, start, cut)
    <2> SUFFICES ASSUME NEW t \in Seq(Symbols), NEW s \in Places0(t, Symbols), t[Len(x) + 1] = "comma",
                        s.quote = "none", s.dollar = <<>>, s.depth = d, s.start = start, s.out = cut,
                        NEW v, v = Step(scanner, t, s, Len(x) + 1)
                 PROVE  /\ v.quote = "none" /\ v.dollar = <<>> /\ v.depth = d /\ v.start = start
                        /\ v.out = cut /\ v.next = s.next
      BY Zenon DEF Takes
    <2>1. v = ListStep(scanner[1], t, s, Len(x) + 1)
      BY <1>2, Zenon
    <2>2. t[Len(x) + 1] \notin QuotesOf(scanner[1], "list")
          /\ t[Len(x) + 1] # "(" /\ t[Len(x) + 1] # ")" /\ s.depth # 0
      BY <1>2, <1>5
    <2>3. v = s
      BY <2>1, <2>2, Zenon DEF ListStep
    <2> QED
      BY <2>3 DEF Places0
  <1> QED
    BY <1>3, <1>4, <1>5

\* Parentheses, for the scanner of rows: a row begins after the first that opens, and
\* ends before the last that closes.
LEMMA TakesRow ==
  ASSUME NEW x \in Seq(Symbols), NEW d \in Nat, NEW start, NEW cut
  PROVE  LET scanner == <<"postgres", "values">>
         IN  /\ Takes(scanner, x, "(", d, start, cut, d + 1, IF d = 0 THEN Len(x) + 2 ELSE start, cut)
             /\ Takes(scanner, x, ")", d, start, cut, d - 1, start,
                      IF d = 1 THEN Append(cut, Open(x, start)) ELSE cut)
  <1> DEFINE scanner == <<"postgres", "values">>
  <1>1. scanner # <<"postgres", "script">> /\ scanner # <<"generic", "script">>
    OBVIOUS
  <1>2. \A t, s, i : Step(scanner, t, s, i) = GroupStep(t, s, i)
    BY <1>1, Zenon DEF Step
  <1>3. Takes(scanner, x, "(", d, start, cut, d + 1, IF d = 0 THEN Len(x) + 2 ELSE start, cut)
    <2> SUFFICES ASSUME NEW t \in Seq(Symbols), NEW s \in Places0(t, Symbols), t[Len(x) + 1] = "(",
                        s.quote = "none", s.dollar = <<>>, s.depth = d, s.start = start, s.out = cut,
                        NEW v, v = Step(scanner, t, s, Len(x) + 1)
                 PROVE  /\ v.quote = "none" /\ v.dollar = <<>> /\ v.depth = d + 1
                        /\ v.start = (IF d = 0 THEN Len(x) + 2 ELSE start)
                        /\ v.out = cut /\ v.next = s.next
      BY Zenon DEF Takes
    <2>1. v = GroupStep(t, s, Len(x) + 1)
      BY <1>2, Zenon
    <2>2. v = [s EXCEPT !.depth = @ + 1, !.start = IF s.depth = 0 THEN (Len(x) + 1) + 1 ELSE @]
      BY <2>1, Zenon DEF GroupStep
    <2>3. (Len(x) + 1) + 1 = Len(x) + 2
      OBVIOUS
    <2> QED
      BY <2>2, <2>3 DEF Places0
  <1>4. Takes(scanner, x, ")", d, start, cut, d - 1, start,
              IF d = 1 THEN Append(cut, Open(x, start)) ELSE cut)
    <2> SUFFICES ASSUME NEW t \in Seq(Symbols), NEW s \in Places0(t, Symbols), t[Len(x) + 1] = ")",
                        SubSeq(t, start, Len(x)) = Open(x, start),
                        s.quote = "none", s.dollar = <<>>, s.depth = d, s.start = start, s.out = cut,
                        NEW v, v = Step(scanner, t, s, Len(x) + 1)
                 PROVE  /\ v.quote = "none" /\ v.dollar = <<>> /\ v.depth = d - 1 /\ v.start = start
                        /\ v.out = (IF d = 1 THEN Append(cut, Open(x, start)) ELSE cut)
                        /\ v.next = s.next
      BY Zenon DEF Takes
    <2>1. v = GroupStep(t, s, Len(x) + 1)
      BY <1>2, Zenon
    <2>2. t[Len(x) + 1] # "("
      OBVIOUS
    <2> DEFINE p == SubSeq(t, s.start, (Len(x) + 1) - 1)
               a == Append(s.out, p)
    <2>3. v = [s EXCEPT !.depth = @ - 1, !.out = IF s.depth = 1 THEN Append(@, p) ELSE @]
      BY <2>1, <2>2, Zenon DEF GroupStep
    <2>4. v = [s EXCEPT !.depth = s.depth - 1, !.out = IF s.depth = 1 THEN a ELSE s.out]
      BY <2>3, Zenon
    <2>5. (Len(x) + 1) - 1 = Len(x)
      OBVIOUS
    <2>6. a = Append(cut, Open(x, start))
      BY <2>5, Zenon
    <2> HIDE DEF a
    <2>7. v.quote = s.quote /\ v.dollar = s.dollar /\ v.depth = s.depth - 1 /\ v.start = s.start
          /\ v.out = (IF s.depth = 1 THEN a ELSE s.out) /\ v.next = s.next
      BY <2>4 DEF Places0
    <2> QED
      BY <2>6, <2>7
  <1> QED
    BY <1>3, <1>4

-----------------------------------------------------------------------------
(* Dollar-quoted texts. *)

\* HasAt, symbol by symbol.
LEMMA HasAtParts ==
  ASSUME NEW t \in Seq(Symbols), NEW n \in Nat, NEW k \in Seq(Symbols)
  PROVE  HasAt(t, n + 1, k) <=> Has(t, n, k)
  <1> DEFINE p == SubSeq(t, n + 1, n + Len(k))
  <1>1. Len(t) \in Nat /\ Len(k) \in Nat /\ (n + 1) + Len(k) - 1 = n + Len(k)
    OBVIOUS
  <1>2. HasAt(t, n + 1, k) <=> n + Len(k) <= Len(t) /\ p = k
    BY <1>1, Zenon DEF HasAt
  <1>3. ASSUME n + Len(k) <= Len(t) PROVE p = k <=> \A i \in 1 .. Len(k) : t[n + i] = k[i]
    <2>1. \A i \in n + 1 .. n + Len(k) : t[i] \in Symbols
      <3>1. \A i \in n + 1 .. n + Len(k) : i \in 1 .. Len(t)
        BY <1>1, <1>3
      <3> QED
        BY <3>1, ElementOfSeq
    <2>2. /\ p \in Seq(Symbols)
          /\ Len(p) = IF n + 1 <= n + Len(k) THEN (n + Len(k)) - (n + 1) + 1 ELSE 0
          /\ \A i \in 1 .. (n + Len(k)) - (n + 1) + 1 : p[i] = t[(n + 1) + i - 1]
      <3>1. n + 1 \in Int /\ n + Len(k) \in Int
        BY <1>1
      <3> QED
        BY <2>1, <3>1, SubSeqProperties
    <2> HIDE DEF p
    <2>3. (n + Len(k)) - (n + 1) + 1 = Len(k) /\ Len(p) = Len(k)
      BY <1>1, <2>2
    <2>4. ASSUME NEW i \in 1 .. Len(k) PROVE p[i] = t[n + i]
      <3>1. (n + 1) + i - 1 = n + i
        OBVIOUS
      <3> QED
        BY <2>2, <2>3, <3>1
    <2>5. ASSUME \A i \in 1 .. Len(k) : t[n + i] = k[i] PROVE p = k
      <3>1. \A i \in 1 .. Len(p) : p[i] = k[i]
        BY <2>3, <2>4, <2>5
      <3>2. p \in Seq(Symbols)
        BY <2>2
      <3> QED
        BY <2>3, <3>1, <3>2, SeqEqual
    <2>6. ASSUME p = k PROVE \A i \in 1 .. Len(k) : t[n + i] = k[i]
      BY <2>4, <2>6
    <2> QED
      BY <2>5, <2>6
  <1> HIDE DEF p
  <1> QED
    BY <1>2, <1>3, Zenon DEF Has

\* What is in a part of a text is in the text.
LEMMA HasWithin ==
  ASSUME NEW t \in Seq(Symbols), NEW n \in Nat, NEW k \in Seq(Symbols), Has(t, n, k),
         NEW i \in Nat, NEW u \in Seq(Symbols), i + Len(u) <= Len(k)
  PROVE  Has(t, n + i, u) <=> Has(k, i, u)
  <1>1. Len(t) \in Nat /\ Len(k) \in Nat /\ Len(u) \in Nat
    OBVIOUS
  <1>2. n + Len(k) <= Len(t) /\ \A j \in 1 .. Len(k) : t[n + j] = k[j]
    BY Zenon DEF Has
  <1>3. (n + i) + Len(u) <= Len(t)
    BY <1>1, <1>2
  <1>4. ASSUME NEW j \in 1 .. Len(u) PROVE t[(n + i) + j] = k[i + j]
    <2>1. i + j \in 1 .. Len(k) /\ (n + i) + j = n + (i + j)
      BY <1>1
    <2> QED
      BY <1>2, <2>1
  <1>5. (\A j \in 1 .. Len(u) : t[(n + i) + j] = u[j]) <=> (\A j \in 1 .. Len(u) : k[i + j] = u[j])
    BY <1>4
  <1> QED
    BY <1>3, <1>5, Zenon DEF Has

\* Where a scanner has looked in advance it does not move.
LEMMA Skips ==
  ASSUME NEW scanner \in Scanners, NEW t \in Seq(Symbols), NEW n \in Nat, NEW m \in Nat,
         n + m <= Len(t), n + m < Scans(scanner, t)[n].next
  PROVE  Scans(scanner, t)[n + m] = Scans(scanner, t)[n]
  <1> DEFINE f == Scans(scanner, t)
             Still == {j \in Nat : j <= m => f[n + j] = f[n]}
  <1>1. Len(t) \in Nat /\ n + 0 = n
    OBVIOUS
  <1>2. 0 \in Still
    BY <1>1
  <1>3. ASSUME NEW j \in Nat, j \in Still PROVE j + 1 \in Still
    <2>0. j + 1 \in Nat
      OBVIOUS
    <2> SUFFICES ASSUME j + 1 <= m PROVE f[n + (j + 1)] = f[n]
      BY <2>0, Zenon
    <2>1. n + j \in Nat /\ n + j < Len(t) /\ n + (j + 1) = (n + j) + 1 /\ j <= m
      BY <1>1
    <2>2. f[n + j] = f[n]
      BY <1>3, <2>1
    <2>3. f[n].next \in Nat /\ (n + j) + 1 < f[n].next
      <3>1. n < Len(t)
        BY <1>1, <2>1
      <3>2. f[n].next \in Nat
        BY <3>1, ScanStep
      <3> HIDE DEF f
      <3> QED
        BY <2>1, <3>2 DEF f
    <2>4. (n + j) + 1 < f[n + j].next => f[(n + j) + 1] = f[n + j]
      BY <2>1, ScanStep
    <2> HIDE DEF f
    <2> QED
      BY <2>1, <2>2, <2>3, <2>4
  <1> HIDE DEF Still
  <1>4. m \in Still
    BY <1>2, <1>3, InductionOnSet
  <1>5. m <= m
    OBVIOUS
  <1> QED
    BY <1>4, <1>5, Zenon DEF Still

DumpScan(t) == Scans(<<"postgres", "script">>, t)

LEMMA DumpScanStep ==
  ASSUME NEW t \in Seq(Symbols), NEW n \in Nat, n < Len(t), DumpScan(t)[n].next <= n + 1
  PROVE  DumpScan(t)[n + 1] = DumpStep(t, DumpScan(t)[n], n + 1)
  <1>1. <<"postgres", "script">> \in Scanners
    BY DEF Scanners, Families, Tasks
  <1>2. DumpScan(t)[n + 1] = Step(<<"postgres", "script">>, t, DumpScan(t)[n], n + 1)
    BY <1>1, ScanStep DEF DumpScan
  <1> QED
    BY <1>2, Zenon DEF Step

LEMMA DumpScanSkips ==
  ASSUME NEW t \in Seq(Symbols), NEW n \in Nat, NEW m \in Nat, n <= m, m <= Len(t),
         m < DumpScan(t)[n].next
  PROVE  DumpScan(t)[m] = DumpScan(t)[n]
  <1>1. <<"postgres", "script">> \in Scanners
    BY DEF Scanners, Families, Tasks
  <1>2. PICK j \in Nat : n + j = m
    <2>1. m - n \in Nat /\ n + (m - n) = m
      OBVIOUS
    <2> QED
      BY <2>1
  <1>3. n + j <= Len(t) /\ n + j < DumpScan(t)[n].next
    BY <1>2
  <1>4. DumpScan(t)[n + j] = DumpScan(t)[n]
    BY <1>1, <1>3, Skips, Zenon DEF DumpScan
  <1> QED
    BY <1>2, <1>4, Zenon

\* Within a dollar-quoted text nothing but its tag is looked for.
LEMMA DumpScanDollar ==
  ASSUME NEW t \in Seq(Symbols), NEW n \in Nat, NEW m \in Nat, n + m <= Len(t),
         DumpScan(t)[n].dollar # <<>>, DumpScan(t)[n].next <= n + 1,
         \A j \in 1 .. m : ~HasAt(t, n + j, DumpScan(t)[n].dollar)
  PROVE  DumpScan(t)[n + m] = DumpScan(t)[n]
  <1> DEFINE f == DumpScan(t)
             s == f[n]
             Still == {j \in Nat : j <= m => f[n + j] = s}
  <1>1. Len(t) \in Nat /\ n + 0 = n
    OBVIOUS
  <1>2. 0 \in Still
    BY <1>1
  <1>3. ASSUME NEW j \in Nat, j \in Still PROVE j + 1 \in Still
    <2>0. j + 1 \in Nat
      OBVIOUS
    <2> SUFFICES ASSUME j + 1 <= m PROVE f[n + (j + 1)] = s
      BY <2>0, Zenon
    <2>1. n + j \in Nat /\ n + j < Len(t) /\ n + (j + 1) = (n + j) + 1 /\ j <= m /\ j + 1 \in 1 .. m
      BY <1>1
    <2>2. f[n + j] = s
      BY <1>3, <2>1
    <2>3. s.next <= (n + j) + 1
      <3>1. n < Len(t) /\ n + 1 <= (n + j) + 1
        BY <1>1, <2>1
      <3>2. <<"postgres", "script">> \in Scanners
        BY DEF Scanners, Families, Tasks
      <3>3. s.next \in Nat /\ s.next <= n + 1
        BY <3>1, <3>2, ScanStep DEF DumpScan
      <3> HIDE DEF s
      <3> QED
        BY <3>1, <3>3
    <2>4. f[(n + j) + 1] = DumpStep(t, s, (n + j) + 1)
      <3>1. f[n + j].next <= (n + j) + 1
        BY <2>2, <2>3, Zenon
      <3>2. f[(n + j) + 1] = DumpStep(t, f[n + j], (n + j) + 1)
        BY <2>1, <3>1, DumpScanStep
      <3> QED
        BY <2>2, <3>2, Zenon
    <2>5. ~HasAt(t, (n + j) + 1, s.dollar) /\ s.dollar # <<>>
      BY <2>1
    <2> HIDE DEF s
    <2>6. DumpStep(t, s, (n + j) + 1) = s
      BY <2>5, Zenon DEF DumpStep
    <2> HIDE DEF f
    <2> QED
      BY <2>1, <2>4, <2>6
  <1> HIDE DEF Still
  <1>4. m \in Still
    BY <1>2, <1>3, InductionOnSet
  <1>5. m <= m
    OBVIOUS
  <1> QED
    BY <1>4, <1>5, Zenon DEF Still

\* A tag is recognised.
LEMMA TagIsFound ==
  ASSUME NEW t \in Seq(Symbols), NEW n \in Nat, NEW tag \in Tags, Has(t, n, tag)
  PROVE  TagAt(t, n + 1) = tag /\ tag # <<>> /\ tag \in Seq(Symbols) /\ tag[1] = "$"
         /\ Len(tag) \in 2 .. 3
  <1> DEFINE ends == {j \in (n + 1) + 1 .. Len(t) : t[j] = "$" /\ \A k \in (n + 1) + 1 .. j - 1 : t[k] = "w"}
  <1>1. n + Len(tag) <= Len(t) /\ Len(t) \in Nat /\ \A i \in 1 .. Len(tag) : t[n + i] = tag[i]
    BY DEF Has
  <1>2. tag = <<"$", "$">> \/ tag = <<"$", "w", "$">>
    BY DEF Tags
  <1>3. /\ tag # <<>> /\ tag \in Seq(Symbols) /\ tag[1] = "$" /\ Len(tag) \in 2 .. 3
        /\ n + Len(tag) \in Nat
    <2>1. "$" \in Symbols /\ "w" \in Symbols
      BY DEF Symbols
    <2>2. CASE tag = <<"$", "$">>
      BY <2>1, <2>2
    <2>3. CASE tag = <<"$", "w", "$">>
      BY <2>1, <2>3
    <2> QED
      BY <1>2, <2>2, <2>3
  <1>4. ends = {n + Len(tag)}
    <2>1. CASE tag = <<"$", "$">>
      <3>1. Len(tag) = 2 /\ t[n + 2] = "$" /\ n + 2 <= Len(t)
        BY <1>1, <2>1
      <3>2. ASSUME NEW j \in ends PROVE j = n + 2
        <4>1. j \in n + 2 .. Len(t) /\ \A k \in n + 2 .. j - 1 : t[k] = "w"
          OBVIOUS
        <4>2. n + 2 \in n + 2 .. j - 1 => t[n + 2] = "w"
          BY <4>1
        <4> QED
          BY <1>1, <3>1, <4>1, <4>2
      <3>3. n + 2 \in ends
        BY <1>1, <3>1
      <3> QED
        BY <3>1, <3>2, <3>3
    <2>2. CASE tag = <<"$", "w", "$">>
      <3>1. Len(tag) = 3 /\ t[n + 2] = "w" /\ t[n + 3] = "$" /\ n + 3 <= Len(t)
        BY <1>1, <2>2
      <3>2. ASSUME NEW j \in ends PROVE j = n + 3
        <4>1. j \in n + 2 .. Len(t) /\ t[j] = "$" /\ \A k \in n + 2 .. j - 1 : t[k] = "w"
          OBVIOUS
        <4>2. n + 3 \in n + 2 .. j - 1 => t[n + 3] = "w"
          BY <4>1
        <4>3. j # n + 2
          BY <3>1, <4>1
        <4> QED
          BY <1>1, <3>1, <4>1, <4>2, <4>3
      <3>3. n + 3 \in ends
        <4>1. \A k \in n + 2 .. (n + 3) - 1 : k = n + 2
          OBVIOUS
        <4> QED
          BY <1>1, <3>1, <4>1
      <3> QED
        BY <3>1, <3>2, <3>3
    <2> QED
      BY <1>2, <2>1, <2>2
  <1>5. TagAt(t, n + 1) = SubSeq(t, n + 1, n + Len(tag))
    <2>1. TagAt(t, n + 1) = IF ends # {} THEN SubSeq(t, n + 1, CHOOSE j \in ends : TRUE) ELSE <<>>
      BY Zenon DEF TagAt
    <2>2. ends # {} /\ (CHOOSE j \in ends : TRUE) = n + Len(tag)
      BY <1>4
    <2> HIDE DEF ends
    <2> QED
      BY <2>1, <2>2, Zenon
  <1>6. HasAt(t, n + 1, tag)
    BY <1>3, HasAtParts
  <1>7. SubSeq(t, n + 1, (n + 1) + Len(tag) - 1) = tag
    BY <1>6, Zenon DEF HasAt
  <1>8. (n + 1) + Len(tag) - 1 = n + Len(tag)
    BY <1>3
  <1> QED
    BY <1>3, <1>5, <1>7, <1>8, Zenon

\* Over a dollar-quoted text the scanner of dumps cuts nothing.
LEMMA GoesDollarQuoted ==
  ASSUME NEW tag \in Tags, NEW c \in Seq(Symbols), \A i \in DOMAIN c : ~HasAt(c \o tag, i, tag)
  PROVE  Goes(<<"postgres", "script">>, tag \o c \o tag, "none", "none")
  <1> DEFINE scanner == <<"postgres", "script">>
  <1> SUFFICES ASSUME NEW t \in Seq(Symbols), NEW n \in Nat, NEW d, NEW start, NEW cut,
                      Has(t, n, tag \o c \o tag), Stands(scanner, t, n, "none", d, start, cut)
               PROVE  Stands(scanner, t, n + Len(tag \o c \o tag), "none", d, start, cut)
    BY Zenon DEF Goes
  <1> DEFINE f == DumpScan(t)
             l == Len(tag)
             m == Len(c)
             a == n + l
             b == a + m
  <1>1. tag \in Seq(Symbols) /\ tag[1] = "$" /\ l \in 2 .. 3
    <2>1. "$" \in Symbols /\ "w" \in Symbols
      BY DEF Symbols
    <2>2. tag = <<"$", "$">> \/ tag = <<"$", "w", "$">>
      BY DEF Tags
    <2>3. CASE tag = <<"$", "$">>
      BY <2>1, <2>3
    <2>4. CASE tag = <<"$", "w", "$">>
      BY <2>1, <2>4
    <2> QED
      BY <2>2, <2>3, <2>4
  <1>2. tag \o c \in Seq(Symbols) /\ c \o tag \in Seq(Symbols) /\ Len(c \o tag) = m + l
        /\ (tag \o c) \o tag = tag \o (c \o tag)
    BY <1>1, ConcatProperties, ConcatAssociative
  <1>3. /\ Has(t, n, tag \o c) /\ Has(t, n + Len(tag \o c), tag)
        /\ n + Len(tag \o c \o tag) = (n + Len(tag \o c)) + l
    <2> DEFINE x == tag \o c
    <2>1. x \in Seq(Symbols) /\ Has(t, n, x \o tag) /\ tag \in Seq(Symbols)
      BY <1>1, <1>2
    <2> HIDE DEF x
    <2>2. Has(t, n, x) /\ Has(t, n + Len(x), tag) /\ n + Len(x \o tag) = (n + Len(x)) + Len(tag)
      BY <2>1, HasConcat
    <2> QED
      BY <2>2, Zenon DEF x, l
  <1>4. Has(t, n, tag) /\ n + Len(tag \o c) = b
    BY <1>1, <1>3, HasConcat
  <1>5. Has(t, a, c \o tag)
    <2>1. Has(t, n, tag \o (c \o tag))
      BY <1>2, Zenon
    <2> QED
      BY <1>1, <1>2, <2>1, HasConcat
  <1>6. Has(t, b, tag) /\ n + Len(tag \o c \o tag) = b + l
    BY <1>3, <1>4, Zenon
  <1>7. Len(t) \in Nat /\ m \in Nat /\ l \in Nat /\ b + l <= Len(t)
    <2>1. b + l <= Len(t)
      BY <1>6, Zenon DEF Has
    <2> QED
      BY <1>1, <2>1
  <1>8. t[n + 1] = "$"
    <2>1. \A i \in 1 .. l : t[n + i] = tag[i]
      BY <1>4, Zenon DEF Has
    <2>2. 1 \in 1 .. l
      BY <1>1
    <2> QED
      BY <1>1, <2>1, <2>2
  <1> HIDE DEF l, m
  <1>9. a \in Nat /\ b \in Nat /\ n < Len(t) /\ n + 1 < Len(t) /\ b < Len(t) /\ b + 1 <= Len(t) /\ a <= Len(t)
        /\ n + 1 \in Nat /\ b + 1 \in Nat
    BY <1>1, <1>7
  <1> HIDE DEF a, b
  <1>10. "$" \notin Opening(scanner) /\ "$" \notin QuotesOf("postgres", "script")
    BY DEF Opening, QuotesOf
  <1>11. /\ f[n].out = cut /\ f[n].start = start /\ f[n].depth = d /\ f[n].dollar = <<>>
         /\ f[n].quote = "none" /\ f[n].next <= n + 1
    BY <1>8, <1>10, Zenon DEF Stands, DumpScan
  <1>12. scanner \in Scanners
    BY DEF Scanners, Families, Tasks
  <1>13. f[n] \in Places0(t, Symbols)
    BY <1>9, <1>12, ScanStep DEF DumpScan
  <1>14. TagAt(t, n + 1) = tag /\ tag # <<>>
    BY <1>4, TagIsFound
  <1>15. f[n + 1] = [f[n] EXCEPT !.next = (n + 1) + l, !.dollar = tag]
    <2>1. f[n + 1] = DumpStep(t, f[n], n + 1)
      BY <1>9, <1>11, DumpScanStep
    <2> DEFINE s == f[n]
    <2>2. s.dollar = <<>> /\ s.quote = "none"
      BY <1>11
    <2> HIDE DEF s
    <2>3. DumpStep(t, s, n + 1) = [s EXCEPT !.next = (n + 1) + Len(TagAt(t, n + 1)), !.dollar = TagAt(t, n + 1)]
      BY <1>8, <1>10, <1>14, <2>2, Zenon DEF DumpStep
    <2> QED
      BY <1>14, <2>1, <2>3, Zenon DEF s, l
  <1>16. /\ f[n + 1].out = cut /\ f[n + 1].start = start /\ f[n + 1].depth = d /\ f[n + 1].dollar = tag
         /\ f[n + 1].quote = "none" /\ f[n + 1].next = (n + 1) + l
    <2> DEFINE s == f[n]
               u == f[n + 1]
               x == (n + 1) + l
    <2>1. s \in Places0(t, Symbols) /\ u = [s EXCEPT !.next = x, !.dollar = tag]
      BY <1>13, <1>15
    <2>2. s.out = cut /\ s.start = start /\ s.depth = d /\ s.quote = "none"
      BY <1>11
    <2> HIDE DEF s, u, x
    <2>3. u.out = cut /\ u.start = start /\ u.depth = d /\ u.dollar = tag /\ u.quote = "none" /\ u.next = x
      BY <2>1, <2>2 DEF Places0
    <2> QED
      BY <2>3, Zenon DEF u, x
  <1>17. f[a] = f[n + 1]
    <2>1. a \in Nat /\ n + 1 <= a /\ a <= Len(t) /\ a < (n + 1) + l
      BY <1>1, <1>7, <1>9 DEF a
    <2>2. a < f[n + 1].next
      BY <1>16, <2>1
    <2> QED
      BY <1>9, <2>1, <2>2, DumpScanSkips
  <1>18. f[b] = f[a]
    <2>1. ASSUME NEW j \in 1 .. m PROVE ~HasAt(t, a + j, tag)
      <3>1. j - 1 \in Nat /\ a + j = (a + (j - 1)) + 1 /\ (j - 1) + l <= m + l /\ a + (j - 1) \in Nat
            /\ (j - 1) + 1 = j
        BY <1>7, <1>9
      <3>2. Has(t, a + (j - 1), tag) <=> Has(c \o tag, j - 1, tag)
        <4> DEFINE x == c \o tag
                   i == j - 1
        <4>1. i \in Nat /\ i + Len(tag) <= Len(x)
          BY <1>2, <3>1 DEF l
        <4>2. x \in Seq(Symbols) /\ Has(t, a, x) /\ tag \in Seq(Symbols)
          BY <1>1, <1>2, <1>5
        <4> HIDE DEF x, i
        <4>3. Has(t, a + i, tag) <=> Has(x, i, tag)
          BY <1>9, <4>1, <4>2, HasWithin
        <4> QED
          BY <4>3, Zenon DEF x, i
      <3>3. HasAt(t, (a + (j - 1)) + 1, tag) <=> Has(t, a + (j - 1), tag)
        BY <1>1, <3>1, HasAtParts
      <3>4. HasAt(c \o tag, (j - 1) + 1, tag) <=> Has(c \o tag, j - 1, tag)
        BY <1>1, <1>2, <3>1, HasAtParts
      <3>5. ~HasAt(c \o tag, j, tag)
        BY DEF m
      <3> QED
        BY <3>1, <3>2, <3>3, <3>4, <3>5, Zenon
    <2>2. f[a].dollar = tag /\ f[a].next <= a + 1
      <3>1. (n + 1) + l <= a + 1
        BY <1>7 DEF a
      <3> QED
        BY <1>16, <1>17, <3>1
    <2>3. f[a].dollar # <<>>
      BY <1>14, <2>2
    <2>4. a + m <= Len(t) /\ a + m = b
      BY <1>9 DEF b
    <2>5. \A j \in 1 .. m : ~HasAt(t, a + j, f[a].dollar)
      BY <2>1, <2>2, Zenon
    <2>6. f[a + m] = f[a]
      BY <1>7, <1>9, <2>2, <2>3, <2>4, <2>5, DumpScanDollar
    <2> QED
      BY <2>4, <2>6, Zenon
  <1>19. /\ f[b].out = cut /\ f[b].start = start /\ f[b].depth = d /\ f[b].dollar = tag
         /\ f[b].quote = "none" /\ f[b].next <= b + 1
    <2>1. (n + 1) + l <= b + 1
      BY <1>7 DEF a, b
    <2> QED
      BY <1>16, <1>17, <1>18, <2>1
  <1>20. f[b + 1] = [f[b] EXCEPT !.next = (b + 1) + l, !.dollar = <<>>]
    <2>1. f[b + 1] = DumpStep(t, f[b], b + 1)
      BY <1>9, <1>19, DumpScanStep
    <2>2. HasAt(t, b + 1, tag)
      BY <1>1, <1>6, <1>9, HasAtParts
    <2> DEFINE s == f[b]
    <2>3. s.dollar = tag
      BY <1>19
    <2> HIDE DEF s
    <2>4. DumpStep(t, s, b + 1) = [s EXCEPT !.next = (b + 1) + Len(s.dollar), !.dollar = <<>>]
      BY <1>14, <2>2, <2>3, Zenon DEF DumpStep
    <2> QED
      BY <2>1, <2>3, <2>4, Zenon DEF s, l
  <1>21. /\ f[b + 1].out = cut /\ f[b + 1].start = start /\ f[b + 1].depth = d /\ f[b + 1].dollar = <<>>
         /\ f[b + 1].quote = "none" /\ f[b + 1].next = (b + 1) + l
    <2> DEFINE s == f[b]
               u == f[b + 1]
               x == (b + 1) + l
    <2>1. s \in Places0(t, Symbols)
      BY <1>9, <1>12, ScanStep DEF DumpScan
    <2>2. u = [s EXCEPT !.next = x, !.dollar = <<>>]
      BY <1>20
    <2>3. s.out = cut /\ s.start = start /\ s.depth = d /\ s.quote = "none"
      BY <1>19
    <2> HIDE DEF s, u, x
    <2>4. u.out = cut /\ u.start = start /\ u.depth = d /\ u.dollar = <<>> /\ u.quote = "none" /\ u.next = x
      BY <2>1, <2>2, <2>3 DEF Places0
    <2> QED
      BY <2>4, Zenon DEF u, x
  <1>22. f[b + l] = f[b + 1]
    <2>1. b + l \in Nat /\ b + 1 <= b + l /\ b + l <= Len(t) /\ b + l < (b + 1) + l
      BY <1>1, <1>7, <1>9
    <2>2. b + l < f[b + 1].next
      BY <1>21, <2>1
    <2> QED
      BY <1>9, <2>1, <2>2, DumpScanSkips
  <1>23. /\ f[b + l].out = cut /\ f[b + l].start = start /\ f[b + l].depth = d /\ f[b + l].dollar = <<>>
         /\ f[b + l].quote = "none" /\ f[b + l].next <= (b + l) + 1
    <2>1. (b + 1) + l <= (b + l) + 1
      BY <1>7, <1>9
    <2> QED
      BY <1>21, <1>22, <2>1
  <1> HIDE DEF f
  <1>24. Stands(scanner, t, b + l, "none", d, start, cut)
    BY <1>23, Zenon DEF Stands, f, DumpScan
  <1> QED
    BY <1>6, <1>24, Zenon DEF l

-----------------------------------------------------------------------------
(* The data of a COPY. *)

Data(c) == <<"nl">> \o c \o Marker

\* The first marker after the semicolon is the one that ends the data.
LEMMA FirstMarker ==
  ASSUME NEW t \in Seq(Symbols), NEW n \in Nat, NEW c \in Seq(Symbols), Has(t, n + 1, Data(c)),
         \A i \in 1 .. Len(c) + 1 : ~HasAt(Data(c), i, Marker)
  PROVE  /\ Markers(t, n + 1) # {}
         /\ (CHOOSE j \in Markers(t, n + 1) : \A k \in Markers(t, n + 1) : j <= k) = n + Len(c) + 3
         /\ n + Len(c) + 5 <= Len(t)
  <1> DEFINE M == Markers(t, n + 1)
             j == CHOOSE j \in M : \A k \in M : j <= k
             r == Data(c)
             m == Len(c)
             first == n + m + 3
  <1>1. Marker \in Seq(Symbols) /\ Len(Marker) = 3
    BY DEF Marker, Symbols
  <1>2. m \in Nat /\ n + 1 \in Nat /\ Len(t) \in Nat
    OBVIOUS
  <1>3. r \in Seq(Symbols) /\ Len(r) = m + 4 /\ Has(r, m + 1, Marker)
    <2> DEFINE h == <<"nl">> \o c
    <2>1. <<"nl">> \in Seq(Symbols) /\ Len(<<"nl">>) = 1
      BY DEF Symbols
    <2>2. h \in Seq(Symbols) /\ Len(h) = m + 1
      BY <2>1, ConcatProperties
    <2>3. r = h \o Marker
      BY Zenon DEF Data
    <2> HIDE DEF h, r
    <2>4. /\ h \o Marker \in Seq(Symbols) /\ Len(h \o Marker) = Len(h) + Len(Marker)
          /\ \A i \in 1 .. Len(h) + Len(Marker) :
               (h \o Marker)[i] = IF i <= Len(h) THEN h[i] ELSE Marker[i - Len(h)]
      BY <1>1, <2>2, ConcatProperties
    <2>5. ASSUME NEW i \in 1 .. 3 PROVE r[(m + 1) + i] = Marker[i]
      <3>1. (m + 1) + i \in 1 .. Len(h) + Len(Marker) /\ ~((m + 1) + i <= Len(h)) /\ ((m + 1) + i) - Len(h) = i
        BY <1>1, <1>2, <2>2
      <3> QED
        BY <2>3, <2>4, <3>1
    <2>6. r \in Seq(Symbols) /\ Len(r) = m + 4
      BY <1>1, <1>2, <2>2, <2>3, <2>4
    <2> QED
      BY <1>1, <2>5, <2>6 DEF Has
  <1> HIDE DEF r
  <1>4. Has(t, n + 1, r)
    BY DEF r
  <1>5. (n + 1) + (m + 4) <= Len(t)
    <2>1. (n + 1) + Len(r) <= Len(t)
      BY <1>4, Zenon DEF Has
    <2> QED
      BY <1>3, <2>1
  <1> HIDE DEF m
  <1>6. first \in M
    <2>1. m + 1 \in Nat /\ (m + 1) + Len(Marker) <= Len(r)
      BY <1>1, <1>2, <1>3
    <2>2. Has(t, (n + 1) + (m + 1), Marker)
      BY <1>1, <1>2, <1>3, <1>4, <2>1, HasWithin
    <2>3. (n + 1) + (m + 1) \in Nat /\ ((n + 1) + (m + 1)) + 1 = first
      BY <1>2
    <2>4. HasAt(t, ((n + 1) + (m + 1)) + 1, Marker)
      BY <1>1, <2>2, <2>3, HasAtParts
    <2>5. first \in (n + 1) + 1 .. Len(t)
      BY <1>2, <1>5
    <2> HIDE DEF first
    <2> QED
      BY <2>3, <2>4, <2>5 DEF Markers
  <1>7. ASSUME NEW k \in M PROVE first <= k
    <2>1. k \in (n + 1) + 1 .. Len(t) /\ HasAt(t, k, Marker)
      BY DEF Markers
    <2> SUFFICES ASSUME ~(first <= k) PROVE FALSE
      OBVIOUS
    <2> DEFINE i == k - (n + 2)
    <2>2. i \in Nat /\ i + 1 \in 1 .. m + 1 /\ k = ((n + 1) + i) + 1 /\ (n + 1) + i \in Nat /\ i + 3 <= m + 4
      BY <1>2, <2>1
    <2> HIDE DEF i
    <2>3. Has(t, (n + 1) + i, Marker)
      <3>1. HasAt(t, ((n + 1) + i) + 1, Marker)
        BY <2>1, <2>2, Zenon
      <3> QED
        BY <1>1, <2>2, <3>1, HasAtParts
    <2>4. Has(r, i, Marker)
      <3>1. i + Len(Marker) <= Len(r)
        BY <1>1, <1>3, <2>2
      <3> QED
        BY <1>1, <1>2, <1>3, <1>4, <2>2, <2>3, <3>1, HasWithin
    <2>5. HasAt(r, i + 1, Marker)
      BY <1>1, <1>3, <2>2, <2>4, HasAtParts
    <2>6. ~HasAt(r, i + 1, Marker)
      BY <2>2 DEF r, m
    <2> QED
      BY <2>5, <2>6
  <1>8. M \in SUBSET Nat
    <2>1. \A k \in M : k \in (n + 1) + 1 .. Len(t)
      BY DEF Markers
    <2> HIDE DEF M
    <2> QED
      BY <1>2, <2>1
  <1>9. first \in Nat /\ n + m + 5 <= Len(t)
    BY <1>2, <1>5
  <1> HIDE DEF M, first
  <1>10. j = first
    <2>1. \E k \in M : \A l \in M : k <= l
      BY <1>6, <1>7
    <2>2. j \in M /\ \A k \in M : j <= k
      BY <2>1
    <2> HIDE DEF j
    <2> QED
      BY <1>6, <1>7, <1>8, <2>2
  <1> QED
    BY <1>6, <1>9, <1>10, Zenon DEF M, j, first, m

\* The semicolon after the header of a COPY takes the scanner to the end of the data.
LEMMA DumpScanCopy ==
  ASSUME NEW t \in Seq(Symbols), NEW n \in Nat, NEW c \in Seq(Symbols), Has(t, n + 1, Data(c)),
         \A i \in 1 .. Len(c) + 1 : ~HasAt(Data(c), i, Marker),
         NEW d, NEW start, NEW cut, NEW end, end = n + Len(c) + 4,
         Stands(<<"postgres", "script">>, t, n, "none", d, start, cut),
         t[n + 1] = "semi", IsCopy(SubSeq(t, start, n))
  PROVE  Stands(<<"postgres", "script">>, t, end, "none", d, end + 1, Append(cut, SubSeq(t, start, end)))
  <1> DEFINE scanner == <<"postgres", "script">>
             f == DumpScan(t)
             s == f[n]
             u == f[n + 1]
             p == SubSeq(t, start, end)
             q == Append(cut, p)
  <1>1. /\ Markers(t, n + 1) # {} /\ n + Len(c) + 5 <= Len(t)
        /\ (CHOOSE j \in Markers(t, n + 1) : \A k \in Markers(t, n + 1) : j <= k) = n + Len(c) + 3
    BY FirstMarker
  <1>2. /\ n < Len(t) /\ end \in Nat /\ n + 1 <= end /\ end <= Len(t) /\ end < end + 1 /\ n + 1 \in Nat
        /\ 1 + (n + Len(c) + 3) = end
    BY <1>1
  <1>3. "semi" \notin Opening(scanner) /\ "semi" \notin QuotesOf("postgres", "script")
    BY DEF Opening, QuotesOf
  <1>4. /\ s.out = cut /\ s.start = start /\ s.depth = d /\ s.dollar = <<>>
        /\ s.quote = "none" /\ s.next <= n + 1
    BY <1>3, Zenon DEF Stands, DumpScan
  <1>5. scanner \in Scanners
    BY DEF Scanners, Families, Tasks
  <1>6. s \in Places0(t, Symbols)
    BY <1>2, <1>5, ScanStep DEF DumpScan
  <1>7. u = DumpStep(t, s, n + 1)
    BY <1>2, <1>4, DumpScanStep
  <1> HIDE DEF f, s, u
  <1>8. u = Terminate(t, s, n + 1)
    <2>1. t[n + 1] # "$" /\ t[n + 1] \notin QuotesOf("postgres", "script")
      BY <1>3
    <2> QED
      BY <1>4, <1>7, <2>1, Zenon DEF DumpStep
  <1>9. u = [s EXCEPT !.out = Append(@, p), !.start = end + 1, !.next = end + 1]
    <2>1. (n + 1) - 1 = n
      OBVIOUS
    <2>2. IsCopy(SubSeq(t, s.start, (n + 1) - 1))
      BY <1>4, <2>1, Zenon
    <2>3. 1 + (CHOOSE j \in Markers(t, n + 1) : \A k \in Markers(t, n + 1) : j <= k) = end
      BY <1>1, <1>2, Zenon
    <2>4. u = LET e == 1 + CHOOSE j \in Markers(t, n + 1) : \A k \in Markers(t, n + 1) : j <= k
              IN  [s EXCEPT !.out = Append(@, SubSeq(t, s.start, e)), !.start = e + 1, !.next = e + 1]
      BY <1>1, <1>8, <2>2, Zenon DEF Terminate
    <2> QED
      BY <1>4, <2>3, <2>4, Zenon
  <1>10. u = [s EXCEPT !.out = q, !.start = end + 1, !.next = end + 1]
    BY <1>4, <1>9, Zenon
  <1> HIDE DEF q
  <1>11. /\ u.out = q /\ u.start = end + 1 /\ u.depth = d /\ u.dollar = <<>>
         /\ u.quote = "none" /\ u.next = end + 1
    BY <1>4, <1>6, <1>10 DEF Places0
  <1>12. f[end] = u
    <2>1. end < f[n + 1].next
      BY <1>2, <1>11 DEF u
    <2> QED
      BY <1>2, <2>1, DumpScanSkips, Zenon DEF f, u
  <1>13. u.next <= end + 1
    BY <1>2, <1>11
  <1>14. Stands(scanner, t, end, "none", d, end + 1, q)
    BY <1>11, <1>12, <1>13, Zenon DEF Stands, f, DumpScan
  <1> QED
    BY <1>14, Zenon DEF q

Texts(p, q, r) == p \in Seq(Symbols) /\ q \in Seq(Symbols) /\ r \in Seq(Symbols)

\* Three texts after each other, whichever two are joined first.
LEMMA Regrouped ==
  ASSUME NEW p, NEW q, NEW r, Texts(p, q, r)
  PROVE  (p \o q) \o r = p \o (q \o r)
  BY ConcatAssociative DEF Texts

\* The same of OpenOfLonger.
LEMMA OpenBefore ==
  ASSUME NEW p, NEW q, NEW start \in 1 .. Len(p) + 1, Texts(p, q, q)
  PROVE  Open(p \o q, start) = Open(p, start) \o q /\ SubSeq(p \o q, start, Len(p)) = Open(p, start)
  BY OpenOfLonger DEF Texts

CopyText(c) == <<"COPY", "w", "semi", "nl">> \o c \o <<"nl", "\\.">>

\* The header of a COPY, its semicolon and its data.
LEMMA CopyTextParts ==
  ASSUME NEW c \in Seq(Symbols)
  PROVE  /\ CopyText(c) \in Seq(Symbols) /\ Len(CopyText(c)) = Len(c) + 6
         /\ Data(c) \in Seq(Symbols)
         /\ CopyText(c) \o <<"nl">> = <<"COPY", "w">> \o (<<"semi">> \o Data(c))
  <1> DEFINE verb == <<"COPY", "w">>
             stop == <<"semi">>
             line == <<"nl">>
             header == <<"COPY", "w", "semi", "nl">>
             close == <<"nl", "\\.">>
  <1>v. verb \in Seq(Symbols) BY DEF Symbols
  <1>s. stop \in Seq(Symbols) BY DEF Symbols
  <1>l. line \in Seq(Symbols) BY DEF Symbols
  <1>h. header \in Seq(Symbols) BY DEF Symbols
  <1>e. close \in Seq(Symbols) BY DEF Symbols
  <1>m. Marker \in Seq(Symbols) BY DEF Symbols, Marker
  <1>1. header = verb \o (stop \o line) /\ Marker = close \o line /\ Len(header) = 4 /\ Len(close) = 2
    BY DEF Marker
  <1> HIDE DEF verb, stop, line, header, close
  <1> DEFINE p == header \o c
             r == c \o Marker
             q == line \o c
  <1>p. p \in Seq(Symbols)
    BY <1>h, ConcatProperties
  <1>0. Len(p) = Len(header) + Len(c)
    BY <1>h, ConcatProperties
  <1>r. r \in Seq(Symbols)
    BY <1>m, ConcatProperties
  <1>q. q \in Seq(Symbols)
    BY <1>l, ConcatProperties
  <1>2. r = c \o Marker /\ p = header \o c /\ q = line \o c
    OBVIOUS
  <1>3. p \o Marker = header \o r
    BY <1>h, <1>m, ConcatAssociative
  <1>4. q \o Marker = line \o r
    BY <1>l, <1>m, ConcatAssociative
  <1> HIDE DEF p, q, r
  <1>5. p \o close \in Seq(Symbols) /\ Len(p \o close) = Len(c) + 6
    <2>1. p \o close \in Seq(Symbols) /\ Len(p \o close) = Len(p) + Len(close)
      BY <1>p, <1>e, ConcatProperties
    <2>2. Len(c) \in Nat
      BY LenProperties
    <2> QED
      BY <1>0, <1>1, <2>1, <2>2
  <1>6. q \o Marker \in Seq(Symbols)
    BY <1>q, <1>m, ConcatProperties
  <1>7. (p \o close) \o line = p \o (close \o line)
    BY <1>p, <1>e, <1>l, ConcatAssociative
  <1>8. stop \o line \in Seq(Symbols)
    BY <1>s, <1>l, ConcatProperties
  <1>9. (verb \o (stop \o line)) \o r = verb \o ((stop \o line) \o r)
    <2> DEFINE m == stop \o line
    <2>1. m \in Seq(Symbols)
      BY <1>8
    <2> HIDE DEF m
    <2>2. (verb \o m) \o r = verb \o (m \o r)
      BY <1>v, <1>r, <2>1, ConcatAssociative
    <2> QED
      BY <2>2, Zenon DEF m
  <1>10. (stop \o line) \o r = stop \o (line \o r)
    BY <1>s, <1>l, <1>r, ConcatAssociative
  <1>11. CopyText(c) = p \o close /\ Data(c) = q \o Marker
    BY Zenon DEF CopyText, Data, header, close, line, p, q
  <1>12. (p \o close) \o line = verb \o (stop \o (q \o Marker))
    BY <1>1, <1>3, <1>4, <1>7, <1>9, <1>10, Zenon
  <1> QED
    BY <1>5, <1>6, <1>11, <1>12, Zenon DEF line, verb, stop

\* verb COPY is a piece with its data, whatever follows.
LEMMA SettledCopy ==
  ASSUME NEW x \in Seq(Symbols), NEW c \in Seq(Symbols), NEW d, NEW start, NEW cut,
         Settled(<<"postgres", "script">>, x, d, start, cut),
         IsCopy(Open(x, start) \o <<"COPY", "w">>),
         \A i \in 1 .. Len(c) + 1 : ~HasAt(Data(c), i, Marker)
  PROVE  /\ Settled(<<"postgres", "script">>, x \o (CopyText(c) \o <<"nl">>), d, Len(x \o CopyText(c)) + 1,
                    Append(cut, Open(x, start) \o CopyText(c)))
         /\ Open(x \o (CopyText(c) \o <<"nl">>), Len(x \o CopyText(c)) + 1) = <<"nl">>
  <1> DEFINE scanner == <<"postgres", "script">>
             copy == CopyText(c)
             verb == <<"COPY", "w">>
             stop == <<"semi">>
             line == <<"nl">>
             y == x \o verb
             w == x \o copy
             z == stop \o Data(c)
             end == Len(w)
             whole == Append(cut, Open(x, start) \o copy)
  <1>v. verb \in Seq(Symbols)
    BY DEF Symbols
  <1>s. stop \in Seq(Symbols)
    BY DEF Symbols
  <1>l. line \in Seq(Symbols)
    BY DEF Symbols
  <1>1. Len(verb) = 2 /\ Len(stop) = 1 /\ Len(line) = 1 /\ stop[1] = "semi" /\ line[1] = "nl" /\ Range(verb) = {"COPY", "w"}
    BY DEF Range
  <1>k. copy \in Seq(Symbols)
    BY CopyTextParts, Zenon
  <1>d. Data(c) \in Seq(Symbols)
    BY CopyTextParts, Zenon
  <1>2. Len(copy) = Len(c) + 6 /\ copy \o line = verb \o z
    BY CopyTextParts, Zenon
  <1>3. scanner \in Scanners
    BY DEF Scanners, Families, Tasks
  <1> HIDE DEF copy, verb, stop, line
  <1>y. y \in Seq(Symbols)
    BY <1>v, ConcatProperties
  <1>z. z \in Seq(Symbols)
    BY <1>s, <1>d, ConcatProperties
  <1>w. w \in Seq(Symbols)
    BY <1>k, ConcatProperties
  <1>4. Len(y) = Len(x) + Len(verb)
    BY <1>v, ConcatProperties
  <1>5. end = Len(x) + Len(copy)
    BY <1>k, ConcatProperties
  <1>6. end = Len(y) + Len(c) + 4 /\ Len(x) \in Nat /\ Len(c) \in Nat /\ Len(y) \in Nat /\ end \in Nat
    <2>1. Len(x) \in Nat /\ Len(c) \in Nat
      BY LenProperties
    <2> HIDE DEF y, w, end
    <2> QED
      BY <1>1, <1>2, <1>4, <1>5, <2>1
  <1>7. start \in 1 .. Len(x) + 1
    BY Zenon DEF Settled
  <1>8. Settled(scanner, y, d, start, cut)
    <2>1. Range(verb) \cap ActsUpon(scanner) = {}
      BY <1>1 DEF ActsUpon
    <2>2. Goes(scanner, verb, "none", "none")
      BY <1>v, <1>3, <2>1, GoesInertList
    <2> QED
      BY <1>v, <2>2, SettledGoes
  <1>9. Open(y, start) = Open(x, start) \o verb /\ start \in 1 .. Len(y) + 1
    <2>1. Open(y, start) = Open(x, start) \o verb
      BY <1>v, <1>7, OpenOfLonger
    <2> HIDE DEF y
    <2> QED
      BY <1>1, <1>4, <1>6, <1>7, <2>1
  <1>10. start \in 1 .. Len(w) + 1 /\ Open(w, start) = Open(x, start) \o copy
    <2>1. Open(w, start) = Open(x, start) \o copy
      BY <1>k, <1>7, OpenOfLonger
    <2> HIDE DEF w
    <2> QED
      BY <1>2, <1>5, <1>6, <1>7, <2>1
  <1>11. x \o (copy \o line) = w \o line /\ x \o (copy \o line) = y \o z
    <2>1. (x \o copy) \o line = x \o (copy \o line)
      BY <1>k, <1>l, ConcatAssociative
    <2> HIDE DEF z
    <2>2. (x \o verb) \o z = x \o (verb \o z)
      <3>1. Texts(x, verb, z)
        BY <1>v, <1>z DEF Texts
      <3> QED
        BY <3>1, Regrouped
    <2> QED
      BY <1>2, <2>1, <2>2, Zenon DEF z
  <1> HIDE DEF y, w
  <1>12. w \o line \in Seq(Symbols)
    BY <1>w, <1>l, ConcatProperties
  <1>0. Len(w \o line) = end + 1
    <2>1. Len(w \o line) = Len(w) + Len(line)
      BY <1>w, <1>l, ConcatProperties
    <2> QED
      BY <1>1, <2>1
  <1>13. end + 1 \in 1 .. Len(w) + 1
    BY <1>6
  <1>14. Open(w \o line, end + 1) = line
    <2>1. Open(w \o line, end + 1) = Open(w, end + 1) \o line
      <3>1. Texts(w, line, line)
        BY <1>w, <1>l DEF Texts
      <3> QED
        BY <1>13, <3>1, OpenBefore, Zenon
    <2>2. Open(w, end + 1) = <<>>
      BY SubSeqEmpty, <1>6 DEF Open
    <2>3. <<>> \o line = line
      BY <1>l, ConcatEmptySeq
    <2> QED
      BY <2>1, <2>2, <2>3, Zenon
  <1>15. ASSUME NEW u \in Seq(Symbols)
         PROVE  Stands(scanner, (w \o line) \o u, end + 1, "none", d, end + 1, whole)
    <2> DEFINE t == (w \o line) \o u
               v == line \o u
    <2>v. v \in Seq(Symbols)
      BY <1>l, ConcatProperties
    <2>1. t = w \o v
      <3>1. Texts(w, line, u)
        BY <1>w, <1>l DEF Texts
      <3> QED
        BY <3>1, Regrouped
    <2>2. t = y \o (z \o u)
      <3> HIDE DEF z
      <3>1. (y \o z) \o u = y \o (z \o u)
        <4>1. Texts(y, z, u)
          BY <1>y, <1>z DEF Texts
        <4> QED
          BY <4>1, Regrouped
      <3> QED
        BY <1>11, <3>1, Zenon
    <2>z. z \o u \in Seq(Symbols)
      <3> HIDE DEF z
      <3> QED
        BY <1>z, ConcatProperties
    <2>3. t \in Seq(Symbols)
      BY <1>12, ConcatProperties
    <2> HIDE DEF t, v
    <2>4. Has(t, Len(y), z)
      <3>1. Has(y \o (z \o u), Len(y), z)
        <4> HIDE DEF z
        <4> QED
          BY <1>y, <1>z, HasNext
      <3> QED
        BY <2>2, <3>1, Zenon
    <2>5. Has(t, end, line)
      <3>1. Has(w \o (line \o u), Len(w), line)
        BY <1>l, <1>w, HasNext
      <3> QED
        BY <2>1, <3>1, Zenon DEF v
    <2>6. Has(t, Len(y), stop) /\ Has(t, Len(y) + Len(stop), Data(c))
      <3>1. Len(y) \in Nat
        BY <1>6
      <3> QED
        BY <1>s, <1>d, <2>3, <2>4, <3>1, HasConcat
    <2>7. t[Len(y) + 1] = "semi" /\ Has(t, Len(y) + 1, Data(c))
      <3>1. \A i \in 1 .. Len(stop) : t[Len(y) + i] = stop[i]
        BY <2>6, Zenon DEF Has
      <3>2. t[Len(y) + 1] = stop[1]
        BY <1>1, <3>1
      <3> QED
        BY <1>1, <2>6, <3>2
    <2>8. Stands(scanner, t, Len(y), "none", d, start, cut)
      <3>1. Stands(scanner, y \o (z \o u), Len(y), "none", d, start, cut)
        BY <1>8, <2>2, <2>z, Zenon DEF Settled
      <3> QED
        BY <2>2, <3>1, Zenon
    <2>9. IsCopy(SubSeq(t, start, Len(y)))
      <3>1. SubSeq(y \o (z \o u), start, Len(y)) = Open(y, start)
        <4> DEFINE r == z \o u
        <4>1. r \in Seq(Symbols) /\ start \in 1 .. Len(y) + 1
          BY <1>9, <2>z
        <4> HIDE DEF r
        <4> SUFFICES SubSeq(y \o r, start, Len(y)) = Open(y, start)
          BY Zenon DEF r
        <4> QED
          BY <1>y, <4>1, OpenOfLonger
      <3> QED
        BY <1>9, <2>2, <3>1, Zenon DEF verb
    <2>10. SubSeq(t, start, end) = Open(x, start) \o copy
      <3>1. SubSeq(w \o v, start, Len(w)) = Open(w, start)
        <4>1. start \in 1 .. Len(w) + 1
          BY <1>10
        <4> QED
          BY <1>w, <2>v, <4>1, OpenOfLonger
      <3> QED
        BY <1>10, <2>1, <3>1, Zenon
    <2>11. Stands(scanner, t, end, "none", d, end + 1, Append(cut, SubSeq(t, start, end)))
      BY <1>4, <1>6, <2>3, <2>7, <2>8, <2>9, DumpScanCopy
    <2>12. Stands(scanner, t, end, "none", d, end + 1, whole)
      BY <2>10, <2>11, Zenon
    <2>13. Goes(scanner, line, "none", "none")
      <3>1. "nl" \in Symbols \ ActsUpon(scanner)
        BY DEF Symbols, ActsUpon
      <3> QED
        BY <1>3, <3>1, GoesInert, Zenon DEF line
    <2>14. Stands(scanner, t, end + Len(line), "none", d, end + 1, whole)
      BY <1>6, <2>3, <2>5, <2>12, <2>13, Zenon DEF Goes
    <2> QED
      BY <1>1, <2>14, Zenon DEF t
  <1>16. end + 1 \in 1 .. Len(w \o line) + 1
    BY <1>0, <1>6
  <1>17. Settled(scanner, w \o line, d, end + 1, whole)
    BY <1>0, <1>12, <1>15, <1>16, Zenon DEF Settled
  <1> QED
    BY <1>11, <1>14, <1>17, Zenon DEF copy, line, w

\* What is added to the last of a list.
Longer(m, k) == [m EXCEPT ![Len(m)] = @ \o k]

LEMMA LastGrows ==
  ASSUME NEW cut \in Seq(Seq(Symbols)), NEW p \in Seq(Symbols), NEW k \in Seq(Symbols),
         NEW m, m = Append(cut, p)
  PROVE  Longer(m, k) = Append(cut, p \o k)
  <1> DEFINE r == p \o k
             e == Append(cut, r)
             f == [m EXCEPT ![Len(m)] = @ \o k]
  <1>1. r \in Seq(Symbols)
    BY ConcatProperties
  <1>2. /\ Len(m) = Len(cut) + 1 /\ m[Len(cut) + 1] = p /\ Len(cut) \in Nat
        /\ \A i \in 1 .. Len(cut) : m[i] = cut[i]
    BY AppendParts
  <1>3. DOMAIN m = 1 .. Len(cut) + 1 /\ m = [i \in 1 .. Len(cut) + 1 |-> m[i]]
    BY AppendParts
  <1>4. m[Len(m)] \o k = r
    BY <1>2, Zenon
  <1> HIDE DEF r
  <1>5. f = [m EXCEPT ![Len(m)] = r]
    BY <1>4, Zenon
  <1>6. (\A i \in 1 .. Len(cut) : e[i] = cut[i]) /\ e[Len(cut) + 1] = r
    BY <1>1, AppendParts
  <1>7. DOMAIN e = 1 .. Len(cut) + 1 /\ e = [i \in 1 .. Len(cut) + 1 |-> e[i]]
    BY <1>1, AppendParts
  <1> HIDE DEF e, f
  <1>9. f = [i \in DOMAIN m |-> IF i = Len(m) THEN r ELSE m[i]]
    BY <1>5, Zenon
  <1>10. f = [i \in 1 .. Len(cut) + 1 |-> IF i = Len(cut) + 1 THEN r ELSE m[i]]
    BY <1>2, <1>3, <1>9, Zenon
  <1>11. \A i \in 1 .. Len(cut) + 1 : (IF i = Len(cut) + 1 THEN r ELSE m[i]) = e[i]
    BY <1>2, <1>6
  <1>8. f = e
    BY <1>7, <1>10, <1>11
  <1> QED
    BY <1>8, Zenon DEF e, f, r, Longer

\* A piece that is not the header of a COPY does not become one, whatever is added
\* that begins otherwise.
LEMMA NoCopyGrows ==
  ASSUME NEW p \in Seq(Symbols), NEW k \in Seq(Symbols), ~IsCopy(p), k # <<>>,
         k[1] \notin {"COPY", "nl"}
  PROVE  ~IsCopy(p \o k)
  <1> DEFINE c == p \o k
  <1>1. Len(c) = Len(p) + Len(k) /\ c \in Seq(Symbols) /\ Len(p) \in Nat /\ Len(k) \in Nat /\ Len(k) # 0
    BY ConcatProperties, LenProperties
  <1>2. (\A i \in 1 .. Len(p) : c[i] = p[i]) /\ c[Len(p) + 1] = k[1]
    BY <1>1, ConcatProperties
  <1> HIDE DEF c
  <1>3. SUFFICES ASSUME NEW i \in DOMAIN c, c[i] = "COPY", \A j \in 1 .. i - 1 : c[j] = "nl" PROVE FALSE
    BY DEF IsCopy, c
  <1>4. i \in Nat /\ i >= 1
    BY <1>1
  <1>5. CASE i <= Len(p)
    <2>1. i \in 1 .. Len(p) /\ \A j \in 1 .. i - 1 : j \in 1 .. Len(p)
      BY <1>1, <1>4, <1>5
    <2>2. p[i] = "COPY" /\ \A j \in 1 .. i - 1 : p[j] = "nl"
      BY <1>2, <1>3, <2>1, Zenon
    <2>3. i \in DOMAIN p
      BY <2>1
    <2> QED
      BY <2>2, <2>3, Zenon DEF IsCopy
  <1>6. CASE i = Len(p) + 1
    BY <1>2, <1>3, <1>6
  <1>7. CASE i > Len(p) + 1
    BY <1>1, <1>2, <1>3, <1>4, <1>7
  <1> QED
    BY <1>1, <1>4, <1>5, <1>6, <1>7

\* A COPY is recognised after empty lines.
LEMMA CopyIsFound ==
  ASSUME NEW p \in Seq(Symbols), Range(p) \subseteq {"nl"}
  PROVE  IsCopy(p \o <<"COPY", "w">>)
  <1> DEFINE k == <<"COPY", "w">>
             c == p \o k
  <1>1. k \in Seq(Symbols) /\ Len(k) = 2 /\ k[1] = "COPY"
    BY DEF Symbols
  <1>k. k \in Seq(Symbols)
    BY <1>1
  <1> HIDE DEF k
  <1>0. Len(c) = Len(p) + Len(k) /\ Len(p) \in Nat /\ c \in Seq(Symbols) /\ DOMAIN p = 1 .. Len(p)
    BY <1>k, ConcatProperties, LenProperties
  <1>2. \A i \in 1 .. Len(p) : c[i] = p[i]
    BY <1>k, ConcatProperties
  <1>5. c[Len(p) + 1] = k[1]
    <2>1. \A i \in 1 .. Len(k) : c[Len(p) + i] = k[i]
      BY <1>k, ConcatProperties
    <2>2. 1 \in 1 .. Len(k)
      BY <1>1
    <2> QED
      BY <2>1, <2>2, Zenon
  <1> HIDE DEF c
  <1>3. \A i \in 1 .. Len(p) : c[i] = "nl"
    BY <1>0, <1>2 DEF Range
  <1>6. Len(p) + 1 \in DOMAIN c /\ (Len(p) + 1) - 1 = Len(p)
    BY <1>0, <1>1
  <1>4. IsCopy(c)
    BY <1>1, <1>3, <1>5, <1>6, Zenon DEF IsCopy
  <1> QED
    BY <1>4, Zenon DEF c, k

\* An empty piece and an empty line are not the header of a COPY.
LEMMA NoCopyAtFirst == ~IsCopy(<<>>) /\ ~IsCopy(<<"nl">>)
  BY DEF IsCopy

\* After x, within d parentheses, the scanner has cut m from it, whatever follows.
\* In a dump what is open is not the header of a COPY.
Cutting(scanner, x, d, m) ==
  \E start : \E cut \in Seq(Seq(Symbols)) :
    /\ Settled(scanner, x, d, start, cut)
    /\ m = Append(cut, Open(x, start))
    /\ scanner = <<"postgres", "script">> => ~IsCopy(Open(x, start))

LEMMA CuttingAtFirst ==
  ASSUME NEW scanner \in Scanners
  PROVE  Cutting(scanner, <<>>, 0, << <<>> >>)
  <1>1. Settled(scanner, <<>>, 0, 1, <<>>) /\ Open(<<>>, 1) = <<>>
    BY SettledAtFirst
  <1>2. <<>> \in Seq(Seq(Symbols)) /\ << <<>> >> = Append(<<>>, <<>>)
    BY EmptySeq
  <1>3. << <<>> >> = Append(<<>>, Open(<<>>, 1)) /\ ~IsCopy(Open(<<>>, 1))
    BY <1>1, <1>2, NoCopyAtFirst, Zenon
  <1> QED
    BY <1>1, <1>2, <1>3, Zenon DEF Cutting

LEMMA CuttingAtLast ==
  ASSUME NEW scanner, NEW x \in Seq(Symbols), NEW d, NEW m, Cutting(scanner, x, d, m)
  PROVE  Parts(scanner, x) = m
  <1>1. PICK start : \E cut \in Seq(Seq(Symbols)) : Settled(scanner, x, d, start, cut) /\ m = Append(cut, Open(x, start))
    BY Zenon DEF Cutting
  <1>2. PICK cut \in Seq(Seq(Symbols)) : Settled(scanner, x, d, start, cut) /\ m = Append(cut, Open(x, start))
    BY <1>1, Zenon
  <1> QED
    BY <1>2, SettledAtLast

\* Over a construct that the scanner goes through the last piece grows.
LEMMA CuttingGoes ==
  ASSUME NEW scanner, NEW x \in Seq(Symbols), NEW d, NEW m, Cutting(scanner, x, d, m),
         NEW k \in Seq(Symbols), Goes(scanner, k, "none", "none"),
         scanner = <<"postgres", "script">> => k # <<>> /\ k[1] \notin {"COPY", "nl"}
  PROVE  Cutting(scanner, x \o k, d, Longer(m, k))
  <1>1. PICK start : \E cut \in Seq(Seq(Symbols)) :
                       /\ Settled(scanner, x, d, start, cut) /\ m = Append(cut, Open(x, start))
                       /\ scanner = <<"postgres", "script">> => ~IsCopy(Open(x, start))
    BY Zenon DEF Cutting
  <1>2. PICK cut \in Seq(Seq(Symbols)) :
                       /\ Settled(scanner, x, d, start, cut) /\ m = Append(cut, Open(x, start))
                       /\ scanner = <<"postgres", "script">> => ~IsCopy(Open(x, start))
    BY <1>1, Zenon
  <1>3. start \in 1 .. Len(x) + 1
    BY <1>2, Zenon DEF Settled
  <1>4. Settled(scanner, x \o k, d, start, cut)
    BY <1>2, SettledGoes
  <1>5. Open(x \o k, start) = Open(x, start) \o k /\ Open(x, start) \in Seq(Symbols)
    BY <1>3, OpenOfLonger
  <1>6. Longer(m, k) = Append(cut, Open(x, start) \o k)
    <2> DEFINE p == Open(x, start)
    <2>1. p \in Seq(Symbols) /\ m = Append(cut, p)
      BY <1>2, <1>5, Zenon
    <2> HIDE DEF p
    <2>2. Longer(m, k) = Append(cut, p \o k)
      BY <2>1, LastGrows
    <2> QED
      BY <2>2, Zenon DEF p
  <1>7. scanner = <<"postgres", "script">> => ~IsCopy(Open(x, start) \o k)
    BY <1>2, <1>5, NoCopyGrows
  <1> QED
    BY <1>4, <1>5, <1>6, <1>7, Zenon DEF Cutting

\* At a separator the next piece begins.
LEMMA CuttingSeparator ==
  ASSUME NEW scanner \in Scanners, NEW x \in Seq(Symbols), NEW d, NEW m, Cutting(scanner, x, d, m), NEW y,
         \/ scanner[2] = "script" /\ y = "semi"
         \/ scanner[2] = "list" /\ y = "comma" /\ d = 0
         \/ scanner = <<"generic", "values">> /\ y = "comma" /\ d = 0
  PROVE  Cutting(scanner, x \o <<y>>, d, Append(m, <<>>))
  <1>1. PICK start : \E cut \in Seq(Seq(Symbols)) :
                       /\ Settled(scanner, x, d, start, cut) /\ m = Append(cut, Open(x, start))
                       /\ scanner = <<"postgres", "script">> => ~IsCopy(Open(x, start))
    BY Zenon DEF Cutting
  <1>2. PICK cut \in Seq(Seq(Symbols)) :
                       /\ Settled(scanner, x, d, start, cut) /\ m = Append(cut, Open(x, start))
                       /\ scanner = <<"postgres", "script">> => ~IsCopy(Open(x, start))
    BY <1>1, Zenon
  <1>3. y \in Symbols \ Opening(scanner)
    <2>1. y \in {"semi", "comma"}
      OBVIOUS
    <2> QED
      BY <2>1 DEF Symbols, Opening, QuotesOf
  <1>4. scanner[2] = "script" => scanner = <<"generic", "script">> \/ scanner = <<"postgres", "script">>
    BY DEF Scanners, Families, Tasks
  <1>5. Takes(scanner, x, y, d, start, cut, d, Len(x) + 2, Append(cut, Open(x, start)))
    BY <1>2, <1>4, TakesSeparator
  <1>6. Len(x) + 2 \in 1 .. Len(x) + 2 /\ start \in 1 .. Len(x) + 1
    BY <1>2, LenProperties DEF Settled
  <1>7. Settled(scanner, x \o <<y>>, d, Len(x) + 2, Append(cut, Open(x, start)))
    BY <1>2, <1>3, <1>5, <1>6, SettledTakes
  <1>8. Open(x \o <<y>>, Len(x) + 2) = <<>>
    BY <1>3, OpenOfNew
  <1>9. m \in Seq(Seq(Symbols))
    <2> DEFINE p == Open(x, start)
    <2>1. p \in Seq(Symbols)
      <3>1. <<>> \in Seq(Symbols)
        BY EmptySeq
      <3> QED
        BY <1>6, <3>1, OpenOfLonger
    <2> HIDE DEF p
    <2>2. Append(cut, p) \in Seq(Seq(Symbols))
      BY <2>1, AppendProperties
    <2> QED
      BY <1>2, <2>2, Zenon DEF p
  <1>10. Settled(scanner, x \o <<y>>, d, Len(x) + 2, m) /\ Append(m, <<>>) = Append(m, Open(x \o <<y>>, Len(x) + 2))
         /\ ~IsCopy(Open(x \o <<y>>, Len(x) + 2))
    BY <1>2, <1>7, <1>8, NoCopyAtFirst, Zenon
  <1> QED
    BY <1>9, <1>10, Zenon DEF Cutting

\* A parenthesis, or a comma within them, is text of the open piece.
LEMMA CuttingParenthesis ==
  ASSUME NEW scanner \in Scanners, scanner[2] = "list" \/ scanner = <<"generic", "values">>,
         NEW x \in Seq(Symbols), NEW d \in Nat, NEW m, Cutting(scanner, x, d, m)
  PROVE  /\ Cutting(scanner, x \o <<"(">>, d + 1, Longer(m, <<"(">>))
         /\ Cutting(scanner, x \o <<")">>, d - 1, Longer(m, <<")">>))
         /\ d # 0 => Cutting(scanner, x \o <<"comma">>, d, Longer(m, <<"comma">>))
  <1>1. PICK start : \E cut \in Seq(Seq(Symbols)) :
                       Settled(scanner, x, d, start, cut) /\ m = Append(cut, Open(x, start))
    BY Zenon DEF Cutting
  <1>2. PICK cut \in Seq(Seq(Symbols)) :
                       Settled(scanner, x, d, start, cut) /\ m = Append(cut, Open(x, start))
    BY <1>1, Zenon
  <1>3. start \in 1 .. Len(x) + 1 /\ start \in 1 .. Len(x) + 2
    <2>1. start \in 1 .. Len(x) + 1
      BY <1>2, Zenon DEF Settled
    <2> QED
      BY <2>1, LenProperties
  <1>4. scanner # <<"postgres", "script">>
    OBVIOUS
  <1>5. ASSUME NEW y \in Symbols \ Opening(scanner), NEW d1, Takes(scanner, x, y, d, start, cut, d1, start, cut)
        PROVE  Cutting(scanner, x \o <<y>>, d1, Longer(m, <<y>>))
    <2> DEFINE k == <<y>>
               p == Open(x, start)
    <2>1. k \in Seq(Symbols)
      OBVIOUS
    <2>2. Settled(scanner, x \o k, d1, start, cut)
      BY <1>2, <1>3, <1>5, SettledTakes
    <2> HIDE DEF k
    <2>3. Open(x \o k, start) = p \o k /\ p \in Seq(Symbols)
      <3>1. start \in 1 .. Len(x) + 1
        BY <1>3
      <3> QED
        BY <2>1, <3>1, OpenOfLonger
    <2> HIDE DEF p
    <2>4. m = Append(cut, p)
      BY <1>2, Zenon DEF p
    <2>5. Longer(m, k) = Append(cut, p \o k)
      BY <2>1, <2>3, <2>4, LastGrows
    <2>6. Longer(m, k) = Append(cut, Open(x \o k, start))
      BY <2>3, <2>5, Zenon
    <2> QED
      BY <1>4, <2>2, <2>6, Zenon DEF Cutting, k
  <1>6. "(" \in Symbols \ Opening(scanner) /\ ")" \in Symbols \ Opening(scanner) /\ "comma" \in Symbols \ Opening(scanner)
    BY DEF Symbols, Opening, QuotesOf
  <1>7. /\ Takes(scanner, x, "(", d, start, cut, d + 1, start, cut)
        /\ Takes(scanner, x, ")", d, start, cut, d - 1, start, cut)
        /\ d # 0 => Takes(scanner, x, "comma", d, start, cut, d, start, cut)
    <2>1. d \in Int
      OBVIOUS
    <2> QED
      BY <2>1, TakesParentheses
  <1> QED
    BY <1>5, <1>6, <1>7, Zenon

\* A COPY is a piece with its data, and the next begins with the end of the line.
LEMMA CuttingCopy ==
  ASSUME NEW x \in Seq(Symbols), NEW d, NEW m, Cutting(<<"postgres", "script">>, x, d, m),
         Range(Last(m)) \subseteq {"nl"}, NEW c \in Seq(Symbols),
         \A i \in 1 .. Len(c) + 1 : ~HasAt(Data(c), i, Marker)
  PROVE  Cutting(<<"postgres", "script">>, x \o (CopyText(c) \o <<"nl">>), d,
                 Append(Longer(m, CopyText(c)), <<"nl">>))
  <1> DEFINE scanner == <<"postgres", "script">>
             k == CopyText(c)
             t == x \o (k \o <<"nl">>)
             begin == Len(x \o k) + 1
  <1>1. PICK start : \E cut \in Seq(Seq(Symbols)) :
                       Settled(scanner, x, d, start, cut) /\ m = Append(cut, Open(x, start))
    BY Zenon DEF Cutting
  <1>2. PICK cut \in Seq(Seq(Symbols)) :
                       Settled(scanner, x, d, start, cut) /\ m = Append(cut, Open(x, start))
    BY <1>1, Zenon
  <1> DEFINE p == Open(x, start)
  <1>3. p \in Seq(Symbols)
    <2>1. start \in 1 .. Len(x) + 1
      BY <1>2, Zenon DEF Settled
    <2>2. <<>> \in Seq(Symbols)
      BY EmptySeq
    <2> QED
      BY <2>1, <2>2, OpenOfLonger
  <1>4. k \in Seq(Symbols)
    BY CopyTextParts, Zenon
  <1> HIDE DEF k
  <1>5. p \o k \in Seq(Symbols)
    <2> HIDE DEF p
    <2> QED
      BY <1>3, <1>4, ConcatProperties
  <1>6. Last(m) = p
    <2> HIDE DEF p
    <2>1. m = Append(cut, p)
      BY <1>2, Zenon DEF p
    <2>2. m[Len(m)] = p
      BY <1>3, <2>1, AppendProperties
    <2> QED
      BY <2>2, Zenon DEF Last
  <1>7. IsCopy(p \o <<"COPY", "w">>)
    <2> HIDE DEF p
    <2>1. Range(p) \subseteq {"nl"}
      BY <1>6, Zenon
    <2> QED
      BY <1>3, <2>1, CopyIsFound
  <1>8. Settled(scanner, t, d, begin, Append(cut, p \o k)) /\ Open(t, begin) = <<"nl">>
    BY <1>2, <1>7, SettledCopy, Zenon DEF k
  <1>9. Longer(m, k) = Append(cut, p \o k)
    <2> HIDE DEF p
    <2>1. m = Append(cut, p)
      BY <1>2, Zenon DEF p
    <2> QED
      BY <1>3, <1>4, <2>1, LastGrows
  <1> HIDE DEF t, begin, p
  <1> DEFINE r == p \o k
             e == Append(cut, r)
  <1>10. e \in Seq(Seq(Symbols))
    <2> HIDE DEF r
    <2>1. r \in Seq(Symbols)
      BY <1>5, Zenon DEF r
    <2> QED
      BY <2>1, AppendProperties
  <1> HIDE DEF e
  <1>11. Settled(scanner, t, d, begin, e) /\ Append(e, <<"nl">>) = Append(e, Open(t, begin)) /\ ~IsCopy(Open(t, begin))
    BY <1>8, NoCopyAtFirst, Zenon DEF e
  <1>12. Cutting(scanner, t, d, Append(e, <<"nl">>))
    BY <1>10, <1>11, Zenon DEF Cutting
  <1> QED
    BY <1>9, <1>12, Zenon DEF e, k, t

\* The scanners by family and task.
LEMMA ReaderParts ==
  ASSUME reader \in Scanners
  PROVE  /\ reader = <<Family, Task>> /\ Family \in Families /\ Task \in Tasks
         /\ Special = ActsUpon(reader) \cup Early
         /\ Early \cap {"sq", "dq", "bq", "[", "]", "w", "--", "nl", "$", "\\"} = {}
         /\ reader # <<"generic", "script">> => Early = {}
         /\ reader # <<"postgres", "values">> =>
              Opening(reader) = {"sq", "dq"} \cup (IF Family = "generic" THEN {"bq"} ELSE {})
                                \cup (IF Family = "generic" /\ Task # "script" THEN {"["} ELSE {})
  <1>1. PICK family \in Families, task \in Tasks : reader = <<family, task>>
    BY DEF Scanners
  <1>2. Family = family /\ Task = task
    BY <1>1 DEF Family, Task
  <1>3. /\ reader = <<"postgres", "script">> <=> family = "postgres" /\ task = "script"
        /\ reader = <<"generic", "script">> <=> family = "generic" /\ task = "script"
        /\ reader = <<"postgres", "values">> <=> family = "postgres" /\ task = "values"
        /\ reader[1] = family /\ reader[2] = task
    BY <1>1
  <1>4. Early = IF family = "generic" /\ task = "script" THEN {"GO", "NUL", "DELIMITER//", "DELIMITERsemi"} ELSE {}
    BY <1>3 DEF Early, Delimiters
  <1>5. CASE family = "postgres" /\ task = "script"
    <2>1. Special = {"sq", "dq", "$", "semi"} /\ ActsUpon(reader) = {"sq", "dq", "$", "semi"} /\ Early = {}
      BY <1>3, <1>4, <1>5 DEF Special, ActsUpon
    <2> QED
      BY <1>1, <1>2, <1>3, <1>5, <2>1 DEF Opening, QuotesOf
  <1>6. CASE family = "generic" /\ task = "script"
    <2>1. Special = {"sq", "dq", "bq", "semi"} \cup Early /\ ActsUpon(reader) = {"sq", "dq", "bq", "semi"}
      BY <1>3, <1>6 DEF Special, ActsUpon
    <2> QED
      BY <1>1, <1>2, <1>3, <1>4, <1>6, <2>1 DEF Opening, QuotesOf
  <1>7. CASE family = "postgres" /\ task = "values"
    <2>1. Special = {"(", ")"} /\ ActsUpon(reader) = {"(", ")"} /\ Early = {}
      BY <1>3, <1>4, <1>7 DEF Special, ActsUpon
    <2> QED
      BY <1>1, <1>2, <1>3, <1>7, <2>1
  <1>8. CASE task # "script" /\ ~(family = "postgres" /\ task = "values")
    <2>1. QuotesOf(family, task) = QuotesOf(family, "list")
      BY <1>8 DEF QuotesOf
    <2>2. Special = QuotesOf(family, task) \cup {"(", ")", "comma"}
      BY <1>2, <1>3, <1>8 DEF Special
    <2>3. ActsUpon(reader) = QuotesOf(family, "list") \cup {"(", ")", "comma"}
      BY <1>3, <1>8 DEF ActsUpon
    <2>4. Opening(reader) = QuotesOf(family, task)
      BY <1>3, <1>8 DEF Opening
    <2>5. Early = {}
      BY <1>4, <1>8
    <2> QED
      BY <1>1, <1>2, <1>3, <1>8, <2>1, <2>2, <2>3, <2>4, <2>5 DEF QuotesOf
  <1> QED
    BY <1>5, <1>6, <1>7, <1>8 DEF Families, Tasks

\* A construct that leaves the scanner where it was, and that nothing is done to before.
Passes(k) ==
  /\ k \in Seq(Symbols) /\ k # <<>> /\ k[1] \notin {"COPY", "nl"}
  /\ Goes(reader, k, "none", "none")
  /\ Range(k) \cap Early = {}

LEMMA InertPasses ==
  ASSUME reader \in Scanners, NEW k \in Seq(Symbols), k # <<>>, k[1] \notin {"COPY", "nl"},
         Range(k) \cap Special = {}
  PROVE  Passes(k)
  <1>1. Special = ActsUpon(reader) \cup Early
    BY ReaderParts
  <1>2. Range(k) \cap ActsUpon(reader) = {} /\ Range(k) \cap Early = {}
    BY <1>1
  <1>3. Goes(reader, k, "none", "none")
    BY <1>2, GoesInertList
  <1> QED
    BY <1>2, <1>3, Zenon DEF Passes

\* The symbols of a text in quotes.
LEMMA DoubledRange ==
  ASSUME NEW c \in Seq(Symbols), NEW q \in Symbols
  PROVE  Range(Doubled(c, q)) \subseteq Range(c) \cup {q}
  <1> DEFINE T == Range(c) \cup {q}
  <1>1. c \in Seq(Range(c)) /\ Range(c) \subseteq T /\ q \in T
    BY SeqOfRange
  <1>2. c \in Seq(T)
    BY <1>1, SeqMonotonic
  <1> HIDE DEF T
  <1>3. Doubled(c, q) \in Seq(T)
    BY <1>1, <1>2, DoubledType
  <1>4. Range(Doubled(c, q)) \subseteq T
    BY <1>3 DEF Range
  <1> QED
    BY <1>4 DEF T

\* A text between two symbols.
LEMMA BetweenParts ==
  ASSUME NEW a \in Symbols, NEW c \in Seq(Symbols), NEW e \in Symbols
  PROVE  /\ <<a>> \o c \o <<e>> \in Seq(Symbols) /\ <<a>> \o c \o <<e>> # <<>>
         /\ (<<a>> \o c \o <<e>>)[1] = a
         /\ Range(<<a>> \o c \o <<e>>) = {a, e} \cup Range(c)
  <1> DEFINE x == <<a>>
             y == <<e>>
             k == x \o c \o y
  <1>1. x \in Seq(Symbols) /\ y \in Seq(Symbols) /\ Range(x) = {a} /\ Range(y) = {e}
    BY DEF Range
  <1>2. k \in Seq(Symbols) /\ k # <<>> /\ k[1] = a
    OBVIOUS
  <1> HIDE DEF x, y
  <1>3. Range(k) = Range(x) \cup Range(c) \cup Range(y)
    BY <1>1, RangeOfMiddle
  <1>4. Range(k) = {a, e} \cup Range(c)
    BY <1>1, <1>3
  <1> QED
    BY <1>2, <1>4, Zenon DEF x, y

\* A construct that is not odd is followed.
LEMMA FollowsWhat ==
  ASSUME NEW followed, NEW construct, Follows(followed, construct), odd' = {}
  PROVE  followed /\ odd = {}
  BY DEF Follows

LEMMA WordPasses == ASSUME reader \in Scanners, WriteWord PROVE Passes(<<"w">>)
  <1>1. <<"w">> \in Seq(Symbols) /\ <<"w">> # <<>> /\ <<"w">>[1] = "w" /\ Range(<<"w">>) = {"w"}
    BY DEF Symbols, Range
  <1>2. "w" \notin Special
    <2>1. "w" \notin ActsUpon(reader)
      BY DEF ActsUpon, QuotesOf
    <2> QED
      BY <2>1, ReaderParts
  <1> QED
    BY <1>1, <1>2, InertPasses

LEMMA QuotedPasses ==
  ASSUME reader \in Scanners, NEW q \in {"sq", "dq", "bq"}, NEW c \in Seq(Symbols), WriteQuoted(q, c), odd' = {}
  PROVE  Passes(<<q>> \o Doubled(c, q) \o <<q>>)
  <1> DEFINE l == Doubled(c, q)
             k == <<q>> \o l \o <<q>>
  <1>1. /\ q = "bq" => Family = "generic"
        /\ IF reader = <<"postgres", "values">> THEN Plain(c) ELSE Range(c) \cap Early = {}
    <2> DEFINE b == IF reader = <<"postgres", "values">> THEN Plain(c) ELSE Range(c) \cap Early = {}
    <2>1. Follows(b, "quoted") /\ (q = "bq" => Family = "generic")
      BY Zenon DEF WriteQuoted
    <2> HIDE DEF b
    <2>2. b
      BY <2>1 DEF Follows
    <2> QED
      BY <2>1, <2>2, Zenon DEF b
  <1>2. q \in Symbols
    BY DEF Symbols
  <1>3. l \in Seq(Symbols) /\ Range(l) \subseteq Range(c) \cup {q}
    BY <1>2, DoubledType, DoubledRange
  <1> HIDE DEF l
  <1>4. k \in Seq(Symbols) /\ k # <<>> /\ k[1] = q /\ Range(k) \subseteq Range(c) \cup {q}
    BY <1>2, <1>3, BetweenParts
  <1>5. q \notin {"COPY", "nl"} /\ q \notin {"(", ")"}
    OBVIOUS
  <1>6. CASE reader = <<"postgres", "values">>
    <2>1. Range(c) \cap Special = {}
      BY <1>1, <1>6, Zenon DEF Plain
    <2>2. Special = {"(", ")"}
      <3>1. ActsUpon(reader) = {"(", ")"}
        BY <1>6 DEF ActsUpon
      <3>2. Early = {}
        BY <1>6, ReaderParts
      <3> QED
        BY <3>1, <3>2, ReaderParts
    <2> HIDE DEF k
    <2>3. Range(k) \cap Special = {}
      BY <1>4, <1>5, <2>1, <2>2
    <2>4. Passes(k)
      BY <1>4, <1>5, <2>3, InertPasses
    <2> QED
      BY <2>4, Zenon DEF k, l
  <1>7. CASE reader # <<"postgres", "values">>
    <2>1. q \in Opening(reader)
      BY <1>1, <1>7, ReaderParts
    <2>2. Goes(reader, k, "none", "none")
      BY <2>1, GoesQuoted DEF l
    <2>3. Range(c) \cap Early = {} /\ q \notin Early
      BY <1>1, <1>7, ReaderParts
    <2> HIDE DEF k
    <2>4. Range(k) \cap Early = {}
      BY <1>4, <2>3
    <2>5. Passes(k)
      BY <1>4, <1>5, <2>2, <2>4, Zenon DEF Passes
    <2> QED
      BY <2>5, Zenon DEF k, l
  <1> QED
    BY <1>6, <1>7, Zenon

LEMMA EscapedPasses ==
  ASSUME reader \in Scanners, WriteEscaped, odd' = {} PROVE Passes(<<"sq", "w", "\\", "sq", "sq">>)
  <1> DEFINE k == <<"sq", "w", "\\", "sq", "sq">>
  <1>1. Follows(reader = <<"postgres", "values">>, "escaped")
    BY Zenon DEF WriteEscaped
  <1>2. reader = <<"postgres", "values">>
    BY <1>1, FollowsWhat
  <1>3. k \in Seq(Symbols) /\ k # <<>> /\ k[1] = "sq" /\ Range(k) = {"sq", "w", "\\"}
    BY DEF Symbols, Range
  <1>4. ActsUpon(reader) = {"(", ")"} /\ Early = {}
    BY <1>2, ReaderParts DEF ActsUpon
  <1>5. Special = {"(", ")"}
    BY <1>4, ReaderParts
  <1> HIDE DEF k
  <1>6. Range(k) \cap Special = {}
    BY <1>3, <1>5
  <1>7. Passes(k)
    BY <1>3, <1>6, InertPasses
  <1> QED
    BY <1>7, Zenon DEF k

LEMMA BracketedPasses ==
  ASSUME reader \in Scanners, NEW c \in Seq(Symbols), WriteBracketed(c), odd' = {}
  PROVE  Passes(<<"[">> \o c \o <<"]">>)
  <1> DEFINE k == <<"[">> \o c \o <<"]">>
  <1>1. Follows(Task = "script" /\ Plain(c), "bracketed") /\ Family = "generic"
    BY Zenon DEF WriteBracketed
  <1>2. Task = "script" /\ Plain(c)
    BY <1>1, FollowsWhat
  <1>3. k \in Seq(Symbols) /\ k # <<>> /\ k[1] = "[" /\ Range(k) = {"[", "]"} \cup Range(c)
    <2>1. "[" \in Symbols /\ "]" \in Symbols
      BY DEF Symbols
    <2> QED
      BY <2>1, BetweenParts
  <1>4. reader = <<"generic", "script">>
    BY <1>1, <1>2, ReaderParts
  <1>5. "[" \notin Special /\ "]" \notin Special
    <2>1. "[" \notin ActsUpon(reader) /\ "]" \notin ActsUpon(reader)
      BY <1>4 DEF ActsUpon
    <2> QED
      BY <2>1, ReaderParts
  <1> HIDE DEF k
  <1>6. Range(k) \cap Special = {}
    BY <1>2, <1>3, <1>5 DEF Plain
  <1>7. Passes(k)
    BY <1>3, <1>6, InertPasses
  <1> QED
    BY <1>7, Zenon DEF k

LEMMA CommentPasses ==
  ASSUME reader \in Scanners, NEW c \in Seq(Symbols), WriteComment(c), odd' = {}
  PROVE  Passes(<<"--">> \o c \o <<"nl">>)
  <1> DEFINE k == <<"--">> \o c \o <<"nl">>
  <1>1. Follows(Plain(c), "comment")
    BY Zenon DEF WriteComment
  <1>2. Plain(c)
    BY <1>1, FollowsWhat
  <1>3. k \in Seq(Symbols) /\ k # <<>> /\ k[1] = "--" /\ Range(k) = {"--", "nl"} \cup Range(c)
    <2>1. "--" \in Symbols /\ "nl" \in Symbols
      BY DEF Symbols
    <2> QED
      BY <2>1, BetweenParts
  <1>4. "--" \notin Special /\ "nl" \notin Special
    <2>1. "--" \notin ActsUpon(reader) /\ "nl" \notin ActsUpon(reader)
      BY DEF ActsUpon, QuotesOf
    <2> QED
      BY <2>1, ReaderParts
  <1> HIDE DEF k
  <1>5. Range(k) \cap Special = {}
    BY <1>2, <1>3, <1>4 DEF Plain
  <1>6. Passes(k)
    BY <1>3, <1>5, InertPasses
  <1> QED
    BY <1>6, Zenon DEF k

LEMMA DollarQuotedPasses ==
  ASSUME reader \in Scanners, NEW tag \in Tags, NEW c \in Seq(Symbols), WriteDollarQuoted(tag, c), odd' = {}
  PROVE  Passes(tag \o c \o tag)
  <1> DEFINE k == tag \o c \o tag
  <1>1. Follows(Task = "script" \/ Plain(c), "dollar-quoted") /\ Family = "postgres"
        /\ \A i \in DOMAIN c : ~HasAt(c \o tag, i, tag)
    BY Zenon DEF WriteDollarQuoted
  <1>2. Task = "script" \/ Plain(c)
    BY <1>1, FollowsWhat
  <1>3. tag \in Seq(Symbols) /\ Range(tag) \subseteq {"w", "$"} /\ tag # <<>> /\ tag[1] = "$"
    <2>1. CASE tag = <<"$", "$">>
      BY <2>1 DEF Symbols, Range
    <2>2. CASE tag = <<"$", "w", "$">>
      BY <2>2 DEF Symbols, Range
    <2> QED
      BY <2>1, <2>2 DEF Tags
  <1>4. k \in Seq(Symbols) /\ Range(k) = Range(tag) \cup Range(c)
    BY <1>3, RangeOfMiddle
  <1>5. k # <<>> /\ k[1] = "$"
    BY <1>3
  <1> HIDE DEF k
  <1>6. CASE Task = "script"
    <2>1. reader = <<"postgres", "script">>
      BY <1>1, <1>6, ReaderParts
    <2>2. Goes(reader, k, "none", "none")
      BY <1>1, <2>1, GoesDollarQuoted, Zenon DEF k
    <2>3. Early = {}
      BY <2>1, ReaderParts
    <2>4. Range(k) \cap Early = {}
      BY <2>3
    <2>5. k[1] \notin {"COPY", "nl"}
      BY <1>5
    <2> QED
      BY <1>4, <1>5, <2>2, <2>4, <2>5, Zenon DEF Passes, k
  <1>7. CASE Task # "script"
    <2>1. reader # <<"generic", "script">> /\ reader # <<"postgres", "script">>
      BY <1>7, ReaderParts
    <2>2. Early = {}
      BY <2>1, ReaderParts
    <2>3. "w" \notin ActsUpon(reader) /\ "$" \notin ActsUpon(reader)
      BY <2>1 DEF ActsUpon, QuotesOf
    <2>4. "w" \notin Special /\ "$" \notin Special
      BY <2>2, <2>3, ReaderParts
    <2>5. Range(k) \cap Special = {}
      BY <1>2, <1>3, <1>4, <1>7, <2>4 DEF Plain
    <2>6. k[1] \notin {"COPY", "nl"}
      BY <1>5
    <2>7. Passes(k)
      BY <1>4, <1>5, <2>5, <2>6, InertPasses
    <2> QED
      BY <2>7, Zenon DEF k
  <1> QED
    BY <1>6, <1>7, Zenon

LEMMA DollarNamePasses == ASSUME reader \in Scanners, WriteDollarName, odd' = {} PROVE Passes(<<"w", "$", "w">>)
  <1> DEFINE k == <<"w", "$", "w">>
  <1>1. Follows(Task # "script", "name") /\ Family = "postgres"
    BY Zenon DEF WriteDollarName
  <1>2. Task # "script"
    BY <1>1, FollowsWhat
  <1>3. reader # <<"generic", "script">> /\ reader # <<"postgres", "script">>
    BY <1>2, ReaderParts
  <1>4. Early = {}
    BY <1>3, ReaderParts
  <1>5. k \in Seq(Symbols) /\ k # <<>> /\ k[1] = "w" /\ Range(k) = {"w", "$"}
    BY DEF Symbols, Range
  <1>6. "w" \notin ActsUpon(reader) /\ "$" \notin ActsUpon(reader)
    BY <1>3 DEF ActsUpon, QuotesOf
  <1>7. Special = ActsUpon(reader)
    BY <1>4, ReaderParts
  <1> HIDE DEF k
  <1>8. Range(k) \cap Special = {}
    BY <1>5, <1>6, <1>7
  <1>9. Passes(k)
    BY <1>5, <1>8, InertPasses
  <1> QED
    BY <1>9, Zenon DEF k

\* After x, within d parentheses, the scanner of PostgreSQL's rows has found m: those
\* that are closed, and the open one.
Rows(x, d, m) ==
  \E start : \E cut \in Seq(Seq(Symbols)) :
    /\ Settled(<<"postgres", "values">>, x, d, start, cut)
    /\ m = IF d = 0 THEN cut ELSE Append(cut, Open(x, start))

LEMMA RowsAtFirst == Rows(<<>>, 0, <<>>)
  <1> DEFINE scanner == <<"postgres", "values">>
  <1>1. scanner \in Scanners
    BY DEF Scanners, Families, Tasks
  <1>2. Settled(scanner, <<>>, 0, 1, <<>>)
    BY <1>1, SettledAtFirst
  <1>3. <<>> \in Seq(Seq(Symbols))
    BY EmptySeq
  <1> QED
    BY <1>2, <1>3, Zenon DEF Rows

LEMMA RowsAtLast ==
  ASSUME NEW x \in Seq(Symbols), NEW m, Rows(x, 0, m)
  PROVE  Scan(<<"postgres", "values">>, x).out = m
  <1>1. PICK start : \E cut \in Seq(Seq(Symbols)) : Settled(<<"postgres", "values">>, x, 0, start, cut) /\ m = cut
    BY Zenon DEF Rows
  <1>2. PICK cut \in Seq(Seq(Symbols)) : Settled(<<"postgres", "values">>, x, 0, start, cut) /\ m = cut
    BY <1>1, Zenon
  <1> QED
    BY <1>2, SettledAtLast

\* A longer open piece.
LEMMA OpenLonger ==
  ASSUME NEW x \in Seq(Symbols), NEW k \in Seq(Symbols), NEW start \in 1 .. Len(x) + 1,
         NEW cut \in Seq(Seq(Symbols))
  PROVE  Longer(Append(cut, Open(x, start)), k) = Append(cut, Open(x \o k, start))
  <1> DEFINE p == Open(x, start)
             m == Append(cut, p)
  <1>1. Open(x \o k, start) = p \o k /\ p \in Seq(Symbols)
    BY OpenOfLonger
  <1> HIDE DEF p
  <1>2. m = Append(cut, p)
    OBVIOUS
  <1> HIDE DEF m
  <1>3. Longer(m, k) = Append(cut, p \o k)
    BY <1>1, <1>2, LastGrows
  <1> QED
    BY <1>1, <1>3, Zenon DEF p, m

LEMMA RowsGoes ==
  ASSUME NEW x \in Seq(Symbols), NEW d, d # 0, NEW m, Rows(x, d, m), NEW k \in Seq(Symbols),
         Goes(<<"postgres", "values">>, k, "none", "none")
  PROVE  Rows(x \o k, d, Longer(m, k))
  <1> DEFINE scanner == <<"postgres", "values">>
  <1>1. PICK start : \E cut \in Seq(Seq(Symbols)) :
                       Settled(scanner, x, d, start, cut) /\ m = Append(cut, Open(x, start))
    BY Zenon DEF Rows
  <1>2. PICK cut \in Seq(Seq(Symbols)) :
                       Settled(scanner, x, d, start, cut) /\ m = Append(cut, Open(x, start))
    BY <1>1, Zenon
  <1> HIDE DEF scanner
  <1>3. Settled(scanner, x \o k, d, start, cut)
    BY <1>2, SettledGoes DEF scanner
  <1>4. Longer(m, k) = Append(cut, Open(x \o k, start))
    <2>1. start \in 1 .. Len(x) + 1
      BY <1>2, Zenon DEF Settled
    <2>2. Longer(Append(cut, Open(x, start)), k) = Append(cut, Open(x \o k, start))
      BY <2>1, OpenLonger
    <2> QED
      BY <1>2, <2>2, Zenon
  <1> QED
    BY <1>3, <1>4, Zenon DEF Rows, scanner

LEMMA RowsComma ==
  ASSUME NEW x \in Seq(Symbols), NEW m, Rows(x, 0, m)
  PROVE  Rows(x \o <<"comma">>, 0, m)
  <1> DEFINE scanner == <<"postgres", "values">>
             k == <<"comma">>
  <1>1. PICK start : \E cut \in Seq(Seq(Symbols)) : Settled(scanner, x, 0, start, cut) /\ m = cut
    BY Zenon DEF Rows
  <1>2. PICK cut \in Seq(Seq(Symbols)) : Settled(scanner, x, 0, start, cut) /\ m = cut
    BY <1>1, Zenon
  <1>3. scanner \in Scanners /\ "comma" \in Symbols \ ActsUpon(scanner)
    BY DEF Scanners, Families, Tasks, ActsUpon, Symbols
  <1>4. Goes(scanner, k, "none", "none") /\ k \in Seq(Symbols)
    BY <1>3, GoesInert
  <1> HIDE DEF scanner, k
  <1>5. Settled(scanner, x \o k, 0, start, cut)
    BY <1>2, <1>4, SettledGoes
  <1> QED
    BY <1>2, <1>5, Zenon DEF Rows, scanner, k

\* The first parenthesis begins a row.
LEMMA RowsParenthesis ==
  ASSUME NEW x \in Seq(Symbols), NEW d \in Nat, NEW m, Rows(x, d, m)
  PROVE  /\ Rows(x \o <<"(">>, d + 1, IF d = 0 THEN Append(m, <<>>) ELSE Longer(m, <<"(">>))
         /\ d # 0 => Rows(x \o <<")">>, d - 1, IF d = 1 THEN m ELSE Longer(m, <<")">>))
  <1> DEFINE scanner == <<"postgres", "values">>
             p(start) == Open(x, start)
  <1>1. PICK start : \E cut \in Seq(Seq(Symbols)) :
                       Settled(scanner, x, d, start, cut) /\ m = IF d = 0 THEN cut ELSE Append(cut, Open(x, start))
    BY Zenon DEF Rows
  <1>2. PICK cut \in Seq(Seq(Symbols)) :
                       Settled(scanner, x, d, start, cut) /\ m = IF d = 0 THEN cut ELSE Append(cut, Open(x, start))
    BY <1>1, Zenon
  <1>3. scanner \in Scanners /\ "(" \in Symbols \ Opening(scanner) /\ ")" \in Symbols \ Opening(scanner)
    BY DEF Scanners, Families, Tasks, Opening, Symbols
  <1>4. /\ Takes(scanner, x, "(", d, start, cut, d + 1, IF d = 0 THEN Len(x) + 2 ELSE start, cut)
        /\ Takes(scanner, x, ")", d, start, cut, d - 1, start,
                 IF d = 1 THEN Append(cut, Open(x, start)) ELSE cut)
    BY TakesRow, Zenon
  <1> HIDE DEF scanner
  <1>5. start \in 1 .. Len(x) + 1
    BY <1>2, Zenon DEF Settled
  <1>6. start \in 1 .. Len(x) + 2 /\ Len(x) + 2 \in 1 .. Len(x) + 2
    BY <1>5, LenProperties
  <1>o. <<"(">> \in Seq(Symbols) /\ <<")">> \in Seq(Symbols)
    BY DEF Symbols
  <1>7. CASE d = 0
    <2>1. Takes(scanner, x, "(", d, start, cut, d + 1, Len(x) + 2, cut)
      BY <1>4, <1>7, Zenon
    <2>2. Settled(scanner, x \o <<"(">>, d + 1, Len(x) + 2, cut)
      BY <1>2, <1>3, <1>6, <2>1, SettledTakes
    <2>3. Open(x \o <<"(">>, Len(x) + 2) = <<>>
      BY <1>3, OpenOfNew
    <2>4. d + 1 # 0
      OBVIOUS
    <2>5. Append(m, <<>>) = IF d + 1 = 0 THEN cut ELSE Append(cut, Open(x \o <<"(">>, Len(x) + 2))
      BY <1>2, <1>7, <2>3, <2>4, Zenon
    <2>6. Rows(x \o <<"(">>, d + 1, Append(m, <<>>))
      BY <2>2, <2>5, Zenon DEF Rows, scanner
    <2> QED
      BY <1>7, <2>6, Zenon
  <1>8. CASE d # 0
    <2>1. m = Append(cut, Open(x, start))
      BY <1>2, <1>8, Zenon
    <2>2. Rows(x \o <<"(">>, d + 1, Longer(m, <<"(">>))
      <3>1. Takes(scanner, x, "(", d, start, cut, d + 1, start, cut)
        BY <1>4, <1>8, Zenon
      <3>2. Settled(scanner, x \o <<"(">>, d + 1, start, cut)
        BY <1>2, <1>3, <1>6, <3>1, SettledTakes
      <3>3. Longer(m, <<"(">>) = Append(cut, Open(x \o <<"(">>, start))
        <4>1. Longer(Append(cut, Open(x, start)), <<"(">>) = Append(cut, Open(x \o <<"(">>, start))
          BY <1>5, <1>o, OpenLonger
        <4> QED
          BY <2>1, <4>1, Zenon
      <3>4. d + 1 # 0
        OBVIOUS
      <3> QED
        BY <3>2, <3>3, <3>4, Zenon DEF Rows, scanner
    <2>3. CASE d = 1
      <3> DEFINE r == Open(x, start)
      <3>1. Takes(scanner, x, ")", d, start, cut, d - 1, start, Append(cut, r))
        BY <1>4, <2>3, Zenon
      <3>2. r \in Seq(Symbols)
        <4>1. <<>> \in Seq(Symbols)
          BY EmptySeq
        <4> QED
          BY <1>5, <4>1, OpenOfLonger
      <3>3. m = Append(cut, r)
        BY <2>1, Zenon
      <3> HIDE DEF r
      <3>4. m \in Seq(Seq(Symbols))
        BY <3>2, <3>3, AppendProperties
      <3>5. Takes(scanner, x, ")", d, start, cut, d - 1, start, m)
        BY <3>1, <3>3, Zenon
      <3>6. Settled(scanner, x \o <<")">>, d - 1, start, m)
        BY <1>2, <1>3, <1>6, <3>5, SettledTakes
      <3>7. d - 1 = 0
        BY <2>3
      <3>8. Rows(x \o <<")">>, d - 1, m)
        BY <3>4, <3>6, <3>7, Zenon DEF Rows, scanner
      <3> QED
        BY <1>8, <2>2, <2>3, <3>8, Zenon
    <2>4. CASE d # 1
      <3>1. Takes(scanner, x, ")", d, start, cut, d - 1, start, cut)
        BY <1>4, <2>4, Zenon
      <3>2. Settled(scanner, x \o <<")">>, d - 1, start, cut)
        BY <1>2, <1>3, <1>6, <3>1, SettledTakes
      <3>3. Longer(m, <<")">>) = Append(cut, Open(x \o <<")">>, start))
        <4>1. Longer(Append(cut, Open(x, start)), <<")">>) = Append(cut, Open(x \o <<")">>, start))
          BY <1>5, <1>o, OpenLonger
        <4> QED
          BY <2>1, <4>1, Zenon
      <3>4. d - 1 # 0
        BY <2>4
      <3>5. Rows(x \o <<")">>, d - 1, Longer(m, <<")">>))
        BY <3>2, <3>3, <3>4, Zenon DEF Rows, scanner
      <3> QED
        BY <1>8, <2>2, <2>4, <3>5, Zenon
    <2> QED
      BY <2>3, <2>4, Zenon
  <1> QED
    BY <1>7, <1>8, Zenon

\* A row with its parentheses.
RowText(p) == <<"(">> \o p \o <<")">>

LEMMA RowParts ==
  ASSUME NEW p \in Seq(Symbols)
  PROVE  /\ RowText(p) \in Seq(Symbols) /\ Trimmed(RowText(p)) = RowText(p)
         /\ RowText(p) # <<>> /\ Head(RowText(p)) = "(" /\ Last(RowText(p)) = ")"
         /\ SubSeq(RowText(p), 2, Len(RowText(p)) - 1) = p
  <1> DEFINE r == RowText(p)
             n == Len(r)
  <1>1. r \in Seq(Symbols)
    BY DEF RowText, Symbols
  <1>2. n = Len(p) + 2 /\ Len(p) \in Nat
    BY LenProperties DEF RowText
  <1>3. r[1] = "(" /\ r[n] = ")" /\ \A i \in 1 .. Len(p) : r[i + 1] = p[i]
    BY DEF RowText
  <1> HIDE DEF r
  <1>4. Trimmed(r) = r
    <2>1. CASE \A i \in 1 .. n : r[i] = "nl"
      BY <1>2, <1>3, <2>1
    <2>2. ASSUME NEW a \in 1 .. n, NEW e \in 1 .. n, Trimmed(r) = SubSeq(r, a, e),
                 \A i \in 1 .. n : r[i] # "nl" => a <= i /\ i <= e
          PROVE  Trimmed(r) = r
      <3>1. 1 \in 1 .. n /\ n \in 1 .. n /\ r[1] # "nl" /\ r[n] # "nl"
        BY <1>2, <1>3
      <3>2. a <= 1 /\ n <= e
        BY <2>2, <3>1, Zenon
      <3>3. a = 1 /\ e = n
        BY <1>2, <3>2
      <3>4. SubSeq(r, 1, n) = r
        BY <1>1
      <3> QED
        BY <2>2, <3>3, <3>4, Zenon
    <2> QED
      BY <1>1, <2>1, <2>2, TrimmedParts
  <1>5. r # <<>> /\ Head(r) = "(" /\ Last(r) = ")"
    BY <1>1, <1>2, <1>3 DEF Last
  <1>6. SubSeq(r, 2, n - 1) = p
    <2> DEFINE q == SubSeq(r, 2, n - 1)
    <2>1. q \in Seq(Symbols) /\ Len(q) = Len(p) /\ \A i \in 1 .. Len(p) : q[i] = p[i]
      BY <1>1, <1>2, <1>3
    <2> HIDE DEF q
    <2>2. q = p
      BY <2>1
    <2> QED
      BY <2>2, Zenon DEF q
  <1> QED
    BY <1>1, <1>4, <1>5, <1>6, Zenon DEF r, n

ClosedRows(m) == [i \in DOMAIN m |-> RowText(m[i])]

LEMMA ClosedRowsParts ==
  ASSUME NEW m \in Seq(Seq(Symbols))
  PROVE  /\ ClosedRows(m) \in Seq(Seq(Symbols)) /\ Len(ClosedRows(m)) = Len(m) /\ Len(m) \in Nat
         /\ \A i \in 1 .. Len(m) : ClosedRows(m)[i] = RowText(m[i]) /\ m[i] \in Seq(Symbols)
  <1> DEFINE l == ClosedRows(m)
  <1>1. Len(m) \in Nat /\ DOMAIN m = 1 .. Len(m) /\ \A i \in 1 .. Len(m) : m[i] \in Seq(Symbols)
    BY LenProperties
  <1>2. l = [i \in 1 .. Len(m) |-> RowText(m[i])]
    BY <1>1, Zenon DEF ClosedRows
  <1> HIDE DEF l
  <1>3. \A i \in 1 .. Len(m) : RowText(m[i]) \in Seq(Symbols)
    BY <1>1, RowParts, Zenon
  <1>4. l \in [1 .. Len(m) -> Seq(Symbols)] /\ \A i \in 1 .. Len(m) : l[i] = RowText(m[i])
    BY <1>2, <1>3, Zenon
  <1>5. l \in Seq(Seq(Symbols)) /\ Len(l) = Len(m)
    BY <1>1, <1>4, FunctionToList
  <1> QED
    BY <1>1, <1>4, <1>5, Zenon DEF l

LEMMA ClosedRowsOfAppend ==
  ASSUME NEW m \in Seq(Seq(Symbols)), NEW p \in Seq(Symbols)
  PROVE  ClosedRows(Append(m, p)) = Append(ClosedRows(m), RowText(p))
  <1> DEFINE e == Append(m, p)
             l == ClosedRows(m)
             r == RowText(p)
             f == Append(l, r)
             g == ClosedRows(e)
             n == Len(m) + 1
  <1>1. e \in Seq(Seq(Symbols)) /\ Len(e) = n /\ Len(m) \in Nat
    BY AppendParts
  <1>2. (\A i \in 1 .. Len(m) : e[i] = m[i]) /\ e[n] = p
    BY AppendParts
  <1> HIDE DEF e
  <1>3. g \in Seq(Seq(Symbols)) /\ Len(g) = n /\ \A i \in 1 .. n : g[i] = RowText(e[i])
    BY <1>1, ClosedRowsParts
  <1>4. l \in Seq(Seq(Symbols)) /\ Len(l) = Len(m) /\ \A i \in 1 .. Len(m) : l[i] = RowText(m[i])
    BY ClosedRowsParts
  <1>5. r \in Seq(Symbols)
    BY RowParts
  <1> HIDE DEF g, l, r
  <1>6. f \in Seq(Seq(Symbols)) /\ Len(f) = n /\ (\A i \in 1 .. Len(m) : f[i] = l[i]) /\ f[n] = r
    BY <1>4, <1>5, AppendParts
  <1> HIDE DEF f
  <1>7. \A i \in 1 .. n : g[i] = f[i]
    <2> TAKE i \in 1 .. n
    <2>1. CASE i = n
      BY <1>2, <1>3, <1>6, <2>1, Zenon DEF r
    <2>2. CASE i # n
      <3>1. i \in 1 .. Len(m)
        BY <1>1, <2>2
      <3> QED
        BY <1>2, <1>3, <1>4, <1>6, <3>1, Zenon
    <2> QED
      BY <2>1, <2>2, Zenon
  <1>8. g = f
    BY <1>3, <1>6, <1>7, SeqEqual, Zenon
  <1> QED
    BY <1>8, Zenon DEF g, f, e, l, r

\* Another element at the end.
LEMMA PieceAppended ==
  ASSUME NEW l \in Seq(Seq(Symbols)), NEW e \in Seq(Symbols)
  PROVE  /\ DOMAIN Append(l, e) = 1 .. Len(l) + 1 /\ (\A i \in 1 .. Len(l) : Append(l, e)[i] = l[i])
         /\ Append(l, e)[Len(l) + 1] = e
         /\ Append(l, e) = [k \in 1 .. Len(l) + 1 |-> Append(l, e)[k]]
         /\ Range(Append(l, e)) = Range(l) \cup {e}
  <1>1. Range(Append(l, e)) = Range(l) \cup {e}
    BY RangeOfAppend
  <1>2. /\ DOMAIN Append(l, e) = 1 .. Len(l) + 1 /\ (\A i \in 1 .. Len(l) : Append(l, e)[i] = l[i])
        /\ Append(l, e)[Len(l) + 1] = e
        /\ Append(l, e) = [k \in 1 .. Len(l) + 1 |-> Append(l, e)[k]]
    BY AppendParts
  <1> QED
    BY <1>1, <1>2, Zenon

\* What genericGroups makes of rows in parentheses, and nothing of an empty part.
LEMMA GroupsOfRows ==
  ASSUME NEW m \in Seq(Seq(Symbols)), NEW parts \in {ClosedRows(m), Append(ClosedRows(m), <<>>)}
  PROVE  Groups(parts) = m
  <1> DEFINE l == ClosedRows(m)
             n == Len(m)
             trimmed == [k \in DOMAIN parts |-> Trimmed(parts[k])]
             S == {p \in Range(trimmed) : p # <<>> /\ Head(p) = "(" /\ Last(p) = ")"}
             found == Keep(trimmed, S)
  <1>0. Groups(parts) = [k \in DOMAIN found |-> SubSeq(found[k], 2, Len(found[k]) - 1)]
    BY Zenon DEF Groups
  <1>1. l \in Seq(Seq(Symbols)) /\ Len(l) = n /\ n \in Nat
        /\ \A i \in 1 .. n : l[i] = RowText(m[i]) /\ m[i] \in Seq(Symbols)
    BY ClosedRowsParts
  <1>2. \A i \in 1 .. n : /\ Trimmed(l[i]) = l[i] /\ l[i] # <<>> /\ Head(l[i]) = "(" /\ Last(l[i]) = ")"
                          /\ SubSeq(l[i], 2, Len(l[i]) - 1) = m[i]
    BY <1>1, RowParts, Zenon
  <1> HIDE DEF l
  <1>3. <<>> \in Seq(Symbols) /\ Trimmed(<<>>) = <<>>
    <2>1. <<>> \in Seq(Symbols)
      BY EmptySeq
    <2>2. DOMAIN <<>> = {}
      OBVIOUS
    <2> QED
      BY <2>1, <2>2 DEF Trimmed
  <1>4. trimmed = parts
    <2>1. CASE parts = l
      <3>1. DOMAIN l = 1 .. n /\ l = [k \in 1 .. n |-> l[k]]
        BY <1>1
      <3>2. trimmed = [k \in 1 .. n |-> Trimmed(l[k])]
        BY <2>1, <3>1, Zenon
      <3> HIDE DEF trimmed
      <3>3. trimmed = [k \in 1 .. n |-> l[k]]
        BY <1>2, <3>2
      <3> QED
        BY <2>1, <3>1, <3>3, Zenon
    <2>2. CASE parts = Append(l, <<>>)
      <3> DEFINE a == Append(l, <<>>)
      <3>1. /\ DOMAIN a = 1 .. n + 1 /\ (\A i \in 1 .. n : a[i] = l[i]) /\ a[n + 1] = <<>>
            /\ a = [k \in 1 .. n + 1 |-> a[k]]
        <4>1. l \in Seq(Seq(Symbols)) /\ <<>> \in Seq(Symbols)
          BY <1>1, <1>3
        <4>2. /\ DOMAIN a = 1 .. Len(l) + 1 /\ (\A i \in 1 .. Len(l) : a[i] = l[i]) /\ a[Len(l) + 1] = <<>>
              /\ a = [k \in 1 .. Len(l) + 1 |-> a[k]]
          BY <4>1, PieceAppended, Zenon
        <4> QED
          BY <1>1, <4>2, Zenon
      <3> HIDE DEF a
      <3>2. trimmed = [k \in 1 .. n + 1 |-> Trimmed(a[k])]
        BY <2>2, <3>1, Zenon DEF a
      <3> HIDE DEF trimmed
      <3>3. \A k \in 1 .. n + 1 : Trimmed(a[k]) = a[k]
        <4> TAKE k \in 1 .. n + 1
        <4>1. k = n + 1 \/ k \in 1 .. n
          BY <1>1
        <4> QED
          BY <1>2, <1>3, <3>1, <4>1, Zenon
      <3>4. trimmed = [k \in 1 .. n + 1 |-> a[k]]
        BY <3>2, <3>3
      <3> QED
        BY <2>2, <3>1, <3>4, Zenon DEF a
    <2> QED
      BY <2>1, <2>2, Zenon DEF l
  <1>5. S = {p \in Range(parts) : p # <<>> /\ Head(p) = "(" /\ Last(p) = ")"} /\ found = Keep(parts, S)
    BY <1>4, Zenon
  <1> HIDE DEF trimmed, S, found
  <1>6. Range(l) \subseteq Range(parts)
    <2>1. CASE parts = l
      BY <2>1
    <2>2. CASE parts = Append(l, <<>>)
      <3>1. l \in Seq(Seq(Symbols)) /\ <<>> \in Seq(Symbols)
        BY <1>1, <1>3
      <3>2. Range(Append(l, <<>>)) = Range(l) \cup {<<>>}
        BY <3>1, PieceAppended, Zenon
      <3>3. Range(parts) = Range(l) \cup {<<>>}
        BY <2>2, <3>2, Zenon
      <3> QED
        BY <3>3
    <2> QED
      BY <2>1, <2>2, Zenon DEF l
  <1>7. Range(l) \subseteq S
    <2>1. \A p \in Range(l) : p # <<>> /\ Head(p) = "(" /\ Last(p) = ")"
      BY <1>1, <1>2 DEF Range
    <2> QED
      BY <1>5, <1>6, <2>1
  <1>8. Keep(l, S) = l
    BY <1>1, <1>7, KeepAll
  <1>9. found = l
    <2>1. CASE parts = l
      BY <1>5, <1>8, <2>1, Zenon
    <2>2. CASE parts = Append(l, <<>>)
      <3>1. <<>> \notin S
        BY <1>5
      <3>2. Keep(Append(l, <<>>), S) = Keep(l, S)
        BY <1>1, <1>3, <3>1, KeepOfAppend
      <3> QED
        BY <1>5, <1>8, <2>2, <3>2, Zenon
    <2> QED
      BY <2>1, <2>2, Zenon DEF l
  <1>10. Groups(parts) = [k \in DOMAIN l |-> SubSeq(l[k], 2, Len(l[k]) - 1)]
    BY <1>0, <1>9, Zenon
  <1>11. DOMAIN l = 1 .. n /\ m = [k \in 1 .. n |-> m[k]]
    BY <1>1
  <1>12. Groups(parts) = [k \in 1 .. n |-> SubSeq(l[k], 2, Len(l[k]) - 1)]
    BY <1>10, <1>11, Zenon
  <1> DEFINE g == Groups(parts)
  <1> HIDE DEF g
  <1>13. g = [k \in 1 .. n |-> m[k]]
    <2>1. g = [k \in 1 .. n |-> SubSeq(l[k], 2, Len(l[k]) - 1)]
      BY <1>12, Zenon DEF g
    <2>2. \A k \in 1 .. n : SubSeq(l[k], 2, Len(l[k]) - 1) = m[k]
      BY <1>2, Zenon
    <2> QED
      BY <2>1, <2>2
  <1> QED
    BY <1>11, <1>13, Zenon DEF g

GenericValues == <<"generic", "values">>

\* After x, within d parentheses, the scanner of the other dialects' rows has cut m
\* from it, with their parentheses around them, and an empty part after a comma.
Wrapped(x, d, m) ==
  \/ /\ d = 0 /\ m \in Seq(Seq(Symbols)) /\ x # <<>> /\ Last(x) = ")"
     /\ Cutting(GenericValues, x, 0, ClosedRows(m))
  \/ /\ d = 0 /\ m \in Seq(Seq(Symbols)) /\ (x # <<>> => Last(x) # ")")
     /\ Cutting(GenericValues, x, 0, Append(ClosedRows(m), <<>>))
  \/ /\ d # 0
     /\ \E f \in Seq(Seq(Symbols)) : \E p \in Seq(Symbols) :
          m = Append(f, p) /\ Cutting(GenericValues, x, d, Append(ClosedRows(f), <<"(">> \o p))

LEMMA WrappedAtFirst == Wrapped(<<>>, 0, <<>>)
  <1>1. GenericValues \in Scanners
    BY DEF GenericValues, Scanners, Families, Tasks
  <1>2. Cutting(GenericValues, <<>>, 0, << <<>> >>)
    BY <1>1, CuttingAtFirst
  <1>3. ClosedRows(<<>>) = <<>>
    <2>1. <<>> \in Seq(Seq(Symbols))
      BY EmptySeq
    <2>2. Len(ClosedRows(<<>>)) = Len(<<>>) /\ ClosedRows(<<>>) \in Seq(Seq(Symbols))
      BY <2>1, ClosedRowsParts, Zenon
    <2> DEFINE g == ClosedRows(<<>>)
    <2> HIDE DEF g
    <2>3. Len(g) = 0 /\ g \in Seq(Seq(Symbols))
      BY <2>2 DEF g
    <2>4. g = <<>>
      BY <2>3, EmptySeq
    <2> QED
      BY <2>4, Zenon DEF g
  <1>4. Append(ClosedRows(<<>>), <<>>) = << <<>> >> /\ <<>> \in Seq(Seq(Symbols))
    <2>1. Append(<<>>, <<>>) = << <<>> >> /\ <<>> \in Seq(Seq(Symbols))
      BY EmptySeq
    <2> QED
      BY <1>3, <2>1, Zenon
  <1>5. Cutting(GenericValues, <<>>, 0, Append(ClosedRows(<<>>), <<>>))
    BY <1>2, <1>4, Zenon
  <1> QED
    BY <1>4, <1>5, Zenon DEF Wrapped

LEMMA WrappedAtLast ==
  ASSUME NEW x \in Seq(Symbols), NEW m, Wrapped(x, 0, m)
  PROVE  Groups(Parts(GenericValues, x)) = m
  <1>1. /\ m \in Seq(Seq(Symbols))
        /\ \/ Cutting(GenericValues, x, 0, ClosedRows(m))
           \/ Cutting(GenericValues, x, 0, Append(ClosedRows(m), <<>>))
    BY Zenon DEF Wrapped
  <1>2. CASE Cutting(GenericValues, x, 0, ClosedRows(m))
    <2>1. Parts(GenericValues, x) = ClosedRows(m)
      BY <1>2, CuttingAtLast
    <2> QED
      BY <1>1, <2>1, GroupsOfRows, Zenon
  <1>3. CASE Cutting(GenericValues, x, 0, Append(ClosedRows(m), <<>>))
    <2>1. Parts(GenericValues, x) = Append(ClosedRows(m), <<>>)
      BY <1>3, CuttingAtLast
    <2> QED
      BY <1>1, <2>1, GroupsOfRows, Zenon
  <1> QED
    BY <1>1, <1>2, <1>3, Zenon

\* More of an open row.
LEMMA WrappedLonger ==
  ASSUME NEW f \in Seq(Seq(Symbols)), NEW p \in Seq(Symbols), NEW k \in Seq(Symbols)
  PROVE  /\ Longer(Append(ClosedRows(f), <<"(">> \o p), k) = Append(ClosedRows(f), <<"(">> \o (p \o k))
         /\ Longer(Append(f, p), k) = Append(f, p \o k)
         /\ p \o k \in Seq(Symbols)
  <1> DEFINE l == ClosedRows(f)
             a == <<"(">>
             r == a \o p
             m == Append(l, r)
             q == Append(f, p)
  <1>1. l \in Seq(Seq(Symbols))
    BY ClosedRowsParts
  <1>2. a \in Seq(Symbols)
    BY DEF Symbols
  <1> HIDE DEF l, a
  <1>3. r \in Seq(Symbols)
    BY <1>2, ConcatProperties
  <1>4. r \o k = a \o (p \o k)
    <2>1. \A s, t, u \in Seq(Symbols) : (s \o t) \o u = s \o (t \o u)
      BY ConcatAssociative, Z3
    <2> QED
      BY <1>2, <2>1, Zenon
  <1> HIDE DEF r
  <1>5. m = Append(l, r) /\ q = Append(f, p)
    OBVIOUS
  <1> HIDE DEF m, q
  <1>6. Longer(m, k) = Append(l, r \o k)
    BY <1>1, <1>3, <1>5, LastGrows
  <1>7. Longer(q, k) = Append(f, p \o k)
    BY <1>5, LastGrows
  <1>8. p \o k \in Seq(Symbols)
    BY ConcatProperties
  <1> QED
    BY <1>4, <1>6, <1>7, <1>8, Zenon DEF m, q, r, l, a

LEMMA WrappedGrows ==
  ASSUME NEW x \in Seq(Symbols), NEW d, d # 0, NEW m, Wrapped(x, d, m), NEW k \in Seq(Symbols), NEW d1, d1 # 0,
         \A l : Cutting(GenericValues, x, d, l) => Cutting(GenericValues, x \o k, d1, Longer(l, k))
  PROVE  Wrapped(x \o k, d1, Longer(m, k))
  <1>1. PICK f \in Seq(Seq(Symbols)) : \E p \in Seq(Symbols) :
          m = Append(f, p) /\ Cutting(GenericValues, x, d, Append(ClosedRows(f), <<"(">> \o p))
    BY Zenon DEF Wrapped
  <1>2. PICK p \in Seq(Symbols) :
          m = Append(f, p) /\ Cutting(GenericValues, x, d, Append(ClosedRows(f), <<"(">> \o p))
    BY <1>1, Zenon
  <1>3. Cutting(GenericValues, x \o k, d1, Longer(Append(ClosedRows(f), <<"(">> \o p), k))
    BY <1>2, Zenon
  <1>4. /\ Longer(Append(ClosedRows(f), <<"(">> \o p), k) = Append(ClosedRows(f), <<"(">> \o (p \o k))
        /\ Longer(Append(f, p), k) = Append(f, p \o k)
        /\ p \o k \in Seq(Symbols)
    BY WrappedLonger, Zenon
  <1> QED
    BY <1>2, <1>3, <1>4, Zenon DEF Wrapped

LEMMA WrappedGoes ==
  ASSUME NEW x \in Seq(Symbols), NEW d, d # 0, NEW m, Wrapped(x, d, m), NEW k \in Seq(Symbols),
         Goes(GenericValues, k, "none", "none")
  PROVE  Wrapped(x \o k, d, Longer(m, k))
  <1>1. GenericValues # <<"postgres", "script">>
    BY DEF GenericValues
  <1>2. ASSUME NEW l, Cutting(GenericValues, x, d, l) PROVE Cutting(GenericValues, x \o k, d, Longer(l, k))
    BY <1>1, <1>2, CuttingGoes
  <1> QED
    BY <1>2, WrappedGrows, Zenon

\* What a parenthesis does, and a comma.
LEMMA WrappedParenthesis ==
  ASSUME NEW x \in Seq(Symbols), NEW d \in Nat, NEW m, Wrapped(x, d, m)
  PROVE  /\ d # 0 => Wrapped(x \o <<"(">>, d + 1, Longer(m, <<"(">>))
         /\ d = 0 /\ (x # <<>> => Last(x) # ")") => Wrapped(x \o <<"(">>, d + 1, Append(m, <<>>))
         /\ d # 0 => Wrapped(x \o <<")">>, d - 1, IF d = 1 THEN m ELSE Longer(m, <<")">>))
         /\ d # 0 => Wrapped(x \o <<"comma">>, d, Longer(m, <<"comma">>))
         /\ d = 0 /\ x # <<>> /\ Last(x) = ")" => Wrapped(x \o <<"comma">>, d, m)
  <1> DEFINE a == <<"(">>
             e == <<")">>
             k == <<"comma">>
  <1>1. GenericValues \in Scanners /\ GenericValues = <<"generic", "values">>
    BY DEF GenericValues, Scanners, Families, Tasks
  <1>2. ASSUME NEW l, Cutting(GenericValues, x, d, l)
        PROVE  /\ Cutting(GenericValues, x \o a, d + 1, Longer(l, a))
               /\ Cutting(GenericValues, x \o e, d - 1, Longer(l, e))
               /\ d # 0 => Cutting(GenericValues, x \o k, d, Longer(l, k))
    BY <1>1, <1>2, CuttingParenthesis
  <1>3. a \in Seq(Symbols) /\ e \in Seq(Symbols) /\ k \in Seq(Symbols)
    BY DEF Symbols
  <1>4. x \o e # <<>> /\ Last(x \o e) = ")" /\ x \o k # <<>> /\ Last(x \o k) # ")" /\ x \o a # <<>>
    <2>1. Len(x) \in Nat
      BY LenProperties
    <2>2. /\ Len(x \o e) = Len(x) + 1 /\ (x \o e)[Len(x) + 1] = ")"
          /\ Len(x \o k) = Len(x) + 1 /\ (x \o k)[Len(x) + 1] = "comma"
          /\ Len(x \o a) = Len(x) + 1
      BY <2>1
    <2> HIDE DEF a, e, k
    <2> QED
      BY <2>1, <2>2 DEF Last
  <1> HIDE DEF a, e, k
  <1>5. CASE d # 0
    <2>1. d + 1 # 0
      OBVIOUS
    <2>2. Wrapped(x \o a, d + 1, Longer(m, a))
      <3>1. \A l : Cutting(GenericValues, x, d, l) => Cutting(GenericValues, x \o a, d + 1, Longer(l, a))
        BY <1>2, Zenon
      <3> QED
        BY <1>3, <1>5, <2>1, <3>1, WrappedGrows, Zenon
    <2>3. Wrapped(x \o k, d, Longer(m, k))
      <3>1. \A l : Cutting(GenericValues, x, d, l) => Cutting(GenericValues, x \o k, d, Longer(l, k))
        BY <1>2, <1>5, Zenon
      <3> QED
        BY <1>3, <1>5, <3>1, WrappedGrows, Zenon
    <2>4. CASE d # 1
      <3>1. d - 1 # 0
        BY <2>4
      <3>2. \A l : Cutting(GenericValues, x, d, l) => Cutting(GenericValues, x \o e, d - 1, Longer(l, e))
        BY <1>2, Zenon
      <3>3. Wrapped(x \o e, d - 1, Longer(m, e))
        BY <1>3, <1>5, <3>1, <3>2, WrappedGrows, Zenon
      <3> QED
        BY <1>5, <2>2, <2>3, <2>4, <3>3, Zenon DEF a, e, k
    <2>5. CASE d = 1
      <3>1. PICK f \in Seq(Seq(Symbols)) : \E p \in Seq(Symbols) :
              m = Append(f, p) /\ Cutting(GenericValues, x, d, Append(ClosedRows(f), <<"(">> \o p))
        BY <1>5, Zenon DEF Wrapped
      <3>2. PICK p \in Seq(Symbols) :
              m = Append(f, p) /\ Cutting(GenericValues, x, d, Append(ClosedRows(f), <<"(">> \o p))
        BY <3>1, Zenon
      <3>3. Cutting(GenericValues, x \o e, d - 1, Longer(Append(ClosedRows(f), <<"(">> \o p), e))
        BY <1>2, <3>2, Zenon
      <3>4. Longer(Append(ClosedRows(f), <<"(">> \o p), e) = ClosedRows(m)
        <4>1. Longer(Append(ClosedRows(f), <<"(">> \o p), e) = Append(ClosedRows(f), <<"(">> \o (p \o e))
          <5>1. e \in Seq(Symbols)
            BY <1>3
          <5>2. /\ Longer(Append(ClosedRows(f), <<"(">> \o p), e) = Append(ClosedRows(f), <<"(">> \o (p \o e))
                /\ Longer(Append(f, p), e) = Append(f, p \o e)
                /\ p \o e \in Seq(Symbols)
            BY <5>1, WrappedLonger, Zenon
          <5> QED
            BY <5>2
        <4>2. <<"(">> \o (p \o e) = RowText(p)
          <5> DEFINE b == <<"(">>
          <5>1. b \in Seq(Symbols)
            BY DEF Symbols
          <5> HIDE DEF b
          <5>2. Texts(b, p, e)
            BY <1>3, <5>1 DEF Texts
          <5>3. (b \o p) \o e = b \o (p \o e)
            BY <5>2, Regrouped
          <5> QED
            BY <5>3, Zenon DEF RowText, b, e
        <4>3. ClosedRows(Append(f, p)) = Append(ClosedRows(f), RowText(p))
          BY ClosedRowsOfAppend
        <4> QED
          BY <3>2, <4>1, <4>2, <4>3, Zenon
      <3>5. d - 1 = 0
        BY <2>5
      <3>6. m \in Seq(Seq(Symbols))
        <4>1. Append(f, p) \in Seq(Seq(Symbols))
          BY AppendProperties
        <4> QED
          BY <3>2, <4>1, Zenon
      <3>7. Wrapped(x \o e, d - 1, m)
        BY <1>4, <3>3, <3>4, <3>5, <3>6, Zenon DEF Wrapped
      <3> QED
        BY <1>5, <2>2, <2>3, <2>5, <3>7, Zenon DEF a, e, k
    <2> QED
      BY <2>4, <2>5, Zenon
  <1>6. CASE d = 0 /\ x # <<>> /\ Last(x) = ")"
    <2>1. Cutting(GenericValues, x, 0, ClosedRows(m)) /\ m \in Seq(Seq(Symbols))
      BY <1>6, Zenon DEF Wrapped
    <2>2. Cutting(GenericValues, x \o k, 0, Append(ClosedRows(m), <<>>))
      BY <1>1, <2>1, CuttingSeparator DEF k
    <2>3. Wrapped(x \o k, d, m)
      BY <1>4, <1>6, <2>1, <2>2, Zenon DEF Wrapped
    <2> QED
      BY <1>6, <2>3, Zenon DEF a, e, k
  <1>7. CASE d = 0 /\ (x # <<>> => Last(x) # ")")
    <2> DEFINE l == ClosedRows(m)
               n == <<>>
               r == a \o n
    <2>1. Cutting(GenericValues, x, 0, Append(l, n)) /\ m \in Seq(Seq(Symbols))
      BY <1>7, Zenon DEF Wrapped
    <2>2. Cutting(GenericValues, x \o a, d + 1, Longer(Append(l, n), a))
      BY <1>2, <1>7, <2>1, Zenon
    <2>3. Longer(Append(l, n), a) = Append(l, r)
      <3>1. n \in Seq(Symbols) /\ l \in Seq(Seq(Symbols)) /\ n \o a = a /\ a \o n = a
        BY <1>3, <2>1, ClosedRowsParts, EmptySeq
      <3> DEFINE q == Append(l, n)
      <3>2. q = Append(l, n)
        OBVIOUS
      <3> HIDE DEF q, n, l
      <3>3. Longer(q, a) = Append(l, n \o a)
        BY <1>3, <3>1, <3>2, LastGrows
      <3> QED
        BY <3>1, <3>3, Zenon DEF q
    <2>4. d + 1 # 0 /\ <<>> \in Seq(Symbols)
      BY EmptySeq
    <2>5. Wrapped(x \o a, d + 1, Append(m, <<>>))
      BY <2>1, <2>2, <2>3, <2>4, Zenon DEF Wrapped, a
    <2> QED
      BY <1>7, <2>5, Zenon DEF a, e, k
  <1> QED
    BY <1>5, <1>6, <1>7, Zenon

\* Where normalizeMySQLDelimiters is after n symbols of t.
Normal(t, n, left, set, made) == Delimited(Batches(t))[n] = [left |-> left, set |-> set, out |-> made]

\* One step of it, by what the text was.
LeftNext(t, n, left) == IF LineStart(t, n + 1) THEN t[n + 1] \in Delimiters ELSE left
SetNext(t, n, left, set) ==
  IF LineStart(t, n + 1) /\ LeftNext(t, n, left) THEN t[n + 1] = "DELIMITER//" ELSE set
Batched(t, n) == IF t[n + 1] = "GO" /\ LineStart(t, n + 1) /\ LineEnd(t, n + 1) THEN "semi" ELSE t[n + 1]
Passed(t, n, set) ==
  IF set /\ Batched(t, n) = "semi" THEN "NUL"
  ELSE IF set /\ Batched(t, n) = "//" /\ LineEnd(t, n + 1) THEN "semi"
  ELSE Batched(t, n)

LEMMA NormalStep ==
  ASSUME NEW t \in Seq(Symbols), NEW n \in Nat, n < Len(t), NEW left, NEW set, NEW made, Normal(t, n, left, set, made)
  PROVE  LET left1 == LeftNext(t, n, left)
             set1 == SetNext(t, n, left, set)
         IN  Normal(t, n + 1, left1, set1, IF left1 THEN made ELSE Append(made, Passed(t, n, set1)))
  <1> DEFINE b == Batches(t)
             s == Delimited(b)[n]
             i == n + 1
  <1>1. Len(t) \in Nat /\ i \in 1 .. Len(t) /\ i - 1 = n /\ i \in Nat /\ DOMAIN t = 1 .. Len(t)
    BY LenProperties
  <1>2. b \in Seq(Symbols) /\ Len(b) = Len(t)
    <2>1. b \in Seq(Symbols \cup {"semi"}) /\ Len(b) = Len(t)
      BY BatchesParts
    <2>2. Symbols \cup {"semi"} = Symbols
      BY DEF Symbols
    <2> QED
      BY <2>1, <2>2, Zenon
  <1>3. \A j \in 1 .. Len(t) : b[j] = IF t[j] = "GO" /\ LineStart(t, j) /\ LineEnd(t, j) THEN "semi" ELSE t[j]
    BY <1>1, Zenon DEF Batches
  <1> HIDE DEF b
  <1>4. b[i] = Batched(t, n)
    BY <1>1, <1>3, Zenon DEF Batched, i
  <1>5. \A j \in 1 .. Len(t) : (b[j] = "nl" <=> t[j] = "nl") /\ ((b[j] \in Delimiters) = (t[j] \in Delimiters))
                               /\ ((b[j] = "DELIMITER//") = (t[j] = "DELIMITER//"))
    BY <1>3 DEF Delimiters
  <1>6. LineStart(b, i) = LineStart(t, i)
    <2>1. CASE i = 1
      BY <2>1, Zenon DEF LineStart
    <2>2. CASE i # 1
      <3>1. i - 1 \in 1 .. Len(t)
        BY <1>1, <2>2
      <3> QED
        BY <1>5, <2>2, <3>1, Zenon DEF LineStart
    <2> QED
      BY <2>1, <2>2, Zenon
  <1>7. LineEnd(b, i) = LineEnd(t, i)
    <2>1. CASE i = Len(t)
      BY <1>2, <2>1, Zenon DEF LineEnd
    <2>2. CASE i # Len(t)
      <3>1. i + 1 \in 1 .. Len(t)
        <4>1. Len(t) \in Nat /\ i \in 1 .. Len(t)
          BY <1>1
        <4> HIDE DEF i
        <4> QED
          BY <2>2, <4>1
      <3> QED
        BY <1>2, <1>5, <2>2, <3>1, Zenon DEF LineEnd
    <2> QED
      BY <2>1, <2>2, Zenon
  <1>8. Delimited(b)[i] = DelimiterStep(b, s, i)
    <2>1. Delimited(b)[i] = DelimiterStep(b, Delimited(b)[i - 1], i)
      BY <1>1, <1>2, DelimitedParts
    <2> QED
      BY <1>1, <2>1, Zenon
  <1>9. s.left = left /\ s.set = set /\ s.out = made
    <2>1. s = [left |-> left, set |-> set, out |-> made]
      BY Zenon DEF Normal, b
    <2> QED
      BY <2>1
  <1> HIDE DEF s, i
  <1> DEFINE left2 == IF LineStart(b, i) THEN b[i] \in Delimiters ELSE s.left
             set2 == IF LineStart(b, i) /\ left2 THEN b[i] = "DELIMITER//" ELSE s.set
             c2 == IF set2 /\ b[i] = "semi" THEN "NUL"
                   ELSE IF set2 /\ b[i] = "//" /\ LineEnd(b, i) THEN "semi"
                   ELSE b[i]
  <1>10. DelimiterStep(b, s, i) = [left |-> left2, set |-> set2, out |-> IF left2 THEN s.out ELSE Append(s.out, c2)]
    BY Zenon DEF DelimiterStep
  <1>11. left2 = LeftNext(t, n, left)
    BY <1>1, <1>5, <1>6, <1>9, Zenon DEF i, LeftNext
  <1>12. set2 = SetNext(t, n, left, set)
    <2> HIDE DEF left2
    <2> QED
      BY <1>1, <1>5, <1>6, <1>9, <1>11, Zenon DEF i, SetNext
  <1> HIDE DEF left2, set2
  <1>13. c2 = Passed(t, n, set2)
    BY <1>4, <1>7, Zenon DEF Passed, i
  <1> QED
    BY <1>8, <1>9, <1>10, <1>11, <1>12, <1>13, Zenon DEF Normal, b, i

\* A semicolon is hidden while a delimiter is set.
Hide(set, y) == IF set /\ y = "semi" THEN "NUL" ELSE y

Hidden(set, k) == [i \in DOMAIN k |-> Hide(set, k[i])]

LEMMA NormalSymbol ==
  ASSUME NEW t \in Seq(Symbols), NEW n \in Nat, n < Len(t), NEW left \in BOOLEAN, NEW set \in BOOLEAN, NEW made,
         Normal(t, n, left, set, made), left => LineStart(t, n + 1),
         t[n + 1] \notin {"GO", "DELIMITER//", "DELIMITERsemi"}, set => t[n + 1] # "//"
  PROVE  Normal(t, n + 1, FALSE, set, Append(made, Hide(set, t[n + 1])))
  <1>1. LeftNext(t, n, left) = FALSE
    BY DEF LeftNext, Delimiters
  <1>2. SetNext(t, n, left, set) = set
    BY <1>1, Zenon DEF SetNext
  <1>3. Batched(t, n) = t[n + 1]
    BY DEF Batched
  <1>4. Passed(t, n, set) = Hide(set, t[n + 1])
    BY <1>3, Zenon DEF Passed, Hide
  <1>5. LET left1 == LeftNext(t, n, left)
            set1 == SetNext(t, n, left, set)
        IN  Normal(t, n + 1, left1, set1, IF left1 THEN made ELSE Append(made, Passed(t, n, set1)))
    BY NormalStep
  <1> QED
    BY <1>1, <1>2, <1>4, <1>5, Zenon

\* The rest of a line that is left out.
LEMMA NormalRest ==
  ASSUME NEW t \in Seq(Symbols), NEW n \in Nat, n < Len(t), NEW set, NEW made,
         Normal(t, n, TRUE, set, made), ~LineStart(t, n + 1)
  PROVE  Normal(t, n + 1, TRUE, set, made)
  <1>1. LeftNext(t, n, TRUE) = TRUE
    BY Zenon DEF LeftNext
  <1>2. SetNext(t, n, TRUE, set) = set
    BY Zenon DEF SetNext
  <1>5. LET left1 == LeftNext(t, n, TRUE)
            set1 == SetNext(t, n, TRUE, set)
        IN  Normal(t, n + 1, left1, set1, IF left1 THEN made ELSE Append(made, Passed(t, n, set1)))
    BY NormalStep
  <1> QED
    BY <1>1, <1>2, <1>5, Zenon

\* The first symbol of one.
LEMMA NormalDelimiter ==
  ASSUME NEW t \in Seq(Symbols), NEW n \in Nat, n < Len(t), NEW left, NEW set, NEW made,
         Normal(t, n, left, set, made), LineStart(t, n + 1), t[n + 1] \in Delimiters
  PROVE  Normal(t, n + 1, TRUE, t[n + 1] = "DELIMITER//", made)
  <1>1. LeftNext(t, n, left) = TRUE
    BY DEF LeftNext
  <1>2. SetNext(t, n, left, set) = (t[n + 1] = "DELIMITER//")
    BY <1>1, Zenon DEF SetNext
  <1>5. LET left1 == LeftNext(t, n, left)
            set1 == SetNext(t, n, left, set)
        IN  Normal(t, n + 1, left1, set1, IF left1 THEN made ELSE Append(made, Passed(t, n, set1)))
    BY NormalStep
  <1> QED
    BY <1>1, <1>2, <1>5, Zenon

\* A semicolon comes of the delimiter that is set, at the end of a line, and of GO on
\* a line of its own.
LEMMA NormalEnds ==
  ASSUME NEW t \in Seq(Symbols), NEW n \in Nat, n < Len(t), NEW left \in BOOLEAN, NEW set \in BOOLEAN, NEW made,
         Normal(t, n, left, set, made), left => LineStart(t, n + 1), LineEnd(t, n + 1),
         \/ t[n + 1] = "//" /\ set
         \/ t[n + 1] = "GO" /\ LineStart(t, n + 1) /\ ~set
  PROVE  Normal(t, n + 1, FALSE, set, Append(made, "semi"))
  <1>1. LeftNext(t, n, left) = FALSE
    BY DEF LeftNext, Delimiters
  <1>2. SetNext(t, n, left, set) = set
    BY <1>1, Zenon DEF SetNext
  <1>4. Passed(t, n, set) = "semi"
    <2>1. CASE t[n + 1] = "//" /\ set
      <3>1. Batched(t, n) = "//"
        BY <2>1 DEF Batched
      <3>2. Batched(t, n) # "semi"
        BY <3>1
      <3> QED
        BY <2>1, <3>1, <3>2, Zenon DEF Passed
    <2>2. CASE t[n + 1] = "GO" /\ LineStart(t, n + 1) /\ ~set
      <3>1. Batched(t, n) = "semi"
        BY <2>2, Zenon DEF Batched
      <3> QED
        BY <2>2, <3>1, Zenon DEF Passed
    <2> QED
      BY <2>1, <2>2, Zenon
  <1>5. LET left1 == LeftNext(t, n, left)
            set1 == SetNext(t, n, left, set)
        IN  Normal(t, n + 1, left1, set1, IF left1 THEN made ELSE Append(made, Passed(t, n, set1)))
    BY NormalStep
  <1> QED
    BY <1>1, <1>2, <1>4, <1>5, Zenon

\* What is hidden, symbol by symbol.
LEMMA HiddenOfAppend ==
  ASSUME NEW k \in Seq(Symbols), NEW y \in Symbols, NEW set
  PROVE  /\ Hidden(set, <<>>) = <<>> /\ Hidden(set, k) \in Seq(Symbols)
         /\ Hidden(set, Append(k, y)) = Append(Hidden(set, k), Hide(set, y))
         /\ Hide(set, y) \in Symbols
         /\ Len(Hidden(set, k)) = Len(k) /\ \A i \in 1 .. Len(k) : Hidden(set, k)[i] = Hide(set, k[i])
  <1> DEFINE h == Hidden(set, k)
             z == Hide(set, y)
             e == Append(k, y)
             f == Append(h, z)
             g == Hidden(set, e)
             n == Len(k) + 1
  <1>1. \A a \in Symbols : Hide(set, a) \in Symbols
    BY DEF Hide, Symbols
  <1>2. Len(k) \in Nat /\ DOMAIN k = 1 .. Len(k) /\ \A i \in 1 .. Len(k) : k[i] \in Symbols
    BY LenProperties
  <1>3. h = [i \in 1 .. Len(k) |-> Hide(set, k[i])]
    BY <1>2, Zenon DEF Hidden
  <1> HIDE DEF h
  <1>4. h \in [1 .. Len(k) -> Symbols] /\ \A i \in 1 .. Len(k) : h[i] = Hide(set, k[i])
    BY <1>1, <1>2, <1>3, Zenon
  <1>5. h \in Seq(Symbols) /\ Len(h) = Len(k)
    BY <1>2, <1>4, FunctionToList
  <1>6. z \in Symbols
    BY <1>1, Zenon
  <1>7. Hidden(set, <<>>) = <<>>
    <2>1. DOMAIN <<>> = {}
      BY EmptyDomain
    <2>2. Hidden(set, <<>>) = [i \in {} |-> Hide(set, <<>>[i])]
      BY <2>1, Zenon DEF Hidden
    <2> DEFINE j == Hidden(set, <<>>)
    <2> HIDE DEF j
    <2>3. j \in [1 .. 0 -> Symbols]
      <3>1. 1 .. 0 = {}
        OBVIOUS
      <3>2. j = [i \in {} |-> Hide(set, <<>>[i])]
        BY <2>2, Zenon DEF j
      <3>3. \A i \in {} : Hide(set, <<>>[i]) \in Symbols
        OBVIOUS
      <3>4. j \in [{} -> Symbols]
        BY <3>2, <3>3, Zenon
      <3> QED
        BY <3>1, <3>4, Zenon
    <2>4. j \in Seq(Symbols) /\ Len(j) = 0
      BY <2>3, FunctionToList
    <2>5. j = <<>>
      BY <2>4, EmptySeq
    <2> QED
      BY <2>5, Zenon DEF j
  <1>8. DOMAIN e = 1 .. n /\ (\A i \in 1 .. Len(k) : e[i] = k[i]) /\ e[n] = y
    BY AppendParts
  <1> HIDE DEF e
  <1>9. g = [i \in 1 .. n |-> Hide(set, e[i])]
    BY <1>8, Zenon DEF Hidden
  <1> HIDE DEF z, g
  <1>10. DOMAIN f = 1 .. Len(h) + 1 /\ (\A i \in 1 .. Len(h) : f[i] = h[i]) /\ f[Len(h) + 1] = z
         /\ f = [i \in 1 .. Len(h) + 1 |-> f[i]]
    BY <1>5, <1>6, AppendParts
  <1> HIDE DEF f
  <1>11. \A i \in 1 .. n : Hide(set, e[i]) = f[i]
    <2> TAKE i \in 1 .. n
    <2>1. CASE i = n
      BY <1>5, <1>8, <1>10, <2>1, Zenon DEF z
    <2>2. CASE i # n
      <3>1. i \in 1 .. Len(k)
        BY <1>2, <2>2
      <3> QED
        BY <1>4, <1>5, <1>8, <1>10, <3>1, Zenon
    <2> QED
      BY <2>1, <2>2, Zenon
  <1>12. f = [i \in 1 .. n |-> f[i]]
    BY <1>5, <1>10, Zenon
  <1>13. g = f
    BY <1>9, <1>11, <1>12
  <1> QED
    BY <1>4, <1>5, <1>6, <1>7, <1>13, Zenon DEF g, f, e, z, h

\* After n symbols of t normalizeMySQLDelimiters has passed on made, and what comes next
\* is not on a line that is left out, unless it begins one.
MadeUpTo(t, n, set, made) ==
  /\ made \in Seq(Symbols) /\ set \in BOOLEAN
  /\ \E left \in BOOLEAN : Normal(t, n, left, set, made) /\ (left => LineStart(t, n + 1))

\* Of k it makes z.
Makes(k, z, set, set1) ==
  \A t \in Seq(Symbols) : \A n \in Nat : \A made :
    Has(t, n, k) /\ MadeUpTo(t, n, set, made) => MadeUpTo(t, n + Len(k), set1, made \o z)

LEMMA MadeSymbol ==
  ASSUME NEW t \in Seq(Symbols), NEW n \in Nat, n < Len(t), NEW set, NEW made, MadeUpTo(t, n, set, made),
         NEW y \in Symbols, t[n + 1] = y, y \notin {"GO", "DELIMITER//", "DELIMITERsemi"}, set => y # "//"
  PROVE  MadeUpTo(t, n + 1, set, Append(made, Hide(set, y)))
  <1>1. made \in Seq(Symbols) /\ set \in BOOLEAN
    BY Zenon DEF MadeUpTo
  <1>2. PICK left \in BOOLEAN : Normal(t, n, left, set, made) /\ (left => LineStart(t, n + 1))
    BY Zenon DEF MadeUpTo
  <1>3. Normal(t, n + 1, FALSE, set, Append(made, Hide(set, y)))
    BY <1>1, <1>2, NormalSymbol, Zenon
  <1>4. Hide(set, y) \in Symbols
    BY DEF Hide, Symbols
  <1>5. Append(made, Hide(set, y)) \in Seq(Symbols)
    BY <1>1, <1>4, AppendProperties
  <1>6. FALSE \in BOOLEAN
    OBVIOUS
  <1> QED
    BY <1>1, <1>3, <1>5, <1>6, Zenon DEF MadeUpTo

\* The first symbol of what comes next.
LEMMA HasOne ==
  ASSUME NEW t \in Seq(Symbols), NEW n \in Nat, NEW y, Has(t, n, <<y>>)
  PROVE  n < Len(t) /\ t[n + 1] = y /\ n + 1 \in Nat
  BY DEF Has

LEMMA MakesSymbol ==
  ASSUME NEW y \in Symbols, y \notin {"GO", "DELIMITER//", "DELIMITERsemi"}, NEW set, set => y # "//"
  PROVE  Makes(<<y>>, <<Hide(set, y)>>, set, set)
  <1> SUFFICES ASSUME NEW t \in Seq(Symbols), NEW n \in Nat, NEW made, Has(t, n, <<y>>), MadeUpTo(t, n, set, made)
               PROVE  MadeUpTo(t, n + Len(<<y>>), set, made \o <<Hide(set, y)>>)
    BY Zenon DEF Makes
  <1>1. n < Len(t) /\ t[n + 1] = y
    BY HasOne
  <1>2. MadeUpTo(t, n + 1, set, Append(made, Hide(set, y)))
    BY <1>1, MadeSymbol, Zenon
  <1>3. Len(<<y>>) = 1
    OBVIOUS
  <1>4. made \in Seq(Symbols) /\ Hide(set, y) \in Symbols
    <2>1. Hide(set, y) \in Symbols
      BY DEF Hide, Symbols
    <2> QED
      BY <2>1, Zenon DEF MadeUpTo
  <1>5. Append(made, Hide(set, y)) = made \o <<Hide(set, y)>>
    BY <1>4, AppendIsConcat
  <1> QED
    BY <1>2, <1>3, <1>5, Zenon

LEMMA MakesConcat ==
  ASSUME NEW j \in Seq(Symbols), NEW k \in Seq(Symbols), NEW y \in Seq(Symbols), NEW z \in Seq(Symbols),
         NEW p, NEW q, NEW r, Makes(j, y, p, q), Makes(k, z, q, r)
  PROVE  Makes(j \o k, y \o z, p, r)
  <1> SUFFICES ASSUME NEW t \in Seq(Symbols), NEW n \in Nat, NEW made, Has(t, n, j \o k), MadeUpTo(t, n, p, made)
               PROVE  MadeUpTo(t, n + Len(j \o k), r, made \o (y \o z))
    BY Zenon DEF Makes
  <1>1. /\ Has(t, n, j) /\ Has(t, n + Len(j), k)
        /\ n + Len(j) \in Nat /\ n + Len(j \o k) = (n + Len(j)) + Len(k)
    BY HasConcat
  <1>2. MadeUpTo(t, n + Len(j), q, made \o y)
    BY <1>1, Zenon DEF Makes
  <1>3. MadeUpTo(t, (n + Len(j)) + Len(k), r, (made \o y) \o z)
    BY <1>1, <1>2, Zenon DEF Makes
  <1>4. Texts(made, y, z)
    BY Zenon DEF Texts, MadeUpTo
  <1>5. (made \o y) \o z = made \o (y \o z)
    BY <1>4, Regrouped
  <1> QED
    BY <1>1, <1>3, <1>5, Zenon

LEMMA MakesNothing ==
  ASSUME NEW set
  PROVE  Makes(<<>>, <<>>, set, set)
  <1> SUFFICES ASSUME NEW t \in Seq(Symbols), NEW n \in Nat, NEW made, MadeUpTo(t, n, set, made)
               PROVE  MadeUpTo(t, n + Len(<<>>), set, made \o <<>>)
    BY Zenon DEF Makes
  <1>1. made \in Seq(Symbols)
    BY Zenon DEF MadeUpTo
  <1>2. made \o <<>> = made
    BY <1>1, ConcatEmptySeq
  <1>3. n + Len(<<>>) = n
    OBVIOUS
  <1> QED
    BY <1>2, <1>3, Zenon

\* What may be on a line that is passed on, while a delimiter is set or not.
Ordinary(set) == Symbols \ ({"GO", "DELIMITER//", "DELIMITERsemi"} \cup (IF set THEN {"//"} ELSE {}))

\* Symbol by symbol, what it passes on is hidden or not.
LEMMA MakesHidden ==
  ASSUME NEW set, NEW k \in Seq(Symbols), Range(k) \subseteq Ordinary(set)
  PROVE  Makes(k, Hidden(set, k), set, set)
  <1> DEFINE T == Ordinary(set)
             Done == {l \in Seq(Symbols) : Makes(l, Hidden(set, l), set, set)}
  <1>0. "w" \in Symbols /\ <<>> \in Seq(Symbols)
    BY EmptySeq DEF Symbols
  <1>1. <<>> \in Done
    <2>1. Hidden(set, <<>>) = <<>>
      BY <1>0, HiddenOfAppend, Zenon
    <2>2. Makes(<<>>, Hidden(set, <<>>), set, set)
      BY <2>1, MakesNothing, Zenon
    <2> QED
      BY <1>0, <2>2, Zenon
  <1>2. ASSUME NEW l \in Seq(T), NEW x \in T, l \in Done PROVE Append(l, x) \in Done
    <2>1. x \in Symbols /\ <<x>> \in Seq(Symbols) /\ l \in Seq(Symbols)
          /\ x \notin {"GO", "DELIMITER//", "DELIMITERsemi"} /\ (set => x # "//")
      BY <1>2 DEF Ordinary
    <2>2. Append(l, x) = l \o <<x>>
      BY <2>1, AppendIsConcat
    <2>3. Append(l, x) \in Seq(Symbols)
      BY <2>1, AppendProperties
    <2>4. Makes(<<x>>, <<Hide(set, x)>>, set, set)
      BY <2>1, MakesSymbol, Zenon
    <2>5. Makes(l, Hidden(set, l), set, set)
      BY <1>2
    <2>6. /\ Hidden(set, l) \in Seq(Symbols) /\ Hide(set, x) \in Symbols
          /\ Hidden(set, Append(l, x)) = Append(Hidden(set, l), Hide(set, x))
      BY <2>1, HiddenOfAppend, Zenon
    <2>7. Append(Hidden(set, l), Hide(set, x)) = Hidden(set, l) \o <<Hide(set, x)>>
      BY <2>6, AppendIsConcat
    <2>8. <<Hide(set, x)>> \in Seq(Symbols)
      BY <2>6
    <2>9. Makes(l \o <<x>>, Hidden(set, l) \o <<Hide(set, x)>>, set, set)
      BY <2>1, <2>4, <2>5, <2>6, <2>8, MakesConcat, Zenon
    <2> QED
      BY <2>2, <2>3, <2>6, <2>7, <2>9, Zenon
  <1> HIDE DEF Done
  <1>3. Seq(T) \subseteq Done
    BY <1>1, <1>2, InductionOnLists
  <1>4. k \in Seq(T)
    <2>1. k \in Seq(Range(k)) /\ Range(k) \in SUBSET Symbols
      BY SeqOfRange, RangeOfSeq
    <2> HIDE DEF T
    <2> QED
      BY <2>1, SeqMonotonic DEF T
  <1> QED
    BY <1>3, <1>4, Zenon DEF Done

\* MadeUpTo, by the line that is left out or not.
LEMMA MadeParts ==
  ASSUME NEW t, NEW n, NEW set, NEW made, MadeUpTo(t, n, set, made)
  PROVE  /\ made \in Seq(Symbols) /\ set \in BOOLEAN
         /\ \E left \in BOOLEAN : Normal(t, n, left, set, made) /\ (left => LineStart(t, n + 1))
  BY Zenon DEF MadeUpTo

LEMMA HasThree ==
  ASSUME NEW t \in Seq(Symbols), NEW n \in Nat, NEW x, NEW y, NEW z, Has(t, n, <<x, y, z>>)
  PROVE  /\ t[n + 1] = x /\ t[n + 2] = y /\ t[n + 3] = z
         /\ n < Len(t) /\ n + 1 < Len(t) /\ n + 2 < Len(t) /\ n + Len(<<x, y, z>>) = n + 3
  <1> DEFINE k == <<x, y, z>>
  <1>1. Len(k) = 3 /\ k[1] = x /\ k[2] = y /\ k[3] = z
    OBVIOUS
  <1> HIDE DEF k
  <1>2. /\ n + 3 <= Len(t) /\ \A i \in 1 .. 3 : t[n + i] = k[i]
    BY <1>1, Zenon DEF Has, k
  <1>3. t[n + 1] = k[1] /\ t[n + 2] = k[2] /\ t[n + 3] = k[3]
    BY <1>2
  <1>4. n < Len(t) /\ n + 1 < Len(t) /\ n + 2 < Len(t)
    <2>1. Len(t) \in Nat
      BY LenProperties
    <2> QED
      BY <1>2, <2>1
  <1> QED
    BY <1>1, <1>3, <1>4, Zenon DEF k

LEMMA Counting ==
  ASSUME NEW n \in Nat
  PROVE  /\ n + 1 \in Nat /\ n + 2 \in Nat
         /\ (n + 1) + 1 = n + 2 /\ (n + 2) + 1 = n + 3 /\ (n + 2) - 1 = n + 1 /\ (n + 3) - 1 = n + 2
         /\ (n + 3) + 1 = n + 4 /\ (n + 4) - 1 = n + 3 /\ n + 3 # 1
  OBVIOUS

\* GO on a line of its own.
LEMMA MakesBatch == Makes(<<"nl", "GO", "nl">>, <<"nl", "semi", "nl">>, FALSE, FALSE)
  <1> DEFINE k == <<"nl", "GO", "nl">>
  <1> SUFFICES ASSUME NEW t \in Seq(Symbols), NEW n \in Nat, NEW made, Has(t, n, k), MadeUpTo(t, n, FALSE, made)
               PROVE  MadeUpTo(t, n + Len(k), FALSE, made \o <<"nl", "semi", "nl">>)
    BY Zenon DEF Makes
  <1>1. /\ t[n + 1] = "nl" /\ t[n + 2] = "GO" /\ t[n + 3] = "nl"
        /\ n < Len(t) /\ n + 1 < Len(t) /\ n + 2 < Len(t)
        /\ n + 1 \in Nat /\ n + 2 \in Nat
        /\ (n + 1) + 1 = n + 2 /\ (n + 2) + 1 = n + 3 /\ (n + 2) - 1 = n + 1
        /\ n + Len(k) = n + 3
    <2>1. /\ t[n + 1] = "nl" /\ t[n + 2] = "GO" /\ t[n + 3] = "nl"
          /\ n < Len(t) /\ n + 1 < Len(t) /\ n + 2 < Len(t) /\ n + Len(k) = n + 3
      BY HasThree, Zenon
    <2> QED
      BY <2>1, Counting, Zenon
  <1> HIDE DEF k
  <1>2. /\ "nl" \in Symbols /\ Hide(FALSE, "nl") = "nl" /\ "semi" \in Symbols
        /\ "nl" \notin {"GO", "DELIMITER//", "DELIMITERsemi"} /\ "nl" # "//"
    BY DEF Symbols, Hide
  <1> DEFINE a == Append(made, "nl")
             b == Append(a, "semi")
             c == Append(b, "nl")
  <1>3. MadeUpTo(t, n + 1, FALSE, a)
    BY <1>1, <1>2, MadeSymbol, Zenon
  <1>4. made \in Seq(Symbols) /\ a \in Seq(Symbols)
    <2>1. a \in Seq(Symbols)
      BY <1>3, MadeParts, Zenon
    <2> QED
      BY <2>1, MadeParts, Zenon
  <1>5. PICK left \in BOOLEAN : Normal(t, n + 1, left, FALSE, a) /\ (left => LineStart(t, (n + 1) + 1))
    BY <1>3, MadeParts, Zenon
  <1> HIDE DEF a
  <1>6. LineStart(t, (n + 1) + 1) /\ LineEnd(t, (n + 1) + 1)
    BY <1>1, Zenon DEF LineStart, LineEnd
  <1>7. Normal(t, n + 2, FALSE, FALSE, b)
    <2>1. FALSE \in BOOLEAN /\ t[(n + 1) + 1] = "GO"
      BY <1>1
    <2> QED
      BY <1>1, <1>5, <1>6, <2>1, NormalEnds, Zenon
  <1>8. b \in Seq(Symbols)
    BY <1>2, <1>4, AppendProperties
  <1>9. MadeUpTo(t, n + 2, FALSE, b)
    <2>1. FALSE \in BOOLEAN
      OBVIOUS
    <2> QED
      BY <1>7, <1>8, <2>1, Zenon DEF MadeUpTo
  <1> HIDE DEF b
  <1>10. MadeUpTo(t, n + 3, FALSE, c)
    BY <1>1, <1>2, <1>9, MadeSymbol, Zenon
  <1>11. c = made \o <<"nl", "semi", "nl">>
    BY <1>4 DEF a, b, c
  <1> QED
    BY <1>1, <1>10, <1>11, Zenon

\* A DELIMITER line.
LEMMA MakesDelimiter ==
  ASSUME NEW y \in Delimiters, NEW set
  PROVE  Makes(<<"nl", y, "nl">>, <<"nl">>, set, y = "DELIMITER//")
  <1> DEFINE k == <<"nl", y, "nl">>
             set1 == y = "DELIMITER//"
  <1> SUFFICES ASSUME NEW t \in Seq(Symbols), NEW n \in Nat, NEW made, Has(t, n, k), MadeUpTo(t, n, set, made)
               PROVE  MadeUpTo(t, n + Len(k), set1, made \o <<"nl">>)
    BY Zenon DEF Makes
  <1>1. /\ t[n + 1] = "nl" /\ t[n + 2] = y /\ t[n + 3] = "nl"
        /\ n < Len(t) /\ n + 1 < Len(t) /\ n + 2 < Len(t)
        /\ n + 1 \in Nat /\ n + 2 \in Nat
        /\ (n + 1) + 1 = n + 2 /\ (n + 2) + 1 = n + 3 /\ (n + 2) - 1 = n + 1 /\ (n + 3) - 1 = n + 2
        /\ (n + 3) + 1 = n + 4 /\ (n + 4) - 1 = n + 3 /\ n + 3 # 1
        /\ n + Len(k) = n + 3
    <2>1. /\ t[n + 1] = "nl" /\ t[n + 2] = y /\ t[n + 3] = "nl"
          /\ n < Len(t) /\ n + 1 < Len(t) /\ n + 2 < Len(t) /\ n + Len(k) = n + 3
      BY HasThree, Zenon
    <2> QED
      BY <2>1, Counting, Zenon
  <1> HIDE DEF k
  <1>2. /\ "nl" \in Symbols /\ Hide(set, "nl") = "nl" /\ y # "nl"
        /\ "nl" \notin {"GO", "DELIMITER//", "DELIMITERsemi"} /\ "nl" # "//"
    BY DEF Symbols, Hide, Delimiters
  <1> DEFINE a == Append(made, "nl")
  <1>3. MadeUpTo(t, n + 1, set, a)
    BY <1>1, <1>2, MadeSymbol, Zenon
  <1>4. made \in Seq(Symbols) /\ a \in Seq(Symbols)
    <2>1. a \in Seq(Symbols)
      BY <1>3, MadeParts, Zenon
    <2> QED
      BY <2>1, MadeParts, Zenon
  <1>5. PICK left \in BOOLEAN : Normal(t, n + 1, left, set, a) /\ (left => LineStart(t, (n + 1) + 1))
    BY <1>3, MadeParts, Zenon
  <1> HIDE DEF a
  <1>6. LineStart(t, (n + 1) + 1) /\ ~LineStart(t, (n + 2) + 1) /\ LineStart(t, (n + 3) + 1)
    <2>1. LineStart(t, n + 2)
      BY <1>1, Zenon DEF LineStart
    <2>2. LineStart(t, n + 4)
      BY <1>1, Zenon DEF LineStart
    <2>3. ~LineStart(t, n + 3)
      BY <1>1, <1>2, Zenon DEF LineStart
    <2> QED
      BY <1>1, <2>1, <2>2, <2>3, Zenon
  <1>7. Normal(t, n + 2, TRUE, set1, a)
    BY <1>1, <1>5, <1>6, NormalDelimiter, Zenon
  <1>8. set1 \in BOOLEAN /\ TRUE \in BOOLEAN
    OBVIOUS
  <1> HIDE DEF set1
  <1>9. Normal(t, n + 3, TRUE, set1, a)
    BY <1>1, <1>6, <1>7, NormalRest, Zenon
  <1>10. a = made \o <<"nl">>
    BY <1>4 DEF a
  <1>11. MadeUpTo(t, n + 3, set1, a)
    BY <1>4, <1>6, <1>8, <1>9, Zenon DEF MadeUpTo
  <1> QED
    BY <1>1, <1>10, <1>11, Zenon

\* The delimiter that is set, at the end of a line.
LEMMA MakesEnd == Makes(<<"//", "nl", "DELIMITERsemi", "nl">>, <<"semi", "nl">>, TRUE, FALSE)
  <1> DEFINE j == <<"nl", "DELIMITERsemi", "nl">>
             i == <<"//">>
             k == i \o j
             z == <<"semi">> \o <<"nl">>
  <1>0. <<"semi", "nl">> = z
    OBVIOUS
  <1>1. <<"//", "nl", "DELIMITERsemi", "nl">> = k
    OBVIOUS
  <1>2. {"nl", "DELIMITERsemi", "//", "semi"} \subseteq Symbols
    BY DEF Symbols
  <1>3. j \in Seq(Symbols) /\ <<"//">> \in Seq(Symbols) /\ <<"semi">> \in Seq(Symbols) /\ <<"nl">> \in Seq(Symbols)
    BY <1>2
  <1>4. Makes(j, <<"nl">>, TRUE, FALSE)
    <2>1. "DELIMITERsemi" \in Delimiters /\ ("DELIMITERsemi" = "DELIMITER//") = FALSE
      BY DEF Delimiters
    <2> QED
      BY <2>1, MakesDelimiter, Zenon
  <1> HIDE DEF j
  <1> SUFFICES ASSUME NEW t \in Seq(Symbols), NEW n \in Nat, NEW made, Has(t, n, k), MadeUpTo(t, n, TRUE, made)
               PROVE  MadeUpTo(t, n + Len(k), FALSE, made \o z)
    BY <1>0, <1>1, Zenon DEF Makes
  <1>i. i \in Seq(Symbols)
    BY <1>3
  <1> HIDE DEF i
  <1>j. j \in Seq(Symbols)
    BY <1>3
  <1>5. /\ Has(t, n, i) /\ Has(t, n + Len(i), j)
        /\ n + Len(i) \in Nat /\ n + Len(k) = (n + Len(i)) + Len(j)
    BY <1>i, <1>j, HasConcat
  <1>6. Len(i) = 1
    BY DEF i
  <1>7. n < Len(t) /\ t[n + 1] = "//"
    <2>1. Has(t, n, <<"//">>)
      BY <1>5, Zenon DEF i
    <2> QED
      BY <2>1, HasOne
  <1>8. LineEnd(t, n + 1)
    <2>1. j[1] = "nl" /\ 1 \in 1 .. Len(j)
      BY DEF j
    <2>2. t[(n + 1) + 1] = "nl"
      BY <1>5, <1>6, <2>1, Zenon DEF Has
    <2> QED
      BY <2>2, Zenon DEF LineEnd
  <1>9. made \in Seq(Symbols)
    BY MadeParts, Zenon
  <1>10. PICK left \in BOOLEAN : Normal(t, n, left, TRUE, made) /\ (left => LineStart(t, n + 1))
    BY MadeParts, Zenon
  <1> DEFINE b == made \o <<"semi">>
  <1>11. Append(made, "semi") = b
    BY <1>2, <1>9, AppendIsConcat
  <1>12. Normal(t, n + 1, FALSE, TRUE, b)
    <2>1. TRUE \in BOOLEAN
      OBVIOUS
    <2> QED
      BY <1>7, <1>8, <1>10, <1>11, <2>1, NormalEnds, Zenon
  <1>13. b \in Seq(Symbols)
    BY <1>3, <1>9, ConcatProperties
  <1> HIDE DEF b
  <1>14. MadeUpTo(t, n + 1, TRUE, b)
    <2>1. TRUE \in BOOLEAN /\ FALSE \in BOOLEAN
      OBVIOUS
    <2> QED
      BY <1>12, <1>13, <2>1, Zenon DEF MadeUpTo
  <1>15. MadeUpTo(t, (n + 1) + Len(j), FALSE, b \o <<"nl">>)
    BY <1>4, <1>5, <1>6, <1>14, Zenon DEF Makes
  <1>16. b \o <<"nl">> = made \o z
    <2>1. Texts(made, <<"semi">>, <<"nl">>)
      BY <1>3, <1>9, Zenon DEF Texts
    <2> QED
      BY <2>1, Regrouped DEF b
  <1> QED
    BY <1>5, <1>6, <1>15, <1>16, Zenon

\* A routine between its DELIMITER lines: they are left out, its semicolons are hidden
\* and the delimiter at its end becomes one.
LEMMA MakesRoutine ==
  ASSUME NEW c \in Seq(Symbols), Range(c) \subseteq Ordinary(TRUE)
  PROVE  Makes((<<"nl", "DELIMITER//", "nl">> \o c) \o <<"//", "nl", "DELIMITERsemi", "nl">>,
               (<<"nl">> \o Hidden(TRUE, c)) \o <<"semi", "nl">>, FALSE, FALSE)
  <1> DEFINE j == <<"nl", "DELIMITER//", "nl">>
             k == <<"//", "nl", "DELIMITERsemi", "nl">>
             h == Hidden(TRUE, c)
             nl == <<"nl">>
             e == <<"semi", "nl">>
  <1>1. {"nl", "DELIMITER//", "DELIMITERsemi", "//", "semi"} \subseteq Symbols
    BY DEF Symbols
  <1>2. j \in Seq(Symbols) /\ k \in Seq(Symbols) /\ nl \in Seq(Symbols) /\ e \in Seq(Symbols)
    BY <1>1
  <1>3. h \in Seq(Symbols)
    <2>1. "nl" \in Symbols
      BY <1>1
    <2> QED
      BY <2>1, HiddenOfAppend, Zenon
  <1>4. Makes(j, nl, FALSE, TRUE)
    <2>1. "DELIMITER//" \in Delimiters /\ ("DELIMITER//" = "DELIMITER//") = TRUE
      BY DEF Delimiters
    <2> QED
      BY <2>1, MakesDelimiter, Zenon
  <1>5. Makes(c, h, TRUE, TRUE)
    BY MakesHidden, Zenon
  <1>6. Makes(k, e, TRUE, FALSE)
    BY MakesEnd, Zenon
  <1> HIDE DEF j, k, h, nl, e
  <1>7. Makes(j \o c, nl \o h, FALSE, TRUE)
    BY <1>2, <1>3, <1>4, <1>5, MakesConcat, Zenon
  <1>8. j \o c \in Seq(Symbols)
    BY <1>2, ConcatProperties
  <1>9. nl \o h \in Seq(Symbols)
    BY <1>2, <1>3, ConcatProperties
  <1>10. Makes((j \o c) \o k, (nl \o h) \o e, FALSE, FALSE)
    BY <1>2, <1>6, <1>7, <1>8, <1>9, MakesConcat, Zenon
  <1> QED
    BY <1>10, Zenon DEF j, k, h, nl, e

\* Of x, whatever follows, normalizeMySQLDelimiters and the batches before it make z.
Ready(x, z) == \A u \in Seq(Symbols) : MadeUpTo(x \o u, Len(x), FALSE, z)

LEMMA ReadyAtFirst == Ready(<<>>, <<>>)
  <1> SUFFICES ASSUME NEW u \in Seq(Symbols)
               PROVE  MadeUpTo(<<>> \o u, Len(<<>>), FALSE, <<>>)
    BY Zenon DEF Ready
  <1>1. <<>> \o u = u
    BY ConcatEmptySeq
  <1>2. Len(<<>>) = 0
    OBVIOUS
  <1>3. Batches(u) \in Seq(Symbols \cup {"semi"})
    BY BatchesParts, Zenon
  <1> DEFINE b == Batches(u)
  <1> HIDE DEF b
  <1>4. Delimited(b)[0] = [left |-> FALSE, set |-> FALSE, out |-> <<>>]
    BY <1>3, DelimitedParts, Zenon DEF b
  <1>5. Normal(u, 0, FALSE, FALSE, <<>>)
    BY <1>4, Zenon DEF Normal, b
  <1>6. <<>> \in Seq(Symbols) /\ FALSE \in BOOLEAN
    BY EmptySeq
  <1>7. MadeUpTo(u, 0, FALSE, <<>>)
    BY <1>5, <1>6, Zenon DEF MadeUpTo
  <1> QED
    BY <1>1, <1>2, <1>7, Zenon

LEMMA ReadyMakes ==
  ASSUME NEW x \in Seq(Symbols), NEW z, NEW k \in Seq(Symbols), NEW y, Ready(x, z), Makes(k, y, FALSE, FALSE)
  PROVE  Ready(x \o k, z \o y)
  <1> SUFFICES ASSUME NEW u \in Seq(Symbols)
               PROVE  MadeUpTo((x \o k) \o u, Len(x \o k), FALSE, z \o y)
    BY Zenon DEF Ready
  <1> DEFINE v == k \o u
             t == x \o v
  <1>1. /\ Len(x) \in Nat /\ Len(k) \in Nat /\ Len(u) \in Nat /\ Len(x \o k) = Len(x) + Len(k)
    BY ConcatProperties
  <1>2. v \in Seq(Symbols) /\ t \in Seq(Symbols)
    BY ConcatProperties
  <1>3. (x \o k) \o u = t
    BY ConcatAssociative
  <1>4. Has(t, Len(x), k)
    BY HasNext, Zenon
  <1> HIDE DEF v
  <1>5. MadeUpTo(t, Len(x), FALSE, z)
    BY <1>2, Zenon DEF Ready
  <1> HIDE DEF t
  <1>6. MadeUpTo(t, Len(x) + Len(k), FALSE, z \o y)
    BY <1>1, <1>2, <1>4, <1>5, Zenon DEF Makes
  <1> QED
    BY <1>1, <1>3, <1>6, Zenon

LEMMA ReadyAtLast ==
  ASSUME NEW x \in Seq(Symbols), NEW z, Ready(x, z)
  PROVE  Undelimited(Batches(x)) = z /\ z \in Seq(Symbols)
  <1>1. <<>> \in Seq(Symbols) /\ x \o <<>> = x
    BY EmptySeq, ConcatEmptySeq
  <1>2. MadeUpTo(x, Len(x), FALSE, z)
    BY <1>1, Zenon DEF Ready
  <1>3. PICK left \in BOOLEAN : Normal(x, Len(x), left, FALSE, z)
    BY <1>2, MadeParts, Zenon
  <1> DEFINE b == Batches(x)
  <1>4. Len(b) = Len(x)
    BY BatchesParts, Zenon
  <1>5. Delimited(b)[Len(x)] = [left |-> left, set |-> FALSE, out |-> z]
    BY <1>3, Zenon DEF Normal
  <1> HIDE DEF b
  <1>6. Delimited(b)[Len(b)] = [left |-> left, set |-> FALSE, out |-> z]
    BY <1>4, <1>5, Zenon
  <1> DEFINE r == Delimited(b)[Len(b)]
  <1>7. Undelimited(b) = r.out
    BY Zenon DEF Undelimited
  <1> HIDE DEF r
  <1>8. r.out = z
    <2>1. r = [left |-> left, set |-> FALSE, out |-> z]
      BY <1>6, Zenon DEF r
    <2> QED
      BY <2>1
  <1>9. z \in Seq(Symbols)
    BY <1>2, MadeParts, Zenon
  <1> QED
    BY <1>7, <1>8, <1>9, Zenon DEF b

\* The types of what is shown again.
LEMMA RestoredParts ==
  ASSUME NEW p \in Seq(Symbols)
  PROVE  /\ Restored(p) \in Seq(Symbols) /\ Len(Restored(p)) = Len(p) /\ Len(p) \in Nat
         /\ \A i \in 1 .. Len(p) : Restored(p)[i] = IF p[i] = "NUL" THEN "semi" ELSE p[i]
  <1>1. Symbols = Symbols \cup {"NUL"} /\ "semi" \in Symbols
    BY DEF Symbols
  <1>2. p \in Seq(Symbols \cup {"NUL"})
    BY <1>1, Zenon
  <1>3. Len(p) \in Nat
    BY LenProperties
  <1> QED
    BY <1>1, <1>2, <1>3, ShownParts, Zenon

\* Two lists of symbols that are the same everywhere.
LEMMA SameList ==
  ASSUME NEW p \in Seq(Symbols), NEW q \in Seq(Symbols), Len(p) = Len(q), \A i \in 1 .. Len(p) : p[i] = q[i]
  PROVE  p = q
  <1>1. p = [i \in 1 .. Len(p) |-> p[i]] /\ q = [i \in 1 .. Len(q) |-> q[i]]
    BY SeqDef
  <1> QED
    BY <1>1

LEMMA RestoredConcat ==
  ASSUME NEW p \in Seq(Symbols), NEW k \in Seq(Symbols)
  PROVE  Restored(p \o k) = Restored(p) \o Restored(k)
  <1> DEFINE a == Restored(p)
             b == Restored(k)
             x == p \o k
             y == a \o b
             r == Restored(x)
             n == Len(p)
             m == Len(k)
             Seen(c) == IF c = "NUL" THEN "semi" ELSE c
  <1>1. a \in Seq(Symbols) /\ Len(a) = n /\ n \in Nat /\ \A i \in 1 .. n : a[i] = Seen(p[i])
    BY RestoredParts, Zenon
  <1>2. b \in Seq(Symbols) /\ Len(b) = m /\ m \in Nat /\ \A i \in 1 .. m : b[i] = Seen(k[i])
    BY RestoredParts, Zenon
  <1>3. /\ x \in Seq(Symbols) /\ Len(x) = n + m
        /\ \A i \in 1 .. n + m : x[i] = IF i <= n THEN p[i] ELSE k[i - n]
    BY ConcatProperties
  <1>a. a \in Seq(Symbols)
    BY <1>1
  <1>b. b \in Seq(Symbols)
    BY <1>2
  <1> HIDE DEF a, b
  <1>4. /\ y \in Seq(Symbols) /\ Len(y) = Len(a) + Len(b)
        /\ \A i \in 1 .. Len(a) + Len(b) : y[i] = IF i <= Len(a) THEN a[i] ELSE b[i - Len(a)]
    BY <1>a, <1>b, ConcatProperties
  <1> HIDE DEF x
  <1>5. r \in Seq(Symbols) /\ Len(r) = Len(x) /\ \A i \in 1 .. Len(x) : r[i] = Seen(x[i])
    BY <1>3, RestoredParts, Zenon
  <1> HIDE DEF y, r, n, m
  <1>6. \A i \in 1 .. Len(r) : r[i] = y[i]
    <2> TAKE i \in 1 .. Len(r)
    <2>0. i \in 1 .. Len(x) /\ i \in 1 .. n + m /\ i \in 1 .. Len(a) + Len(b)
      BY <1>1, <1>2, <1>3, <1>5, Zenon
    <2> HIDE DEF Seen
    <2>1. CASE i <= n
      <3>1. i \in 1 .. n
        BY <1>1, <1>2, <2>0, <2>1
      <3> QED
        BY <1>1, <1>3, <1>4, <1>5, <2>0, <2>1, <3>1, Zenon
    <2>2. CASE ~(i <= n)
      <3>1. i - n \in 1 .. m
        BY <1>1, <1>2, <2>0, <2>2
      <3> QED
        BY <1>1, <1>2, <1>3, <1>4, <1>5, <2>0, <2>2, <3>1, Zenon
    <2> QED
      BY <2>1, <2>2, Zenon
  <1>7. Len(r) = Len(y)
    BY <1>1, <1>2, <1>3, <1>4, <1>5, Zenon
  <1>8. r = y
    BY <1>4, <1>5, <1>6, <1>7, SameList, Zenon
  <1> QED
    BY <1>8, Zenon DEF r, y, x, a, b

\* A text without hidden semicolons is shown as it is, and one with hidden semicolons
\* as it was.
LEMMA RestoredSame ==
  ASSUME NEW k \in Seq(Symbols), "NUL" \notin Range(k)
  PROVE  Restored(k) = k /\ Restored(Hidden(TRUE, k)) = k /\ Hidden(FALSE, k) = k
  <1> DEFINE a == Restored(k)
             h == Hidden(TRUE, k)
             b == Restored(h)
             g == Hidden(FALSE, k)
  <1>1. a \in Seq(Symbols) /\ Len(a) = Len(k)
        /\ \A i \in 1 .. Len(k) : a[i] = IF k[i] = "NUL" THEN "semi" ELSE k[i]
    BY RestoredParts, Zenon
  <1>2. \A i \in 1 .. Len(k) : k[i] # "NUL"
    BY DEF Range
  <1>3. "w" \in Symbols
    BY DEF Symbols
  <1>4. h \in Seq(Symbols) /\ Len(h) = Len(k) /\ \A i \in 1 .. Len(k) : h[i] = Hide(TRUE, k[i])
    BY <1>3, HiddenOfAppend, Zenon
  <1>5. g \in Seq(Symbols) /\ Len(g) = Len(k) /\ \A i \in 1 .. Len(k) : g[i] = Hide(FALSE, k[i])
    BY <1>3, HiddenOfAppend, Zenon
  <1> HIDE DEF h
  <1>6. b \in Seq(Symbols) /\ Len(b) = Len(h)
        /\ \A i \in 1 .. Len(h) : b[i] = IF h[i] = "NUL" THEN "semi" ELSE h[i]
    BY <1>4, RestoredParts, Zenon
  <1> HIDE DEF a, b, g
  <1>7. \A i \in 1 .. Len(a) : a[i] = k[i]
    BY <1>1, <1>2, Zenon
  <1>8. \A i \in 1 .. Len(b) : b[i] = k[i]
    <2> TAKE i \in 1 .. Len(b)
    <2>1. b[i] = (IF h[i] = "NUL" THEN "semi" ELSE h[i]) /\ h[i] = Hide(TRUE, k[i]) /\ k[i] # "NUL"
      BY <1>2, <1>4, <1>6, Zenon
    <2> QED
      BY <2>1 DEF Hide
  <1>9. \A i \in 1 .. Len(g) : g[i] = k[i]
    BY <1>5, Zenon DEF Hide
  <1>10. a = k
    BY <1>1, <1>7, SameList, Zenon
  <1>11. b = k
    <2>1. Len(b) = Len(k)
      BY <1>4, <1>6, Zenon
    <2> QED
      BY <1>6, <1>8, <2>1, SameList, Zenon
  <1>12. g = k
    BY <1>5, <1>9, SameList, Zenon
  <1> QED
    BY <1>10, <1>11, <1>12, Zenon DEF a, b, h, g

GenericScript == <<"generic", "script">>

\* What SplitScript shows of the pieces.
Restoring(m) == [k \in DOMAIN m |-> Restored(m[k])]

LEMMA RestoringParts ==
  ASSUME NEW m \in Seq(Seq(Symbols))
  PROVE  /\ Restoring(m) \in Seq(Seq(Symbols)) /\ Len(Restoring(m)) = Len(m) /\ Len(m) \in Nat
         /\ \A i \in 1 .. Len(m) : Restoring(m)[i] = Restored(m[i])
  <1> DEFINE n == Len(m)
             r == Restoring(m)
  <1>1. n \in Nat /\ DOMAIN m = 1 .. n /\ \A i \in 1 .. n : m[i] \in Seq(Symbols)
    BY LenProperties
  <1>2. r = [i \in 1 .. n |-> Restored(m[i])]
    BY <1>1, Zenon DEF Restoring
  <1>3. \A i \in 1 .. n : Restored(m[i]) \in Seq(Symbols)
    BY <1>1, RestoredParts, Zenon
  <1> HIDE DEF r, n
  <1>4. r \in [1 .. n -> Seq(Symbols)] /\ \A i \in 1 .. n : r[i] = Restored(m[i])
    BY <1>2, <1>3, Zenon
  <1>5. r \in Seq(Seq(Symbols)) /\ Len(r) = n
    BY <1>1, <1>4, FunctionToList, Zenon
  <1> QED
    BY <1>1, <1>4, <1>5, Zenon DEF r, n

LEMMA RestoringOfAppend ==
  ASSUME NEW m \in Seq(Seq(Symbols)), NEW p \in Seq(Symbols)
  PROVE  Restoring(Append(m, p)) = Append(Restoring(m), Restored(p))
  <1> DEFINE e == Append(m, p)
             l == Restoring(m)
             r == Restored(p)
             f == Append(l, r)
             g == Restoring(e)
             n == Len(m) + 1
  <1>1. e \in Seq(Seq(Symbols)) /\ Len(e) = n /\ Len(m) \in Nat
    BY AppendParts
  <1>2. (\A i \in 1 .. Len(m) : e[i] = m[i]) /\ e[n] = p
    BY AppendParts
  <1> HIDE DEF e
  <1>3. g \in Seq(Seq(Symbols)) /\ Len(g) = n /\ \A i \in 1 .. n : g[i] = Restored(e[i])
    BY <1>1, RestoringParts
  <1>4. l \in Seq(Seq(Symbols)) /\ Len(l) = Len(m) /\ \A i \in 1 .. Len(m) : l[i] = Restored(m[i])
    BY RestoringParts
  <1>5. r \in Seq(Symbols)
    BY RestoredParts
  <1> HIDE DEF g, l, r
  <1>6. f \in Seq(Seq(Symbols)) /\ Len(f) = n /\ (\A i \in 1 .. Len(m) : f[i] = l[i]) /\ f[n] = r
    BY <1>4, <1>5, AppendParts
  <1> HIDE DEF f
  <1>7. \A i \in 1 .. n : g[i] = f[i]
    <2> TAKE i \in 1 .. n
    <2>1. CASE i = n
      BY <1>2, <1>3, <1>6, <2>1, Zenon DEF r
    <2>2. CASE i # n
      <3>1. i \in 1 .. Len(m)
        BY <1>1, <2>2
      <3> QED
        BY <1>2, <1>3, <1>4, <1>6, <3>1, Zenon
    <2> QED
      BY <2>1, <2>2, Zenon
  <1>8. g = f
    BY <1>3, <1>6, <1>7, SeqEqual, Zenon
  <1> QED
    BY <1>8, Zenon DEF g, f, e, l, r

\* An empty list of pieces, and an empty piece.
LEMMA RestoringEmpty == Restoring(<<>>) = <<>> /\ Restored(<<>>) = <<>>
  <1> DEFINE r == Restoring(<<>>)
             s == Restored(<<>>)
  <1>1. <<>> \in Seq(Seq(Symbols)) /\ <<>> \in Seq(Symbols) /\ Len(<<>>) = 0
    BY EmptySeq
  <1>2. r \in Seq(Seq(Symbols)) /\ Len(r) = 0
    BY <1>1, RestoringParts, Zenon
  <1>3. s \in Seq(Symbols) /\ Len(s) = 0
    BY <1>1, RestoredParts, Zenon
  <1> HIDE DEF r, s
  <1>4. r = <<>>
    BY <1>2, EmptySeq
  <1>5. s = <<>>
    BY <1>3, EmptySeq
  <1> QED
    BY <1>4, <1>5, Zenon DEF r, s

LEMMA RestoringLonger ==
  ASSUME NEW cut \in Seq(Seq(Symbols)), NEW p \in Seq(Symbols), NEW k \in Seq(Symbols)
  PROVE  Restoring(Longer(Append(cut, p), k)) = Longer(Restoring(Append(cut, p)), Restored(k))
  <1> DEFINE m == Append(cut, p)
             q == p \o k
             l == Restoring(cut)
             r == Restored(p)
             s == Restored(k)
             f == Append(l, r)
  <1>1. Longer(m, k) = Append(cut, q)
    BY LastGrows
  <1>2. q \in Seq(Symbols)
    BY ConcatProperties
  <1>3. Restored(q) = r \o s
    BY RestoredConcat
  <1>4. Restoring(m) = f
    BY RestoringOfAppend, Zenon
  <1> HIDE DEF q, m
  <1>5. Restoring(Append(cut, q)) = Append(l, Restored(q))
    BY <1>2, RestoringOfAppend, Zenon
  <1>6. r \in Seq(Symbols) /\ s \in Seq(Symbols)
    BY RestoredParts, Zenon
  <1>7. l \in Seq(Seq(Symbols))
    BY RestoringParts, Zenon
  <1> HIDE DEF l, r, s, f
  <1>8. Longer(f, s) = Append(l, r \o s)
    BY <1>6, <1>7, LastGrows DEF f
  <1> QED
    BY <1>1, <1>3, <1>4, <1>5, <1>8, Zenon DEF m, s

\* What is cut is a list of pieces, the last of them open.
HasOpen(m) == \E cut \in Seq(Seq(Symbols)) : \E p \in Seq(Symbols) : m = Append(cut, p)

LEMMA CuttingParts ==
  ASSUME NEW scanner, NEW x \in Seq(Symbols), NEW d, NEW m, Cutting(scanner, x, d, m)
  PROVE  m \in Seq(Seq(Symbols)) /\ HasOpen(m)
  <1>1. PICK start : \E cut \in Seq(Seq(Symbols)) :
          Settled(scanner, x, d, start, cut) /\ m = Append(cut, Open(x, start))
    BY Zenon DEF Cutting
  <1>2. PICK cut \in Seq(Seq(Symbols)) :
          Settled(scanner, x, d, start, cut) /\ m = Append(cut, Open(x, start))
    BY <1>1, Zenon
  <1>3. start \in 1 .. Len(x) + 1
    BY <1>2, Zenon DEF Settled
  <1> DEFINE p == Open(x, start)
  <1>4. p \in Seq(Symbols)
    BY <1>3, OpenOfLonger
  <1> HIDE DEF p
  <1>5. m = Append(cut, p)
    BY <1>2, Zenon DEF p
  <1>6. m \in Seq(Seq(Symbols))
    BY <1>4, <1>5, AppendProperties
  <1> QED
    BY <1>4, <1>5, <1>6, Zenon DEF HasOpen

\* After x, whatever follows, m is made of the script: cut, and with what is hidden shown.
Script(x, m) ==
  \E z \in Seq(Symbols) : \E cut \in Seq(Seq(Symbols)) :
    Ready(x, z) /\ Cutting(GenericScript, z, 0, cut) /\ m = Restoring(cut)

LEMMA GenericScriptIsOne == GenericScript \in Scanners /\ GenericScript # <<"postgres", "script">>
                            /\ GenericScript[2] = "script"
  BY DEF GenericScript, Scanners, Families, Tasks

LEMMA ScriptAtFirst == Script(<<>>, << <<>> >>)
  <1> DEFINE e == <<>>
             m == << <<>> >>
  <1>1. e \in Seq(Symbols) /\ e \in Seq(Seq(Symbols))
    BY EmptySeq
  <1>2. m = Append(e, e)
    OBVIOUS
  <1>3. m \in Seq(Seq(Symbols))
    BY <1>1
  <1>4. Restoring(m) = m
    <2>1. Restoring(e) = e /\ Restored(e) = e
      BY RestoringEmpty, Zenon
    <2> HIDE DEF e, m
    <2>2. Restoring(Append(e, e)) = Append(Restoring(e), Restored(e))
      BY <1>1, RestoringOfAppend, Zenon
    <2> QED
      BY <1>2, <2>1, <2>2, Zenon
  <1>5. Cutting(GenericScript, e, 0, m)
    BY CuttingAtFirst, GenericScriptIsOne, Zenon
  <1>6. Ready(e, e)
    BY ReadyAtFirst, Zenon
  <1> QED
    BY <1>1, <1>3, <1>4, <1>5, <1>6, Zenon DEF Script

LEMMA ScriptAtLast ==
  ASSUME NEW x \in Seq(Symbols), NEW m, Script(x, m)
  PROVE  SplitScript(x) = m
  <1>1. PICK z \in Seq(Symbols) : \E cut \in Seq(Seq(Symbols)) :
          Ready(x, z) /\ Cutting(GenericScript, z, 0, cut) /\ m = Restoring(cut)
    BY Zenon DEF Script
  <1>2. PICK cut \in Seq(Seq(Symbols)) :
          Ready(x, z) /\ Cutting(GenericScript, z, 0, cut) /\ m = Restoring(cut)
    BY <1>1, Zenon
  <1>3. Undelimited(Batches(x)) = z
    BY <1>2, ReadyAtLast, Zenon
  <1>4. Parts(GenericScript, z) = cut
    BY <1>2, CuttingAtLast, Zenon
  <1> DEFINE c == Parts(<<"generic", "script">>, Undelimited(Batches(x)))
  <1>5. c = cut
    BY <1>3, <1>4, Zenon DEF GenericScript
  <1>6. SplitScript(x) = [k \in DOMAIN c |-> Restored(c[k])]
    BY Zenon DEF SplitScript
  <1> HIDE DEF c
  <1> QED
    BY <1>2, <1>5, <1>6, Zenon DEF Restoring

\* A construct that the scanner goes through is more of the open piece.
LEMMA ScriptGoes ==
  ASSUME NEW x \in Seq(Symbols), NEW m, Script(x, m), NEW k \in Seq(Symbols), NEW y \in Seq(Symbols),
         Makes(k, y, FALSE, FALSE), Goes(GenericScript, y, "none", "none")
  PROVE  Script(x \o k, Longer(m, Restored(y)))
  <1>1. PICK z \in Seq(Symbols) : \E cut \in Seq(Seq(Symbols)) :
          Ready(x, z) /\ Cutting(GenericScript, z, 0, cut) /\ m = Restoring(cut)
    BY Zenon DEF Script
  <1>2. PICK cut \in Seq(Seq(Symbols)) :
          Ready(x, z) /\ Cutting(GenericScript, z, 0, cut) /\ m = Restoring(cut)
    BY <1>1, Zenon
  <1>3. Ready(x \o k, z \o y)
    BY <1>2, ReadyMakes, Zenon
  <1>4. z \o y \in Seq(Symbols)
    BY ConcatProperties
  <1>5. Cutting(GenericScript, z \o y, 0, Longer(cut, y))
    BY <1>2, CuttingGoes, GenericScriptIsOne, Zenon
  <1>6. Longer(cut, y) \in Seq(Seq(Symbols))
    BY <1>4, <1>5, CuttingParts, Zenon
  <1>7. PICK f \in Seq(Seq(Symbols)) : \E p \in Seq(Symbols) : cut = Append(f, p)
    <2>1. HasOpen(cut)
      BY <1>2, CuttingParts, Zenon
    <2> QED
      BY <2>1, Zenon DEF HasOpen
  <1>8. PICK p \in Seq(Symbols) : cut = Append(f, p)
    BY <1>7, Zenon
  <1>9. Restoring(Longer(cut, y)) = Longer(m, Restored(y))
    BY <1>2, <1>8, RestoringLonger, Zenon
  <1> QED
    BY <1>3, <1>4, <1>5, <1>6, <1>9, Zenon DEF Script

\* The end of a statement begins the next piece.
LEMMA ScriptSeparator ==
  ASSUME NEW x \in Seq(Symbols), NEW m, Script(x, m)
  PROVE  Script(x \o <<"semi">>, Append(m, <<>>))
  <1>1. PICK z \in Seq(Symbols) : \E cut \in Seq(Seq(Symbols)) :
          Ready(x, z) /\ Cutting(GenericScript, z, 0, cut) /\ m = Restoring(cut)
    BY Zenon DEF Script
  <1>2. PICK cut \in Seq(Seq(Symbols)) :
          Ready(x, z) /\ Cutting(GenericScript, z, 0, cut) /\ m = Restoring(cut)
    BY <1>1, Zenon
  <1> DEFINE k == <<"semi">>
             e == <<>>
  <1>3. k \in Seq(Symbols) /\ "semi" \in Symbols
    BY DEF Symbols
  <1>4. Makes(k, k, FALSE, FALSE)
    <2>1. Hide(FALSE, "semi") = "semi" /\ "semi" \notin {"GO", "DELIMITER//", "DELIMITERsemi"}
      BY DEF Hide
    <2>2. Makes(<<"semi">>, <<Hide(FALSE, "semi")>>, FALSE, FALSE)
      BY <1>3, <2>1, MakesSymbol, Zenon
    <2> QED
      BY <2>1, <2>2, Zenon
  <1>5. Cutting(GenericScript, z \o k, 0, Append(cut, e))
    BY <1>2, CuttingSeparator, GenericScriptIsOne, Zenon
  <1>6. e \in Seq(Symbols) /\ Restored(e) = e
    BY EmptySeq, RestoringEmpty
  <1> HIDE DEF k, e
  <1>7. Ready(x \o k, z \o k)
    BY <1>2, <1>3, <1>4, ReadyMakes, Zenon
  <1>8. z \o k \in Seq(Symbols)
    BY <1>3, ConcatProperties
  <1>9. Append(cut, e) \in Seq(Seq(Symbols))
    BY <1>6, AppendProperties
  <1>10. Restoring(Append(cut, e)) = Append(m, e)
    BY <1>2, <1>6, RestoringOfAppend, Zenon
  <1>11. Script(x \o k, Append(m, e))
    BY <1>5, <1>7, <1>8, <1>9, <1>10, Zenon DEF Script
  <1> QED
    BY <1>11, Zenon DEF k, e

\* After an end of a statement the next piece begins with the end of the line.
LEMMA CuttingEnds ==
  ASSUME NEW z \in Seq(Symbols), NEW m, Cutting(GenericScript, z, 0, m), NEW y \in Seq(Symbols),
         Goes(GenericScript, y, "none", "none")
  PROVE  Cutting(GenericScript, z \o (y \o <<"semi", "nl">>), 0, Append(Longer(m, y), <<"nl">>))
  <1> DEFINE a == <<"semi">>
             b == <<"nl">>
             e == <<>>
             l == Longer(m, y)
             v == z \o y
             w == v \o a
             n == Append(l, e)
  <1>1. e \in Seq(Symbols) /\ e \o b = b
    BY EmptySeq, ConcatEmptySeq
  <1>a. a \in Seq(Symbols)
    BY DEF Symbols
  <1>b. b \in Seq(Symbols)
    BY DEF Symbols
  <1>2. Cutting(GenericScript, v, 0, l)
    BY CuttingGoes, GenericScriptIsOne, Zenon
  <1>v. v \in Seq(Symbols)
    BY ConcatProperties
  <1>3. <<"semi", "nl">> = a \o b
    OBVIOUS
  <1> HIDE DEF v
  <1>4. Cutting(GenericScript, w, 0, n)
    BY <1>2, <1>v, CuttingSeparator, GenericScriptIsOne, Zenon
  <1>5. Goes(GenericScript, b, "none", "none")
    <2>1. "nl" \in Symbols \ ActsUpon(GenericScript)
      BY DEF Symbols, ActsUpon, GenericScript
    <2> QED
      BY <2>1, GoesInert, GenericScriptIsOne
  <1> HIDE DEF l, a, b, e
  <1>w. w \in Seq(Symbols)
    BY <1>v, <1>a, ConcatProperties
  <1>6. l \in Seq(Seq(Symbols))
    BY <1>2, <1>v, CuttingParts, Zenon
  <1> HIDE DEF w, n
  <1>7. Cutting(GenericScript, w \o b, 0, Longer(n, b))
    BY <1>4, <1>5, <1>w, <1>b, CuttingGoes, GenericScriptIsOne, Zenon
  <1>8. Longer(n, b) = Append(l, e \o b)
    BY <1>1, <1>6, <1>b, LastGrows DEF n
  <1>9. w \o b = z \o (y \o (a \o b))
    <2>1. Texts(v, a, b)
      BY <1>v, <1>a, <1>b, Zenon DEF Texts
    <2>2. w \o b = v \o (a \o b)
      BY <2>1, Regrouped DEF w
    <2> DEFINE g == a \o b
    <2>3. g \in Seq(Symbols)
      BY <1>a, <1>b, ConcatProperties
    <2> HIDE DEF g
    <2>4. Texts(z, y, g)
      BY <2>3, Zenon DEF Texts
    <2>5. v \o g = z \o (y \o g)
      BY <2>4, Regrouped DEF v
    <2> QED
      BY <2>2, <2>5, Zenon DEF g
  <1> QED
    BY <1>1, <1>3, <1>7, <1>8, <1>9, Zenon DEF l, a, b, e

LEMMA ScriptEnds ==
  ASSUME NEW x \in Seq(Symbols), NEW m, Script(x, m), NEW k \in Seq(Symbols), NEW y \in Seq(Symbols),
         Makes(k, y \o <<"semi", "nl">>, FALSE, FALSE), Goes(GenericScript, y, "none", "none")
  PROVE  Script(x \o k, Append(Longer(m, Restored(y)), <<"nl">>))
  <1>1. PICK z \in Seq(Symbols) : \E cut \in Seq(Seq(Symbols)) :
          Ready(x, z) /\ Cutting(GenericScript, z, 0, cut) /\ m = Restoring(cut)
    BY Zenon DEF Script
  <1>2. PICK cut \in Seq(Seq(Symbols)) :
          Ready(x, z) /\ Cutting(GenericScript, z, 0, cut) /\ m = Restoring(cut)
    BY <1>1, Zenon
  <1> DEFINE g == y \o <<"semi", "nl">>
             nl == <<"nl">>
             c == Append(Longer(cut, y), nl)
  <1>3. Ready(x \o k, z \o g)
    BY <1>2, ReadyMakes, Zenon
  <1>4. Cutting(GenericScript, z \o g, 0, c)
    BY <1>2, CuttingEnds, Zenon
  <1>5. Cutting(GenericScript, z \o y, 0, Longer(cut, y))
    BY <1>2, CuttingGoes, GenericScriptIsOne, Zenon
  <1>6. z \o y \in Seq(Symbols)
    BY ConcatProperties
  <1>7. Longer(cut, y) \in Seq(Seq(Symbols))
    BY <1>5, <1>6, CuttingParts, Zenon
  <1>8. nl \in Seq(Symbols) /\ Restored(nl) = nl
    <2>1. nl \in Seq(Symbols)
      BY DEF Symbols
    <2>2. "NUL" \notin Range(nl)
      BY DEF Range
    <2> QED
      BY <2>1, <2>2, RestoredSame, Zenon
  <1>9. g \in Seq(Symbols)
    <2> DEFINE e == <<"semi", "nl">>
    <2>1. e \in Seq(Symbols)
      BY DEF Symbols
    <2> HIDE DEF e
    <2>2. y \o e \in Seq(Symbols)
      BY <2>1, ConcatProperties
    <2> QED
      BY <2>2, Zenon DEF e
  <1> HIDE DEF g, nl
  <1>10. z \o g \in Seq(Symbols)
    BY <1>9, ConcatProperties
  <1>11. c \in Seq(Seq(Symbols))
    BY <1>7, <1>8, AppendProperties
  <1>12. Restoring(c) = Append(Restoring(Longer(cut, y)), nl)
    BY <1>7, <1>8, RestoringOfAppend, Zenon
  <1>13. PICK f \in Seq(Seq(Symbols)) : \E p \in Seq(Symbols) : cut = Append(f, p)
    <2>1. HasOpen(cut)
      BY <1>2, CuttingParts, Zenon
    <2> QED
      BY <2>1, Zenon DEF HasOpen
  <1>14. PICK p \in Seq(Symbols) : cut = Append(f, p)
    BY <1>13, Zenon
  <1>15. Restoring(Longer(cut, y)) = Longer(m, Restored(y))
    BY <1>2, <1>14, RestoringLonger, Zenon
  <1>16. Restoring(c) = Append(Longer(m, Restored(y)), nl)
    BY <1>12, <1>15, Zenon
  <1> HIDE DEF c
  <1>17. Script(x \o k, Append(Longer(m, Restored(y)), nl))
    BY <1>3, <1>4, <1>10, <1>11, <1>16, Zenon DEF Script
  <1> QED
    BY <1>17, Zenon DEF nl

LEMMA ScriptPasses ==
  ASSUME reader = GenericScript, NEW x \in Seq(Symbols), NEW m, Script(x, m), NEW k, Passes(k)
  PROVE  Script(x \o k, Longer(m, k))
  <1>1. k \in Seq(Symbols) /\ Goes(GenericScript, k, "none", "none") /\ Range(k) \cap Early = {}
    BY Zenon DEF Passes
  <1>2. Early = {"GO", "NUL"} \cup Delimiters
    BY Zenon DEF Early, GenericScript
  <1>3. "NUL" \notin Range(k)
    BY <1>1, <1>2
  <1>4. Range(k) \subseteq Ordinary(FALSE)
    <2>1. Range(k) \in SUBSET Symbols
      BY <1>1, RangeOfSeq
    <2>2. Delimiters = {"DELIMITER//", "DELIMITERsemi"}
      BY Zenon DEF Delimiters
    <2> DEFINE R == Range(k)
    <2>3. R \in SUBSET Symbols /\ R \cap ({"GO", "NUL"} \cup {"DELIMITER//", "DELIMITERsemi"}) = {}
      BY <1>1, <1>2, <2>1, <2>2, Zenon
    <2> HIDE DEF R
    <2>4. R \subseteq Ordinary(FALSE)
      BY <2>3 DEF Ordinary
    <2> QED
      BY <2>4, Zenon DEF R
  <1>5. Makes(k, Hidden(FALSE, k), FALSE, FALSE)
    BY <1>1, <1>4, MakesHidden, Zenon
  <1>6. Hidden(FALSE, k) = k /\ Restored(k) = k
    BY <1>1, <1>3, RestoredSame, Zenon
  <1>7. Makes(k, k, FALSE, FALSE)
    BY <1>5, <1>6, Zenon
  <1>8. Script(x \o k, Longer(m, Restored(k)))
    BY <1>1, <1>7, ScriptGoes, Zenon
  <1> QED
    BY <1>6, <1>8, Zenon

LEMMA NewLineGoes ==
  /\ <<"nl">> \in Seq(Symbols) /\ Restored(<<"nl">>) = <<"nl">>
  /\ Goes(GenericScript, <<"nl">>, "none", "none")
  <1>1. "nl" \in Symbols \ ActsUpon(GenericScript)
    BY DEF Symbols, ActsUpon, GenericScript
  <1>2. Goes(GenericScript, <<"nl">>, "none", "none")
    BY <1>1, GoesInert, GenericScriptIsOne
  <1>3. <<"nl">> \in Seq(Symbols)
    BY <1>1
  <1>4. "NUL" \notin Range(<<"nl">>)
    BY DEF Range
  <1>5. Restored(<<"nl">>) = <<"nl">>
    BY <1>3, <1>4, RestoredSame, Zenon
  <1> QED
    BY <1>2, <1>3, <1>5, Zenon

\* GO on a line of its own ends a statement.
LEMMA ScriptBatch ==
  ASSUME NEW x \in Seq(Symbols), NEW m, Script(x, m)
  PROVE  Script(x \o <<"nl", "GO", "nl">>, Append(Longer(m, <<"nl">>), <<"nl">>))
  <1> DEFINE k == <<"nl", "GO", "nl">>
             y == <<"nl">>
             e == <<"semi", "nl">>
  <1>1. <<"nl", "semi", "nl">> = y \o e
    OBVIOUS
  <1>2. Makes(k, y \o e, FALSE, FALSE)
    <2>1. Makes(k, <<"nl", "semi", "nl">>, FALSE, FALSE)
      BY MakesBatch, Zenon
    <2> QED
      BY <1>1, <2>1, Zenon
  <1>3. k \in Seq(Symbols)
    BY DEF Symbols
  <1>4. y \in Seq(Symbols) /\ Restored(y) = y /\ Goes(GenericScript, y, "none", "none")
    BY NewLineGoes, Zenon
  <1> HIDE DEF k, y
  <1>5. Script(x \o k, Append(Longer(m, Restored(y)), <<"nl">>))
    BY <1>2, <1>3, <1>4, ScriptEnds, Zenon
  <1> QED
    BY <1>4, <1>5, Zenon DEF k, y

\* A routine is one statement, with its semicolons.
LEMMA ScriptRoutine ==
  ASSUME reader = GenericScript, NEW x \in Seq(Symbols), NEW m, Script(x, m), NEW c \in Seq(Symbols),
         Range(c) \cap (Special \cup {"//"}) \subseteq {"semi"}
  PROVE  Script(x \o (<<"nl", "DELIMITER//", "nl">> \o c \o <<"//", "nl", "DELIMITERsemi", "nl">>),
                Append(Longer(m, <<"nl">> \o c), <<"nl">>))
  <1> DEFINE j == <<"nl", "DELIMITER//", "nl">>
             k == <<"//", "nl", "DELIMITERsemi", "nl">>
             nl == <<"nl">>
             h == Hidden(TRUE, c)
             y == nl \o h
             R == Range(c)
  <1>1. Special = ActsUpon(GenericScript) \cup Early /\ Early = {"GO", "NUL"} \cup Delimiters
    <2>1. Early = {"GO", "NUL"} \cup Delimiters
      BY Zenon DEF Early, GenericScript
    <2>2. Special = ActsUpon(reader) \cup Early
      BY ReaderParts, GenericScriptIsOne, Zenon
    <2> QED
      BY <2>1, <2>2, Zenon
  <1>2. Special = {"sq", "dq", "bq", "semi", "GO", "NUL", "DELIMITER//", "DELIMITERsemi"}
    <2>1. ActsUpon(GenericScript) = {"sq", "dq", "bq", "semi"}
      BY DEF ActsUpon, GenericScript
    <2>2. Delimiters = {"DELIMITER//", "DELIMITERsemi"}
      BY Zenon DEF Delimiters
    <2> DEFINE A == ActsUpon(GenericScript)
               D == Delimiters
    <2>3. Special = A \cup ({"GO", "NUL"} \cup D) /\ A = {"sq", "dq", "bq", "semi"}
          /\ D = {"DELIMITER//", "DELIMITERsemi"}
      BY <1>1, <2>1, <2>2, Zenon
    <2> DEFINE S == Special
    <2>4. S = A \cup ({"GO", "NUL"} \cup D)
      BY <2>3, Zenon
    <2> HIDE DEF A, D, S
    <2>5. S = {"sq", "dq", "bq", "semi", "GO", "NUL", "DELIMITER//", "DELIMITERsemi"}
      BY <2>3, <2>4
    <2> QED
      BY <2>5, Zenon DEF S
  <1>3. R \in SUBSET Symbols
    BY RangeOfSeq
  <1>4. R \cap ({"sq", "dq", "bq", "semi", "GO", "NUL", "DELIMITER//", "DELIMITERsemi"} \cup {"//"}) \subseteq {"semi"}
    BY <1>2, Zenon
  <1> HIDE DEF R
  <1>5. /\ R \subseteq Ordinary(TRUE) /\ "NUL" \notin R
        /\ \A a \in R : Hide(TRUE, a) \notin {"sq", "dq", "bq", "semi"}
    <2>1. R \subseteq Ordinary(TRUE)
      BY <1>3, <1>4 DEF Ordinary
    <2>2. "NUL" \notin R
      BY <1>4
    <2>3. \A a \in R : Hide(TRUE, a) \notin {"sq", "dq", "bq", "semi"}
      BY <1>4 DEF Hide
    <2> QED
      BY <2>1, <2>2, <2>3, Zenon
  <1>6. Makes((j \o c) \o k, y \o <<"semi", "nl">>, FALSE, FALSE)
    <2>1. Range(c) \subseteq Ordinary(TRUE)
      BY <1>5, Zenon DEF R
    <2> QED
      BY <2>1, MakesRoutine, Zenon
  <1>7. "w" \in Symbols
    BY DEF Symbols
  <1>8. h \in Seq(Symbols) /\ Len(h) = Len(c) /\ \A i \in 1 .. Len(c) : h[i] = Hide(TRUE, c[i])
    BY <1>7, HiddenOfAppend, Zenon
  <1>9. Restored(h) = c
    <2>1. "NUL" \notin Range(c)
      BY <1>5, Zenon DEF R
    <2> QED
      BY <2>1, RestoredSame, Zenon
  <1> HIDE DEF h
  <1>10. Goes(GenericScript, h, "none", "none")
    <2>1. DOMAIN h = 1 .. Len(c) /\ DOMAIN c = 1 .. Len(c)
      BY <1>8, LenProperties
    <2>2. \A i \in DOMAIN h : h[i] \notin {"sq", "dq", "bq", "semi"}
      <3>1. \A i \in 1 .. Len(c) : c[i] \in R
        BY <2>1, Zenon DEF R, Range
      <3> QED
        BY <1>5, <1>8, <2>1, <3>1, Zenon
    <2>3. \A a \in Range(h) : a \notin {"sq", "dq", "bq", "semi"}
      BY <2>2, Zenon DEF Range
    <2>4. ActsUpon(GenericScript) = {"sq", "dq", "bq", "semi"}
      BY DEF ActsUpon, GenericScript
    <2>5. Range(h) \cap ActsUpon(GenericScript) = {}
      BY <2>3, <2>4
    <2> QED
      BY <1>8, <2>5, GoesInertList, GenericScriptIsOne, Zenon
  <1>11. nl \in Seq(Symbols) /\ Restored(nl) = nl /\ Goes(GenericScript, nl, "none", "none")
    BY NewLineGoes, Zenon
  <1>n. nl \in Seq(Symbols)
    BY <1>11, Zenon
  <1>h. h \in Seq(Symbols)
    BY <1>8, Zenon
  <1>12. (j \o c) \o k \in Seq(Symbols)
    <2>j. j \in Seq(Symbols)
      BY DEF Symbols
    <2>k. k \in Seq(Symbols)
      BY DEF Symbols
    <2> HIDE DEF j, k
    <2>1. j \o c \in Seq(Symbols)
      BY <2>j, ConcatProperties
    <2> QED
      BY <2>1, <2>k, ConcatProperties
  <1> HIDE DEF nl
  <1>13. y \in Seq(Symbols)
    BY <1>n, <1>h, ConcatProperties
  <1>14. Goes(GenericScript, y, "none", "none")
    BY <1>10, <1>11, <1>h, GoesConcat, Zenon
  <1>15. Restored(y) = nl \o c
    <2>1. Restored(y) = Restored(nl) \o Restored(h)
      BY <1>n, <1>h, RestoredConcat, Zenon
    <2> QED
      BY <1>9, <1>11, <2>1, Zenon
  <1> HIDE DEF j, k, y
  <1>16. Script(x \o ((j \o c) \o k), Append(Longer(m, Restored(y)), <<"nl">>))
    BY <1>6, <1>12, <1>13, <1>14, ScriptEnds, Zenon
  <1> QED
    BY <1>15, <1>16, Zenon DEF j, k, nl

\* After x, within d parentheses, the scanner in use makes m of it, whatever follows.
Makings(x, d, m) ==
  IF reader = GenericScript THEN Script(x, m)
  ELSE IF reader = <<"postgres", "values">> THEN Rows(x, d, m)
  ELSE IF reader = GenericValues THEN Wrapped(x, d, m)
  ELSE Cutting(reader, x, d, m)

\* A text whose constructs are followed is at every moment cut as it is meant.
Understood ==
  /\ Task = "script" => depth = 0
  /\ ended => depth = 0
  /\ odd = {} => Makings(text, depth, meant)

\* The scanners that cut without more.
Cutter == <<"postgres", "script">>

LEMMA OneOfFour ==
  ASSUME reader \in Scanners
  PROVE  \/ reader = GenericScript
         \/ reader = <<"postgres", "values">> /\ reader # GenericScript
         \/ reader = GenericValues /\ reader # GenericScript /\ reader # <<"postgres", "values">>
         \/ /\ reader # GenericScript /\ reader # <<"postgres", "values">> /\ reader # GenericValues
            /\ reader = Cutter \/ reader[2] = "list"
  BY DEF Scanners, Families, Tasks, GenericScript, GenericValues, Cutter

LEMMA MakingsGoes ==
  ASSUME reader \in Scanners, NEW x \in Seq(Symbols), NEW d, NEW m, Makings(x, d, m), NEW k, Passes(k),
         Task = "values" => d # 0
  PROVE  Makings(x \o k, d, Longer(m, k))
  <1>1. /\ k \in Seq(Symbols) /\ Goes(reader, k, "none", "none")
        /\ k # <<>> /\ k[1] \notin {"COPY", "nl"}
    BY Zenon DEF Passes
  <1>2. CASE reader = GenericScript
    BY <1>2, ScriptPasses, Zenon DEF Makings
  <1>3. CASE reader = <<"postgres", "values">> /\ reader # GenericScript
    <2>1. Task = "values"
      BY <1>3 DEF Task
    <2>2. Rows(x, d, m)
      BY <1>3, Zenon DEF Makings
    <2>3. Rows(x \o k, d, Longer(m, k))
      BY <1>1, <1>3, <2>1, <2>2, RowsGoes, Zenon
    <2> QED
      BY <1>3, <2>3, Zenon DEF Makings
  <1>4. CASE reader = GenericValues /\ reader # GenericScript /\ reader # <<"postgres", "values">>
    <2>1. Task = "values"
      BY <1>4 DEF Task, GenericValues
    <2>2. Wrapped(x, d, m)
      BY <1>4, Zenon DEF Makings
    <2>3. Wrapped(x \o k, d, Longer(m, k))
      BY <1>1, <1>4, <2>1, <2>2, WrappedGoes, Zenon
    <2> QED
      BY <1>4, <2>3, Zenon DEF Makings
  <1>5. CASE reader # GenericScript /\ reader # <<"postgres", "values">> /\ reader # GenericValues
    <2>1. Cutting(reader, x, d, m)
      BY <1>5, Zenon DEF Makings
    <2>2. Cutting(reader, x \o k, d, Longer(m, k))
      BY <1>1, <2>1, CuttingGoes, Zenon
    <2> QED
      BY <1>5, <2>2, Zenon DEF Makings
  <1> QED
    BY <1>2, <1>3, <1>4, <1>5, Zenon

\* A step keeps it when the text grows as what is meant does.
LEMMA StaysUnderstood ==
  ASSUME NEW n, Writing(n), Understood, Task = "script" => depth' = 0,
         odd' = {} => Makings(text', depth', meant')
  PROVE  Understood'
  <1>1. reader' = reader /\ ~ended /\ ended' = ended
    BY Zenon DEF Writing
  <1>2. Task' = Task
    BY <1>1, Zenon DEF Task
  <1>3. ASSUME odd' = {} PROVE Makings(text, depth, meant)'
    <2>1. Makings(text', depth', meant')
      BY <1>3, Zenon
    <2> QED
      BY <1>1, <2>1, Zenon DEF Makings
  <1> QED
    BY <1>1, <1>2, <1>3, Zenon DEF Understood

\* What the types say of a text that is written.
LEMMA TypedParts ==
  ASSUME ScanTyped
  PROVE  /\ reader \in Scanners /\ text \in Seq(Symbols) /\ depth \in Nat /\ ended \in BOOLEAN
         /\ meant \in Seq(Seq(Range(text)))
  <1>1. reader \in Readers /\ text \in Seq(Symbols) /\ ended \in BOOLEAN
    BY Zenon DEF ScanTyped
  <1>2. reader \in Scanners
    BY <1>1, ScanConstantsOK, Zenon DEF Scanners
  <1>3. depth \in 0 .. count /\ count \in 0 .. MaxConstructs[Task]
    BY Zenon DEF ScanTyped
  <1>4. depth \in Nat
    BY <1>3
  <1>5. meant \in Seq(Seq(Range(text)))
    BY Zenon DEF ScanTyped
  <1> QED
    BY <1>1, <1>2, <1>4, <1>5, Zenon

\* Within a piece.
LEMMA AddingUnderstood ==
  ASSUME ScanTyped, Understood, NEW n, Writing(n), NEW k, Add(k), depth' = depth,
         odd' = {} => odd = {} /\ Passes(k)
  PROVE  Understood'
  <1>1. text' = text \o k /\ meant' = Longer(meant, k) /\ (Task = "values" => depth > 0)
    BY Zenon DEF Add, Longer, Inside
  <1>2. reader \in Scanners /\ text \in Seq(Symbols) /\ depth \in Nat
    BY TypedParts, Zenon
  <1>3. Task = "values" => depth # 0
    BY <1>1, <1>2
  <1>4. ASSUME odd' = {} PROVE Makings(text', depth', meant')
    <2>1. Makings(text, depth, meant) /\ Passes(k)
      BY <1>4, Zenon DEF Understood
    <2>2. Makings(text \o k, depth, Longer(meant, k))
      BY <1>2, <1>3, <2>1, MakingsGoes, Zenon
    <2> QED
      BY <1>1, <2>2, Zenon
  <1>5. Task = "script" => depth' = 0
    BY Zenon DEF Understood
  <1> QED
    BY <1>4, <1>5, StaysUnderstood, Zenon

\* What each scanner does with a parenthesis that opens: it is text of the open piece,
\* or begins a row.
LEMMA MakingsOpen ==
  ASSUME reader \in Scanners, Task # "script", NEW x \in Seq(Symbols), NEW d \in Nat, NEW m, Makings(x, d, m)
  PROVE  /\ (Task = "values" => d # 0) => Makings(x \o <<"(">>, d + 1, Longer(m, <<"(">>))
         /\ Task = "values" /\ d = 0 /\ (x # <<>> => Last(x) = "comma") =>
              Makings(x \o <<"(">>, d + 1, Append(m, <<>>))
  <1>1. CASE reader = GenericScript
    BY <1>1 DEF Task, GenericScript
  <1>2. CASE reader = <<"postgres", "values">> /\ reader # GenericScript
    <2>1. Task = "values"
      BY <1>2 DEF Task
    <2>2. Rows(x, d, m)
      BY <1>2, Zenon DEF Makings
    <2>3. Rows(x \o <<"(">>, d + 1, IF d = 0 THEN Append(m, <<>>) ELSE Longer(m, <<"(">>))
      BY <2>2, RowsParenthesis, Zenon
    <2>4. d = 0 => Rows(x \o <<"(">>, d + 1, Append(m, <<>>))
      BY <2>3, Zenon
    <2>5. d # 0 => Rows(x \o <<"(">>, d + 1, Longer(m, <<"(">>))
      BY <2>3, Zenon
    <2> QED
      BY <1>2, <2>1, <2>4, <2>5, Zenon DEF Makings
  <1>3. CASE reader = GenericValues /\ reader # GenericScript /\ reader # <<"postgres", "values">>
    <2>1. Task = "values"
      BY <1>3 DEF Task, GenericValues
    <2>2. Wrapped(x, d, m)
      BY <1>3, Zenon DEF Makings
    <2>3. "comma" # ")"
      OBVIOUS
    <2>4. /\ d # 0 => Wrapped(x \o <<"(">>, d + 1, Longer(m, <<"(">>))
          /\ d = 0 /\ (x # <<>> => Last(x) # ")") => Wrapped(x \o <<"(">>, d + 1, Append(m, <<>>))
      BY <2>2, WrappedParenthesis, Zenon
    <2>5. (x # <<>> => Last(x) = "comma") => (x # <<>> => Last(x) # ")")
      BY <2>3, Zenon
    <2> QED
      BY <1>3, <2>1, <2>4, <2>5, Zenon DEF Makings
  <1>4. CASE /\ reader # GenericScript /\ reader # <<"postgres", "values">> /\ reader # GenericValues
             /\ reader = Cutter \/ reader[2] = "list"
    <2>1. reader[2] = "list" /\ Task # "values"
      BY <1>4 DEF Task, Cutter
    <2>2. Cutting(reader, x, d, m)
      BY <1>4, Zenon DEF Makings
    <2>3. Cutting(reader, x \o <<"(">>, d + 1, Longer(m, <<"(">>))
      BY <2>1, <2>2, CuttingParenthesis, Zenon
    <2> QED
      BY <1>4, <2>1, <2>3, Zenon DEF Makings
  <1> QED
    BY <1>1, <1>2, <1>3, <1>4, OneOfFour, Zenon

\* One that closes: it ends a row when no other is open.
LEMMA MakingsClose ==
  ASSUME reader \in Scanners, Task # "script", NEW x \in Seq(Symbols), NEW d \in Nat, d # 0, NEW m,
         Makings(x, d, m)
  PROVE  /\ Task = "values" /\ d = 1 => Makings(x \o <<")">>, d - 1, m)
         /\ ~(Task = "values" /\ d = 1) => Makings(x \o <<")">>, d - 1, Longer(m, <<")">>))
  <1>1. CASE reader = GenericScript
    BY <1>1 DEF Task, GenericScript
  <1>2. CASE reader = <<"postgres", "values">> /\ reader # GenericScript
    <2>1. Task = "values"
      BY <1>2 DEF Task
    <2>2. Rows(x, d, m)
      BY <1>2, Zenon DEF Makings
    <2>3. Rows(x \o <<")">>, d - 1, IF d = 1 THEN m ELSE Longer(m, <<")">>))
      BY <2>2, RowsParenthesis, Zenon
    <2>4. d = 1 => Rows(x \o <<")">>, d - 1, m)
      BY <2>3, Zenon
    <2>5. d # 1 => Rows(x \o <<")">>, d - 1, Longer(m, <<")">>))
      BY <2>3, Zenon
    <2> QED
      BY <1>2, <2>1, <2>4, <2>5, Zenon DEF Makings
  <1>3. CASE reader = GenericValues /\ reader # GenericScript /\ reader # <<"postgres", "values">>
    <2>1. Task = "values"
      BY <1>3 DEF Task, GenericValues
    <2>2. Wrapped(x, d, m)
      BY <1>3, Zenon DEF Makings
    <2>3. Wrapped(x \o <<")">>, d - 1, IF d = 1 THEN m ELSE Longer(m, <<")">>))
      BY <2>2, WrappedParenthesis, Zenon
    <2>4. d = 1 => Wrapped(x \o <<")">>, d - 1, m)
      BY <2>3, Zenon
    <2>5. d # 1 => Wrapped(x \o <<")">>, d - 1, Longer(m, <<")">>))
      BY <2>3, Zenon
    <2> QED
      BY <1>3, <2>1, <2>4, <2>5, Zenon DEF Makings
  <1>4. CASE /\ reader # GenericScript /\ reader # <<"postgres", "values">> /\ reader # GenericValues
             /\ reader = Cutter \/ reader[2] = "list"
    <2>1. reader[2] = "list" /\ Task # "values"
      BY <1>4 DEF Task, Cutter
    <2>2. Cutting(reader, x, d, m)
      BY <1>4, Zenon DEF Makings
    <2>3. Cutting(reader, x \o <<")">>, d - 1, Longer(m, <<")">>))
      BY <2>1, <2>2, CuttingParenthesis, Zenon
    <2> QED
      BY <1>4, <2>1, <2>3, Zenon DEF Makings
  <1> QED
    BY <1>1, <1>2, <1>3, <1>4, OneOfFour, Zenon

\* A comma between rows and within parentheses.
LEMMA MakingsComma ==
  ASSUME reader \in Scanners, Task # "script", NEW x \in Seq(Symbols), NEW d \in Nat, NEW m,
         Makings(x, d, m)
  PROVE  /\ Task = "values" /\ d = 0 /\ x # <<>> /\ Last(x) = ")" => Makings(x \o <<"comma">>, d, m)
         /\ d # 0 => Makings(x \o <<"comma">>, d, Longer(m, <<"comma">>))
  <1>1. CASE reader = GenericScript
    BY <1>1 DEF Task, GenericScript
  <1>2. CASE reader = <<"postgres", "values">> /\ reader # GenericScript
    <2>2. Rows(x, d, m)
      BY <1>2, Zenon DEF Makings
    <2> DEFINE k == <<"comma">>
               scanner == <<"postgres", "values">>
    <2>3. "comma" \in Symbols \ ActsUpon(scanner) /\ scanner \in Scanners /\ k \in Seq(Symbols)
      BY DEF Symbols, ActsUpon, Scanners, Families, Tasks
    <2>4. Goes(scanner, k, "none", "none")
      BY <2>3, GoesInert
    <2>5. d # 0 => Rows(x \o k, d, Longer(m, k))
      BY <2>2, <2>3, <2>4, RowsGoes, Zenon
    <2>6. d = 0 => Rows(x \o k, d, m)
      BY <2>2, RowsComma, Zenon
    <2> QED
      BY <1>2, <2>5, <2>6, Zenon DEF Makings
  <1>3. CASE reader = GenericValues /\ reader # GenericScript /\ reader # <<"postgres", "values">>
    <2>2. Wrapped(x, d, m)
      BY <1>3, Zenon DEF Makings
    <2>3. /\ d # 0 => Wrapped(x \o <<"comma">>, d, Longer(m, <<"comma">>))
          /\ d = 0 /\ x # <<>> /\ Last(x) = ")" => Wrapped(x \o <<"comma">>, d, m)
      BY <2>2, WrappedParenthesis, Zenon
    <2> QED
      BY <1>3, <2>3, Zenon DEF Makings
  <1>4. CASE /\ reader # GenericScript /\ reader # <<"postgres", "values">> /\ reader # GenericValues
             /\ reader = Cutter \/ reader[2] = "list"
    <2>1. reader[2] = "list" /\ Task # "values"
      BY <1>4 DEF Task, Cutter
    <2>2. Cutting(reader, x, d, m)
      BY <1>4, Zenon DEF Makings
    <2>3. d # 0 => Cutting(reader, x \o <<"comma">>, d, Longer(m, <<"comma">>))
      BY <2>1, <2>2, CuttingParenthesis, Zenon
    <2> QED
      BY <1>4, <2>1, <2>3, Zenon DEF Makings
  <1> QED
    BY <1>1, <1>2, <1>3, <1>4, OneOfFour, Zenon

\* A separator begins the next piece.
LEMMA MakingsSeparator ==
  ASSUME reader \in Scanners, Task # "values", NEW x \in Seq(Symbols), NEW m, Makings(x, 0, m)
  PROVE  Makings(x \o <<Separator>>, 0, Append(m, <<>>))
  <1>1. CASE reader = GenericScript
    <2>1. Separator = "semi"
      BY <1>1 DEF Separator, Task, GenericScript
    <2>2. Script(x \o <<"semi">>, Append(m, <<>>))
      BY <1>1, ScriptSeparator, Zenon DEF Makings
    <2> QED
      BY <1>1, <2>1, <2>2, Zenon DEF Makings
  <1>2. CASE reader = <<"postgres", "values">> /\ reader # GenericScript
    BY <1>2 DEF Task
  <1>3. CASE reader = GenericValues /\ reader # GenericScript /\ reader # <<"postgres", "values">>
    BY <1>3 DEF Task, GenericValues
  <1>4. CASE /\ reader # GenericScript /\ reader # <<"postgres", "values">> /\ reader # GenericValues
             /\ reader = Cutter \/ reader[2] = "list"
    <2>1. \/ reader[2] = "script" /\ Separator = "semi"
          \/ reader[2] = "list" /\ Separator = "comma"
      BY <1>4 DEF Separator, Task, Cutter
    <2>2. Cutting(reader, x, 0, m)
      BY <1>4, Zenon DEF Makings
    <2>3. Cutting(reader, x \o <<Separator>>, 0, Append(m, <<>>))
      BY <2>1, <2>2, CuttingSeparator, Zenon
    <2> QED
      BY <1>4, <2>3, Zenon DEF Makings
  <1> QED
    BY <1>1, <1>2, <1>3, <1>4, OneOfFour, Zenon

\* One lemma for each of the author's constructs.
LEMMA WordUnderstood == ASSUME ScanTyped, Understood, WriteWord PROVE Understood'
  <1>1. Writing(0) /\ Add(<<"w">>) /\ depth' = depth /\ odd' = odd
    BY Zenon DEF WriteWord
  <1>2. Passes(<<"w">>)
    BY TypedParts, WordPasses, Zenon
  <1> QED
    BY <1>1, <1>2, AddingUnderstood, Zenon

LEMMA QuotedUnderstood ==
  ASSUME ScanTyped, Understood, NEW q \in {"sq", "dq", "bq"}, NEW c \in Contents, WriteQuoted(q, c)
  PROVE  Understood'
  <1> DEFINE k == <<q>> \o Doubled(c, q) \o <<q>>
             b == IF reader = <<"postgres", "values">> THEN Plain(c) ELSE Range(c) \cap Early = {}
  <1>1. Writing(1) /\ Add(k) /\ depth' = depth /\ Follows(b, "quoted")
    BY Zenon DEF WriteQuoted
  <1>2. odd' = {} => Passes(k)
    BY TypedParts, QuotedPasses, ContentType, Zenon
  <1> HIDE DEF b, k
  <1>3. odd' = {} => odd = {}
    BY <1>1, FollowsWhat
  <1> QED
    BY <1>1, <1>2, <1>3, AddingUnderstood, Zenon

LEMMA EscapedUnderstood == ASSUME ScanTyped, Understood, WriteEscaped PROVE Understood'
  <1> DEFINE k == <<"sq", "w", "\\", "sq", "sq">>
             b == reader = <<"postgres", "values">>
  <1>1. Writing(1) /\ Add(k) /\ depth' = depth /\ Follows(b, "escaped")
    BY Zenon DEF WriteEscaped
  <1>2. odd' = {} => Passes(k)
    BY TypedParts, EscapedPasses, Zenon
  <1> HIDE DEF b, k
  <1>3. odd' = {} => odd = {}
    BY <1>1, FollowsWhat
  <1> QED
    BY <1>1, <1>2, <1>3, AddingUnderstood, Zenon

LEMMA BracketedUnderstood ==
  ASSUME ScanTyped, Understood, NEW c \in Contents, WriteBracketed(c)
  PROVE  Understood'
  <1> DEFINE k == <<"[">> \o c \o <<"]">>
             b == Task = "script" /\ Plain(c)
  <1>1. Writing(1) /\ Add(k) /\ depth' = depth /\ Follows(b, "bracketed")
    BY Zenon DEF WriteBracketed
  <1>2. odd' = {} => Passes(k)
    BY TypedParts, BracketedPasses, ContentType, Zenon
  <1> HIDE DEF b, k
  <1>3. odd' = {} => odd = {}
    BY <1>1, FollowsWhat
  <1> QED
    BY <1>1, <1>2, <1>3, AddingUnderstood, Zenon

LEMMA CommentUnderstood ==
  ASSUME ScanTyped, Understood, NEW c \in Contents, WriteComment(c)
  PROVE  Understood'
  <1> DEFINE k == <<"--">> \o c \o <<"nl">>
             b == Plain(c)
  <1>1. Writing(1) /\ Add(k) /\ depth' = depth /\ Follows(b, "comment")
    BY Zenon DEF WriteComment
  <1>2. odd' = {} => Passes(k)
    BY TypedParts, CommentPasses, ContentType, Zenon
  <1> HIDE DEF b, k
  <1>3. odd' = {} => odd = {}
    BY <1>1, FollowsWhat
  <1> QED
    BY <1>1, <1>2, <1>3, AddingUnderstood, Zenon

LEMMA DollarQuotedUnderstood ==
  ASSUME ScanTyped, Understood, NEW tag \in Tags, NEW c \in Contents, WriteDollarQuoted(tag, c)
  PROVE  Understood'
  <1> DEFINE k == tag \o c \o tag
             b == Task = "script" \/ Plain(c)
  <1>1. Writing(1) /\ Add(k) /\ depth' = depth /\ Follows(b, "dollar-quoted")
    BY Zenon DEF WriteDollarQuoted
  <1>2. odd' = {} => Passes(k)
    BY TypedParts, DollarQuotedPasses, ContentType, Zenon
  <1> HIDE DEF b, k
  <1>3. odd' = {} => odd = {}
    BY <1>1, FollowsWhat
  <1> QED
    BY <1>1, <1>2, <1>3, AddingUnderstood, Zenon

LEMMA DollarNameUnderstood == ASSUME ScanTyped, Understood, WriteDollarName PROVE Understood'
  <1> DEFINE k == <<"w", "$", "w">>
             b == Task # "script"
  <1>1. Writing(1) /\ Add(k) /\ depth' = depth /\ Follows(b, "name")
    BY Zenon DEF WriteDollarName
  <1>2. odd' = {} => Passes(k)
    BY TypedParts, DollarNamePasses, Zenon
  <1> HIDE DEF b, k
  <1>3. odd' = {} => odd = {}
    BY <1>1, FollowsWhat
  <1> QED
    BY <1>1, <1>2, <1>3, AddingUnderstood, Zenon

\* A symbol more, when nothing new is odd.
LEMMA SymbolUnderstood ==
  ASSUME ScanTyped, Understood, Writing(0), odd' = odd, Task = "script" => depth' = 0,
         Makings(text, depth, meant) => Makings(text', depth', meant')
  PROVE  Understood'
  <1>1. odd' = {} => Makings(text', depth', meant')
    BY Zenon DEF Understood
  <1> QED
    BY <1>1, StaysUnderstood, Zenon

LEMMA AppendedSymbol ==
  ASSUME ScanTyped, NEW y \in Symbols
  PROVE  Append(text, y) = text \o <<y>>
  <1>1. text \in Seq(Symbols)
    BY TypedParts, Zenon
  <1> QED
    BY <1>1, AppendIsConcat

LEMMA OpenParenthesisUnderstood == ASSUME ScanTyped, Understood, OpenParenthesis PROVE Understood'
  <1>1. /\ Writing(0) /\ Task # "script" /\ depth' = depth + 1 /\ odd' = odd
        /\ IF Inside THEN Add(<<"(">>)
           ELSE text' = Append(text, "(") /\ meant' = Append(meant, <<>>) /\ (text # <<>> => Last(text) = "comma")
    BY Zenon DEF OpenParenthesis
  <1>2. reader \in Scanners /\ text \in Seq(Symbols) /\ depth \in Nat /\ "(" \in Symbols
    <2>1. "(" \in Symbols
      BY DEF Symbols
    <2> QED
      BY <2>1, TypedParts, Zenon
  <1>3. ASSUME Makings(text, depth, meant) PROVE Makings(text', depth', meant')
    <2>0. /\ (Task = "values" => depth # 0) => Makings(text \o <<"(">>, depth + 1, Longer(meant, <<"(">>))
          /\ Task = "values" /\ depth = 0 /\ (text # <<>> => Last(text) = "comma") =>
               Makings(text \o <<"(">>, depth + 1, Append(meant, <<>>))
      BY <1>1, <1>2, <1>3, MakingsOpen, Zenon
    <2>1. CASE Inside
      <3>1. text' = text \o <<"(">> /\ meant' = Longer(meant, <<"(">>)
        BY <1>1, <2>1, Zenon DEF Add, Longer
      <3>2. Task = "values" => depth # 0
        <4>1. Task = "values" => depth > 0
          BY <2>1, Zenon DEF Inside
        <4> QED
          BY <4>1, <1>2
      <3> QED
        BY <1>1, <2>0, <3>1, <3>2, Zenon
    <2>2. CASE ~Inside
      <3>1. text' = text \o <<"(">> /\ meant' = Append(meant, <<>>) /\ (text # <<>> => Last(text) = "comma")
        BY <1>1, <1>2, <2>2, AppendedSymbol, Zenon
      <3>2. Task = "values" /\ depth = 0
        <4>1. Task = "values" /\ ~(depth > 0)
          BY <2>2, Zenon DEF Inside
        <4> QED
          BY <4>1, <1>2
      <3> QED
        BY <1>1, <2>0, <3>1, <3>2, Zenon
    <2> QED
      BY <2>1, <2>2, Zenon
  <1> QED
    BY <1>1, <1>3, SymbolUnderstood, Zenon

LEMMA CloseParenthesisUnderstood == ASSUME ScanTyped, Understood, CloseParenthesis PROVE Understood'
  <1>1. /\ Writing(0) /\ depth > 0 /\ depth' = depth - 1 /\ odd' = odd
        /\ IF Task = "values" /\ depth = 1 THEN text' = Append(text, ")") /\ meant' = meant ELSE Add(<<")">>)
    BY Zenon DEF CloseParenthesis
  <1>2. reader \in Scanners /\ text \in Seq(Symbols) /\ depth \in Nat /\ ")" \in Symbols
    <2>1. ")" \in Symbols
      BY DEF Symbols
    <2> QED
      BY <2>1, TypedParts, Zenon
  <1>3. depth # 0
    BY <1>1, <1>2
  <1>4. Task # "script"
    BY <1>3, Zenon DEF Understood
  <1>5. ASSUME Makings(text, depth, meant) PROVE Makings(text', depth', meant')
    <2>0. /\ Task = "values" /\ depth = 1 => Makings(text \o <<")">>, depth - 1, meant)
          /\ ~(Task = "values" /\ depth = 1) => Makings(text \o <<")">>, depth - 1, Longer(meant, <<")">>))
      BY <1>2, <1>3, <1>4, <1>5, MakingsClose, Zenon
    <2>1. CASE Task = "values" /\ depth = 1
      <3>1. text' = text \o <<")">> /\ meant' = meant
        BY <1>1, <1>2, <2>1, AppendedSymbol, Zenon
      <3> QED
        BY <1>1, <2>0, <2>1, <3>1, Zenon
    <2>2. CASE ~(Task = "values" /\ depth = 1)
      <3>1. text' = text \o <<")">> /\ meant' = Longer(meant, <<")">>)
        BY <1>1, <2>2, Zenon DEF Add, Longer
      <3> QED
        BY <1>1, <2>0, <2>2, <3>1, Zenon
    <2> QED
      BY <2>1, <2>2, Zenon
  <1> QED
    BY <1>1, <1>4, <1>5, SymbolUnderstood, Zenon

LEMMA SeparatorUnderstood == ASSUME ScanTyped, Understood, WriteSeparator PROVE Understood'
  <1>1. /\ Writing(0) /\ depth' = depth /\ odd' = odd
        /\ \/ /\ Task = "values" /\ depth = 0 /\ text # <<>> /\ Last(text) = ")"
              /\ text' = Append(text, "comma") /\ meant' = meant
           \/ /\ Task # "values" /\ depth = 0
              /\ text' = Append(text, Separator) /\ meant' = Append(meant, <<>>)
           \/ depth > 0 /\ Add(<<Separator>>)
    BY Zenon DEF WriteSeparator
  <1>2. reader \in Scanners /\ text \in Seq(Symbols) /\ depth \in Nat /\ "comma" \in Symbols
        /\ Separator \in Symbols /\ (Task # "script" => Separator = "comma")
    <2>1. "comma" \in Symbols /\ Separator \in Symbols /\ (Task # "script" => Separator = "comma")
      BY DEF Symbols, Separator
    <2> QED
      BY <2>1, TypedParts, Zenon
  <1>3. Task = "script" => depth' = 0
    BY <1>1, Zenon DEF Understood
  <1>4. ASSUME Makings(text, depth, meant) PROVE Makings(text', depth', meant')
    <2>1. CASE /\ Task = "values" /\ depth = 0 /\ text # <<>> /\ Last(text) = ")"
               /\ text' = Append(text, "comma") /\ meant' = meant
      <3>1. Task # "script"
        BY <2>1
      <3>2. text' = text \o <<"comma">>
        BY <1>2, <2>1, AppendedSymbol, Zenon
      <3>3. Makings(text \o <<"comma">>, depth, meant)
        BY <1>2, <1>4, <2>1, <3>1, MakingsComma, Zenon
      <3> QED
        BY <1>1, <2>1, <3>2, <3>3, Zenon
    <2>2. CASE /\ Task # "values" /\ depth = 0
               /\ text' = Append(text, Separator) /\ meant' = Append(meant, <<>>)
      <3>1. text' = text \o <<Separator>>
        BY <1>2, <2>2, AppendedSymbol, Zenon
      <3>2. Makings(text \o <<Separator>>, 0, Append(meant, <<>>))
        BY <1>2, <1>4, <2>2, MakingsSeparator, Zenon
      <3> QED
        BY <1>1, <2>2, <3>1, <3>2, Zenon
    <2>3. CASE depth > 0 /\ Add(<<Separator>>)
      <3>1. depth # 0
        BY <1>2, <2>3
      <3>2. Task # "script"
        BY <3>1, Zenon DEF Understood
      <3>3. text' = text \o <<"comma">> /\ meant' = Longer(meant, <<"comma">>)
        BY <1>2, <2>3, <3>2, Zenon DEF Add, Longer
      <3>4. Makings(text \o <<"comma">>, depth, Longer(meant, <<"comma">>))
        BY <1>2, <1>4, <3>1, <3>2, MakingsComma, Zenon
      <3> QED
        BY <1>1, <3>3, <3>4, Zenon
    <2> QED
      BY <1>1, <2>1, <2>2, <2>3, Zenon
  <1> QED
    BY <1>1, <1>3, <1>4, SymbolUnderstood, Zenon

\* What ends a piece without a separator, in a script.
LEMMA FinishedUnderstood ==
  ASSUME Understood, NEW n, Writing(n), Task = "script", NEW t, NEW piece, NEW after, Finished(t, piece, after),
         odd' = {} => Makings(text \o t, depth, Append(Longer(meant, piece), after))
  PROVE  Understood'
  <1>1. text' = text \o t /\ meant' = Append(Longer(meant, piece), after) /\ depth' = depth
    BY Zenon DEF Finished, Longer
  <1>2. depth' = 0
    BY <1>1, Zenon DEF Understood
  <1>3. odd' = {} => Makings(text', depth', meant')
    BY <1>1, Zenon
  <1> QED
    BY <1>2, <1>3, StaysUnderstood, Zenon

LEMMA CopyUnderstood ==
  ASSUME ScanTyped, Understood, NEW c \in Contents, WriteCopy(c)
  PROVE  Understood'
  <1> DEFINE copy == CopyText(c)
             nl == <<"nl">>
             b == Range(Last(meant)) \subseteq {"nl"}
             scanner == <<"postgres", "script">>
  <1>1. /\ Writing(1) /\ reader = scanner
        /\ \A i \in 1 .. Len(c) + 1 : ~HasAt(Data(c), i, Marker)
        /\ Finished(copy \o nl, copy, nl) /\ Follows(b, "copy")
    BY Zenon DEF WriteCopy, CopyText, Data
  <1>2. c \in Seq(Symbols) /\ text \in Seq(Symbols)
    BY ContentType, TypedParts, Zenon
  <1>3. Task = "script" /\ scanner # GenericScript /\ scanner # <<"postgres", "values">> /\ scanner # GenericValues
    BY <1>1 DEF Task, GenericScript, GenericValues
  <1>4. ASSUME odd' = {} PROVE Makings(text \o (copy \o nl), depth, Append(Longer(meant, copy), nl))
    <2>1. b /\ odd = {}
      <3> HIDE DEF b
      <3> QED
        BY <1>1, <1>4, FollowsWhat
    <2>2. Makings(text, depth, meant)
      BY <2>1, Zenon DEF Understood
    <2>3. Cutting(scanner, text, depth, meant)
      BY <1>1, <1>3, <2>2, Zenon DEF Makings
    <2>4. Cutting(scanner, text \o (CopyText(c) \o <<"nl">>), depth, Append(Longer(meant, CopyText(c)), <<"nl">>))
      BY <1>1, <1>2, <2>1, <2>3, CuttingCopy, Zenon
    <2> QED
      BY <1>1, <1>3, <2>4, Zenon DEF Makings
  <1> HIDE DEF copy, nl, b, scanner
  <1> QED
    BY <1>1, <1>3, <1>4, FinishedUnderstood, Zenon

LEMMA BatchUnderstood == ASSUME ScanTyped, Understood, WriteBatch PROVE Understood'
  <1> DEFINE k == <<"nl", "GO", "nl">>
             nl == <<"nl">>
  <1>1. Writing(0) /\ reader = GenericScript /\ Finished(k, nl, nl) /\ odd' = odd
    BY Zenon DEF WriteBatch, GenericScript
  <1>2. text \in Seq(Symbols)
    BY TypedParts, Zenon
  <1>3. Task = "script"
    BY <1>1 DEF Task, GenericScript
  <1>4. ASSUME odd' = {} PROVE Makings(text \o k, depth, Append(Longer(meant, nl), nl))
    <2>1. Makings(text, depth, meant)
      BY <1>1, <1>4, Zenon DEF Understood
    <2>2. Script(text, meant)
      BY <1>1, <2>1, Zenon DEF Makings
    <2>3. Script(text \o k, Append(Longer(meant, nl), nl))
      BY <1>2, <2>2, ScriptBatch, Zenon
    <2> QED
      BY <1>1, <2>3, Zenon DEF Makings
  <1> HIDE DEF k, nl
  <1> QED
    BY <1>1, <1>3, <1>4, FinishedUnderstood, Zenon

LEMMA RoutineUnderstood ==
  ASSUME ScanTyped, Understood, NEW c \in Contents, WriteRoutine(c)
  PROVE  Understood'
  <1> DEFINE k == <<"nl", "DELIMITER//", "nl">> \o c \o <<"//", "nl", "DELIMITERsemi", "nl">>
             piece == <<"nl">> \o c
             nl == <<"nl">>
  <1>1. /\ Writing(1) /\ reader = GenericScript /\ Range(c) \cap (Special \cup {"//"}) \subseteq {"semi"}
        /\ Finished(k, piece, nl) /\ odd' = odd
    BY Zenon DEF WriteRoutine, GenericScript
  <1>2. c \in Seq(Symbols) /\ text \in Seq(Symbols)
    BY ContentType, TypedParts, Zenon
  <1>3. Task = "script"
    BY <1>1 DEF Task, GenericScript
  <1>4. ASSUME odd' = {} PROVE Makings(text \o k, depth, Append(Longer(meant, piece), nl))
    <2>1. Makings(text, depth, meant)
      BY <1>1, <1>4, Zenon DEF Understood
    <2>2. Script(text, meant)
      BY <1>1, <2>1, Zenon DEF Makings
    <2>3. Script(text \o k, Append(Longer(meant, piece), nl))
      BY <1>1, <1>2, <2>2, ScriptRoutine, Zenon
    <2> QED
      BY <1>1, <2>3, Zenon DEF Makings
  <1> HIDE DEF k, nl, piece
  <1> QED
    BY <1>1, <1>3, <1>4, FinishedUnderstood, Zenon

LEMMA EndUnderstood == ASSUME Understood, EndOfText PROVE Understood'
  <1>1. depth = 0 /\ reader' = reader /\ text' = text /\ meant' = meant /\ depth' = depth /\ odd' = odd
    BY Zenon DEF EndOfText
  <1> QED
    BY <1>1, Zenon DEF Understood, Makings, Task

LEMMA ScanInitUnderstood == ScanInit => Understood
  <1> SUFFICES ASSUME ScanInit PROVE Understood
    OBVIOUS
  <1>1. /\ reader \in Scanners /\ text = <<>> /\ depth = 0
        /\ meant = IF Task = "values" THEN <<>> ELSE << <<>> >>
    BY ScanConstantsOK, Zenon DEF ScanInit, Scanners
  <1>2. CASE reader = GenericScript
    <2>1. meant = << <<>> >>
      <3>1. Task # "values"
        BY <1>2 DEF Task, GenericScript
      <3> QED
        BY <1>1, <3>1, Zenon
    <2>2. Makings(text, depth, meant)
      BY <1>1, <1>2, <2>1, ScriptAtFirst, Zenon DEF Makings
    <2> QED
      BY <1>1, <2>2, Zenon DEF Understood
  <1>3. CASE reader = <<"postgres", "values">> /\ reader # GenericScript
    <2>1. meant = <<>>
      <3>1. Task = "values"
        BY <1>3 DEF Task
      <3> QED
        BY <1>1, <3>1, Zenon
    <2>2. Makings(text, depth, meant)
      BY <1>1, <1>3, <2>1, RowsAtFirst, Zenon DEF Makings
    <2> QED
      BY <1>1, <2>2, Zenon DEF Understood
  <1>4. CASE reader = GenericValues /\ reader # GenericScript /\ reader # <<"postgres", "values">>
    <2>1. meant = <<>>
      <3>1. Task = "values"
        BY <1>4 DEF Task, GenericValues
      <3> QED
        BY <1>1, <3>1, Zenon
    <2>2. Makings(text, depth, meant)
      BY <1>1, <1>4, <2>1, WrappedAtFirst, Zenon DEF Makings
    <2> QED
      BY <1>1, <2>2, Zenon DEF Understood
  <1>5. CASE /\ reader # GenericScript /\ reader # <<"postgres", "values">> /\ reader # GenericValues
             /\ reader = Cutter \/ reader[2] = "list"
    <2>1. meant = << <<>> >>
      <3>1. Task # "values"
        BY <1>5 DEF Task, Cutter
      <3> QED
        BY <1>1, <3>1, Zenon
    <2>2. Makings(text, depth, meant)
      BY <1>1, <1>5, <2>1, CuttingAtFirst, Zenon DEF Makings
    <2> QED
      BY <1>1, <2>2, Zenon DEF Understood
  <1> QED
    BY <1>1, <1>2, <1>3, <1>4, <1>5, OneOfFour, Zenon

LEMMA ScanStepUnderstood == ScanTyped /\ Understood /\ [ScanNext]_scanVars => Understood'
  <1> SUFFICES ASSUME ScanTyped, Understood, [ScanNext]_scanVars PROVE Understood'
    OBVIOUS
  <1>1. CASE WriteWord
    BY <1>1, WordUnderstood
  <1>2. CASE WriteEscaped
    BY <1>2, EscapedUnderstood
  <1>3. CASE WriteDollarName
    BY <1>3, DollarNameUnderstood
  <1>4. ASSUME NEW c \in Contents, NEW q \in {"sq", "dq", "bq"}, WriteQuoted(q, c) PROVE Understood'
    BY <1>4, QuotedUnderstood
  <1>5. ASSUME NEW c \in Contents, WriteBracketed(c) PROVE Understood'
    BY <1>5, BracketedUnderstood
  <1>6. ASSUME NEW c \in Contents, WriteComment(c) PROVE Understood'
    BY <1>6, CommentUnderstood
  <1>7. ASSUME NEW c \in Contents, WriteCopy(c) PROVE Understood'
    BY <1>7, CopyUnderstood
  <1>8. ASSUME NEW c \in Contents, WriteRoutine(c) PROVE Understood'
    BY <1>8, RoutineUnderstood
  <1>9. ASSUME NEW c \in Contents, NEW tag \in Tags, WriteDollarQuoted(tag, c) PROVE Understood'
    BY <1>9, DollarQuotedUnderstood
  <1>10. CASE OpenParenthesis
    BY <1>10, OpenParenthesisUnderstood
  <1>11. CASE CloseParenthesis
    BY <1>11, CloseParenthesisUnderstood
  <1>12. CASE WriteSeparator
    BY <1>12, SeparatorUnderstood
  <1>13. CASE WriteBatch
    BY <1>13, BatchUnderstood
  <1>14. CASE EndOfText
    BY <1>14, EndUnderstood
  <1>15. CASE UNCHANGED scanVars
    BY <1>15, Zenon DEF Understood, Makings, scanVars, Task
  <1> QED
    BY <1>1, <1>2, <1>3, <1>4, <1>5, <1>6, <1>7, <1>8, <1>9, <1>10, <1>11, <1>12, <1>13, <1>14, <1>15,
       Zenon DEF ScanNext

LEMMA UnderstoodIsAsMeant == ScanTyped /\ Understood => CutAsMeant
  <1> SUFFICES ASSUME ScanTyped, Understood, ended, odd = {} PROVE pieces = meant
    BY Zenon DEF CutAsMeant
  <1>1. reader \in Scanners /\ text \in Seq(Symbols)
    BY TypedParts, Zenon
  <1>2. pieces = Split(text)
    BY Zenon DEF ScanTyped
  <1>3. Makings(text, 0, meant)
    BY Zenon DEF Understood
  <1>4. CASE reader = GenericScript
    <2>1. Split(text) = SplitScript(text)
      BY <1>4 DEF Split, GenericScript
    <2>2. SplitScript(text) = meant
      BY <1>1, <1>3, <1>4, ScriptAtLast, Zenon DEF Makings
    <2> QED
      BY <1>2, <2>1, <2>2, Zenon
  <1>5. CASE reader = <<"postgres", "values">> /\ reader # GenericScript
    <2>1. Split(text) = Scan(reader, text).out
      BY <1>5 DEF Split
    <2>2. Scan(<<"postgres", "values">>, text).out = meant
      BY <1>1, <1>3, <1>5, RowsAtLast, Zenon DEF Makings
    <2> QED
      BY <1>2, <1>5, <2>1, <2>2, Zenon
  <1>6. CASE reader = GenericValues /\ reader # GenericScript /\ reader # <<"postgres", "values">>
    <2>1. Split(text) = Groups(Parts(reader, text))
      BY <1>6 DEF Split, GenericValues
    <2>2. Groups(Parts(GenericValues, text)) = meant
      BY <1>1, <1>3, <1>6, WrappedAtLast, Zenon DEF Makings
    <2> QED
      BY <1>2, <1>6, <2>1, <2>2, Zenon
  <1>7. CASE reader # GenericScript /\ reader # <<"postgres", "values">> /\ reader # GenericValues
    <2>1. Split(text) = Parts(reader, text)
      BY <1>7 DEF Split, GenericScript, GenericValues
    <2>2. Parts(reader, text) = meant
      BY <1>1, <1>3, <1>7, CuttingAtLast, Zenon DEF Makings
    <2> QED
      BY <1>2, <2>1, <2>2, Zenon
  <1> QED
    BY <1>4, <1>5, <1>6, <1>7, Zenon

\* A text made of constructs that its scanner follows is cut exactly where its author
\* meant it, whatever stands in quotes, in dollar quotes, in parentheses, in the data of
\* a COPY or between DELIMITER lines, and in whatever order; and no text loses anything.
THEOREM AlwaysSplitAsMeant == ScanSpec => []SplitAsMeant
  <1>1. ScanInit => Understood
    BY ScanInitUnderstood
  <1>2. ScanTyped /\ Understood /\ [ScanNext]_scanVars => Understood'
    BY ScanStepUnderstood
  <1>3. ScanTyped /\ Understood => SplitAsMeant
    BY UnderstoodIsAsMeant, TypedLosesNothing DEF SplitAsMeant
  <1>4. ScanSpec => []ScanTyped
    BY AlwaysScanTyped
  <1> QED
    BY <1>1, <1>2, <1>3, <1>4, PTL DEF ScanSpec
==============================================================================
