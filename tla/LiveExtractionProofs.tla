------------------------- MODULE LiveExtractionProofs -------------------------
(***************************************************************************)
(* Every property that the run of LiveExtraction checks, for any number of *)
(* schemas, tables and changes of the database, under any request.         *)
(*                                                                         *)
(* The heart of the invariant is what a listing saw, which each entry of    *)
(* work and result carries: a table that waits in work and was not touched *)
(* is still what it was then, what is known of the first of them agrees    *)
(* with that up to the query that is next, and no later listing is taken   *)
(* for one that is over.                                                   *)
(***************************************************************************)
EXTENDS LiveExtraction, FilterProofs, FiniteSetTheorems

Entry ==
  [key : Keys, id : 1 .. MaxChanges + 1, left : 1 .. Len(SchemaOrder), seen : Tables]
Partial == [columns : ColumnLists \cup {<<>>}, keys : 0 .. 2, checks : 0 .. 2]

InWork == {Visit(work[i]) : i \in DOMAIN work}
InResult == {Visit(result[i]) : i \in DOMAIN result}

TodoOK == todo \in Seq(Range(SchemaOrder)) /\ Len(todo) <= Len(SchemaOrder)

\* What waits was listed once, and before what is yet to be listed.
WorkOK ==
  /\ work \in Seq(Entry)
  /\ \A i, j \in DOMAIN work : Visit(work[i]) = Visit(work[j]) => i = j
  /\ \A e \in Range(work) : e.key \notin options.exclude /\ e.left > Len(todo)

\* What was listed is still so, unless it was touched.
SeenOK ==
  \A e \in Range(work) : /\ e.id = e.seen.id
                         /\ Visit(e) \notin touched => catalogue[e.key] = e.seen

\* What is known of the first table, query by query.
PartialOK ==
  /\ partial \in Partial
  /\ pc \in {"list", "done"} => work = <<>>
  /\ pc \in {"list", "columns", "done", "failed"} => partial = Nothing
  /\ pc \in {"keys", "checks", "example"} /\ Visit(Head(work)) \notin touched =>
       LET e == Head(work)
       IN  /\ partial.columns = e.seen.columns
           /\ pc \in {"checks", "example"} => partial.keys = e.seen.keys
           /\ pc = "example" => partial.checks = e.seen.checks \/ Visit(e) \in lost

\* What is in the result is not waiting, and will not be listed again.
ResultOK ==
  /\ \E T : result \in Seq(T)
  /\ \A i, j \in DOMAIN result : Visit(result[i]) = Visit(result[j]) => i = j
  /\ \A v \in InResult : v \notin InWork /\ v[1] > Len(todo)
  /\ InWork \subseteq listed
  /\ pc # "failed" => listed = InWork \cup InResult

ShownOf(t) == IF options.sample THEN Showing(t.columns) ELSE <<>>

\* An untouched table of the result is what it was when it was listed.
Exact(x) ==
  LET t == x.seen
  IN  /\ x.columns = t.columns
      /\ x.keys = t.keys
      /\ x.checks = t.checks \/ Visit(x) \in lost
      /\ x.heads = ShownOf(t)
      /\ x.rows = IF t.filled /\ ShownOf(t) # <<>> THEN <<ShownOf(t)>> ELSE <<>>

ResultExact == \A x \in Range(result) : Visit(x) \notin touched => Exact(x)

IInv ==
  /\ TypeOK
  /\ TodoOK
  /\ WorkOK
  /\ SeenOK
  /\ PartialOK
  /\ ResultOK
  /\ ResultExact
  /\ ExamplesAligned
  /\ QuietNeverFails

-----------------------------------------------------------------------------
(* The operators. *)

LEMMA TablesPresent == \A t \in Tables : t # Absent
  BY ConstantsOK DEF Tables, Absent

\* The parts of a list that is not empty.
LEMMA HeadAndTail ==
  ASSUME NEW T, NEW s \in Seq(T), s # <<>>
  PROVE  /\ Head(s) = s[1] /\ 1 \in DOMAIN s /\ Head(s) \in T
         /\ Tail(s) \in Seq(T) /\ Len(Tail(s)) = Len(s) - 1 /\ Len(s) \in Nat
         /\ \A i \in DOMAIN Tail(s) : i + 1 \in DOMAIN s /\ Tail(s)[i] = s[i + 1]
         /\ \A i \in DOMAIN s : i = 1 \/ (i - 1 \in DOMAIN Tail(s) /\ Tail(s)[i - 1] = s[i])
         /\ Range(s) = {s[1]} \cup Range(Tail(s))
  <1> DEFINE t == Tail(s)
  <1>1. /\ Head(s) = s[1] /\ Len(s) \in Nat /\ Len(s) > 0 /\ DOMAIN s = 1 .. Len(s)
        /\ Head(s) \in T
        /\ t \in Seq(T) /\ Len(t) = Len(s) - 1 /\ DOMAIN t = 1 .. Len(t)
        /\ \A i \in 1 .. Len(t) : t[i] = s[i + 1]
    BY HeadTailProperties
  <1> HIDE DEF t
  <1>2. \A i \in DOMAIN t : i + 1 \in DOMAIN s /\ t[i] = s[i + 1]
    BY <1>1
  <1>3. \A i \in DOMAIN s : i = 1 \/ (i - 1 \in DOMAIN t /\ t[i - 1] = s[i])
    BY <1>1
  <1>4. 1 \in DOMAIN s
    BY <1>1
  <1>5. Range(s) = {s[1]} \cup Range(t)
    BY <1>2, <1>3, <1>4 DEF Range
  <1> QED
    BY <1>1, <1>2, <1>3, <1>4, <1>5 DEF t

LEMMA KeysFinite == IsFiniteSet(Keys)
  <1> DEFINE n == Len(SchemaOrder)
  <1>1. n \in Nat /\ DOMAIN SchemaOrder = 1 .. n
    BY ConstantsOK
  <1>2. SchemaOrder \in Surjection(1 .. n, Range(SchemaOrder))
    <2>1. SchemaOrder \in [1 .. n -> Range(SchemaOrder)]
      BY ConstantsOK, LenProperties
    <2>2. \A x \in Range(SchemaOrder) : \E i \in 1 .. n : SchemaOrder[i] = x
      BY <1>1 DEF Range
    <2> QED
      BY <2>1, <2>2 DEF Surjection
  <1>3. IsFiniteSet(1 .. n)
    BY <1>1, FS_Interval
  <1>4. IsFiniteSet(Range(SchemaOrder))
    BY <1>2, <1>3, FS_Surjection
  <1> QED
    BY <1>4, FS_Product, ConstantsOK DEF Keys

\* A finite set as a list: each of its members once.
LEMMA SetAsList ==
  ASSUME NEW S, IsFiniteSet(S)
  PROVE  /\ Cardinality(S) \in Nat
         /\ SetToSeq(S) \in [1 .. Cardinality(S) -> S]
         /\ IsInjective(SetToSeq(S))
         /\ Range(SetToSeq(S)) = S
  <1> DEFINE n == Cardinality(S)
             f == SetToSeq(S)
  <1>1. n \in Nat /\ ExistsBijection(1 .. n, S)
    BY FS_CardinalityType
  <1>2. \E g \in [1 .. n -> S] : IsInjective(g)
    BY <1>1 DEF ExistsBijection, Bijection, Injection
  <1>3. f \in [1 .. n -> S] /\ IsInjective(f)
    BY <1>2 DEF SetToSeq
  <1>4. IsFiniteSet(Range(f)) /\ Cardinality(Range(f)) = n
    <2>1. Range(f) \subseteq S
      BY <1>3 DEF Range
    <2>2. f \in Bijection(1 .. n, Range(f))
      <3>1. f \in [1 .. n -> Range(f)]
        BY <1>3 DEF Range
      <3>2. \A x \in Range(f) : \E i \in 1 .. n : f[i] = x
        BY <1>3 DEF Range
      <3> QED
        BY <1>3, <3>1, <3>2 DEF Bijection, Injection, Surjection
    <2>3. ExistsBijection(1 .. n, Range(f))
      BY <2>2 DEF ExistsBijection
    <2> QED
      BY <1>1, <2>1, <2>3, FS_CountingElements, FS_Subset
  <1>5. Range(f) = S
    <2>1. Range(f) \in SUBSET S
      BY <1>3 DEF Range
    <2> QED
      BY <1>4, <2>1, FS_Subset
  <1> QED
    BY <1>1, <1>3, <1>5

\* A listing finds what it looks for, each table once, with its identity.
LEMMA ListedTables ==
  ASSUME TypeOK, TodoOK, todo # <<>>, NEW names
  PROVE  LET l == Listed(names)
         IN  /\ l \in Seq(Entry)
             /\ \A i, j \in DOMAIN l : l[i].key = l[j].key => i = j
             /\ \A i \in DOMAIN l : /\ l[i].key \in Keys \ options.exclude
                                    /\ l[i].id = catalogue[l[i].key].id
                                    /\ l[i].seen = catalogue[l[i].key]
                                    /\ l[i].left = Len(todo)
  <1> DEFINE found == {k \in Keys \ options.exclude : k[1] \in names /\ catalogue[k] # Absent}
             n == Cardinality(found)
             f == SetToSeq(found)
             l == Listed(names)
             m == Len(todo)
  <1>1. IsFiniteSet(found)
    <2>1. found \in SUBSET Keys
      OBVIOUS
    <2> QED
      BY <2>1, KeysFinite, FS_Subset
  <1>2. n \in Nat /\ f \in [1 .. n -> found] /\ IsInjective(f)
    BY <1>1, SetAsList
  <1>3. l = [i \in 1 .. n |-> [key |-> f[i], id |-> catalogue[f[i]].id, left |-> m,
                              seen |-> catalogue[f[i]]]]
    BY DEF Listed
  <1>4. \A k \in found : /\ k \in Keys \ options.exclude
                         /\ catalogue[k] \in Tables
                         /\ catalogue[k].id \in 1 .. MaxChanges + 1
    BY DEF TypeOK, Tables
  <1>5. m \in 1 .. Len(SchemaOrder)
    <2>1. todo \in Seq(Range(SchemaOrder)) /\ Len(SchemaOrder) \in Nat
      BY ConstantsOK DEF TodoOK
    <2>2. m \in Nat /\ m # 0
      BY <2>1
    <2> QED
      BY <2>1, <2>2 DEF TodoOK
  <1> HIDE DEF found, n, f, l, m
  <1>6. /\ DOMAIN l = 1 .. n /\ DOMAIN f = 1 .. n
        /\ \A i \in 1 .. n : /\ f[i] \in found /\ l[i].key = f[i] /\ l[i].id = catalogue[f[i]].id
                             /\ l[i].left = m /\ l[i].seen = catalogue[f[i]]
        /\ \A i \in 1 .. n : l[i] \in Entry
    BY <1>2, <1>3, <1>4, <1>5 DEF Entry
  <1>7. l \in Seq(Entry)
    BY <1>2, <1>3, <1>6
  <1>8. \A i, j \in DOMAIN l : l[i].key = l[j].key => i = j
    BY <1>2, <1>6 DEF IsInjective
  <1> QED
    BY <1>2, <1>4, <1>6, <1>7, <1>8 DEF l, m

\* What is shown of a list of columns has no hidden one, and nothing else is missing.
LEMMA ShowingColumns ==
  ASSUME NEW columns \in ColumnLists \cup {<<>>}
  PROVE  /\ columns \in Seq(Range(columns))
         /\ Showing(columns) \in Seq(Range(columns))
         /\ Range(Showing(columns)) = Range(columns) \ options.hide
         /\ columns = <<>> => Showing(columns) = <<>>
  <1>1. columns \in Seq(Range(columns))
    BY ConstantsOK, EmptySeq
  <1>2. Keep(columns, Range(columns) \ options.hide) \in Seq(Range(columns))
    BY <1>1, KeepType
  <1>3. Range(Keep(columns, Range(columns) \ options.hide)) = Range(columns) \ options.hide
    BY <1>1, KeepRange
  <1> QED
    BY <1>1, <1>2, <1>3, KeepOfEmpty DEF Showing

LEMMA CurrentTable ==
  ASSUME IInv, work # <<>>
  PROVE  LET e == Head(work)
         IN  /\ e \in Range(work) /\ e \in Entry /\ Visit(e) \in InWork
             /\ Current \in Tables \cup {Absent}
             /\ Visit(e) \notin touched => Current = e.seen /\ catalogue[e.key] = e.seen
  <1>1. work \in Seq(Entry)
    BY DEF IInv, WorkOK
  <1>2. Head(work) = work[1] /\ 1 \in DOMAIN work /\ Head(work) \in Entry
    BY <1>1, HeadAndTail
  <1>3. Head(work) \in Range(work) /\ Visit(Head(work)) \in InWork
    BY <1>2 DEF Range, InWork
  <1>4. catalogue[Head(work).key] \in Tables \cup {Absent}
    BY <1>2 DEF IInv, TypeOK, Entry
  <1>5. Current \in Tables \cup {Absent}
    BY <1>4 DEF Current
  <1>6. Visit(Head(work)) \notin touched =>
          Current = Head(work).seen /\ catalogue[Head(work).key] = Head(work).seen
    BY <1>3 DEF IInv, SeenOK, Current
  <1> QED
    BY <1>2, <1>3, <1>5, <1>6

\* The visits of work and of result, member by member.
LEMMA VisitsOf ==
  InWork = {Visit(e) : e \in Range(work)} /\ InResult = {Visit(x) : x \in Range(result)}
  BY DEF InWork, InResult, Range

\* A table stays exact.
LEMMA ExactFixed ==
  ASSUME NEW x, Exact(x), options' = options, lost \subseteq lost'
  PROVE  Exact(x)'
  BY DEF Exact, ShownOf, Showing, Visit

-----------------------------------------------------------------------------
(* The database changes. *)

LEMMA IInvInit == Init => IInv
  <1> SUFFICES ASSUME Init PROVE IInv
    OBVIOUS
  <1>1. DOMAIN work = {} /\ DOMAIN result = {} /\ Range(result) = {} /\ Range(work) = {}
    <2>1. work = <<>> /\ result = <<>>
      BY DEF Init
    <2> QED
      BY <2>1, EmptyDomain DEF Range
  <1>2. partial = Nothing /\ Nothing \in Partial
    BY DEF Init, Nothing, Partial
  <1>3. TypeOK
    <2>1. catalogue \in [Keys -> Tables \cup {Absent}]
      BY DEF Init
    <2>2. partial.columns \in ColumnLists \cup {<<>>}
      BY <1>2 DEF Nothing
    <2>4. changes = 0 /\ fault = FALSE
      BY DEF Init
    <2>5. 0 \in 0 .. MaxChanges
      BY ConstantsOK
    <2>3. pc = "list" /\ adapter \in Adapters /\ options \in Requests /\ touched = {} /\ lost = {}
          /\ listed = {}
      BY DEF Init
    <2> QED
      BY <1>1, <2>1, <2>2, <2>3, <2>4, <2>5 DEF TypeOK
  <1>4. TodoOK
    <2>1. todo = SchemaOrder /\ Len(SchemaOrder) \in Nat
      BY ConstantsOK DEF Init
    <2> QED
      BY <2>1, ConstantsOK DEF TodoOK
  <1>5. WorkOK /\ SeenOK
    BY <1>1, EmptySeq DEF Init, WorkOK, SeenOK
  <1>6. PartialOK
    BY <1>2 DEF Init, PartialOK
  <1>7. ResultOK
    BY <1>1, EmptySeq DEF Init, ResultOK, InWork, InResult
  <1>8. ResultExact /\ ExamplesAligned /\ QuietNeverFails
    BY <1>1 DEF Init, ResultExact, ExamplesAligned, QuietNeverFails
  <1> QED
    BY <1>3, <1>4, <1>5, <1>6, <1>7, <1>8 DEF IInv

LEMMA ChangeStep ==
  ASSUME IInv, NEW k \in Keys, NEW t \in Tables \cup {Absent}, Change(k, t)
  PROVE  IInv'
  <1> USE DEF IInv
  <1>1. /\ UNCHANGED <<adapter, options, pc, todo, work, partial, result, listed, lost, fault>>
        /\ pc \notin {"done", "failed"}
    BY DEF Change, reading
  <1>2. touched' = touched \cup {Visit(e) : e \in {e \in Range(work) : e.key = k}}
    BY DEF Change
  <1>3. catalogue' \in [Keys -> Tables \cup {Absent}]
        /\ \A j \in Keys \ {k} : catalogue'[j] = catalogue[j]
    BY DEF Change, TypeOK
  <1>4. InWork' = InWork /\ InResult' = InResult /\ Range(result') = Range(result)
        /\ Range(work') = Range(work)
    BY <1>1 DEF InWork, InResult
  <1>5. touched \subseteq touched' /\ touched' \subseteq listed
    BY <1>2, VisitsOf DEF TypeOK, ResultOK
  <1>6. TypeOK'
    <2>1. changes' \in 0 .. MaxChanges
      BY ConstantsOK DEF Change, TypeOK
    <2> QED
      BY <1>1, <1>3, <1>5, <2>1 DEF TypeOK
  <1>7. TodoOK' /\ WorkOK' /\ ResultOK'
    BY <1>1, <1>4 DEF TodoOK, WorkOK, ResultOK
  <1>8. PartialOK'
    BY <1>1, <1>5 DEF PartialOK
  <1>9. SeenOK'
    <2>1. ASSUME NEW e \in Range(work), Visit(e) \notin touched'
          PROVE  catalogue'[e.key] = e.seen
      <3>1. e.key # k /\ Visit(e) \notin touched
        BY <1>2, <2>1
      <3>2. e \in Entry
        BY DEF WorkOK, Range
      <3>3. catalogue[e.key] = e.seen
        BY <3>1 DEF SeenOK
      <3> QED
        BY <1>3, <3>1, <3>2, <3>3 DEF Entry
    <2> QED
      BY <1>4, <2>1 DEF SeenOK
  <1>10. ResultExact'
    BY <1>1, <1>4, <1>5, ExactFixed DEF ResultExact
  <1>11. ExamplesAligned' /\ QuietNeverFails'
    BY <1>1, <1>4, <1>5 DEF ExamplesAligned, QuietNeverFails
  <1> QED
    BY <1>6, <1>7, <1>8, <1>9, <1>10, <1>11

LEMMA ChangingStep ==
  ASSUME IInv, Changing PROVE IInv'
  <1> PICK k \in Keys : Create(k) \/ Drop(k) \/ Alter(k)
    BY DEF Changing
  <1>1. ASSUME Create(k) PROVE \E t \in Tables \cup {Absent} : Change(k, t)
    <2> PICK cols \in ColumnLists, filled \in BOOLEAN :
          Change(k, [id |-> changes + 2, columns |-> cols, keys |-> 1, checks |-> 1,
                     filled |-> filled])
      BY <1>1 DEF Create
    <2>1. changes + 2 \in 1 .. MaxChanges + 1
      BY ConstantsOK DEF IInv, TypeOK, Change
    <2> QED
      BY <2>1 DEF Tables
  <1>2. ASSUME Drop(k) PROVE \E t \in Tables \cup {Absent} : Change(k, t)
    BY <1>2 DEF Drop
  <1>3. ASSUME Alter(k) PROVE \E t \in Tables \cup {Absent} : Change(k, t)
    <2>1. catalogue[k] \in Tables
      BY <1>3 DEF Alter, IInv, TypeOK
    <2>2. \A cols \in ColumnLists : [catalogue[k] EXCEPT !.columns = cols] \in Tables
      BY <2>1 DEF Tables
    <2>3. [catalogue[k] EXCEPT !.keys = 3 - @] \in Tables
      BY <2>1 DEF Tables
    <2>4. [catalogue[k] EXCEPT !.checks = 3 - @] \in Tables
      BY <2>1 DEF Tables
    <2> QED
      BY <1>3, <2>2, <2>3, <2>4 DEF Alter
  <1> QED
    BY <1>1, <1>2, <1>3, ChangeStep

-----------------------------------------------------------------------------
(* Listing. *)

LEMMA ListStep ==
  ASSUME IInv, List PROVE IInv'
  <1> USE DEF IInv
  <1> DEFINE names == IF adapter = "postgres" THEN Range(todo) ELSE {Head(todo)}
             m == Len(todo)
  <1>1. /\ UNCHANGED <<adapter, options, catalogue, changes, partial, result, touched, lost,
                       fault>>
        /\ pc = "list" /\ todo # <<>> /\ work = <<>>
        /\ work' = Listed(names)
        /\ listed' = listed \cup {Visit(e) : e \in Range(work')}
        /\ pc' = IF work' # <<>> THEN "columns" ELSE "list"
    BY DEF List, PartialOK
  <1>2. /\ todo' \in Seq(Range(SchemaOrder))
        /\ m \in 1 .. Len(SchemaOrder) /\ Len(todo') < m /\ Len(todo') \in Nat
        /\ Len(SchemaOrder) \in Nat
    <2>1. /\ todo \in Seq(Range(SchemaOrder)) /\ Len(SchemaOrder) \in Nat
          /\ m <= Len(SchemaOrder)
      BY ConstantsOK DEF TodoOK
    <2>2. Tail(todo) \in Seq(Range(SchemaOrder)) /\ Len(Tail(todo)) = m - 1 /\ m \in Nat
      BY <1>1, <2>1, HeadAndTail
    <2>3. m # 0
      BY <1>1, <2>1
    <2>4. todo' = <<>> \/ todo' = Tail(todo)
      BY DEF List
    <2>5. Len(<<>>) = 0 /\ <<>> \in Seq(Range(SchemaOrder))
      BY EmptySeq
    <2>6. Len(todo') = 0 \/ Len(todo') = m - 1
      BY <2>2, <2>4, <2>5
    <2>7. todo' \in Seq(Range(SchemaOrder))
      BY <2>2, <2>4, <2>5
    <2> HIDE DEF m
    <2> QED
      BY <2>1, <2>2, <2>3, <2>6, <2>7
  <1> HIDE DEF names
  <1>3. /\ work' \in Seq(Entry)
        /\ \A i, j \in DOMAIN work' : work'[i].key = work'[j].key => i = j
        /\ \A i \in DOMAIN work' : /\ work'[i].key \in Keys \ options.exclude
                                   /\ work'[i].id = catalogue[work'[i].key].id
                                   /\ work'[i].seen = catalogue[work'[i].key]
                                   /\ work'[i].left = m
    BY <1>1, ListedTables
  <1> HIDE DEF m
  <1>4. \A e \in Range(work') : /\ e.key \in Keys \ options.exclude
                               /\ e.seen = catalogue[e.key] /\ e.id = e.seen.id
                               /\ e.left = m
    BY <1>3 DEF Range
  <1>5. InWork = {} /\ InResult' = InResult /\ Range(result') = Range(result)
    BY <1>1, EmptyDomain DEF InWork, InResult
  <1>6. InWork' = {Visit(e) : e \in Range(work')}
    BY DEF InWork, Range, Visit
  <1>7. \A v \in InWork' : v[1] = m /\ v \in (1 .. Len(SchemaOrder)) \X Keys
    BY <1>2, <1>4, <1>6 DEF Visit
  <1>8. listed' = listed \cup InWork'
    BY <1>1, <1>6
  <1>9. TypeOK'
    <2>1. listed' \subseteq (1 .. Len(SchemaOrder)) \X Keys
      BY <1>7, <1>8 DEF TypeOK
    <2> QED
      BY <1>1, <1>8, <2>1 DEF TypeOK
  <1>10. TodoOK'
    BY <1>2 DEF TodoOK
  <1>11. WorkOK'
    <2>1. \A i, j \in DOMAIN work' : Visit(work'[i]) = Visit(work'[j]) => i = j
      BY <1>3 DEF Visit
    <2> QED
      BY <1>1, <1>2, <1>3, <1>4, <2>1 DEF WorkOK
  <1>12. SeenOK'
    BY <1>1, <1>4 DEF SeenOK
  <1>13. PartialOK'
    BY <1>1 DEF PartialOK
  <1>14. ResultOK'
    <2>1. \A v \in InResult : v \in listed /\ v[1] > Len(todo)
      BY <1>1 DEF ResultOK
    <2>2. \A v \in InResult : v[1] \in Nat
      BY <2>1, <1>2 DEF TypeOK
    <2>3. \A v \in InResult : v \notin InWork' /\ v[1] > Len(todo')
      BY <1>2, <1>7, <2>1, <2>2 DEF m
    <2>4. listed' = InWork' \cup InResult'
      BY <1>1, <1>5, <1>8 DEF ResultOK
    <2> QED
      BY <1>1, <1>5, <2>3, <2>4 DEF ResultOK
  <1>15. ResultExact'
    BY <1>1, <1>5, ExactFixed DEF ResultExact
  <1>16. ExamplesAligned' /\ QuietNeverFails'
    BY <1>1, <1>5 DEF ExamplesAligned, QuietNeverFails
  <1> QED
    BY <1>9, <1>10, <1>11, <1>12, <1>13, <1>14, <1>15, <1>16

LEMMA AllListedStep ==
  ASSUME IInv, AllListed PROVE IInv'
  <1> USE DEF IInv
  <1>1. /\ UNCHANGED <<adapter, options, catalogue, changes, todo, work, partial, result,
                       listed, touched, lost, fault>>
        /\ pc = "list" /\ pc' = "done"
    BY DEF AllListed
  <1>2. InWork' = InWork /\ InResult' = InResult
    BY <1>1 DEF InWork, InResult
  <1>3. TypeOK' /\ TodoOK' /\ WorkOK' /\ SeenOK' /\ PartialOK' /\ ResultOK'
    BY <1>1, <1>2 DEF TypeOK, TodoOK, WorkOK, SeenOK, PartialOK, ResultOK
  <1>4. ResultExact' /\ ExamplesAligned' /\ QuietNeverFails'
    BY <1>1, ExactFixed DEF ResultExact, ExamplesAligned, QuietNeverFails
  <1> QED
    BY <1>3, <1>4

-----------------------------------------------------------------------------
(* What is asked of one table. *)

\* A query about the first table leaves everything else alone.
LEMMA LoadStep ==
  ASSUME IInv, work # <<>>, pc' \in {"keys", "checks", "example"}, pc # "failed", PartialOK',
         UNCHANGED <<adapter, options, catalogue, changes, todo, work, result, listed, touched,
                     fault>>,
         lost \subseteq lost', lost' \subseteq listed
  PROVE  IInv'
  <1> USE DEF IInv
  <1>1. InWork' = InWork /\ InResult' = InResult
    BY DEF InWork, InResult
  <1>2. TypeOK'
    <2>1. partial'.columns \in ColumnLists \cup {<<>>}
      BY DEF PartialOK, Partial
    <2> QED
      BY <2>1 DEF TypeOK
  <1>3. TodoOK' /\ WorkOK' /\ SeenOK' /\ ResultOK'
    BY <1>1 DEF TodoOK, WorkOK, SeenOK, ResultOK
  <1>4. ResultExact' /\ ExamplesAligned' /\ QuietNeverFails'
    BY ExactFixed DEF ResultExact, ExamplesAligned, QuietNeverFails
  <1> QED
    BY <1>2, <1>3, <1>4

LEMMA LoadColumnsStep ==
  ASSUME IInv, LoadColumns PROVE IInv'
  <1>1. /\ work # <<>> /\ pc = "columns" /\ pc' = "keys"
        /\ UNCHANGED <<adapter, options, catalogue, changes, todo, work, result, listed,
                       touched, lost, fault>>
    BY DEF LoadColumns, IInv, TypeOK
  <1>2. Current \in Tables \cup {Absent}
        /\ (Visit(Head(work)) \notin touched => Current = Head(work).seen)
    BY <1>1, CurrentTable
  <1>3. partial = Nothing
    BY <1>1 DEF IInv, PartialOK
  <1>4. Current.columns \in ColumnLists \cup {<<>>}
    BY <1>2 DEF Tables, Absent
  <1>5. <<>> \o Current.columns = Current.columns
    <2>1. Current.columns \in Seq(Range(Current.columns))
      BY <1>4, ShowingColumns
    <2> QED
      BY <2>1
  <1>6. partial' = [columns |-> Current.columns, keys |-> 0, checks |-> 0]
    BY <1>3, <1>5 DEF LoadColumns, Nothing
  <1>7. PartialOK'
    BY <1>1, <1>2, <1>4, <1>6 DEF PartialOK, Partial
  <1> QED
    BY <1>1, <1>7, LoadStep DEF IInv, TypeOK

LEMMA LoadKeysStep ==
  ASSUME IInv, LoadKeys PROVE IInv'
  <1>1. /\ work # <<>> /\ pc = "keys" /\ pc' = "checks"
        /\ UNCHANGED <<adapter, options, catalogue, changes, todo, work, result, listed,
                       touched, lost, fault>>
    BY DEF LoadKeys, IInv, TypeOK
  <1>2. Current \in Tables \cup {Absent}
        /\ (Visit(Head(work)) \notin touched => Current = Head(work).seen)
    BY <1>1, CurrentTable
  <1>3. Current.keys \in 0 .. 2
    BY <1>2 DEF Tables, Absent
  <1>4. partial \in Partial /\ partial' = [partial EXCEPT !.keys = Current.keys]
    BY DEF LoadKeys, IInv, PartialOK
  <1>5. /\ partial' \in Partial
        /\ partial'.columns = partial.columns
        /\ partial'.keys = Current.keys
    BY <1>3, <1>4 DEF Partial
  <1>6. PartialOK'
    BY <1>1, <1>2, <1>5 DEF IInv, PartialOK
  <1> QED
    BY <1>1, <1>6, LoadStep DEF IInv, TypeOK, ResultOK

LEMMA LoadChecksStep ==
  ASSUME IInv, LoadChecks \/ LoseChecks PROVE IInv'
  <1>1. /\ work # <<>> /\ pc = "checks" /\ pc' = "example"
        /\ UNCHANGED <<adapter, options, catalogue, changes, todo, work, result, listed,
                       touched, fault>>
    BY DEF LoadChecks, LoseChecks, IInv, TypeOK
  <1>2. Current \in Tables \cup {Absent} /\ Visit(Head(work)) \in InWork
        /\ (Visit(Head(work)) \notin touched => Current = Head(work).seen)
    BY <1>1, CurrentTable
  <1>3. Current.checks \in 0 .. 2
    BY <1>2 DEF Tables, Absent
  <1>4. partial \in Partial
    BY DEF IInv, PartialOK
  <1>5. /\ partial' \in Partial
        /\ partial'.columns = partial.columns
        /\ partial'.keys = partial.keys
        /\ partial'.checks = Current.checks \/ Visit(Head(work)) \in lost'
        /\ lost \subseteq lost' /\ lost' \subseteq lost \cup {Visit(Head(work))}
    BY <1>3, <1>4 DEF LoadChecks, LoseChecks, Partial
  <1>6. PartialOK'
    BY <1>1, <1>2, <1>5 DEF IInv, PartialOK
  <1> QED
    BY <1>1, <1>2, <1>5, <1>6, LoadStep DEF IInv, TypeOK, ResultOK

\* The error is returned: a query failed, or the table that was read had changed.
LEMMA FailStep ==
  ASSUME IInv, Fail, pc \notin {"done", "failed"}, fault' \in BOOLEAN,
         fault' \/ (work # <<>> /\ Visit(Head(work)) \in touched)
  PROVE  IInv'
  <1> USE DEF IInv
  <1>1. /\ UNCHANGED <<adapter, options, catalogue, changes, work, listed, touched, lost>>
        /\ pc' = "failed" /\ todo' = <<>> /\ partial' = Nothing /\ result' = <<>>
    BY DEF Fail
  <1>2. Range(todo') = {} /\ Range(result') = {} /\ InResult' = {} /\ DOMAIN result' = {}
        /\ DOMAIN todo' = {}
    BY <1>1, EmptyDomain DEF Range, InResult
  <1>3. InWork' = InWork
    BY <1>1 DEF InWork
  <1>4. TypeOK'
    BY <1>1, <1>2 DEF TypeOK, Nothing
  <1>5. TodoOK'
    BY <1>1, <1>2, EmptySeq DEF TodoOK, IsInjective
  <1>6. WorkOK' /\ SeenOK'
    <2>1. \A e \in Range(work) : e.left > 0
      <3> SUFFICES ASSUME NEW e \in Range(work) PROVE e.left > 0
        OBVIOUS
      <3>1. e \in Entry /\ Len(SchemaOrder) \in Nat
        BY ConstantsOK DEF WorkOK, Range
      <3> QED
        BY <3>1 DEF Entry
    <2>2. Len(todo') = 0
      BY <1>1
    <2> QED
      BY <1>1, <2>1, <2>2 DEF WorkOK, SeenOK
  <1>7. PartialOK'
    BY <1>1 DEF PartialOK, Partial, Nothing
  <1>8. ResultOK'
    <2>1. \E T : result' \in Seq(T)
      BY <1>1, EmptySeq
    <2>2. \A i, j \in DOMAIN result' : Visit(result'[i]) = Visit(result'[j]) => i = j
      BY <1>2
    <2> QED
      BY <1>1, <1>2, <1>3, <2>1, <2>2 DEF ResultOK
  <1>9. ResultExact' /\ ExamplesAligned' /\ QuietNeverFails'
    BY <1>1, <1>2 DEF ResultExact, ExamplesAligned, QuietNeverFails
  <1> QED
    BY <1>4, <1>5, <1>6, <1>7, <1>8, <1>9

\* The first table joins the result and is not waited for any more.
LEMMA FinishStep ==
  ASSUME IInv, pc = "example", NEW heads, NEW rows, Finish(heads, rows),
         Visit(Head(work)) \notin touched =>
           LET shown == ShownOf(Head(work).seen)
           IN  /\ heads = shown
               /\ rows = IF Head(work).seen.filled /\ shown # <<>> THEN <<shown>> ELSE <<>>,
         \A row \in Range(rows) :
           /\ Len(row) = Len(heads)
           /\ adapter # "postgres" \/ Visit(Head(work)) \notin touched =>
                row = heads /\ Range(row) \cap options.hide = {}
  PROVE  IInv'
  <1> DEFINE e == Head(work)
             v == Visit(e)
             x == Described(heads, rows)
             rest == Tail(work)
  <1> USE DEF IInv
  <1>1. /\ UNCHANGED <<adapter, options, catalogue, changes, todo, listed, touched, lost, fault>>
        /\ result' = Append(result, x) /\ work' = rest /\ partial' = Nothing
        /\ pc' = IF work' = <<>> THEN "list" ELSE "columns"
    BY DEF Finish
  <1>2. work # <<>>
    BY DEF TypeOK
  <1>3. e \in Range(work) /\ e \in Entry /\ v \in InWork
    BY <1>2, CurrentTable
  <1>4. /\ x.key = e.key /\ x.columns = partial.columns /\ x.keys = partial.keys
        /\ x.checks = partial.checks /\ x.heads = heads /\ x.rows = rows
        /\ x.seen = e.seen
        /\ Visit(x) = v
    BY DEF Described, Visit
  <1>5. /\ e = work[1] /\ 1 \in DOMAIN work
        /\ rest \in Seq(Entry)
        /\ \A i \in DOMAIN rest : i + 1 \in DOMAIN work /\ rest[i] = work[i + 1]
        /\ \A i \in DOMAIN work : i = 1 \/ (i - 1 \in DOMAIN rest /\ rest[i - 1] = work[i])
        /\ Range(work) = {e} \cup Range(rest)
    BY <1>2, HeadAndTail DEF WorkOK
  <1>6. PICK T : result \in Seq(T)
    BY DEF ResultOK
  <1> DEFINE U == T \cup {x}
             l == Len(result)
  <1>7. result \in Seq(U) /\ x \in U
    BY <1>6, SeqMonotonic
  <1>8. DOMAIN rest \subseteq Nat \ {0}
    <2>1. DOMAIN rest = 1 .. Len(rest) /\ Len(rest) \in Nat
      BY <1>5
    <2> QED
      BY <2>1
  <1>9. /\ \E V : result' \in Seq(V)
        /\ Range(result') = Range(result) \cup {x}
        /\ l \in Nat /\ DOMAIN result = 1 .. l /\ DOMAIN result' = 1 .. l + 1
        /\ \A i \in 1 .. l : result'[i] = result[i]
        /\ result'[l + 1] = x
    BY <1>1, <1>7, AppendParts, RangeOfAppend
  <1> HIDE DEF v, x, rest, l, U
  <1>10. \A i, j \in DOMAIN rest : Visit(rest[i]) = Visit(rest[j]) => i = j
    <2> SUFFICES ASSUME NEW i \in DOMAIN rest, NEW j \in DOMAIN rest,
                        Visit(rest[i]) = Visit(rest[j])
                 PROVE  i = j
      OBVIOUS
    <2>1. i + 1 = j + 1
      BY <1>5 DEF WorkOK
    <2> QED
      BY <1>8, <2>1
  <1>11. \A i \in DOMAIN rest : Visit(rest[i]) # v
    <2> SUFFICES ASSUME NEW i \in DOMAIN rest, Visit(rest[i]) = v PROVE FALSE
      OBVIOUS
    <2>1. i + 1 = 1
      BY <1>5 DEF WorkOK, v
    <2> QED
      BY <1>8, <2>1
  <1>12. InWork' = InWork \ {v}
    <2>1. InWork' = {Visit(rest[i]) : i \in DOMAIN rest}
      BY <1>1 DEF InWork, Visit
    <2>2. \A i \in DOMAIN rest : Visit(rest[i]) \in InWork \ {v}
      BY <1>5, <1>11 DEF InWork
    <2>3. ASSUME NEW j \in InWork, j # v
          PROVE  \E i \in DOMAIN rest : Visit(rest[i]) = j
      <3>1. PICK i \in DOMAIN work : Visit(work[i]) = j
        BY DEF InWork
      <3> QED
        BY <1>5, <2>3, <3>1 DEF v
    <2> QED
      BY <2>1, <2>2, <2>3
  <1>13. InResult' = InResult \cup {v}
    <2>1. InResult' = {Visit(y) : y \in Range(result')}
      BY DEF InResult, Range, Visit
    <2> QED
      BY <1>4, <1>9, <2>1, VisitsOf
  <1>14. /\ e.key \notin options.exclude /\ e.key \in Keys
         /\ v[1] > Len(todo) /\ v \notin InResult
    BY <1>3 DEF WorkOK, ResultOK, Entry, Visit, v
  <1>15. TypeOK'
    <2>1. x.key \in Keys \ options.exclude /\ x.columns \in ColumnLists \cup {<<>>}
      BY <1>4, <1>14 DEF TypeOK
    <2>2. \A y \in Range(result') :
            y.key \in Keys \ options.exclude /\ y.columns \in ColumnLists \cup {<<>>}
      BY <1>9, <2>1 DEF TypeOK
    <2>3. partial'.columns = <<>>
      BY <1>1 DEF Nothing
    <2> QED
      BY <1>1, <2>2, <2>3 DEF TypeOK
  <1>16. TodoOK' /\ WorkOK'
    BY <1>1, <1>5, <1>10 DEF TodoOK, WorkOK
  <1>17. SeenOK'
    BY <1>1, <1>5 DEF SeenOK
  <1>18. PartialOK'
    BY <1>1 DEF PartialOK, Partial, Nothing
  <1>19. ResultOK'
    <2>1. \A i \in 1 .. l : Visit(result[i]) \in InResult
      BY <1>9 DEF InResult
    <2>2. \A i \in DOMAIN result' : i = l + 1 \/ i \in 1 .. l
      BY <1>9
    <2>3. \A i, j \in DOMAIN result' : Visit(result'[i]) = Visit(result'[j]) => i = j
      BY <1>4, <1>9, <1>14, <2>1, <2>2 DEF ResultOK
    <2>4. InWork \cup InResult = InWork' \cup InResult'
      BY <1>3, <1>12, <1>13
    <2>5. \A j \in InResult' : j \notin InWork' /\ j[1] > Len(todo)
      BY <1>12, <1>13, <1>14 DEF ResultOK
    <2>6. InWork' \subseteq listed
      BY <1>12 DEF ResultOK
    <2> QED
      BY <1>1, <1>9, <2>3, <2>4, <2>5, <2>6 DEF ResultOK
  <1>20. ResultExact'
    <2>1. ASSUME v \notin touched PROVE Exact(x)
      BY <1>4, <2>1 DEF PartialOK, Exact, v
    <2>2. \A y \in Range(result') : Visit(y) \notin touched => Exact(y)
      BY <1>4, <1>9, <2>1 DEF ResultExact
    <2> QED
      BY <1>1, <2>2, ExactFixed DEF ResultExact
  <1>21. ExamplesAligned'
    <2>1. \A row \in Range(x.rows) :
            /\ Len(row) = Len(x.heads)
            /\ adapter # "postgres" \/ Visit(x) \notin touched =>
                 row = x.heads /\ Range(row) \cap options.hide = {}
      BY <1>4 DEF v
    <2> QED
      BY <1>1, <1>9, <2>1 DEF ExamplesAligned
  <1>22. QuietNeverFails'
    BY <1>1 DEF QuietNeverFails
  <1> QED
    BY <1>15, <1>16, <1>17, <1>18, <1>19, <1>20, <1>21, <1>22

-----------------------------------------------------------------------------
(* The example. *)

\* What the last query of a table knows.
LEMMA ExampleTable ==
  ASSUME IInv, pc = "example"
  PROVE  LET e == Head(work)
             now == catalogue[e.key]
         IN  /\ work # <<>>
             /\ now \in Tables \cup {Absent}
             /\ partial.columns \in ColumnLists \cup {<<>>}
             /\ now.columns \in ColumnLists \cup {<<>>}
             /\ Visit(e) \notin touched => /\ now = e.seen /\ now # Absent
                                    /\ partial.columns = now.columns
  <1>1. work # <<>>
    BY DEF IInv, TypeOK
  <1>2. /\ Head(work) \in Entry
        /\ Visit(Head(work)) \notin touched =>
             catalogue[Head(work).key] = Head(work).seen
    BY <1>1, CurrentTable
  <1>3. Head(work).key \in Keys /\ Head(work).seen \in Tables
    BY <1>2 DEF Entry
  <1>4. catalogue[Head(work).key] \in Tables \cup {Absent}
        /\ partial.columns \in ColumnLists \cup {<<>>}
    BY <1>3 DEF IInv, TypeOK
  <1>5. catalogue[Head(work).key].columns \in ColumnLists \cup {<<>>}
    BY <1>4 DEF Tables, Absent
  <1>6. Visit(Head(work)) \notin touched => partial.columns = Head(work).seen.columns
    BY DEF IInv, PartialOK
  <1> QED
    BY <1>1, <1>2, <1>3, <1>4, <1>5, <1>6, TablesPresent

LEMMA OneRow == ASSUME NEW filled, NEW row PROVE Range(Rows(filled, row)) \subseteq {row}
  BY EmptyDomain DEF Rows, Range

LEMMA NoRow == Range(<<>>) = {}
  BY EmptyDomain DEF Range

LEMMA SkipExampleStep ==
  ASSUME IInv, SkipExample PROVE IInv'
  <1>1. pc = "example" /\ Skipped /\ Finish(<<>>, <<>>)
    BY DEF SkipExample
  <1>2. ASSUME Visit(Head(work)) \notin touched
        PROVE  ShownOf(Head(work).seen) = <<>>
    <2>1. partial.columns = Head(work).seen.columns
          /\ partial.columns \in ColumnLists \cup {<<>>}
      BY <1>1, <1>2, ExampleTable
    <2>2. partial.columns = <<>> => Showing(partial.columns) = <<>>
      BY <2>1, ShowingColumns
    <2> QED
      BY <1>1, <2>1, <2>2 DEF Skipped, ShownOf
  <1> QED
    BY <1>1, <1>2, NoRow, FinishStep

\* The shown columns by position are the shown columns.
LEMMA ShowingByPosition ==
  ASSUME NEW columns \in ColumnLists \cup {<<>>}, NEW now
  PROVE  LET shown == Places(columns, Range(columns) \ options.hide)
             heads == [i \in DOMAIN shown |-> columns[shown[i]]]
             row == [i \in DOMAIN shown |-> now[shown[i]]]
         IN  /\ heads = Showing(columns)
             /\ Len(heads) = Len(row)
             /\ shown = <<>> <=> Showing(columns) = <<>>
  <1> DEFINE shown == Places(columns, Range(columns) \ options.hide)
             heads == [i \in DOMAIN shown |-> columns[shown[i]]]
             row == [i \in DOMAIN shown |-> now[shown[i]]]
             l == Len(shown)
  <1>1. columns \in Seq(Range(columns))
    BY ShowingColumns
  <1>2. shown \in Seq(DOMAIN columns)
    BY <1>1, PlacesProperties
  <1>3. heads = Showing(columns)
    BY DEF Showing, Keep
  <1>4. l \in Nat /\ DOMAIN shown = 1 .. l
    BY <1>2
  <1> HIDE DEF shown
  <1>5. Len(heads) = l
    BY <1>4, FunctionIsList
  <1>6. Len(row) = l
    BY <1>4, FunctionIsList
  <1>7. shown = <<>> => heads = <<>>
    <2> SUFFICES ASSUME shown = <<>> PROVE heads = <<>>
      OBVIOUS
    <2>1. DOMAIN shown = {}
      BY EmptyDomain
    <2>2. heads = [i \in {} |-> columns[shown[i]]] /\ <<>> = [i \in {} |-> columns[shown[i]]]
      BY <2>1
    <2> QED
      BY <2>2
  <1>8. heads = <<>> => shown = <<>>
    <2> SUFFICES ASSUME heads = <<>> PROVE shown = <<>>
      OBVIOUS
    <2>1. l = 0
      BY <1>5
    <2> QED
      BY <1>2, <2>1
  <1> QED
    BY <1>3, <1>5, <1>6, <1>7, <1>8 DEF shown

LEMMA PickByPositionStep ==
  ASSUME IInv, PickByPosition PROVE IInv'
  <1> DEFINE e == Head(work)
             now == catalogue[e.key]
             shown == Places(partial.columns, Range(partial.columns) \ options.hide)
             refused == \/ now = Absent
                        \/ options.ordered /\ ~(Range(partial.columns) \subseteq Range(now.columns))
             misfit == now.filled /\ Len(now.columns) # Len(partial.columns)
             heads == [i \in DOMAIN shown |-> partial.columns[shown[i]]]
             row == [i \in DOMAIN shown |-> now.columns[shown[i]]]
  <1>1. /\ pc = "example" /\ ~Skipped /\ adapter = "postgres"
        /\ \/ (refused \/ misfit) /\ Fail /\ UNCHANGED fault
           \/ shown = <<>> /\ Finish(<<>>, <<>>)
           \/ shown # <<>> /\ Finish(heads, Rows(now.filled, row))
    BY DEF PickByPosition
  <1>2. /\ work # <<>>
        /\ partial.columns \in ColumnLists \cup {<<>>}
        /\ Visit(e) \notin touched => /\ now = e.seen /\ now # Absent
                               /\ partial.columns = now.columns
    BY <1>1, ExampleTable
  <1>3. /\ heads = Showing(partial.columns)
        /\ Len(heads) = Len(row)
        /\ shown = <<>> <=> Showing(partial.columns) = <<>>
    BY <1>2, ShowingByPosition
  <1>4. options.sample
    BY <1>1 DEF Skipped
  <1>5. Range(Showing(partial.columns)) = Range(partial.columns) \ options.hide
    BY <1>2, ShowingColumns
  <1>6. Visit(e) \notin touched => ~refused /\ ~misfit /\ row = heads
                            /\ ShownOf(e.seen) = heads
    BY <1>2, <1>3, <1>4 DEF ShownOf
  <1>7. Range(Rows(now.filled, row)) \subseteq {row}
    BY OneRow
  <1> HIDE DEF e, now, shown, refused, misfit, heads, row
  <1>8. CASE (refused \/ misfit) /\ Fail /\ UNCHANGED fault
    <2>1. Visit(e) \in touched /\ fault' \in BOOLEAN
      BY <1>6, <1>8 DEF IInv, TypeOK
    <2> QED
      BY <1>1, <1>2, <1>8, <2>1, FailStep DEF e
  <1>9. CASE shown = <<>> /\ Finish(<<>>, <<>>)
    BY <1>1, <1>3, <1>6, <1>9, NoRow, FinishStep DEF e
  <1>10. CASE shown # <<>> /\ Finish(heads, Rows(now.filled, row))
    <2>1. Visit(e) \notin touched =>
            /\ heads = ShownOf(e.seen)
            /\ Rows(now.filled, row) =
                 IF e.seen.filled /\ heads # <<>> THEN <<heads>> ELSE <<>>
      BY <1>2, <1>3, <1>6, <1>10 DEF Rows
    <2>2. \A r \in Range(Rows(now.filled, row)) :
            /\ Len(r) = Len(heads)
            /\ Visit(e) \notin touched => r = heads /\ Range(r) \cap options.hide = {}
      BY <1>3, <1>5, <1>6, <1>7
    <2> QED
      BY <1>1, <1>10, <2>1, <2>2, FinishStep DEF e
  <1> QED
    BY <1>1, <1>8, <1>9, <1>10

LEMMA TakeOwnColumnsStep ==
  ASSUME IInv, TakeOwnColumns PROVE IInv'
  <1> DEFINE e == Head(work)
             now == catalogue[e.key]
             heads == Showing(now.columns)
             rows == IF heads = <<>> THEN <<>> ELSE Rows(now.filled, heads)
  <1>1. /\ pc = "example" /\ ~Skipped
        /\ \/ now = Absent /\ Fail /\ UNCHANGED fault
           \/ Finish(heads, rows)
    BY DEF TakeOwnColumns
  <1>2. /\ work # <<>>
        /\ now.columns \in ColumnLists \cup {<<>>}
        /\ Visit(e) \notin touched => now = e.seen /\ now # Absent
    BY <1>1, ExampleTable
  <1>3. Visit(e) \notin touched => ShownOf(e.seen) = heads
    BY <1>1, <1>2 DEF Skipped, ShownOf
  <1>4. Range(heads) \cap options.hide = {}
    BY <1>2, ShowingColumns
  <1>5. Range(rows) \subseteq {heads}
    BY OneRow, NoRow
  <1>6. Visit(e) \notin touched =>
          rows = IF e.seen.filled /\ heads # <<>> THEN <<heads>> ELSE <<>>
    BY <1>2 DEF Rows
  <1> HIDE DEF e, now, heads, rows
  <1>7. CASE now = Absent /\ Fail /\ UNCHANGED fault
    <2>1. Visit(e) \in touched /\ fault' \in BOOLEAN
      BY <1>2, <1>7 DEF IInv, TypeOK
    <2> QED
      BY <1>1, <1>2, <1>7, <2>1, FailStep DEF e
  <1>8. CASE Finish(heads, rows)
    BY <1>1, <1>3, <1>4, <1>5, <1>6, <1>8, FinishStep DEF e
  <1> QED
    BY <1>1, <1>7, <1>8

LEMMA AskByNameStep ==
  ASSUME IInv, AskByName PROVE IInv'
  <1> DEFINE e == Head(work)
             now == catalogue[e.key]
             heads == Showing(partial.columns)
             rows == Rows(now.filled, heads)
             valid == /\ now # Absent
                      /\ heads # <<>>
                      /\ Range(heads) \subseteq Range(now.columns)
  <1>1. /\ pc = "example" /\ ~Skipped /\ adapter \in {"mssql", "oracle"}
        /\ \/ ~valid /\ Fail /\ UNCHANGED fault
           \/ valid /\ Finish(heads, rows)
    BY DEF AskByName
  <1>2. /\ work # <<>>
        /\ partial.columns \in ColumnLists \cup {<<>>}
        /\ Visit(e) \notin touched => /\ now = e.seen /\ now # Absent
                               /\ partial.columns = now.columns
    BY <1>1, ExampleTable
  <1>3. options.sample /\ heads # <<>>
    BY <1>1 DEF Skipped
  <1>4. Range(heads) = Range(partial.columns) \ options.hide
    BY <1>2, ShowingColumns
  <1>5. Visit(e) \notin touched => valid /\ ShownOf(e.seen) = heads
    BY <1>2, <1>3, <1>4 DEF ShownOf
  <1>6. Range(rows) \subseteq {heads}
    BY OneRow
  <1>7. Visit(e) \notin touched =>
          rows = IF e.seen.filled /\ heads # <<>> THEN <<heads>> ELSE <<>>
    BY <1>2, <1>3 DEF Rows
  <1> HIDE DEF e, now, heads, rows, valid
  <1>8. CASE ~valid /\ Fail /\ UNCHANGED fault
    <2>1. Visit(e) \in touched /\ fault' \in BOOLEAN
      BY <1>5, <1>8 DEF IInv, TypeOK
    <2> QED
      BY <1>1, <1>2, <1>8, <2>1, FailStep DEF e
  <1>9. CASE valid /\ Finish(heads, rows)
    BY <1>1, <1>4, <1>5, <1>6, <1>7, <1>9, FinishStep DEF e
  <1> QED
    BY <1>1, <1>8, <1>9

LEMMA QueryFailsStep ==
  ASSUME IInv, QueryFails PROVE IInv'
  BY FailStep DEF QueryFails

LEMMA StutterStep ==
  ASSUME IInv, UNCHANGED vars PROVE IInv'
  <1>1. /\ UNCHANGED <<adapter, options, catalogue, changes, pc, todo, work, partial,
                       result, listed, touched, lost, fault>>
    BY DEF vars, reading
  <1>2. InWork' = InWork /\ InResult' = InResult
    BY <1>1 DEF InWork, InResult
  <1>3. TypeOK' /\ TodoOK' /\ WorkOK' /\ SeenOK' /\ PartialOK' /\ ResultOK'
    BY <1>1, <1>2 DEF IInv, TypeOK, TodoOK, WorkOK, SeenOK, PartialOK, ResultOK
  <1>4. ResultExact'
    BY <1>1, ExactFixed DEF IInv, ResultExact
  <1>5. ExamplesAligned' /\ QuietNeverFails'
    BY <1>1 DEF IInv, ExamplesAligned, QuietNeverFails
  <1> QED
    BY <1>3, <1>4, <1>5 DEF IInv

LEMMA IInvNext == IInv /\ [Next]_vars => IInv'
  <1> SUFFICES ASSUME IInv, [Next]_vars PROVE IInv'
    OBVIOUS
  <1>1. CASE Changing
    BY <1>1, ChangingStep
  <1>2. CASE Extracting
    <2>1. CASE List
      BY <2>1, ListStep
    <2>2. CASE AllListed
      BY <2>2, AllListedStep
    <2>3. CASE LoadColumns
      BY <2>3, LoadColumnsStep
    <2>4. CASE LoadKeys
      BY <2>4, LoadKeysStep
    <2>5. CASE LoadChecks \/ LoseChecks
      BY <2>5, LoadChecksStep
    <2>6. CASE SkipExample
      BY <2>6, SkipExampleStep
    <2>7. CASE PickByPosition
      BY <2>7, PickByPositionStep
    <2>8. CASE TakeOwnColumns
      BY <2>8, TakeOwnColumnsStep
    <2>9. CASE AskByName
      BY <2>9, AskByNameStep
    <2> QED
      BY <1>2, <2>1, <2>2, <2>3, <2>4, <2>5, <2>6, <2>7, <2>8, <2>9 DEF Extracting
  <1>3. CASE QueryFails
    BY <1>3, QueryFailsStep
  <1>4. CASE Terminated \/ UNCHANGED vars
    BY <1>4, StutterStep DEF Terminated
  <1> QED
    BY <1>1, <1>2, <1>3, <1>4 DEF Next

-----------------------------------------------------------------------------

\* The inductive invariant: what waits to be read, what is known of it and what is
\* in the result agree with what the listing saw, in every reachable state.
THEOREM Invariant == SafeSpec => []IInv
  BY IInvInit, IInvNext, PTL DEF SafeSpec

\* Every state the extraction reaches is of the type that TypeOK says.
THEOREM TypeCorrect == SafeSpec => []TypeOK
  <1>1. IInv => TypeOK
    BY DEF IInv
  <1> QED
    BY <1>1, Invariant, PTL

\* What was listed is in the result when it is done, each table once, and a table
\* that was not changed after its listing is described as it then was, whatever
\* happened to the others meanwhile (UntouchedExact).
THEOREM UntouchedAlwaysExact == SafeSpec => []UntouchedExact
  <1>1. IInv => UntouchedExact
    <2> SUFFICES ASSUME IInv PROVE UntouchedExact
      OBVIOUS
    <2> DEFINE visits == [i \in DOMAIN result |-> Visit(result[i])]
    <2>1. IsInjective(visits)
      BY DEF IInv, ResultOK, IsInjective
    <2>2. Range(visits) = InResult
      BY DEF Range, InResult
    <2>3. pc = "done" => InWork = {}
      BY EmptyDomain DEF IInv, PartialOK, InWork
    <2>4. pc = "done" => InResult = listed
      BY <2>3 DEF IInv, ResultOK
    <2>5. \A x \in Range(result) : Visit(x) \notin touched => Exact(x)
      BY DEF IInv, ResultExact
    <2> HIDE DEF visits
    <2> QED
      BY <2>1, <2>2, <2>4, <2>5 DEF UntouchedExact, Exact, ShownOf, visits
  <1> QED
    BY <1>1, Invariant, PTL

\* In an example every cell is under the name of its own column and no hidden column
\* is shown; with postgres, of the tables that were not changed while it read them
\* (ExamplesAligned).
THEOREM ExamplesAlwaysAligned == SafeSpec => []ExamplesAligned
  <1>1. IInv => ExamplesAligned
    BY DEF IInv
  <1> QED
    BY <1>1, Invariant, PTL

\* An extraction fails because a query did, or because the very table it was reading
\* was changed after its listing (QuietNeverFails).
THEOREM QuietExtractionNeverFails == SafeSpec => []QuietNeverFails
  <1>1. IInv => QuietNeverFails
    BY DEF IInv
  <1> QED
    BY <1>1, Invariant, PTL
=============================================================================
