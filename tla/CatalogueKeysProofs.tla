------------------------- MODULE CatalogueKeysProofs -------------------------
(***************************************************************************)
(* What an adapter makes of the catalogue's rows, for any declarations and *)
(* any of the databases.                                                   *)
(*                                                                         *)
(* The rows of a query are a list that the catalogue sorts and flattens    *)
(* out of the declarations, so the proof goes from the lists to the        *)
(* adapter.  The first part says of every list how it is sorted and what   *)
(* is in it; the second says of the answer to each query that its rows are *)
(* Sound, and that what shows a NULL (ShowsNull) has an Unreadable row;    *)
(* the third what Put and SetTarget make of a row.                         *)
(*                                                                         *)
(* IInv then says that nothing but Sound rows is ever read, that a table's *)
(* primary keys all have the one name that may be declared (KeyNames), so  *)
(* that grouping by name leaves one (KeyOnce), and that a NULL which has   *)
(* not failed the extraction is still ahead of it, in a row or a query     *)
(* (NullAhead).                                                            *)
(*                                                                         *)
(* That the result is exact, KeysExact, takes the order of the rows too.   *)
(* Cat is the list that a list gives member by member; its lemmas say what *)
(* an order does to it.  Made says what the rows read so far have made of  *)
(* a kind: its entries when every row is one, or one entry for each name,  *)
(* whole, when they are grouped.  Told says of a list of rows that it      *)
(* tells each declaration's columns in their order and mixes in nothing of *)
(* another, From that its rows are about declarations and miss none; each  *)
(* query's answer is so (AnswerRight), and therefore all the answers       *)
(* together (All).  ReadInv is the invariant of the reading: the rows      *)
(* read, those at hand and those the queries left will bring are All, and  *)
(* every kind is Made of the rows read.                                    *)
(***************************************************************************)
EXTENDS CatalogueKeys, FilterProofs, FiniteSetTheorems

\* What stands in a row: a name, a column or an event, a table that is referred to.
Names == {d.name : d \in Declarations}
Values == Range(TableColumns) \cup Events \cup {d.table : d \in Declarations}
          \cup (UNION {Range(d.toColumns) : d \in Declarations}) \cup {Null}
Targeted == {d.to : d \in Declarations} \cup {<<Schema, d.to[2]>> : d \in Declarations} \cup {Null}

RowSet ==
  [into : Kinds \cup {"target"}, name : Names, columns : Seq(Values), included : Seq(Values),
   to : Targeted, toColumns : Seq(Values)]

EntrySet ==
  [name : Names, columns : Seq(Values \ {Null}), included : Seq(Values),
   to : Targeted, toColumns : Seq(Values \ {Null})]

\* What the catalogue shows with a NULL.
Nulls ==
  \/ \E d \in Of({"fk"}) : d.toColumns = <<>>
  \/ \E d \in Of({"index", "trigger"}) : Null \in Range(d.columns)
  \/ adapter = "oracle" /\ \E d \in Of({"fk"}) : d.to \in Hidden

\* The query that does.
ShowsNull(query) ==
  \/ query = "pairs" /\ \E d \in Of({"fk"}) : d.toColumns = <<>>
  \/ query \in {"index list", "statistics"} /\ \E d \in Of({"index"}) : Null \in Range(d.columns)
  \/ query = "events" /\ \E d \in Of({"trigger"}) : Null \in Range(d.columns)
  \/ query = "targets" /\ \E d \in Of({"fk"}) : d.to \in Hidden

KeyNames == {d.name : d \in Of({"pk"})}

\* What is known of a row before it is read.
Sound(row) ==
  /\ row \in RowSet
  /\ row.into = "pk" => row.name \in KeyNames
  /\ Unreadable(row) => Nulls

\* What the database let its users declare.
DeclaredOK ==
  /\ adapter \in Adapters
  /\ declared \subseteq Declarations /\ IsFiniteSet(declared)
  /\ \A c, d \in declared : c.kind = "pk" /\ d.kind = "pk" /\ c.table = d.table => c = d
  /\ \A d \in declared :
       /\ d.kind = "fk" /\ d.toColumns = <<>> => adapter = "sqlite"
       /\ Null \in Range(d.columns) =>
            adapter \in IF d.kind = "trigger" THEN {"mssql"} ELSE {"sqlite", "mysql"}

QueriesOK ==
  /\ \E T : queries \in Seq(T)
  /\ Range(queries) \subseteq Range(Queries)
  /\ phase = "declaring" => queries = <<>> /\ rows = <<>> /\ result = [kind \in Kinds |-> <<>>]

RowsOK == rows \in Seq(RowSet) /\ \A row \in Range(rows) : Sound(row)

ResultOK ==
  /\ result \in [Kinds -> Seq(EntrySet)]
  /\ \A e \in Range(result["pk"]) : e.name \in KeyNames

\* The primary key is the first thing that PostgreSQL is asked for, and one row.
KeyOnce ==
  /\ Len(result["pk"]) <= 1
  /\ adapter = "postgres" /\ phase = "reading" =>
       /\ "pk" \in Range(queries) => queries = Queries /\ rows = <<>> /\ result["pk"] = <<>>
       /\ (\E row \in Range(rows) : row.into = "pk") => Len(rows) = 1 /\ result["pk"] = <<>>

\* A NULL is still to be read.
NullAhead ==
  phase = "reading" /\ Nulls =>
    \/ \E row \in Range(rows) : Unreadable(row)
    \/ \E query \in Range(queries) : ShowsNull(query)

IInv ==
  /\ phase \in {"declaring", "reading", "done", "failed"}
  /\ DeclaredOK
  /\ QueriesOK
  /\ RowsOK
  /\ ResultOK
  /\ KeyOnce
  /\ NullAhead
  /\ RefusedForNulls

-----------------------------------------------------------------------------
(* Lists out of sets, and out of lists. *)

InOrder(s, key) ==
  IsInjective(s) /\ \A i, j \in DOMAIN s : i < j => key[s[i]] <= key[s[j]]

\* A finite set of keys can be sorted.
LEMMA CanSort ==
  ASSUME NEW key, IsFiniteSet(DOMAIN key), \A x \in DOMAIN key : key[x] \in Nat
  PROVE  \E s \in [1 .. Cardinality(DOMAIN key) -> DOMAIN key] : InOrder(s, key)
  <1> DEFINE Keyed(S) == IsFiniteSet(S) /\ \A x \in S : key[x] \in Nat
             Lists(S) == \E s \in [1 .. Cardinality(S) -> S] : InOrder(s, key)
             Done == {n \in Nat : \A S : Keyed(S) /\ Cardinality(S) = n => Lists(S)}
  <1>1. 0 \in Done
    <2> SUFFICES ASSUME NEW S, Keyed(S), Cardinality(S) = 0 PROVE Lists(S)
      OBVIOUS
    <2> DEFINE s == [i \in 1 .. 0 |-> i]
    <2>1. s \in [1 .. 0 -> S] /\ DOMAIN s = {}
      OBVIOUS
    <2>2. InOrder(s, key)
      BY <2>1 DEF InOrder, IsInjective
    <2> QED
      BY <2>1, <2>2
  <1>2. \A n \in Nat : n \in Done => n + 1 \in Done
    <2> SUFFICES ASSUME NEW n \in Nat, n \in Done,
                        NEW S, Keyed(S), Cardinality(S) = n + 1
                 PROVE  Lists(S)
      OBVIOUS
    <2> DEFINE KeyValues == {key[x] : x \in S}
    <2>1. S # {} /\ KeyValues # {} /\ KeyValues \subseteq Nat
      BY FS_EmptySet
    <2>2. PICK least \in KeyValues : \A v \in KeyValues : ~(<<v, least>> \in Below)
      BY <2>1, BelowWellFounded, WFMin
    <2>3. PICK first \in S : key[first] = least
      OBVIOUS
    <2>4. \A x \in S : key[first] <= key[x] /\ key[x] \in Nat
      <3> SUFFICES ASSUME NEW x \in S PROVE key[first] <= key[x] /\ key[x] \in Nat
        OBVIOUS
      <3>1. key[x] \in KeyValues /\ key[x] \in Nat /\ key[first] \in Nat
        BY <2>1
      <3>2. ~(<<key[x], key[first]>> \in Below)
        BY <2>2, <2>3, <3>1
      <3>3. ~(key[x] < key[first])
        BY <3>1, <3>2 DEF Below
      <3> QED
        BY <3>1, <3>3
    <2> DEFINE R == S \ {first}
    <2>5. Keyed(R) /\ Cardinality(R) = n
      <3>1. IsFiniteSet(R) /\ Cardinality(R) = Cardinality(S) - 1
        BY FS_RemoveElement
      <3> QED
        BY <3>1
    <2>6. PICK r \in [1 .. n -> R] : InOrder(r, key)
      BY <2>5
    <2> DEFINE s == [i \in 1 .. n + 1 |-> IF i = 1 THEN first ELSE r[i - 1]]
    <2> HIDE DEF Done, Keyed, R
    <2>7. \A i \in 1 .. n + 1 : i # 1 => i - 1 \in 1 .. n
      OBVIOUS
    <2>8. s \in [1 .. n + 1 -> S]
      BY <2>6, <2>7 DEF R
    <2>9. /\ s[1] = first
          /\ \A i \in 1 .. n + 1 : i # 1 => s[i] = r[i - 1] /\ s[i] \in R
      BY <2>6, <2>7
    <2>10. InOrder(s, key)
      <3>1. DOMAIN s = 1 .. n + 1 /\ DOMAIN r = 1 .. n
        BY <2>6
      <3> HIDE DEF s
      <3>2. ASSUME NEW i \in 1 .. n + 1, NEW j \in 1 .. n + 1, i < j
            PROVE  s[i] # s[j] /\ key[s[i]] <= key[s[j]]
        <4>1. j # 1 /\ s[j] = r[j - 1] /\ s[j] \in R /\ j - 1 \in 1 .. n
          BY <2>7, <2>9, <3>2
        <4>2. CASE i = 1
          BY <2>4, <2>9, <4>1, <4>2 DEF R
        <4>3. CASE i # 1
          <5>1. s[i] = r[i - 1] /\ i - 1 \in 1 .. n /\ i - 1 < j - 1 /\ i - 1 # j - 1
            BY <2>7, <2>9, <3>2, <4>3
          <5> QED
            BY <2>6, <3>1, <4>1, <5>1 DEF InOrder, IsInjective
        <4> QED
          BY <4>2, <4>3
      <3>3. \A i, j \in 1 .. n + 1 : i < j \/ j < i \/ i = j
        OBVIOUS
      <3> QED
        BY <3>1, <3>2, <3>3 DEF InOrder, IsInjective
    <2> QED
      BY <2>8, <2>10
  <1>3. Nat \subseteq Done
    <2> HIDE DEF Done
    <2> QED
      BY <1>1, <1>2, InductionOnSet
  <1> QED
    BY <1>3, FS_CardinalityType

LEMMA SortedParts ==
  ASSUME NEW key, IsFiniteSet(DOMAIN key), \A x \in DOMAIN key : key[x] \in Nat
  PROVE  LET s == Sorted(key)
         IN  /\ s \in Seq(DOMAIN key)
             /\ Len(s) = Cardinality(DOMAIN key) /\ Len(s) \in Nat
             /\ DOMAIN s = 1 .. Len(s)
             /\ Range(s) = DOMAIN key
             /\ IsInjective(s)
             /\ \A i, j \in DOMAIN s : i < j => key[s[i]] <= key[s[j]]
  <1> DEFINE S == DOMAIN key
             n == Cardinality(S)
             s == Sorted(key)
  <1>1. n \in Nat
    BY FS_CardinalityType
  <1>2. s \in [1 .. n -> S] /\ InOrder(s, key)
    BY CanSort DEF Sorted, InOrder
  <1> HIDE DEF s
  <1>3. s \in Seq(S) /\ Len(s) = n /\ DOMAIN s = 1 .. n
    BY <1>1, <1>2
  <1>4. Range(s) = S
    <2>1. Range(s) \in SUBSET S
      BY <1>2 DEF Range
    <2>2. s \in Bijection(1 .. n, Range(s))
      <3>1. s \in [1 .. n -> Range(s)]
        BY <1>2 DEF Range
      <3>2. \A x \in Range(s) : \E i \in 1 .. n : s[i] = x
        BY <1>2 DEF Range
      <3> QED
        BY <1>2, <3>1, <3>2 DEF Bijection, Injection, Surjection, InOrder, IsInjective
    <2>3. Cardinality(Range(s)) = n
      BY <1>1, <2>2, FS_CountingElements DEF ExistsBijection
    <2> QED
      BY <2>1, <2>3, FS_Subset
  <1> QED
    BY <1>1, <1>2, <1>3, <1>4 DEF s, InOrder

\* A list of lists, one after another.
LEMMA FlattenParts ==
  ASSUME NEW T, NEW s \in Seq(Seq(T))
  PROVE  /\ FlattenSeq(s) \in Seq(T)
         /\ \A x : x \in Range(FlattenSeq(s)) <=> \E i \in DOMAIN s : x \in Range(s[i])
  <1>1. Len(s) \in Nat /\ DOMAIN s = 1 .. Len(s) /\ \A i \in 1 .. Len(s) : s[i] \in Seq(T)
    OBVIOUS
  <1>2. CASE Len(s) = 0
    <2>1. FlattenSeq(s) = s /\ DOMAIN s = {} /\ s = <<>>
      BY <1>1, <1>2 DEF FlattenSeq
    <2> QED
      BY <2>1 DEF Range
  <1>3. CASE Len(s) # 0
    <2>1. PICK f : /\ f = [i \in 1 .. Len(s) |-> Glued(s, f, i)]
                   /\ FlattenSeq(s) = f[Len(s)]
      BY <1>1, <1>3, FlattenDef
    <2> DEFINE Holds(x, m) == \E i \in 1 .. m : x \in Range(s[i])
               Right(m) == f[m] \in Seq(T) /\ \A x : x \in Range(f[m]) <=> Holds(x, m)
               Good == {m \in Nat : m \in 1 .. Len(s) => Right(m)}
    <2>2. 0 \in Good
      OBVIOUS
    <2>3. ASSUME NEW m \in Nat, m \in Good
          PROVE  m + 1 \in Good
      <3> SUFFICES ASSUME m + 1 \in 1 .. Len(s) PROVE Right(m + 1)
        OBVIOUS
      <3> DEFINE n == m + 1
      <3>1. n \in 1 .. Len(s) /\ f[n] = Glued(s, f, n) /\ s[n] \in Seq(T)
        BY <1>1, <2>1
      <3>2. CASE n = 1
        <4>1. f[n] = s[n]
          BY <3>1, <3>2 DEF Glued
        <4>2. 1 .. n = {1}
          BY <3>2
        <4>3. \A x : Holds(x, n) <=> x \in Range(s[n])
          BY <3>2, <4>2
        <4> QED
          BY <3>1, <4>1, <4>3
      <3>3. CASE n # 1
        <4>1. m \in 1 .. Len(s) /\ n - 1 = m
          BY <1>1, <3>3
        <4>2. Right(m)
          BY <2>3, <4>1
        <4>3. f[n] = f[m] \o s[n]
          BY <3>1, <3>3, <4>1 DEF Glued
        <4>4. f[n] \in Seq(T) /\ Range(f[n]) = Range(f[m]) \cup Range(s[n])
          <5>1. f[m] \in Seq(T)
            BY <4>2
          <5>2. Range(f[m] \o s[n]) = Range(f[m]) \cup Range(s[n])
            BY <3>1, <5>1, RangeConcatenation
          <5>3. f[m] \o s[n] \in Seq(T)
            BY <3>1, <5>1
          <5> QED
            BY <4>3, <5>2, <5>3
        <4>5. \A x : Holds(x, n) <=> Holds(x, m) \/ x \in Range(s[n])
          <5>1. 1 .. n = 1 .. m \cup {n}
            OBVIOUS
          <5> QED
            BY <5>1
        <4>6. \A x : x \in Range(f[n]) <=> Holds(x, n)
          <5> HIDE DEF Holds, n
          <5> QED
            BY <4>2, <4>4, <4>5
        <4> QED
          BY <4>4, <4>6
      <3> QED
        BY <3>2, <3>3
    <2>4. Nat \subseteq Good
      <3> HIDE DEF Good
      <3> QED
        BY <2>2, <2>3, InductionOnSet
    <2>5. Right(Len(s))
      <3>1. Len(s) \in 1 .. Len(s)
        BY <1>1, <1>3
      <3>2. Len(s) \in Good
        BY <1>1, <2>4
      <3> HIDE DEF Right
      <3> QED
        BY <3>1, <3>2
    <2> QED
      BY <1>1, <2>1, <2>5
  <1> QED
    BY <1>2, <1>3

\* What Each makes of the rows of each declaration.
LEMMA EachParts ==
  ASSUME NEW T, NEW f, IsFiniteSet(DOMAIN f),
         \A d \in DOMAIN f : d.name \in Nat /\ f[d] \in Seq(T)
  PROVE  /\ Each(f) \in Seq(T)
         /\ \A x : x \in Range(Each(f)) <=> \E d \in DOMAIN f : x \in Range(f[d])
  <1> DEFINE key == [d \in DOMAIN f |-> d.name]
             s == Sorted(key)
             lists == [i \in DOMAIN s |-> f[s[i]]]
  <1>1. DOMAIN key = DOMAIN f /\ \A d \in DOMAIN key : key[d] \in Nat
    OBVIOUS
  <1> HIDE DEF key
  <1>2. s \in Seq(DOMAIN f) /\ Len(s) \in Nat /\ DOMAIN s = 1 .. Len(s) /\ Range(s) = DOMAIN f
    BY <1>1, SortedParts
  <1> HIDE DEF s
  <1>3. \A i \in DOMAIN s : s[i] \in DOMAIN f
    BY <1>2
  <1>4. lists \in Seq(Seq(T)) /\ DOMAIN lists = DOMAIN s
    <2>1. lists \in [1 .. Len(s) -> Seq(T)]
      BY <1>2, <1>3
    <2> QED
      BY <1>2, <2>1
  <1>5. \A x : (\E i \in DOMAIN lists : x \in Range(lists[i]))
               <=> \E d \in DOMAIN f : x \in Range(f[d])
    <2>1. \A i \in DOMAIN s : lists[i] = f[s[i]] /\ s[i] \in DOMAIN f
      BY <1>3
    <2>2. \A d \in DOMAIN f : \E i \in DOMAIN s : s[i] = d
      BY <1>2 DEF Range
    <2> HIDE DEF lists
    <2>3. ASSUME NEW x, NEW d \in DOMAIN f, x \in Range(f[d])
          PROVE  \E i \in DOMAIN lists : x \in Range(lists[i])
      BY <1>4, <2>1, <2>2, <2>3
    <2>4. ASSUME NEW x, NEW i \in DOMAIN lists, x \in Range(lists[i])
          PROVE  \E d \in DOMAIN f : x \in Range(f[d])
      BY <1>4, <2>1, <2>4
    <2> QED
      BY <2>3, <2>4
  <1>6. Each(f) = FlattenSeq(lists)
    BY DEF Each, s, key
  <1> HIDE DEF lists
  <1> QED
    BY <1>4, <1>5, <1>6, FlattenParts

\* Declarations of one name: a pair for each of their columns, and no other.
LEMMA TogetherParts ==
  ASSUME NEW V, NEW ds, IsFiniteSet(ds), ds # {}, \A d \in ds : Said(d) \in Seq(V)
  PROVE  /\ Together(ds) \in Seq(ds \X V)
         /\ \A p : p \in Range(Together(ds)) <=>
                     \E d \in ds : \E k \in DOMAIN Said(d) : p = <<d, Said(d)[k]>>
  <1> DEFINE key == [d \in ds |-> Len(Said(d))]
             s == Sorted(key)
             longest == DOMAIN Said(s[Len(s)])
             Long(k) == {d \in ds : Len(Said(d)) >= k}
             At(k) == Keep(s, Long(k))
             Pair(k, i) == <<At(k)[i], Said(At(k)[i])[k]>>
             Pairs(k) == [i \in DOMAIN At(k) |-> Pair(k, i)]
             lists == [k \in longest |-> Pairs(k)]
  <1>0. \A d \in ds : Len(Said(d)) \in Nat /\ DOMAIN Said(d) = 1 .. Len(Said(d))
    OBVIOUS
  <1>1. DOMAIN key = ds /\ \A d \in ds : key[d] = Len(Said(d)) /\ key[d] \in Nat
    BY <1>0
  <1> HIDE DEF key
  <1>2. /\ s \in Seq(ds) /\ Len(s) \in Nat /\ DOMAIN s = 1 .. Len(s) /\ Range(s) = ds
        /\ \A i, j \in DOMAIN s : i < j => key[s[i]] <= key[s[j]]
    BY <1>1, SortedParts
  <1> HIDE DEF s
  <1>3. \A d \in ds : \E i \in DOMAIN s : s[i] = d
    BY <1>2 DEF Range
  <1>4. Len(s) \in DOMAIN s /\ s[Len(s)] \in ds
    <2>1. DOMAIN s # {}
      BY <1>3
    <2> QED
      BY <1>2, <2>1
  <1>5. \A d \in ds : Len(Said(d)) <= Len(Said(s[Len(s)]))
    <2> SUFFICES ASSUME NEW d \in ds PROVE Len(Said(d)) <= Len(Said(s[Len(s)]))
      OBVIOUS
    <2>1. PICK i \in DOMAIN s : s[i] = d
      BY <1>3
    <2>2. i = Len(s) \/ i < Len(s)
      BY <1>2
    <2>3. key[d] <= key[s[Len(s)]]
      <3>1. key[d] \in Nat
        BY <1>1
      <3>2. CASE i = Len(s)
        BY <2>1, <3>1, <3>2
      <3>3. CASE i < Len(s)
        <4>1. key[s[i]] <= key[s[Len(s)]]
          BY <1>2, <1>4, <3>3
        <4> QED
          BY <2>1, <4>1
      <3> QED
        BY <2>2, <3>2, <3>3
    <2> QED
      BY <1>1, <1>4, <2>3
  <1>6. /\ longest = 1 .. Len(Said(s[Len(s)])) /\ Len(Said(s[Len(s)])) \in Nat
        /\ \A d \in ds : DOMAIN Said(d) \subseteq longest
    <2>1. Len(Said(s[Len(s)])) \in Nat /\ longest = 1 .. Len(Said(s[Len(s)]))
      BY <1>0, <1>4
    <2> QED
      BY <1>0, <1>5, <2>1
  <1> HIDE DEF longest
  <1>7. ASSUME NEW k \in longest
        PROVE  /\ At(k) \in Seq(ds) /\ Range(At(k)) = Long(k)
               /\ \A d \in Long(k) : k \in DOMAIN Said(d) /\ Said(d)[k] \in V
               /\ \A d \in ds : k \in DOMAIN Said(d) => d \in Long(k)
    <2>1. At(k) \in Seq(ds) /\ Range(At(k)) = ds \cap Long(k)
      BY <1>2, KeepType, KeepRange
    <2>2. k \in Nat /\ k >= 1
      BY <1>6
    <2>3. ASSUME NEW d \in Long(k) PROVE k \in DOMAIN Said(d) /\ Said(d)[k] \in V
      BY <1>0, <2>2
    <2>4. ASSUME NEW d \in ds, k \in DOMAIN Said(d) PROVE d \in Long(k)
      BY <1>0, <2>2, <2>4
    <2> QED
      BY <2>1, <2>3, <2>4
  <1> HIDE DEF At, Long
  <1>8. ASSUME NEW k \in longest
        PROVE  /\ Pairs(k) \in Seq(ds \X V)
               /\ \A p : p \in Range(Pairs(k)) <=>
                           \E d \in ds : k \in DOMAIN Said(d) /\ p = <<d, Said(d)[k]>>
    <2>1. /\ At(k) \in Seq(ds) /\ Range(At(k)) = Long(k)
          /\ \A i \in DOMAIN At(k) : At(k)[i] \in Long(k) /\ At(k)[i] \in ds
      BY <1>7 DEF Range
    <2>2. Len(At(k)) \in Nat /\ DOMAIN At(k) = 1 .. Len(At(k))
      BY <2>1
    <2>3. \A i \in DOMAIN At(k) : Pair(k, i) \in ds \X V
      BY <1>7, <2>1
    <2>4. Pairs(k) \in [1 .. Len(At(k)) -> ds \X V]
      BY <2>2, <2>3
    <2>5. Pairs(k) \in Seq(ds \X V)
      BY <2>2, <2>4
    <2>6. \A p : p \in Range(Pairs(k)) <=> \E i \in DOMAIN At(k) : p = Pair(k, i)
      BY DEF Range
    <2>7. \A d \in Long(k) : \E i \in DOMAIN At(k) : At(k)[i] = d
      BY <2>1 DEF Range
    <2>8. ASSUME NEW p, NEW i \in DOMAIN At(k), p = Pair(k, i)
          PROVE  \E d \in ds : k \in DOMAIN Said(d) /\ p = <<d, Said(d)[k]>>
      BY <1>7, <2>1, <2>8
    <2>9. ASSUME NEW p, NEW d \in ds, k \in DOMAIN Said(d), p = <<d, Said(d)[k]>>
          PROVE  \E i \in DOMAIN At(k) : p = Pair(k, i)
      BY <1>7, <2>7, <2>9
    <2> HIDE DEF Pairs, Pair
    <2> QED
      BY <2>5, <2>6, <2>8, <2>9
  <1> HIDE DEF Pairs
  <1>9. lists \in Seq(Seq(ds \X V)) /\ DOMAIN lists = longest
        /\ \A k \in longest : lists[k] = Pairs(k)
    <2>1. lists \in [1 .. Len(Said(s[Len(s)])) -> Seq(ds \X V)]
      BY <1>6, <1>8
    <2> QED
      BY <1>6, <2>1
  <1>10. Together(ds) = FlattenSeq(lists)
    BY DEF Together, longest, s, key, Pairs, Pair, At, Long
  <1> HIDE DEF lists
  <1>11. \A p : (\E k \in DOMAIN lists : p \in Range(lists[k]))
                <=> \E d \in ds : \E k \in DOMAIN Said(d) : p = <<d, Said(d)[k]>>
    BY <1>6, <1>8, <1>9
  <1> QED
    BY <1>9, <1>10, <1>11, FlattenParts

\* The columns of these declarations make rows of R.
RowsInto(into, V, R) ==
  /\ IsFiniteSet(DOMAIN into)
  /\ \A d \in DOMAIN into : d.name \in Nat /\ Said(d) \in Seq(V)
  /\ \A d \in DOMAIN into : \A v \in V : Row(into[d], d.name, <<v>>) \in R

\* The rows that a catalogue has of declarations, and no others.
LEMMA ColumnRowsParts ==
  ASSUME NEW V, NEW R, NEW into, RowsInto(into, V, R)
  PROVE  /\ ColumnRows(into) \in Seq(R)
         /\ \A r : r \in Range(ColumnRows(into)) <=>
                     \E d \in DOMAIN into : \E k \in DOMAIN Said(d) :
                       r = Row(into[d], d.name, <<Said(d)[k]>>)
  <1> DEFINE D == DOMAIN into
             N == {d.name : d \in D}
             key == [n \in N |-> n]
             names == Sorted(key)
             Named1(n) == {d \in D : d.name = n}
             pairs(n) == Together(Named1(n))
             RowsOf(n) == [k \in DOMAIN pairs(n) |-> Row(into[pairs(n)[k][1]], n, <<pairs(n)[k][2]>>)]
             lists == [i \in DOMAIN names |-> RowsOf(names[i])]
             From(r, n) == \E d \in D : \E k \in DOMAIN Said(d) :
                             d.name = n /\ r = Row(into[d], n, <<Said(d)[k]>>)
             Origin(r) == \E d \in D : \E k \in DOMAIN Said(d) :
                            r = Row(into[d], d.name, <<Said(d)[k]>>)
  <1>0. /\ IsFiniteSet(DOMAIN into)
        /\ \A d \in DOMAIN into : d.name \in Nat /\ Said(d) \in Seq(V)
        /\ \A d \in DOMAIN into : \A v \in V : Row(into[d], d.name, <<v>>) \in R
    BY DEF RowsInto
  <1>1. IsFiniteSet(N) /\ DOMAIN key = N /\ \A n \in N : key[n] \in Nat
    <2>1. IsFiniteSet(N)
      <3> DEFINE f == [d \in D |-> d.name]
      <3>1. f \in Surjection(D, N)
        BY DEF Surjection
      <3> QED
        BY <1>0, <3>1, FS_Surjection
    <2> QED
      BY <1>0, <2>1
  <1> HIDE DEF key
  <1>2. names \in Seq(N) /\ Len(names) \in Nat /\ DOMAIN names = 1 .. Len(names) /\ Range(names) = N
    BY <1>1, SortedParts
  <1> HIDE DEF names
  <1>3. ASSUME NEW n \in N
        PROVE  /\ RowsOf(n) \in Seq(R)
               /\ \A r : r \in Range(RowsOf(n)) <=> From(r, n)
    <2>1. IsFiniteSet(Named1(n)) /\ Named1(n) # {} /\ \A d \in Named1(n) : Said(d) \in Seq(V)
      <3>1. Named1(n) \in SUBSET D
        OBVIOUS
      <3> QED
        BY <1>0, <3>1, FS_Subset
    <2>2. /\ pairs(n) \in Seq(Named1(n) \X V)
          /\ \A p : p \in Range(pairs(n)) <=>
                      \E d \in Named1(n) : \E k \in DOMAIN Said(d) : p = <<d, Said(d)[k]>>
      <3> HIDE DEF Named1
      <3> QED
        BY <2>1, TogetherParts
    <2> DEFINE p == pairs(n)
    <2>3. p \in Seq(Named1(n) \X V) /\ Len(p) \in Nat /\ DOMAIN p = 1 .. Len(p)
      BY <2>2
    <2> HIDE DEF pairs
    <2>4. \A k \in DOMAIN p : p[k] \in Named1(n) \X V
      BY <2>3
    <2>5. \A k \in DOMAIN p : p[k][1] \in D /\ p[k][1].name = n /\ p[k][2] \in V
      BY <2>4
    <2>6. RowsOf(n) \in [1 .. Len(p) -> R]
      BY <1>0, <2>3, <2>5
    <2>7. RowsOf(n) \in Seq(R)
      BY <2>3, <2>6
    <2>8. \A r : r \in Range(RowsOf(n)) <=>
                   \E k \in DOMAIN p : r = Row(into[p[k][1]], n, <<p[k][2]>>)
      BY DEF Range
    <2>9. ASSUME NEW r, NEW k \in DOMAIN p, r = Row(into[p[k][1]], n, <<p[k][2]>>)
          PROVE  From(r, n)
      <3>1. p[k] \in Range(p)
        BY DEF Range
      <3>2. PICK d \in Named1(n) : \E j \in DOMAIN Said(d) : p[k] = <<d, Said(d)[j]>>
        BY <2>2, <3>1
      <3>3. PICK j \in DOMAIN Said(d) : p[k] = <<d, Said(d)[j]>>
        BY <3>2
      <3>4. d \in D /\ d.name = n /\ p[k][1] = d /\ p[k][2] = Said(d)[j]
        BY <3>3
      <3>5. r = Row(into[d], n, <<Said(d)[j]>>)
        BY <2>9, <3>4
      <3> HIDE DEF p
      <3> QED
        BY <3>4, <3>5
    <2> DEFINE Stands(r) == \E k \in DOMAIN p : r = Row(into[p[k][1]], n, <<p[k][2]>>)
    <2>10. ASSUME NEW r, From(r, n)
           PROVE  Stands(r)
      <3>0. PICK d \in D : \E j \in DOMAIN Said(d) : d.name = n /\ r = Row(into[d], n, <<Said(d)[j]>>)
        BY <2>10
      <3>a. PICK j \in DOMAIN Said(d) : d.name = n /\ r = Row(into[d], n, <<Said(d)[j]>>)
        BY <3>0
      <3>1. <<d, Said(d)[j]>> \in Range(p)
        BY <2>2, <3>a
      <3>2. PICK k \in DOMAIN p : p[k] = <<d, Said(d)[j]>>
        BY <3>1 DEF Range
      <3> QED
        BY <3>a, <3>2
    <2>11. ASSUME NEW r, Stands(r) PROVE From(r, n)
      <3> HIDE DEF From
      <3> QED
        BY <2>9, <2>11
    <2>12. \A r : r \in Range(RowsOf(n)) <=> Stands(r)
      BY <2>8
    <2> HIDE DEF RowsOf, p, From, Stands
    <2> QED
      BY <2>7, <2>10, <2>11, <2>12
  <1>4. ColumnRows(into) = FlattenSeq(lists)
    BY DEF ColumnRows, lists, names, key
  <1> HIDE DEF RowsOf
  <1>5. /\ lists \in Seq(Seq(R)) /\ DOMAIN lists = DOMAIN names
        /\ \A i \in DOMAIN names : lists[i] = RowsOf(names[i]) /\ names[i] \in N
    <2>1. \A i \in DOMAIN names : names[i] \in N
      BY <1>2
    <2>2. lists \in [1 .. Len(names) -> Seq(R)]
      BY <1>2, <1>3, <2>1
    <2> QED
      BY <1>2, <2>1, <2>2
  <1>6. \A d \in D : \E i \in DOMAIN names : names[i] = d.name
    BY <1>2 DEF Range
  <1> HIDE DEF lists
  <1>7. ASSUME NEW r, NEW i \in DOMAIN lists, r \in Range(lists[i])
        PROVE  Origin(r)
    <2>1. i \in DOMAIN names /\ names[i] \in N /\ r \in Range(RowsOf(names[i]))
      BY <1>5, <1>7
    <2>2. From(r, names[i])
      <3> HIDE DEF From
      <3> QED
        BY <1>3, <2>1
    <2> QED
      BY <2>2
  <1>8. ASSUME NEW r, Origin(r)
        PROVE  \E i \in DOMAIN lists : r \in Range(lists[i])
    <2>1. PICK d \in D : \E k \in DOMAIN Said(d) : r = Row(into[d], d.name, <<Said(d)[k]>>)
      BY <1>8
    <2>2. From(r, d.name) /\ d.name \in N
      BY <2>1
    <2>3. PICK i \in DOMAIN names : names[i] = d.name
      BY <1>6
    <2> HIDE DEF From
    <2> QED
      BY <1>3, <1>5, <2>2, <2>3
  <1>9. /\ FlattenSeq(lists) \in Seq(R)
        /\ \A r : r \in Range(FlattenSeq(lists)) <=> \E i \in DOMAIN lists : r \in Range(lists[i])
    BY <1>5, FlattenParts
  <1>10. \A r : r \in Range(FlattenSeq(lists)) <=> Origin(r)
    <2> HIDE DEF Origin
    <2> QED
      BY <1>7, <1>8, <1>9
  <1> QED
    BY <1>4, <1>9, <1>10

-----------------------------------------------------------------------------
(* The answers of the catalogue. *)

LEMMA Declaration ==
  ASSUME NEW d \in Declarations
  PROVE  /\ d.name \in Nat /\ d.name \in Names /\ d.kind \in Kinds
         /\ Said(d) \in Seq(Values)
         /\ \A k \in DOMAIN Said(d) :
              Said(d)[k] = Null => d.kind \in {"index", "trigger"} /\ Null \in Range(d.columns)
         /\ d.kind # "check" => Said(d) = d.columns
         /\ d.included \in Seq(Values) /\ d.partition \in Seq(Values \ {Null})
         /\ d.toColumns \in Seq(Values \ {Null})
         /\ d.to \in Targeted /\ <<Schema, d.to[2]>> \in Targeted
  <1>1. /\ d.name \in Nat /\ d.kind \in Kinds
        /\ d.columns \in Seq(Range(TableColumns) \cup Events \cup {Null})
        /\ d.included \in Seq(Range(TableColumns)) /\ d.partition \in Seq(Range(TableColumns))
        /\ d.table # Null
        /\ Null \in Range(d.columns) => d.kind \in {"index", "trigger"}
        /\ d.toColumns \in Seq(Range(d.toColumns)) /\ Null \notin Range(d.toColumns)
        /\ Null \notin Range(TableColumns)
    <2>1. \A A, B : A \subseteq B => Seq(A) \subseteq Seq(B)
      OBVIOUS
    <2> DEFINE Own == (IF d.kind = "trigger" THEN Events ELSE Range(TableColumns)) \cup {Null}
    <2>2. Own \subseteq Range(TableColumns) \cup Events \cup {Null}
      OBVIOUS
    <2>3. d.columns \in Seq(Own)
      BY ConstantsOK
    <2> HIDE DEF Own
    <2>4. d.columns \in Seq(Range(TableColumns) \cup Events \cup {Null})
      BY <2>1, <2>2, <2>3
    <2> QED
      BY <2>4, ConstantsOK
  <1>2. /\ Range(TableColumns) \subseteq Values /\ Range(TableColumns) \subseteq Values \ {Null}
        /\ Range(TableColumns) \cup Events \cup {Null} \subseteq Values
        /\ Range(d.toColumns) \subseteq Values \ {Null} /\ d.table \in Values
    BY <1>1 DEF Values
  <1>3. /\ d.columns \in Seq(Values) /\ d.included \in Seq(Values)
        /\ d.partition \in Seq(Values \ {Null}) /\ d.toColumns \in Seq(Values \ {Null})
    <2>1. \A A, B : A \subseteq B => Seq(A) \subseteq Seq(B)
      OBVIOUS
    <2> QED
      BY <1>1, <1>2, <2>1
  <1>4. <<d.table>> \in Seq(Values) /\ DOMAIN <<d.table>> = {1}
    BY <1>2
  <1>5. Said(d) \in Seq(Values)
    BY <1>3, <1>4 DEF Said
  <1>6. ASSUME NEW k \in DOMAIN Said(d), Said(d)[k] = Null
        PROVE  d.kind \in {"index", "trigger"} /\ Null \in Range(d.columns)
    <2>1. d.kind # "check"
      BY <1>1, <1>4, <1>6 DEF Said
    <2>2. Null \in Range(d.columns)
      BY <1>6, <2>1 DEF Said, Range
    <2> QED
      BY <1>1, <2>2
  <1>7. d.to \in Targeted /\ <<Schema, d.to[2]>> \in Targeted /\ d.name \in Names
    BY DEF Targeted, Names
  <1> QED
    BY <1>1, <1>3, <1>5, <1>6, <1>7 DEF Said

\* A row that Row makes, of columns that are no NULL or are known to be shown.
LEMMA RowSound ==
  ASSUME NEW d \in Declarations, NEW into \in Kinds, NEW columns \in Seq(Values),
         into = "pk" => d.name \in KeyNames,
         Null \in Range(columns) => Nulls
  PROVE  Sound(Row(into, d.name, columns))
  <1> DEFINE r == Row(into, d.name, columns)
  <1>1. /\ r.into = into /\ r.name = d.name /\ r.columns = columns
        /\ r.included = <<>> /\ r.to = Null /\ r.toColumns = <<>>
        /\ r = [into |-> into, name |-> d.name, columns |-> columns, included |-> <<>>,
                to |-> Null, toColumns |-> <<>>]
    BY DEF Row
  <1>2. <<>> \in Seq(Values) /\ Range(<<>>) = {}
    BY EmptyDomain DEF Range
  <1>3. d.name \in Names /\ Null \in Targeted
    BY DEF Names, Targeted
  <1>4. r \in RowSet
    BY <1>1, <1>2, <1>3 DEF RowSet
  <1>5. into # "target"
    BY DEF Kinds
  <1>6. Unreadable(r) => Nulls
    BY <1>1, <1>2, <1>5 DEF Unreadable
  <1> HIDE DEF r
  <1> QED
    BY <1>1, <1>4, <1>6 DEF Sound, r

\* What is sound of the rows of each declaration is sound of all.
LEMMA EachSound ==
  ASSUME DeclaredOK, NEW f, DOMAIN f \subseteq declared,
         \A d \in DOMAIN f : f[d] \in Seq(RowSet) /\ \A r \in Range(f[d]) : Sound(r)
  PROVE  /\ Each(f) \in Seq(RowSet)
         /\ \A r \in Range(Each(f)) : Sound(r)
         /\ \A d \in DOMAIN f : Range(f[d]) \subseteq Range(Each(f))
         /\ \A r \in Range(Each(f)) : \E d \in DOMAIN f : r \in Range(f[d])
  <1>1. IsFiniteSet(DOMAIN f)
    <2>1. DOMAIN f \in SUBSET declared
      OBVIOUS
    <2> QED
      BY <2>1, FS_Subset DEF DeclaredOK
  <1>2. \A d \in DOMAIN f : d.name \in Nat /\ f[d] \in Seq(RowSet)
    BY Declaration DEF DeclaredOK
  <1>3. /\ Each(f) \in Seq(RowSet)
        /\ \A x : x \in Range(Each(f)) <=> \E d \in DOMAIN f : x \in Range(f[d])
    BY <1>1, <1>2, EachParts
  <1> QED
    BY <1>3

LEMMA ColumnRowsSound ==
  ASSUME DeclaredOK, NEW into, DOMAIN into \subseteq declared,
         \A d \in DOMAIN into : /\ d.table = t /\ into[d] \in Kinds
                                /\ into[d] = "pk" => d.name \in KeyNames
  PROVE  /\ ColumnRows(into) \in Seq(RowSet)
         /\ \A r \in Range(ColumnRows(into)) : Sound(r)
         /\ \A d \in DOMAIN into : d.kind # "check" /\ Null \in Range(d.columns) =>
              \E r \in Range(ColumnRows(into)) : Unreadable(r)
  <1>1. IsFiniteSet(DOMAIN into)
    <2>1. DOMAIN into \in SUBSET declared
      OBVIOUS
    <2> QED
      BY <2>1, FS_Subset DEF DeclaredOK
  <1>2. \A d \in DOMAIN into : d \in Declarations /\ d.name \in Nat /\ Said(d) \in Seq(Values)
    BY Declaration DEF DeclaredOK
  <1>3. \A d \in DOMAIN into : \A v \in Values : Row(into[d], d.name, <<v>>) \in RowSet
    <2> SUFFICES ASSUME NEW d \in DOMAIN into, NEW v \in Values
                 PROVE  Row(into[d], d.name, <<v>>) \in RowSet
      OBVIOUS
    <2>1. d.name \in Names /\ Null \in Targeted /\ <<v>> \in Seq(Values) /\ <<>> \in Seq(Values)
      BY <1>2 DEF Names, Targeted
    <2> QED
      BY <2>1 DEF Row, RowSet
  <1>4. /\ ColumnRows(into) \in Seq(RowSet)
        /\ \A r : r \in Range(ColumnRows(into)) <=>
                    \E d \in DOMAIN into : \E k \in DOMAIN Said(d) :
                      r = Row(into[d], d.name, <<Said(d)[k]>>)
    <2>1. \A d \in DOMAIN into : d.name \in Nat /\ Said(d) \in Seq(Values)
      BY <1>2
    <2>2. RowsInto(into, Values, RowSet)
      BY <1>1, <1>3, <2>1 DEF RowsInto
    <2> QED
      BY <2>2, ColumnRowsParts
  <1>5. ASSUME NEW d \in DOMAIN into, NEW k \in DOMAIN Said(d)
        PROVE  Sound(Row(into[d], d.name, <<Said(d)[k]>>))
    <2>1. Said(d)[k] \in Values /\ <<Said(d)[k]>> \in Seq(Values)
          /\ Range(<<Said(d)[k]>>) = {Said(d)[k]}
      <3>1. Said(d)[k] \in Values
        BY <1>2
      <3> QED
        BY <3>1 DEF Range
    <2>2. Said(d)[k] = Null => Nulls
      BY <1>2, Declaration DEF Nulls, Of, DeclaredOK
    <2> QED
      BY <1>2, <2>1, <2>2, RowSound
  <1>6. ASSUME NEW d \in DOMAIN into, d.kind # "check", Null \in Range(d.columns)
        PROVE  \E r \in Range(ColumnRows(into)) : Unreadable(r)
    <2>1. Said(d) = d.columns
      BY <1>2, <1>6, Declaration
    <2>2. PICK k \in DOMAIN Said(d) : Said(d)[k] = Null
      BY <1>6, <2>1 DEF Range
    <2>3. Row(into[d], d.name, <<Said(d)[k]>>) \in Range(ColumnRows(into))
      BY <1>4
    <2>4. Unreadable(Row(into[d], d.name, <<Said(d)[k]>>))
      <3>1. Row(into[d], d.name, <<Said(d)[k]>>).columns = <<Null>>
        BY <2>2 DEF Row
      <3>2. Null \in Range(<<Null>>)
        BY DEF Range
      <3> QED
        BY <3>1, <3>2 DEF Unreadable
    <2> QED
      BY <2>3, <2>4
  <1>7. ASSUME NEW r \in Range(ColumnRows(into)) PROVE Sound(r)
    <2>1. \E d \in DOMAIN into : \E k \in DOMAIN Said(d) : r = Row(into[d], d.name, <<Said(d)[k]>>)
      BY <1>4
    <2> QED
      BY <1>5, <2>1
  <1>8. ColumnRows(into) \in Seq(RowSet)
    BY <1>4
  <1> QED
    BY <1>6, <1>7, <1>8

SoundList(s) == s \in Seq(RowSet) /\ \A r \in Range(s) : Sound(r)

LEMMA OneRow ==
  ASSUME NEW r, Sound(r)
  PROVE  SoundList(<<r>>) /\ Range(<<r>>) = {r}
  BY DEF SoundList, Sound, Range

LEMMA NoRow == SoundList(<<>>)
  BY EmptyDomain DEF SoundList, Range

LEMMA RowsByNumber ==
  ASSUME NEW n \in Nat, NEW s, DOMAIN s = 1 .. n, s = [i \in 1 .. n |-> s[i]],
         \A i \in 1 .. n : Sound(s[i])
  PROVE  SoundList(s)
  <1>1. s \in [1 .. n -> RowSet]
    BY DEF Sound
  <1> QED
    BY <1>1 DEF SoundList, Range

LEMMA RowsJoined ==
  ASSUME NEW s, NEW u, SoundList(s), SoundList(u)
  PROVE  SoundList(s \o u) /\ Range(s) \subseteq Range(s \o u) /\ Range(u) \subseteq Range(s \o u)
  <1>1. s \in Seq(RowSet) /\ u \in Seq(RowSet) /\ s \o u \in Seq(RowSet)
    BY DEF SoundList
  <1>2. Range(s \o u) = Range(s) \cup Range(u)
    BY <1>1, RangeConcatenation
  <1> QED
    BY <1>1, <1>2 DEF SoundList

LEMMA OfParts ==
  ASSUME DeclaredOK, NEW kinds, NEW d \in Of(kinds)
  PROVE  /\ d \in declared /\ d \in Declarations /\ d.table = t /\ d.kind \in kinds
         /\ d.kind = "pk" => d.name \in KeyNames
  BY DEF Of, DeclaredOK, KeyNames

\* The one row of a declaration that the database aggregates.
WholeRow(kind, d) ==
  [Row(kind, d.name, Said(d)) EXCEPT !.included = d.included, !.to = d.to, !.toColumns = d.toColumns]

LEMMA WholeRowParts ==
  ASSUME DeclaredOK, NEW kind \in Kinds,
         NEW d \in Of(IF kind = "index" THEN {"index", "unique"} ELSE {kind})
  PROVE  LET r == WholeRow(kind, d)
         IN  /\ r.into = kind /\ r.name = d.name /\ r.columns = Said(d)
             /\ r.included = d.included /\ r.to = d.to /\ r.toColumns = d.toColumns
             /\ Sound(r)
  <1> DEFINE r == WholeRow(kind, d)
             base == [into |-> kind, name |-> d.name, columns |-> Said(d),
                      included |-> <<>>, to |-> Null, toColumns |-> <<>>]
  <1>1. d \in Declarations /\ d.kind \in {"index", "unique", kind} /\ d.table = t /\ d \in declared
        /\ (kind = "pk" => d.name \in KeyNames)
    BY OfParts
  <1>2. r = [base EXCEPT !.included = d.included, !.to = d.to, !.toColumns = d.toColumns]
    BY DEF Row, WholeRow
  <1> HIDE DEF r
  <1>3. /\ r.into = kind /\ r.name = d.name /\ r.columns = Said(d)
        /\ r.included = d.included /\ r.to = d.to /\ r.toColumns = d.toColumns
    BY <1>2
  <1>4. r \in RowSet
    <2>1. d.toColumns \in Seq(Values)
      <3>1. Seq(Values \ {Null}) \subseteq Seq(Values)
        OBVIOUS
      <3>2. d.toColumns \in Seq(Values \ {Null})
        BY <1>1, Declaration
      <3> QED
        BY <3>1, <3>2
    <2>2. /\ d.name \in Names /\ Said(d) \in Seq(Values) /\ d.included \in Seq(Values)
          /\ d.to \in Targeted /\ kind \in Kinds \cup {"target"}
      BY <1>1, Declaration
    <2> QED
      BY <1>2, <2>1, <2>2 DEF RowSet
  <1>5. Unreadable(r) => Nulls
    <2>1. Null \notin Range(d.toColumns) /\ kind # "target"
      BY <1>1, ConstantsOK DEF Kinds
    <2>2. Null \in Range(Said(d)) => Nulls
      BY <1>1, Declaration DEF Nulls, Of, Range
    <2> QED
      BY <1>3, <2>1, <2>2 DEF Unreadable
  <1>6. Sound(r)
    BY <1>1, <1>3, <1>4, <1>5 DEF Sound
  <1> QED
    BY <1>3, <1>6 DEF r

LEMMA WholeRowsSound ==
  ASSUME DeclaredOK, NEW kind \in Kinds
  PROVE  /\ SoundList(WholeRows(kind))
         /\ \A r \in Range(WholeRows(kind)) : r.into = kind
  <1> DEFINE D == Of(IF kind = "index" THEN {"index", "unique"} ELSE {kind})
             f == [d \in D |-> <<WholeRow(kind, d)>>]
  <1>1. ASSUME NEW d \in D
        PROVE  SoundList(f[d]) /\ Range(f[d]) = {WholeRow(kind, d)} /\ WholeRow(kind, d).into = kind
    <2>1. Sound(WholeRow(kind, d)) /\ WholeRow(kind, d).into = kind
      BY WholeRowParts
    <2> QED
      BY <2>1, OneRow
  <1>2. WholeRows(kind) = Each(f)
    BY DEF WholeRows, WholeRow
  <1>3. DOMAIN f = D /\ D \subseteq declared
    BY DEF Of
  <1> HIDE DEF f, D
  <1>4. \A d \in DOMAIN f : f[d] \in Seq(RowSet) /\ \A r \in Range(f[d]) : Sound(r)
    BY <1>1, <1>3 DEF SoundList
  <1> QED
    BY <1>1, <1>2, <1>3, <1>4, EachSound DEF SoundList

KeyList(d) ==
  LET columns == Keep(TableColumns, Range(d.columns))
  IN [k \in DOMAIN columns |-> Row("pk", d.name, <<columns[k]>>)]

LEMMA KeyColumnsSound ==
  ASSUME DeclaredOK
  PROVE  /\ SoundList(KeyColumns)
         /\ \A d \in Of({"pk"}) : SoundList(KeyList(d))
  <1> DEFINE columns(d) == Keep(TableColumns, Range(d.columns))
             list(d) == [k \in DOMAIN columns(d) |-> Row("pk", d.name, <<columns(d)[k]>>)]
             f == [d \in Of({"pk"}) |-> list(d)]
  <1>1. ASSUME NEW d \in Of({"pk"}) PROVE SoundList(list(d))
    <2>1. d \in Declarations /\ d.name \in KeyNames
      BY OfParts
    <2> DEFINE c == columns(d)
    <2>2. c \in Seq(Range(TableColumns)) /\ Len(c) \in Nat /\ DOMAIN c = 1 .. Len(c)
      <3>1. c \in Seq(Range(TableColumns))
        BY ConstantsOK, KeepType
      <3> QED
        BY <3>1
    <2> HIDE DEF c, columns
    <2>3. ASSUME NEW k \in DOMAIN c PROVE Sound(Row("pk", d.name, <<c[k]>>))
      <3>1. c[k] \in Range(TableColumns)
        BY <2>2
      <3>2. c[k] \in Values /\ c[k] # Null
        BY <3>1, ConstantsOK DEF Values
      <3>3. <<c[k]>> \in Seq(Values) /\ Range(<<c[k]>>) = {c[k]}
        BY <3>2 DEF Range
      <3> QED
        BY <2>1, <3>2, <3>3, RowSound DEF Kinds
    <2> QED
      BY <2>2, <2>3, RowsByNumber DEF c
  <1>2. KeyColumns = Each(f)
    BY DEF KeyColumns
  <1>3. DOMAIN f = Of({"pk"}) /\ Of({"pk"}) \subseteq declared
    BY DEF Of
  <1>4. \A d \in DOMAIN f : f[d] \in Seq(RowSet) /\ \A r \in Range(f[d]) : Sound(r)
    BY <1>1, <1>3 DEF SoundList
  <1>5. \A d \in Of({"pk"}) : SoundList(KeyList(d))
    BY <1>1 DEF KeyList
  <1> HIDE DEF f
  <1> QED
    BY <1>2, <1>3, <1>4, <1>5, EachSound DEF SoundList

\* The row for the columns at k of a foreign key.
PairRow(d, k) ==
  [Row("fk", d.name, <<d.columns[k]>>) EXCEPT
     !.to = IF adapter = "mssql" THEN d.to ELSE <<Schema, d.to[2]>>,
     !.toColumns = <<IF d.toColumns = <<>> THEN Null ELSE d.toColumns[k]>>]

PairList(d) == [k \in DOMAIN d.columns |-> PairRow(d, k)]

LEMMA ForeignKey ==
  ASSUME DeclaredOK, NEW d \in Of({"fk"})
  PROVE  /\ d \in Declarations /\ d \in declared /\ d.kind = "fk" /\ d.to # Null
         /\ d.columns \in Seq(Values) /\ d.columns # <<>>
         /\ Len(d.columns) \in Nat /\ Len(d.columns) # 0
         /\ DOMAIN d.columns = 1 .. Len(d.columns)
         /\ Null \notin Range(d.columns)
         /\ d.toColumns # <<>> => DOMAIN d.toColumns = DOMAIN d.columns
  <1>1. d \in Declarations /\ d \in declared /\ d.kind = "fk"
    BY OfParts
  <1>2. /\ d.columns \in Seq(Values) /\ d.columns # <<>> /\ d.to # Null
        /\ Null \notin Range(d.columns) /\ d.toColumns \in Seq(Values \ {Null})
    BY <1>1, Declaration, ConstantsOK
  <1>3. Len(d.toColumns) \in {0, Len(d.columns)}
    BY <1>1, ConstantsOK
  <1> QED
    BY <1>1, <1>2, <1>3

LEMMA PairRowParts ==
  ASSUME DeclaredOK, NEW d \in Of({"fk"}), NEW k \in DOMAIN d.columns
  PROVE  LET r == PairRow(d, k)
         IN  /\ r.into = "fk" /\ r.name = d.name /\ r.columns = <<d.columns[k]>> /\ r.included = <<>>
             /\ r.to = IF adapter = "mssql" THEN d.to ELSE <<Schema, d.to[2]>>
             /\ r.toColumns = <<IF d.toColumns = <<>> THEN Null ELSE d.toColumns[k]>>
             /\ Sound(r)
  <1> DEFINE r == PairRow(d, k)
             to == IF adapter = "mssql" THEN d.to ELSE <<Schema, d.to[2]>>
             second == IF d.toColumns = <<>> THEN Null ELSE d.toColumns[k]
             base == [into |-> "fk", name |-> d.name, columns |-> <<d.columns[k]>>,
                      included |-> <<>>, to |-> Null, toColumns |-> <<>>]
  <1>0. /\ d \in Declarations /\ d.kind = "fk" /\ d.columns \in Seq(Values) /\ Null \notin Range(d.columns)
        /\ d.toColumns # <<>> => k \in DOMAIN d.toColumns
    BY ForeignKey
  <1>1. r = [base EXCEPT !.to = to, !.toColumns = <<second>>]
    BY DEF Row, PairRow
  <1>2. d.columns[k] \in Values /\ d.columns[k] # Null
    BY <1>0 DEF Range
  <1>3. to \in Targeted
    BY <1>0, Declaration
  <1>4. second \in Values /\ (second = Null => Nulls)
    <2>1. CASE d.toColumns = <<>>
      BY <2>1 DEF Nulls, Values
    <2>2. CASE d.toColumns # <<>>
      <3>1. d.toColumns \in Seq(Values \ {Null})
        BY <1>0, Declaration
      <3>2. d.toColumns[k] \in Values \ {Null}
        BY <1>0, <2>2, <3>1
      <3> QED
        BY <2>2, <3>2
    <2> QED
      BY <2>1, <2>2
  <1>5. d.name \in Names
    BY <1>0, Declaration
  <1> HIDE DEF r, to, second
  <1>6. /\ r.into = "fk" /\ r.name = d.name /\ r.columns = <<d.columns[k]>> /\ r.included = <<>>
        /\ r.to = to /\ r.toColumns = <<second>>
    BY <1>1
  <1>7. r \in RowSet
    <2>1. /\ <<d.columns[k]>> \in Seq(Values) /\ <<second>> \in Seq(Values)
          /\ <<>> \in Seq(Values) /\ "fk" \in Kinds \cup {"target"}
      BY <1>2, <1>4 DEF Kinds
    <2> QED
      BY <1>1, <1>3, <1>5, <2>1 DEF RowSet
  <1>8. Range(<<d.columns[k]>>) = {d.columns[k]} /\ Range(<<second>>) = {second}
    BY DEF Range
  <1>9. Unreadable(r) => Nulls
    BY <1>2, <1>4, <1>6, <1>8 DEF Unreadable
  <1>10. Sound(r)
    BY <1>6, <1>7, <1>9 DEF Sound
  <1> QED
    BY <1>6, <1>10 DEF r, to, second

LEMMA PairRowsSound ==
  ASSUME DeclaredOK
  PROVE  /\ SoundList(PairRows)
         /\ \A d \in Of({"fk"}) : d.toColumns = <<>> =>
              \E r \in Range(PairRows) : Unreadable(r)
         /\ \A d \in Of({"fk"}) : SoundList(PairList(d))
         /\ PairRows = Each([d \in Of({"fk"}) |-> PairList(d)])
  <1> DEFINE f == [d \in Of({"fk"}) |-> PairList(d)]
  <1>1. ASSUME NEW d \in Of({"fk"}) PROVE SoundList(PairList(d))
    <2>1. Len(d.columns) \in Nat /\ DOMAIN d.columns = 1 .. Len(d.columns)
      BY ForeignKey
    <2>2. \A k \in DOMAIN d.columns : Sound(PairRow(d, k))
      BY PairRowParts
    <2> QED
      BY <2>1, <2>2, RowsByNumber DEF PairList
  <1>2. PairRows = Each(f)
    BY DEF PairRows, PairList, PairRow
  <1>3. DOMAIN f = Of({"fk"}) /\ Of({"fk"}) \subseteq declared
    BY DEF Of
  <1>4. ASSUME NEW d \in Of({"fk"}), d.toColumns = <<>>
        PROVE  \E r \in Range(PairList(d)) : Unreadable(r)
    <2>1. 1 \in DOMAIN d.columns
      BY ForeignKey
    <2>2. PairRow(d, 1) \in Range(PairList(d))
      BY <2>1 DEF Range, PairList
    <2>3. PairRow(d, 1).toColumns = <<Null>>
      BY <1>4, <2>1, PairRowParts
    <2>4. Null \in Range(<<Null>>)
      BY DEF Range
    <2> QED
      BY <2>2, <2>3, <2>4 DEF Unreadable
  <1>5. \A d \in DOMAIN f : f[d] = PairList(d)
    OBVIOUS
  <1> HIDE DEF f
  <1>6. \A d \in DOMAIN f : f[d] \in Seq(RowSet) /\ \A r \in Range(f[d]) : Sound(r)
    BY <1>1, <1>3, <1>5 DEF SoundList
  <1>7. SoundList(Each(f)) /\ \A d \in DOMAIN f : Range(f[d]) \subseteq Range(Each(f))
    BY <1>3, <1>6, EachSound DEF SoundList
  <1>8. \A d \in Of({"fk"}) : d.toColumns = <<>> => \E r \in Range(PairRows) : Unreadable(r)
    BY <1>2, <1>3, <1>4, <1>5, <1>7
  <1>9. SoundList(PairRows)
    BY <1>2, <1>7
  <1> QED
    BY <1>1, <1>2, <1>8, <1>9 DEF f

\* The row that tells Oracle's adapter the table a foreign key refers to.
TargetRow(d) == [Row("target", d.name, <<>>) EXCEPT !.to = IF d.to \in Hidden THEN Null ELSE d.to]

LEMMA TargetRowParts ==
  ASSUME DeclaredOK, adapter = "oracle", NEW d \in Of({"fk"})
  PROVE  LET r == TargetRow(d)
         IN  /\ r.into = "target" /\ r.name = d.name /\ r.to = IF d.to \in Hidden THEN Null ELSE d.to
             /\ Sound(r) /\ (d.to \in Hidden => Unreadable(r))
  <1> DEFINE r == TargetRow(d)
             to == IF d.to \in Hidden THEN Null ELSE d.to
             base == [into |-> "target", name |-> d.name, columns |-> <<>>,
                      included |-> <<>>, to |-> Null, toColumns |-> <<>>]
  <1>1. r = [base EXCEPT !.to = to]
    BY DEF Row, TargetRow
  <1>2. d \in Declarations /\ d.kind = "fk" /\ d.name \in Names /\ d.to # Null
    BY ForeignKey, Declaration
  <1>3. to \in Targeted
    BY <1>2, Declaration DEF Targeted
  <1>4. to = Null => Nulls
    BY <1>2 DEF Nulls
  <1>5. d.to \in Hidden => to = Null
    OBVIOUS
  <1>6. <<>> \in Seq(Values) /\ Range(<<>>) = {} /\ "target" # "pk"
    BY EmptyDomain DEF Range
  <1> HIDE DEF r, to
  <1>7. /\ r.into = "target" /\ r.columns = <<>> /\ r.toColumns = <<>> /\ r.to = to /\ r.name = d.name
    BY <1>1
  <1>8. r \in RowSet
    BY <1>1, <1>2, <1>3, <1>6 DEF RowSet
  <1>9. Sound(r) /\ (d.to \in Hidden => Unreadable(r))
    BY <1>4, <1>5, <1>6, <1>7, <1>8 DEF Sound, Unreadable
  <1> QED
    BY <1>7, <1>9 DEF r, to

LEMMA TargetsSound ==
  ASSUME DeclaredOK, adapter = "oracle"
  PROVE  /\ SoundList(Targets)
         /\ \A d \in Of({"fk"}) : d.to \in Hidden => \E r \in Range(Targets) : Unreadable(r)
         /\ Range(Targets) = {TargetRow(d) : d \in Of({"fk"})}
  <1> DEFINE f == [d \in Of({"fk"}) |-> <<TargetRow(d)>>]
  <1>1. \A d \in Of({"fk"}) : Sound(TargetRow(d)) /\ (d.to \in Hidden => Unreadable(TargetRow(d)))
    BY TargetRowParts
  <1>2. Targets = Each(f)
    BY DEF Targets, TargetRow
  <1>3. DOMAIN f = Of({"fk"}) /\ Of({"fk"}) \subseteq declared
    BY DEF Of
  <1>4. \A d \in DOMAIN f : f[d] = <<TargetRow(d)>>
    OBVIOUS
  <1> HIDE DEF f
  <1>5. \A d \in DOMAIN f : SoundList(f[d]) /\ Range(f[d]) = {TargetRow(d)}
    BY <1>1, <1>3, <1>4, OneRow
  <1>6. \A d \in DOMAIN f : f[d] \in Seq(RowSet) /\ \A r \in Range(f[d]) : Sound(r)
    BY <1>5 DEF SoundList
  <1>7. /\ SoundList(Each(f))
        /\ \A d \in DOMAIN f : Range(f[d]) \subseteq Range(Each(f))
        /\ \A r \in Range(Each(f)) : \E d \in DOMAIN f : r \in Range(f[d])
    BY <1>3, <1>6, EachSound DEF SoundList
  <1>8. Range(Each(f)) = {TargetRow(d) : d \in Of({"fk"})}
    BY <1>3, <1>5, <1>7
  <1> QED
    BY <1>1, <1>2, <1>3, <1>5, <1>7, <1>8

LEMMA IndexRows ==
  ASSUME DeclaredOK, NEW D, D \subseteq Of(Kinds)
  PROVE  /\ SoundList(ColumnRows(AsIndex(D))) /\ SoundList(ColumnRows(AsDeclared(D)))
         /\ \A d \in D : d.kind # "check" /\ Null \in Range(d.columns) =>
              /\ \E r \in Range(ColumnRows(AsIndex(D))) : Unreadable(r)
              /\ \E r \in Range(ColumnRows(AsDeclared(D))) : Unreadable(r)
  <1>1. \A d \in D : d \in declared /\ d.table = t /\ d.kind \in Kinds
                     /\ (d.kind = "pk" => d.name \in KeyNames)
    BY OfParts
  <1>2. /\ DOMAIN AsIndex(D) = D /\ \A d \in D : AsIndex(D)[d] = "index"
        /\ DOMAIN AsDeclared(D) = D /\ \A d \in D : AsDeclared(D)[d] = d.kind
    BY DEF AsIndex, AsDeclared
  <1>3. "index" \in Kinds /\ "index" # "pk"
    BY DEF Kinds
  <1> DEFINE a == AsIndex(D)
             b == AsDeclared(D)
  <1> HIDE DEF a, b
  <1>4. /\ DOMAIN a \subseteq declared
        /\ \A d \in DOMAIN a : /\ d.table = t /\ a[d] \in Kinds
                               /\ a[d] = "pk" => d.name \in KeyNames
    BY <1>1, <1>2, <1>3 DEF a
  <1>5. /\ DOMAIN b \subseteq declared
        /\ \A d \in DOMAIN b : /\ d.table = t /\ b[d] \in Kinds
                               /\ b[d] = "pk" => d.name \in KeyNames
    BY <1>1, <1>2 DEF b
  <1>6. /\ SoundList(ColumnRows(a))
        /\ \A d \in DOMAIN a : d.kind # "check" /\ Null \in Range(d.columns) =>
             \E r \in Range(ColumnRows(a)) : Unreadable(r)
    BY <1>4, ColumnRowsSound DEF SoundList
  <1>7. /\ SoundList(ColumnRows(b))
        /\ \A d \in DOMAIN b : d.kind # "check" /\ Null \in Range(d.columns) =>
             \E r \in Range(ColumnRows(b)) : Unreadable(r)
    BY <1>5, ColumnRowsSound DEF SoundList
  <1> QED
    BY <1>2, <1>6, <1>7 DEF a, b

IndexListOf(d) ==
  ColumnRows(AsIndex({d})) \o (IF d.kind = "unique" THEN ColumnRows(AsDeclared({d})) ELSE <<>>)

LEMMA IndexListSound ==
  ASSUME DeclaredOK
  PROVE  /\ \A d \in Of({"index", "unique"}) : SoundList(IndexListOf(d))
         /\ SoundList(IndexList)
         /\ \A d \in Of({"index"}) : Null \in Range(d.columns) =>
              \E r \in Range(IndexList) : Unreadable(r)
  <1> DEFINE D == Of({"index", "unique"})
             index(d) == ColumnRows(AsIndex({d}))
             constraint(d) == IF d.kind = "unique" THEN ColumnRows(AsDeclared({d})) ELSE <<>>
             f == [d \in D |-> index(d) \o constraint(d)]
  <1>1. D \subseteq Of(Kinds) /\ Of({"index"}) \subseteq D /\ D \subseteq declared
    BY DEF Of, Kinds
  <1>2. ASSUME NEW d \in D
        PROVE  /\ SoundList(f[d])
               /\ d.kind = "index" /\ Null \in Range(d.columns) =>
                    \E r \in Range(f[d]) : Unreadable(r)
    <2> DEFINE one == {d}
    <2>1. one \subseteq Of(Kinds) /\ d \in one
      BY <1>1
    <2> HIDE DEF one
    <2>2. /\ SoundList(ColumnRows(AsIndex(one))) /\ SoundList(ColumnRows(AsDeclared(one)))
          /\ d.kind # "check" /\ Null \in Range(d.columns) =>
               \E r \in Range(ColumnRows(AsIndex(one))) : Unreadable(r)
      BY <2>1, IndexRows
    <2>3. SoundList(index(d)) /\ SoundList(constraint(d))
      BY <2>2, NoRow DEF one
    <2> DEFINE i == index(d)
               c == constraint(d)
    <2>4. f[d] = i \o c
      OBVIOUS
    <2>5. d.kind = "index" /\ Null \in Range(d.columns) => \E r \in Range(i) : Unreadable(r)
      BY <2>2 DEF one
    <2> HIDE DEF i, c, f
    <2> QED
      BY <2>3, <2>4, <2>5, RowsJoined DEF i, c
  <1>3. IndexList = Each(f) /\ DOMAIN f = D
    BY DEF IndexList
  <1>a. \A d \in D : SoundList(IndexListOf(d))
    BY <1>2 DEF IndexListOf
  <1> HIDE DEF f
  <1>4. \A d \in DOMAIN f : f[d] \in Seq(RowSet) /\ \A r \in Range(f[d]) : Sound(r)
    <2> HIDE DEF D
    <2> QED
      BY <1>2, <1>3 DEF SoundList
  <1>5. \A d \in Of({"index"}) : d \in D /\ d.kind = "index"
    BY DEF Of
  <1> HIDE DEF D
  <1>6. /\ Each(f) \in Seq(RowSet)
        /\ \A r \in Range(Each(f)) : Sound(r)
        /\ \A d \in DOMAIN f : Range(f[d]) \subseteq Range(Each(f))
    BY <1>1, <1>3, <1>4, EachSound
  <1>b. \A d \in Of({"index", "unique"}) : SoundList(IndexListOf(d))
    BY <1>a DEF D
  <1>7. SoundList(IndexList)
    BY <1>3, <1>6 DEF SoundList
  <1>8. \A d \in Of({"index"}) : Null \in Range(d.columns) => \E r \in Range(IndexList) : Unreadable(r)
    BY <1>2, <1>3, <1>5, <1>6
  <1> QED
    BY <1>b, <1>7, <1>8

\* The keys, unique constraints and foreign keys that information_schema takes for d.
SameName3(d) == {c \in Of({"pk", "unique", "fk"}) : c.name = d.name}

UsageOf(d) == ColumnRows([c \in SameName3(d) |-> d.kind])

LEMMA UsageRowsSound ==
  ASSUME DeclaredOK
  PROVE  /\ SoundList(UsageRows)
         /\ \A d \in Of({"pk", "unique"}) : SoundList(UsageOf(d))
  <1> DEFINE D == Of({"pk", "unique"})
             same(d) == {c \in Of({"pk", "unique", "fk"}) : c.name = d.name}
             into(d) == [c \in same(d) |-> d.kind]
             f == [d \in D |-> ColumnRows(into(d))]
  <1>1. ASSUME NEW d \in D PROVE SoundList(ColumnRows(into(d)))
    <2>1. d.kind \in Kinds /\ (d.kind = "pk" => d.name \in KeyNames)
      BY OfParts, Declaration
    <2>2. \A c \in same(d) : c \in declared /\ c.table = t /\ c.name = d.name
      BY OfParts
    <2> DEFINE g == into(d)
    <2>3. DOMAIN g = same(d) /\ \A c \in DOMAIN g : g[c] = d.kind
      OBVIOUS
    <2> HIDE DEF g, same
    <2>4. /\ DOMAIN g \subseteq declared
          /\ \A c \in DOMAIN g : /\ c.table = t /\ g[c] \in Kinds
                                 /\ g[c] = "pk" => c.name \in KeyNames
      BY <2>1, <2>2, <2>3
    <2>5. ColumnRows(g) \in Seq(RowSet) /\ \A r \in Range(ColumnRows(g)) : Sound(r)
      BY <2>4, ColumnRowsSound
    <2> QED
      BY <2>5 DEF g, SoundList
  <1>2. UsageRows = Each(f) /\ DOMAIN f = D /\ D \subseteq declared
    BY DEF UsageRows, Of
  <1>3. \A d \in D : f[d] = ColumnRows(into(d))
    OBVIOUS
  <1>a. \A d \in Of({"pk", "unique"}) : SoundList(UsageOf(d))
    BY <1>1 DEF UsageOf, SameName3
  <1> HIDE DEF f, D, into
  <1>4. \A d \in DOMAIN f : f[d] \in Seq(RowSet) /\ \A r \in Range(f[d]) : Sound(r)
    BY <1>1, <1>2, <1>3 DEF SoundList
  <1>5. SoundList(UsageRows)
    BY <1>2, <1>4, EachSound DEF SoundList
  <1> QED
    BY <1>a, <1>5

\* The constraints of t that a check is joined with.
Joined(d) == {c \in Of(Kinds \ {"index", "trigger"}) : c.name = d.name}

JoinedList(d) == [i \in 1 .. Cardinality(Joined(d)) |-> Row("check", d.name, Said(d))]

LEMMA JoinedChecksSound ==
  ASSUME DeclaredOK
  PROVE  /\ SoundList(JoinedChecks)
         /\ \A d \in {c \in declared : c.kind = "check"} : SoundList(JoinedList(d))
  <1> DEFINE D == {c \in declared : c.kind = "check"}
             joined(d) == {c \in Of(Kinds \ {"index", "trigger"}) : c.name = d.name}
             row(d) == Row("check", d.name, Said(d))
             list(d) == [i \in 1 .. Cardinality(joined(d)) |-> row(d)]
             f == [d \in D |-> list(d)]
  <1>1. ASSUME NEW d \in D PROVE SoundList(list(d))
    <2>1. joined(d) \in SUBSET declared
      BY DEF Of
    <2>2. Cardinality(joined(d)) \in Nat
      <3>1. IsFiniteSet(joined(d))
        BY <2>1, FS_Subset DEF DeclaredOK
      <3> QED
        BY <3>1, FS_CardinalityType
    <2>3. d \in Declarations /\ d.kind = "check"
      BY DEF DeclaredOK
    <2>4. Said(d) \in Seq(Values) /\ Null \notin Range(Said(d))
      <3>1. Said(d) \in Seq(Values)
            /\ \A k \in DOMAIN Said(d) : Said(d)[k] # Null
        BY <2>3, Declaration
      <3> QED
        BY <3>1 DEF Range
    <2>5. Sound(row(d))
      <3> "check" \in Kinds /\ "check" # "pk"
        BY DEF Kinds
      <3> QED
        BY <2>3, <2>4, RowSound
    <2> HIDE DEF row, joined
    <2> QED
      BY <2>2, <2>5, RowsByNumber
  <1>2. JoinedChecks = Each(f) /\ DOMAIN f = D /\ D \subseteq declared
    BY DEF JoinedChecks
  <1>3. \A d \in D : f[d] = list(d)
    OBVIOUS
  <1>a. \A d \in {c \in declared : c.kind = "check"} : SoundList(JoinedList(d))
    BY <1>1 DEF JoinedList, Joined
  <1> HIDE DEF f, D, list
  <1>4. \A d \in DOMAIN f : f[d] \in Seq(RowSet) /\ \A r \in Range(f[d]) : Sound(r)
    BY <1>1, <1>2, <1>3 DEF SoundList
  <1>5. SoundList(JoinedChecks)
    BY <1>2, <1>4, EachSound DEF SoundList
  <1> QED
    BY <1>a, <1>5

\* The row of a column that is no key.
IncludedRow(d, k) == [Row("index", d.name, <<>>) EXCEPT !.included = <<d.included[k]>>]

IncludedList(d) == [k \in DOMAIN d.included |-> IncludedRow(d, k)]
PartitionList(d) == [k \in DOMAIN d.partition |-> Row("index", d.name, <<d.partition[k]>>)]

IndexColumnsOf(d) == IncludedList(d) \o PartitionList(d) \o ColumnRows(AsIndex({d}))

LEMMA IncludedRowParts ==
  ASSUME NEW d \in Declarations, NEW k \in DOMAIN d.included
  PROVE  LET r == IncludedRow(d, k)
         IN  /\ r.into = "index" /\ r.name = d.name /\ r.columns = <<>> /\ r.toColumns = <<>>
             /\ r.included = <<d.included[k]>> /\ r.to = Null /\ Sound(r)
  <1> DEFINE r == IncludedRow(d, k)
             base == [into |-> "index", name |-> d.name, columns |-> <<>>,
                      included |-> <<>>, to |-> Null, toColumns |-> <<>>]
  <1>0. "index" \in Kinds /\ "index" # "pk" /\ "index" # "target"
        /\ d.included \in Seq(Values) /\ d.name \in Names
    BY Declaration DEF Kinds
  <1>1. r = [base EXCEPT !.included = <<d.included[k]>>]
    BY DEF Row, IncludedRow
  <1>2. <<d.included[k]>> \in Seq(Values) /\ <<>> \in Seq(Values) /\ Null \in Targeted
    BY <1>0 DEF Targeted
  <1>3. Range(<<>>) = {}
    BY EmptyDomain DEF Range
  <1> HIDE DEF r
  <1>4. /\ r.into = "index" /\ r.name = d.name /\ r.columns = <<>> /\ r.toColumns = <<>>
        /\ r.included = <<d.included[k]>> /\ r.to = Null
    BY <1>1
  <1>5. r \in RowSet
    BY <1>0, <1>1, <1>2 DEF RowSet
  <1>6. ~Unreadable(r)
    BY <1>0, <1>3, <1>4 DEF Unreadable
  <1>7. Sound(r)
    BY <1>0, <1>4, <1>5, <1>6 DEF Sound
  <1> QED
    BY <1>4, <1>7 DEF r

LEMMA IndexColumnsSound ==
  ASSUME DeclaredOK
  PROVE  /\ SoundList(IndexColumns)
         /\ \A d \in Of({"index", "unique"}) :
              /\ SoundList(IncludedList(d)) /\ SoundList(PartitionList(d))
              /\ SoundList(ColumnRows(AsIndex({d}))) /\ SoundList(IndexColumnsOf(d))
  <1> DEFINE D == Of({"index", "unique"})
             other(d, k) == IncludedRow(d, k)
             included(d) == [k \in DOMAIN d.included |-> other(d, k)]
             partition(d) == [k \in DOMAIN d.partition |-> Row("index", d.name, <<d.partition[k]>>)]
             keys(d) == ColumnRows(AsIndex({d}))
             f == [d \in D |-> included(d) \o partition(d) \o keys(d)]
  <1>0. "index" \in Kinds /\ "index" # "pk" /\ "index" # "target"
    BY DEF Kinds
  <1>1. ASSUME NEW d \in D
        PROVE  /\ SoundList(f[d]) /\ SoundList(included(d)) /\ SoundList(partition(d))
               /\ SoundList(keys(d))
    <2>1. d \in Declarations /\ d \in Of(Kinds)
      BY OfParts DEF Of, Kinds
    <2>2. /\ d.included \in Seq(Values) /\ d.partition \in Seq(Values \ {Null})
          /\ d.name \in Names
      BY <2>1, Declaration
    <2>3. \A k \in DOMAIN d.included : Sound(other(d, k))
      BY <2>1, IncludedRowParts
    <2>4. SoundList(included(d))
      <3>1. Len(d.included) \in Nat /\ DOMAIN d.included = 1 .. Len(d.included)
        BY <2>2
      <3> HIDE DEF other
      <3> QED
        BY <2>3, <3>1, RowsByNumber
    <2>5. SoundList(partition(d))
      <3>1. Len(d.partition) \in Nat /\ DOMAIN d.partition = 1 .. Len(d.partition)
        BY <2>2
      <3>2. ASSUME NEW k \in DOMAIN d.partition
            PROVE  Sound(Row("index", d.name, <<d.partition[k]>>))
        <4>1. d.partition[k] \in Values /\ d.partition[k] # Null
          BY <2>2
        <4>2. <<d.partition[k]>> \in Seq(Values) /\ Null \notin Range(<<d.partition[k]>>)
          BY <4>1 DEF Range
        <4> QED
          BY <1>0, <2>1, <4>2, RowSound
      <3> QED
        BY <3>1, <3>2, RowsByNumber
    <2>6. SoundList(keys(d))
      <3> DEFINE one == {d}
      <3>1. one \subseteq Of(Kinds)
        BY <2>1
      <3> HIDE DEF one
      <3>2. SoundList(ColumnRows(AsIndex(one)))
        BY <3>1, IndexRows
      <3> QED
        BY <3>2 DEF one
    <2> DEFINE i == included(d)
               p == partition(d)
               k == keys(d)
    <2>7. f[d] = (i \o p) \o k
      OBVIOUS
    <2> HIDE DEF i, p, k, f
    <2>8. SoundList(i \o p)
      BY <2>4, <2>5, RowsJoined DEF i, p
    <2> DEFINE ip == i \o p
    <2> HIDE DEF ip
    <2>9. SoundList(ip \o k)
      BY <2>6, <2>8, RowsJoined DEF ip, k
    <2>10. SoundList(f[d])
      BY <2>7, <2>9 DEF ip
    <2> QED
      BY <2>4, <2>5, <2>6, <2>10
  <1>2. IndexColumns = Each(f) /\ DOMAIN f = D /\ D \subseteq declared
    BY DEF IndexColumns, Of, IncludedRow
  <1>a. \A d \in Of({"index", "unique"}) :
          /\ SoundList(IncludedList(d)) /\ SoundList(PartitionList(d))
          /\ SoundList(ColumnRows(AsIndex({d}))) /\ SoundList(IndexColumnsOf(d))
    BY <1>1 DEF IncludedList, PartitionList, IndexColumnsOf
  <1> HIDE DEF f, D
  <1>3. \A d \in DOMAIN f : f[d] \in Seq(RowSet) /\ \A r \in Range(f[d]) : Sound(r)
    BY <1>1, <1>2 DEF SoundList
  <1>4. SoundList(IndexColumns)
    BY <1>2, <1>3, EachSound DEF SoundList
  <1> QED
    BY <1>a, <1>4

\* What each adapter asks for.
LEMMA QueriesParts ==
  ASSUME DeclaredOK
  PROVE  /\ Queries \in Seq(Range(Queries))
         /\ adapter = "postgres" =>
              /\ Range(Queries) = Kinds /\ Head(Queries) = "pk" /\ Queries # <<>>
              /\ "pk" \notin Range(Tail(Queries))
         /\ adapter = "sqlite" =>
              Range(Queries) = {"columns", "pairs", "index list", "trigger"}
         /\ adapter = "duckdb" => Range(Queries) = {"usage"}
         /\ adapter \in MySQL =>
              Range(Queries) = {"usage", "pairs", "joined checks", "statistics", "trigger"}
         /\ adapter = "mssql" =>
              Range(Queries) = {"keys", "checks", "pairs", "index columns", "events"}
         /\ adapter = "oracle" =>
              Range(Queries) = {"constraints", "targets", "indexes", "trigger"}
  <1>0. \/ adapter = "postgres" \/ adapter = "sqlite" \/ adapter = "duckdb" \/ adapter = "mysql"
        \/ adapter = "mariadb" \/ adapter = "mssql" \/ adapter = "oracle"
    BY ConstantsOK DEF DeclaredOK
  <1>1. CASE adapter = "postgres"
    <2> DEFINE q == <<"pk", "fk", "unique", "check", "index", "trigger">>
               u == <<"fk", "unique", "check", "index", "trigger">>
    <2>1. Queries = q
      BY <1>1 DEF Queries, MySQL
    <2>2. q \in Seq(Kinds) /\ Head(q) = "pk" /\ Tail(q) = u /\ q # <<>>
      BY DEF Kinds
    <2>3. Range(q) = Kinds
      BY DEF Kinds, Range
    <2>4. Range(u) = {"fk", "unique", "check", "index", "trigger"}
      BY DEF Range
    <2> HIDE DEF q, u
    <2> QED
      BY <1>1, <2>1, <2>2, <2>3, <2>4 DEF MySQL
  <1>2. CASE adapter = "sqlite"
    <2> DEFINE q == <<"columns", "pairs", "index list", "trigger">>
    <2>1. Queries = q
      BY <1>2 DEF Queries, MySQL
    <2>2. Range(q) = {"columns", "pairs", "index list", "trigger"}
      <3>1. DOMAIN q = {1, 2, 3, 4}
        OBVIOUS
      <3>2. q[1] = "columns" /\ q[2] = "pairs" /\ q[3] = "index list" /\ q[4] = "trigger"
        OBVIOUS
      <3> HIDE DEF q
      <3> QED
        BY <3>1, <3>2 DEF Range
    <2>3. q \in Seq(Range(q))
      <3> q \in Seq({"columns", "pairs", "index list", "trigger"})
        OBVIOUS
      <3> QED
        BY <2>2
    <2> HIDE DEF q
    <2> QED
      BY <1>2, <2>1, <2>2, <2>3 DEF MySQL
  <1>3. CASE adapter = "duckdb"
    <2> DEFINE q == <<"usage">>
    <2>1. Queries = q
      BY <1>3 DEF Queries, MySQL
    <2>2. Range(q) = {"usage"}
      <3>1. DOMAIN q = {1}
        OBVIOUS
      <3>2. q[1] = "usage"
        OBVIOUS
      <3> HIDE DEF q
      <3> QED
        BY <3>1, <3>2 DEF Range
    <2>3. q \in Seq(Range(q))
      <3> q \in Seq({"usage"})
        OBVIOUS
      <3> QED
        BY <2>2
    <2> HIDE DEF q
    <2> QED
      BY <1>3, <2>1, <2>2, <2>3 DEF MySQL
  <1>4. CASE adapter \in MySQL
    <2> DEFINE q == <<"usage", "pairs", "joined checks", "statistics", "trigger">>
    <2>1. Queries = q
      BY <1>4 DEF Queries, MySQL
    <2>2. Range(q) = {"usage", "pairs", "joined checks", "statistics", "trigger"}
      <3>1. DOMAIN q = {1, 2, 3, 4, 5}
        OBVIOUS
      <3>2. q[1] = "usage" /\ q[2] = "pairs" /\ q[3] = "joined checks" /\ q[4] = "statistics" /\ q[5] = "trigger"
        OBVIOUS
      <3> HIDE DEF q
      <3> QED
        BY <3>1, <3>2 DEF Range
    <2>3. q \in Seq(Range(q))
      <3> q \in Seq({"usage", "pairs", "joined checks", "statistics", "trigger"})
        OBVIOUS
      <3> QED
        BY <2>2
    <2> HIDE DEF q
    <2> QED
      BY <1>4, <2>1, <2>2, <2>3 DEF MySQL
  <1>5. CASE adapter = "mssql"
    <2> DEFINE q == <<"keys", "checks", "pairs", "index columns", "events">>
    <2>1. Queries = q
      BY <1>5 DEF Queries, MySQL
    <2>2. Range(q) = {"keys", "checks", "pairs", "index columns", "events"}
      <3>1. DOMAIN q = {1, 2, 3, 4, 5}
        OBVIOUS
      <3>2. q[1] = "keys" /\ q[2] = "checks" /\ q[3] = "pairs" /\ q[4] = "index columns" /\ q[5] = "events"
        OBVIOUS
      <3> HIDE DEF q
      <3> QED
        BY <3>1, <3>2 DEF Range
    <2>3. q \in Seq(Range(q))
      <3> q \in Seq({"keys", "checks", "pairs", "index columns", "events"})
        OBVIOUS
      <3> QED
        BY <2>2
    <2> HIDE DEF q
    <2> QED
      BY <1>5, <2>1, <2>2, <2>3 DEF MySQL
  <1>6. CASE adapter = "oracle"
    <2> DEFINE q == <<"constraints", "targets", "indexes", "trigger">>
    <2>1. Queries = q
      BY <1>6 DEF Queries, MySQL
    <2>2. Range(q) = {"constraints", "targets", "indexes", "trigger"}
      <3>1. DOMAIN q = {1, 2, 3, 4}
        OBVIOUS
      <3>2. q[1] = "constraints" /\ q[2] = "targets" /\ q[3] = "indexes" /\ q[4] = "trigger"
        OBVIOUS
      <3> HIDE DEF q
      <3> QED
        BY <3>1, <3>2 DEF Range
    <2>3. q \in Seq(Range(q))
      <3> q \in Seq({"constraints", "targets", "indexes", "trigger"})
        OBVIOUS
      <3> QED
        BY <2>2
    <2> HIDE DEF q
    <2> QED
      BY <1>6, <2>1, <2>2, <2>3 DEF MySQL
  <1> QED
    BY <1>0, <1>1, <1>2, <1>3, <1>4, <1>5, <1>6 DEF MySQL

\* The rows of every query are sound, and those of PostgreSQL's all of one kind.
LEMMA AnswerSound ==
  ASSUME DeclaredOK, NEW query \in Range(Queries)
  PROVE  /\ SoundList(Answer(query))
         /\ adapter = "postgres" =>
              query \in Kinds /\ \A r \in Range(Answer(query)) : r.into = query
  <1>0. \/ adapter = "postgres" \/ adapter = "sqlite" \/ adapter = "duckdb" \/ adapter \in MySQL
        \/ adapter = "mssql" \/ adapter = "oracle"
    BY ConstantsOK DEF DeclaredOK, MySQL
  <1>1. \/ query \in Kinds
        \/ query \in {"columns", "pairs", "index list", "usage", "joined checks", "statistics", "keys",
                      "checks", "index columns", "events", "constraints", "indexes"}
        \/ query = "targets" /\ adapter = "oracle"
    BY <1>0, QueriesParts DEF Kinds
  <1>2. adapter = "postgres" => query \in Kinds
    BY QueriesParts
  <1>3. CASE query \in Kinds
    <2>1. Answer(query) = WholeRows(query)
      BY <1>3 DEF Answer, Kinds
    <2> QED
      BY <1>3, <2>1, WholeRowsSound
  <1>4. CASE query \notin Kinds
    <2> SUFFICES SoundList(Answer(query))
      BY <1>2, <1>4
    <2>1. CASE query = "columns"
      <3> Answer(query) = KeyColumns
        BY <2>1 DEF Answer, Kinds
      <3> QED
        BY KeyColumnsSound
    <2>2. CASE query = "pairs"
      <3> Answer(query) = PairRows
        BY <2>2 DEF Answer, Kinds
      <3> QED
        BY PairRowsSound
    <2>3. CASE query = "index list"
      <3> Answer(query) = IndexList
        BY <2>3 DEF Answer, Kinds
      <3> QED
        BY IndexListSound
    <2>4. CASE query = "usage"
      <3> Answer(query) = UsageRows
        BY <2>4 DEF Answer, Kinds
      <3> QED
        BY UsageRowsSound
    <2>5. CASE query = "joined checks"
      <3> Answer(query) = JoinedChecks
        BY <2>5 DEF Answer, Kinds
      <3> QED
        BY JoinedChecksSound
    <2>6. CASE query = "statistics"
      <3> Answer(query) = ColumnRows(AsIndex(Of({"index", "unique"})))
        BY <2>6 DEF Answer, Kinds
      <3> Of({"index", "unique"}) \subseteq Of(Kinds)
        BY DEF Of, Kinds
      <3> QED
        BY IndexRows
    <2>7. CASE query = "keys"
      <3> Answer(query) = ColumnRows(AsDeclared(Of({"pk", "unique"})))
        BY <2>7 DEF Answer, Kinds
      <3> Of({"pk", "unique"}) \subseteq Of(Kinds)
        BY DEF Of, Kinds
      <3> QED
        BY IndexRows
    <2>8. CASE query = "checks"
      <3> Answer(query) = ColumnRows(AsDeclared(Of({"check"})))
        BY <2>8 DEF Answer, Kinds
      <3> Of({"check"}) \subseteq Of(Kinds)
        BY DEF Of, Kinds
      <3> QED
        BY IndexRows
    <2>9. CASE query = "index columns"
      <3> Answer(query) = IndexColumns
        BY <2>9 DEF Answer, Kinds
      <3> QED
        BY IndexColumnsSound
    <2>10. CASE query = "events"
      <3> Answer(query) = ColumnRows(AsDeclared(Of({"trigger"})))
        BY <2>10 DEF Answer, Kinds
      <3> Of({"trigger"}) \subseteq Of(Kinds)
        BY DEF Of, Kinds
      <3> QED
        BY IndexRows
    <2>11. CASE query = "constraints"
      <3> Answer(query) = ColumnRows(AsDeclared(Of({"pk", "unique", "check", "fk"})))
        BY <2>11 DEF Answer, Kinds
      <3> Of({"pk", "unique", "check", "fk"}) \subseteq Of(Kinds)
        BY DEF Of, Kinds
      <3> QED
        BY IndexRows
    <2>12. CASE query = "targets" /\ adapter = "oracle"
      <3> Answer(query) = Targets
        BY <2>12 DEF Answer, Kinds
      <3> QED
        BY <2>12, TargetsSound
    <2>13. CASE query = "indexes"
      <3> Answer(query) = ColumnRows(AsIndex(Of({"index"})))
        BY <2>13 DEF Answer, Kinds
      <3> Of({"index"}) \subseteq Of(Kinds)
        BY DEF Of, Kinds
      <3> QED
        BY IndexRows
    <2> QED
      BY <1>1, <1>4, <2>1, <2>2, <2>3, <2>4, <2>5, <2>6, <2>7, <2>8, <2>9, <2>10, <2>11, <2>12, <2>13
  <1> QED
    BY <1>3, <1>4

\* What makes a NULL shows in the rows of one query.
LEMMA NullsShow ==
  ASSUME DeclaredOK
  PROVE  /\ Nulls => \E query \in Range(Queries) : ShowsNull(query)
         /\ \A query \in Range(Queries) :
              ShowsNull(query) => \E r \in Range(Answer(query)) : Unreadable(r)
  <1>0. \/ adapter = "postgres" \/ adapter = "sqlite" \/ adapter = "duckdb"
        \/ adapter = "mysql" \/ adapter = "mariadb" \/ adapter = "mssql" \/ adapter = "oracle"
    BY ConstantsOK DEF DeclaredOK
  <1>1. ASSUME NEW d \in Of({"fk"}), d.toColumns = <<>>
        PROVE  adapter = "sqlite" /\ "pairs" \in Range(Queries) /\ ShowsNull("pairs")
    <2>1. adapter = "sqlite"
      BY <1>1, OfParts DEF DeclaredOK
    <2> QED
      BY <1>1, <2>1, QueriesParts DEF ShowsNull
  <1>2. ASSUME NEW d \in Of({"index"}), Null \in Range(d.columns)
        PROVE  \E query \in Range(Queries) : ShowsNull(query)
    <2>1. adapter \in {"sqlite", "mysql"}
      <3>1. d \in declared /\ d.kind = "index"
        BY OfParts
      <3> QED
        BY <1>2, <3>1 DEF DeclaredOK
    <2>2. "index list" \in Range(Queries) \/ "statistics" \in Range(Queries)
      BY <2>1, QueriesParts DEF MySQL
    <2> QED
      BY <1>2, <2>2 DEF ShowsNull
  <1>3. ASSUME NEW d \in Of({"trigger"}), Null \in Range(d.columns)
        PROVE  "events" \in Range(Queries) /\ ShowsNull("events")
    <2>1. adapter = "mssql"
      <3>1. d \in declared /\ d.kind = "trigger"
        BY OfParts
      <3> QED
        BY <1>3, <3>1 DEF DeclaredOK
    <2> QED
      BY <1>3, <2>1, QueriesParts DEF ShowsNull
  <1>4. ASSUME adapter = "oracle", NEW d \in Of({"fk"}), d.to \in Hidden
        PROVE  "targets" \in Range(Queries) /\ ShowsNull("targets")
    BY <1>4, QueriesParts DEF ShowsNull
  <1>5. Of({"index", "trigger"}) = Of({"index"}) \cup Of({"trigger"})
    BY DEF Of
  <1>6. Nulls => \E query \in Range(Queries) : ShowsNull(query)
    BY <1>1, <1>2, <1>3, <1>4, <1>5 DEF Nulls
  <1>7. ASSUME NEW query \in Range(Queries), ShowsNull(query)
        PROVE  \E r \in Range(Answer(query)) : Unreadable(r)
    <2>1. CASE query = "pairs" /\ \E d \in Of({"fk"}) : d.toColumns = <<>>
      <3> Answer(query) = PairRows
        BY <2>1 DEF Answer, Kinds
      <3> QED
        BY <2>1, PairRowsSound
    <2>2. CASE query = "index list" /\ \E d \in Of({"index"}) : Null \in Range(d.columns)
      <3> Answer(query) = IndexList
        BY <2>2 DEF Answer, Kinds
      <3> QED
        BY <2>2, IndexListSound
    <2>3. CASE query = "statistics" /\ \E d \in Of({"index"}) : Null \in Range(d.columns)
      <3>1. Answer(query) = ColumnRows(AsIndex(Of({"index", "unique"})))
        BY <2>3 DEF Answer, Kinds
      <3>2. Of({"index", "unique"}) \subseteq Of(Kinds) /\ Of({"index"}) \subseteq Of({"index", "unique"})
        BY DEF Of, Kinds
      <3>3. \A d \in Of({"index"}) : d.kind # "check"
        BY OfParts
      <3> QED
        BY <2>3, <3>1, <3>2, <3>3, IndexRows
    <2>4. CASE query = "events" /\ \E d \in Of({"trigger"}) : Null \in Range(d.columns)
      <3>1. Answer(query) = ColumnRows(AsDeclared(Of({"trigger"})))
        BY <2>4 DEF Answer, Kinds
      <3>2. Of({"trigger"}) \subseteq Of(Kinds)
        BY DEF Of, Kinds
      <3>3. \A d \in Of({"trigger"}) : d.kind # "check"
        BY OfParts
      <3> QED
        BY <2>4, <3>1, <3>2, <3>3, IndexRows
    <2>5. CASE query = "targets" /\ \E d \in Of({"fk"}) : d.to \in Hidden
      <3>1. Answer(query) = Targets
        BY <2>5 DEF Answer, Kinds
      <3>2. adapter = "oracle"
        BY <1>0, <2>5, QueriesParts DEF Kinds, MySQL
      <3> QED
        BY <2>5, <3>1, <3>2, TargetsSound
    <2> QED
      BY <1>7, <2>1, <2>2, <2>3, <2>4, <2>5 DEF ShowsNull
  <1> QED
    BY <1>6, <1>7

-----------------------------------------------------------------------------
(* The primary key: one name, and with PostgreSQL one row. *)

LEMMA OneKeyName ==
  ASSUME DeclaredOK
  PROVE  /\ \A c, d \in Of({"pk"}) : c = d
         /\ \A m, n \in KeyNames : m = n
  <1>1. ASSUME NEW c \in Of({"pk"}), NEW d \in Of({"pk"}) PROVE c = d
    <2>1. /\ c \in declared /\ c.kind = "pk" /\ c.table = t
          /\ d \in declared /\ d.kind = "pk" /\ d.table = t
      BY OfParts
    <2> QED
      BY <2>1 DEF DeclaredOK
  <1> QED
    BY <1>1 DEF KeyNames

LEMMA EachOfOne ==
  ASSUME NEW f, IsFiniteSet(DOMAIN f), \A c, d \in DOMAIN f : c = d,
         \A d \in DOMAIN f : d.name \in Nat /\ Len(f[d]) = 1
  PROVE  Len(Each(f)) <= 1
  <1> DEFINE key == [d \in DOMAIN f |-> d.name]
             s == Sorted(key)
             lists == [i \in DOMAIN s |-> f[s[i]]]
  <1>1. DOMAIN key = DOMAIN f /\ \A d \in DOMAIN key : key[d] \in Nat
    OBVIOUS
  <1> HIDE DEF key
  <1>2. s \in Seq(DOMAIN f) /\ Len(s) \in Nat /\ DOMAIN s = 1 .. Len(s) /\ IsInjective(s)
    BY <1>1, SortedParts
  <1> HIDE DEF s
  <1>3. \A i \in DOMAIN s : s[i] \in DOMAIN f
    BY <1>2
  <1>4. Len(s) = 0 \/ Len(s) = 1
    <2> SUFFICES ASSUME Len(s) # 0, Len(s) # 1 PROVE FALSE
      OBVIOUS
    <2>1. 1 \in DOMAIN s /\ 2 \in DOMAIN s
      BY <1>2
    <2>2. s[1] = s[2]
      BY <1>3, <2>1
    <2> QED
      BY <1>2, <2>1, <2>2 DEF IsInjective
  <1>5. Each(f) = FlattenSeq(lists)
    BY DEF Each, s, key
  <1>6. Len(lists) = Len(s)
    BY <1>2
  <1>7. CASE Len(s) = 0
    <2> HIDE DEF lists
    <2>1. FlattenSeq(lists) = lists
      BY <1>6, <1>7 DEF FlattenSeq
    <2> QED
      BY <1>5, <1>6, <1>7, <2>1
  <1>8. CASE Len(s) = 1
    <2>1. 1 \in DOMAIN s
      BY <1>2, <1>8
    <2>2. lists[1] = f[s[1]] /\ Len(f[s[1]]) = 1
      BY <1>3, <2>1
    <2> HIDE DEF lists
    <2>3. PICK g : /\ g = [i \in 1 .. Len(lists) |-> Glued(lists, g, i)]
                   /\ FlattenSeq(lists) = g[Len(lists)]
      BY <1>6, <1>8, FlattenDef
    <2>4. g[1] = Glued(lists, g, 1)
      BY <1>6, <1>8, <2>3
    <2>5. FlattenSeq(lists) = lists[1]
      BY <1>6, <1>8, <2>3, <2>4 DEF Glued
    <2>6. Each(f) = lists[1]
      BY <1>5, <2>5
    <2>7. Len(lists[1]) = 1
      BY <2>2
    <2>8. Len(Each(f)) = 1
      BY <2>6, <2>7, Zenon
    <2> QED
      BY <2>8
  <1> QED
    BY <1>4, <1>7, <1>8

LEMMA OneKeyRow ==
  ASSUME DeclaredOK
  PROVE  Len(WholeRows("pk")) <= 1
  <1> DEFINE D == Of({"pk"})
             whole(d) == [Row("pk", d.name, Said(d)) EXCEPT
                            !.included = d.included, !.to = d.to, !.toColumns = d.toColumns]
             f == [d \in D |-> <<whole(d)>>]
  <1>1. WholeRows("pk") = Each(f)
    BY DEF WholeRows
  <1>2. \A d \in D : Len(f[d]) = 1
    OBVIOUS
  <1>3. DOMAIN f = D
    OBVIOUS
  <1> HIDE DEF f
  <1>4. D \in SUBSET declared /\ IsFiniteSet(declared)
    BY DEF Of, DeclaredOK
  <1>5. IsFiniteSet(D)
    <2> HIDE DEF D
    <2> QED
      BY <1>4, FS_Subset
  <1>6. \A d \in D : d.name \in Nat
    BY OfParts, Declaration
  <1>7. \A c, d \in D : c = d
    BY OneKeyName
  <1> HIDE DEF D
  <1> QED
    BY <1>1, <1>2, <1>3, <1>5, <1>6, <1>7, EachOfOne

-----------------------------------------------------------------------------
(* What a row does to the result. *)

Readable(row) == row \in RowSet /\ Null \notin Range(row.columns) \cup Range(row.toColumns)

LEMMA ReadableColumns ==
  ASSUME NEW row, Readable(row)
  PROVE  /\ row.columns \in Seq(Values \ {Null}) /\ row.toColumns \in Seq(Values \ {Null})
         /\ row.included \in Seq(Values) /\ row.name \in Names /\ row.to \in Targeted
         /\ row.into \in Kinds \cup {"target"}
  <1>1. /\ row.columns \in Seq(Values) /\ row.toColumns \in Seq(Values)
        /\ row.included \in Seq(Values) /\ row.name \in Names /\ row.to \in Targeted
        /\ row.into \in Kinds \cup {"target"}
    BY DEF Readable, RowSet
  <1>2. ASSUME NEW s \in Seq(Values), Null \notin Range(s) PROVE s \in Seq(Values \ {Null})
    <2>1. \A i \in 1 .. Len(s) : s[i] \in Values \ {Null}
      BY <1>2 DEF Range
    <2>2. s \in [1 .. Len(s) -> Values \ {Null}]
      BY <2>1
    <2> QED
      BY <2>2
  <1> QED
    BY <1>1, <1>2 DEF Readable

LEMMA EntryTyped ==
  ASSUME NEW row, Readable(row)
  PROVE  Entry(row) \in EntrySet /\ Entry(row).name = row.name
  BY ReadableColumns DEF Entry, EntrySet

LEMMA ExtendedType ==
  ASSUME NEW row, Readable(row), NEW e \in EntrySet
  PROVE  Extended(e, row) \in EntrySet /\ Extended(e, row).name = e.name
  <1> DEFINE columns == e.columns \o row.columns
             included == e.included \o row.included
             toColumns == e.toColumns \o row.toColumns
  <1>1. /\ row.columns \in Seq(Values \ {Null}) /\ row.toColumns \in Seq(Values \ {Null})
        /\ row.included \in Seq(Values)
    BY ReadableColumns
  <1>2. /\ e.columns \in Seq(Values \ {Null}) /\ e.toColumns \in Seq(Values \ {Null})
        /\ e.included \in Seq(Values)
    BY DEF EntrySet
  <1>3. columns \in Seq(Values \ {Null}) /\ toColumns \in Seq(Values \ {Null})
        /\ included \in Seq(Values)
    BY <1>1, <1>2
  <1>4. Extended(e, row) = [e EXCEPT !.columns = columns, !.included = included,
                                     !.toColumns = toColumns]
    BY DEF Extended
  <1> HIDE DEF columns, included, toColumns
  <1> QED
    BY <1>3, <1>4 DEF EntrySet

LEMMA PutParts ==
  ASSUME NEW entries \in Seq(EntrySet), NEW row, Readable(row)
  PROVE  /\ Put(entries, row) \in Seq(EntrySet)
         /\ \A e \in Range(Put(entries, row)) :
              e.name = row.name \/ \E g \in Range(entries) : e.name = g.name
         /\ Grouped(row) /\ (\E i \in DOMAIN entries : entries[i].name = row.name) =>
              Len(Put(entries, row)) = Len(entries)
         /\ entries = <<>> => Len(Put(entries, row)) = 1
  <1> DEFINE found == {i \in DOMAIN entries : entries[i].name = row.name}
             put == Put(entries, row)
  <1>1. Len(entries) \in Nat /\ DOMAIN entries = 1 .. Len(entries)
        /\ \A i \in DOMAIN entries : entries[i] \in EntrySet
    OBVIOUS
  <1>2. CASE Grouped(row) /\ found # {}
    <2> DEFINE j == CHOOSE i \in found : TRUE
               longer == Extended(entries[j], row)
    <2>1. put = [entries EXCEPT ![j] = longer] /\ j \in found
      BY <1>2 DEF Put
    <2>2. j \in DOMAIN entries /\ entries[j].name = row.name
      BY <2>1
    <2> HIDE DEF j, put
    <2>3. longer \in EntrySet /\ longer.name = entries[j].name
      BY <1>1, <2>2, ExtendedType
    <2> HIDE DEF longer, found
    <2>4. put \in [1 .. Len(entries) -> EntrySet]
      BY <1>1, <2>1, <2>2, <2>3
    <2>5. put \in Seq(EntrySet) /\ Len(put) = Len(entries) /\ DOMAIN put = DOMAIN entries
      BY <1>1, <2>4
    <2>6. \A i \in DOMAIN put : put[i].name = entries[i].name
      BY <1>1, <2>1, <2>2, <2>3, <2>5
    <2>7. \A e \in Range(put) : \E g \in Range(entries) : e.name = g.name
      BY <2>5, <2>6 DEF Range
    <2>8. entries # <<>>
      BY <1>1, <2>2, EmptyDomain
    <2> QED
      BY <2>5, <2>7, <2>8 DEF put
  <1>3. CASE ~(Grouped(row) /\ found # {})
    <2>1. put = Append(entries, Entry(row))
      BY <1>3 DEF Put
    <2>2. Entry(row) \in EntrySet /\ Entry(row).name = row.name
      BY EntryTyped
    <2>3. put \in Seq(EntrySet) /\ Len(put) = Len(entries) + 1
      BY <2>1, <2>2
    <2>4. Range(put) = Range(entries) \cup {Entry(row)}
      BY <2>1, <2>2, RangeOfAppend
    <2>5. entries = <<>> => Len(put) = 1
      BY <2>3
    <2> HIDE DEF put
    <2>6. \A e \in Range(put) : e.name = row.name \/ \E g \in Range(entries) : e.name = g.name
      BY <2>2, <2>4
    <2>7. ~(Grouped(row) /\ \E i \in DOMAIN entries : entries[i].name = row.name)
      BY <1>3
    <2> QED
      BY <2>3, <2>5, <2>6, <2>7 DEF put
  <1> QED
    BY <1>2, <1>3

LEMMA SetTargetType ==
  ASSUME NEW fks \in Seq(EntrySet), NEW row, Readable(row)
  PROVE  SetTarget(fks, row) \in Seq(EntrySet)
  <1>1. Len(fks) \in Nat /\ DOMAIN fks = 1 .. Len(fks) /\ \A i \in DOMAIN fks : fks[i] \in EntrySet
    OBVIOUS
  <1>2. ASSUME NEW i \in DOMAIN fks PROVE [fks[i] EXCEPT !.to = row.to] \in EntrySet
    BY <1>1, ReadableColumns DEF EntrySet
  <1>3. SetTarget(fks, row) \in [1 .. Len(fks) -> EntrySet]
    BY <1>1, <1>2 DEF SetTarget
  <1> QED
    BY <1>1, <1>3

\* The rest of a list.
LEMMA Rest ==
  ASSUME NEW T, NEW s \in Seq(T), s # <<>>
  PROVE  /\ Head(s) \in T /\ Head(s) \in Range(s)
         /\ Tail(s) \in Seq(T) /\ Len(s) \in Nat /\ Len(Tail(s)) = Len(s) - 1
         /\ Range(s) = {Head(s)} \cup Range(Tail(s))
  <1> DEFINE u == Tail(s)
  <1>1. /\ Len(s) \in Nat /\ Len(s) >= 1 /\ DOMAIN s = 1 .. Len(s)
        /\ Head(s) = s[1] /\ s[1] \in T
        /\ u \in Seq(T) /\ Len(u) = Len(s) - 1 /\ DOMAIN u = 1 .. Len(s) - 1
        /\ \A i \in 1 .. Len(s) - 1 : u[i] = s[i + 1]
    OBVIOUS
  <1> HIDE DEF u
  <1>2. s[1] \in Range(s)
    BY <1>1 DEF Range
  <1>3. ASSUME NEW x \in Range(u) PROVE x \in Range(s)
    <2>1. PICK i \in 1 .. Len(s) - 1 : u[i] = x
      BY <1>1 DEF Range
    <2>2. i + 1 \in 1 .. Len(s) /\ s[i + 1] = x
      BY <1>1, <2>1
    <2> QED
      BY <1>1, <2>2 DEF Range
  <1>4. ASSUME NEW x \in Range(s) PROVE x = s[1] \/ x \in Range(u)
    <2>1. PICK i \in 1 .. Len(s) : s[i] = x
      BY <1>1 DEF Range
    <2>2. CASE i # 1
      <3>1. i - 1 \in 1 .. Len(s) - 1 /\ u[i - 1] = s[(i - 1) + 1] /\ (i - 1) + 1 = i
        BY <1>1, <2>2
      <3>2. u[i - 1] = x
        BY <2>1, <3>1
      <3> QED
        BY <1>1, <3>1, <3>2 DEF Range
    <2> QED
      BY <2>1, <2>2
  <1> QED
    BY <1>1, <1>2, <1>3, <1>4 DEF u

-----------------------------------------------------------------------------
(* The invariant. *)

\* What is declared is fixed when the adapter reads.
LEMMA Fixed ==
  ASSUME UNCHANGED <<adapter, declared>>
  PROVE  /\ Nulls' <=> Nulls
         /\ DeclaredOK' <=> DeclaredOK
         /\ Queries' = Queries
         /\ KeyNames' = KeyNames
         /\ \A query : ShowsNull(query)' <=> ShowsNull(query)
         /\ \A row : Sound(row)' <=> Sound(row)
  <1>1. \A kinds : Of(kinds)' = Of(kinds)
    BY DEF Of
  <1>2. Nulls' <=> Nulls
    BY <1>1 DEF Nulls
  <1>3. KeyNames' = KeyNames
    BY <1>1 DEF KeyNames
  <1>4. \A query : ShowsNull(query)' <=> ShowsNull(query)
    BY <1>1 DEF ShowsNull
  <1>5. \A row : Sound(row)' <=> Sound(row)
    BY <1>2, <1>3 DEF Sound
  <1>6. DeclaredOK' <=> DeclaredOK
    BY DEF DeclaredOK
  <1>7. Queries' = Queries
    BY DEF Queries
  <1> QED
    BY <1>2, <1>3, <1>4, <1>5, <1>6, <1>7

LEMMA RefusedIff ==
  /\ RefusedForNulls <=> (phase = "done" => ~Nulls) /\ (phase = "failed" => Nulls)
  /\ RefusedForNulls' <=> (phase' = "done" => ~Nulls') /\ (phase' = "failed" => Nulls')
  BY DEF RefusedForNulls, Nulls

LEMMA IInvInit == Init => IInv
  <1> SUFFICES ASSUME Init PROVE IInv
    OBVIOUS
  <1>1. /\ phase = "declaring" /\ declared = {} /\ queries = <<>> /\ rows = <<>>
        /\ result = [kind \in Kinds |-> <<>>] /\ adapter \in Adapters
    BY DEF Init
  <1>2. Range(<<>>) = {} /\ Len(<<>>) = 0 /\ \A T : <<>> \in Seq(T)
    BY EmptyDomain DEF Range
  <1>3. DeclaredOK
    BY <1>1, FS_EmptySet DEF DeclaredOK
  <1>4. QueriesOK
    BY <1>1, <1>2 DEF QueriesOK
  <1>5. RowsOK
    BY <1>1, <1>2 DEF RowsOK
  <1>6. result["pk"] = <<>> /\ result \in [Kinds -> Seq(EntrySet)]
    BY <1>1, <1>2 DEF Kinds
  <1>7. ResultOK
    BY <1>2, <1>6 DEF ResultOK
  <1>8. KeyOnce
    BY <1>1, <1>2, <1>6 DEF KeyOnce
  <1>9. NullAhead /\ RefusedForNulls
    BY <1>1, RefusedIff DEF NullAhead
  <1> QED
    BY <1>1, <1>3, <1>4, <1>5, <1>7, <1>8, <1>9 DEF IInv

LEMMA DeclareStep ==
  ASSUME IInv, NEW d \in Declarations, Declare(d)
  PROVE  IInv'
  <1>1. /\ phase = "declaring" /\ phase' = "declaring" /\ declared' = declared \cup {d}
        /\ Legal(d)
        /\ UNCHANGED <<adapter, queries, rows, result>>
    BY DEF Declare
  <1>2. /\ DeclaredOK /\ queries = <<>> /\ rows = <<>> /\ result = [kind \in Kinds |-> <<>>]
    BY <1>1 DEF IInv, QueriesOK
  <1>3. Range(<<>>) = {} /\ Len(<<>>) = 0 /\ \A T : <<>> \in Seq(T)
    BY EmptyDomain DEF Range
  <1>4. DeclaredOK'
    <2>1. adapter' \in Adapters
      BY <1>1, <1>2 DEF DeclaredOK
    <2>2. declared' \subseteq Declarations /\ IsFiniteSet(declared')
      BY <1>1, <1>2, FS_AddElement DEF DeclaredOK
    <2>3. \A b, c \in declared' : b.kind = "pk" /\ c.kind = "pk" /\ b.table = c.table => b = c
      BY <1>1, <1>2 DEF DeclaredOK, Legal
    <2>4. /\ d.kind = "fk" /\ d.toColumns = <<>> => adapter = "sqlite"
          /\ Null \in Range(d.columns) =>
               adapter \in IF d.kind = "trigger" THEN {"mssql"} ELSE {"sqlite", "mysql"}
      BY <1>1 DEF Legal
    <2> QED
      BY <1>1, <1>2, <2>1, <2>2, <2>3, <2>4 DEF DeclaredOK
  <1>5. QueriesOK'
    BY <1>1, <1>2, <1>3 DEF QueriesOK
  <1>6. RowsOK'
    BY <1>1, <1>2, <1>3 DEF RowsOK
  <1>7. result["pk"] = <<>> /\ result \in [Kinds -> Seq(EntrySet)]
    BY <1>2, <1>3 DEF Kinds
  <1>8. ResultOK'
    BY <1>1, <1>3, <1>7 DEF ResultOK
  <1>9. KeyOnce'
    BY <1>1, <1>3, <1>7 DEF KeyOnce
  <1>10. NullAhead' /\ RefusedForNulls'
    BY <1>1, RefusedIff DEF NullAhead
  <1> QED
    BY <1>1, <1>4, <1>5, <1>6, <1>8, <1>9, <1>10 DEF IInv

LEMMA StartStep ==
  ASSUME IInv, Start
  PROVE  IInv'
  <1>1. /\ phase = "declaring" /\ phase' = "reading" /\ queries' = Queries
        /\ UNCHANGED <<adapter, declared, rows, result>>
    BY DEF Start
  <1>2. DeclaredOK /\ RowsOK /\ ResultOK /\ rows = <<>> /\ result = [kind \in Kinds |-> <<>>]
    BY <1>1 DEF IInv, QueriesOK
  <1>3. /\ Queries' = Queries /\ (Nulls' <=> Nulls) /\ KeyNames' = KeyNames
        /\ \A query : ShowsNull(query)' <=> ShowsNull(query)
        /\ DeclaredOK' /\ \A row : Sound(row)' <=> Sound(row)
    BY <1>1, <1>2, Fixed
  <1>4. Range(<<>>) = {} /\ Len(<<>>) = 0
    BY EmptyDomain DEF Range
  <1>5. QueriesOK'
    BY <1>1, <1>2, <1>3, QueriesParts DEF QueriesOK
  <1>6. RowsOK' /\ ResultOK'
    BY <1>1, <1>2, <1>3 DEF RowsOK, ResultOK
  <1>7. result["pk"] = <<>>
    BY <1>2 DEF Kinds
  <1>8. KeyOnce'
    BY <1>1, <1>2, <1>3, <1>4, <1>7 DEF KeyOnce
  <1>9. NullAhead'
    BY <1>1, <1>2, <1>3, NullsShow DEF NullAhead
  <1>10. RefusedForNulls'
    BY <1>1, RefusedIff
  <1> QED
    BY <1>1, <1>3, <1>5, <1>6, <1>8, <1>9, <1>10 DEF IInv

LEMMA AskStep ==
  ASSUME IInv, Ask
  PROVE  IInv'
  <1> DEFINE query == Head(queries)
  <1>1. /\ phase = "reading" /\ phase' = "reading" /\ rows = <<>> /\ queries # <<>>
        /\ rows' = Answer(query) /\ queries' = Tail(queries)
        /\ UNCHANGED <<adapter, declared, result>>
    BY DEF Ask, Reading
  <1>2. DeclaredOK /\ QueriesOK /\ ResultOK /\ KeyOnce /\ NullAhead
    BY DEF IInv
  <1>3. /\ Queries' = Queries /\ (Nulls' <=> Nulls) /\ KeyNames' = KeyNames
        /\ \A q : ShowsNull(q)' <=> ShowsNull(q)
        /\ DeclaredOK' /\ \A row : Sound(row)' <=> Sound(row)
    BY <1>1, <1>2, Fixed
  <1>4. PICK T : queries \in Seq(T)
    BY <1>2 DEF QueriesOK
  <1>5. /\ query \in Range(queries) /\ query \in Range(Queries)
        /\ Tail(queries) \in Seq(T) /\ Range(queries) = {query} \cup Range(Tail(queries))
        /\ Range(Tail(queries)) \subseteq Range(Queries)
    <2>1. /\ query \in Range(queries) /\ Tail(queries) \in Seq(T)
          /\ Range(queries) = {query} \cup Range(Tail(queries))
      BY <1>1, <1>4, Rest
    <2>2. Range(queries) \subseteq Range(Queries)
      BY <1>2 DEF QueriesOK
    <2> QED
      BY <2>1, <2>2
  <1> HIDE DEF query
  <1>6. /\ SoundList(Answer(query))
        /\ adapter = "postgres" =>
             query \in Kinds /\ \A r \in Range(Answer(query)) : r.into = query
    BY <1>2, <1>5, AnswerSound
  <1>7. QueriesOK'
    BY <1>1, <1>3, <1>5 DEF QueriesOK
  <1>8. RowsOK' /\ ResultOK'
    BY <1>1, <1>2, <1>3, <1>6 DEF RowsOK, ResultOK, SoundList
  <1>9. KeyOnce'
    <2>1. Len(result'["pk"]) <= 1
      BY <1>1, <1>2 DEF KeyOnce
    <2>2. ASSUME adapter = "postgres"
          PROVE  "pk" \notin Range(queries')
      <3>1. "pk" \in Range(Tail(queries)) => queries = Queries
        BY <1>1, <1>2, <1>5, <2>2 DEF KeyOnce
      <3>2. "pk" \notin Range(Tail(Queries))
        BY <1>2, <2>2, QueriesParts
      <3> QED
        BY <1>1, <3>1, <3>2
    <2>3. ASSUME adapter = "postgres", NEW row \in Range(rows'), row.into = "pk"
          PROVE  Len(rows') = 1 /\ result'["pk"] = <<>>
      <3>1. query = "pk"
        BY <1>1, <1>6, <2>3
      <3>2. result["pk"] = <<>>
        BY <1>1, <1>2, <1>5, <2>3, <3>1 DEF KeyOnce
      <3>3. rows' = WholeRows("pk")
        BY <1>1, <3>1 DEF Answer, Kinds
      <3>4. Len(rows') <= 1
        BY <1>2, <3>3, OneKeyRow
      <3>5. rows' \in Seq(RowSet) /\ rows' # <<>>
        BY <1>1, <1>6, <2>3, EmptyDomain DEF SoundList, Range
      <3>6. Len(rows') \in Nat /\ Len(rows') # 0
        BY <3>5
      <3> DEFINE n == Len(rows')
      <3> HIDE DEF n
      <3>7. n \in Nat /\ n # 0 /\ n <= 1
        BY <3>4, <3>6, Zenon DEF n
      <3>8. n = 1
        BY <3>7
      <3> QED
        BY <1>1, <3>2, <3>8 DEF n
    <2> QED
      BY <1>1, <2>1, <2>2, <2>3 DEF KeyOnce
  <1>10. NullAhead'
    <2> SUFFICES ASSUME Nulls
                 PROVE  \/ \E row \in Range(rows') : Unreadable(row)
                        \/ \E q \in Range(queries') : ShowsNull(q)
      BY <1>3 DEF NullAhead
    <2>1. Range(rows) = {}
      BY <1>1, EmptyDomain DEF Range
    <2>2. PICK q \in Range(queries) : ShowsNull(q)
      BY <1>1, <1>2, <2>1 DEF NullAhead
    <2>3. q = query => \E row \in Range(rows') : Unreadable(row)
      BY <1>1, <1>2, <1>5, <2>2, NullsShow
    <2> QED
      BY <1>1, <1>5, <2>2, <2>3
  <1>11. RefusedForNulls'
    BY <1>1, RefusedIff
  <1> QED
    BY <1>1, <1>3, <1>7, <1>8, <1>9, <1>10, <1>11 DEF IInv

LEMMA ReadStep ==
  ASSUME IInv, Read
  PROVE  IInv'
  <1> DEFINE row == Head(rows)
  <1>1. /\ phase = "reading" /\ rows # <<>>
        /\ UNCHANGED <<adapter, declared, queries>>
        /\ \/ Unreadable(row) /\ phase' = "failed" /\ UNCHANGED <<rows, result>>
           \/ /\ ~Unreadable(row) /\ phase' = "reading" /\ rows' = Tail(rows)
              /\ result' = IF row.into = "target"
                           THEN [result EXCEPT !["fk"] = SetTarget(result["fk"], row)]
                           ELSE [result EXCEPT ![row.into] = Put(result[row.into], row)]
    BY DEF Read, Reading
  <1>2. DeclaredOK /\ QueriesOK /\ RowsOK /\ ResultOK /\ KeyOnce /\ NullAhead
    BY DEF IInv
  <1>3. /\ Queries' = Queries /\ (Nulls' <=> Nulls) /\ KeyNames' = KeyNames
        /\ \A q : ShowsNull(q)' <=> ShowsNull(q)
        /\ DeclaredOK' /\ \A r : Sound(r)' <=> Sound(r)
    BY <1>1, <1>2, Fixed
  <1>4. /\ row \in RowSet /\ row \in Range(rows) /\ Tail(rows) \in Seq(RowSet)
        /\ Len(rows) \in Nat /\ Len(Tail(rows)) = Len(rows) - 1
        /\ Range(rows) = {row} \cup Range(Tail(rows))
    <2>1. rows \in Seq(RowSet)
      BY <1>2 DEF RowsOK
    <2> QED
      BY <1>1, <2>1, Rest
  <1>5. Sound(row)
    BY <1>2, <1>4 DEF RowsOK
  <1>6. QueriesOK'
    BY <1>1, <1>2, <1>3 DEF QueriesOK
  <1> HIDE DEF row
  <1>7. CASE Unreadable(row) /\ phase' = "failed" /\ UNCHANGED <<rows, result>>
    <2>1. RowsOK' /\ ResultOK'
      BY <1>2, <1>3, <1>7 DEF RowsOK, ResultOK
    <2>2. KeyOnce' /\ NullAhead'
      BY <1>1, <1>2, <1>7 DEF KeyOnce, NullAhead
    <2>3. RefusedForNulls'
      BY <1>3, <1>5, <1>7, RefusedIff DEF Sound
    <2> QED
      BY <1>3, <1>6, <1>7, <2>1, <2>2, <2>3 DEF IInv
  <1>8. CASE ~Unreadable(row)
    <2>1. /\ phase' = "reading" /\ rows' = Tail(rows)
          /\ result' = IF row.into = "target"
                       THEN [result EXCEPT !["fk"] = SetTarget(result["fk"], row)]
                       ELSE [result EXCEPT ![row.into] = Put(result[row.into], row)]
      BY <1>1, <1>8
    <2>2. RowsOK'
      BY <1>2, <1>3, <1>4, <2>1 DEF RowsOK
    <2>3. Readable(row) /\ row.into \in Kinds \cup {"target"}
      BY <1>4, <1>8, ReadableColumns DEF Readable, Unreadable
    <2>4. result \in [Kinds -> Seq(EntrySet)] /\ \A kind \in Kinds : result[kind] \in Seq(EntrySet)
      BY <1>2 DEF ResultOK
    <2>5. row.into # "target" => row.into \in Kinds
      BY <2>3
    <2>6. result' \in [Kinds -> Seq(EntrySet)]
      <3>1. CASE row.into = "target"
        <4>1. SetTarget(result["fk"], row) \in Seq(EntrySet)
          BY <2>3, <2>4, SetTargetType DEF Kinds
        <4> QED
          BY <2>1, <2>4, <3>1, <4>1
      <3>2. CASE row.into # "target"
        <4>1. Put(result[row.into], row) \in Seq(EntrySet)
          BY <2>3, <2>4, <2>5, <3>2, PutParts
        <4> QED
          BY <2>1, <2>4, <3>2, <4>1
      <3> QED
        BY <3>1, <3>2
    <2>7. row.into # "pk" => result'["pk"] = result["pk"]
      BY <2>1, <2>4 DEF Kinds
    <2>8. row.into = "pk" => /\ result'["pk"] = Put(result["pk"], row)
                             /\ row.name \in KeyNames
      BY <1>5, <2>1, <2>4 DEF Kinds, Sound
    <2>9. result["pk"] \in Seq(EntrySet) /\ \A e \in Range(result["pk"]) : e.name \in KeyNames
      BY <1>2, <2>4 DEF ResultOK, Kinds
    <2>10. ResultOK'
      <3>1. \A e \in Range(result'["pk"]) : e.name \in KeyNames
        <4>1. CASE row.into # "pk"
          BY <2>7, <2>9, <4>1
        <4>2. CASE row.into = "pk"
          <5> DEFINE entries == result["pk"]
                     put == Put(entries, row)
          <5>1. entries \in Seq(EntrySet) /\ \A e \in Range(entries) : e.name \in KeyNames
            BY <2>9
          <5> HIDE DEF entries
          <5>2. \A e \in Range(put) : e.name = row.name \/ \E g \in Range(entries) : e.name = g.name
            BY <2>3, <5>1, PutParts
          <5>3. result'["pk"] = put /\ row.name \in KeyNames
            BY <2>8, <4>2 DEF entries
          <5> HIDE DEF put
          <5> QED
            BY <5>1, <5>2, <5>3
        <4> QED
          BY <4>1, <4>2
      <3> QED
        BY <1>3, <2>6, <3>1 DEF ResultOK
    <2>11. Len(result'["pk"]) <= 1
      <3>1. CASE row.into # "pk"
        BY <1>2, <2>7, <3>1 DEF KeyOnce
      <3>2. CASE row.into = "pk"
        <4> DEFINE entries == result["pk"]
        <4>1. entries \in Seq(EntrySet) /\ Len(entries) <= 1 /\ Len(entries) \in Nat
          BY <1>2, <2>9 DEF KeyOnce
        <4>2. CASE entries = <<>>
          <5>1. Len(Put(entries, row)) = 1
            BY <2>3, <4>1, <4>2, PutParts
          <5>2. result'["pk"] = Put(entries, row)
            BY <2>8, <3>2
          <5>3. Len(result'["pk"]) = 1
            BY <5>1, <5>2, Zenon
          <5> QED
            BY <5>3
        <4>3. CASE entries # <<>>
          <5>1. Grouped(row)
            <6>1. adapter = "postgres" => entries = <<>>
              BY <1>1, <1>2, <1>4, <3>2 DEF KeyOnce
            <6> QED
              BY <3>2, <4>3, <6>1 DEF Grouped
          <5>2. 1 \in DOMAIN entries
            BY <4>1, <4>3
          <5>3. entries[1].name = row.name
            <6>1. entries[1] \in Range(entries)
              BY <5>2 DEF Range
            <6>2. entries[1].name \in KeyNames
              BY <2>9, <6>1
            <6> QED
              BY <1>2, <2>8, <3>2, <6>2, OneKeyName
          <5> HIDE DEF entries
          <5>4. Len(Put(entries, row)) = Len(entries)
            BY <2>3, <4>1, <5>1, <5>2, <5>3, PutParts
          <5> QED
            BY <2>8, <3>2, <4>1, <5>4 DEF entries
        <4> QED
          BY <4>2, <4>3
      <3> QED
        BY <3>1, <3>2
    <2>12. KeyOnce'
      <3> SUFFICES ASSUME adapter = "postgres"
                   PROVE  /\ "pk" \notin Range(queries)
                          /\ ~\E r \in Range(rows') : r.into = "pk"
        BY <1>1, <2>11 DEF KeyOnce
      <3>1. "pk" \notin Range(queries)
        BY <1>1, <1>2 DEF KeyOnce
      <3>2. ASSUME NEW r \in Range(rows'), r.into = "pk" PROVE FALSE
        <4>1. Len(rows) = 1
          BY <1>1, <1>2, <1>4, <2>1, <3>2 DEF KeyOnce
        <4>2. Len(Tail(rows)) = 0
          BY <1>4, <4>1
        <4> DEFINE rest == Tail(rows)
        <4>3. rest \in Seq(RowSet) /\ Len(rest) = 0
          BY <1>4, <4>2
        <4> HIDE DEF rest
        <4>4. DOMAIN rest = {}
          BY <4>3
        <4>5. Range(rest) = {}
          BY <4>4 DEF Range
        <4> QED
          BY <2>1, <3>2, <4>5 DEF rest
      <3> QED
        BY <3>1, <3>2
    <2>13. NullAhead'
      BY <1>1, <1>2, <1>3, <1>4, <1>8, <2>1 DEF NullAhead
    <2>14. RefusedForNulls'
      BY <2>1, RefusedIff
    <2> QED
      BY <1>3, <1>6, <2>1, <2>2, <2>10, <2>12, <2>13, <2>14 DEF IInv
  <1> QED
    BY <1>1, <1>7, <1>8

LEMMA FinishStep ==
  ASSUME IInv, Finish
  PROVE  IInv'
  <1>1. /\ phase = "reading" /\ phase' = "done" /\ rows = <<>> /\ queries = <<>>
        /\ UNCHANGED <<adapter, declared, queries, rows, result>>
    BY DEF Finish, Reading
  <1>2. DeclaredOK /\ QueriesOK /\ RowsOK /\ ResultOK /\ KeyOnce /\ NullAhead
    BY DEF IInv
  <1>3. /\ Queries' = Queries /\ (Nulls' <=> Nulls) /\ KeyNames' = KeyNames
        /\ DeclaredOK' /\ \A r : Sound(r)' <=> Sound(r)
    BY <1>1, <1>2, Fixed
  <1>4. QueriesOK' /\ RowsOK' /\ ResultOK'
    BY <1>1, <1>2, <1>3 DEF QueriesOK, RowsOK, ResultOK
  <1>5. KeyOnce' /\ NullAhead'
    BY <1>1, <1>2 DEF KeyOnce, NullAhead
  <1>6. ~Nulls
    <2>1. Range(rows) = {} /\ Range(queries) = {}
      BY <1>1, EmptyDomain DEF Range
    <2> QED
      BY <1>1, <1>2, <2>1 DEF NullAhead
  <1>7. RefusedForNulls'
    BY <1>1, <1>3, <1>6, RefusedIff
  <1> QED
    BY <1>1, <1>3, <1>4, <1>5, <1>7 DEF IInv

LEMMA IInvNext == IInv /\ [Next]_vars => IInv'
  <1> SUFFICES ASSUME IInv, [Next]_vars PROVE IInv'
    OBVIOUS
  <1>1. CASE \E d \in Declarations : Declare(d)
    BY <1>1, DeclareStep
  <1>2. CASE Start
    BY <1>2, StartStep
  <1>3. CASE Ask
    BY <1>3, AskStep
  <1>4. CASE Read
    BY <1>4, ReadStep
  <1>5. CASE Finish
    BY <1>5, FinishStep
  <1>6. CASE UNCHANGED vars
    <2>1. UNCHANGED <<adapter, declared, phase, queries, rows, result>>
      BY <1>6 DEF vars
    <2>2. /\ Queries' = Queries /\ (Nulls' <=> Nulls) /\ KeyNames' = KeyNames
          /\ \A q : ShowsNull(q)' <=> ShowsNull(q)
          /\ DeclaredOK' /\ \A r : Sound(r)' <=> Sound(r)
      BY <2>1, Fixed DEF IInv
    <2>3. QueriesOK' /\ RowsOK' /\ ResultOK' /\ KeyOnce' /\ NullAhead'
      BY <2>1, <2>2 DEF IInv, QueriesOK, RowsOK, ResultOK, KeyOnce, NullAhead
    <2>4. RefusedForNulls'
      BY <2>1, <2>2, RefusedIff DEF IInv
    <2> QED
      BY <2>1, <2>2, <2>3, <2>4 DEF IInv
  <1> QED
    BY <1>1, <1>2, <1>3, <1>4, <1>5, <1>6 DEF Next

\* Every reachable state satisfies the invariant.
THEOREM Invariant == Spec => []IInv
  BY IInvInit, IInvNext, PTL DEF Spec

\* Whatever is declared, and in whatever order the rows come, no NULL is taken for a
\* column, no entry has a name that no declaration has, and there is one primary key.
THEOREM TypeCorrect == Spec => []TypeOK
  <1>1. IInv => TypeOK
    <2> SUFFICES ASSUME IInv PROVE TypeOK
      OBVIOUS
    <2>1. ASSUME NEW kind \in Kinds, NEW i \in DOMAIN result[kind]
          PROVE  EntryType(result[kind][i])
      <3> DEFINE e == result[kind][i]
      <3>1. e \in EntrySet
        BY DEF IInv, ResultOK
      <3> HIDE DEF e
      <3>2. e.name \in Names /\ e.columns \in Seq(Values \ {Null})
            /\ e.toColumns \in Seq(Values \ {Null})
        BY <3>1 DEF EntrySet
      <3>3. Null \notin Range(e.columns) /\ Null \notin Range(e.toColumns)
        BY <3>2 DEF Range
      <3> QED
        BY <3>2, <3>3 DEF EntryType, Names, e
    <2> QED
      BY <2>1 DEF IInv, TypeOK, DeclaredOK, KeyOnce
  <1> QED
    BY <1>1, Invariant, PTL

\* An extraction fails over a NULL in the catalogue, whenever there is one and for no
\* other reason.
THEOREM RefusedOnlyForNulls == Spec => []RefusedForNulls
  BY Invariant, PTL DEF IInv

-----------------------------------------------------------------------------
(* Lists that a list gives. *)

\* A list that p gives for each member of s, one after another.
Cat(s, p) == FlattenSeq([i \in DOMAIN s |-> p[s[i]]])

\* What p gives for a member of X is a list over T.
Gives(p, X, T) == \A x \in X : p[x] \in Seq(T)

\* What Cat makes of a list one longer.
LEMMA CatEmpty == ASSUME NEW p PROVE Cat(<<>>, p) = <<>>
  <1> DEFINE q == [i \in DOMAIN <<>> |-> p[<<>>[i]]]
  <1>1. q = <<>>
    OBVIOUS
  <1> HIDE DEF q
  <1> QED
    BY <1>1, FlattenEmpty DEF Cat, q

LEMMA CatAppend ==
  ASSUME NEW X, NEW T, NEW p, Gives(p, X, T), NEW s \in Seq(X), NEW x \in X
  PROVE  /\ Cat(s, p) \in Seq(T)
         /\ Cat(Append(s, x), p) = Cat(s, p) \o p[x]
  <1> DEFINE u == Append(s, x)
             lists == [i \in DOMAIN s |-> p[s[i]]]
             more == [i \in DOMAIN u |-> p[u[i]]]
             l == Len(s)
  <1>1. /\ l \in Nat /\ DOMAIN s = 1 .. l /\ DOMAIN u = 1 .. l + 1
        /\ \A i \in 1 .. l : u[i] = s[i]
        /\ u[l + 1] = x
    BY AppendParts
  <1>2. \A i \in 1 .. l : s[i] \in X /\ p[s[i]] \in Seq(T)
    BY DEF Gives
  <1>a. p[x] \in Seq(T)
    BY DEF Gives
  <1> HIDE DEF u, l
  <1>3. lists \in Seq(Seq(T)) /\ Len(lists) = l /\ DOMAIN lists = 1 .. l
    <2>1. lists \in [1 .. l -> Seq(T)]
      BY <1>1, <1>2
    <2> QED
      BY <1>1, <2>1
  <1>4. more = Append(lists, p[x])
    <2> DEFINE a == Append(lists, p[x])
    <2>1. /\ DOMAIN a = 1 .. l + 1 /\ \A i \in 1 .. l : a[i] = lists[i]
          /\ a[l + 1] = p[x] /\ a = [i \in 1 .. l + 1 |-> a[i]]
      BY <1>3, <1>a, AppendParts
    <2> HIDE DEF a
    <2>2. \A i \in 1 .. l + 1 : a[i] = p[u[i]]
      <3> SUFFICES ASSUME NEW i \in 1 .. l + 1 PROVE a[i] = p[u[i]]
        OBVIOUS
      <3>1. i \in 1 .. l \/ i = l + 1
        BY <1>1
      <3> QED
        BY <1>1, <2>1, <3>1
    <2>3. a = more
      BY <1>1, <2>1, <2>2
    <2> QED
      BY <2>3 DEF a
  <1> HIDE DEF lists, more
  <1>5. FlattenSeq(lists) \in Seq(T)
    BY <1>3, FlattenParts
  <1>6. FlattenSeq(more) = FlattenSeq(lists) \o p[x]
    BY <1>3, <1>4, <1>a, FlattenAppend
  <1> QED
    BY <1>5, <1>6 DEF Cat, lists, more, u

LEMMA CatParts ==
  ASSUME NEW X, NEW T, NEW p, Gives(p, X, T), NEW s \in Seq(X)
  PROVE  /\ Cat(s, p) \in Seq(T)
         /\ \A y : y \in Range(Cat(s, p)) <=> \E i \in DOMAIN s : y \in Range(p[s[i]])
  <1> DEFINE lists == [i \in DOMAIN s |-> p[s[i]]]
  <1>1. DOMAIN s = 1 .. Len(s) /\ Len(s) \in Nat /\ \A i \in DOMAIN s : p[s[i]] \in Seq(T)
    BY DEF Gives
  <1>2. lists \in Seq(Seq(T)) /\ DOMAIN lists = DOMAIN s /\ \A i \in DOMAIN s : lists[i] = p[s[i]]
    <2>1. lists \in [1 .. Len(s) -> Seq(T)]
      BY <1>1
    <2> QED
      BY <1>1, <2>1
  <1> HIDE DEF lists
  <1>3. /\ FlattenSeq(lists) \in Seq(T)
        /\ \A y : y \in Range(FlattenSeq(lists)) <=> \E i \in DOMAIN lists : y \in Range(lists[i])
    BY <1>2, FlattenParts
  <1>4. Cat(s, p) = FlattenSeq(lists)
    BY DEF Cat, lists
  <1> QED
    BY <1>2, <1>3, <1>4

LEMMA CatConcat ==
  ASSUME NEW X, NEW T, NEW p, Gives(p, X, T), NEW s \in Seq(X), NEW u \in Seq(X)
  PROVE  Cat(s \o u, p) = Cat(s, p) \o Cat(u, p)
  <1> DEFINE S == {v \in Seq(X) : Cat(s \o v, p) = Cat(s, p) \o Cat(v, p)}
  <1>1. <<>> \in S
    <2>1. Cat(s, p) \in Seq(T) /\ s \o <<>> = s
      BY CatParts
    <2>2. Cat(s, p) \o <<>> = Cat(s, p)
      BY <2>1
    <2>3. <<>> \in Seq(X)
      OBVIOUS
    <2> QED
      BY <2>1, <2>2, <2>3, CatEmpty
  <1>2. \A v \in Seq(X) : \A x \in X : v \in S => Append(v, x) \in S
    <2> SUFFICES ASSUME NEW v \in Seq(X), NEW x \in X, v \in S PROVE Append(v, x) \in S
      OBVIOUS
    <2>1. s \o v \in Seq(X) /\ s \o Append(v, x) = Append(s \o v, x) /\ Append(v, x) \in Seq(X)
      OBVIOUS
    <2>2. Cat(Append(s \o v, x), p) = Cat(s \o v, p) \o p[x]
      <3> DEFINE w == s \o v
      <3>1. w \in Seq(X)
        BY <2>1
      <3> HIDE DEF w
      <3>2. Cat(Append(w, x), p) = Cat(w, p) \o p[x]
        BY <3>1, CatAppend
      <3> QED
        BY <3>2 DEF w
    <2>3. Cat(Append(v, x), p) = Cat(v, p) \o p[x]
      BY CatAppend
    <2>4. Cat(s, p) \in Seq(T) /\ Cat(v, p) \in Seq(T) /\ p[x] \in Seq(T)
      BY CatParts DEF Gives
    <2>5. (Cat(s, p) \o Cat(v, p)) \o p[x] = Cat(s, p) \o (Cat(v, p) \o p[x])
      <3>1. \A a, b, c \in Seq(T) : (a \o b) \o c = a \o (b \o c)
        BY ConcatAssociative
      <3> QED
        BY <2>4, <3>1
    <2>6. Cat(s \o v, p) = Cat(s, p) \o Cat(v, p)
      OBVIOUS
    <2>7. Cat(s \o Append(v, x), p) = Cat(s, p) \o Cat(Append(v, x), p)
      BY <2>1, <2>2, <2>3, <2>5, <2>6, Zenon
    <2> QED
      BY <2>1, <2>7
  <1> HIDE DEF S
  <1>3. Seq(X) \subseteq S
    BY <1>1, <1>2, InductionOnLists, Zenon
  <1> QED
    BY <1>3 DEF S

\* Cat of what Cat has made.
LEMMA CatCat ==
  ASSUME NEW X, NEW R, NEW f, Gives(f, X, R),
         NEW T, NEW p, Gives(p, R, T), NEW s \in Seq(X)
  PROVE  Cat(Cat(s, f), p) = Cat(s, [x \in X |-> Cat(f[x], p)])
  <1> DEFINE g == [x \in X |-> Cat(f[x], p)]
             S == {v \in Seq(X) : Cat(Cat(v, f), p) = Cat(v, g)}
  <1>0. /\ \A x \in X : g[x] = Cat(f[x], p) /\ g[x] \in Seq(T)
        /\ Gives(g, X, T)
    <2>1. \A x \in X : Cat(f[x], p) \in Seq(T)
      BY CatParts DEF Gives
    <2> QED
      BY <2>1 DEF Gives
  <1> HIDE DEF g
  <1>1. <<>> \in S
    <2>1. <<>> \in Seq(X)
      OBVIOUS
    <2>2. Cat(<<>>, f) = <<>> /\ Cat(<<>>, p) = <<>> /\ Cat(<<>>, g) = <<>>
      BY CatEmpty
    <2> QED
      BY <2>1, <2>2
  <1>2. \A v \in Seq(X) : \A x \in X : v \in S => Append(v, x) \in S
    <2> SUFFICES ASSUME NEW v \in Seq(X), NEW x \in X, v \in S PROVE Append(v, x) \in S
      OBVIOUS
    <2>1. Append(v, x) \in Seq(X)
      OBVIOUS
    <2>a. f[x] \in Seq(R)
      BY DEF Gives
    <2>2. Cat(v, f) \in Seq(R) /\ Cat(Append(v, x), f) = Cat(v, f) \o f[x]
      BY CatAppend
    <2>3. Cat(Cat(v, f) \o f[x], p) = Cat(Cat(v, f), p) \o Cat(f[x], p)
      <3> DEFINE a == Cat(v, f)
                 b == f[x]
      <3>1. a \in Seq(R) /\ b \in Seq(R)
        BY <2>a, <2>2
      <3> HIDE DEF a, b
      <3>2. Cat(a \o b, p) = Cat(a, p) \o Cat(b, p)
        BY <3>1, CatConcat
      <3> QED
        BY <3>2 DEF a, b
    <2>4. Cat(Append(v, x), g) = Cat(v, g) \o g[x]
      BY <1>0, CatAppend
    <2>5. Cat(Cat(v, f), p) = Cat(v, g) /\ g[x] = Cat(f[x], p)
      BY <1>0
    <2>6. Cat(Cat(Append(v, x), f), p) = Cat(Append(v, x), g)
      BY <2>2, <2>3, <2>4, <2>5, Zenon
    <2> QED
      BY <2>1, <2>6
  <1> HIDE DEF S
  <1>3. Seq(X) \subseteq S
    BY <1>1, <1>2, InductionOnLists, Zenon
  <1> QED
    BY <1>3 DEF S, g

\* Members that give nothing.
LEMMA CatNone ==
  ASSUME NEW p, NEW s, Len(s) \in Nat, DOMAIN s = 1 .. Len(s), \A i \in DOMAIN s : p[s[i]] = <<>>
  PROVE  Cat(s, p) = <<>>
  <1> DEFINE lists == [i \in DOMAIN s |-> p[s[i]]]
  <1>1. lists \in Seq(Seq({})) /\ DOMAIN lists = DOMAIN s /\ \A i \in DOMAIN lists : lists[i] = <<>>
    <2>1. <<>> \in Seq({})
      OBVIOUS
    <2>2. lists \in [1 .. Len(s) -> Seq({})]
      BY <2>1
    <2> QED
      BY <2>2
  <1>2. Cat(s, p) = FlattenSeq(lists)
    BY DEF Cat
  <1> HIDE DEF lists
  <1>3. FlattenSeq(lists) \in Seq({})
    BY <1>1, FlattenParts
  <1>4. \A u \in Seq({}) : u = <<>>
    OBVIOUS
  <1> QED
    BY <1>2, <1>3, <1>4

\* One member only that gives something.
LEMMA CatOne ==
  ASSUME NEW X, NEW T, NEW p, Gives(p, X, T), NEW s \in Seq(X), IsInjective(s),
         NEW x \in Range(s), \A y \in Range(s) : y # x => p[y] = <<>>
  PROVE  Cat(s, p) = p[x]
  <1> DEFINE Right(v) == IF x \in Range(v) THEN Cat(v, p) = p[x] ELSE Cat(v, p) = <<>>
             Good(v) == IsInjective(v) /\ (\A y \in Range(v) : y # x => p[y] = <<>>) => Right(v)
             S == {v \in Seq(X) : Good(v)}
  <1>0. x \in X
    BY DEF Range
  <1>1. <<>> \in S
    <2>1. <<>> \in Seq(X) /\ Range(<<>>) = {}
      BY EmptyDomain DEF Range
    <2> QED
      BY <2>1, CatEmpty
  <1>2. \A v \in Seq(X) : \A z \in X : v \in S => Append(v, z) \in S
    <2> SUFFICES ASSUME NEW v \in Seq(X), NEW z \in X, v \in S,
                        IsInjective(Append(v, z)),
                        \A y \in Range(Append(v, z)) : y # x => p[y] = <<>>
                 PROVE  Right(Append(v, z))
      <3>1. \A u \in Seq(X) : \A y \in X : Append(u, y) \in Seq(X)
        OBVIOUS
      <3> HIDE DEF Right
      <3> QED
        BY <3>1
    <2> DEFINE w == Append(v, z)
               l == Len(v)
    <2>1. /\ l \in Nat /\ DOMAIN v = 1 .. l /\ DOMAIN w = 1 .. l + 1 /\ w \in Seq(X)
          /\ \A i \in 1 .. l : w[i] = v[i]
          /\ w[l + 1] = z
      BY AppendParts
    <2>2. Range(w) = Range(v) \cup {z}
      BY RangeOfAppend
    <2>a. p[z] \in Seq(T) /\ p[x] \in Seq(T)
      BY <1>0 DEF Gives
    <2>3. Cat(v, p) \in Seq(T) /\ Cat(w, p) = Cat(v, p) \o p[z]
      BY CatAppend
    <2>4. IsInjective(w) /\ \A y \in Range(w) : y # x => p[y] = <<>>
      OBVIOUS
    <2> HIDE DEF w, l
    <2>5. IsInjective(v) /\ z \notin Range(v)
      <3>1. \A i, j \in 1 .. l + 1 : w[i] = w[j] => i = j
        BY <2>1, <2>4 DEF IsInjective
      <3>2. IsInjective(v)
        BY <2>1, <3>1 DEF IsInjective
      <3>3. \A i \in 1 .. l : v[i] # z
        <4> SUFFICES ASSUME NEW i \in 1 .. l, v[i] = z PROVE FALSE
          OBVIOUS
        <4>1. i \in 1 .. l + 1 /\ l + 1 \in 1 .. l + 1 /\ i # l + 1
          BY <2>1
        <4>2. w[i] = w[l + 1]
          BY <2>1
        <4> QED
          BY <3>1, <4>1, <4>2
      <3> QED
        BY <2>1, <3>2, <3>3 DEF Range
    <2>6. Right(v)
      BY <2>2, <2>4, <2>5
    <2>7. Right(w)
      <3>1. \A u \in Seq(T) : <<>> \o u = u /\ u \o <<>> = u
        OBVIOUS
      <3>2. CASE z = x
        BY <2>2, <2>3, <2>5, <2>6, <2>a, <3>1, <3>2
      <3>3. CASE z # x
        <4>1. p[z] = <<>>
          BY <2>2, <2>4, <3>3
        <4> QED
          BY <2>2, <2>3, <2>6, <3>1, <3>3, <4>1
      <3> QED
        BY <3>2, <3>3
    <2> QED
      BY <2>7 DEF w
  <1> HIDE DEF S
  <1>3. Seq(X) \subseteq S
    BY <1>1, <1>2, InductionOnLists, Zenon
  <1>4. Good(s)
    BY <1>3 DEF S
  <1> QED
    BY <1>4

\* Members that give one thing each.
LEMMA CatSingles ==
  ASSUME NEW X, NEW T, NEW p, Gives(p, X, T), NEW s \in Seq(X),
         NEW w \in Seq(T), DOMAIN w = DOMAIN s, \A k \in DOMAIN s : p[s[k]] = <<w[k]>>
  PROVE  Cat(s, p) = w
  <1> DEFINE firsts(v) == [k \in DOMAIN v |-> p[v[k]][1]]
             single(v) == \A k \in DOMAIN v : Len(p[v[k]]) = 1
             S == {v \in Seq(X) : single(v) => Cat(v, p) = firsts(v)}
  <1>1. <<>> \in S
    <2>1. <<>> \in Seq(X) /\ firsts(<<>>) = <<>>
      OBVIOUS
    <2> QED
      BY <2>1, CatEmpty
  <1>2. \A v \in Seq(X) : \A x \in X : v \in S => Append(v, x) \in S
    <2> SUFFICES ASSUME NEW v \in Seq(X), NEW x \in X, v \in S, single(Append(v, x))
                 PROVE  Cat(Append(v, x), p) = firsts(Append(v, x))
      <3>1. \A u \in Seq(X) : \A y \in X : Append(u, y) \in Seq(X)
        OBVIOUS
      <3> HIDE DEF single, firsts
      <3> QED
        BY <3>1
    <2> DEFINE u == Append(v, x)
               l == Len(v)
    <2>1. /\ l \in Nat /\ DOMAIN v = 1 .. l /\ DOMAIN u = 1 .. l + 1
          /\ \A i \in 1 .. l : u[i] = v[i]
          /\ u[l + 1] = x
      BY AppendParts
    <2>2. Cat(u, p) = Cat(v, p) \o p[x]
      BY CatAppend
    <2> HIDE DEF u, l
    <2>3. single(v) /\ Len(p[x]) = 1
      <3>1. \A i \in 1 .. l + 1 : Len(p[u[i]]) = 1
        BY <2>1 DEF u
      <3>2. 1 .. l \subseteq 1 .. l + 1 /\ l + 1 \in 1 .. l + 1
        BY <2>1
      <3> QED
        BY <2>1, <3>1, <3>2
    <2>4. Cat(v, p) = firsts(v)
      <3> HIDE DEF firsts, single
      <3> QED
        BY <2>3
    <2>5. p[x] \in Seq(T) /\ \A i \in 1 .. l : p[v[i]] \in Seq(T)
      BY <2>1 DEF Gives
    <2>6. p[x] = <<p[x][1]>> /\ p[x][1] \in T
      BY <2>3, <2>5
    <2>7. ASSUME NEW i \in 1 .. l PROVE p[v[i]][1] \in T
      <3>1. p[v[i]] \in Seq(T) /\ Len(p[v[i]]) = 1
        BY <2>1, <2>3, <2>5
      <3> QED
        BY <3>1
    <2>8. firsts(v) \in Seq(T) /\ DOMAIN firsts(v) = 1 .. l /\ Len(firsts(v)) = l
      BY <2>1, <2>7
    <2>9. firsts(v) \o p[x] = firsts(u)
      <3> DEFINE a == firsts(v)
                 y == p[x][1]
      <3>1. /\ a \in Seq(T) /\ DOMAIN a = 1 .. l /\ Len(a) = l /\ y \in T /\ p[x] = <<y>>
            /\ \A i \in 1 .. l : a[i] = p[v[i]][1]
        BY <2>1, <2>6, <2>8
      <3> HIDE DEF a, y
      <3>2. a \o <<y>> = Append(a, y)
        BY <3>1
      <3>3. /\ Append(a, y) = [i \in 1 .. l + 1 |-> Append(a, y)[i]]
            /\ \A i \in 1 .. l : Append(a, y)[i] = a[i]
            /\ Append(a, y)[l + 1] = y
        BY <3>1, AppendParts
      <3>4. \A i \in 1 .. l + 1 : Append(a, y)[i] = p[u[i]][1]
        <4>1. \A i \in 1 .. l + 1 : i \in 1 .. l \/ i = l + 1
          BY <2>1
        <4>2. \A i \in 1 .. l : Append(a, y)[i] = p[u[i]][1]
          BY <2>1, <3>1, <3>3
        <4>3. Append(a, y)[l + 1] = p[u[l + 1]][1]
          BY <2>1, <3>3 DEF y
        <4> QED
          BY <4>1, <4>2, <4>3
      <3>5. Append(a, y) = firsts(u)
        BY <2>1, <3>3, <3>4
      <3> QED
        BY <3>1, <3>2, <3>5 DEF a
    <2> QED
      BY <2>2, <2>4, <2>9 DEF u
  <1> HIDE DEF S
  <1>3. Seq(X) \subseteq S
    BY <1>1, <1>2, InductionOnLists, Zenon
  <1>4. Len(s) \in Nat /\ DOMAIN s = 1 .. Len(s) /\ Len(w) = Len(s) /\ w = [i \in 1 .. Len(s) |-> w[i]]
    OBVIOUS
  <1>5. ASSUME NEW k \in DOMAIN s PROVE Len(p[s[k]]) = 1 /\ p[s[k]][1] = w[k]
    <2>1. p[s[k]] = <<w[k]>>
      OBVIOUS
    <2> QED
      BY <2>1
  <1>6. single(s) /\ firsts(s) = w
    BY <1>4, <1>5
  <1> QED
    BY <1>3, <1>6 DEF S

\* Positions that give what stands there in a list.
LEMMA CatPositions ==
  ASSUME NEW T, NEW w \in Seq(T), NEW m \in Nat, NEW f,
         \A k \in 1 .. m : f[k] = IF k \in DOMAIN w THEN <<w[k]>> ELSE <<>>,
         DOMAIN w \subseteq 1 .. m
  PROVE  Cat([k \in 1 .. m |-> k], f) = w
  <1> DEFINE l == Len(w)
             a == [k \in 1 .. l |-> k]
             b == [k \in 1 .. m - l |-> l + k]
             id == [k \in 1 .. m |-> k]
  <1>1. l \in Nat /\ DOMAIN w = 1 .. l /\ l <= m
    <2>1. l \in Nat /\ DOMAIN w = 1 .. l
      OBVIOUS
    <2>2. l = 0 \/ l \in 1 .. m
      BY <2>1
    <2> QED
      BY <2>1, <2>2
  <1> HIDE DEF l
  <1>2. a \in Seq(1 .. m) /\ b \in Seq(1 .. m) /\ id = a \o b
        /\ DOMAIN a = 1 .. l /\ (\A k \in 1 .. l : a[k] = k)
        /\ Len(b) = m - l /\ DOMAIN b = 1 .. m - l /\ (\A k \in DOMAIN b : b[k] \notin DOMAIN w /\ b[k] \in 1 .. m)
    BY <1>1
  <1>3. Gives(f, 1 .. m, T)
    <2>1. \A k \in DOMAIN w : <<w[k]>> \in Seq(T)
      OBVIOUS
    <2>2. <<>> \in Seq(T)
      OBVIOUS
    <2> QED
      BY <2>1, <2>2 DEF Gives
  <1> HIDE DEF a, b, id
  <1>4. Cat(id, f) = Cat(a, f) \o Cat(b, f)
    BY <1>2, <1>3, CatConcat
  <1>5. Cat(a, f) = w
    <2>1. DOMAIN w = DOMAIN a /\ \A k \in DOMAIN a : f[a[k]] = <<w[k]>>
      BY <1>1, <1>2
    <2>2. a \in Seq(1 .. m)
      BY <1>2
    <2> QED
      BY <1>3, <2>1, <2>2, CatSingles
  <1>6. Cat(b, f) = <<>>
    <2>1. \A k \in DOMAIN b : f[b[k]] = <<>>
      BY <1>2
    <2>2. Len(b) \in Nat /\ DOMAIN b = 1 .. Len(b)
      BY <1>1, <1>2
    <2> QED
      BY <2>1, <2>2, CatNone
  <1>7. w \o <<>> = w
    OBVIOUS
  <1> QED
    BY <1>4, <1>5, <1>6, <1>7 DEF id

\* Members that give one thing or none.
LEMMA CatCount ==
  ASSUME NEW X, NEW T, NEW p, Gives(p, X, T), NEW s \in Seq(X), IsInjective(s),
         \A x \in X : Len(p[x]) <= 1
  PROVE  Len(Cat(s, p)) = Cardinality({x \in Range(s) : p[x] # <<>>})
  <1> DEFINE some(v) == {x \in Range(v) : p[x] # <<>>}
             Right(v) == /\ IsFiniteSet(some(v))
                         /\ Cat(v, p) \in Seq(T)
                         /\ Len(Cat(v, p)) = Cardinality(some(v))
             S == {v \in Seq(X) : IsInjective(v) => Right(v)}
  <1>1. <<>> \in S
    <2>1. <<>> \in Seq(X) /\ <<>> \in Seq(T) /\ Len(<<>>) = 0 /\ Range(<<>>) = {}
      BY EmptyDomain DEF Range
    <2>2. some(<<>>) = {}
      BY <2>1
    <2> QED
      BY <2>1, <2>2, CatEmpty, FS_EmptySet
  <1>2. \A v \in Seq(X) : \A x \in X : v \in S => Append(v, x) \in S
    <2> SUFFICES ASSUME NEW v \in Seq(X), NEW x \in X, v \in S, IsInjective(Append(v, x))
                 PROVE  Right(Append(v, x))
      <3>1. \A u \in Seq(X) : \A y \in X : Append(u, y) \in Seq(X)
        OBVIOUS
      <3> HIDE DEF Right
      <3> QED
        BY <3>1
    <2> DEFINE w == Append(v, x)
               l == Len(v)
    <2>1. /\ l \in Nat /\ DOMAIN v = 1 .. l /\ DOMAIN w = 1 .. l + 1 /\ w \in Seq(X)
          /\ \A i \in 1 .. l : w[i] = v[i]
          /\ w[l + 1] = x
      BY AppendParts
    <2>2. Range(w) = Range(v) \cup {x}
      BY RangeOfAppend
    <2>a. p[x] \in Seq(T)
      BY DEF Gives
    <2>3. Cat(v, p) \in Seq(T) /\ Cat(w, p) = Cat(v, p) \o p[x]
      BY CatAppend
    <2>4. IsInjective(w)
      OBVIOUS
    <2> HIDE DEF w, l
    <2>5. IsInjective(v) /\ x \notin Range(v)
      <3>1. \A i, j \in 1 .. l + 1 : w[i] = w[j] => i = j
        BY <2>1, <2>4 DEF IsInjective
      <3>2. IsInjective(v)
        BY <2>1, <3>1 DEF IsInjective
      <3>3. \A i \in 1 .. l : v[i] # x
        <4> SUFFICES ASSUME NEW i \in 1 .. l, v[i] = x PROVE FALSE
          OBVIOUS
        <4>1. i \in 1 .. l + 1 /\ l + 1 \in 1 .. l + 1 /\ i # l + 1
          BY <2>1
        <4>2. w[i] = w[l + 1]
          BY <2>1
        <4> QED
          BY <3>1, <4>1, <4>2
      <3> QED
        BY <2>1, <3>2, <3>3 DEF Range
    <2>6. IsFiniteSet(some(v)) /\ Len(Cat(v, p)) = Cardinality(some(v))
      BY <2>5
    <2> DEFINE c == Cat(v, p)
               d == Cat(w, p)
               before == some(v)
    <2>7. c \in Seq(T) /\ d = c \o p[x] /\ IsFiniteSet(before) /\ Len(c) = Cardinality(before)
      BY <2>3, <2>6
    <2>8. x \notin before /\ (some(w) = IF p[x] = <<>> THEN before ELSE before \cup {x})
      BY <2>2, <2>5
    <2> HIDE DEF c, d, before
    <2>9. d \in Seq(T) /\ Len(d) = Len(c) + Len(p[x])
      BY <2>7, <2>a
    <2>10. Len(p[x]) = IF p[x] = <<>> THEN 0 ELSE 1
      <3>1. Len(p[x]) <= 1
        OBVIOUS
      <3> QED
        BY <2>a, <3>1
    <2>11. IsFiniteSet(some(w)) /\ Cardinality(some(w)) = Cardinality(before) + Len(p[x])
      <3>1. /\ IsFiniteSet(before \cup {x}) /\ Cardinality(before \cup {x}) = Cardinality(before) + 1
            /\ Cardinality(before) \in Nat
        BY <2>7, <2>8, FS_AddElement, FS_CardinalityType
      <3> HIDE DEF some
      <3> QED
        BY <2>7, <2>8, <2>10, <3>1
    <2>12. Len(d) = Cardinality(some(w))
      BY <2>7, <2>9, <2>11
    <2> QED
      BY <2>9, <2>11, <2>12 DEF d, w
  <1> HIDE DEF S
  <1>3. Seq(X) \subseteq S
    BY <1>1, <1>2, InductionOnLists, Zenon
  <1> QED
    BY <1>3 DEF S

\* What Each makes of its rows.
LEMMA EachIsCat ==
  ASSUME NEW f, IsFiniteSet(DOMAIN f), \A d \in DOMAIN f : d.name \in Nat
  PROVE  \E s \in Seq(DOMAIN f) : IsInjective(s) /\ Range(s) = DOMAIN f /\ Each(f) = Cat(s, f)
  <1> DEFINE key == [d \in DOMAIN f |-> d.name]
             s == Sorted(key)
  <1>1. DOMAIN key = DOMAIN f /\ \A d \in DOMAIN key : key[d] \in Nat
    OBVIOUS
  <1> HIDE DEF key
  <1>2. s \in Seq(DOMAIN f) /\ Range(s) = DOMAIN f /\ IsInjective(s)
    BY <1>1, SortedParts
  <1>3. Each(f) = Cat(s, f)
    BY DEF Each, Cat, key
  <1> HIDE DEF s
  <1> QED
    BY <1>2, <1>3

-----------------------------------------------------------------------------
(* What the rows that were read have made. *)

\* What a row says of the member n of a kind.
ColumnsFor(kind, n) == [r \in RowSet |-> IF r.into = kind /\ r.name = n THEN r.columns ELSE <<>>]
IncludedFor(kind, n) == [r \in RowSet |-> IF r.into = kind /\ r.name = n THEN r.included ELSE <<>>]
ReferredFor(kind, n) == [r \in RowSet |-> IF r.into = kind /\ r.name = n THEN r.toColumns ELSE <<>>]
EntryFor(kind) == [r \in RowSet |-> IF r.into = kind THEN <<Entry(r)>> ELSE <<>>]

\* The rows about one member of a kind.
About(past, kind, n) == {r \in Range(past) : r.into = kind /\ r.name = n}

\* The tables that it may refer to: those of the targets, when there are any.
Tos(past, kind, n) ==
  {r.to : r \in IF kind = "fk" /\ About(past, "target", n) # {} THEN About(past, "target", n)
                ELSE About(past, kind, n)}

\* The kinds whose rows are grouped by name.
GroupedKind(kind) ==
  /\ adapter # "postgres"
  /\ kind = "check" => adapter = "oracle"
  /\ kind = "trigger" => adapter = "mssql"

\* An entry has all that the rows read say of its name, in their order.
Whole(e, past, kind) ==
  /\ e.columns = Cat(past, ColumnsFor(kind, e.name))
  /\ e.included = Cat(past, IncludedFor(kind, e.name))
  /\ e.toColumns = Cat(past, ReferredFor(kind, e.name))
  /\ e.to \in Tos(past, kind, e.name)

NamesOf(past, kind) == {r.name : r \in {x \in Range(past) : x.into = kind}}

\* One entry for each name.
ByName(es, past, kind) ==
  /\ \A i, j \in DOMAIN es : es[i].name = es[j].name => i = j
  /\ {es[i].name : i \in DOMAIN es} = NamesOf(past, kind)
  /\ \A i \in DOMAIN es : Whole(es[i], past, kind)

\* What the rows of past have made of a kind.
Made(past, kind) ==
  IF GroupedKind(kind) THEN ByName(result[kind], past, kind)
  ELSE result[kind] = Cat(past, EntryFor(kind))

LEMMA PiecesGive ==
  ASSUME NEW kind, NEW n
  PROVE  /\ Gives(ColumnsFor(kind, n), RowSet, Values)
         /\ Gives(IncludedFor(kind, n), RowSet, Values)
         /\ Gives(ReferredFor(kind, n), RowSet, Values)
         /\ Gives(EntryFor(kind), RowSet, {Entry(r) : r \in RowSet})
  <1>1. \A r \in RowSet : r.columns \in Seq(Values) /\ r.included \in Seq(Values)
                          /\ r.toColumns \in Seq(Values)
    BY DEF RowSet
  <1>2. <<>> \in Seq(Values)
    OBVIOUS
  <1>3. Gives(ColumnsFor(kind, n), RowSet, Values)
    BY <1>1, <1>2 DEF Gives, ColumnsFor
  <1>4. Gives(IncludedFor(kind, n), RowSet, Values)
    BY <1>1, <1>2 DEF Gives, IncludedFor
  <1>5. Gives(ReferredFor(kind, n), RowSet, Values)
    BY <1>1, <1>2 DEF Gives, ReferredFor
  <1>6. Gives(EntryFor(kind), RowSet, {Entry(r) : r \in RowSet})
    <2> DEFINE T == {Entry(r) : r \in RowSet}
    <2>1. \A r \in RowSet : Entry(r) \in T
      OBVIOUS
    <2> HIDE DEF T
    <2>2. \A e \in T : <<e>> \in Seq(T)
      OBVIOUS
    <2>3. <<>> \in Seq(T)
      OBVIOUS
    <2>4. Gives(EntryFor(kind), RowSet, T)
      BY <2>1, <2>2, <2>3 DEF Gives, EntryFor
    <2> QED
      BY <2>4 DEF T
  <1> QED
    BY <1>3, <1>4, <1>5, <1>6

\* One more row, and what it adds to what is said of n.
LEMMA OneMore ==
  ASSUME NEW past \in Seq(RowSet), NEW row \in RowSet
  PROVE  /\ Cat(Append(past, row), ColumnsFor(row.into, row.name)) = Cat(past, ColumnsFor(row.into, row.name)) \o row.columns
         /\ Cat(Append(past, row), IncludedFor(row.into, row.name)) = Cat(past, IncludedFor(row.into, row.name)) \o row.included
         /\ Cat(Append(past, row), ReferredFor(row.into, row.name)) = Cat(past, ReferredFor(row.into, row.name)) \o row.toColumns
  <1> DEFINE kind == row.into
             n == row.name
  <1>0. row.into = kind /\ row.name = n
    OBVIOUS
  <1> HIDE DEF kind, n
  <1>1. /\ Gives(ColumnsFor(kind, n), RowSet, Values)
        /\ Gives(IncludedFor(kind, n), RowSet, Values)
        /\ Gives(ReferredFor(kind, n), RowSet, Values)
    BY PiecesGive
  <1>2. Cat(Append(past, row), ColumnsFor(kind, n)) = Cat(past, ColumnsFor(kind, n)) \o ColumnsFor(kind, n)[row]
    BY <1>1, CatAppend
  <1>3. Cat(Append(past, row), IncludedFor(kind, n)) = Cat(past, IncludedFor(kind, n)) \o IncludedFor(kind, n)[row]
    BY <1>1, CatAppend
  <1>4. Cat(Append(past, row), ReferredFor(kind, n)) = Cat(past, ReferredFor(kind, n)) \o ReferredFor(kind, n)[row]
    BY <1>1, CatAppend
  <1>5. /\ ColumnsFor(kind, n)[row] = row.columns
        /\ IncludedFor(kind, n)[row] = row.included
        /\ ReferredFor(kind, n)[row] = row.toColumns
    BY <1>0 DEF ColumnsFor, IncludedFor, ReferredFor
  <1> QED
    BY <1>0, <1>2, <1>3, <1>4, <1>5, Zenon

LEMMA OneOther ==
  ASSUME NEW past \in Seq(RowSet), NEW row \in RowSet, NEW kind, NEW n,
         ~(row.into = kind /\ row.name = n)
  PROVE  /\ Cat(Append(past, row), ColumnsFor(kind, n)) = Cat(past, ColumnsFor(kind, n))
         /\ Cat(Append(past, row), IncludedFor(kind, n)) = Cat(past, IncludedFor(kind, n))
         /\ Cat(Append(past, row), ReferredFor(kind, n)) = Cat(past, ReferredFor(kind, n))
  <1>1. /\ Gives(ColumnsFor(kind, n), RowSet, Values)
        /\ Gives(IncludedFor(kind, n), RowSet, Values)
        /\ Gives(ReferredFor(kind, n), RowSet, Values)
    BY PiecesGive
  <1>2. /\ Cat(past, ColumnsFor(kind, n)) \in Seq(Values)
        /\ Cat(Append(past, row), ColumnsFor(kind, n)) = Cat(past, ColumnsFor(kind, n)) \o ColumnsFor(kind, n)[row]
    BY <1>1, CatAppend
  <1>3. /\ Cat(past, IncludedFor(kind, n)) \in Seq(Values)
        /\ Cat(Append(past, row), IncludedFor(kind, n)) = Cat(past, IncludedFor(kind, n)) \o IncludedFor(kind, n)[row]
    BY <1>1, CatAppend
  <1>4. /\ Cat(past, ReferredFor(kind, n)) \in Seq(Values)
        /\ Cat(Append(past, row), ReferredFor(kind, n)) = Cat(past, ReferredFor(kind, n)) \o ReferredFor(kind, n)[row]
    BY <1>1, CatAppend
  <1>5. /\ ColumnsFor(kind, n)[row] = <<>>
        /\ IncludedFor(kind, n)[row] = <<>>
        /\ ReferredFor(kind, n)[row] = <<>>
    BY DEF ColumnsFor, IncludedFor, ReferredFor
  <1>6. \A u \in Seq(Values) : u \o <<>> = u
    OBVIOUS
  <1> QED
    BY <1>2, <1>3, <1>4, <1>5, <1>6

\* A name that no row has.
LEMMA NothingSaid ==
  ASSUME NEW past \in Seq(RowSet), NEW kind, NEW n, n \notin NamesOf(past, kind)
  PROVE  /\ Cat(past, ColumnsFor(kind, n)) = <<>>
         /\ Cat(past, IncludedFor(kind, n)) = <<>>
         /\ Cat(past, ReferredFor(kind, n)) = <<>>
  <1>1. Len(past) \in Nat /\ DOMAIN past = 1 .. Len(past)
    OBVIOUS
  <1>2. \A i \in DOMAIN past : past[i] \in RowSet /\ ~(past[i].into = kind /\ past[i].name = n)
    BY DEF NamesOf, Range
  <1>3. /\ \A i \in DOMAIN past : ColumnsFor(kind, n)[past[i]] = <<>>
        /\ \A i \in DOMAIN past : IncludedFor(kind, n)[past[i]] = <<>>
        /\ \A i \in DOMAIN past : ReferredFor(kind, n)[past[i]] = <<>>
    BY <1>2 DEF ColumnsFor, IncludedFor, ReferredFor
  <1> QED
    BY <1>1, <1>3, CatNone

\* Who a row is about.
LEMMA AboutMore ==
  ASSUME NEW past \in Seq(RowSet), NEW row \in RowSet, NEW kind, NEW n
  PROVE  /\ About(Append(past, row), kind, n) =
              About(past, kind, n) \cup (IF row.into = kind /\ row.name = n THEN {row} ELSE {})
         /\ NamesOf(Append(past, row), kind) =
              NamesOf(past, kind) \cup (IF row.into = kind THEN {row.name} ELSE {})
  <1>1. Range(Append(past, row)) = Range(past) \cup {row}
    BY RangeOfAppend
  <1> QED
    BY <1>1 DEF About, NamesOf

LEMMA WholeKept ==
  ASSUME NEW past \in Seq(RowSet), NEW row \in RowSet, NEW kind \in Kinds, NEW e,
         Whole(e, past, kind),
         row.name = e.name => row.into # kind /\ ~(kind = "fk" /\ row.into = "target")
  PROVE  Whole(e, Append(past, row), kind)
  <1> DEFINE n == e.name
  <1>r. Range(Append(past, row)) = Range(past) \cup {row}
    BY RangeOfAppend
  <1>2. ~(row.into = kind /\ row.name = n) /\ (kind = "fk" => ~(row.into = "target" /\ row.name = n))
    OBVIOUS
  <1>a. Whole(e, Append(past, row), kind) <=>
          /\ e.columns = Cat(Append(past, row), ColumnsFor(kind, n))
          /\ e.included = Cat(Append(past, row), IncludedFor(kind, n))
          /\ e.toColumns = Cat(Append(past, row), ReferredFor(kind, n))
          /\ e.to \in Tos(Append(past, row), kind, n)
    BY DEF Whole
  <1>b. /\ e.columns = Cat(past, ColumnsFor(kind, n))
        /\ e.included = Cat(past, IncludedFor(kind, n))
        /\ e.toColumns = Cat(past, ReferredFor(kind, n))
        /\ e.to \in Tos(past, kind, n)
    BY DEF Whole
  <1> HIDE DEF n
  <1>3. /\ Cat(Append(past, row), ColumnsFor(kind, n)) = Cat(past, ColumnsFor(kind, n))
        /\ Cat(Append(past, row), IncludedFor(kind, n)) = Cat(past, IncludedFor(kind, n))
        /\ Cat(Append(past, row), ReferredFor(kind, n)) = Cat(past, ReferredFor(kind, n))
    BY <1>2, OneOther
  <1>4. About(Append(past, row), kind, n) = About(past, kind, n)
    BY <1>2, <1>r DEF About
  <1>5. kind = "fk" => About(Append(past, row), "target", n) = About(past, "target", n)
    BY <1>2, <1>r DEF About
  <1>6. Tos(Append(past, row), kind, n) = Tos(past, kind, n)
    BY <1>4, <1>5 DEF Tos
  <1> QED
    BY <1>3, <1>6, <1>a, <1>b

LEMMA WholeExtended ==
  ASSUME NEW past \in Seq(RowSet), NEW row \in RowSet, NEW kind \in Kinds, NEW e \in EntrySet,
         Whole(e, past, kind), row.into = kind, row.name = e.name
  PROVE  Whole(Extended(e, row), Append(past, row), kind)
  <1> DEFINE g == Extended(e, row)
             n == row.name
  <1>1. /\ g.name = e.name /\ g.to = e.to
        /\ g.columns = e.columns \o row.columns
        /\ g.included = e.included \o row.included
        /\ g.toColumns = e.toColumns \o row.toColumns
    <2>1. e = [name |-> e.name, columns |-> e.columns, included |-> e.included, to |-> e.to,
               toColumns |-> e.toColumns]
      BY DEF EntrySet
    <2> QED
      BY <2>1 DEF Extended
  <1>0. row.into = kind /\ row.name = n
    OBVIOUS
  <1> HIDE DEF g, n
  <1>2. /\ Cat(Append(past, row), ColumnsFor(kind, n)) =
             Cat(past, ColumnsFor(kind, n)) \o row.columns
        /\ Cat(Append(past, row), IncludedFor(kind, n)) =
             Cat(past, IncludedFor(kind, n)) \o row.included
        /\ Cat(Append(past, row), ReferredFor(kind, n)) =
             Cat(past, ReferredFor(kind, n)) \o row.toColumns
    BY <1>0, OneMore, Zenon
  <1>3. Tos(past, kind, n) \subseteq Tos(Append(past, row), kind, n)
    <2>1. row.into # "target" /\ Range(Append(past, row)) = Range(past) \cup {row}
      BY RangeOfAppend DEF Kinds
    <2>2. About(Append(past, row), "target", n) = About(past, "target", n)
      BY <2>1 DEF About
    <2>3. About(past, kind, n) \subseteq About(Append(past, row), kind, n)
      BY <2>1 DEF About
    <2> QED
      BY <2>2, <2>3 DEF Tos
  <1> QED
    BY <1>1, <1>2, <1>3 DEF Whole, g, n

LEMMA WholeNew ==
  ASSUME NEW past \in Seq(RowSet), NEW row \in RowSet, NEW kind \in Kinds,
         row.into = kind, row.name \notin NamesOf(past, kind),
         kind = "fk" => \A r \in Range(past) : r.into # "target"
  PROVE  Whole(Entry(row), Append(past, row), kind)
  <1>1. /\ Entry(row).name = row.name /\ Entry(row).to = row.to
        /\ Entry(row).columns = row.columns
        /\ Entry(row).included = row.included
        /\ Entry(row).toColumns = row.toColumns
    BY DEF Entry
  <1>2. row.columns \in Seq(Values) /\ row.included \in Seq(Values) /\ row.toColumns \in Seq(Values)
    BY DEF RowSet
  <1>3. \A u \in Seq(Values) : <<>> \o u = u
    OBVIOUS
  <1> DEFINE n == row.name
  <1>0. row.into = kind /\ row.name = n /\ n \notin NamesOf(past, kind)
    OBVIOUS
  <1> HIDE DEF n
  <1>4. /\ Cat(past, ColumnsFor(kind, n)) = <<>>
        /\ Cat(past, IncludedFor(kind, n)) = <<>>
        /\ Cat(past, ReferredFor(kind, n)) = <<>>
    BY <1>0, NothingSaid
  <1>5. /\ Cat(Append(past, row), ColumnsFor(kind, n)) = <<>> \o row.columns
        /\ Cat(Append(past, row), IncludedFor(kind, n)) = <<>> \o row.included
        /\ Cat(Append(past, row), ReferredFor(kind, n)) = <<>> \o row.toColumns
    BY <1>0, <1>4, OneMore, Zenon
  <1>6. row.to \in Tos(Append(past, row), kind, n)
    <2>1. row \in About(Append(past, row), kind, n)
      BY <1>0, AboutMore
    <2>2. kind = "fk" => About(Append(past, row), "target", n) = {}
      <3>1. kind = "fk" => About(past, "target", n) = {}
        BY DEF About
      <3>2. kind = "fk" => row.into # "target"
        OBVIOUS
      <3> QED
        BY <3>1, <3>2, AboutMore
    <2> QED
      BY <2>1, <2>2 DEF Tos
  <1> QED
    BY <1>1, <1>2, <1>3, <1>5, <1>6 DEF Whole, n

LEMMA WholeTarget ==
  ASSUME NEW past \in Seq(RowSet), NEW row \in RowSet, NEW e \in EntrySet,
         Whole(e, past, "fk"), row.into = "target", row.name = e.name
  PROVE  Whole([e EXCEPT !.to = row.to], Append(past, row), "fk")
  <1> DEFINE g == [e EXCEPT !.to = row.to]
             n == e.name
  <1>1. /\ g.name = e.name /\ g.to = row.to /\ g.columns = e.columns
        /\ g.included = e.included /\ g.toColumns = e.toColumns
    <2>1. e = [name |-> e.name, columns |-> e.columns, included |-> e.included, to |-> e.to,
               toColumns |-> e.toColumns]
      BY DEF EntrySet
    <2> QED
      BY <2>1
  <1>0. row.into = "target" /\ row.name = n /\ row.into # "fk"
    OBVIOUS
  <1> HIDE DEF g, n
  <1>3. /\ Cat(Append(past, row), ColumnsFor("fk", n)) = Cat(past, ColumnsFor("fk", n))
        /\ Cat(Append(past, row), IncludedFor("fk", n)) = Cat(past, IncludedFor("fk", n))
        /\ Cat(Append(past, row), ReferredFor("fk", n)) = Cat(past, ReferredFor("fk", n))
    BY <1>0, OneOther
  <1>4. row \in About(Append(past, row), "target", n)
    BY <1>0, AboutMore
  <1>5. row.to \in Tos(Append(past, row), "fk", n)
    BY <1>4 DEF Tos
  <1> QED
    BY <1>1, <1>3, <1>5 DEF Whole, g, n

\* The entries of one kind.
LEMMA OtherByName ==
  ASSUME NEW past \in Seq(RowSet), NEW row \in RowSet, NEW kind \in Kinds, NEW es,
         ByName(es, past, kind), row.into # kind, ~(kind = "fk" /\ row.into = "target")
  PROVE  ByName(es, Append(past, row), kind)
  <1>1. NamesOf(Append(past, row), kind) = NamesOf(past, kind)
    <2>1. Range(Append(past, row)) = Range(past) \cup {row}
      BY RangeOfAppend
    <2> QED
      BY <2>1 DEF NamesOf
  <1>2. \A i \in DOMAIN es : Whole(es[i], Append(past, row), kind)
    BY WholeKept DEF ByName
  <1> QED
    BY <1>1, <1>2 DEF ByName

LEMMA TargetByName ==
  ASSUME NEW past \in Seq(RowSet), NEW row \in RowSet, NEW es \in Seq(EntrySet),
         ByName(es, past, "fk"), row.into = "target"
  PROVE  ByName(SetTarget(es, row), Append(past, row), "fk")
  <1> DEFINE more == Append(past, row)
             set == SetTarget(es, row)
  <1>1. NamesOf(more, "fk") = NamesOf(past, "fk")
    <2>1. Range(Append(past, row)) = Range(past) \cup {row}
      BY RangeOfAppend
    <2> QED
      BY <2>1 DEF NamesOf
  <1>2. /\ DOMAIN set = DOMAIN es
        /\ \A i \in DOMAIN es : set[i] = IF es[i].name = row.name THEN [es[i] EXCEPT !.to = row.to] ELSE es[i]
    BY DEF SetTarget
  <1>3. \A i \in DOMAIN es : es[i] \in EntrySet /\ Whole(es[i], past, "fk")
    BY DEF ByName
  <1> HIDE DEF set
  <1>4. \A i \in DOMAIN es : set[i].name = es[i].name
    <2>1. \A e \in EntrySet : [e EXCEPT !.to = row.to].name = e.name
      BY DEF EntrySet
    <2> QED
      BY <1>2, <1>3, <2>1
  <1>5. ASSUME NEW i \in DOMAIN es PROVE Whole(set[i], more, "fk")
    <2> DEFINE e == es[i]
    <2>1. e \in EntrySet /\ Whole(e, past, "fk") /\ "fk" \in Kinds /\ row.into # "fk"
      BY <1>3 DEF Kinds
    <2>2. set[i] = IF e.name = row.name THEN [e EXCEPT !.to = row.to] ELSE e
      BY <1>2
    <2> HIDE DEF e
    <2>3. CASE e.name = row.name
      <3>1. Whole([e EXCEPT !.to = row.to], more, "fk")
        BY <2>1, <2>3, WholeTarget
      <3> QED
        BY <2>2, <2>3, <3>1
    <2>4. CASE e.name # row.name
      <3>1. Whole(e, more, "fk")
        BY <2>1, <2>4, WholeKept
      <3> QED
        BY <2>2, <2>4, <3>1
    <2> QED
      BY <2>3, <2>4
  <1>6. {set[i].name : i \in DOMAIN set} = {es[i].name : i \in DOMAIN es}
    BY <1>2, <1>4
  <1>7. \A i, j \in DOMAIN set : set[i].name = set[j].name => i = j
    BY <1>2, <1>4 DEF ByName
  <1>8. ByName(set, more, "fk")
    BY <1>1, <1>2, <1>5, <1>6, <1>7 DEF ByName
  <1> QED
    BY <1>8 DEF set

LEMMA PutByName ==
  ASSUME NEW past \in Seq(RowSet), NEW row, Readable(row), NEW kind \in Kinds, row.into = kind,
         NEW es \in Seq(EntrySet), Grouped(row), ByName(es, past, kind),
         kind = "fk" => \A r \in Range(past) : r.into # "target"
  PROVE  ByName(Put(es, row), Append(past, row), kind)
  <1> DEFINE more == Append(past, row)
             put == Put(es, row)
             found == {i \in DOMAIN es : es[i].name = row.name}
  <1>0. row \in RowSet
    BY DEF Readable
  <1>1. NamesOf(more, kind) = NamesOf(past, kind) \cup {row.name}
    BY <1>0, AboutMore
  <1>2. /\ \A i \in DOMAIN es : es[i] \in EntrySet /\ Whole(es[i], past, kind)
        /\ \A i, j \in DOMAIN es : es[i].name = es[j].name => i = j
        /\ {es[i].name : i \in DOMAIN es} = NamesOf(past, kind)
    BY DEF ByName
  <1>3. kind # "target"
    BY DEF Kinds
  <1>4. ASSUME NEW i \in DOMAIN es, es[i].name # row.name PROVE Whole(es[i], more, kind)
    BY <1>0, <1>2, <1>4, WholeKept
  <1>5. CASE found # {}
    <2> DEFINE j == CHOOSE i \in found : TRUE
               longer == Extended(es[j], row)
    <2>1. put = [es EXCEPT ![j] = longer] /\ j \in found
      BY <1>5 DEF Put
    <2>2. j \in DOMAIN es /\ es[j].name = row.name
      BY <2>1
    <2> HIDE DEF j, put
    <2>3. longer.name = es[j].name
      BY <1>2, <2>2, ExtendedType
    <2>4. Whole(longer, more, kind)
      BY <1>0, <1>2, <2>2, WholeExtended
    <2> HIDE DEF longer, found
    <2>5. DOMAIN put = DOMAIN es /\ put[j] = longer /\ \A i \in DOMAIN es : i # j => put[i] = es[i]
      BY <2>1, <2>2
    <2>6. \A i \in DOMAIN es : put[i].name = es[i].name
      BY <2>3, <2>5
    <2>7. {put[i].name : i \in DOMAIN put} = {es[i].name : i \in DOMAIN es}
      BY <2>5, <2>6
    <2>8. row.name \in NamesOf(past, kind)
      BY <1>2, <2>2
    <2>9. \A i \in DOMAIN put : Whole(put[i], more, kind)
      BY <1>2, <1>4, <2>2, <2>4, <2>5
    <2>10. \A i, k \in DOMAIN put : put[i].name = put[k].name => i = k
      BY <1>2, <2>5, <2>6
    <2>11. NamesOf(more, kind) = {put[i].name : i \in DOMAIN put}
      BY <1>1, <1>2, <2>7, <2>8
    <2>12. ByName(put, more, kind)
      BY <2>9, <2>10, <2>11 DEF ByName
    <2> QED
      BY <2>12 DEF put
  <1>6. CASE found = {}
    <2> DEFINE e == Entry(row)
               l == Len(es)
    <2>1. put = Append(es, e)
      BY <1>6 DEF Put
    <2>2. e \in EntrySet /\ e.name = row.name
      BY EntryTyped
    <2>3. row.name \notin NamesOf(past, kind)
      BY <1>2, <1>6
    <2>4. Whole(e, more, kind)
      BY <1>0, <2>3, WholeNew
    <2> HIDE DEF put, e
    <2>5. /\ l \in Nat /\ DOMAIN es = 1 .. l /\ DOMAIN put = 1 .. l + 1
          /\ \A i \in 1 .. l : put[i] = es[i]
          /\ put[l + 1] = e
      BY <2>1, <2>2, AppendParts
    <2> HIDE DEF l
    <2>6. \A i \in 1 .. l + 1 : i \in 1 .. l \/ i = l + 1
      BY <2>5
    <2>7. \A i \in 1 .. l : es[i].name # row.name
      BY <1>6, <2>5
    <2>8. \A i \in DOMAIN put : Whole(put[i], more, kind)
      BY <1>4, <2>4, <2>5, <2>6, <2>7
    <2>9. \A i, k \in DOMAIN put : put[i].name = put[k].name => i = k
      BY <1>2, <2>2, <2>5, <2>6, <2>7
    <2>10. {put[i].name : i \in DOMAIN put} = {es[i].name : i \in DOMAIN es} \cup {row.name}
      <3>1. l + 1 \in 1 .. l + 1 /\ 1 .. l \subseteq 1 .. l + 1
        BY <2>5
      <3> QED
        BY <2>2, <2>5, <2>6, <3>1
    <2>11. ByName(put, more, kind)
      BY <1>1, <1>2, <2>8, <2>9, <2>10 DEF ByName
    <2> QED
      BY <2>11 DEF put
  <1> QED
    BY <1>5, <1>6

\* The row that is read goes into one kind and leaves the others as they are.
LEMMA MadeMore ==
  ASSUME NEW past \in Seq(RowSet), result \in [Kinds -> Seq(EntrySet)],
         \A kind \in Kinds : Made(past, kind),
         NEW row, Readable(row), UNCHANGED adapter,
         row.into = "target" => adapter = "oracle",
         row.into = "fk" => \A r \in Range(past) : r.into # "target",
         result' = IF row.into = "target"
                   THEN [result EXCEPT !["fk"] = SetTarget(result["fk"], row)]
                   ELSE [result EXCEPT ![row.into] = Put(result[row.into], row)],
         NEW kind \in Kinds
  PROVE  Made(Append(past, row), kind)'
  <1> DEFINE more == Append(past, row)
             es == result[kind]
             new == result'[kind]
  <1>0. row \in RowSet /\ row.into \in Kinds \cup {"target"} /\ es \in Seq(EntrySet) /\ "fk" \in Kinds
    BY ReadableColumns DEF Readable, Kinds
  <1>1. GroupedKind(kind)' <=> GroupedKind(kind)
    BY DEF GroupedKind
  <1>2. EntryFor(kind)' = EntryFor(kind) /\ RowSet' = RowSet
    BY DEF EntryFor, Entry, RowSet, Names, Values, Targeted
  <1>3. Made(more, kind)' <=> IF GroupedKind(kind) THEN ByName(new, more, kind)
                              ELSE new = Cat(more, EntryFor(kind))
    BY <1>1, <1>2 DEF Made
  <1>4. /\ row.into = "target" /\ kind = "fk" => new = SetTarget(es, row)
        /\ row.into # "target" /\ row.into = kind => new = Put(es, row)
        /\ row.into # kind /\ ~(row.into = "target" /\ kind = "fk") => new = es
    BY <1>0
  <1>5. IF GroupedKind(kind) THEN ByName(es, past, kind) ELSE es = Cat(past, EntryFor(kind))
    BY DEF Made
  <1>6. row.into = kind => (Grouped(row) <=> GroupedKind(kind))
    BY DEF Grouped, GroupedKind
  <1>7. kind # "target"
    BY DEF Kinds
  <1> HIDE DEF es, new, more
  <1>8. CASE GroupedKind(kind)
    <2>1. CASE row.into = kind
      BY <1>0, <1>4, <1>5, <1>6, <1>7, <1>8, <2>1, <1>3, PutByName DEF more
    <2>2. CASE row.into = "target" /\ kind = "fk"
      BY <1>0, <1>4, <1>5, <1>8, <2>2, <1>3, TargetByName DEF more
    <2>3. CASE row.into # kind /\ ~(row.into = "target" /\ kind = "fk")
      BY <1>0, <1>4, <1>5, <1>8, <2>3, <1>3, OtherByName DEF more
    <2> QED
      BY <2>1, <2>2, <2>3
  <1>9. CASE ~GroupedKind(kind)
    <2>1. /\ Cat(past, EntryFor(kind)) \in Seq({Entry(r) : r \in RowSet})
          /\ Cat(more, EntryFor(kind)) = Cat(past, EntryFor(kind)) \o EntryFor(kind)[row]
      <3>1. Gives(EntryFor(kind), RowSet, {Entry(r) : r \in RowSet})
        BY PiecesGive
      <3> QED
        BY <1>0, <3>1, CatAppend DEF more
    <2>2. EntryFor(kind)[row] = IF row.into = kind THEN <<Entry(row)>> ELSE <<>>
      BY <1>0 DEF EntryFor
    <2>3. ~(row.into = "target" /\ kind = "fk")
      BY <1>9 DEF GroupedKind
    <2>4. CASE row.into = kind
      <3>1. new = Append(es, Entry(row))
        BY <1>4, <1>6, <1>7, <1>9, <2>4 DEF Put
      <3>2. Append(es, Entry(row)) = es \o <<Entry(row)>>
        <4>1. Entry(row) \in EntrySet
          BY EntryTyped
        <4> QED
          BY <1>0, <4>1, AppendIsConcat
      <3>3. new = Cat(more, EntryFor(kind))
        BY <1>5, <1>9, <2>1, <2>2, <2>4, <3>1, <3>2
      <3> QED
        BY <1>3, <1>9, <3>3 DEF more
    <2>5. CASE row.into # kind
      <3>1. es \o <<>> = es
        BY <1>0
      <3>2. new = Cat(more, EntryFor(kind))
        BY <1>4, <1>5, <1>9, <2>1, <2>2, <2>3, <2>5, <3>1
      <3> QED
        BY <1>3, <1>9, <3>2 DEF more
    <2> QED
      BY <2>4, <2>5
  <1> QED
    BY <1>8, <1>9

-----------------------------------------------------------------------------
(* What the answers say of one declaration. *)

\* Of a declaration that alone tells of something, Each tells what it tells.
LEMMA EachOne ==
  ASSUME NEW f, IsFiniteSet(DOMAIN f), \A d \in DOMAIN f : d.name \in Nat,
         Gives(f, DOMAIN f, RowSet),
         NEW T, NEW p, Gives(p, RowSet, T),
         NEW d0 \in DOMAIN f, \A d \in DOMAIN f : d # d0 => Cat(f[d], p) = <<>>
  PROVE  Cat(Each(f), p) = Cat(f[d0], p)
  <1> DEFINE D == DOMAIN f
             g == [d \in D |-> Cat(f[d], p)]
  <1>1. PICK s \in Seq(D) : IsInjective(s) /\ Range(s) = D /\ Each(f) = Cat(s, f)
    BY EachIsCat
  <1>2. \A d \in D : g[d] = Cat(f[d], p)
    OBVIOUS
  <1>3. Gives(g, D, T)
    <2>1. \A d \in D : Cat(f[d], p) \in Seq(T)
      BY CatParts DEF Gives
    <2> QED
      BY <1>2, <2>1 DEF Gives
  <1>4. Cat(Cat(s, f), p) = Cat(s, g)
    BY <1>1, CatCat
  <1>5. \A d \in Range(s) : d # d0 => g[d] = <<>>
    BY <1>1, <1>2
  <1>6. d0 \in Range(s)
    BY <1>1
  <1> HIDE DEF g, D
  <1>7. Cat(s, g) = g[d0]
    BY <1>1, <1>3, <1>5, <1>6, CatOne
  <1> QED
    BY <1>1, <1>2, <1>4, <1>7 DEF D

\* A list without some of its members has no other twice.
LEMMA KeepInjective ==
  ASSUME NEW T, NEW s \in Seq(T), NEW S, IsInjective(s)
  PROVE  IsInjective(Keep(s, S))
  <1> DEFINE p == Places(s, S)
             k == Keep(s, S)
  <1>1. /\ p \in Seq(DOMAIN s)
        /\ \A i, j \in DOMAIN p : i < j => p[i] < p[j]
        /\ k = [i \in DOMAIN p |-> s[p[i]]]
    BY PlacesProperties DEF Keep
  <1> HIDE DEF p, k
  <1>2. Len(p) \in Nat /\ DOMAIN p = 1 .. Len(p) /\ DOMAIN s = 1 .. Len(s) /\ Len(s) \in Nat
    BY <1>1
  <1>3. \A i \in DOMAIN p : p[i] \in DOMAIN s /\ p[i] \in Nat
    BY <1>1, <1>2
  <1>4. ASSUME NEW i \in DOMAIN p, NEW j \in DOMAIN p, p[i] = p[j] PROVE i = j
    <2>1. i < j \/ j < i \/ i = j
      BY <1>2
    <2>2. ~(i < j) /\ ~(j < i)
      BY <1>1, <1>3, <1>4
    <2> QED
      BY <2>1, <2>2
  <1>5. ASSUME NEW i \in DOMAIN k, NEW j \in DOMAIN k, k[i] = k[j] PROVE i = j
    <2>1. i \in DOMAIN p /\ j \in DOMAIN p /\ s[p[i]] = s[p[j]]
      BY <1>1, <1>5
    <2>2. p[i] = p[j]
      BY <1>3, <2>1 DEF IsInjective
    <2> QED
      BY <1>4, <2>1, <2>2
  <1> QED
    BY <1>5 DEF IsInjective, k

\* The pairs of the declarations that have a column k.
PairsAt(pairs, ds, k) ==
  \E a \in Seq(ds) : /\ IsInjective(a) /\ Range(a) = {d \in ds : k \in DOMAIN Said(d)}
                     /\ pairs = [i \in DOMAIN a |-> <<a[i], Said(a[i])[k]>>]

\* Declarations of one name: their first columns, then their second ones.
LEMMA TogetherIsCat ==
  ASSUME NEW V, NEW ds, IsFiniteSet(ds), ds # {}, \A d \in ds : Said(d) \in Seq(V)
  PROVE  \E m \in Nat : \E f :
           /\ Together(ds) = Cat([k \in 1 .. m |-> k], f)
           /\ \A d \in ds : DOMAIN Said(d) \subseteq 1 .. m
           /\ \A k \in 1 .. m : PairsAt(f[k], ds, k)
  <1> DEFINE key == [d \in ds |-> Len(Said(d))]
             s == Sorted(key)
             last == Said(s[Len(s)])
             Long(k) == {d \in ds : Len(Said(d)) >= k}
             At(k) == Keep(s, Long(k))
             Pair(k, i) == <<At(k)[i], Said(At(k)[i])[k]>>
             Pairs(k) == [i \in DOMAIN At(k) |-> Pair(k, i)]
             m == Len(last)
             f == [k \in 1 .. m |-> Pairs(k)]
             id == [k \in 1 .. m |-> k]
  <1>0. \A d \in ds : Len(Said(d)) \in Nat /\ DOMAIN Said(d) = 1 .. Len(Said(d))
    OBVIOUS
  <1>1. DOMAIN key = ds /\ \A d \in ds : key[d] = Len(Said(d)) /\ key[d] \in Nat
    BY <1>0
  <1> HIDE DEF key
  <1>2. /\ s \in Seq(ds) /\ Len(s) \in Nat /\ DOMAIN s = 1 .. Len(s) /\ Range(s) = ds
        /\ IsInjective(s)
        /\ \A i, j \in DOMAIN s : i < j => key[s[i]] <= key[s[j]]
    BY <1>1, SortedParts
  <1> HIDE DEF s
  <1>3. \A d \in ds : \E i \in DOMAIN s : s[i] = d
    BY <1>2 DEF Range
  <1>4. Len(s) \in DOMAIN s /\ s[Len(s)] \in ds
    <2>1. DOMAIN s # {}
      BY <1>3
    <2> QED
      BY <1>2, <2>1
  <1>5. m \in Nat /\ DOMAIN last = 1 .. m
    BY <1>0, <1>4
  <1>6. ASSUME NEW d \in ds PROVE Len(Said(d)) <= m
    <2>1. PICK i \in DOMAIN s : s[i] = d
      BY <1>3
    <2>2. i = Len(s) \/ i < Len(s)
      BY <1>2
    <2>3. key[d] <= key[s[Len(s)]]
      <3>1. key[d] \in Nat
        BY <1>1
      <3>2. CASE i = Len(s)
        BY <2>1, <3>1, <3>2
      <3>3. CASE i < Len(s)
        <4>1. key[s[i]] <= key[s[Len(s)]]
          BY <1>2, <1>4, <3>3
        <4> QED
          BY <2>1, <4>1
      <3> QED
        BY <2>2, <3>2, <3>3
    <2> QED
      BY <1>1, <1>4, <2>3
  <1>7. Together(ds) = Cat(id, f)
    <2>1. Together(ds) = FlattenSeq([k \in 1 .. m |-> Pairs(k)])
      BY <1>5 DEF Together, s, key
    <2>2. [k \in DOMAIN id |-> f[id[k]]] = [k \in 1 .. m |-> Pairs(k)]
      <3> HIDE DEF m, Pairs
      <3> QED
        OBVIOUS
    <2> QED
      BY <2>1, <2>2 DEF Cat
  <1> HIDE DEF m, last
  <1>8. ASSUME NEW k \in 1 .. m PROVE PairsAt(f[k], ds, k)
    <2>1. Long(k) = {d \in ds : k \in DOMAIN Said(d)}
      BY <1>0, <1>5
    <2>2. At(k) \in Seq(ds) /\ Range(At(k)) = ds \cap Long(k)
      BY <1>2, KeepType, KeepRange
    <2>3. IsInjective(At(k))
      BY <1>2, KeepInjective
    <2>4. f[k] = Pairs(k)
      OBVIOUS
    <2>5. Range(At(k)) = {d \in ds : k \in DOMAIN Said(d)}
      BY <2>1, <2>2
    <2> DEFINE a == At(k)
    <2>6. f[k] = [i \in DOMAIN a |-> <<a[i], Said(a[i])[k]>>]
      BY <2>4
    <2> HIDE DEF a, f
    <2> QED
      BY <2>2, <2>3, <2>5, <2>6 DEF PairsAt, a
  <1>9. \A d \in ds : DOMAIN Said(d) \subseteq 1 .. m
    BY <1>0, <1>5, <1>6
  <1> HIDE DEF f
  <1> QED
    BY <1>5, <1>7, <1>8, <1>9

\* What one of them says among these.
LEMMA TogetherOne ==
  ASSUME NEW V, NEW ds, IsFiniteSet(ds), \A d \in ds : Said(d) \in Seq(V),
         NEW p, NEW d0 \in ds,
         \A pair \in ds \X V : p[pair] = IF pair[1] = d0 THEN <<pair[2]>> ELSE <<>>
  PROVE  Cat(Together(ds), p) = Said(d0)
  <1>1. PICK m \in Nat : \E f :
           /\ Together(ds) = Cat([k \in 1 .. m |-> k], f)
           /\ \A d \in ds : DOMAIN Said(d) \subseteq 1 .. m
           /\ \A k \in 1 .. m : PairsAt(f[k], ds, k)
    BY TogetherIsCat
  <1> DEFINE id == [k \in 1 .. m |-> k]
             g(f) == [k \in 1 .. m |-> Cat(f[k], p)]
  <1>2. PICK f : /\ Together(ds) = Cat(id, f)
                 /\ \A d \in ds : DOMAIN Said(d) \subseteq 1 .. m
                 /\ \A k \in 1 .. m : PairsAt(f[k], ds, k)
    BY <1>1
  <1>3. Gives(p, ds \X V, V)
    <2>1. \A v \in V : <<v>> \in Seq(V)
      OBVIOUS
    <2>2. <<>> \in Seq(V)
      OBVIOUS
    <2> QED
      BY <2>1, <2>2 DEF Gives
  <1>4. ASSUME NEW k \in 1 .. m
        PROVE  /\ f[k] \in Seq(ds \X V)
               /\ Cat(f[k], p) = IF k \in DOMAIN Said(d0) THEN <<Said(d0)[k]>> ELSE <<>>
    <2>1. PICK a \in Seq(ds) : /\ IsInjective(a) /\ Range(a) = {d \in ds : k \in DOMAIN Said(d)}
                               /\ f[k] = [i \in DOMAIN a |-> <<a[i], Said(a[i])[k]>>]
      BY <1>2 DEF PairsAt
    <2> DEFINE D == {d \in ds : k \in DOMAIN Said(d)}
               h == [d \in D |-> IF d = d0 THEN <<Said(d)[k]>> ELSE <<>>]
    <2>2. Len(a) \in Nat /\ DOMAIN a = 1 .. Len(a)
          /\ \A i \in DOMAIN a : a[i] \in D /\ Said(a[i])[k] \in V
      <3>1. \A d \in D : Said(d)[k] \in V
        OBVIOUS
      <3>2. \A i \in DOMAIN a : a[i] \in D
        BY <2>1 DEF Range
      <3> QED
        BY <3>1, <3>2
    <2>3. a \in Seq(D)
      <3>1. a \in [1 .. Len(a) -> D]
        BY <2>2
      <3> QED
        BY <2>2, <3>1
    <2>4. f[k] \in [1 .. Len(a) -> ds \X V]
      BY <2>1, <2>2
    <2>5. f[k] \in Seq(ds \X V)
      <3> DEFINE w == f[k]
                 n == Len(a)
                 P == ds \X V
      <3>1. w \in [1 .. n -> P] /\ n \in Nat
        BY <2>2, <2>4
      <3> HIDE DEF w, n, P
      <3>2. w \in Seq(P)
        BY <3>1
      <3> QED
        BY <3>2 DEF w, P
    <2>6. Cat(f[k], p) = Cat(a, h)
      <3>1. \A i \in DOMAIN a : p[f[k][i]] = h[a[i]]
        BY <2>1, <2>2
      <3>2. DOMAIN f[k] = DOMAIN a
        BY <2>1
      <3> HIDE DEF h
      <3>3. [i \in DOMAIN f[k] |-> p[f[k][i]]] = [i \in DOMAIN a |-> h[a[i]]]
        BY <3>1, <3>2
      <3> QED
        BY <3>3 DEF Cat
    <2>7. CASE d0 \in D
      <3>1. Gives(h, D, V)
        <4>1. \A d \in D : <<Said(d)[k]>> \in Seq(V)
          OBVIOUS
        <4>2. <<>> \in Seq(V)
          OBVIOUS
        <4> HIDE DEF D
        <4> QED
          BY <4>1, <4>2 DEF Gives
      <3>2. d0 \in Range(a) /\ \A d \in Range(a) : d # d0 => h[d] = <<>>
        BY <2>1, <2>7
      <3>3. h[d0] = <<Said(d0)[k]>>
        BY <2>7
      <3> HIDE DEF h, D
      <3>4. Cat(a, h) = h[d0]
        BY <2>1, <2>3, <3>1, <3>2, CatOne
      <3> QED
        BY <2>5, <2>6, <2>7, <3>3, <3>4 DEF D
    <2>8. CASE d0 \notin D
      <3>1. \A i \in DOMAIN a : h[a[i]] = <<>>
        BY <2>2, <2>8
      <3> HIDE DEF h
      <3>2. Cat(a, h) = <<>>
        BY <2>2, <3>1, CatNone
      <3> QED
        BY <2>5, <2>6, <2>8, <3>2
    <2> QED
      BY <2>7, <2>8
  <1>5. Gives(f, 1 .. m, ds \X V)
    BY <1>4 DEF Gives
  <1>6. id \in Seq(1 .. m)
    OBVIOUS
  <1>7. Cat(Cat(id, f), p) = Cat(id, g(f))
    <2> DEFINE X == 1 .. m
               R == ds \X V
    <2>1. Gives(f, X, R) /\ Gives(p, R, V) /\ id \in Seq(X)
      BY <1>3, <1>5, <1>6
    <2> HIDE DEF id, X, R
    <2>2. Cat(Cat(id, f), p) = Cat(id, [x \in X |-> Cat(f[x], p)])
      BY <2>1, CatCat
    <2> QED
      BY <2>2 DEF X
  <1>8. Cat(id, g(f)) = Said(d0)
    <2> DEFINE h == g(f)
               w == Said(d0)
    <2>1. w \in Seq(V) /\ DOMAIN w \subseteq 1 .. m
      BY <1>2
    <2>2. \A k \in 1 .. m : h[k] = IF k \in DOMAIN w THEN <<w[k]>> ELSE <<>>
      BY <1>4
    <2> HIDE DEF h, w
    <2>3. Cat([k \in 1 .. m |-> k], h) = w
      BY <2>1, <2>2, CatPositions
    <2> QED
      BY <2>3 DEF h, w
  <1> QED
    BY <1>2, <1>7, <1>8

\* What a list of rows says of the member n of a kind: its columns, those that
\* are included, and those that are referred to.
Tell(s, kind, n) ==
  <<Cat(s, ColumnsFor(kind, n)), Cat(s, IncludedFor(kind, n)), Cat(s, ReferredFor(kind, n))>>

\* Rows that only have columns.
Plain(s) == s \in Seq(RowSet) /\ \A r \in Range(s) : r.included = <<>> /\ r.to = Null /\ r.toColumns = <<>>

LEMMA PlainTells ==
  ASSUME NEW s, Plain(s), NEW kind, NEW n
  PROVE  Tell(s, kind, n) = <<Cat(s, ColumnsFor(kind, n)), <<>>, <<>>>>
  <1>1. Len(s) \in Nat /\ DOMAIN s = 1 .. Len(s) /\ \A i \in DOMAIN s : s[i] \in RowSet /\ s[i] \in Range(s)
    BY DEF Plain, Range
  <1>2. \A i \in DOMAIN s : IncludedFor(kind, n)[s[i]] = <<>>
    BY <1>1 DEF Plain, IncludedFor
  <1>3. \A i \in DOMAIN s : ReferredFor(kind, n)[s[i]] = <<>>
    BY <1>1 DEF Plain, ReferredFor
  <1>4. Cat(s, IncludedFor(kind, n)) = <<>>
    BY <1>1, <1>2, CatNone
  <1>5. Cat(s, ReferredFor(kind, n)) = <<>>
    BY <1>1, <1>3, CatNone
  <1> QED
    BY <1>4, <1>5 DEF Tell

\* The rows that ColumnRows makes under one name.
NamedRows(into, n) ==
  LET pairs == Together({d \in DOMAIN into : d.name = n})
  IN [k \in DOMAIN pairs |-> Row(into[pairs[k][1]], n, <<pairs[k][2]>>)]

RowsFor(into) == [n \in {d.name : d \in DOMAIN into} |-> NamedRows(into, n)]

\* Declarations whose columns make rows of the kinds into.
Sorting(into) == DOMAIN into \subseteq declared /\ \A d \in DOMAIN into : into[d] \in Kinds

\* d0 is the only one of its name that goes where it goes.
Alone(into, d0) ==
  d0 \in DOMAIN into /\ \A d \in DOMAIN into : d.name = d0.name /\ into[d] = into[d0] => d = d0

LEMMA SortingParts ==
  ASSUME DeclaredOK, NEW into, Sorting(into)
  PROVE  /\ IsFiniteSet(DOMAIN into)
         /\ \A d \in DOMAIN into : d \in Declarations /\ d.name \in Nat /\ Said(d) \in Seq(Values)
         /\ \A d \in DOMAIN into : \A v \in Values : Row(into[d], d.name, <<v>>) \in RowSet
  <1>1. IsFiniteSet(DOMAIN into)
    <2>1. DOMAIN into \in SUBSET declared
      BY DEF Sorting
    <2> QED
      BY <2>1, FS_Subset DEF DeclaredOK
  <1>2. \A d \in DOMAIN into : d \in Declarations /\ d.name \in Nat /\ Said(d) \in Seq(Values)
    BY Declaration DEF DeclaredOK, Sorting
  <1>3. \A d \in DOMAIN into : \A v \in Values : Row(into[d], d.name, <<v>>) \in RowSet
    <2> SUFFICES ASSUME NEW d \in DOMAIN into, NEW v \in Values
                 PROVE  Row(into[d], d.name, <<v>>) \in RowSet
      OBVIOUS
    <2>1. d.name \in Names /\ Null \in Targeted /\ <<v>> \in Seq(Values) /\ <<>> \in Seq(Values)
          /\ into[d] \in Kinds
      BY <1>2 DEF Names, Targeted, Sorting
    <2> QED
      BY <2>1 DEF Row, RowSet
  <1> QED
    BY <1>1, <1>2, <1>3

LEMMA NamedRowsParts ==
  ASSUME DeclaredOK, NEW into, Sorting(into), NEW n \in {d.name : d \in DOMAIN into}
  PROVE  LET ds == {d \in DOMAIN into : d.name = n}
         IN  /\ IsFiniteSet(ds) /\ ds # {} /\ \A d \in ds : Said(d) \in Seq(Values)
             /\ Together(ds) \in Seq(ds \X Values)
             /\ NamedRows(into, n) \in Seq(RowSet)
             /\ \A r \in Range(NamedRows(into, n)) : r.name = n
  <1> DEFINE ds == {d \in DOMAIN into : d.name = n}
             pairs == Together(ds)
             list == [k \in DOMAIN pairs |-> Row(into[pairs[k][1]], n, <<pairs[k][2]>>)]
  <1>1. /\ IsFiniteSet(DOMAIN into)
        /\ \A d \in DOMAIN into : Said(d) \in Seq(Values)
        /\ \A d \in DOMAIN into : \A v \in Values : Row(into[d], d.name, <<v>>) \in RowSet
    BY SortingParts
  <1>2. IsFiniteSet(ds) /\ ds # {} /\ \A d \in ds : Said(d) \in Seq(Values)
    <2>1. ds \in SUBSET DOMAIN into
      OBVIOUS
    <2> QED
      BY <1>1, <2>1, FS_Subset
  <1>3. \A d \in ds : \A v \in Values : Row(into[d], n, <<v>>) \in RowSet
    BY <1>1
  <1> HIDE DEF ds
  <1>4. pairs \in Seq(ds \X Values)
    BY <1>2, TogetherParts
  <1> HIDE DEF pairs
  <1>5. Len(pairs) \in Nat /\ DOMAIN pairs = 1 .. Len(pairs)
        /\ \A k \in DOMAIN pairs : pairs[k][1] \in ds /\ pairs[k][2] \in Values
    <2>1. \A k \in DOMAIN pairs : pairs[k] \in ds \X Values
      BY <1>4
    <2> QED
      BY <1>4, <2>1
  <1>6. list \in [1 .. Len(pairs) -> RowSet]
    BY <1>3, <1>5
  <1>7. list \in Seq(RowSet)
    BY <1>5, <1>6
  <1>8. \A r \in Range(list) : r.name = n
    BY DEF Range, Row
  <1>9. NamedRows(into, n) = list
    BY DEF NamedRows, pairs, ds
  <1> QED
    BY <1>2, <1>4, <1>7, <1>8, <1>9 DEF pairs, ds

LEMMA ColumnRowsIsCat ==
  ASSUME DeclaredOK, NEW into, Sorting(into)
  PROVE  LET N == {d.name : d \in DOMAIN into}
         IN  /\ Gives(RowsFor(into), N, RowSet)
             /\ \E names \in Seq(N) : /\ IsInjective(names) /\ Range(names) = N
                                      /\ ColumnRows(into) = Cat(names, RowsFor(into))
  <1> DEFINE N == {d.name : d \in DOMAIN into}
             key == [n \in N |-> n]
             names == Sorted(key)
  <1>1. IsFiniteSet(N) /\ DOMAIN key = N /\ \A n \in DOMAIN key : key[n] \in Nat
    <2>1. IsFiniteSet(DOMAIN into) /\ \A d \in DOMAIN into : d.name \in Nat
      BY SortingParts
    <2>2. IsFiniteSet(N)
      <3> DEFINE f == [d \in DOMAIN into |-> d.name]
      <3>1. f \in Surjection(DOMAIN into, N)
        BY DEF Surjection
      <3> QED
        BY <2>1, <3>1, FS_Surjection
    <2> QED
      BY <2>1, <2>2
  <1>2. Gives(RowsFor(into), N, RowSet)
    BY NamedRowsParts DEF Gives, RowsFor
  <1> HIDE DEF key
  <1>3. names \in Seq(N) /\ IsInjective(names) /\ Range(names) = N
    BY <1>1, SortedParts
  <1>4. \A i \in DOMAIN names : RowsFor(into)[names[i]] = NamedRows(into, names[i])
    <2>1. \A i \in DOMAIN names : names[i] \in N
      BY <1>3
    <2> QED
      BY <2>1 DEF RowsFor
  <1>5. ColumnRows(into) = FlattenSeq([i \in DOMAIN names |-> NamedRows(into, names[i])])
    BY DEF ColumnRows, NamedRows, names, key
  <1> HIDE DEF names
  <1>6. [i \in DOMAIN names |-> NamedRows(into, names[i])] = [i \in DOMAIN names |-> RowsFor(into)[names[i]]]
    BY <1>4
  <1>7. ColumnRows(into) = Cat(names, RowsFor(into))
    BY <1>5, <1>6 DEF Cat
  <1> QED
    BY <1>2, <1>3, <1>7

\* The columns of one declaration, out of the rows of many.
LEMMA ColumnRowsOne ==
  ASSUME DeclaredOK, NEW into, Sorting(into), NEW d0, Alone(into, d0)
  PROVE  /\ Plain(ColumnRows(into))
         /\ Tell(ColumnRows(into), into[d0], d0.name) = <<Said(d0), <<>>, <<>>>>
  <1> DEFINE N == {d.name : d \in DOMAIN into}
             n0 == d0.name
             p == ColumnsFor(into[d0], n0)
             ds == {d \in DOMAIN into : d.name = n0}
             g == [n \in N |-> Cat(RowsFor(into)[n], p)]
  <1>1. Gives(p, RowSet, Values)
    BY PiecesGive
  <1>2. Gives(RowsFor(into), N, RowSet)
    BY ColumnRowsIsCat
  <1>3. PICK names \in Seq(N) : /\ IsInjective(names) /\ Range(names) = N
                                /\ ColumnRows(into) = Cat(names, RowsFor(into))
    BY ColumnRowsIsCat
  <1>4. n0 \in N /\ \A n \in N : RowsFor(into)[n] = NamedRows(into, n)
    BY DEF Alone, RowsFor
  <1>5. Cat(NamedRows(into, n0), p) = Said(d0)
    <2> DEFINE pp == [pair \in ds \X Values |-> IF pair[1] = d0 THEN <<pair[2]>> ELSE <<>>]
               pairs == Together(ds)
               list == NamedRows(into, n0)
    <2>1. IsFiniteSet(ds) /\ (\A d \in ds : Said(d) \in Seq(Values)) /\ pairs \in Seq(ds \X Values) /\ d0 \in ds
      BY <1>4, NamedRowsParts DEF Alone
    <2>2. \A pair \in ds \X Values : pp[pair] = IF pair[1] = d0 THEN <<pair[2]>> ELSE <<>>
      OBVIOUS
    <2>3. DOMAIN list = DOMAIN pairs
          /\ \A k \in DOMAIN pairs : list[k] = Row(into[pairs[k][1]], n0, <<pairs[k][2]>>)
      BY DEF NamedRows
    <2>4. list \in Seq(RowSet)
      BY <1>4, NamedRowsParts
    <2>5. \A d \in ds : into[d] = into[d0] <=> d = d0
      BY DEF Alone
    <2> HIDE DEF ds, list, pairs, pp
    <2>6. ASSUME NEW k \in DOMAIN pairs PROVE p[list[k]] = pp[pairs[k]]
      <3>1. pairs[k] \in ds \X Values /\ list[k] \in RowSet
        BY <2>1, <2>3, <2>4
      <3>2. pairs[k][1] \in ds
        BY <3>1
      <3>3. list[k].into = into[pairs[k][1]] /\ list[k].name = n0 /\ list[k].columns = <<pairs[k][2]>>
        BY <2>3 DEF Row
      <3>4. p[list[k]] = IF list[k].into = into[d0] THEN list[k].columns ELSE <<>>
        BY <3>1, <3>3 DEF ColumnsFor
      <3> QED
        BY <2>2, <2>5, <3>1, <3>2, <3>3, <3>4
    <2>7. [k \in DOMAIN list |-> p[list[k]]] = [k \in DOMAIN pairs |-> pp[pairs[k]]]
      <3> HIDE DEF p
      <3> QED
        BY <2>3, <2>6
    <2>8. Cat(list, p) = Cat(pairs, pp)
      BY <2>7 DEF Cat
    <2>9. Cat(Together(ds), pp) = Said(d0)
      BY <2>1, <2>2, TogetherOne
    <2> QED
      BY <2>8, <2>9 DEF list, pairs
  <1>6. Cat(Cat(names, RowsFor(into)), p) = Cat(names, g)
    <2> HIDE DEF N, p
    <2> QED
      BY <1>1, <1>2, <1>3, CatCat
  <1>7. ASSUME NEW n \in N, n # n0 PROVE Cat(RowsFor(into)[n], p) = <<>>
    <2> DEFINE list == NamedRows(into, n)
    <2>1. list \in Seq(RowSet) /\ \A r \in Range(list) : r.name = n
      BY NamedRowsParts
    <2>2. Len(list) \in Nat /\ DOMAIN list = 1 .. Len(list)
          /\ \A i \in DOMAIN list : list[i] \in RowSet /\ list[i].name # n0
      BY <1>7, <2>1 DEF Range
    <2> HIDE DEF list
    <2>3. \A i \in DOMAIN list : p[list[i]] = <<>>
      BY <2>2 DEF ColumnsFor
    <2>4. Cat(list, p) = <<>>
      BY <2>2, <2>3, CatNone
    <2> QED
      BY <1>4, <2>4 DEF list
  <1>8. Cat(names, g) = Said(d0)
    <2>1. Gives(g, N, Values)
      <3>1. \A n \in N : Cat(RowsFor(into)[n], p) \in Seq(Values)
        BY <1>1, <1>2, CatParts DEF Gives
      <3> QED
        BY <3>1 DEF Gives
    <2>2. n0 \in Range(names) /\ \A n \in Range(names) : n # n0 => g[n] = <<>>
      BY <1>3, <1>4, <1>7
    <2>3. g[n0] = Said(d0)
      BY <1>4, <1>5
    <2> HIDE DEF g, N, n0
    <2>4. Cat(names, g) = g[n0]
      BY <1>3, <2>1, <2>2, CatOne
    <2> QED
      BY <2>3, <2>4
  <1>9. Plain(ColumnRows(into))
    <2>1. RowsInto(into, Values, RowSet)
      BY SortingParts DEF RowsInto
    <2>2. /\ ColumnRows(into) \in Seq(RowSet)
          /\ \A r \in Range(ColumnRows(into)) :
               \E d \in DOMAIN into : \E k \in DOMAIN Said(d) : r = Row(into[d], d.name, <<Said(d)[k]>>)
      BY <2>1, ColumnRowsParts
    <2> QED
      BY <2>2 DEF Plain, Row
  <1>10. Cat(ColumnRows(into), p) = Said(d0)
    BY <1>3, <1>6, <1>8
  <1> QED
    BY <1>9, <1>10, PlainTells

\* A list of rows for each declaration, all under its name.
OwnRows(f) ==
  /\ DOMAIN f \subseteq declared
  /\ \A d \in DOMAIN f : f[d] \in Seq(RowSet) /\ \A r \in Range(f[d]) : r.name = d.name

OneNamed(D) == \A c, d \in D : c.name = d.name => c = d

LEMMA OtherTells ==
  ASSUME NEW s \in Seq(RowSet), NEW kind, NEW n, \A r \in Range(s) : ~(r.into = kind /\ r.name = n)
  PROVE  Tell(s, kind, n) = <<<<>>, <<>>, <<>>>>
  <1>1. n \notin NamesOf(s, kind)
    BY DEF NamesOf
  <1> QED
    BY <1>1, NothingSaid DEF Tell

LEMMA EachTells ==
  ASSUME DeclaredOK, NEW f, OwnRows(f), OneNamed(DOMAIN f), NEW d0 \in DOMAIN f, NEW kind
  PROVE  Tell(Each(f), kind, d0.name) = Tell(f[d0], kind, d0.name)
  <1> DEFINE n == d0.name
             p == ColumnsFor(kind, n)
             q == IncludedFor(kind, n)
             u == ReferredFor(kind, n)
  <1>1. IsFiniteSet(DOMAIN f) /\ \A d \in DOMAIN f : d.name \in Nat
    <2>1. DOMAIN f \in SUBSET declared
      BY DEF OwnRows
    <2> QED
      BY <2>1, FS_Subset, Declaration DEF DeclaredOK
  <1>2. Gives(f, DOMAIN f, RowSet)
    BY DEF OwnRows, Gives
  <1>3. Gives(p, RowSet, Values) /\ Gives(q, RowSet, Values) /\ Gives(u, RowSet, Values)
    BY PiecesGive
  <1>4. \A d \in DOMAIN f : d # d0 => Cat(f[d], p) = <<>> /\ Cat(f[d], q) = <<>> /\ Cat(f[d], u) = <<>>
    <2> SUFFICES ASSUME NEW d \in DOMAIN f, d # d0
                 PROVE  Cat(f[d], p) = <<>> /\ Cat(f[d], q) = <<>> /\ Cat(f[d], u) = <<>>
      OBVIOUS
    <2> DEFINE s == f[d]
    <2>1. s \in Seq(RowSet) /\ \A r \in Range(s) : r.name # n
      BY DEF OwnRows, OneNamed
    <2> HIDE DEF s, n
    <2>2. n \notin NamesOf(s, kind)
      BY <2>1 DEF NamesOf
    <2>3. Cat(s, p) = <<>> /\ Cat(s, q) = <<>> /\ Cat(s, u) = <<>>
      BY <2>1, <2>2, NothingSaid
    <2> QED
      BY <2>3 DEF s
  <1> HIDE DEF p, q, u
  <1>5. Cat(Each(f), p) = Cat(f[d0], p)
    BY <1>1, <1>2, <1>3, <1>4, EachOne
  <1>6. Cat(Each(f), q) = Cat(f[d0], q)
    BY <1>1, <1>2, <1>3, <1>4, EachOne
  <1>7. Cat(Each(f), u) = Cat(f[d0], u)
    BY <1>1, <1>2, <1>3, <1>4, EachOne
  <1> QED
    BY <1>5, <1>6, <1>7 DEF Tell, p, q, u, n

\* Which rows Each makes.
LEMMA EachRows ==
  ASSUME DeclaredOK, NEW f, OwnRows(f)
  PROVE  /\ Each(f) \in Seq(RowSet)
         /\ \A r : r \in Range(Each(f)) <=> \E d \in DOMAIN f : r \in Range(f[d])
  <1>1. IsFiniteSet(DOMAIN f)
    <2>1. DOMAIN f \in SUBSET declared
      BY DEF OwnRows
    <2> QED
      BY <2>1, FS_Subset DEF DeclaredOK
  <1>2. \A d \in DOMAIN f : d.name \in Nat /\ f[d] \in Seq(RowSet)
    BY Declaration DEF DeclaredOK, OwnRows
  <1> QED
    BY <1>1, <1>2, EachParts

\* Rows that say one column each.
LEMMA Spelled ==
  ASSUME NEW s \in Seq(RowSet), NEW w \in Seq(Values), DOMAIN w = DOMAIN s, NEW kind, NEW n,
         \A k \in DOMAIN s : s[k].into = kind /\ s[k].name = n
  PROVE  /\ (\A k \in DOMAIN s : s[k].columns = <<w[k]>>) => Cat(s, ColumnsFor(kind, n)) = w
         /\ (\A k \in DOMAIN s : s[k].included = <<w[k]>>) => Cat(s, IncludedFor(kind, n)) = w
         /\ (\A k \in DOMAIN s : s[k].toColumns = <<w[k]>>) => Cat(s, ReferredFor(kind, n)) = w
  <1>1. \A k \in DOMAIN s : s[k] \in RowSet
    OBVIOUS
  <1>2. /\ Gives(ColumnsFor(kind, n), RowSet, Values)
        /\ Gives(IncludedFor(kind, n), RowSet, Values)
        /\ Gives(ReferredFor(kind, n), RowSet, Values)
    BY PiecesGive
  <1>3. ASSUME \A k \in DOMAIN s : s[k].columns = <<w[k]>> PROVE Cat(s, ColumnsFor(kind, n)) = w
    <2>1. \A k \in DOMAIN s : ColumnsFor(kind, n)[s[k]] = <<w[k]>>
      BY <1>1, <1>3 DEF ColumnsFor
    <2> QED
      BY <1>2, <2>1, CatSingles
  <1>4. ASSUME \A k \in DOMAIN s : s[k].included = <<w[k]>> PROVE Cat(s, IncludedFor(kind, n)) = w
    <2>1. \A k \in DOMAIN s : IncludedFor(kind, n)[s[k]] = <<w[k]>>
      BY <1>1, <1>4 DEF IncludedFor
    <2> QED
      BY <1>2, <2>1, CatSingles
  <1>5. ASSUME \A k \in DOMAIN s : s[k].toColumns = <<w[k]>> PROVE Cat(s, ReferredFor(kind, n)) = w
    <2>1. \A k \in DOMAIN s : ReferredFor(kind, n)[s[k]] = <<w[k]>>
      BY <1>1, <1>5 DEF ReferredFor
    <2> QED
      BY <1>2, <2>1, CatSingles
  <1> QED
    BY <1>3, <1>4, <1>5

\* What is said by a list before or after one that does not speak of n.
LEMMA TellLeft ==
  ASSUME NEW s \in Seq(RowSet), NEW u \in Seq(RowSet), NEW kind, NEW n
  PROVE  /\ n \notin NamesOf(u, kind) => Tell(s \o u, kind, n) = Tell(s, kind, n)
         /\ n \notin NamesOf(s, kind) => Tell(s \o u, kind, n) = Tell(u, kind, n)
  <1>1. /\ Gives(ColumnsFor(kind, n), RowSet, Values)
        /\ Gives(IncludedFor(kind, n), RowSet, Values)
        /\ Gives(ReferredFor(kind, n), RowSet, Values)
    BY PiecesGive
  <1> DEFINE a == ColumnsFor(kind, n)
             b == IncludedFor(kind, n)
             c == ReferredFor(kind, n)
             both == s \o u
  <1>2. /\ Cat(s, a) \in Seq(Values) /\ Cat(u, a) \in Seq(Values)
        /\ Cat(s, b) \in Seq(Values) /\ Cat(u, b) \in Seq(Values)
        /\ Cat(s, c) \in Seq(Values) /\ Cat(u, c) \in Seq(Values)
    BY <1>1, CatParts
  <1>3. \A w \in Seq(Values) : w \o <<>> = w /\ <<>> \o w = w
    OBVIOUS
  <1>4. /\ Tell(both, kind, n) = <<Cat(both, a), Cat(both, b), Cat(both, c)>>
        /\ Tell(s, kind, n) = <<Cat(s, a), Cat(s, b), Cat(s, c)>>
        /\ Tell(u, kind, n) = <<Cat(u, a), Cat(u, b), Cat(u, c)>>
    BY DEF Tell
  <1>5. Cat(both, a) = Cat(s, a) \o Cat(u, a)
    BY <1>1, CatConcat
  <1>6. Cat(both, b) = Cat(s, b) \o Cat(u, b)
    BY <1>1, CatConcat
  <1>7. Cat(both, c) = Cat(s, c) \o Cat(u, c)
    BY <1>1, CatConcat
  <1>8. n \notin NamesOf(u, kind) => Cat(u, a) = <<>> /\ Cat(u, b) = <<>> /\ Cat(u, c) = <<>>
    BY NothingSaid
  <1>9. n \notin NamesOf(s, kind) => Cat(s, a) = <<>> /\ Cat(s, b) = <<>> /\ Cat(s, c) = <<>>
    BY NothingSaid
  <1> HIDE DEF a, b, c, both
  <1>10. n \notin NamesOf(u, kind) => Cat(both, a) = Cat(s, a) /\ Cat(both, b) = Cat(s, b) /\ Cat(both, c) = Cat(s, c)
    BY <1>2, <1>3, <1>5, <1>6, <1>7, <1>8
  <1>11. n \notin NamesOf(s, kind) => Cat(both, a) = Cat(u, a) /\ Cat(both, b) = Cat(u, b) /\ Cat(both, c) = Cat(u, c)
    BY <1>2, <1>3, <1>5, <1>6, <1>7, <1>9
  <1> QED
    BY <1>4, <1>10, <1>11 DEF both

-----------------------------------------------------------------------------
(* Which names are there once. *)

\* What the database did not let its users declare.
Lawful ==
  /\ \A c, d \in declared : SameName(c, d) => Namespace(c) # Namespace(d)
  /\ \A d \in declared :
       /\ d.kind = "fk" /\ adapter = "sqlite" => d.to[1] = Schema
       /\ d.owner # Schema => adapter = "oracle"
       /\ d.included # <<>> => adapter \in {"postgres", "mssql"}
       /\ d.partition # <<>> => adapter = "mssql"

LEMMA Distinct ==
  ASSUME DeclaredOK, Lawful
  PROVE  /\ adapter \in {"sqlite", "duckdb", "mssql"} => OneNamed(Of(Kinds \ {"trigger"}))
         /\ adapter = "mssql" => OneNamed(Of(Kinds))
         /\ adapter \in MySQL => OneNamed(Of({"pk", "unique", "index"})) /\ OneNamed(Of({"fk"}))
         /\ adapter = "oracle" => OneNamed(Of({"pk", "unique", "check", "fk"}))
         /\ adapter = "oracle" /\ ~Confused("index") => OneNamed(Of({"index"}))
  <1>1. ASSUME NEW K, NEW c \in Of(K), NEW d \in Of(K), c.name = d.name, Namespace(c) = Namespace(d)
        PROVE  c = d
    <2>1. c \in declared /\ d \in declared
      BY DEF Of
    <2> QED
      BY <1>1, <2>1 DEF Lawful, SameName
  <1>2. ASSUME adapter \in {"sqlite", "duckdb"} PROVE OneNamed(Of(Kinds \ {"trigger"}))
    <2>1. \A d \in Of(Kinds \ {"trigger"}) : Namespace(d) = <<"constraint">>
      BY <1>2 DEF Namespace, MySQL, Of
    <2> QED
      BY <1>1, <2>1 DEF OneNamed
  <1>3. ASSUME adapter = "mssql" PROVE OneNamed(Of(Kinds)) /\ OneNamed(Of(Kinds \ {"trigger"}))
    <2>1. \A K : \A d \in Of(K) : Namespace(d) = <<"constraint">>
      BY <1>3 DEF Namespace, MySQL, Of
    <2> QED
      BY <1>1, <2>1 DEF OneNamed
  <1>4. ASSUME adapter \in MySQL PROVE OneNamed(Of({"pk", "unique", "index"})) /\ OneNamed(Of({"fk"}))
    <2>1. \A d \in Of({"pk", "unique", "index"}) : Namespace(d) = <<"key", t>>
      BY <1>4 DEF Namespace, MySQL, Of
    <2>2. \A d \in Of({"fk"}) : Namespace(d) = <<"fk">>
      BY <1>4 DEF Namespace, MySQL, Of
    <2> QED
      BY <1>1, <2>1, <2>2 DEF OneNamed
  <1>5. ASSUME adapter = "oracle" PROVE OneNamed(Of({"pk", "unique", "check", "fk"}))
    <2>1. \A d \in Of({"pk", "unique", "check", "fk"}) : Namespace(d) = <<"constraint">>
      BY <1>5 DEF Namespace, MySQL, Of
    <2> QED
      BY <1>1, <2>1 DEF OneNamed
  <1>6. ASSUME adapter = "oracle", ~Confused("index") PROVE OneNamed(Of({"index"}))
    <2>1. \A d \in Of({"index"}) : Namespace(d) = <<"index", d.owner>>
      BY <1>6 DEF Namespace, MySQL, Of
    <2>2. ASSUME NEW c \in Of({"index"}), NEW d \in Of({"index"}), c.name = d.name, c # d
          PROVE  FALSE
      <3>1. c \in declared /\ d \in declared /\ c.table = t /\ c.kind = "index" /\ d.kind = "index" /\ d.table = t
        BY DEF Of
      <3>2. c.owner # d.owner
        BY <1>1, <2>1, <2>2
      <3>3. c.owner # Schema \/ d.owner # Schema
        BY <3>2
      <3>4. SameName(c, d) /\ SameName(d, c)
        BY <2>2 DEF SameName
      <3> QED
        BY <1>6, <3>1, <3>3, <3>4 DEF Confused
    <2> QED
      BY <2>2 DEF OneNamed
  <1> QED
    BY <1>2, <1>3, <1>4, <1>5, <1>6

LEMMA FewerNamed ==
  ASSUME NEW D, NEW E, OneNamed(E), D \subseteq E
  PROVE  OneNamed(D)
  BY DEF OneNamed

-----------------------------------------------------------------------------
(* What each query tells. *)

\* A list of rows is of these kinds, names what was declared, and leaves nothing out.
From(s, kinds) ==
  /\ s \in Seq(RowSet)
  /\ \A r \in Range(s) :
       /\ r.into \in kinds
       /\ r.into \in Kinds /\ GroupedKind(r.into) => \E d \in Of(Backing(r.into)) : r.name = d.name
  /\ \A kind \in kinds \cap Kinds : \A d \in Of(Backing(kind)) : \A y \in Range(Said(d)) :
       \E r \in Range(s) : r.into = kind /\ r.name = d.name /\ y \in Range(r.columns)

\* It tells each declaration of the kind right.  Oracle tells the targets apart.
Told(s, kind) ==
  \A d \in Of(Backing(kind)) :
    /\ Tell(s, kind, d.name) = <<Said(d), d.included, Referred(d)>>
    /\ (kind = "fk" /\ adapter = "oracle")
       \/ \A r \in Range(s) : r.into = kind /\ r.name = d.name => r.to = d.to

LEMMA ColumnRowsFrom ==
  ASSUME DeclaredOK, NEW into, Sorting(into)
  PROVE  /\ Plain(ColumnRows(into))
         /\ \A r \in Range(ColumnRows(into)) :
              r.to = Null /\ \E d \in DOMAIN into : r.into = into[d] /\ r.name = d.name
         /\ \A d \in DOMAIN into : \A y \in Range(Said(d)) :
              \E r \in Range(ColumnRows(into)) : r.into = into[d] /\ r.name = d.name /\ y \in Range(r.columns)
  <1>1. RowsInto(into, Values, RowSet)
    BY SortingParts DEF RowsInto
  <1>2. /\ ColumnRows(into) \in Seq(RowSet)
        /\ \A r : r \in Range(ColumnRows(into)) <=>
                    \E d \in DOMAIN into : \E k \in DOMAIN Said(d) : r = Row(into[d], d.name, <<Said(d)[k]>>)
    BY <1>1, ColumnRowsParts
  <1>3. ASSUME NEW r \in Range(ColumnRows(into))
        PROVE  /\ r.included = <<>> /\ r.to = Null /\ r.toColumns = <<>>
               /\ \E d \in DOMAIN into : r.into = into[d] /\ r.name = d.name
    <2>1. PICK d \in DOMAIN into : \E k \in DOMAIN Said(d) : r = Row(into[d], d.name, <<Said(d)[k]>>)
      BY <1>2
    <2> QED
      BY <2>1 DEF Row
  <1>4. ASSUME NEW d \in DOMAIN into, NEW y \in Range(Said(d))
        PROVE  \E r \in Range(ColumnRows(into)) : r.into = into[d] /\ r.name = d.name /\ y \in Range(r.columns)
    <2>1. PICK k \in DOMAIN Said(d) : Said(d)[k] = y
      BY <1>4 DEF Range
    <2>2. Row(into[d], d.name, <<Said(d)[k]>>) \in Range(ColumnRows(into))
      BY <1>2
    <2>3. y \in Range(<<Said(d)[k]>>)
      BY <2>1 DEF Range
    <2> QED
      BY <2>2, <2>3 DEF Row
  <1> QED
    BY <1>2, <1>3, <1>4 DEF Plain

\* What is not said of a declaration that is no index or no foreign key.
LEMMA Bare ==
  ASSUME DeclaredOK, NEW K, NEW d \in Of(K)
  PROVE  /\ d \in Declarations /\ d.kind \in K /\ d.kind \in Kinds /\ d \in declared /\ d.table = t
         /\ d.kind # "index" => d.included = <<>> /\ d.partition = <<>>
         /\ d.kind # "fk" => d.toColumns = <<>> /\ d.to = Null
         /\ d.kind # "fk" \/ adapter = "oracle" => Referred(d) = <<>>
  <1>1. d \in Declarations /\ d.kind \in K /\ d \in declared /\ d.table = t
    BY OfParts
  <1>2. d.kind \in Kinds /\ (d.kind # "index" => d.included = <<>> /\ d.partition = <<>>)
    BY <1>1, ConstantsOK
  <1>3. d.kind # "fk" => d.toColumns = <<>> /\ d.to = Null
    BY <1>1, ConstantsOK
  <1> QED
    BY <1>1, <1>2, <1>3 DEF Referred

\* A query for declarations of kinds that are not put together.
LEMMA DeclaredFrom ==
  ASSUME DeclaredOK, NEW K, K \subseteq Kinds, \A kind \in K : Backing(kind) = {kind}
  PROVE  /\ From(ColumnRows(AsDeclared(Of(K))), K)
         /\ OneNamed(Of(K)) /\ "index" \notin K /\ ("fk" \in K => adapter = "oracle") =>
              \A kind \in K : Told(ColumnRows(AsDeclared(Of(K))), kind)
  <1> DEFINE into == AsDeclared(Of(K))
             s == ColumnRows(into)
  <1>1. DOMAIN into = Of(K) /\ \A d \in Of(K) : into[d] = d.kind
    BY DEF AsDeclared
  <1>2. Sorting(into)
    BY <1>1, Bare DEF Sorting
  <1>3. \A kind \in K : Of(Backing(kind)) = {d \in Of(K) : d.kind = kind}
    BY DEF Of
  <1> HIDE DEF into
  <1>4. /\ Plain(s)
        /\ \A r \in Range(s) :
             r.to = Null /\ \E d \in Of(K) : r.into = d.kind /\ r.name = d.name
        /\ \A d \in Of(K) : \A y \in Range(Said(d)) :
             \E r \in Range(s) : r.into = d.kind /\ r.name = d.name /\ y \in Range(r.columns)
    BY <1>1, <1>2, ColumnRowsFrom
  <1> HIDE DEF s
  <1>5. \A d \in Of(K) : d.kind \in K
    BY DEF Of
  <1>6. ASSUME NEW r \in Range(s)
        PROVE  r.into \in K /\ \E d \in Of(Backing(r.into)) : r.name = d.name
    BY <1>3, <1>4, <1>5
  <1>7. ASSUME NEW kind \in K, NEW d \in Of(Backing(kind)), NEW y \in Range(Said(d))
        PROVE  \E r \in Range(s) : r.into = kind /\ r.name = d.name /\ y \in Range(r.columns)
    <2>1. d \in Of(K) /\ d.kind = kind
      BY <1>3
    <2> QED
      BY <1>4, <2>1
  <1>8. From(s, K)
    BY <1>4, <1>6, <1>7 DEF From, Plain
  <1>9. ASSUME OneNamed(Of(K)), "index" \notin K, "fk" \in K => adapter = "oracle",
               NEW kind \in K, NEW d \in Of(Backing(kind))
        PROVE  /\ Tell(s, kind, d.name) = <<Said(d), d.included, Referred(d)>>
               /\ (kind = "fk" /\ adapter = "oracle")
                  \/ \A r \in Range(s) : r.into = kind /\ r.name = d.name => r.to = d.to
    <2>1. d \in Of(K) /\ d.kind = kind
      BY <1>3
    <2>2. Alone(into, d)
      BY <1>1, <1>9, <2>1 DEF Alone, OneNamed
    <2>3. d.included = <<>> /\ Referred(d) = <<>> /\ (kind # "fk" => d.to = Null)
      BY <1>9, <2>1, Bare
    <2>4. Tell(s, into[d], d.name) = <<Said(d), <<>>, <<>>>>
      BY <1>2, <2>2, ColumnRowsOne DEF s
    <2> QED
      BY <1>1, <1>4, <1>9, <2>1, <2>3, <2>4
  <1> QED
    BY <1>8, <1>9 DEF Told, s, into

\* A query for indexes.
LEMMA IndexesFrom ==
  ASSUME DeclaredOK, Lawful
  PROVE  LET s == ColumnRows(AsIndex(Of(Backing("index"))))
         IN  /\ From(s, {"index"})
             /\ OneNamed(Of(Backing("index"))) /\ adapter \notin {"postgres", "mssql"} => Told(s, "index")
  <1> DEFINE D == Of(Backing("index"))
             into == AsIndex(D)
             s == ColumnRows(into)
  <1>1. DOMAIN into = D /\ \A d \in D : into[d] = "index"
    BY DEF AsIndex
  <1>2. Sorting(into)
    BY <1>1 DEF Sorting, Of, Kinds
  <1> HIDE DEF into, D
  <1>3. /\ Plain(s)
        /\ \A r \in Range(s) : r.to = Null /\ \E d \in D : r.into = "index" /\ r.name = d.name
        /\ \A d \in D : \A y \in Range(Said(d)) :
             \E r \in Range(s) : r.into = "index" /\ r.name = d.name /\ y \in Range(r.columns)
    BY <1>1, <1>2, ColumnRowsFrom
  <1> HIDE DEF s
  <1>4. From(s, {"index"})
    BY <1>3 DEF From, Plain, D
  <1>5. ASSUME OneNamed(D), adapter \notin {"postgres", "mssql"}, NEW d \in D
        PROVE  /\ Tell(s, "index", d.name) = <<Said(d), d.included, Referred(d)>>
               /\ \A r \in Range(s) : r.into = "index" /\ r.name = d.name => r.to = d.to
    <2>1. Alone(into, d)
      BY <1>1, <1>5 DEF Alone, OneNamed
    <2>2. d \in declared /\ d.kind \in {"index", "unique"}
      BY DEF D, Of, Backing
    <2>3. d.included = <<>> /\ Referred(d) = <<>> /\ d.to = Null
      <3>1. d.included = <<>>
        BY <1>5, <2>2 DEF Lawful
      <3> QED
        BY <2>2, <3>1, Bare DEF D
    <2>4. Tell(s, into[d], d.name) = <<Said(d), <<>>, <<>>>>
      BY <1>2, <2>1, ColumnRowsOne DEF s
    <2> QED
      BY <1>1, <1>3, <2>3, <2>4
  <1> QED
    BY <1>4, <1>5 DEF Told, s, into, D

\* What stands in the result for d.
Ent(d) == [name |-> d.name, columns |-> Said(d), included |-> d.included, to |-> d.to, toColumns |-> Referred(d)]

\* A list has an entry for each of these declarations, once.
Lists(s, D) == Range(s) = {Ent(d) : d \in D} /\ Len(s) = Cardinality(D)

LEMMA AtMostOne == \A n : n = 0 \/ n = 1 => n <= 1
  OBVIOUS

LEMMA EachEntries ==
  ASSUME DeclaredOK, NEW f, OwnRows(f), NEW kind, NEW D, D \subseteq DOMAIN f,
         \A d \in DOMAIN f : Cat(f[d], EntryFor(kind)) = IF d \in D THEN <<Ent(d)>> ELSE <<>>
  PROVE  Lists(Cat(Each(f), EntryFor(kind)), D)
  <1> DEFINE X == DOMAIN f
             p == EntryFor(kind)
             T == {Entry(r) : r \in RowSet}
             g == [d \in X |-> Cat(f[d], p)]
  <1>1. IsFiniteSet(X) /\ \A d \in X : d.name \in Nat
    <2>1. X \in SUBSET declared
      BY DEF OwnRows
    <2> QED
      BY <2>1, FS_Subset, Declaration DEF DeclaredOK
  <1>2. Gives(f, X, RowSet) /\ Gives(p, RowSet, T)
    BY PiecesGive DEF OwnRows, Gives
  <1>3. PICK s \in Seq(X) : IsInjective(s) /\ Range(s) = X /\ Each(f) = Cat(s, f)
    BY <1>1, EachIsCat
  <1>4. \A d \in X : g[d] = Cat(f[d], p) /\ g[d] = IF d \in D THEN <<Ent(d)>> ELSE <<>>
    OBVIOUS
  <1>5. Gives(g, X, T)
    <2>1. \A d \in X : Cat(f[d], p) \in Seq(T)
      BY <1>2, CatParts DEF Gives
    <2> QED
      BY <1>4, <2>1 DEF Gives
  <1>6. Cat(Cat(s, f), p) = Cat(s, g)
    <2> HIDE DEF X, p, T
    <2> QED
      BY <1>2, <1>3, CatCat
  <1> HIDE DEF g, X, p, T
  <1>7. \A e : e \in Range(Cat(s, g)) <=> \E i \in DOMAIN s : e \in Range(g[s[i]])
    BY <1>3, <1>5, CatParts
  <1>8. \A i \in DOMAIN s : s[i] \in X
    BY <1>3
  <1>9. \A e : Range(<<e>>) = {e} /\ Len(<<e>>) = 1 /\ <<e>> # <<>>
    BY DEF Range
  <1>10. Range(<<>>) = {} /\ Len(<<>>) = 0
    BY EmptyDomain DEF Range
  <1>11. D \subseteq X
    BY DEF X
  <1>12. Range(Cat(s, g)) = {Ent(d) : d \in D}
    <2>1. ASSUME NEW e \in Range(Cat(s, g)) PROVE \E d \in D : e = Ent(d)
      <3>1. PICK i \in DOMAIN s : e \in Range(g[s[i]])
        BY <1>7
      <3>2. s[i] \in D /\ g[s[i]] = <<Ent(s[i])>>
        BY <1>4, <1>8, <1>10, <3>1
      <3> QED
        BY <1>9, <3>1, <3>2
    <2>2. ASSUME NEW d \in D PROVE Ent(d) \in Range(Cat(s, g))
      <3>1. PICK i \in DOMAIN s : s[i] = d
        BY <1>3, <1>11 DEF Range
      <3>2. Ent(d) \in Range(g[s[i]])
        BY <1>4, <1>9, <1>11, <3>1
      <3> QED
        BY <1>7, <3>2
    <2> QED
      BY <2>1, <2>2
  <1>13. ASSUME NEW x \in X PROVE Len(g[x]) <= 1
    <2>1. g[x] = <<Ent(x)>> \/ g[x] = <<>>
      BY <1>4
    <2>2. Len(<<Ent(x)>>) = 1
      OBVIOUS
    <2>3. Len(<<>>) = 0
      OBVIOUS
    <2>4. Len(g[x]) = 1 \/ Len(g[x]) = 0
      BY <2>1, <2>2, <2>3, Zenon
    <2> QED
      BY <2>4, AtMostOne, Zenon
  <1>14. Len(Cat(s, g)) = Cardinality({x \in Range(s) : g[x] # <<>>})
    BY <1>3, <1>5, <1>13, CatCount
  <1>15. {x \in Range(s) : g[x] # <<>>} = D
    BY <1>3, <1>4, <1>9, <1>11
  <1> QED
    BY <1>3, <1>6, <1>12, <1>14, <1>15 DEF Lists, p

\* The entry of one row.
LEMMA EntryOf ==
  ASSUME NEW r \in RowSet, NEW kind
  PROVE  Cat(<<r>>, EntryFor(kind)) = IF r.into = kind THEN <<Entry(r)>> ELSE <<>>
  <1> DEFINE p == EntryFor(kind)
             T == {Entry(x) : x \in RowSet}
  <1>1. Gives(p, RowSet, T)
    BY PiecesGive
  <1>2. p[r] = IF r.into = kind THEN <<Entry(r)>> ELSE <<>>
    BY DEF EntryFor
  <1>3. <<>> \in Seq(RowSet) /\ Append(<<>>, r) = <<r>>
    OBVIOUS
  <1> HIDE DEF p, T
  <1>4. Cat(Append(<<>>, r), p) = Cat(<<>>, p) \o p[r] /\ p[r] \in Seq(T)
    <2> DEFINE u == <<>>
    <2>1. u \in Seq(RowSet)
      BY <1>3
    <2> HIDE DEF u
    <2>2. Cat(Append(u, r), p) = Cat(u, p) \o p[r]
      BY <1>1, <2>1, CatAppend
    <2> QED
      BY <1>1, <2>2 DEF Gives, u
  <1>5. Cat(<<>>, p) = <<>>
    BY CatEmpty
  <1>6. <<>> \o p[r] = p[r]
    BY <1>4
  <1> QED
    BY <1>2, <1>3, <1>4, <1>5, <1>6 DEF p

\* The rows that the server puts together.
LEMMA WholeFrom ==
  ASSUME DeclaredOK, NEW kind \in Kinds, adapter = "postgres" \/ kind # "index"
  PROVE  /\ From(WholeRows(kind), {kind})
         /\ kind # "fk" \/ adapter # "oracle" => Lists(Cat(WholeRows(kind), EntryFor(kind)), Of(Backing(kind)))
  <1> DEFINE D == Of(Backing(kind))
             f == [d \in D |-> <<WholeRow(kind, d)>>]
  <1>1. D = Of(IF kind = "index" THEN {"index", "unique"} ELSE {kind})
    BY DEF Backing
  <1>2. ASSUME NEW d \in D
        PROVE  LET r == WholeRow(kind, d)
               IN  /\ r.into = kind /\ r.name = d.name /\ r.columns = Said(d)
                   /\ r.included = d.included /\ r.to = d.to /\ r.toColumns = d.toColumns
                   /\ r \in RowSet
    <2>1. d \in Of(IF kind = "index" THEN {"index", "unique"} ELSE {kind})
      BY <1>1
    <2> HIDE DEF D
    <2> QED
      BY <2>1, WholeRowParts DEF Sound
  <1>3. WholeRows(kind) = Each(f)
    BY <1>1 DEF WholeRows, WholeRow
  <1>4. DOMAIN f = D /\ D \subseteq declared /\ \A d \in D : f[d] = <<WholeRow(kind, d)>>
    BY DEF Of
  <1>5. \A d \in D : f[d] \in Seq(RowSet) /\ Range(f[d]) = {WholeRow(kind, d)}
    <2>1. \A r \in RowSet : <<r>> \in Seq(RowSet) /\ Range(<<r>>) = {r}
      BY DEF Range
    <2> QED
      BY <1>2, <1>4, <2>1
  <1> HIDE DEF f, D
  <1>6. OwnRows(f)
    BY <1>2, <1>4, <1>5 DEF OwnRows
  <1>7. /\ Each(f) \in Seq(RowSet)
        /\ \A r : r \in Range(Each(f)) <=> \E d \in D : r = WholeRow(kind, d)
    BY <1>4, <1>5, <1>6, EachRows
  <1>8. From(WholeRows(kind), {kind})
    BY <1>2, <1>3, <1>7 DEF From, D
  <1>9. ASSUME kind # "fk" \/ adapter # "oracle" PROVE Lists(Cat(Each(f), EntryFor(kind)), D)
    <2>1. ASSUME NEW d \in D PROVE Cat(f[d], EntryFor(kind)) = <<Ent(d)>>
      <3>1. Referred(d) = d.toColumns
        <4>1. kind # "fk" => d.kind # "fk"
          BY DEF D, Of, Backing
        <4> QED
          BY <1>9, <4>1, Bare DEF Referred, D
      <3>2. Entry(WholeRow(kind, d)) = Ent(d)
        BY <1>2, <3>1 DEF Entry, Ent
      <3>3. Cat(<<WholeRow(kind, d)>>, EntryFor(kind)) = <<Entry(WholeRow(kind, d))>>
        BY <1>2, EntryOf
      <3> QED
        BY <1>4, <3>2, <3>3
    <2> QED
      BY <1>4, <1>6, <2>1, EachEntries
  <1> QED
    BY <1>3, <1>8, <1>9 DEF D

\* The rows of one declaration that spell its columns.
LEMMA ListTells ==
  ASSUME NEW s, Plain(s), NEW w \in Seq(Values), DOMAIN w = DOMAIN s, NEW kind, NEW n,
         \A k \in DOMAIN s : s[k].into = kind /\ s[k].name = n /\ s[k].columns = <<w[k]>>
  PROVE  Tell(s, kind, n) = <<w, <<>>, <<>>>>
  <1>1. s \in Seq(RowSet)
    BY DEF Plain
  <1>2. Cat(s, ColumnsFor(kind, n)) = w
    BY <1>1, Spelled
  <1> QED
    BY <1>2, PlainTells

\* SQLite's primary key, out of the columns of the table.
LEMMA KeyColumnsFrom ==
  ASSUME DeclaredOK, adapter = "sqlite"
  PROVE  /\ From(KeyColumns, {"pk"})
         /\ ~Confused("pk") => Told(KeyColumns, "pk")
  <1> DEFINE D == Of({"pk"})
             f == [d \in D |-> KeyList(d)]
             w(d) == Keep(TableColumns, Range(d.columns))
  <1>1. KeyColumns = Each(f) /\ DOMAIN f = D /\ Of(Backing("pk")) = D
    BY DEF KeyColumns, KeyList, Backing
  <1>2. ASSUME NEW d \in D
        PROVE  /\ f[d] = KeyList(d) /\ SoundList(KeyList(d))
               /\ DOMAIN KeyList(d) = DOMAIN w(d)
               /\ \A k \in DOMAIN w(d) : KeyList(d)[k] = Row("pk", d.name, <<w(d)[k]>>)
               /\ w(d) \in Seq(Range(TableColumns)) /\ Range(w(d)) = Range(d.columns)
               /\ Said(d) = d.columns /\ d \in declared
    <2>1. f[d] = KeyList(d) /\ SoundList(KeyList(d))
      BY KeyColumnsSound
    <2>2. /\ DOMAIN KeyList(d) = DOMAIN w(d)
          /\ \A k \in DOMAIN w(d) : KeyList(d)[k] = Row("pk", d.name, <<w(d)[k]>>)
      BY DEF KeyList
    <2>3. d \in Declarations /\ d.kind = "pk" /\ d \in declared
      BY OfParts
    <2>4. TableColumns \in Seq(Range(TableColumns))
      BY ConstantsOK
    <2>5. w(d) \in Seq(Range(TableColumns)) /\ Range(w(d)) = Range(TableColumns) \cap Range(d.columns)
      BY <2>4, KeepType, KeepRange
    <2>6. Range(d.columns) \subseteq Range(TableColumns)
      <3>1. d.columns \in Seq(Range(TableColumns) \cup {Null}) /\ Null \notin Range(d.columns)
        BY <2>3, ConstantsOK
      <3>2. Range(d.columns) \subseteq Range(TableColumns) \cup {Null}
        BY <3>1 DEF Range
      <3> QED
        BY <3>1, <3>2
    <2>7. Said(d) = d.columns
      BY <2>3, Declaration
    <2> QED
      BY <2>1, <2>2, <2>3, <2>5, <2>6, <2>7
  <1>3. ASSUME NEW d \in D, NEW r \in Range(KeyList(d))
        PROVE  \E k \in DOMAIN w(d) : r = Row("pk", d.name, <<w(d)[k]>>)
    BY <1>2, <1>3 DEF Range
  <1>4. \A d \in D : \A r \in Range(KeyList(d)) :
          r.into = "pk" /\ r.name = d.name /\ r.included = <<>> /\ r.to = Null /\ r.toColumns = <<>>
    <2> SUFFICES ASSUME NEW d \in D, NEW r \in Range(KeyList(d))
                 PROVE  r.into = "pk" /\ r.name = d.name /\ r.included = <<>> /\ r.to = Null /\ r.toColumns = <<>>
      OBVIOUS
    <2>1. PICK k \in DOMAIN w(d) : r = Row("pk", d.name, <<w(d)[k]>>)
      BY <1>3
    <2> QED
      BY <2>1 DEF Row
  <1> HIDE DEF f
  <1>5. OwnRows(f)
    BY <1>1, <1>2, <1>4 DEF OwnRows, SoundList
  <1>6. /\ Each(f) \in Seq(RowSet)
        /\ \A r : r \in Range(Each(f)) <=> \E d \in D : r \in Range(KeyList(d))
    BY <1>1, <1>2, <1>5, EachRows
  <1>7. ASSUME NEW d \in D, NEW y \in Range(Said(d))
        PROVE  \E r \in Range(Each(f)) : r.into = "pk" /\ r.name = d.name /\ y \in Range(r.columns)
    <2> DEFINE v == w(d)
    <2>a. y \in Range(v)
      BY <1>2, <1>7
    <2> HIDE DEF v
    <2>b. PICK k \in DOMAIN v : v[k] = y
      BY <2>a DEF Range
    <2>1. k \in DOMAIN w(d) /\ w(d)[k] = y
      BY <2>b DEF v
    <2>2. Row("pk", d.name, <<y>>) \in Range(KeyList(d))
      BY <1>2, <2>1 DEF Range
    <2>3. y \in Range(<<y>>)
      BY DEF Range
    <2> QED
      BY <1>6, <2>2, <2>3 DEF Row
  <1>8. From(KeyColumns, {"pk"})
    BY <1>1, <1>4, <1>6, <1>7 DEF From
  <1>9. ASSUME ~Confused("pk"), NEW d \in D
        PROVE  /\ Tell(KeyColumns, "pk", d.name) = <<Said(d), d.included, Referred(d)>>
               /\ \A r \in Range(KeyColumns) : r.to = d.to
    <2>1. d.columns = w(d)
      BY <1>9 DEF Confused
    <2> DEFINE s == KeyList(d)
               v == w(d)
    <2>2. Plain(s)
      BY <1>2, <1>4 DEF Plain, SoundList
    <2>3. v \in Seq(Values) /\ DOMAIN v = DOMAIN s
      <3>1. Range(TableColumns) \subseteq Values
        BY DEF Values
      <3> QED
        BY <1>2, <3>1
    <2>a. \A k \in DOMAIN v : s[k] = Row("pk", d.name, <<v[k]>>)
      BY <1>2
    <2> HIDE DEF s, v
    <2>4. \A k \in DOMAIN s : s[k].into = "pk" /\ s[k].name = d.name /\ s[k].columns = <<v[k]>>
      BY <2>3, <2>a DEF Row
    <2>5. Tell(s, "pk", d.name) = <<v, <<>>, <<>>>>
      BY <2>2, <2>3, <2>4, ListTells
    <2>6. OneNamed(D)
      BY OneKeyName DEF OneNamed
    <2>7. Tell(Each(f), "pk", d.name) = Tell(f[d], "pk", d.name)
      BY <1>1, <1>5, <2>6, EachTells
    <2>8. d.included = <<>> /\ Referred(d) = <<>> /\ d.to = Null
      <3>1. d.kind = "pk"
        BY OfParts
      <3> QED
        BY <3>1, Bare
    <2>9. Tell(KeyColumns, "pk", d.name) = <<Said(d), d.included, Referred(d)>>
      BY <1>1, <1>2, <2>1, <2>5, <2>7, <2>8 DEF s, v
    <2>10. \A r \in Range(KeyColumns) : r.to = Null
      BY <1>1, <1>4, <1>6
    <2> QED
      BY <2>8, <2>9, <2>10
  <1> QED
    BY <1>1, <1>8, <1>9 DEF Told

\* The foreign keys of the adapters that read their columns in pairs.
LEMMA PairRowsFrom ==
  ASSUME DeclaredOK, Lawful, adapter \in {"sqlite", "mssql"} \cup MySQL
  PROVE  /\ From(PairRows, {"fk"})
         /\ ~Nulls /\ ~Confused("fk") => Told(PairRows, "fk")
  <1> DEFINE D == Of({"fk"})
             f == [d \in D |-> PairList(d)]
  <1>1. PairRows = Each(f) /\ DOMAIN f = D /\ Of(Backing("fk")) = D /\ \A d \in D : f[d] = PairList(d)
    BY PairRowsSound DEF Backing
  <1>2. ASSUME NEW d \in D
        PROVE  /\ SoundList(PairList(d)) /\ d \in declared /\ Said(d) = d.columns /\ d.kind = "fk"
               /\ DOMAIN PairList(d) = DOMAIN d.columns
               /\ \A k \in DOMAIN d.columns : PairList(d)[k] = PairRow(d, k)
    <2>1. SoundList(PairList(d))
      BY PairRowsSound
    <2>2. d \in declared /\ Said(d) = d.columns /\ d.kind = "fk"
      BY ForeignKey, Declaration
    <2> QED
      BY <2>1, <2>2 DEF PairList
  <1>3. ASSUME NEW d \in D, NEW r \in Range(PairList(d))
        PROVE  /\ r.into = "fk" /\ r.name = d.name /\ r.included = <<>>
               /\ r.to = IF adapter = "mssql" THEN d.to ELSE <<Schema, d.to[2]>>
    <2>1. PICK k \in DOMAIN d.columns : r = PairRow(d, k)
      BY <1>2, <1>3 DEF Range
    <2> QED
      BY <2>1, PairRowParts
  <1> HIDE DEF f
  <1>4. OwnRows(f)
    <2>1. \A d \in D : PairList(d) \in Seq(RowSet) /\ \A r \in Range(PairList(d)) : r.name = d.name
      BY <1>2, <1>3 DEF SoundList
    <2> QED
      BY <1>1, <1>2, <2>1 DEF OwnRows
  <1>5. /\ Each(f) \in Seq(RowSet)
        /\ \A r : r \in Range(Each(f)) <=> \E d \in D : r \in Range(PairList(d))
    BY <1>1, <1>4, EachRows
  <1>6. ASSUME NEW d \in D, NEW y \in Range(Said(d))
        PROVE  \E r \in Range(Each(f)) : r.into = "fk" /\ r.name = d.name /\ y \in Range(r.columns)
    <2>1. PICK k \in DOMAIN d.columns : d.columns[k] = y
      BY <1>2, <1>6 DEF Range
    <2>2. PairRow(d, k) \in Range(PairList(d))
      BY <1>2, <2>1 DEF Range
    <2>3. PairRow(d, k).into = "fk" /\ PairRow(d, k).name = d.name /\ PairRow(d, k).columns = <<y>>
      BY <2>1, PairRowParts
    <2>4. y \in Range(<<y>>)
      BY DEF Range
    <2> QED
      BY <1>5, <2>2, <2>3, <2>4
  <1>7. From(PairRows, {"fk"})
    <2>1. ASSUME NEW r \in Range(Each(f)) PROVE r.into = "fk" /\ \E d \in D : r.name = d.name
      BY <1>3, <1>5
    <2> HIDE DEF D
    <2> QED
      BY <1>1, <1>5, <1>6, <2>1 DEF From
  <1>8. OneNamed(D)
    <2>1. adapter \in {"sqlite", "mssql"} => D \subseteq Of(Kinds \ {"trigger"})
      BY DEF Of, Kinds
    <2>2. adapter \in {"sqlite", "mssql"} => OneNamed(D)
      BY <2>1, Distinct, FewerNamed
    <2> QED
      BY <2>2, Distinct
  <1>9. ASSUME ~Nulls, ~Confused("fk"), NEW d \in D
        PROVE  /\ Tell(PairRows, "fk", d.name) = <<Said(d), d.included, Referred(d)>>
               /\ \A r \in Range(PairRows) : r.into = "fk" /\ r.name = d.name => r.to = d.to
    <2> DEFINE s == PairList(d)
               v == d.columns
               u == d.toColumns
               n == d.name
    <2>1. u # <<>> /\ DOMAIN u = DOMAIN v /\ v \in Seq(Values) /\ u \in Seq(Values) /\ d.kind = "fk"
      <3>1. d.toColumns # <<>>
        BY <1>9 DEF Nulls
      <3>2. d \in Declarations
        BY ForeignKey
      <3>3. d.toColumns \in Seq(Values \ {Null})
        BY <3>2, Declaration
      <3>4. Seq(Values \ {Null}) \subseteq Seq(Values)
        OBVIOUS
      <3> QED
        BY <3>1, <3>3, <3>4, ForeignKey
    <2>2. s \in Seq(RowSet) /\ DOMAIN s = DOMAIN v /\ \A k \in DOMAIN v : s[k] = PairRow(d, k)
      BY <1>2 DEF SoundList
    <2>3. ASSUME NEW k \in DOMAIN v
          PROVE  /\ s[k].into = "fk" /\ s[k].name = n
                 /\ s[k].columns = <<v[k]>> /\ s[k].included = <<>> /\ s[k].toColumns = <<u[k]>>
      <3>1. /\ PairRow(d, k).into = "fk" /\ PairRow(d, k).name = d.name
            /\ PairRow(d, k).columns = <<d.columns[k]>> /\ PairRow(d, k).included = <<>>
            /\ PairRow(d, k).toColumns = <<IF d.toColumns = <<>> THEN Null ELSE d.toColumns[k]>>
        BY PairRowParts
      <3> QED
        BY <2>1, <2>2, <3>1
    <2> HIDE DEF s, v, u, n
    <2>4. Cat(s, ColumnsFor("fk", n)) = v
      BY <2>1, <2>2, <2>3, Spelled
    <2>5. Cat(s, ReferredFor("fk", n)) = u
      BY <2>1, <2>2, <2>3, Spelled
    <2>6. Cat(s, IncludedFor("fk", n)) = <<>>
      <3>1. \A k \in DOMAIN s : s[k] \in RowSet
        BY <2>2
      <3>2. \A k \in DOMAIN s : IncludedFor("fk", n)[s[k]] = <<>>
        BY <2>2, <2>3, <3>1 DEF IncludedFor
      <3>3. Len(s) \in Nat /\ DOMAIN s = 1 .. Len(s)
        BY <2>2
      <3> QED
        BY <3>2, <3>3, CatNone
    <2>7. Tell(s, "fk", n) = <<v, <<>>, u>>
      BY <2>4, <2>5, <2>6 DEF Tell
    <2>8. Tell(Each(f), "fk", d.name) = Tell(f[d], "fk", d.name)
      BY <1>1, <1>4, <1>8, EachTells
    <2>9. d.included = <<>> /\ Referred(d) = d.toColumns
      <3>1. adapter # "oracle"
        BY DEF MySQL
      <3> QED
        BY <2>1, <3>1, Bare DEF Referred
    <2>10. Tell(PairRows, "fk", d.name) = <<Said(d), d.included, Referred(d)>>
      BY <1>1, <1>2, <2>7, <2>8, <2>9 DEF s, v, u, n
    <2>11. adapter # "mssql" => d.to = <<Schema, d.to[2]>>
      <3>1. adapter # "mssql" => d.to[1] = Schema
        BY <1>2, <1>9 DEF Lawful, Confused
      <3>2. d.to = <<d.to[1], d.to[2]>>
        BY <2>1, ForeignKey, ConstantsOK
      <3> QED
        BY <3>1, <3>2
    <2>12. ASSUME NEW r \in Range(PairRows), r.name = d.name PROVE r.to = d.to
      <3>1. PICK c \in D : r \in Range(PairList(c))
        BY <1>1, <1>5
      <3>2. c = d
        BY <1>3, <1>8, <2>12, <3>1 DEF OneNamed
      <3> QED
        BY <1>3, <2>11, <3>1, <3>2
    <2> QED
      BY <2>10, <2>12
  <1> QED
    BY <1>1, <1>7, <1>9 DEF Told

\* A list of rows that spells one declaration's columns, and does nothing else.
OwnList(s, kind, d) ==
  /\ Plain(s)
  /\ \A r \in Range(s) : r.into = kind /\ r.name = d.name /\ r.to = Null
  /\ \A y \in Range(Said(d)) :
       \E r \in Range(s) : r.into = kind /\ r.name = d.name /\ y \in Range(r.columns)
  /\ Tell(s, kind, d.name) = <<Said(d), <<>>, <<>>>>

\* The rows to list are those of d, as the given kind.
Only(into, kind, d) == DOMAIN into = {d} /\ into[d] = kind

\* The rows of one declaration alone.
LEMMA OneOnly ==
  ASSUME DeclaredOK, NEW d \in declared, NEW kind \in Kinds, NEW into, Only(into, kind, d)
  PROVE  OwnList(ColumnRows(into), kind, d)
  <1>0. DOMAIN into = {d} /\ into[d] = kind
    BY DEF Only
  <1>1. Sorting(into)
    BY <1>0 DEF Sorting
  <1>2. Alone(into, d)
    BY <1>0 DEF Alone
  <1>3. Tell(ColumnRows(into), kind, d.name) = <<Said(d), <<>>, <<>>>>
    BY <1>0, <1>1, <1>2, ColumnRowsOne
  <1>4. /\ Plain(ColumnRows(into))
        /\ \A r \in Range(ColumnRows(into)) :
              r.to = Null /\ \E x \in DOMAIN into : r.into = into[x] /\ r.name = x.name
        /\ \A x \in DOMAIN into : \A y \in Range(Said(x)) :
              \E r \in Range(ColumnRows(into)) : r.into = into[x] /\ r.name = x.name /\ y \in Range(r.columns)
    BY <1>1, ColumnRowsFrom
  <1>5. d \in DOMAIN into /\ \A x \in DOMAIN into : x = d
    BY <1>0
  <1>6. \A r \in Range(ColumnRows(into)) : r.into = kind /\ r.name = d.name /\ r.to = Null
    BY <1>0, <1>4, <1>5
  <1>7. \A y \in Range(Said(d)) :
          \E r \in Range(ColumnRows(into)) : r.into = kind /\ r.name = d.name /\ y \in Range(r.columns)
    BY <1>0, <1>4, <1>5
  <1> QED
    BY <1>3, <1>4, <1>6, <1>7 DEF OwnList

\* SQLite's list of indexes, with the unique constraints among them.
LEMMA IndexListFrom ==
  ASSUME DeclaredOK, Lawful, adapter = "sqlite"
  PROVE  /\ From(IndexList, {"index", "unique"})
         /\ Told(IndexList, "index") /\ Told(IndexList, "unique")
  <1> DEFINE D == Of({"index", "unique"})
             f == [d \in D |-> IndexListOf(d)]
             a(d) == ColumnRows(AsIndex({d}))
             b(d) == IF d.kind = "unique" THEN ColumnRows(AsDeclared({d})) ELSE <<>>
  <1>1. /\ IndexList = Each(f) /\ DOMAIN f = D /\ \A d \in D : f[d] = IndexListOf(d)
        /\ Of(Backing("index")) = D /\ Of(Backing("unique")) = {d \in D : d.kind = "unique"}
    BY DEF IndexList, IndexListOf, Backing, Of
  <1>2. \A d \in D : d \in declared /\ d.kind \in {"index", "unique"} /\ d.included = <<>>
                     /\ Referred(d) = <<>> /\ d.to = Null
    <2>1. \A d \in D : d \in declared /\ d.kind \in {"index", "unique"}
      BY DEF Of
    <2>2. \A d \in D : d.included = <<>>
      BY <2>1 DEF Lawful
    <2> QED
      BY <2>1, <2>2, Bare
  <1>3. \A d \in D : OwnList(a(d), "index", d)
    <2> SUFFICES ASSUME NEW d \in D PROVE OwnList(a(d), "index", d)
      OBVIOUS
    <2> DEFINE into == AsIndex({d})
               kind == "index"
    <2>1. Only(into, kind, d) /\ kind \in Kinds /\ d \in declared
      BY <1>2 DEF AsIndex, Kinds, Only
    <2> HIDE DEF into, D, kind
    <2>2. OwnList(ColumnRows(into), kind, d)
      BY <2>1, OneOnly
    <2> QED
      BY <2>2 DEF into, kind
  <1>4. \A d \in D : IF d.kind = "unique" THEN OwnList(b(d), "unique", d) ELSE b(d) = <<>>
    <2> SUFFICES ASSUME NEW d \in D, d.kind = "unique" PROVE OwnList(ColumnRows(AsDeclared({d})), "unique", d)
      OBVIOUS
    <2> DEFINE into == AsDeclared({d})
               kind == "unique"
    <2>1. Only(into, kind, d) /\ kind \in Kinds /\ d \in declared
      BY <1>2 DEF AsDeclared, Kinds, Only
    <2> HIDE DEF into, D, kind
    <2>2. OwnList(ColumnRows(into), kind, d)
      BY <2>1, OneOnly
    <2> QED
      BY <2>2 DEF into, kind
  <1>a. Range(<<>>) = {} /\ <<>> \in Seq(RowSet)
    BY EmptyDomain DEF Range
  <1>5. \A d \in D : IndexListOf(d) = a(d) \o b(d)
    BY DEF IndexListOf
  <1> HIDE DEF f, a, b, D
  <1>6. ASSUME NEW d \in D
        PROVE  /\ a(d) \in Seq(RowSet) /\ b(d) \in Seq(RowSet)
               /\ IndexListOf(d) \in Seq(RowSet) /\ Range(IndexListOf(d)) = Range(a(d)) \cup Range(b(d))
    <2> DEFINE s == a(d)
               u == b(d)
    <2>1. s \in Seq(RowSet)
      BY <1>3 DEF OwnList, Plain
    <2>2. u \in Seq(RowSet)
      BY <1>4, <1>a DEF OwnList, Plain
    <2> HIDE DEF s, u
    <2>3. s \o u \in Seq(RowSet) /\ Range(s \o u) = Range(s) \cup Range(u)
      BY <2>1, <2>2, RangeConcatenation
    <2> QED
      BY <1>5, <2>1, <2>2, <2>3 DEF s, u
  <1>b. ASSUME NEW d \in D, NEW r \in Range(IndexListOf(d))
        PROVE  /\ r.name = d.name /\ r.to = Null
               /\ (r.into = "index" \/ (r.into = "unique" /\ d.kind = "unique"))
    <2>1. CASE r \in Range(a(d))
      <3>1. OwnList(a(d), "index", d)
        BY <1>3
      <3> QED
        BY <2>1, <3>1 DEF OwnList
    <2>2. CASE r \in Range(b(d))
      <3>1. d.kind = "unique"
        BY <1>4, <1>a, <2>2
      <3>2. OwnList(b(d), "unique", d)
        BY <1>4, <3>1
      <3> QED
        BY <2>2, <3>1, <3>2 DEF OwnList
    <2> QED
      BY <1>6, <1>b, <2>1, <2>2
  <1>7. OwnRows(f)
    BY <1>1, <1>2, <1>6, <1>b DEF OwnRows
  <1>8. /\ Each(f) \in Seq(RowSet)
        /\ \A r : r \in Range(Each(f)) <=> \E d \in D : r \in Range(IndexListOf(d))
    BY <1>1, <1>7, EachRows
  <1>9. ASSUME NEW r \in Range(Each(f))
        PROVE  /\ r.to = Null
               /\ \E d \in D : r.name = d.name /\ (r.into = "index" \/ (r.into = "unique" /\ d.kind = "unique"))
    BY <1>8, <1>b
  <1>10. From(IndexList, {"index", "unique"})
    <2>1. \A r \in Range(Each(f)) : r.into \in {"index", "unique"} /\ \E d \in Of(Backing(r.into)) : r.name = d.name
      <3> SUFFICES ASSUME NEW r \in Range(Each(f))
                   PROVE  r.into \in {"index", "unique"} /\ \E d \in Of(Backing(r.into)) : r.name = d.name
        OBVIOUS
      <3>1. PICK d \in D : r.name = d.name /\ (r.into = "index" \/ (r.into = "unique" /\ d.kind = "unique"))
        BY <1>9
      <3>2. CASE r.into = "index"
        BY <1>1, <3>1, <3>2
      <3>3. CASE r.into = "unique" /\ d.kind = "unique"
        BY <1>1, <3>1, <3>3
      <3> QED
        BY <3>1, <3>2, <3>3
    <2>2. ASSUME NEW d \in Of(Backing("index")), NEW y \in Range(Said(d))
          PROVE  \E r \in Range(Each(f)) : r.into = "index" /\ r.name = d.name /\ y \in Range(r.columns)
      <3>1. d \in D
        BY <1>1
      <3> QED
        BY <1>3, <1>6, <1>8, <3>1 DEF OwnList
    <2>3. ASSUME NEW d \in Of(Backing("unique")), NEW y \in Range(Said(d))
          PROVE  \E r \in Range(Each(f)) : r.into = "unique" /\ r.name = d.name /\ y \in Range(r.columns)
      <3>1. d \in D /\ d.kind = "unique"
        BY <1>1
      <3> QED
        BY <1>4, <1>6, <1>8, <3>1 DEF OwnList
    <2>4. \A kind \in {"index", "unique"} : \A d \in Of(Backing(kind)) : \A y \in Range(Said(d)) :
            \E r \in Range(Each(f)) : r.into = kind /\ r.name = d.name /\ y \in Range(r.columns)
      BY <2>2, <2>3
    <2> QED
      BY <1>1, <1>8, <2>1, <2>4 DEF From
  <1>11. OneNamed(D)
    <2>1. D \subseteq Of(Kinds \ {"trigger"})
      BY DEF D, Of, Kinds
    <2> QED
      BY <2>1, Distinct, FewerNamed
  <1>12. \A d \in D : \A kind : Tell(Each(f), kind, d.name) = Tell(a(d) \o b(d), kind, d.name)
    <2>1. \A d \in D : \A kind : Tell(Each(f), kind, d.name) = Tell(f[d], kind, d.name)
      BY <1>1, <1>7, <1>11, EachTells
    <2> QED
      BY <1>1, <1>5, <2>1
  <1>13. ASSUME NEW d \in D
         PROVE  Tell(IndexList, "index", d.name) = <<Said(d), <<>>, <<>>>>
    <2> DEFINE n == d.name
               s == a(d)
               u == b(d)
    <2>1. n \notin NamesOf(u, "index") /\ s \in Seq(RowSet) /\ u \in Seq(RowSet)
      BY <1>4, <1>6, <1>a DEF NamesOf, OwnList
    <2>a. Tell(s, "index", n) = <<Said(d), <<>>, <<>>>>
      BY <1>3 DEF OwnList
    <2> HIDE DEF n, s, u
    <2>2. Tell(s \o u, "index", n) = Tell(s, "index", n)
      BY <2>1, TellLeft
    <2> QED
      BY <1>1, <1>12, <2>2, <2>a DEF n, s, u
  <1>14. ASSUME NEW d \in D, d.kind = "unique"
         PROVE  Tell(IndexList, "unique", d.name) = <<Said(d), <<>>, <<>>>>
    <2> DEFINE n == d.name
               s == a(d)
               u == b(d)
    <2>1. n \notin NamesOf(s, "unique") /\ s \in Seq(RowSet) /\ u \in Seq(RowSet)
      BY <1>3, <1>6 DEF NamesOf, OwnList
    <2>a. Tell(u, "unique", n) = <<Said(d), <<>>, <<>>>>
      BY <1>4, <1>14 DEF OwnList
    <2> HIDE DEF n, s, u
    <2>2. Tell(s \o u, "unique", n) = Tell(u, "unique", n)
      BY <2>1, TellLeft
    <2> QED
      BY <1>1, <1>12, <2>2, <2>a DEF n, s, u
  <1>15. \A r \in Range(IndexList) : r.to = Null
    BY <1>1, <1>9
  <1>16. Told(IndexList, "index")
    BY <1>1, <1>2, <1>13, <1>15 DEF Told
  <1>17. Told(IndexList, "unique")
    BY <1>1, <1>2, <1>14, <1>15 DEF Told
  <1> QED
    BY <1>10, <1>16, <1>17

\* DuckDB's and MySQL's keys, each asked for by its name.
LEMMA UsageRowsFrom ==
  ASSUME DeclaredOK, Lawful, adapter \in {"duckdb"} \cup MySQL
  PROVE  /\ From(UsageRows, {"pk", "unique"})
         /\ ~Confused("pk") => Told(UsageRows, "pk") /\ Told(UsageRows, "unique")
  <1> DEFINE D == Of({"pk", "unique"})
             f == [d \in D |-> UsageOf(d)]
             into(d) == [c \in SameName3(d) |-> d.kind]
  <1>1. /\ UsageRows = Each(f) /\ DOMAIN f = D /\ \A d \in D : f[d] = UsageOf(d)
        /\ \A kind \in {"pk", "unique"} : Of(Backing(kind)) = {d \in D : d.kind = kind}
    BY DEF UsageRows, UsageOf, SameName3, Backing, Of
  <1>2. \A d \in D : /\ d \in declared /\ d.kind \in {"pk", "unique"} /\ d.included = <<>>
                     /\ Referred(d) = <<>> /\ d.to = Null /\ d \in SameName3(d)
    <2>1. \A d \in D : d \in declared /\ d.kind \in {"pk", "unique"} /\ d \in SameName3(d)
      BY DEF Of, SameName3
    <2> QED
      BY <2>1, Bare
  <1>3. \A d \in D : /\ UsageOf(d) = ColumnRows(into(d)) /\ Sorting(into(d)) /\ DOMAIN into(d) = SameName3(d)
                     /\ \A c \in SameName3(d) : into(d)[c] = d.kind /\ c.name = d.name
    BY <1>2 DEF UsageOf, Sorting, SameName3, Of, Kinds
  <1> HIDE DEF f, into, D
  <1>4. ASSUME NEW d \in D
        PROVE  /\ UsageOf(d) \in Seq(RowSet)
               /\ \A r \in Range(UsageOf(d)) : r.to = Null /\ r.into = d.kind /\ r.name = d.name
               /\ \A y \in Range(Said(d)) :
                    \E r \in Range(UsageOf(d)) : r.into = d.kind /\ r.name = d.name /\ y \in Range(r.columns)
    <2> DEFINE g == into(d)
    <2>1. Sorting(g)
      BY <1>3
    <2> HIDE DEF g
    <2>2. /\ Plain(ColumnRows(g))
          /\ \A r \in Range(ColumnRows(g)) : r.to = Null /\ \E c \in DOMAIN g : r.into = g[c] /\ r.name = c.name
          /\ \A c \in DOMAIN g : \A y \in Range(Said(c)) :
               \E r \in Range(ColumnRows(g)) : r.into = g[c] /\ r.name = c.name /\ y \in Range(r.columns)
      BY <2>1, ColumnRowsFrom
    <2>3. /\ DOMAIN g = SameName3(d) /\ UsageOf(d) = ColumnRows(g) /\ d \in SameName3(d)
          /\ \A c \in SameName3(d) : g[c] = d.kind /\ c.name = d.name
      BY <1>2, <1>3 DEF g
    <2> QED
      BY <2>2, <2>3 DEF Plain
  <1>5. OwnRows(f)
    BY <1>1, <1>2, <1>4 DEF OwnRows
  <1>6. /\ Each(f) \in Seq(RowSet)
        /\ \A r : r \in Range(Each(f)) <=> \E d \in D : r \in Range(UsageOf(d))
    BY <1>1, <1>5, EachRows
  <1>7. From(UsageRows, {"pk", "unique"})
    <2>1. ASSUME NEW r \in Range(Each(f))
          PROVE  r.into \in {"pk", "unique"} /\ \E d \in Of(Backing(r.into)) : r.name = d.name
      <3>1. PICK d \in D : r.into = d.kind /\ r.name = d.name
        BY <1>4, <1>6
      <3> QED
        BY <1>1, <1>2, <3>1
    <2>2. ASSUME NEW kind \in {"pk", "unique"}, NEW d \in Of(Backing(kind)), NEW y \in Range(Said(d))
          PROVE  \E r \in Range(Each(f)) : r.into = kind /\ r.name = d.name /\ y \in Range(r.columns)
      <3>1. d \in D /\ d.kind = kind
        BY <1>1
      <3> QED
        BY <1>4, <1>6, <3>1
    <2> QED
      BY <1>1, <1>6, <2>1, <2>2 DEF From
  <1>8. ASSUME ~Confused("pk"), NEW d \in D
        PROVE  SameName3(d) = {d}
    <2> SUFFICES ASSUME NEW c \in SameName3(d), c # d PROVE FALSE
      BY <1>2
    <2>1. c.name = d.name /\ c \in Of({"pk", "unique", "fk"}) /\ c \in declared /\ d \in declared /\ SameName(d, c)
          /\ d \in Of({"pk", "unique", "fk"}) /\ d.table = t
      BY <1>2 DEF SameName3, SameName, D, Of
    <2>2. CASE adapter = "duckdb"
      <3>1. Of({"pk", "unique", "fk"}) \subseteq Of(Kinds \ {"trigger"})
        BY DEF Of, Kinds
      <3> QED
        BY <2>1, <2>2, <3>1, Distinct DEF OneNamed
    <2>3. CASE adapter \in MySQL /\ c.kind = "fk"
      <3>1. c \in Of({"fk"}) /\ d.kind # "trigger"
        BY <1>2, <2>1, <2>3 DEF Of
      <3> QED
        BY <1>8, <2>1, <2>3, <3>1 DEF Confused
    <2>4. CASE adapter \in MySQL /\ c.kind # "fk"
      <3>1. c \in Of({"pk", "unique", "index"}) /\ d \in Of({"pk", "unique", "index"})
        BY <1>2, <2>1, <2>4 DEF Of
      <3>2. OneNamed(Of({"pk", "unique", "index"}))
        BY <2>4, Distinct
      <3> QED
        BY <2>1, <3>1, <3>2 DEF OneNamed
    <2> QED
      BY <2>2, <2>3, <2>4
  <1>9. ASSUME ~Confused("pk") PROVE OneNamed(D)
    <2>1. ASSUME NEW c \in D, NEW d \in D, c.name = d.name PROVE c = d
      <3>1. c \in SameName3(d)
        BY <2>1 DEF SameName3, D, Of
      <3> QED
        BY <1>8, <1>9, <3>1
    <2> QED
      BY <2>1 DEF OneNamed
  <1>10. ASSUME ~Confused("pk"), NEW d \in D
         PROVE  Tell(UsageRows, d.kind, d.name) = <<Said(d), <<>>, <<>>>>
    <2> DEFINE g == into(d)
               kind == d.kind
    <2>1. Only(g, kind, d) /\ kind \in Kinds /\ d \in declared /\ UsageOf(d) = ColumnRows(g)
      BY <1>2, <1>3, <1>8, <1>10 DEF Only, Kinds
    <2> HIDE DEF g, kind
    <2>2. OwnList(ColumnRows(g), kind, d)
      BY <2>1, OneOnly
    <2>3. Tell(Each(f), kind, d.name) = Tell(f[d], kind, d.name)
      BY <1>1, <1>5, <1>9, <1>10, EachTells
    <2> QED
      BY <1>1, <2>1, <2>2, <2>3 DEF OwnList, kind
  <1>11. ASSUME ~Confused("pk"), NEW kind \in {"pk", "unique"} PROVE Told(UsageRows, kind)
    <2>1. \A r \in Range(UsageRows) : r.to = Null
      BY <1>1, <1>4, <1>6
    <2>2. \A d \in Of(Backing(kind)) : d \in D /\ d.kind = kind
      BY <1>1
    <2> QED
      BY <1>2, <1>10, <1>11, <2>1, <2>2 DEF Told
  <1> QED
    BY <1>7, <1>11

\* MySQL's checks: a row of each for every constraint of the table that has its name.
LEMMA JoinedChecksFrom ==
  ASSUME DeclaredOK, adapter \in MySQL
  PROVE  /\ From(JoinedChecks, {"check"})
         /\ ~Confused("check") => Lists(Cat(JoinedChecks, EntryFor("check")), Of({"check"}))
  <1> DEFINE C == {c \in declared : c.kind = "check"}
             D == Of({"check"})
             f == [d \in C |-> JoinedList(d)]
             row(d) == Row("check", d.name, Said(d))
  <1>1. /\ JoinedChecks = Each(f) /\ DOMAIN f = C /\ \A d \in C : f[d] = JoinedList(d)
        /\ D \subseteq C /\ C \subseteq declared /\ Of(Backing("check")) = D
        /\ \A d \in C : d \in D <=> d \in Joined(d)
    BY DEF JoinedChecks, JoinedList, Joined, Backing, Of, Kinds
  <1>2. \A d \in C : SoundList(JoinedList(d))
    BY JoinedChecksSound
  <1>3. ASSUME NEW d \in C
        PROVE  /\ IsFiniteSet(Joined(d)) /\ Cardinality(Joined(d)) \in Nat
               /\ DOMAIN JoinedList(d) = 1 .. Cardinality(Joined(d))
               /\ \A i \in DOMAIN JoinedList(d) : JoinedList(d)[i] = row(d)
    <2>1. Joined(d) \subseteq declared /\ IsFiniteSet(declared)
      BY DEF Joined, Of, DeclaredOK
    <2>2. IsFiniteSet(Joined(d)) /\ Cardinality(Joined(d)) \in Nat
      BY <2>1, FS_Subset, FS_CardinalityType
    <2> QED
      BY <2>2 DEF JoinedList
  <1>4. \A d \in C : row(d).into = "check" /\ row(d).name = d.name /\ row(d).columns = Said(d)
    BY DEF Row
  <1> HIDE DEF f, C, D, row
  <1>5. \A d \in C : \A r \in Range(JoinedList(d)) : r = row(d)
    BY <1>3 DEF Range
  <1>6. OwnRows(f)
    BY <1>1, <1>2, <1>4, <1>5 DEF OwnRows, SoundList
  <1>7. /\ Each(f) \in Seq(RowSet)
        /\ \A r : r \in Range(Each(f)) <=> \E d \in C : r \in Range(JoinedList(d))
    BY <1>1, <1>6, EachRows
  <1>8. ASSUME NEW d \in D PROVE row(d) \in Range(Each(f))
    <2>1. d \in C /\ d \in Joined(d)
      BY <1>1
    <2>2. Cardinality(Joined(d)) # 0
      BY <1>3, <2>1, FS_EmptySet
    <2>3. 1 \in DOMAIN JoinedList(d)
      BY <1>3, <2>1, <2>2
    <2>4. row(d) \in Range(JoinedList(d))
      BY <1>3, <2>1, <2>3 DEF Range
    <2> QED
      BY <1>7, <2>1, <2>4
  <1>9. From(JoinedChecks, {"check"})
    <2>1. ~GroupedKind("check")
      BY DEF GroupedKind, MySQL
    <2>2. \A r \in Range(Each(f)) : r.into = "check"
      BY <1>4, <1>5, <1>7
    <2>3. \A d \in D : \A y \in Range(Said(d)) :
            \E r \in Range(Each(f)) : r.into = "check" /\ r.name = d.name /\ y \in Range(r.columns)
      BY <1>1, <1>4, <1>8
    <2> QED
      BY <1>1, <1>7, <2>1, <2>2, <2>3 DEF From
  <1>10. ASSUME ~Confused("check"), NEW d \in C
         PROVE  Cat(JoinedList(d), EntryFor("check")) = IF d \in D THEN <<Ent(d)>> ELSE <<>>
    <2>1. Joined(d) \subseteq {d}
      <3> SUFFICES ASSUME NEW c \in Joined(d), c # d PROVE FALSE
        OBVIOUS
      <3>1. c \in declared /\ c.table = t /\ c.kind # "trigger" /\ SameName(c, d)
        BY DEF Joined, Of, SameName
      <3> QED
        BY <1>10, <3>1 DEF Confused, C
    <2>2. CASE d \in D
      <3>1. Joined(d) = {d} /\ Cardinality({d}) = 1
        BY <1>1, <2>1, <2>2, FS_Singleton
      <3>2. DOMAIN JoinedList(d) = {1} /\ JoinedList(d)[1] = row(d) /\ JoinedList(d) \in Seq(RowSet)
        <4>1. d \in C /\ 1 .. 1 = {1}
          BY <1>10
        <4>2. DOMAIN JoinedList(d) = {1}
          BY <1>3, <3>1, <4>1
        <4>3. JoinedList(d)[1] = row(d)
          BY <1>3, <4>1, <4>2
        <4>4. JoinedList(d) \in Seq(RowSet)
          BY <1>2, <4>1 DEF SoundList
        <4> QED
          BY <4>2, <4>3, <4>4
      <3>3. JoinedList(d) = <<row(d)>> /\ row(d) \in RowSet
        BY <3>2
      <3>4. Cat(<<row(d)>>, EntryFor("check")) = <<Entry(row(d))>>
        BY <1>1, <1>4, <2>2, <3>3, EntryOf
      <3>5. d.included = <<>> /\ d.to = Null /\ Referred(d) = <<>>
        <4>1. d.kind = "check"
          BY DEF C
        <4> QED
          BY <2>2, <4>1, Bare DEF D
      <3>6. Entry(row(d)) = Ent(d)
        BY <3>5 DEF Entry, Ent, row, Row
      <3> QED
        BY <2>2, <3>3, <3>4, <3>6
    <2>3. CASE d \notin D
      <3>1. Joined(d) = {} /\ Cardinality({}) = 0
        BY <1>1, <2>1, <2>3, FS_EmptySet
      <3>2. JoinedList(d) = <<>>
        BY <3>1 DEF JoinedList
      <3> QED
        BY <2>3, <3>2, CatEmpty
    <2> QED
      BY <2>2, <2>3
  <1>11. ASSUME ~Confused("check") PROVE Lists(Cat(Each(f), EntryFor("check")), D)
    <2>1. \A d \in DOMAIN f : Cat(f[d], EntryFor("check")) = IF d \in D THEN <<Ent(d)>> ELSE <<>>
      BY <1>1, <1>10, <1>11
    <2> QED
      BY <1>1, <1>6, <2>1, EachEntries
  <1> QED
    BY <1>1, <1>9, <1>11 DEF D

\* SQL Server's indexes, whose rows begin with the columns that are no keys.
LEMMA IndexColumnsFrom ==
  ASSUME DeclaredOK, Lawful, adapter = "mssql"
  PROVE  /\ From(IndexColumns, {"index"})
         /\ ~Confused("index") => Told(IndexColumns, "index")
  <1> DEFINE D == Of({"index", "unique"})
             f == [d \in D |-> IndexColumnsOf(d)]
             a(d) == IncludedList(d)
             b(d) == PartitionList(d)
             c(d) == ColumnRows(AsIndex({d}))
  <1>1. /\ IndexColumns = Each(f) /\ DOMAIN f = D /\ \A d \in D : f[d] = (a(d) \o b(d)) \o c(d)
        /\ Of(Backing("index")) = D
    BY DEF IndexColumns, IndexColumnsOf, IncludedList, IncludedRow, PartitionList, Backing
  <1>2. \A d \in D : /\ d \in declared /\ d \in Declarations /\ d.kind \in {"index", "unique"}
                     /\ Referred(d) = <<>> /\ d.to = Null
    <2>1. \A d \in D : d.kind \in {"index", "unique"}
      BY DEF Of
    <2> QED
      BY <2>1, Bare
  <1>3. \A d \in D : OwnList(c(d), "index", d)
    <2> SUFFICES ASSUME NEW d \in D PROVE OwnList(c(d), "index", d)
      OBVIOUS
    <2> DEFINE into == AsIndex({d})
               kind == "index"
    <2>1. Only(into, kind, d) /\ kind \in Kinds /\ d \in declared
      BY <1>2 DEF AsIndex, Kinds, Only
    <2> HIDE DEF into, D, kind
    <2>2. OwnList(ColumnRows(into), kind, d)
      BY <2>1, OneOnly
    <2> QED
      BY <2>2 DEF into, kind
  <1>4. ASSUME NEW d \in D
        PROVE  /\ a(d) \in Seq(RowSet) /\ DOMAIN a(d) = DOMAIN d.included
               /\ \A k \in DOMAIN a(d) :
                    /\ a(d)[k].into = "index" /\ a(d)[k].name = d.name /\ a(d)[k].to = Null
                    /\ a(d)[k].columns = <<>> /\ a(d)[k].toColumns = <<>> /\ a(d)[k].included = <<d.included[k]>>
    <2>1. a(d) \in Seq(RowSet)
      BY IndexColumnsSound DEF SoundList
    <2>2. DOMAIN a(d) = DOMAIN d.included /\ \A k \in DOMAIN a(d) : a(d)[k] = IncludedRow(d, k)
      BY DEF IncludedList
    <2> QED
      BY <1>2, <2>1, <2>2, IncludedRowParts
  <1>5. ASSUME NEW d \in D
        PROVE  /\ b(d) \in Seq(RowSet) /\ (d.partition = <<>> => b(d) = <<>>)
               /\ \A r \in Range(b(d)) : r.into = "index" /\ r.name = d.name /\ r.to = Null
    <2>1. b(d) \in Seq(RowSet)
      BY IndexColumnsSound DEF SoundList
    <2>2. \A k \in DOMAIN b(d) : b(d)[k].into = "index" /\ b(d)[k].name = d.name /\ b(d)[k].to = Null
      BY DEF PartitionList, Row
    <2>3. d.partition = <<>> => b(d) = <<>>
      BY EmptyDomain DEF PartitionList
    <2> QED
      BY <2>1, <2>2, <2>3 DEF Range
  <1> HIDE DEF f, D, a, b, c
  <1>6. ASSUME NEW d \in D
        PROVE  /\ a(d) \o b(d) \in Seq(RowSet) /\ (a(d) \o b(d)) \o c(d) \in Seq(RowSet)
               /\ Range((a(d) \o b(d)) \o c(d)) = (Range(a(d)) \cup Range(b(d))) \cup Range(c(d))
    <2> DEFINE s == a(d)
               u == b(d)
               v == c(d)
    <2>1. s \in Seq(RowSet) /\ u \in Seq(RowSet) /\ v \in Seq(RowSet)
      BY <1>3, <1>4, <1>5 DEF OwnList, Plain
    <2> HIDE DEF s, u, v
    <2>2. s \o u \in Seq(RowSet) /\ Range(s \o u) = Range(s) \cup Range(u)
      BY <2>1, RangeConcatenation
    <2> DEFINE su == s \o u
    <2>3. su \in Seq(RowSet) /\ Range(su) = Range(s) \cup Range(u)
      BY <2>2
    <2> HIDE DEF su
    <2>4. su \o v \in Seq(RowSet) /\ Range(su \o v) = Range(su) \cup Range(v)
      BY <2>1, <2>3, RangeConcatenation
    <2> QED
      BY <2>3, <2>4 DEF su, s, u, v
  <1>7. ASSUME NEW d \in D, NEW r \in Range(f[d])
        PROVE  r.into = "index" /\ r.name = d.name /\ r.to = Null
    <2>1. \A x \in Range(a(d)) : x.into = "index" /\ x.name = d.name /\ x.to = Null
      BY <1>4 DEF Range
    <2>2. \A x \in Range(c(d)) : x.into = "index" /\ x.name = d.name /\ x.to = Null
      BY <1>3 DEF OwnList
    <2>3. r \in (Range(a(d)) \cup Range(b(d))) \cup Range(c(d))
      BY <1>1, <1>6, <1>7
    <2> QED
      BY <1>5, <2>1, <2>2, <2>3
  <1>8. OwnRows(f)
    BY <1>1, <1>2, <1>6, <1>7 DEF OwnRows
  <1>9. /\ Each(f) \in Seq(RowSet)
        /\ \A r : r \in Range(Each(f)) <=> \E d \in D : r \in Range(f[d])
    BY <1>1, <1>8, EachRows
  <1>10. From(IndexColumns, {"index"})
    <2>1. \A r \in Range(Each(f)) : r.into = "index" /\ \E d \in D : r.name = d.name
      BY <1>7, <1>9
    <2>2. ASSUME NEW d \in D, NEW y \in Range(Said(d))
          PROVE  \E r \in Range(Each(f)) : r.into = "index" /\ r.name = d.name /\ y \in Range(r.columns)
      <3>1. PICK r \in Range(c(d)) : r.into = "index" /\ r.name = d.name /\ y \in Range(r.columns)
        BY <1>3, <2>2 DEF OwnList
      <3>2. r \in Range(f[d])
        BY <1>1, <1>6, <3>1
      <3> QED
        BY <1>9, <3>1, <3>2
    <2> QED
      BY <1>1, <1>9, <2>1, <2>2 DEF From
  <1>11. OneNamed(D)
    <2>1. D \subseteq Of(Kinds)
      BY DEF D, Of, Kinds
    <2> QED
      BY <2>1, Distinct, FewerNamed
  <1>12. ASSUME ~Confused("index"), NEW d \in D
         PROVE  Tell(IndexColumns, "index", d.name) = <<Said(d), d.included, <<>>>>
    <2> DEFINE s == a(d)
               v == c(d)
               n == d.name
               w == d.included
    <2>1. d.partition = <<>>
      <3>1. CASE d.kind = "index"
        <4>1. d \in Of({"index"})
          BY <3>1 DEF D, Of
        <4> QED
          BY <1>12, <4>1 DEF Confused
      <3>2. CASE d.kind = "unique"
        BY <1>2, <3>2, Bare DEF D
      <3> QED
        BY <1>2, <3>1, <3>2
    <2>2. f[d] = s \o v
      <3>1. a(d) \o <<>> = a(d)
        BY <1>4
      <3> QED
        BY <1>1, <1>5, <2>1, <3>1
    <2>3. s \in Seq(RowSet) /\ v \in Seq(RowSet) /\ w \in Seq(Values) /\ Said(d) \in Seq(Values)
      BY <1>2, <1>3, <1>4, Declaration DEF OwnList, Plain
    <2>4. /\ DOMAIN s = DOMAIN w
          /\ \A k \in DOMAIN s : /\ s[k].into = "index" /\ s[k].name = n
                                 /\ s[k].columns = <<>> /\ s[k].toColumns = <<>> /\ s[k].included = <<w[k]>>
      BY <1>4
    <2>5. Tell(v, "index", n) = <<Said(d), <<>>, <<>>>>
      BY <1>3 DEF OwnList
    <2>6. Tell(Each(f), "index", n) = Tell(f[d], "index", n)
      BY <1>1, <1>8, <1>11, EachTells
    <2> HIDE DEF s, v, n, w
    <2>7. Cat(v, ColumnsFor("index", n)) = Said(d) /\ Cat(v, IncludedFor("index", n)) = <<>>
          /\ Cat(v, ReferredFor("index", n)) = <<>>
      BY <2>5 DEF Tell
    <2>8. Cat(s, IncludedFor("index", n)) = w
      BY <2>3, <2>4, Spelled
    <2>9. Cat(s, ColumnsFor("index", n)) = <<>> /\ Cat(s, ReferredFor("index", n)) = <<>>
      <3>1. \A k \in DOMAIN s : s[k] \in RowSet
        BY <2>3
      <3>2. \A k \in DOMAIN s : ColumnsFor("index", n)[s[k]] = <<>>
        BY <2>4, <3>1 DEF ColumnsFor
      <3>3. \A k \in DOMAIN s : ReferredFor("index", n)[s[k]] = <<>>
        BY <2>4, <3>1 DEF ReferredFor
      <3>4. Len(s) \in Nat /\ DOMAIN s = 1 .. Len(s)
        BY <2>3
      <3>5. Cat(s, ColumnsFor("index", n)) = <<>>
        BY <3>2, <3>4, CatNone
      <3>6. Cat(s, ReferredFor("index", n)) = <<>>
        BY <3>3, <3>4, CatNone
      <3> QED
        BY <3>5, <3>6
    <2>10. Cat(s \o v, ColumnsFor("index", n)) = Said(d)
      <3>1. Gives(ColumnsFor("index", n), RowSet, Values)
        BY PiecesGive
      <3>2. Cat(s \o v, ColumnsFor("index", n)) = Cat(s, ColumnsFor("index", n)) \o Cat(v, ColumnsFor("index", n))
        BY <2>3, <3>1, CatConcat
      <3>3. <<>> \o Said(d) = Said(d)
        BY <2>3
      <3> QED
        BY <2>7, <2>9, <3>2, <3>3
    <2>11. Cat(s \o v, IncludedFor("index", n)) = w
      <3>1. Gives(IncludedFor("index", n), RowSet, Values)
        BY PiecesGive
      <3>2. Cat(s \o v, IncludedFor("index", n)) = Cat(s, IncludedFor("index", n)) \o Cat(v, IncludedFor("index", n))
        BY <2>3, <3>1, CatConcat
      <3>3. w \o <<>> = w
        BY <2>3
      <3> QED
        BY <2>7, <2>8, <3>2, <3>3
    <2>12. Cat(s \o v, ReferredFor("index", n)) = <<>>
      <3>1. Gives(ReferredFor("index", n), RowSet, Values)
        BY PiecesGive
      <3>2. Cat(s \o v, ReferredFor("index", n)) = Cat(s, ReferredFor("index", n)) \o Cat(v, ReferredFor("index", n))
        BY <2>3, <3>1, CatConcat
      <3>3. <<>> \o <<>> = <<>>
        OBVIOUS
      <3> QED
        BY <2>7, <2>9, <3>2, <3>3
    <2> QED
      BY <1>1, <2>2, <2>6, <2>10, <2>11, <2>12 DEF Tell, n, w
  <1>13. ASSUME ~Confused("index") PROVE Told(IndexColumns, "index")
    <2>1. \A r \in Range(IndexColumns) : r.to = Null
      BY <1>1, <1>7, <1>9
    <2> QED
      BY <1>1, <1>2, <1>12, <1>13, <2>1 DEF Told
  <1> QED
    BY <1>10, <1>13

\* A declaration of which one thing is said, alone under its name.
LEMMA TogetherSingle ==
  ASSUME NEW V, NEW d, NEW v \in V, Said(d) = <<v>>
  PROVE  Together({d}) = <<<<d, v>>>>
  <1> DEFINE ds == {d}
             s == Together(ds)
             p == [pair \in ds \X V |-> <<pair[2]>>]
             w == [k \in DOMAIN s |-> s[k][2]]
  <1>1. IsFiniteSet(ds) /\ ds # {} /\ \A x \in ds : Said(x) \in Seq(V)
    <2>1. <<v>> \in Seq(V)
      OBVIOUS
    <2> QED
      BY <2>1, FS_Singleton
  <1>2. d \in ds /\ \A pair \in ds \X V : p[pair] = IF pair[1] = d THEN <<pair[2]>> ELSE <<>>
    OBVIOUS
  <1>3. Gives(p, ds \X V, V)
    BY DEF Gives
  <1> HIDE DEF ds, p
  <1>4. s \in Seq(ds \X V)
    BY <1>1, TogetherParts
  <1>5. Cat(s, p) = Said(d)
    <2>1. IsFiniteSet(ds) /\ (\A x \in ds : Said(x) \in Seq(V)) /\ d \in ds
      BY <1>1, <1>2
    <2>2. \A pair \in ds \X V : p[pair] = IF pair[1] = d THEN <<pair[2]>> ELSE <<>>
      BY <1>2
    <2> QED
      BY <2>1, <2>2, TogetherOne
  <1>6. w \in Seq(V) /\ DOMAIN w = DOMAIN s /\ \A k \in DOMAIN s : p[s[k]] = <<w[k]>>
    <2>1. \A k \in DOMAIN s : s[k] \in ds \X V
      BY <1>4
    <2>2. DOMAIN s = 1 .. Len(s) /\ Len(s) \in Nat
      BY <1>4
    <2> QED
      BY <2>1, <2>2 DEF p
  <1> DEFINE X == ds \X V
  <1>7. Gives(p, X, V) /\ s \in Seq(X)
    BY <1>3, <1>4
  <1> HIDE DEF w, X, s
  <1>8. Cat(s, p) = w
    BY <1>6, <1>7, CatSingles
  <1>9. w = <<v>>
    BY <1>5, <1>8
  <1>10. DOMAIN s = {1} /\ s[1] \in ds \X V /\ s[1][2] = v
    <2>1. DOMAIN s = {1} /\ w[1] = v
      BY <1>6, <1>9
    <2>2. s[1] \in ds \X V
      BY <1>4, <2>1 DEF s
    <2> QED
      BY <2>1, <2>2 DEF w
  <1>11. s[1] = <<d, v>>
    BY <1>10 DEF ds
  <1>12. s = <<<<d, v>>>>
    <2>1. s \in Seq(ds \X V)
      BY <1>4 DEF s
    <2> QED
      BY <1>10, <1>11, <2>1
  <1> QED
    BY <1>12 DEF s, ds

\* SQL Server's checks: one row for each.
LEMMA ChecksFrom ==
  ASSUME DeclaredOK, Lawful, adapter = "mssql"
  PROVE  Lists(Cat(ColumnRows(AsDeclared(Of({"check"}))), EntryFor("check")), Of({"check"}))
  <1> DEFINE D == Of({"check"})
             into == AsDeclared(D)
             N == {d.name : d \in DOMAIN into}
             q == EntryFor("check")
             T == {Entry(r) : r \in RowSet}
             rf == RowsFor(into)
             g == [n \in N |-> Cat(rf[n], q)]
  <1>1. /\ DOMAIN into = D /\ N = {d.name : d \in D}
        /\ \A d \in D : into[d] = "check" /\ d.kind = "check" /\ d \in Declarations
    BY OfParts DEF AsDeclared, Of
  <1>2. Sorting(into)
    BY <1>1 DEF Sorting, Of, Kinds
  <1>3. OneNamed(D) /\ IsFiniteSet(D)
    <2>1. D \subseteq Of(Kinds) /\ D \subseteq declared
      BY DEF Of, Kinds
    <2> QED
      BY <2>1, Distinct, FewerNamed, FS_Subset DEF DeclaredOK
  <1>4. PICK names \in Seq(N) : IsInjective(names) /\ Range(names) = N /\ ColumnRows(into) = Cat(names, rf)
    BY <1>2, ColumnRowsIsCat
  <1>5. Gives(rf, N, RowSet) /\ Gives(q, RowSet, T)
    BY <1>2, ColumnRowsIsCat, PiecesGive
  <1>6. ASSUME NEW d \in D PROVE d.name \in N /\ g[d.name] = <<Ent(d)>>
    <2> DEFINE v == d.table
               r == Row("check", d.name, <<v>>)
    <2>1. {x \in DOMAIN into : x.name = d.name} = {d}
      BY <1>1, <1>3 DEF OneNamed
    <2>2. v \in Values /\ Said(d) = <<v>>
      BY <1>1 DEF Said, Values
    <2>3. Together({d}) = <<<<d, v>>>>
      BY <2>2, TogetherSingle
    <2>4. NamedRows(into, d.name) = [k \in DOMAIN <<<<d, v>>>> |-> Row(into[<<<<d, v>>>>[k][1]], d.name, <<<<<<d, v>>>>[k][2]>>)]
      BY <2>1, <2>3 DEF NamedRows
    <2>5. NamedRows(into, d.name) = <<r>>
      <3>1. into[d] = "check"
        BY <1>1
      <3> HIDE DEF into
      <3> QED
        BY <2>4, <3>1
    <2>6. d.name \in N /\ rf[d.name] = <<r>>
      BY <1>1, <2>5 DEF RowsFor
    <2>7. r \in RowSet
      <3>1. \A x \in DOMAIN into : \A y \in Values : Row(into[x], x.name, <<y>>) \in RowSet
        BY <1>2, SortingParts
      <3> QED
        BY <1>1, <2>2, <3>1
    <2>8. r.into = "check" /\ Entry(r) = [name |-> d.name, columns |-> <<v>>, included |-> <<>>, to |-> Null, toColumns |-> <<>>]
      BY DEF Entry, Row
    <2> HIDE DEF r
    <2>9. Cat(<<r>>, q) = <<Entry(r)>>
      BY <2>7, <2>8, EntryOf
    <2>10. d.included = <<>> /\ d.to = Null /\ Referred(d) = <<>>
      BY <1>1, Bare
    <2>11. Entry(r) = Ent(d)
      BY <2>2, <2>8, <2>10 DEF Ent
    <2> QED
      BY <2>6, <2>9, <2>11
  <1>7. \A n \in N : \E d \in D : n = d.name
    BY <1>1
  <1>8. Gives(g, N, T)
    <2> HIDE DEF N, rf, q, T
    <2>1. \A n \in N : Cat(rf[n], q) \in Seq(T)
      BY <1>5, CatParts DEF Gives
    <2> QED
      BY <2>1 DEF Gives
  <1>9. Cat(Cat(names, rf), q) = Cat(names, g)
    <2> HIDE DEF N, rf, q, T
    <2> QED
      BY <1>4, <1>5, CatCat
  <1> HIDE DEF g, N, rf, q, T, D, into
  <1>10. \A e : e \in Range(Cat(names, g)) <=> \E i \in DOMAIN names : e \in Range(g[names[i]])
    BY <1>4, <1>8, CatParts
  <1>11. \A e : Range(<<e>>) = {e} /\ Len(<<e>>) = 1 /\ <<e>> # <<>>
    BY DEF Range
  <1>12. Range(Cat(names, g)) = {Ent(d) : d \in D}
    <2>1. ASSUME NEW e \in Range(Cat(names, g)) PROVE \E d \in D : e = Ent(d)
      <3>1. PICK i \in DOMAIN names : e \in Range(g[names[i]])
        BY <1>10
      <3>2. names[i] \in N
        BY <1>4
      <3>3. PICK d \in D : names[i] = d.name
        BY <1>7, <3>2
      <3>4. g[names[i]] = <<Ent(d)>>
        BY <1>6, <3>3
      <3>5. e \in {Ent(d)}
        BY <1>11, <3>1, <3>4
      <3> QED
        BY <3>5
    <2>2. ASSUME NEW d \in D PROVE Ent(d) \in Range(Cat(names, g))
      <3>1. d.name \in Range(names)
        BY <1>4, <1>6
      <3>2. PICK i \in DOMAIN names : names[i] = d.name
        BY <3>1 DEF Range
      <3>3. Ent(d) \in Range(g[names[i]])
        BY <1>6, <1>11, <3>2
      <3> QED
        BY <1>10, <3>3
    <2> QED
      BY <2>1, <2>2
  <1>13. Len(Cat(names, g)) = Cardinality({n \in Range(names) : g[n] # <<>>})
    <2>1. \A n \in N : Len(g[n]) <= 1
      <3> SUFFICES ASSUME NEW n \in N PROVE Len(g[n]) <= 1
        OBVIOUS
      <3>1. PICK d \in D : n = d.name
        BY <1>7
      <3>2. Len(g[n]) = 1
        BY <1>6, <1>11, <3>1
      <3> QED
        BY <3>2
    <2> QED
      BY <1>4, <1>8, <2>1, CatCount
  <1>14. {n \in Range(names) : g[n] # <<>>} = N
    <2>1. \A n \in N : g[n] # <<>>
      <3> SUFFICES ASSUME NEW n \in N PROVE g[n] # <<>>
        OBVIOUS
      <3>1. PICK d \in D : n = d.name
        BY <1>7
      <3> QED
        BY <1>6, <1>11, <3>1
    <2> QED
      BY <1>4, <2>1
  <1>15. Cardinality(N) = Cardinality(D)
    <2> DEFINE h == [d \in D |-> d.name]
    <2>1. h \in Injection(D, N)
      BY <1>3, <1>6 DEF Injection, IsInjective, OneNamed
    <2>2. h \in Surjection(D, N)
      BY <1>6, <1>7 DEF Surjection
    <2>3. ExistsBijection(D, N)
      BY <2>1, <2>2 DEF ExistsBijection, Bijection
    <2> QED
      BY <1>3, <2>3, FS_Bijection
  <1> QED
    BY <1>4, <1>9, <1>12, <1>13, <1>14, <1>15 DEF Lists, D, into, q

\* Oracle's targets: those of the foreign keys, each under its name.
LEMMA TargetsFrom ==
  ASSUME DeclaredOK, Lawful, adapter = "oracle"
  PROVE  /\ From(Targets, {"target"})
         /\ ~Nulls => \A d \in Of({"fk"}) :
              /\ About(Targets, "target", d.name) # {}
              /\ \A r \in About(Targets, "target", d.name) : r.to = d.to
  <1> DEFINE D == Of({"fk"})
  <1>1. Targets \in Seq(RowSet) /\ Range(Targets) = {TargetRow(d) : d \in D}
    BY TargetsSound DEF SoundList
  <1>2. \A d \in D : TargetRow(d).into = "target" /\ TargetRow(d).name = d.name
                     /\ TargetRow(d).to = IF d.to \in Hidden THEN Null ELSE d.to
    BY TargetRowParts
  <1>3. OneNamed(D)
    <2>1. D \subseteq Of({"pk", "unique", "check", "fk"})
      BY DEF Of
    <2> QED
      BY <2>1, Distinct, FewerNamed
  <1>4. "target" \notin Kinds /\ {"target"} \cap Kinds = {}
    BY DEF Kinds
  <1>5. \A r \in Range(Targets) : \E d \in D : r = TargetRow(d)
    BY <1>1
  <1>6. From(Targets, {"target"})
    BY <1>1, <1>2, <1>4, <1>5 DEF From
  <1>7. ASSUME ~Nulls, NEW d \in D
        PROVE  /\ TargetRow(d) \in About(Targets, "target", d.name)
               /\ \A r \in About(Targets, "target", d.name) : r.to = d.to
    <2>1. \A c \in D : c.to \notin Hidden
      BY <1>7 DEF Nulls
    <2>2. ASSUME NEW r \in About(Targets, "target", d.name) PROVE r.to = d.to
      <3>1. r \in Range(Targets) /\ r.name = d.name
        BY DEF About
      <3>2. PICK c \in D : r = TargetRow(c)
        BY <1>5, <3>1
      <3>3. c = d
        BY <1>2, <1>3, <3>1, <3>2 DEF OneNamed
      <3> QED
        BY <1>2, <2>1, <3>2, <3>3
    <2> QED
      BY <1>1, <1>2, <2>2 DEF About
  <1> QED
    BY <1>6, <1>7

-----------------------------------------------------------------------------
(* The answers together. *)

\* Where the rows of a query go.
Into(query) ==
  CASE query \in Kinds -> {query}
    [] query = "columns" -> {"pk"}
    [] query = "pairs" -> {"fk"}
    [] query = "index list" -> {"index", "unique"}
    [] query \in {"usage", "keys"} -> {"pk", "unique"}
    [] query \in {"joined checks", "checks"} -> {"check"}
    [] query \in {"statistics", "index columns", "indexes"} -> {"index"}
    [] query = "events" -> {"trigger"}
    [] query = "constraints" -> {"pk", "unique", "check", "fk"}
    [] query = "targets" -> {"target"}

\* What an answer has to say of a kind that is not confused.
Right(s, kind) ==
  IF GroupedKind(kind) THEN OneNamed(Of(Backing(kind))) /\ Told(s, kind)
  ELSE Lists(Cat(s, EntryFor(kind)), Of(Backing(kind)))

\* Grouping by name is right where the names differ.
LEMMA NamesOnce ==
  ASSUME DeclaredOK, Lawful, NEW kind \in Loaded, ~Confused(kind), GroupedKind(kind)
  PROVE  OneNamed(Of(Backing(kind)))
  <1>0. \/ adapter \in {"sqlite", "duckdb"} \/ adapter \in MySQL \/ adapter = "mssql" \/ adapter = "oracle"
    BY ConstantsOK DEF DeclaredOK, MySQL, GroupedKind
  <1>1. kind \in Kinds
    BY DEF Loaded, Kinds
  <1>2. ASSUME NEW K, OneNamed(Of(K)), Backing(kind) \subseteq K
        PROVE  OneNamed(Of(Backing(kind)))
    <2>1. Of(Backing(kind)) \subseteq Of(K)
      BY <1>2 DEF Of
    <2> QED
      BY <1>2, <2>1, FewerNamed
  <1>3. CASE adapter \in {"sqlite", "duckdb"}
    <2>1. kind # "trigger"
      BY <1>3 DEF GroupedKind
    <2>2. Backing(kind) \subseteq Kinds \ {"trigger"}
      BY <1>1, <1>3, <2>1 DEF Backing, Kinds
    <2> QED
      BY <1>2, <1>3, <2>2, Distinct
  <1>4. CASE adapter \in MySQL
    <2>1. adapter # "mssql" /\ adapter # "oracle"
      BY <1>4 DEF MySQL
    <2>2. kind # "trigger" /\ kind # "check"
      BY <2>1 DEF GroupedKind
    <2>3. Backing(kind) \subseteq {"pk", "unique", "index"} \/ Backing(kind) \subseteq {"fk"}
      BY <1>1, <2>1, <2>2 DEF Backing, Kinds
    <2> QED
      BY <1>2, <1>4, <2>3, Distinct
  <1>5. CASE adapter = "mssql"
    <2>1. Backing(kind) \subseteq Kinds
      BY <1>1, <1>5 DEF Backing, Kinds
    <2> QED
      BY <1>2, <1>5, <2>1, Distinct
  <1>6. CASE adapter = "oracle"
    <2>1. kind # "trigger"
      BY <1>6 DEF GroupedKind
    <2>2. Backing(kind) \subseteq {"pk", "unique", "check", "fk"} \/ (kind = "index" /\ Backing(kind) \subseteq {"index"})
      BY <1>1, <1>6, <2>1 DEF Backing, Kinds
    <2> QED
      BY <1>2, <1>6, <2>2, Distinct
  <1> QED
    BY <1>0, <1>3, <1>4, <1>5, <1>6

\* Each query is made once.
LEMMA QueriesOnce ==
  ASSUME DeclaredOK
  PROVE  IsInjective(Queries)
  <1>0. \/ adapter = "postgres" \/ adapter = "sqlite" \/ adapter = "duckdb" \/ adapter = "mysql"
        \/ adapter = "mariadb" \/ adapter = "mssql" \/ adapter = "oracle"
    BY ConstantsOK DEF DeclaredOK
  <1>1. CASE adapter = "postgres"
    <2> DEFINE q == <<"pk", "fk", "unique", "check", "index", "trigger">>
    <2>1. Queries = q
      BY <1>1 DEF Queries, MySQL
    <2>2. DOMAIN q = {1, 2, 3, 4, 5, 6}
      OBVIOUS
    <2>3. /\ q[1] = "pk" /\ q[2] = "fk" /\ q[3] = "unique" /\ q[4] = "check" /\ q[5] = "index"
          /\ q[6] = "trigger"
      OBVIOUS
    <2> HIDE DEF q
    <2> QED
      BY <2>1, <2>2, <2>3 DEF IsInjective
  <1>2. CASE adapter = "sqlite"
    <2> DEFINE q == <<"columns", "pairs", "index list", "trigger">>
    <2>1. Queries = q
      BY <1>2 DEF Queries, MySQL
    <2>2. DOMAIN q = {1, 2, 3, 4}
      OBVIOUS
    <2>3. q[1] = "columns" /\ q[2] = "pairs" /\ q[3] = "index list" /\ q[4] = "trigger"
      OBVIOUS
    <2> HIDE DEF q
    <2> QED
      BY <2>1, <2>2, <2>3 DEF IsInjective
  <1>3. CASE adapter = "duckdb"
    <2> DEFINE q == <<"usage">>
    <2>1. Queries = q
      BY <1>3 DEF Queries, MySQL
    <2>2. DOMAIN q = {1}
      OBVIOUS
    <2> HIDE DEF q
    <2> QED
      BY <2>1, <2>2 DEF IsInjective
  <1>4. CASE adapter \in MySQL
    <2> DEFINE q == <<"usage", "pairs", "joined checks", "statistics", "trigger">>
    <2>1. Queries = q
      BY <1>4 DEF Queries, MySQL
    <2>2. DOMAIN q = {1, 2, 3, 4, 5}
      OBVIOUS
    <2>3. q[1] = "usage" /\ q[2] = "pairs" /\ q[3] = "joined checks" /\ q[4] = "statistics" /\ q[5] = "trigger"
      OBVIOUS
    <2> HIDE DEF q
    <2> QED
      BY <2>1, <2>2, <2>3 DEF IsInjective
  <1>5. CASE adapter = "mssql"
    <2> DEFINE q == <<"keys", "checks", "pairs", "index columns", "events">>
    <2>1. Queries = q
      BY <1>5 DEF Queries, MySQL
    <2>2. DOMAIN q = {1, 2, 3, 4, 5}
      OBVIOUS
    <2>3. q[1] = "keys" /\ q[2] = "checks" /\ q[3] = "pairs" /\ q[4] = "index columns" /\ q[5] = "events"
      OBVIOUS
    <2> HIDE DEF q
    <2> QED
      BY <2>1, <2>2, <2>3 DEF IsInjective
  <1>6. CASE adapter = "oracle"
    <2> DEFINE q == <<"constraints", "targets", "indexes", "trigger">>
    <2>1. Queries = q
      BY <1>6 DEF Queries, MySQL
    <2>2. DOMAIN q = {1, 2, 3, 4}
      OBVIOUS
    <2>3. q[1] = "constraints" /\ q[2] = "targets" /\ q[3] = "indexes" /\ q[4] = "trigger"
      OBVIOUS
    <2> HIDE DEF q
    <2> QED
      BY <2>1, <2>2, <2>3 DEF IsInjective
  <1> QED
    BY <1>0, <1>1, <1>2, <1>3, <1>4, <1>5, <1>6 DEF MySQL

\* Each kind that is loaded comes from one query.
LEMMA IntoOnce ==
  ASSUME DeclaredOK
  PROVE  /\ \A kind \in Loaded : \E query \in Range(Queries) : kind \in Into(query)
         /\ \A query \in Range(Queries) : Into(query) \subseteq Loaded \cup {"target"}
         /\ \A query \in Range(Queries) : "target" \in Into(query) => query = "targets" /\ adapter = "oracle"
         /\ \A q1, q2 \in Range(Queries) : \A kind : kind \in Into(q1) /\ kind \in Into(q2) => q1 = q2
  <1>0. \/ adapter = "postgres" \/ adapter = "sqlite" \/ adapter = "duckdb" \/ adapter = "mysql"
        \/ adapter = "mariadb" \/ adapter = "mssql" \/ adapter = "oracle"
    BY ConstantsOK DEF DeclaredOK
  <1>1. \A kind :
          /\ kind \in Into("columns") <=> kind = "pk"
          /\ kind \in Into("pairs") <=> kind = "fk"
          /\ kind \in Into("index list") <=> (kind = "index" \/ kind = "unique")
          /\ kind \in Into("usage") <=> (kind = "pk" \/ kind = "unique")
          /\ kind \in Into("keys") <=> (kind = "pk" \/ kind = "unique")
          /\ kind \in Into("joined checks") <=> kind = "check"
          /\ kind \in Into("checks") <=> kind = "check"
          /\ kind \in Into("statistics") <=> kind = "index"
          /\ kind \in Into("index columns") <=> kind = "index"
          /\ kind \in Into("indexes") <=> kind = "index"
          /\ kind \in Into("events") <=> kind = "trigger"
          /\ kind \in Into("constraints") <=> (kind = "pk" \/ kind = "unique" \/ kind = "check" \/ kind = "fk")
          /\ kind \in Into("targets") <=> kind = "target"
          /\ kind \in Into("trigger") <=> kind = "trigger"
    BY DEF Into, Kinds
  <1>8. \A query \in Kinds : \A kind : kind \in Into(query) <=> kind = query
    <2> SUFFICES ASSUME NEW query \in Kinds PROVE Into(query) = {query}
      OBVIOUS
    <2> QED
      BY DEF Into, Kinds
  <1> HIDE DEF Into
  <1>2. CASE adapter = "postgres"
    <2>1. Range(Queries) = Kinds /\ Loaded = Kinds /\ "target" \notin Kinds
      BY <1>2, QueriesParts DEF Loaded, Kinds
    <2> QED
      BY <1>2, <1>8, <2>1
  <1>3. CASE adapter = "sqlite"
    <2>1. Range(Queries) = {"columns", "pairs", "index list", "trigger"}
      BY <1>3, QueriesParts
    <2>2. Loaded = {"pk", "unique", "fk", "index", "trigger"}
      BY <1>3 DEF Loaded, Kinds
    <2>3. \A kind \in Loaded : \E query \in Range(Queries) : kind \in Into(query)
      BY <1>1, <2>1, <2>2
    <2>4. \A query \in Range(Queries) : Into(query) \subseteq Loaded \cup {"target"}
      BY <1>1, <2>1, <2>2
    <2>5. \A query \in Range(Queries) : "target" \in Into(query) => query = "targets" /\ adapter = "oracle"
      BY <1>1, <1>3, <2>1
    <2>6. \A q1, q2 \in Range(Queries) : \A kind : kind \in Into(q1) /\ kind \in Into(q2) => q1 = q2
      BY <1>1, <2>1
    <2> QED
      BY <2>3, <2>4, <2>5, <2>6
  <1>4. CASE adapter = "duckdb"
    <2>1. Range(Queries) = {"usage"}
      BY <1>4, QueriesParts
    <2>2. Loaded = {"pk", "unique"}
      BY <1>4 DEF Loaded, Kinds
    <2>3. \A kind \in Loaded : \E query \in Range(Queries) : kind \in Into(query)
      BY <1>1, <2>1, <2>2
    <2>4. \A query \in Range(Queries) : Into(query) \subseteq Loaded \cup {"target"}
      BY <1>1, <2>1, <2>2
    <2>5. \A query \in Range(Queries) : "target" \in Into(query) => query = "targets" /\ adapter = "oracle"
      BY <1>1, <1>4, <2>1
    <2>6. \A q1, q2 \in Range(Queries) : \A kind : kind \in Into(q1) /\ kind \in Into(q2) => q1 = q2
      BY <1>1, <2>1
    <2> QED
      BY <2>3, <2>4, <2>5, <2>6
  <1>5. CASE adapter \in MySQL
    <2>1. Range(Queries) = {"usage", "pairs", "joined checks", "statistics", "trigger"}
      BY <1>5, QueriesParts
    <2>2. Loaded = {"pk", "unique", "fk", "check", "index", "trigger"}
      BY <1>5 DEF Loaded, Kinds, MySQL
    <2>3. \A kind \in Loaded : \E query \in Range(Queries) : kind \in Into(query)
      BY <1>1, <2>1, <2>2
    <2>4. \A query \in Range(Queries) : Into(query) \subseteq Loaded \cup {"target"}
      BY <1>1, <2>1, <2>2
    <2>5. \A query \in Range(Queries) : "target" \in Into(query) => query = "targets" /\ adapter = "oracle"
      BY <1>1, <1>5, <2>1
    <2>6. \A q1, q2 \in Range(Queries) : \A kind : kind \in Into(q1) /\ kind \in Into(q2) => q1 = q2
      BY <1>1, <2>1
    <2> QED
      BY <2>3, <2>4, <2>5, <2>6
  <1>6. CASE adapter = "mssql"
    <2>1. Range(Queries) = {"keys", "checks", "pairs", "index columns", "events"}
      BY <1>6, QueriesParts
    <2>2. Loaded = {"pk", "unique", "fk", "check", "index", "trigger"}
      BY <1>6 DEF Loaded, Kinds
    <2>3. \A kind \in Loaded : \E query \in Range(Queries) : kind \in Into(query)
      BY <1>1, <2>1, <2>2
    <2>4. \A query \in Range(Queries) : Into(query) \subseteq Loaded \cup {"target"}
      BY <1>1, <2>1, <2>2
    <2>5. \A query \in Range(Queries) : "target" \in Into(query) => query = "targets" /\ adapter = "oracle"
      BY <1>1, <1>6, <2>1
    <2>6. \A q1, q2 \in Range(Queries) : \A kind : kind \in Into(q1) /\ kind \in Into(q2) => q1 = q2
      BY <1>1, <2>1
    <2> QED
      BY <2>3, <2>4, <2>5, <2>6
  <1>7. CASE adapter = "oracle"
    <2>1. Range(Queries) = {"constraints", "targets", "indexes", "trigger"}
      BY <1>7, QueriesParts
    <2>2. Loaded = {"pk", "unique", "fk", "check", "index", "trigger"}
      BY <1>7 DEF Loaded, Kinds
    <2>3. \A kind \in Loaded : \E query \in Range(Queries) : kind \in Into(query)
      BY <1>1, <2>1, <2>2
    <2>4. \A query \in Range(Queries) : Into(query) \subseteq Loaded \cup {"target"}
      BY <1>1, <2>1, <2>2
    <2>5. \A query \in Range(Queries) : "target" \in Into(query) => query = "targets" /\ adapter = "oracle"
      BY <1>1, <1>7, <2>1
    <2>6. \A q1, q2 \in Range(Queries) : \A kind : kind \in Into(q1) /\ kind \in Into(q2) => q1 = q2
      BY <1>1, <2>1
    <2> QED
      BY <2>3, <2>4, <2>5, <2>6
  <1> QED
    BY <1>0, <1>2, <1>3, <1>4, <1>5, <1>6, <1>7 DEF MySQL

\* Every query tells what it is asked for.
Answering(query) ==
  /\ From(Answer(query), Into(query))
  /\ ~Nulls => \A kind \in Into(query) \cap Kinds : ~Confused(kind) => Right(Answer(query), kind)

\* A query for one kind, or two, that are put together.
LEMMA GroupedRight ==
  ASSUME DeclaredOK, Lawful, NEW s, NEW kind \in Loaded, adapter # "postgres",
         GroupedKind(kind), Told(s, kind), ~Confused(kind)
  PROVE  Right(s, kind)
  BY NamesOnce DEF Right

LEMMA AnswerRight ==
  ASSUME DeclaredOK, Lawful, NEW query \in Range(Queries)
  PROVE  Answering(query)
  <1>0. \/ adapter = "postgres" \/ adapter = "sqlite" \/ adapter = "duckdb" \/ adapter \in MySQL
        \/ adapter = "mssql" \/ adapter = "oracle"
    BY ConstantsOK DEF DeclaredOK, MySQL
  <1>a. adapter \in MySQL => adapter # "postgres" /\ adapter # "oracle" /\ adapter # "mssql" /\ adapter # "sqlite"
                             /\ adapter # "duckdb"
    BY DEF MySQL
  <1>1. \/ adapter = "postgres" /\ query \in Kinds
        \/ adapter \notin {"postgres", "mssql", "duckdb"} /\ query = "trigger"
        \/ adapter = "sqlite" /\ query \in {"columns", "pairs", "index list"}
        \/ adapter = "duckdb" /\ query = "usage"
        \/ adapter \in MySQL /\ query \in {"usage", "pairs", "joined checks", "statistics"}
        \/ adapter = "mssql" /\ query \in {"keys", "checks", "pairs", "index columns", "events"}
        \/ adapter = "oracle" /\ query \in {"constraints", "targets", "indexes"}
    BY <1>0, <1>a, QueriesParts
  <1>2. \A kind \in Into(query) \cap Kinds : kind \in Loaded
    BY IntoOnce DEF Kinds
  <1>3. adapter # "postgres" => \A kind \in {"pk", "unique", "fk", "index"} : GroupedKind(kind)
    BY DEF GroupedKind
  <1>4. CASE query \in Kinds /\ (adapter = "postgres" \/ (query = "trigger" /\ adapter # "mssql"))
    <2>1. Answer(query) = WholeRows(query) /\ Into(query) = {query}
      BY <1>4 DEF Answer, Into, Kinds
    <2>2. ~GroupedKind(query)
      BY <1>4 DEF GroupedKind
    <2>3. /\ From(WholeRows(query), {query})
          /\ Lists(Cat(WholeRows(query), EntryFor(query)), Of(Backing(query)))
      BY <1>4, WholeFrom
    <2> QED
      BY <2>1, <2>2, <2>3 DEF Answering, Right
  <1>5. CASE adapter = "sqlite" /\ query = "columns"
    <2>1. Answer(query) = KeyColumns /\ Into(query) = {"pk"}
      BY <1>5 DEF Answer, Into, Kinds
    <2>2. ~Confused("pk") => Right(KeyColumns, "pk")
      BY <1>2, <1>3, <1>5, <2>1, KeyColumnsFrom, GroupedRight DEF Kinds
    <2> QED
      BY <1>5, <2>1, <2>2, KeyColumnsFrom DEF Answering
  <1>6. CASE adapter \in {"sqlite", "mssql"} \cup MySQL /\ query = "pairs"
    <2>1. Answer(query) = PairRows /\ Into(query) = {"fk"}
      BY <1>6 DEF Answer, Into, Kinds
    <2>2. ~Nulls /\ ~Confused("fk") => Right(PairRows, "fk")
      BY <1>2, <1>3, <1>6, <1>a, <2>1, PairRowsFrom, GroupedRight DEF Kinds
    <2> QED
      BY <1>6, <2>1, <2>2, PairRowsFrom DEF Answering
  <1>7. CASE adapter = "sqlite" /\ query = "index list"
    <2>1. Answer(query) = IndexList /\ Into(query) = {"index", "unique"}
      BY <1>7 DEF Answer, Into, Kinds
    <2>2. \A kind \in {"index", "unique"} : ~Confused(kind) => Right(IndexList, kind)
      BY <1>2, <1>3, <1>7, <2>1, IndexListFrom, GroupedRight DEF Kinds
    <2> QED
      BY <1>7, <2>1, <2>2, IndexListFrom DEF Answering
  <1>8. CASE adapter \in {"duckdb"} \cup MySQL /\ query = "usage"
    <2>1. Answer(query) = UsageRows /\ Into(query) = {"pk", "unique"}
      BY <1>8 DEF Answer, Into, Kinds
    <2>2. Confused("unique") <=> Confused("pk")
      BY <1>8, <1>a DEF Confused
    <2>3. \A kind \in {"pk", "unique"} : ~Confused(kind) => Right(UsageRows, kind)
      BY <1>2, <1>3, <1>8, <1>a, <2>1, <2>2, UsageRowsFrom, GroupedRight DEF Kinds
    <2> QED
      BY <1>8, <2>1, <2>3, UsageRowsFrom DEF Answering
  <1>9. CASE adapter \in MySQL /\ query = "joined checks"
    <2>1. Answer(query) = JoinedChecks /\ Into(query) = {"check"} /\ Of(Backing("check")) = Of({"check"})
      BY <1>9 DEF Answer, Into, Kinds, Backing
    <2>2. ~GroupedKind("check")
      BY <1>9, <1>a DEF GroupedKind
    <2> QED
      BY <1>9, <2>1, <2>2, JoinedChecksFrom DEF Answering, Right
  <1>10. CASE adapter \in MySQL /\ query = "statistics"
    <2>1. /\ Answer(query) = ColumnRows(AsIndex(Of({"index", "unique"}))) /\ Into(query) = {"index"}
          /\ Backing("index") = {"index", "unique"}
      BY <1>10, <1>a DEF Answer, Into, Kinds, Backing
    <2> DEFINE s == ColumnRows(AsIndex(Of(Backing("index"))))
    <2>2. From(s, {"index"}) /\ (OneNamed(Of(Backing("index"))) => Told(s, "index"))
      BY <1>10, <1>a, IndexesFrom
    <2> HIDE DEF s
    <2>3. ~Confused("index") => Right(s, "index")
      BY <1>2, <1>3, <1>10, <1>a, <2>1, <2>2, NamesOnce, GroupedRight DEF Kinds
    <2> QED
      BY <2>1, <2>2, <2>3 DEF Answering, s
  <1>11. CASE adapter = "mssql" /\ query \in {"keys", "checks", "events"}
    <2> DEFINE K == Into(query)
               s == ColumnRows(AsDeclared(Of(K)))
    <2>1. Answer(query) = s /\ K \subseteq {"pk", "unique", "check", "trigger"}
      BY <1>11 DEF Answer, Into, Kinds
    <2>2. K \subseteq Kinds /\ "index" \notin K /\ "fk" \notin K /\ \A kind \in K : Backing(kind) = {kind}
      BY <2>1 DEF Kinds, Backing
    <2>3. OneNamed(Of(K))
      <3>1. Of(K) \subseteq Of(Kinds)
        BY <2>2 DEF Of
      <3> QED
        BY <1>11, <3>1, Distinct, FewerNamed
    <2> HIDE DEF K
    <2>4. From(s, K) /\ \A kind \in K : Told(s, kind)
      BY <2>2, <2>3, DeclaredFrom
    <2>5. ASSUME NEW kind \in K, ~Confused(kind) PROVE Right(s, kind)
      <3>1. CASE kind = "check"
        <4>1. K = {"check"}
          BY <1>11, <2>5, <3>1 DEF K, Into, Kinds
        <4>2. ~GroupedKind("check")
          BY <1>11 DEF GroupedKind
        <4>3. Of(Backing("check")) = Of({"check"})
          BY DEF Backing
        <4> QED
          BY <1>11, <3>1, <4>1, <4>2, <4>3, ChecksFrom DEF Right
      <3>2. CASE kind # "check"
        <4>1. GroupedKind(kind) /\ kind \in Loaded
          BY <1>2, <1>11, <2>2, <2>5, <3>2 DEF GroupedKind, K
        <4> QED
          BY <1>11, <2>4, <2>5, <4>1, GroupedRight
      <3> QED
        BY <3>1, <3>2
    <2> QED
      BY <2>1, <2>4, <2>5 DEF Answering, K
  <1>12. CASE adapter = "mssql" /\ query = "index columns"
    <2>1. Answer(query) = IndexColumns /\ Into(query) = {"index"}
      BY <1>12 DEF Answer, Into, Kinds
    <2>2. ~Confused("index") => Right(IndexColumns, "index")
      BY <1>2, <1>3, <1>12, <2>1, IndexColumnsFrom, GroupedRight DEF Kinds
    <2> QED
      BY <1>12, <2>1, <2>2, IndexColumnsFrom DEF Answering
  <1>13. CASE adapter = "oracle" /\ query = "constraints"
    <2> DEFINE K == {"pk", "unique", "check", "fk"}
               s == ColumnRows(AsDeclared(Of(K)))
    <2>1. Answer(query) = s /\ Into(query) = K
      BY <1>13 DEF Answer, Into, Kinds
    <2>2. K \subseteq Kinds /\ "index" \notin K /\ \A kind \in K : Backing(kind) = {kind} /\ GroupedKind(kind)
      BY <1>13 DEF Kinds, Backing, GroupedKind
    <2>3. OneNamed(Of(K))
      BY <1>13, Distinct
    <2> HIDE DEF K
    <2>4. From(s, K) /\ \A kind \in K : Told(s, kind)
      BY <1>13, <2>2, <2>3, DeclaredFrom
    <2>5. \A kind \in K : ~Confused(kind) => Right(s, kind)
      BY <1>2, <1>13, <2>1, <2>2, <2>4, GroupedRight
    <2> QED
      BY <2>1, <2>4, <2>5 DEF Answering
  <1>14. CASE adapter = "oracle" /\ query = "targets"
    <2>1. Answer(query) = Targets /\ Into(query) = {"target"} /\ "target" \notin Kinds
      BY <1>14 DEF Answer, Into, Kinds
    <2> QED
      BY <1>14, <2>1, TargetsFrom DEF Answering
  <1>15. CASE adapter = "oracle" /\ query = "indexes"
    <2>1. /\ Answer(query) = ColumnRows(AsIndex(Of({"index"}))) /\ Into(query) = {"index"}
          /\ Backing("index") = {"index"}
      BY <1>15 DEF Answer, Into, Kinds, Backing
    <2> DEFINE s == ColumnRows(AsIndex(Of(Backing("index"))))
    <2>2. From(s, {"index"}) /\ (OneNamed(Of(Backing("index"))) => Told(s, "index"))
      BY <1>15, IndexesFrom
    <2> HIDE DEF s
    <2>3. ~Confused("index") => Right(s, "index")
      BY <1>2, <1>3, <1>15, <2>1, <2>2, NamesOnce, GroupedRight DEF Kinds
    <2> QED
      BY <2>1, <2>2, <2>3 DEF Answering, s
  <1> QED
    BY <1>1, <1>4, <1>5, <1>6, <1>7, <1>8, <1>9, <1>10, <1>11, <1>12, <1>13, <1>14, <1>15 DEF Kinds

\* The rows of all the queries.
Answers == [query \in Range(Queries) |-> Answer(query)]
All == Cat(Queries, Answers)

LEMMA AnswersGive ==
  ASSUME DeclaredOK, Lawful
  PROVE  /\ Queries \in Seq(Range(Queries))
         /\ Gives(Answers, Range(Queries), RowSet)
         /\ \A query \in Range(Queries) : Answers[query] = Answer(query)
         /\ All \in Seq(RowSet)
         /\ \A r : r \in Range(All) <=> \E query \in Range(Queries) : r \in Range(Answer(query))
  <1> DEFINE X == Range(Queries)
             q == Queries
  <1>1. q \in Seq(X) /\ X = Range(q)
    BY QueriesParts
  <1>2. \A query \in X : Answers[query] = Answer(query)
    BY DEF Answers
  <1>3. \A query \in X : Answer(query) \in Seq(RowSet)
    BY AnswerRight DEF Answering, From
  <1>4. Gives(Answers, X, RowSet)
    BY <1>2, <1>3 DEF Gives
  <1> HIDE DEF X, q
  <1>5. /\ Cat(q, Answers) \in Seq(RowSet)
        /\ \A r : r \in Range(Cat(q, Answers)) <=> \E i \in DOMAIN q : r \in Range(Answers[q[i]])
    BY <1>1, <1>4, CatParts
  <1>6. \A r : r \in Range(Cat(q, Answers)) <=> \E query \in X : r \in Range(Answer(query))
    <2>1. \A i \in DOMAIN q : q[i] \in X
      BY <1>1
    <2>2. \A x \in X : \E i \in DOMAIN q : q[i] = x
      BY <1>1 DEF Range
    <2>3. \A i \in DOMAIN q : Answers[q[i]] = Answer(q[i])
      BY <1>2, <2>1
    <2> QED
      BY <1>5, <2>1, <2>2, <2>3
  <1> QED
    BY <1>1, <1>2, <1>4, <1>5, <1>6 DEF All, X, q

\* Of rows that go elsewhere p makes nothing.
OnlyOf(p, kind) == \A r \in RowSet : r.into # kind => p[r] = <<>>

LEMMA OnlyFrom ==
  ASSUME DeclaredOK, Lawful, NEW query \in Range(Queries), NEW kind \in Into(query),
         NEW T, NEW p, Gives(p, RowSet, T), OnlyOf(p, kind)
  PROVE  Cat(All, p) = Cat(Answer(query), p)
  <1> DEFINE X == Range(Queries)
             f == Answers
             g == [x \in X |-> Cat(f[x], p)]
             s == Queries
  <1>1. s \in Seq(X) /\ Range(s) = X /\ Gives(f, X, RowSet) /\ IsInjective(s) /\ All = Cat(s, f) /\ query \in X
    BY AnswersGive, QueriesOnce DEF All
  <1>2. \A x \in X : g[x] = Cat(f[x], p) /\ f[x] = Answer(x)
    BY AnswersGive
  <1> HIDE DEF X, f, s
  <1>3. Cat(Cat(s, f), p) = Cat(s, g)
    BY <1>1, CatCat
  <1> HIDE DEF g
  <1>4. Gives(g, X, T)
    <2>1. \A x \in X : Cat(f[x], p) \in Seq(T)
      BY <1>1, CatParts DEF Gives
    <2> QED
      BY <1>2, <2>1 DEF Gives
  <1>5. ASSUME NEW x \in X, x # query PROVE g[x] = <<>>
    <2> DEFINE u == Answer(x)
    <2>1. u \in Seq(RowSet) /\ \A r \in Range(u) : r.into \in Into(x)
      BY AnswerRight DEF Answering, From, X
    <2>2. kind \notin Into(x)
      BY <1>1, <1>5, IntoOnce DEF X
    <2> HIDE DEF u
    <2>3. \A i \in DOMAIN u : u[i] \in Range(u) /\ u[i] \in RowSet
      BY <2>1 DEF Range
    <2>4. \A i \in DOMAIN u : p[u[i]] = <<>>
      BY <2>1, <2>2, <2>3 DEF OnlyOf
    <2>5. Len(u) \in Nat /\ DOMAIN u = 1 .. Len(u)
      BY <2>1
    <2>6. Cat(u, p) = <<>>
      BY <2>4, <2>5, CatNone
    <2> QED
      BY <1>2, <2>6 DEF u
  <1>6. query \in Range(s) /\ \A y \in Range(s) : y # query => g[y] = <<>>
    BY <1>1, <1>5
  <1>7. Cat(s, g) = g[query]
    BY <1>1, <1>4, <1>6, CatOne
  <1> QED
    BY <1>1, <1>2, <1>3, <1>7

LEMMA AllTells ==
  ASSUME DeclaredOK, Lawful, NEW query \in Range(Queries), NEW kind \in Into(query), NEW n
  PROVE  /\ Tell(All, kind, n) = Tell(Answer(query), kind, n)
         /\ Cat(All, EntryFor(kind)) = Cat(Answer(query), EntryFor(kind))
         /\ About(All, kind, n) = About(Answer(query), kind, n)
         /\ NamesOf(All, kind) = NamesOf(Answer(query), kind)
  <1>1. /\ OnlyOf(ColumnsFor(kind, n), kind) /\ OnlyOf(IncludedFor(kind, n), kind)
        /\ OnlyOf(ReferredFor(kind, n), kind) /\ OnlyOf(EntryFor(kind), kind)
    BY DEF OnlyOf, ColumnsFor, IncludedFor, ReferredFor, EntryFor
  <1>2. Cat(All, ColumnsFor(kind, n)) = Cat(Answer(query), ColumnsFor(kind, n))
    BY <1>1, PiecesGive, OnlyFrom
  <1>3. Cat(All, IncludedFor(kind, n)) = Cat(Answer(query), IncludedFor(kind, n))
    BY <1>1, PiecesGive, OnlyFrom
  <1>4. Cat(All, ReferredFor(kind, n)) = Cat(Answer(query), ReferredFor(kind, n))
    BY <1>1, PiecesGive, OnlyFrom
  <1>5. Cat(All, EntryFor(kind)) = Cat(Answer(query), EntryFor(kind))
    BY <1>1, PiecesGive, OnlyFrom
  <1>6. \A r : r \in Range(All) /\ r.into = kind <=> r \in Range(Answer(query)) /\ r.into = kind
    <2>1. ASSUME NEW r \in Range(All), r.into = kind PROVE r \in Range(Answer(query))
      <3>1. PICK x \in Range(Queries) : r \in Range(Answer(x))
        BY <2>1, AnswersGive
      <3>2. kind \in Into(x)
        BY <2>1, <3>1, AnswerRight DEF Answering, From
      <3> QED
        BY <3>1, <3>2, IntoOnce
    <2> QED
      BY <2>1, AnswersGive
  <1> QED
    BY <1>2, <1>3, <1>4, <1>5, <1>6 DEF Tell, About, NamesOf

-----------------------------------------------------------------------------
(* What the adapter has made when it has read them all. *)

\* Something is said of every declaration.
LEMMA SaidSome ==
  ASSUME DeclaredOK, NEW K, NEW d \in Of(K)
  PROVE  \E y : y \in Range(Said(d))
  <1>1. d \in Declarations
    BY OfParts
  <1>2. Said(d) \in Seq(Values) /\ Said(d) # <<>>
    BY <1>1, Declaration, ConstantsOK DEF Said
  <1> DEFINE s == Said(d)
  <1>3. s \in Seq(Values) /\ s # <<>>
    BY <1>2
  <1> HIDE DEF s
  <1>4. 1 \in DOMAIN s
    BY <1>3
  <1>5. s[1] \in Range(s)
    BY <1>4 DEF Range
  <1> QED
    BY <1>5 DEF s

\* All the declarations of a kind, and no others, are named.
LEMMA AllNamed ==
  ASSUME DeclaredOK, Lawful, NEW kind \in Loaded
  PROVE  /\ GroupedKind(kind) => NamesOf(All, kind) = {d.name : d \in Of(Backing(kind))}
         /\ \A d \in Of(Backing(kind)) : \A y \in Range(Said(d)) :
              \E r \in Range(All) : r.into = kind /\ r.name = d.name /\ y \in Range(r.columns)
  <1>1. PICK query \in Range(Queries) : kind \in Into(query)
    BY IntoOnce
  <1>2. From(Answer(query), Into(query)) /\ kind \in Kinds
    BY AnswerRight DEF Answering, Loaded, Kinds
  <1>3. \A d \in Of(Backing(kind)) : \A y \in Range(Said(d)) :
          \E r \in Range(Answer(query)) : r.into = kind /\ r.name = d.name /\ y \in Range(r.columns)
    BY <1>1, <1>2 DEF From
  <1>4. \A d \in Of(Backing(kind)) : \A y \in Range(Said(d)) :
          \E r \in Range(All) : r.into = kind /\ r.name = d.name /\ y \in Range(r.columns)
    BY <1>1, <1>3, AnswersGive
  <1>5. ASSUME GroupedKind(kind), NEW n \in NamesOf(All, kind)
        PROVE  \E d \in Of(Backing(kind)) : n = d.name
    <2>1. n \in NamesOf(Answer(query), kind)
      BY <1>1, <1>5, AllTells
    <2> QED
      BY <1>2, <1>5, <2>1 DEF From, NamesOf
  <1>6. ASSUME NEW d \in Of(Backing(kind)) PROVE d.name \in NamesOf(All, kind)
    <2>1. PICK y : y \in Range(Said(d))
      BY SaidSome
    <2> QED
      BY <1>4, <2>1 DEF NamesOf
  <1> QED
    BY <1>4, <1>5, <1>6

\* The table that a foreign key refers to, and none for the others.
LEMMA AllTos ==
  ASSUME DeclaredOK, Lawful, ~Nulls, NEW kind \in Loaded, ~Confused(kind), GroupedKind(kind),
         NEW d \in Of(Backing(kind)), NEW to \in Tos(All, kind, d.name)
  PROVE  to = d.to
  <1> DEFINE n == d.name
  <1>1. PICK query \in Range(Queries) : kind \in Into(query)
    BY IntoOnce
  <1>2. kind \in Kinds
    BY DEF Loaded, Kinds
  <1>3. Told(Answer(query), kind)
    BY <1>1, <1>2, AnswerRight DEF Answering, Right
  <1>4. CASE kind = "fk" /\ adapter = "oracle"
    <2>1. "targets" \in Range(Queries) /\ "target" \in Into("targets") /\ Answer("targets") = Targets
      BY <1>4, QueriesParts DEF Into, Answer, Kinds
    <2>2. About(All, "target", n) = About(Targets, "target", n)
      BY <2>1, AllTells
    <2>3. d \in Of({"fk"})
      BY <1>4 DEF Backing
    <2>4. /\ About(Targets, "target", n) # {}
          /\ \A r \in About(Targets, "target", n) : r.to = d.to
      BY <1>4, <2>3, TargetsFrom
    <2>5. \E r \in About(All, "target", n) : to = r.to
      BY <1>4, <2>2, <2>4 DEF Tos
    <2> QED
      BY <2>2, <2>4, <2>5
  <1>5. CASE ~(kind = "fk" /\ adapter = "oracle")
    <2>1. kind = "fk" => About(All, "target", n) = {}
      <3>1. ASSUME NEW r \in Range(All), r.into = "target" PROVE adapter = "oracle"
        <4>1. PICK x \in Range(Queries) : r \in Range(Answer(x))
          BY AnswersGive
        <4>2. "target" \in Into(x)
          BY <3>1, <4>1, AnswerRight DEF Answering, From
        <4> QED
          BY <4>2, IntoOnce
      <3> QED
        BY <1>5, <3>1 DEF About
    <2>2. \E r \in About(All, kind, n) : to = r.to
      BY <2>1 DEF Tos
    <2>3. About(All, kind, n) = About(Answer(query), kind, n)
      BY <1>1, AllTells
    <2>4. \A r \in Range(Answer(query)) : r.into = kind /\ r.name = d.name => r.to = d.to
      BY <1>3, <1>5 DEF Told
    <2> QED
      BY <2>2, <2>3, <2>4 DEF About
  <1> QED
    BY <1>4, <1>5

\* What has been put together under the name of d is what was declared.
LEMMA EntryRight ==
  ASSUME DeclaredOK, Lawful, ~Nulls, NEW kind \in Loaded, ~Confused(kind), GroupedKind(kind),
         NEW d \in Of(Backing(kind)), NEW e \in EntrySet, e.name = d.name, Whole(e, All, kind)
  PROVE  e = Ent(d)
  <1> DEFINE n == d.name
  <1>1. PICK query \in Range(Queries) : kind \in Into(query)
    BY IntoOnce
  <1>2. kind \in Kinds
    BY DEF Loaded, Kinds
  <1>3. Told(Answer(query), kind)
    BY <1>1, <1>2, AnswerRight DEF Answering, Right
  <1>4. Tell(All, kind, n) = <<Said(d), d.included, Referred(d)>>
    <2>1. Tell(All, kind, n) = Tell(Answer(query), kind, n)
      BY <1>1, AllTells
    <2> QED
      BY <1>3, <2>1 DEF Told
  <1>5. /\ Cat(All, ColumnsFor(kind, n)) = Said(d) /\ Cat(All, IncludedFor(kind, n)) = d.included
        /\ Cat(All, ReferredFor(kind, n)) = Referred(d)
    BY <1>4 DEF Tell
  <1>6. e.columns = Said(d) /\ e.included = d.included /\ e.toColumns = Referred(d)
    BY <1>5 DEF Whole
  <1>7. e.to = d.to
    BY AllTos DEF Whole
  <1> QED
    BY <1>6, <1>7 DEF EntrySet, Ent

\* One entry for each declaration, where they are put together by name.
LEMMA GroupedExact ==
  ASSUME DeclaredOK, Lawful, ~Nulls, NEW kind \in Loaded, ~Confused(kind), GroupedKind(kind),
         NEW es \in Seq(EntrySet), ByName(es, All, kind)
  PROVE  Lists(es, Of(Backing(kind)))
  <1> DEFINE B == Of(Backing(kind))
             m == Len(es)
             h == [i \in 1 .. m |-> CHOOSE d \in B : d.name = es[i].name]
  <1>1. m \in Nat /\ DOMAIN es = 1 .. m /\ \A i \in 1 .. m : es[i] \in EntrySet
    OBVIOUS
  <1>2. {es[i].name : i \in DOMAIN es} = {d.name : d \in B}
    BY AllNamed DEF ByName
  <1>3. \A i \in 1 .. m : \A d \in B : es[i].name = d.name => es[i] = Ent(d)
    BY <1>1, EntryRight DEF ByName
  <1>4. OneNamed(B)
    BY NamesOnce
  <1> HIDE DEF B, m
  <1>5. \A i \in 1 .. m : h[i] \in B /\ h[i].name = es[i].name
    BY <1>1, <1>2
  <1>6. \A d \in B : \E i \in 1 .. m : es[i].name = d.name
    BY <1>1, <1>2
  <1>7. Range(es) = {Ent(d) : d \in B}
    BY <1>1, <1>3, <1>5, <1>6 DEF Range
  <1>8. h \in Injection(1 .. m, B)
    <2>1. \A i, j \in 1 .. m : es[i].name = es[j].name => i = j
      BY <1>1 DEF ByName
    <2> QED
      BY <1>5, <2>1 DEF Injection, IsInjective
  <1>9. h \in Surjection(1 .. m, B)
    <2>1. \A d \in B : \E i \in 1 .. m : h[i] = d
      BY <1>4, <1>5, <1>6 DEF OneNamed
    <2> QED
      BY <1>5, <2>1 DEF Surjection
  <1>10. Cardinality(B) = m
    <2>1. ExistsBijection(1 .. m, B)
      BY <1>8, <1>9 DEF ExistsBijection, Bijection
    <2> QED
      BY <1>1, <2>1, FS_CountingElements
  <1> QED
    BY <1>7, <1>10 DEF Lists, B, m

\* Under its name is everything that was said of it, whatever else is.
LEMMA StillNamed ==
  ASSUME DeclaredOK, Lawful, NEW kind \in Loaded, Confused(kind),
         result \in [Kinds -> Seq(EntrySet)], Made(All, kind)
  PROVE  Named(kind)
  <1> DEFINE B == Of(Backing(kind))
             es == result[kind]
  <1>1. All \in Seq(RowSet) /\ \A i \in 1 .. Len(All) : All[i] \in RowSet
    BY AnswersGive
  <1>2. ASSUME NEW d \in B
        PROVE  \E i \in DOMAIN es : es[i].name = d.name /\ Range(Said(d)) \subseteq Range(es[i].columns)
    <2>1. \A y \in Range(Said(d)) :
            \E r \in Range(All) : r.into = kind /\ r.name = d.name /\ y \in Range(r.columns)
      BY AllNamed
    <2>2. CASE GroupedKind(kind)
      <3>1. {es[i].name : i \in DOMAIN es} = {x.name : x \in B} /\ \A i \in DOMAIN es : Whole(es[i], All, kind)
        BY <2>2, AllNamed DEF Made, ByName
      <3>2. PICK i \in DOMAIN es : es[i].name = d.name
        BY <3>1
      <3> DEFINE p == ColumnsFor(kind, d.name)
      <3>3. es[i].columns = Cat(All, p)
        BY <3>1, <3>2 DEF Whole
      <3>4. \A r \in RowSet : r.into = kind /\ r.name = d.name => p[r] = r.columns
        BY DEF ColumnsFor
      <3>5. Gives(p, RowSet, Values)
        BY PiecesGive
      <3> DEFINE s == All
      <3> HIDE DEF p, s, B, es
      <3>6. s \in Seq(RowSet) /\ s = All
        BY <1>1 DEF s
      <3>7. \A y : y \in Range(Cat(s, p)) <=> \E j \in DOMAIN s : y \in Range(p[s[j]])
        BY <3>5, <3>6, CatParts
      <3>8. ASSUME NEW y \in Range(Said(d)) PROVE y \in Range(Cat(s, p))
        <4>1. PICK r \in Range(s) : r.into = kind /\ r.name = d.name /\ y \in Range(r.columns)
          BY <2>1, <3>6, <3>8
        <4>2. PICK j \in DOMAIN s : s[j] = r
          BY <4>1 DEF Range
        <4>3. r \in RowSet
          BY <3>6, <4>2
        <4>4. y \in Range(p[s[j]])
          BY <3>4, <4>1, <4>2, <4>3
        <4> QED
          BY <3>7, <4>4
      <3> QED
        BY <3>2, <3>3, <3>6, <3>8
    <2>3. CASE ~GroupedKind(kind)
      <3>1. kind = "check"
        BY <2>3 DEF Confused, GroupedKind, MySQL
      <3>2. Said(d) = <<d.table>>
        <4>1. d.kind = "check"
          BY <3>1 DEF Of, Backing
        <4> QED
          BY <4>1 DEF Said
      <3>3. Range(Said(d)) = {d.table}
        BY <3>2 DEF Range
      <3>4. PICK r \in Range(All) : r.into = kind /\ r.name = d.name /\ d.table \in Range(r.columns)
        BY <2>1, <3>3
      <3> DEFINE s == All
                 p == EntryFor(kind)
                 T == {Entry(x) : x \in RowSet}
      <3>5. s \in Seq(RowSet) /\ Gives(p, RowSet, T) /\ es = Cat(s, p) /\ r \in Range(s)
        BY <1>1, <2>3, <3>4, PiecesGive DEF Made
      <3>6. r \in RowSet => p[r] = <<Entry(r)>>
        BY <3>4 DEF EntryFor
      <3>7. Entry(r).name = r.name /\ Entry(r).columns = r.columns
        BY DEF Entry
      <3> DEFINE e == Entry(r)
      <3> HIDE DEF s, p, T, es, e
      <3>8. \A y : y \in Range(Cat(s, p)) <=> \E j \in DOMAIN s : y \in Range(p[s[j]])
        BY <3>5, CatParts
      <3>9. PICK j \in DOMAIN s : s[j] = r
        BY <3>5 DEF Range
      <3>10. p[s[j]] = <<e>> /\ e \in Range(<<e>>)
        BY <3>5, <3>6, <3>9 DEF Range, e
      <3>11. e \in Range(es)
        BY <3>5, <3>8, <3>10
      <3>12. PICK i \in DOMAIN es : es[i] = e
        BY <3>11 DEF Range
      <3> QED
        BY <3>3, <3>4, <3>7, <3>12 DEF e
    <2> QED
      BY <2>2, <2>3
  <1> QED
    BY <1>2 DEF Named

\* What is made of all the rows.
LEMMA AllMade ==
  ASSUME DeclaredOK, Lawful, ~Nulls, NEW kind \in Loaded,
         result \in [Kinds -> Seq(EntrySet)], Made(All, kind)
  PROVE  IF Confused(kind) THEN Named(kind) ELSE Exact(kind)
  <1>1. CASE Confused(kind)
    BY <1>1, StillNamed
  <1>2. CASE ~Confused(kind)
    <2> DEFINE es == result[kind]
    <2>1. kind \in Kinds
      BY DEF Loaded, Kinds
    <2>2. es \in Seq(EntrySet)
      BY <2>1
    <2>3. Lists(es, Of(Backing(kind)))
      <3>1. CASE GroupedKind(kind)
        <4>1. ByName(es, All, kind)
          BY <3>1 DEF Made
        <4> HIDE DEF es
        <4> QED
          BY <1>2, <2>2, <3>1, <4>1, GroupedExact
      <3>2. CASE ~GroupedKind(kind)
        <4>1. PICK query \in Range(Queries) : kind \in Into(query)
          BY IntoOnce
        <4>2. Lists(Cat(Answer(query), EntryFor(kind)), Of(Backing(kind)))
          BY <1>2, <2>1, <3>2, <4>1, AnswerRight DEF Answering, Right
        <4>3. es = Cat(All, EntryFor(kind))
          BY <3>2 DEF Made
        <4>4. Cat(All, EntryFor(kind)) = Cat(Answer(query), EntryFor(kind))
          BY <4>1, AllTells
        <4> QED
          BY <4>2, <4>3, <4>4
      <3> QED
        BY <3>1, <3>2
    <2>4. Declared(kind) = {Ent(d) : d \in Of(Backing(kind))}
      BY DEF Declared, Ent
    <2> QED
      BY <1>2, <2>3, <2>4 DEF Exact, Lists
  <1> QED
    BY <1>1, <1>2

\* The answers are fixed with what is declared.
LEMMA AnswersFixed ==
  ASSUME UNCHANGED <<adapter, declared>>
  PROVE  /\ \A query : Answer(query)' = Answer(query)
         /\ Answers' = Answers /\ All' = All
         /\ Lawful' <=> Lawful
         /\ \A kind : GroupedKind(kind)' <=> GroupedKind(kind)
  <1>1. \A kind : WholeRows(kind)' = WholeRows(kind)
    BY DEF WholeRows, Of
  <1>2. KeyColumns' = KeyColumns /\ PairRows' = PairRows
    BY DEF KeyColumns, PairRows, Of
  <1>3. IndexList' = IndexList /\ IndexColumns' = IndexColumns
    BY DEF IndexList, IndexColumns, Of
  <1>4. UsageRows' = UsageRows
    BY DEF UsageRows, Of
  <1>5. JoinedChecks' = JoinedChecks
    BY DEF JoinedChecks, Of
  <1>6. Targets' = Targets
    BY DEF Targets, Of
  <1>7. \A kinds : Of(kinds)' = Of(kinds)
    BY DEF Of
  <1>8. \A query : Answer(query)' = Answer(query)
    BY <1>1, <1>2, <1>3, <1>4, <1>5, <1>6, <1>7 DEF Answer
  <1>9. Queries' = Queries
    BY Fixed
  <1>10. Answers' = Answers
    BY <1>8, <1>9 DEF Answers
  <1>11. All' = All
    BY <1>9, <1>10 DEF All
  <1>12. Lawful' <=> Lawful
    BY DEF Lawful, Namespace
  <1>13. \A kind : GroupedKind(kind)' <=> GroupedKind(kind)
    BY DEF GroupedKind
  <1> QED
    BY <1>8, <1>10, <1>11, <1>12, <1>13

\* The rows of one query and then those of the rest.
LEMMA CatHead ==
  ASSUME NEW X, NEW T, NEW p, Gives(p, X, T), NEW s \in Seq(X), s # <<>>
  PROVE  Cat(s, p) = p[Head(s)] \o Cat(Tail(s), p)
  <1> DEFINE x == Head(s)
             u == Tail(s)
             o == <<x>>
  <1>1. x \in X /\ u \in Seq(X) /\ o \in Seq(X) /\ s = o \o u
    <2>1. x \in X /\ u \in Seq(X)
      OBVIOUS
    <2>2. o \o u \in Seq(X) /\ Len(o \o u) = Len(s)
      BY <2>1
    <2>3. \A i \in 1 .. Len(s) : (o \o u)[i] = s[i]
      BY <2>1
    <2> QED
      BY <2>1, <2>2, <2>3
  <1>2. p[x] \in Seq(T)
    BY <1>1 DEF Gives
  <1>3. Cat(o, p) = p[x]
    <2>1. Cat(Append(<<>>, x), p) = Cat(<<>>, p) \o p[x]
      <3> DEFINE e == <<>>
                 y == x
      <3>1. e \in Seq(X) /\ y \in X
        BY <1>1
      <3> HIDE DEF e, y
      <3>2. Cat(Append(e, y), p) = Cat(e, p) \o p[y]
        BY <3>1, CatAppend
      <3> QED
        BY <3>2 DEF e, y
    <2>2. Append(<<>>, x) = o
      OBVIOUS
    <2>3. Cat(<<>>, p) = <<>>
      BY CatEmpty
    <2>4. <<>> \o p[x] = p[x]
      BY <1>2
    <2> HIDE DEF o
    <2> QED
      BY <2>1, <2>2, <2>3, <2>4
  <1> HIDE DEF x, u, o
  <1>4. Cat(o \o u, p) = Cat(o, p) \o Cat(u, p)
    BY <1>1, CatConcat
  <1> QED
    BY <1>1, <1>3, <1>4 DEF x, u

\* Oracle's adapter learns the targets of the foreign keys after the foreign keys.
LEMMA TargetsLast ==
  ASSUME DeclaredOK, Lawful
  PROVE  /\ \A r \in Range(All) : r.into = "target" => adapter = "oracle"
         /\ \A i, j \in DOMAIN All : i < j /\ All[i].into = "target" => All[j].into # "fk"
  <1>1. ASSUME NEW r \in Range(All), r.into = "target" PROVE adapter = "oracle"
    <2>1. PICK x \in Range(Queries) : r \in Range(Answer(x))
      BY AnswersGive
    <2>2. "target" \in Into(x)
      BY <1>1, <2>1, AnswerRight DEF Answering, From
    <2> QED
      BY <2>2, IntoOnce
  <1>2. ASSUME adapter = "oracle", NEW i \in DOMAIN All, NEW j \in DOMAIN All, i < j, All[i].into = "target"
        PROVE  All[j].into # "fk"
    <2> DEFINE q == <<"constraints", "targets", "indexes", "trigger">>
               u == <<"targets", "indexes", "trigger">>
               a == Answer("constraints")
               b == Cat(Tail(Queries), Answers)
    <2>1. Queries = q
      BY <1>2 DEF Queries, MySQL
    <2>2. Head(q) = "constraints" /\ Tail(q) = u /\ q # <<>>
      OBVIOUS
    <2>3. Range(u) = {"targets", "indexes", "trigger"}
      <3>1. DOMAIN u = {1, 2, 3} /\ u[1] = "targets" /\ u[2] = "indexes" /\ u[3] = "trigger"
        OBVIOUS
      <3> HIDE DEF u
      <3> QED
        BY <3>1 DEF Range
    <2>4. Range(Queries) = {"constraints", "targets", "indexes", "trigger"}
      BY <1>2, QueriesParts
    <2> HIDE DEF q
    <2>5. All = a \o b
      <3>1. Queries # <<>> /\ Head(Queries) = "constraints"
        BY <2>1, <2>2
      <3>2. Answers["constraints"] = a
        BY <2>4, AnswersGive
      <3> DEFINE s == Queries
                 X == Range(Queries)
      <3>3. s \in Seq(X) /\ Gives(Answers, X, RowSet) /\ s # <<>> /\ Head(s) = "constraints"
        BY <3>1, AnswersGive
      <3> HIDE DEF s, X
      <3>4. Cat(s, Answers) = Answers[Head(s)] \o Cat(Tail(s), Answers)
        BY <3>3, CatHead
      <3> QED
        BY <3>2, <3>3, <3>4 DEF All, s
    <2>6. b \in Seq(RowSet) /\ \A r \in Range(b) : r.into # "fk"
      <3> DEFINE X == Range(Queries)
                 s == Tail(Queries)
      <3>1. s = u /\ s \in Seq(X) /\ Gives(Answers, X, RowSet)
        <4>1. Queries \in Seq(X) /\ Queries # <<>>
          BY <2>1, <2>2, AnswersGive
        <4>2. Tail(Queries) \in Seq(X)
          BY <4>1
        <4> QED
          BY <2>1, <2>2, <4>2, AnswersGive
      <3> HIDE DEF X, s
      <3>2. /\ Cat(s, Answers) \in Seq(RowSet)
            /\ \A y : y \in Range(Cat(s, Answers)) <=> \E k \in DOMAIN s : y \in Range(Answers[s[k]])
        BY <3>1, CatParts
      <3>3. ASSUME NEW r \in Range(b) PROVE r.into # "fk"
        <4>1. PICK k \in DOMAIN s : r \in Range(Answers[s[k]])
          BY <3>2, <3>3 DEF s
        <4> DEFINE x == s[k]
        <4>2. x \in {"targets", "indexes", "trigger"}
          BY <2>3, <3>1, <4>1 DEF Range
        <4>3. x \in Range(Queries) /\ r \in Range(Answer(x))
          BY <2>4, <4>1, <4>2, AnswersGive
        <4>4. r.into \in Into(x)
          BY <4>3, AnswerRight DEF Answering, From
        <4>5. x \in Range(Queries) /\ "constraints" \in Range(Queries) /\ x # "constraints"
          BY <2>4, <4>2
        <4>6. "fk" \in Into("constraints")
          BY DEF Into, Kinds
        <4> HIDE DEF x
        <4> QED
          BY <4>4, <4>5, <4>6, IntoOnce
      <3> QED
        BY <3>2, <3>3 DEF s
    <2>7. a \in Seq(RowSet) /\ \A r \in Range(a) : r.into # "target"
      <3>1. "constraints" \in Range(Queries)
        BY <2>4
      <3>2. From(a, Into("constraints"))
        BY <3>1, AnswerRight DEF Answering
      <3>3. "target" \notin Into("constraints")
        BY <3>1, IntoOnce
      <3> QED
        BY <3>2, <3>3 DEF From
    <2> HIDE DEF a, b
    <2>8. Len(a) \in Nat /\ DOMAIN a = 1 .. Len(a) /\ Len(b) \in Nat /\ DOMAIN b = 1 .. Len(b)
      BY <2>6, <2>7
    <2>9. DOMAIN All = 1 .. (Len(a) + Len(b))
          /\ \A k \in DOMAIN All : All[k] = IF k <= Len(a) THEN a[k] ELSE b[k - Len(a)]
      BY <2>5, <2>6, <2>7
    <2>10. i > Len(a)
      <3> SUFFICES ASSUME i <= Len(a) PROVE FALSE
        BY <1>2, <2>8, <2>9
      <3>1. i \in DOMAIN a /\ All[i] = a[i]
        BY <1>2, <2>8, <2>9
      <3>2. a[i] \in Range(a)
        BY <3>1 DEF Range
      <3> QED
        BY <1>2, <2>7, <3>1, <3>2
    <2>11. j - Len(a) \in DOMAIN b /\ All[j] = b[j - Len(a)]
      BY <1>2, <2>8, <2>9, <2>10
    <2>12. b[j - Len(a)] \in Range(b)
      BY <2>11 DEF Range
    <2> QED
      BY <2>6, <2>11, <2>12
  <1>3. \A i \in DOMAIN All : All[i] \in Range(All)
    BY DEF Range
  <1> QED
    BY <1>1, <1>2, <1>3

-----------------------------------------------------------------------------
(* The invariant of the reading. *)

\* The rows of past have been read: those at hand and those still to ask for are the rest.
ReadSoFar(past) ==
  /\ past \in Seq(RowSet)
  /\ (past \o rows) \o Cat(queries, Answers) = All
  /\ \A kind \in Kinds : Made(past, kind)

\* The inductive invariant of the reading.
ReadInv ==
  /\ Lawful
  /\ phase = "reading" => \E past : ReadSoFar(past)
  /\ phase = "done" => \A kind \in Kinds : Made(All, kind)

LEMMA ReadInvInit == Init => ReadInv
  BY DEF Init, ReadInv, Lawful

\* What the database let its users declare stays so.
LEMMA DeclareReads ==
  ASSUME IInv, ReadInv, NEW d \in Declarations, Declare(d)
  PROVE  ReadInv'
  <1>1. phase' = "declaring" /\ declared' = declared \cup {d} /\ UNCHANGED adapter /\ Legal(d)
    BY DEF Declare
  <1>2. \A c : Namespace(c)' = Namespace(c)
    BY <1>1 DEF Namespace
  <1>3. ASSUME NEW c \in declared', NEW e \in declared', SameName(c, e)
        PROVE  Namespace(c)' # Namespace(e)'
    <2>1. c \in declared /\ e \in declared => Namespace(c) # Namespace(e)
      BY <1>3 DEF ReadInv, Lawful
    <2>2. \A x \in declared : SameName(x, d) => Namespace(x) # Namespace(d)
      BY <1>1 DEF Legal
    <2>3. SameName(e, c) /\ c # e
      BY <1>3 DEF SameName
    <2> QED
      BY <1>1, <1>2, <1>3, <2>1, <2>2, <2>3
  <1>4. ASSUME NEW c \in declared'
        PROVE  /\ c.kind = "fk" /\ adapter' = "sqlite" => c.to[1] = Schema
               /\ c.owner # Schema => adapter' = "oracle"
               /\ c.included # <<>> => adapter' \in {"postgres", "mssql"}
               /\ c.partition # <<>> => adapter' = "mssql"
    <2>1. CASE c \in declared
      BY <1>1, <2>1 DEF ReadInv, Lawful
    <2>2. CASE c = d
      BY <1>1, <2>2 DEF Legal
    <2> QED
      BY <1>1, <1>4, <2>1, <2>2
  <1>5. Lawful'
    BY <1>3, <1>4 DEF Lawful
  <1> QED
    BY <1>1, <1>5 DEF ReadInv

\* Nothing has been read yet.
LEMMA StartReads ==
  ASSUME IInv, ReadInv, Start
  PROVE  ReadInv'
  <1>1. /\ phase = "declaring" /\ phase' = "reading" /\ queries' = Queries
        /\ UNCHANGED <<adapter, declared, rows, result>>
    BY DEF Start
  <1>2. rows = <<>> /\ result = [kind \in Kinds |-> <<>>] /\ DeclaredOK
    BY <1>1 DEF IInv, QueriesOK
  <1>3. Answers' = Answers /\ All' = All /\ Lawful' /\ \A kind : GroupedKind(kind)' <=> GroupedKind(kind)
    BY <1>1, AnswersFixed DEF ReadInv
  <1>4. All \in Seq(RowSet)
    BY <1>2, AnswersGive DEF ReadInv
  <1>5. (<<>> \o rows') \o Cat(queries', Answers') = All'
    <2>1. (<<>> \o <<>>) \o All = All
      BY <1>4
    <2> QED
      BY <1>1, <1>2, <1>3, <2>1 DEF All
  <1>6. ASSUME NEW kind \in Kinds PROVE Made(<<>>, kind)'
    <2>1. result'[kind] = <<>>
      BY <1>1, <1>2
    <2>2. Cat(<<>>, EntryFor(kind)) = <<>>
      BY CatEmpty
    <2>3. ByName(<<>>, <<>>, kind)
      BY EmptyDomain DEF ByName, NamesOf, Range
    <2> QED
      BY <2>1, <2>2, <2>3 DEF Made
  <1>7. ReadSoFar(<<>>)'
    BY <1>5, <1>6 DEF ReadSoFar
  <1> QED
    BY <1>1, <1>3, <1>7 DEF ReadInv

\* The rows of one more query are at hand.
LEMMA AskReads ==
  ASSUME IInv, ReadInv, Ask
  PROVE  ReadInv'
  <1>1. /\ phase = "reading" /\ phase' = "reading" /\ rows = <<>> /\ queries # <<>>
        /\ rows' = Answer(Head(queries)) /\ queries' = Tail(queries)
        /\ UNCHANGED <<adapter, declared, result>>
    BY DEF Ask, Reading
  <1>2. DeclaredOK /\ QueriesOK /\ Lawful
    BY DEF IInv, ReadInv
  <1>3. Answers' = Answers /\ All' = All /\ Lawful' /\ \A kind : GroupedKind(kind)' <=> GroupedKind(kind)
    BY <1>1, <1>2, AnswersFixed
  <1>4. PICK past : ReadSoFar(past)
    BY <1>1 DEF ReadInv
  <1> DEFINE X == Range(Queries)
             s == queries
             a == Answer(Head(s))
             b == Cat(Tail(s), Answers)
  <1>5. s \in Seq(X) /\ s # <<>>
    <2>1. PICK T : queries \in Seq(T)
      BY <1>2 DEF QueriesOK
    <2>2. \A i \in DOMAIN queries : queries[i] \in X
      BY <1>2 DEF QueriesOK, Range
    <2> HIDE DEF X
    <2> QED
      BY <1>1, <2>1, <2>2
  <1>6. Gives(Answers, X, RowSet) /\ \A query \in X : Answers[query] = Answer(query)
    BY <1>2, AnswersGive
  <1>7. Head(s) \in X /\ Tail(s) \in Seq(X)
    <2> HIDE DEF X, s
    <2> QED
      BY <1>5
  <1>8. Cat(s, Answers) = a \o b
    <2> HIDE DEF X
    <2>1. Cat(s, Answers) = Answers[Head(s)] \o Cat(Tail(s), Answers)
      BY <1>5, <1>6, CatHead
    <2> QED
      BY <1>6, <1>7, <2>1
  <1>9. a \in Seq(RowSet) /\ b \in Seq(RowSet)
    <2> HIDE DEF X, s
    <2>1. a \in Seq(RowSet)
      BY <1>6, <1>7 DEF Gives
    <2>2. b \in Seq(RowSet)
      BY <1>6, <1>7, CatParts
    <2> QED
      BY <2>1, <2>2
  <1>10. past \in Seq(RowSet) /\ (past \o <<>>) \o (a \o b) = All
    BY <1>1, <1>4, <1>8 DEF ReadSoFar
  <1> HIDE DEF a, b
  <1>11. (past \o a) \o b = All
    <2>1. past \o <<>> = past
      BY <1>10
    <2>2. past \o (a \o b) = (past \o a) \o b
      BY <1>9, <1>10
    <2> QED
      BY <1>10, <2>1, <2>2
  <1>12. (past \o rows') \o Cat(queries', Answers') = All'
    BY <1>1, <1>3, <1>11 DEF a, b
  <1>13. \A kind \in Kinds : Made(past, kind)'
    BY <1>1, <1>3, <1>4 DEF ReadSoFar, Made
  <1>14. ReadSoFar(past)'
    BY <1>10, <1>12, <1>13 DEF ReadSoFar
  <1> QED
    BY <1>1, <1>3, <1>14 DEF ReadInv

\* One more row has been read.
LEMMA ReadReads ==
  ASSUME IInv, ReadInv, Read
  PROVE  ReadInv'
  <1>1. PICK row : row = Head(rows)
    OBVIOUS
  <1>2. /\ phase = "reading" /\ rows # <<>>
        /\ UNCHANGED <<adapter, declared, queries>>
        /\ \/ Unreadable(row) /\ phase' = "failed"
           \/ /\ ~Unreadable(row) /\ phase' = "reading" /\ rows' = Tail(rows)
              /\ result' = IF row.into = "target"
                           THEN [result EXCEPT !["fk"] = SetTarget(result["fk"], row)]
                           ELSE [result EXCEPT ![row.into] = Put(result[row.into], row)]
    BY <1>1 DEF Read, Reading
  <1>3. DeclaredOK /\ Lawful /\ rows \in Seq(RowSet) /\ result \in [Kinds -> Seq(EntrySet)]
    BY DEF IInv, RowsOK, ResultOK, ReadInv
  <1>4. Answers' = Answers /\ All' = All /\ Lawful' /\ \A kind : GroupedKind(kind)' <=> GroupedKind(kind)
    BY <1>2, <1>3, AnswersFixed
  <1>5. CASE Unreadable(row) /\ phase' = "failed"
    BY <1>4, <1>5 DEF ReadInv
  <1>6. CASE ~Unreadable(row) /\ phase' = "reading" /\ rows' = Tail(rows)
             /\ result' = IF row.into = "target"
                          THEN [result EXCEPT !["fk"] = SetTarget(result["fk"], row)]
                          ELSE [result EXCEPT ![row.into] = Put(result[row.into], row)]
    <2>1. PICK past : ReadSoFar(past)
      BY <1>2 DEF ReadInv
    <2> DEFINE a == rows
               b == Cat(queries, Answers)
               n == Len(past)
               rest == a \o b
    <2>2. row \in RowSet /\ Tail(a) \in Seq(RowSet) /\ a = <<row>> \o Tail(a)
      <3>1. row \in RowSet /\ Tail(a) \in Seq(RowSet)
        BY <1>1, <1>2, <1>3
      <3>2. <<row>> \o Tail(a) \in Seq(RowSet) /\ Len(<<row>> \o Tail(a)) = Len(a)
        BY <1>2, <1>3, <3>1
      <3>3. \A i \in 1 .. Len(a) : (<<row>> \o Tail(a))[i] = a[i]
        BY <1>1, <1>2, <1>3, <3>1
      <3> QED
        BY <1>3, <3>1, <3>2, <3>3
    <2>3. past \in Seq(RowSet) /\ (past \o a) \o b = All /\ \A kind \in Kinds : Made(past, kind)
      BY <2>1 DEF ReadSoFar
    <2>4. b \in Seq(RowSet)
      <3> DEFINE X == Range(Queries)
                 s == queries
      <3>1. PICK T : s \in Seq(T)
        BY DEF IInv, QueriesOK
      <3>2. \A i \in DOMAIN s : s[i] \in X
        BY DEF IInv, QueriesOK, Range
      <3>3. Gives(Answers, X, RowSet)
        BY <1>3, AnswersGive
      <3> HIDE DEF X, s
      <3>4. s \in Seq(X)
        BY <3>1, <3>2
      <3>5. Cat(s, Answers) \in Seq(RowSet)
        BY <3>3, <3>4, CatParts
      <3> QED
        BY <3>5 DEF s
    <2> HIDE DEF a, b
    <2>5. a \in Seq(RowSet)
      BY <1>3 DEF a
    <2>6. Append(past, row) \o Tail(a) = past \o a
      <3>1. Append(past, row) = past \o <<row>>
        BY <2>2, <2>3
      <3>2. (past \o <<row>>) \o Tail(a) = past \o (<<row>> \o Tail(a))
        BY <2>2, <2>3
      <3> QED
        BY <2>2, <3>1, <3>2
    <2>7. (Append(past, row) \o rows') \o Cat(queries', Answers') = All'
      BY <1>2, <1>4, <1>6, <2>3, <2>6 DEF a, b
    <2>8. /\ n + 1 \in DOMAIN All /\ All[n + 1] = row
          /\ \A i \in 1 .. n : i \in DOMAIN All /\ All[i] = past[i]
      <3>1. n \in Nat /\ Len(a) \in Nat /\ Len(a) # 0 /\ Len(b) \in Nat /\ a[1] = row
        BY <1>2, <2>2, <2>3, <2>4, <2>5 DEF a
      <3> DEFINE c == past \o a
      <3>2. /\ c \in Seq(RowSet) /\ Len(c) = n + Len(a) /\ c[n + 1] = row
            /\ \A i \in 1 .. n : c[i] = past[i]
        BY <2>3, <2>5, <3>1
      <3> HIDE DEF c
      <3>3. /\ Len(c \o b) = Len(c) + Len(b) /\ DOMAIN (c \o b) = 1 .. (Len(c) + Len(b))
            /\ \A i \in 1 .. Len(c) : (c \o b)[i] = c[i]
        BY <2>4, <3>2
      <3>4. DOMAIN All = 1 .. (Len(c) + Len(b)) /\ \A i \in 1 .. Len(c) : All[i] = c[i]
        BY <2>3, <3>3 DEF c
      <3>5. n + 1 \in 1 .. Len(c) /\ Len(c) \in Nat /\ \A i \in 1 .. n : i \in 1 .. Len(c)
        BY <3>1, <3>2
      <3>6. 1 .. Len(c) \subseteq 1 .. (Len(c) + Len(b))
        BY <3>1, <3>5
      <3> QED
        BY <3>2, <3>4, <3>5, <3>6
    <2>9. row.into = "target" => adapter = "oracle"
      <3>1. row \in Range(All)
        BY <2>8 DEF Range
      <3> QED
        BY <1>3, <3>1, TargetsLast
    <2>10. row.into = "fk" => \A r \in Range(past) : r.into # "target"
      <3> SUFFICES ASSUME row.into = "fk", NEW r \in Range(past), r.into = "target" PROVE FALSE
        OBVIOUS
      <3>1. PICK i \in DOMAIN past : past[i] = r
        BY DEF Range
      <3>2. i \in 1 .. n /\ n \in Nat
        BY <2>3, <3>1
      <3>3. i \in DOMAIN All /\ n + 1 \in DOMAIN All /\ i < n + 1 /\ All[i] = r /\ All[n + 1] = row
        BY <2>8, <3>1, <3>2
      <3> HIDE DEF n
      <3> DEFINE j == n + 1
      <3>4. i \in DOMAIN All /\ j \in DOMAIN All /\ i < j /\ All[i].into = "target" /\ All[j].into = "fk"
        BY <3>3
      <3> HIDE DEF j
      <3> QED
        BY <1>3, <3>4, TargetsLast
    <2>11. Readable(row)
      BY <1>6, <2>2 DEF Readable, Unreadable
    <2>12. \A kind \in Kinds : Made(Append(past, row), kind)'
      BY <1>2, <1>3, <1>6, <2>3, <2>9, <2>10, <2>11, MadeMore
    <2>13. Append(past, row) \in Seq(RowSet)
      BY <2>2, <2>3
    <2>14. ReadSoFar(Append(past, row))'
      BY <2>7, <2>12, <2>13 DEF ReadSoFar, RowSet, Names, Values, Targeted
    <2> QED
      BY <1>4, <1>6, <2>14 DEF ReadInv
  <1> QED
    BY <1>2, <1>5, <1>6

\* There is nothing more to read.
LEMMA FinishReads ==
  ASSUME IInv, ReadInv, Finish
  PROVE  ReadInv'
  <1>1. /\ phase = "reading" /\ phase' = "done" /\ rows = <<>> /\ queries = <<>>
        /\ UNCHANGED <<adapter, declared, queries, rows, result>>
    BY DEF Finish, Reading
  <1>2. All' = All /\ Lawful' /\ \A kind : GroupedKind(kind)' <=> GroupedKind(kind)
    BY <1>1, AnswersFixed DEF ReadInv
  <1>3. PICK past : ReadSoFar(past)
    BY <1>1 DEF ReadInv
  <1>4. past = All
    <2>1. past \in Seq(RowSet) /\ (past \o <<>>) \o Cat(<<>>, Answers) = All
      BY <1>1, <1>3 DEF ReadSoFar
    <2>2. Cat(<<>>, Answers) = <<>>
      BY CatEmpty
    <2>3. (past \o <<>>) \o <<>> = past
      BY <2>1
    <2> QED
      BY <2>1, <2>2, <2>3
  <1>5. \A kind \in Kinds : Made(All, kind)
    BY <1>3, <1>4 DEF ReadSoFar
  <1>6. \A kind \in Kinds : Made(All, kind)'
    BY <1>1, <1>2, <1>5 DEF Made
  <1> QED
    BY <1>1, <1>2, <1>6 DEF ReadInv

LEMMA ReadInvNext == IInv /\ ReadInv /\ [Next]_vars => ReadInv'
  <1> SUFFICES ASSUME IInv, ReadInv, [Next]_vars PROVE ReadInv'
    OBVIOUS
  <1>1. CASE \E d \in Declarations : Declare(d)
    BY <1>1, DeclareReads
  <1>2. CASE Start
    BY <1>2, StartReads
  <1>3. CASE Ask
    BY <1>3, AskReads
  <1>4. CASE Read
    BY <1>4, ReadReads
  <1>5. CASE Finish
    BY <1>5, FinishReads
  <1>6. CASE UNCHANGED vars
    <2>1. UNCHANGED <<adapter, declared, phase, queries, rows, result>>
      BY <1>6 DEF vars
    <2>2. Answers' = Answers /\ All' = All /\ Lawful' /\ \A kind : GroupedKind(kind)' <=> GroupedKind(kind)
      BY <2>1, AnswersFixed DEF ReadInv
    <2>3. \A past : \A kind : Made(past, kind)' <=> Made(past, kind)
      BY <2>1, <2>2 DEF Made
    <2>4. \A past : ReadSoFar(past) => ReadSoFar(past)'
      BY <2>1, <2>2, <2>3 DEF ReadSoFar
    <2> QED
      BY <2>1, <2>2, <2>3, <2>4 DEF ReadInv
  <1> QED
    BY <1>1, <1>2, <1>3, <1>4, <1>5, <1>6 DEF Next

\* What is read is put together whole: when the adapter is done, every constraint, index
\* and trigger of the table is there once, with its columns in their order and its target,
\* and where the catalogue confuses them still all are named, with all their columns.
THEOREM KeysAlwaysExact == Spec => []KeysExact
  <1>1. Init => IInv /\ ReadInv
    BY IInvInit, ReadInvInit
  <1>2. IInv /\ ReadInv /\ [Next]_vars => IInv' /\ ReadInv'
    BY IInvNext, ReadInvNext
  <1>3. IInv /\ ReadInv => KeysExact
    <2> SUFFICES ASSUME IInv, ReadInv, phase = "done", NEW kind \in Loaded
                 PROVE  IF Confused(kind) THEN Named(kind) ELSE Exact(kind)
      BY DEF KeysExact
    <2>1. DeclaredOK /\ Lawful /\ result \in [Kinds -> Seq(EntrySet)] /\ ~Nulls
      BY RefusedIff DEF IInv, ReadInv, ResultOK
    <2>2. kind \in Kinds
      BY DEF Loaded, Kinds
    <2>3. Made(All, kind)
      BY <2>2 DEF ReadInv
    <2> QED
      BY <2>1, <2>3, AllMade
  <1> QED
    BY <1>1, <1>2, <1>3, PTL DEF Spec
=============================================================================
