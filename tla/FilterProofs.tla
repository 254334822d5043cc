----------------------------- MODULE FilterProofs -----------------------------
(***************************************************************************)
(* Facts about filters, and about the ranges of sequences, on which the    *)
(* proofs of the adapters rest.                                            *)
(*                                                                         *)
(* A filter is a recursive function; what it returns is proved by          *)
(* induction on a set of numbers (InductionOnSet), which the least element *)
(* principle of well-founded relations gives.                              *)
(***************************************************************************)
EXTENDS Filters, SequencesExt, SequenceTheorems, WellFoundedInduction, TLAPS

Below == {p \in Nat \X Nat : p[1] < p[2]}

LEMMA BelowWellFounded == IsWellFoundedOn(Below, Nat)
  BY NatLessThanWellFounded, Zenon DEF OpToRel, Below

LEMMA InductionOnSet ==
  ASSUME NEW S, 0 \in S, \A n \in Nat : n \in S => n + 1 \in S
  PROVE  Nat \subseteq S
  <1> SUFFICES ASSUME Nat \ S # {} PROVE FALSE
    OBVIOUS
  <1>1. PICK least \in Nat \ S : \A n \in Nat \ S : ~(<<n, least>> \in Below)
    BY BelowWellFounded, WFMin
  <1>2. least # 0 /\ least - 1 \in Nat /\ least - 1 < least
    BY <1>1
  <1>3. <<least - 1, least>> \in Below
    BY <1>2 DEF Below
  <1> QED
    BY <1>1, <1>2, <1>3

\* Induction on lists.
LEMMA InductionOnLists ==
  ASSUME NEW T, NEW S, <<>> \in S,
         \A s \in Seq(T) : \A x \in T : s \in S => Append(s, x) \in S
  PROVE  Seq(T) \subseteq S
  <1> DEFINE Good == {n \in Nat : \A s \in Seq(T) : Len(s) = n => s \in S}
  <1>1. 0 \in Good
    OBVIOUS
  <1>2. ASSUME NEW n \in Nat, n \in Good PROVE n + 1 \in Good
    <2> SUFFICES ASSUME NEW s \in Seq(T), Len(s) = n + 1 PROVE s \in S
      OBVIOUS
    <2> DEFINE u == [i \in 1 .. n |-> s[i]]
               x == s[n + 1]
    <2>1. u \in Seq(T) /\ x \in T /\ Len(u) = n
      OBVIOUS
    <2>2. s = Append(u, x)
      BY <2>1
    <2>3. u \in S
      BY <1>2, <2>1
    <2> HIDE DEF u, x
    <2> QED
      BY <2>1, <2>2, <2>3
  <1>3. Nat \subseteq Good
    <2> HIDE DEF Good
    <2> QED
      BY <1>1, <1>2, InductionOnSet
  <1> QED
    BY <1>3

-----------------------------------------------------------------------------
(* Filters. *)

\* One step of the recursion of PlacesUpTo.
Place(s, S, f, n) ==
  IF n = 0 THEN <<>> ELSE IF s[n] \in S THEN Append(f[n - 1], n) ELSE f[n - 1]

\* The recursion has a solution, so that the definition means what it says.
LEMMA PlacesUpToDef ==
  ASSUME NEW s, NEW S, Len(s) \in Nat
  PROVE  LET f == PlacesUpTo(s, S)
         IN  f = [n \in 0 .. Len(s) |-> Place(s, S, f, n)]
  <1> DEFINE Solution(m, f) == f = [n \in 0 .. m |-> Place(s, S, f, n)]
             Solvable == {m \in Nat : \E f : Solution(m, f)}
  <1>1. 0 \in Solvable
    <2> DEFINE f == [n \in 0 .. 0 |-> <<>>]
    <2>1. Solution(0, f)
      BY DEF Place
    <2> QED
      BY <2>1
  <1>2. ASSUME NEW m \in Nat, m \in Solvable
        PROVE  m + 1 \in Solvable
    <2>1. PICK f : Solution(m, f)
      BY <1>2
    <2> DEFINE g == [n \in 0 .. m + 1 |-> IF n = m + 1 THEN Place(s, S, f, n) ELSE f[n]]
    <2>2. \A n \in 0 .. m : g[n] = f[n] /\ f[n] = Place(s, S, f, n)
      BY <2>1
    <2>3. \A n \in 0 .. m + 1 : Place(s, S, g, n) = Place(s, S, f, n)
      BY <2>2 DEF Place
    <2>4. Solution(m + 1, g)
      BY <2>2, <2>3
    <2> HIDE DEF g
    <2> QED
      BY <2>4
  <1>3. Len(s) \in Solvable
    <2> HIDE DEF Solvable
    <2> QED
      BY <1>1, <1>2, InductionOnSet
  <1> QED
    BY <1>3 DEF PlacesUpTo, Place

\* p is the list of the positions up to n of the members of S.
Finds(p, s, S, n) ==
  /\ p \in Seq(1 .. n)
  /\ \A i, j \in DOMAIN p : i < j => p[i] < p[j]
  /\ \A i \in DOMAIN p : s[p[i]] \in S
  /\ \A k \in 1 .. n : s[k] \in S => \E i \in DOMAIN p : p[i] = k

\* The parts of an appended sequence, by index.
LEMMA AppendParts ==
  ASSUME NEW T, NEW s \in Seq(T), NEW e \in T
  PROVE  /\ Len(s) \in Nat
         /\ DOMAIN s = 1 .. Len(s)
         /\ Append(s, e) \in Seq(T)
         /\ Len(Append(s, e)) = Len(s) + 1
         /\ DOMAIN Append(s, e) = 1 .. Len(s) + 1
         /\ \A i \in 1 .. Len(s) : Append(s, e)[i] = s[i]
         /\ Append(s, e)[Len(s) + 1] = e
         /\ Append(s, e) = [i \in 1 .. Len(s) + 1 |-> Append(s, e)[i]]
  <1>1. /\ Len(s) \in Nat
        /\ DOMAIN s = 1 .. Len(s)
        /\ Append(s, e) \in Seq(T)
        /\ Len(Append(s, e)) = Len(s) + 1
    OBVIOUS
  <1>2. DOMAIN Append(s, e) = 1 .. Len(s) + 1
    BY <1>1
  <1>3. \A i \in 1 .. Len(s) : Append(s, e)[i] = s[i]
    BY <1>1
  <1>4. Append(s, e)[Len(s) + 1] = e
    BY <1>1
  <1>5. Append(s, e) = [i \in 1 .. Len(s) + 1 |-> Append(s, e)[i]]
    <2> DEFINE t == Append(s, e)
    <2>1. t \in Seq(T) /\ Len(t) = Len(s) + 1
      BY <1>1
    <2> HIDE DEF t
    <2>2. t \in [1 .. Len(t) -> T]
      BY <2>1, LenProperties
    <2>3. t = [i \in 1 .. Len(t) |-> t[i]]
      BY <2>2
    <2> QED
      BY <2>1, <2>3 DEF t
  <1> QED
    BY <1>1, <1>2, <1>3, <1>4, <1>5

LEMMA FindsMore ==
  ASSUME NEW s, NEW S, NEW n \in Nat, NEW p, Finds(p, s, S, n), s[n + 1] \in S
  PROVE  Finds(Append(p, n + 1), s, S, n + 1)
  <1> DEFINE next == n + 1
             q == Append(p, next)
             l == Len(p)
  <1>1. p \in Seq(1 .. n) /\ p \in Seq(1 .. next) /\ next \in 1 .. next
    BY DEF Finds
  <1>2. l \in Nat /\ DOMAIN p = 1 .. l /\ \A i \in 1 .. l : p[i] \in 1 .. n
    BY <1>1
  <1>3. /\ q \in Seq(1 .. next)
        /\ DOMAIN q = 1 .. l + 1
        /\ \A i \in 1 .. l : q[i] = p[i]
        /\ q[l + 1] = next
    BY <1>1, AppendParts
  <1>4. next \in Nat /\ s[next] \in S /\ \A k \in 1 .. next : k = next \/ k \in 1 .. n
    OBVIOUS
  <1>5. \A k \in 1 .. n : k \in Nat /\ k < next
    OBVIOUS
  <1> HIDE DEF next, q, l
  <1>6. \A i \in 1 .. l + 1 : i = l + 1 \/ (i \in 1 .. l /\ i < l + 1)
    BY <1>2
  <1>7. ASSUME NEW i \in DOMAIN q, NEW j \in DOMAIN q, i < j
        PROVE  q[i] < q[j]
    <2>1. i \in 1 .. l /\ q[i] = p[i]
      BY <1>2, <1>3, <1>6, <1>7
    <2>2. CASE j = l + 1
      BY <1>2, <1>3, <1>5, <2>1, <2>2
    <2>3. CASE j \in 1 .. l
      <3>1. i \in DOMAIN p /\ j \in DOMAIN p /\ q[j] = p[j]
        BY <1>2, <1>3, <2>1, <2>3
      <3> QED
        BY <1>7, <2>1, <3>1 DEF Finds
    <2> QED
      BY <1>3, <1>6, <2>2, <2>3
  <1>8. ASSUME NEW i \in DOMAIN q
        PROVE  s[q[i]] \in S
    <2>1. CASE i = l + 1
      BY <1>3, <1>4, <2>1
    <2>2. CASE i \in 1 .. l
      BY <1>2, <1>3, <2>2 DEF Finds
    <2> QED
      BY <1>3, <1>6, <2>1, <2>2
  <1>9. ASSUME NEW k \in 1 .. next, s[k] \in S
        PROVE  \E i \in DOMAIN q : q[i] = k
    <2>1. CASE k = next
      <3>1. l + 1 \in DOMAIN q
        BY <1>2, <1>3
      <3> QED
        BY <1>3, <2>1, <3>1
    <2>2. CASE k \in 1 .. n
      <3>1. PICK i \in DOMAIN p : p[i] = k
        BY <1>9, <2>2 DEF Finds
      <3>2. i \in DOMAIN q /\ q[i] = k
        BY <1>2, <1>3, <3>1
      <3> QED
        BY <3>2
    <2> QED
      BY <1>4, <2>1, <2>2
  <1> QED
    BY <1>3, <1>7, <1>8, <1>9 DEF Finds, next, q

LEMMA FindsNoMore ==
  ASSUME NEW s, NEW S, NEW n \in Nat, NEW p, Finds(p, s, S, n), s[n + 1] \notin S
  PROVE  Finds(p, s, S, n + 1)
  BY DEF Finds

\* The recursion finds the places, for every prefix.
LEMMA PlacesUpToProperties ==
  ASSUME NEW T, NEW s \in Seq(T), NEW S, NEW n \in 0 .. Len(s)
  PROVE  Finds(PlacesUpTo(s, S)[n], s, S, n)
  <1> DEFINE f == PlacesUpTo(s, S)
             Found == {m \in Nat : m <= Len(s) => Finds(f[m], s, S, m)}
  <1>1. Len(s) \in Nat /\ \A m \in 0 .. Len(s) : f[m] = Place(s, S, f, m)
    BY PlacesUpToDef
  <1> HIDE DEF f
  <1>2. 0 \in Found
    <2>1. f[0] = <<>>
      BY <1>1 DEF Place
    <2>2. Finds(<<>>, s, S, 0)
      BY DEF Finds
    <2> QED
      BY <2>1, <2>2
  <1>3. ASSUME NEW m \in Nat, m \in Found
        PROVE  m + 1 \in Found
    <2> SUFFICES ASSUME m + 1 <= Len(s) PROVE Finds(f[m + 1], s, S, m + 1)
      OBVIOUS
    <2>1. Finds(f[m], s, S, m)
      BY <1>3
    <2>2. f[m + 1] = IF s[m + 1] \in S THEN Append(f[m], m + 1) ELSE f[m]
      BY <1>1 DEF Place
    <2> QED
      BY <2>1, <2>2, FindsMore, FindsNoMore
  <1>4. n \in Found
    <2> HIDE DEF Found
    <2> QED
      BY <1>2, <1>3, InductionOnSet
  <1> QED
    BY <1>4 DEF f

\* The positions are those of the kept elements, all of them, in order.
LEMMA PlacesProperties ==
  ASSUME NEW T, NEW s \in Seq(T), NEW S
  PROVE  /\ Places(s, S) \in Seq(DOMAIN s)
         /\ \A i, j \in DOMAIN Places(s, S) : i < j => Places(s, S)[i] < Places(s, S)[j]
         /\ \A i \in DOMAIN Places(s, S) : s[Places(s, S)[i]] \in S
         /\ \A k \in DOMAIN s :
              s[k] \in S => \E i \in DOMAIN Places(s, S) : Places(s, S)[i] = k
  <1>1. Len(s) \in 0 .. Len(s) /\ DOMAIN s = 1 .. Len(s)
    OBVIOUS
  <1>2. Finds(Places(s, S), s, S, Len(s))
    BY <1>1, PlacesUpToProperties DEF Places
  <1> QED
    BY <1>1, <1>2 DEF Finds

\* An element more is one more place, if it is kept.
LEMMA PlacesOfAppend ==
  ASSUME NEW T, NEW s \in Seq(T), NEW e \in T, NEW S
  PROVE  Places(Append(s, e), S) =
           IF e \in S THEN Append(Places(s, S), Len(s) + 1) ELSE Places(s, S)
  <1> DEFINE t == Append(s, e)
             f == PlacesUpTo(s, S)
             g == PlacesUpTo(t, S)
             Same == {m \in Nat : m <= Len(s) => f[m] = g[m]}
  <1>1. /\ Len(s) \in Nat /\ Len(t) = Len(s) + 1
        /\ \A m \in 1 .. Len(s) : t[m] = s[m]
        /\ t[Len(s) + 1] = e
    OBVIOUS
  <1>2. /\ \A m \in 0 .. Len(s) : f[m] = Place(s, S, f, m)
        /\ \A m \in 0 .. Len(t) : g[m] = Place(t, S, g, m)
    BY <1>1, PlacesUpToDef
  <1> HIDE DEF t, f, g
  <1>3. 0 \in Same
    BY <1>1, <1>2 DEF Place
  <1>4. ASSUME NEW m \in Nat, m \in Same
        PROVE  m + 1 \in Same
    BY <1>1, <1>2, <1>4 DEF Place
  <1>5. Len(s) \in Same
    <2> HIDE DEF Same
    <2> QED
      BY <1>1, <1>3, <1>4, InductionOnSet
  <1>6. g[Len(s) + 1] = IF e \in S THEN Append(f[Len(s)], Len(s) + 1) ELSE f[Len(s)]
    BY <1>1, <1>2, <1>5 DEF Place
  <1> QED
    BY <1>1, <1>6 DEF Places, t, f, g

LEMMA KeepType ==
  ASSUME NEW T, NEW s \in Seq(T), NEW S
  PROVE  /\ Keep(s, S) \in Seq(T)
         /\ DOMAIN Keep(s, S) = DOMAIN Places(s, S)
         /\ \A i \in DOMAIN Keep(s, S) : Keep(s, S)[i] \in S
  <1> DEFINE p == Places(s, S)
  <1>1. p \in Seq(DOMAIN s) /\ \A i \in DOMAIN p : s[p[i]] \in S
    BY PlacesProperties
  <1> HIDE DEF p
  <1>2. Len(p) \in Nat /\ DOMAIN p = 1 .. Len(p) /\ \A i \in DOMAIN p : s[p[i]] \in T
    BY <1>1
  <1>3. [i \in DOMAIN p |-> s[p[i]]] \in Seq(T)
    BY <1>2
  <1> QED
    BY <1>1, <1>2, <1>3 DEF Keep, p

\* What is kept of s is what of s is in S.
LEMMA KeepRange ==
  ASSUME NEW T, NEW s \in Seq(T), NEW S
  PROVE  Range(Keep(s, S)) = Range(s) \cap S
  <1> DEFINE p == Places(s, S)
             k == Keep(s, S)
  <1>1. /\ p \in Seq(DOMAIN s)
        /\ \A i \in DOMAIN p : s[p[i]] \in S
        /\ \A j \in DOMAIN s : s[j] \in S => \E i \in DOMAIN p : p[i] = j
        /\ k = [i \in DOMAIN p |-> s[p[i]]]
    BY PlacesProperties DEF Keep
  <1> HIDE DEF p, k
  <1>2. \A i \in DOMAIN p : p[i] \in DOMAIN s
    BY <1>1
  <1>3. \A x \in Range(k) : x \in Range(s) \cap S
    BY <1>1, <1>2 DEF Range
  <1>4. \A x \in Range(s) \cap S : x \in Range(k)
    BY <1>1, <1>2 DEF Range
  <1> QED
    BY <1>3, <1>4 DEF k

LEMMA KeepOfEmpty == ASSUME NEW S PROVE Keep(<<>>, S) = <<>>
  <1>1. PlacesUpTo(<<>>, S)[0] = <<>>
    BY PlacesUpToDef DEF Place
  <1> QED
    BY <1>1 DEF Keep, Places

LEMMA KeepOfAppend ==
  ASSUME NEW T, NEW s \in Seq(T), NEW e \in T, NEW S
  PROVE  Keep(Append(s, e), S) =
           IF e \in S THEN Append(Keep(s, S), e) ELSE Keep(s, S)
  <1> DEFINE p == Places(s, S)
             t == Append(s, e)
  <1>1. p \in Seq(DOMAIN s)
    BY PlacesProperties
  <1>2. Places(t, S) = IF e \in S THEN Append(p, Len(s) + 1) ELSE p
    BY PlacesOfAppend
  <1>3. \A i \in DOMAIN s : t[i] = s[i]
    OBVIOUS
  <1>4. t[Len(s) + 1] = e /\ Len(s) \in Nat /\ DOMAIN s = 1 .. Len(s)
    OBVIOUS
  <1> HIDE DEF p, t
  <1>5. \A i \in DOMAIN p : p[i] \in DOMAIN s
    BY <1>1
  <1>6. CASE e \notin S
    BY <1>2, <1>3, <1>5, <1>6 DEF Keep, p, t
  <1>7. CASE e \in S
    <2> DEFINE l == Len(p)
               q == Append(p, Len(s) + 1)
               k == [i \in DOMAIN p |-> s[p[i]]]
               r == Append(k, e)
    <2>1. /\ l \in Nat /\ DOMAIN p = 1 .. l /\ DOMAIN q = 1 .. l + 1
          /\ \A i \in 1 .. l : q[i] = p[i]
          /\ q[l + 1] = Len(s) + 1
      BY <1>1, <1>4
    <2>2. k \in Seq(T) /\ Len(k) = l /\ \A i \in 1 .. l : k[i] = s[p[i]]
      BY <1>1, <1>5, <2>1
    <2> HIDE DEF q, k, l
    <2>3. /\ \A i \in 1 .. l : r[i] = s[p[i]]
          /\ r[l + 1] = e
          /\ r = [i \in 1 .. l + 1 |-> r[i]]
      BY <2>2, AppendParts
    <2> HIDE DEF r
    <2>4. ASSUME NEW i \in 1 .. l + 1
          PROVE  t[q[i]] = r[i]
      <3>1. CASE i = l + 1
        BY <1>4, <2>1, <2>3, <3>1
      <3>2. CASE i \in 1 .. l
        BY <1>3, <1>5, <2>1, <2>3, <3>2
      <3> QED
        BY <2>1, <3>1, <3>2
    <2>5. [i \in DOMAIN q |-> t[q[i]]] = r
      BY <2>1, <2>3, <2>4
    <2> QED
      BY <1>2, <1>7, <2>5 DEF Keep, p, t, q, k, r
  <1> QED
    BY <1>6, <1>7

\* Two sets with the same members in s keep the same of it.
LEMMA KeepSame ==
  ASSUME NEW T, NEW s \in Seq(T), NEW S, NEW R,
         \A i \in DOMAIN s : s[i] \in S <=> s[i] \in R
  PROVE  Keep(s, S) = Keep(s, R)
  <1> DEFINE f == PlacesUpTo(s, S)
             g == PlacesUpTo(s, R)
             Same == {m \in Nat : m <= Len(s) => f[m] = g[m]}
  <1>1. /\ Len(s) \in Nat /\ DOMAIN s = 1 .. Len(s)
        /\ \A m \in 0 .. Len(s) : f[m] = Place(s, S, f, m)
        /\ \A m \in 0 .. Len(s) : g[m] = Place(s, R, g, m)
    BY PlacesUpToDef
  <1> HIDE DEF f, g
  <1>2. 0 \in Same
    BY <1>1 DEF Place
  <1>3. ASSUME NEW m \in Nat, m \in Same
        PROVE  m + 1 \in Same
    BY <1>1, <1>3 DEF Place
  <1>4. Len(s) \in Same
    <2> HIDE DEF Same
    <2> QED
      BY <1>1, <1>2, <1>3, InductionOnSet
  <1> QED
    BY <1>1, <1>4 DEF Keep, Places, f, g

\* Nothing is dropped from a list that is all in S.
LEMMA KeepAll ==
  ASSUME NEW T, NEW s \in Seq(T), NEW S, Range(s) \subseteq S
  PROVE  Keep(s, S) = s
  <1> DEFINE f == PlacesUpTo(s, S)
             first(m) == [i \in 1 .. m |-> i]
             All == {m \in Nat : m <= Len(s) => f[m] = first(m)}
  <1>1. /\ Len(s) \in Nat /\ DOMAIN s = 1 .. Len(s)
        /\ \A m \in 0 .. Len(s) : f[m] = Place(s, S, f, m)
    BY PlacesUpToDef
  <1>2. \A m \in 1 .. Len(s) : s[m] \in S
    BY <1>1 DEF Range
  <1> HIDE DEF f
  <1>3. 0 \in All
    <2>1. f[0] = <<>> /\ first(0) = <<>>
      BY <1>1 DEF Place
    <2> QED
      BY <2>1
  <1>4. ASSUME NEW m \in Nat, m \in All
        PROVE  m + 1 \in All
    <2> SUFFICES ASSUME m + 1 <= Len(s) PROVE f[m + 1] = first(m + 1)
      OBVIOUS
    <2>1. f[m + 1] = Append(first(m), m + 1)
      <3>1. f[m] = first(m) /\ f[m + 1] = Place(s, S, f, m + 1) /\ s[m + 1] \in S
        BY <1>1, <1>2, <1>4
      <3> HIDE DEF first
      <3> QED
        BY <3>1 DEF Place
    <2>2. first(m) \in Seq(Nat) /\ Len(first(m)) = m /\ first(m + 1) \in Seq(Nat)
          /\ Len(first(m + 1)) = m + 1
      OBVIOUS
    <2>3. Append(first(m), m + 1) = first(m + 1)
      BY <2>2, AppendParts, SeqEqual
    <2> QED
      BY <2>1, <2>3
  <1>5. f[Len(s)] = first(Len(s))
    <2>1. Len(s) \in All
      <3> HIDE DEF All
      <3> QED
        BY <1>1, <1>3, <1>4, InductionOnSet
    <2> QED
      BY <1>1, <2>1
  <1>6. s = [i \in 1 .. Len(s) |-> s[i]]
    BY LenProperties
  <1> QED
    BY <1>1, <1>5, <1>6 DEF Keep, Places, f

-----------------------------------------------------------------------------
(* Ranges. *)

LEMMA EmptyDomain == DOMAIN <<>> = {}
  OBVIOUS

LEMMA RangeOfAppend ==
  ASSUME NEW T, NEW s \in Seq(T), NEW e \in T
  PROVE  Range(Append(s, e)) = Range(s) \cup {e}
  <1> DEFINE t == Append(s, e)
  <1>1. /\ Len(s) \in Nat /\ DOMAIN s = 1 .. Len(s)
        /\ DOMAIN t = 1 .. Len(s) + 1
        /\ \A i \in 1 .. Len(s) : t[i] = s[i]
        /\ t[Len(s) + 1] = e
    BY AppendParts
  <1> HIDE DEF t
  <1>2. \A x \in Range(s) : x \in Range(t)
    BY <1>1 DEF Range
  <1>3. e \in Range(t)
    BY <1>1 DEF Range
  <1>4. \A x \in Range(t) : x \in Range(s) \cup {e}
    BY <1>1 DEF Range
  <1> QED
    BY <1>2, <1>3, <1>4 DEF t

LEMMA RangeOfSubSeq ==
  ASSUME NEW T, NEW s \in Seq(T), NEW n \in 0 .. Len(s)
  PROVE  /\ SubSeq(s, 1, n) \in Seq(T)
         /\ Len(SubSeq(s, 1, n)) = n
         /\ \A i \in 1 .. n : SubSeq(s, 1, n)[i] = s[i]
         /\ Range(SubSeq(s, 1, n)) \subseteq Range(s)
  <1> DEFINE t == SubSeq(s, 1, n)
  <1>1. Len(s) \in Nat /\ DOMAIN s = 1 .. Len(s) /\ n \in Nat
    OBVIOUS
  <1>2. t \in Seq(T) /\ Len(t) = n /\ \A i \in 1 .. n : t[i] = s[i]
    BY <1>1
  <1> HIDE DEF t
  <1>3. DOMAIN t = 1 .. n
    BY <1>2
  <1>4. Range(t) \subseteq Range(s)
    BY <1>1, <1>2, <1>3 DEF Range
  <1> QED
    BY <1>2, <1>4 DEF t
-----------------------------------------------------------------------------
(* Lists that grow by one. *)

\* A prefix one longer.
LEMMA NextPrefix ==
  ASSUME NEW T, NEW s \in Seq(T), NEW n \in DOMAIN s
  PROVE  /\ SubSeq(s, 1, n) = Append(SubSeq(s, 1, n - 1), s[n])
         /\ SubSeq(s, 1, n - 1) \in Seq(T)
         /\ s[n] \in T
  <1> DEFINE p == SubSeq(s, 1, n - 1)
             q == SubSeq(s, 1, n)
             a == Append(p, s[n])
  <1>1. /\ Len(s) \in Nat /\ n \in 1 .. Len(s) /\ s[n] \in T
        /\ p \in Seq(T) /\ Len(p) = n - 1 /\ \A i \in 1 .. n - 1 : p[i] = s[i]
        /\ q \in Seq(T) /\ Len(q) = n /\ \A i \in 1 .. n : q[i] = s[i]
    OBVIOUS
  <1> HIDE DEF p, q
  <1>2. /\ a \in Seq(T) /\ Len(a) = n
        /\ \A i \in 1 .. n - 1 : a[i] = s[i]
        /\ a[n] = s[n]
    BY <1>1, AppendParts
  <1> HIDE DEF a
  <1>3. q = a
    <2>1. \A i \in 1 .. n : i = n \/ i \in 1 .. n - 1
      BY <1>1
    <2>2. \A i \in 1 .. n : q[i] = a[i]
      BY <1>1, <1>2, <2>1
    <2>3. Len(q) = Len(a) /\ 1 .. Len(q) = 1 .. n
      BY <1>1, <1>2
    <2> QED
      BY <1>1, <1>2, <2>2, <2>3, SeqEqual
  <1> QED
    BY <1>1, <1>3 DEF a, p, q

\* The keys of an appended list are those of the list and one more.
LEMMA MapOfAppend ==
  ASSUME NEW T, NEW s \in Seq(T), NEW e \in T
  PROVE  LET keys(t) == [i \in DOMAIN t |-> t[i].key]
         IN  keys(Append(s, e)) = Append(keys(s), e.key)
  <1> DEFINE l == Len(s)
             t == Append(s, e)
             keys == [i \in DOMAIN s |-> s[i].key]
             K == {x.key : x \in T}
             a == Append(keys, e.key)
             b == [i \in DOMAIN t |-> t[i].key]
  <1>1. /\ l \in Nat /\ DOMAIN s = 1 .. l /\ DOMAIN t = 1 .. l + 1
        /\ \A i \in 1 .. l : t[i] = s[i] /\ s[i] \in T
        /\ t[l + 1] = e
    BY AppendParts
  <1> HIDE DEF t, l
  <1>2. keys \in Seq(K) /\ Len(keys) = l /\ \A i \in 1 .. l : keys[i] = s[i].key
    BY <1>1
  <1> HIDE DEF keys
  <1>3. e.key \in K
    OBVIOUS
  <1> HIDE DEF K
  <1>4. /\ \A i \in 1 .. l : a[i] = s[i].key
        /\ a[l + 1] = e.key
        /\ a = [i \in 1 .. l + 1 |-> a[i]]
    BY <1>2, <1>3, AppendParts
  <1> HIDE DEF a
  <1>5. ASSUME NEW i \in 1 .. l + 1 PROVE a[i] = t[i].key
    <2>1. i = l + 1 \/ i \in 1 .. l
      BY <1>1
    <2> QED
      BY <1>1, <1>4, <2>1
  <1>6. b = a
    BY <1>1, <1>4, <1>5
  <1> QED
    BY <1>6 DEF a, keys, t

\* A function on 1 .. n is a list of length n.
LEMMA FunctionIsList ==
  ASSUME NEW n \in Nat, NEW f, DOMAIN f = 1 .. n, f = [i \in 1 .. n |-> f[i]]
  PROVE  f \in Seq(Range(f)) /\ Len(f) = n
  <1>1. \A i \in 1 .. n : f[i] \in Range(f)
    BY DEF Range
  <1>2. f \in [1 .. n -> Range(f)]
    BY <1>1
  <1> QED
    BY <1>2

-----------------------------------------------------------------------------
(* Lists of lists. *)

\* One step of the recursion of FlattenSeq.
Glued(s, f, i) == IF i = 1 THEN s[i] ELSE f[i - 1] \o s[i]

LEMMA FlattenDef ==
  ASSUME NEW s, Len(s) \in Nat, Len(s) # 0
  PROVE  \E f : /\ f = [i \in 1 .. Len(s) |-> Glued(s, f, i)]
                /\ FlattenSeq(s) = f[Len(s)]
  <1> DEFINE Solution(m, f) == f = [i \in 1 .. m |-> Glued(s, f, i)]
             Solvable == {m \in Nat : \E f : Solution(m, f)}
  <1>1. 0 \in Solvable
    <2>1. Solution(0, [i \in 1 .. 0 |-> i])
      OBVIOUS
    <2> QED
      BY <2>1
  <1>2. ASSUME NEW m \in Nat, m \in Solvable
        PROVE  m + 1 \in Solvable
    <2>1. PICK f : Solution(m, f)
      BY <1>2
    <2> DEFINE g == [i \in 1 .. m + 1 |-> IF i = m + 1 THEN Glued(s, f, i) ELSE f[i]]
    <2>2. \A i \in 1 .. m : g[i] = f[i] /\ f[i] = Glued(s, f, i)
      BY <2>1
    <2>3. \A i \in 1 .. m + 1 : Glued(s, g, i) = Glued(s, f, i)
      BY <2>2 DEF Glued
    <2>4. \A i \in 1 .. m + 1 : g[i] = Glued(s, g, i)
      BY <2>2, <2>3
    <2>5. g = [i \in 1 .. m + 1 |-> g[i]]
      OBVIOUS
    <2>6. Solution(m + 1, g)
      <3> HIDE DEF g
      <3> QED
        BY <2>4, <2>5
    <2> HIDE DEF g
    <2> QED
      BY <2>6
  <1>3. Len(s) \in Solvable
    <2> HIDE DEF Solvable
    <2> QED
      BY <1>1, <1>2, InductionOnSet
  <1> QED
    BY <1>3 DEF FlattenSeq, Glued

LEMMA FlattenEmpty == FlattenSeq(<<>>) = <<>>
  BY DEF FlattenSeq

LEMMA FlattenAppend ==
  ASSUME NEW T, NEW s \in Seq(Seq(T)), NEW x \in Seq(T)
  PROVE  FlattenSeq(Append(s, x)) = FlattenSeq(s) \o x
  <1> DEFINE l == Len(s)
             u == Append(s, x)
  <1>1. /\ l \in Nat /\ DOMAIN s = 1 .. l /\ u \in Seq(Seq(T)) /\ Len(u) = l + 1
        /\ \A i \in 1 .. l : u[i] = s[i]
        /\ u[l + 1] = x
    BY AppendParts
  <1> HIDE DEF u
  <1>2. PICK g : g = [i \in 1 .. Len(u) |-> Glued(u, g, i)] /\ FlattenSeq(u) = g[Len(u)]
    BY <1>1, FlattenDef
  <1>3. \A i \in 1 .. l + 1 : g[i] = Glued(u, g, i)
    BY <1>1, <1>2
  <1>4. FlattenSeq(u) = g[l + 1]
    BY <1>1, <1>2
  <1>5. CASE l = 0
    <2>1. s = <<>> /\ FlattenSeq(s) = <<>>
      BY <1>1, <1>5, FlattenEmpty
    <2>2. g[1] = x
      BY <1>1, <1>3, <1>5 DEF Glued
    <2>3. <<>> \o x = x
      OBVIOUS
    <2> QED
      BY <1>4, <1>5, <2>1, <2>2, <2>3 DEF u
  <1>6. CASE l # 0
    <2>1. PICK f : f = [i \in 1 .. l |-> Glued(s, f, i)] /\ FlattenSeq(s) = f[l]
      BY <1>1, <1>6, FlattenDef
    <2>2. \A i \in 1 .. l : f[i] = Glued(s, f, i)
      BY <2>1
    <2> DEFINE Same == {m \in Nat : m \in 1 .. l => f[m] = g[m]}
    <2>3. 0 \in Same
      OBVIOUS
    <2>4. ASSUME NEW m \in Nat, m \in Same PROVE m + 1 \in Same
      <3> SUFFICES ASSUME m + 1 \in 1 .. l PROVE f[m + 1] = g[m + 1]
        OBVIOUS
      <3>1. f[m + 1] = Glued(s, f, m + 1) /\ g[m + 1] = Glued(u, g, m + 1) /\ u[m + 1] = s[m + 1]
        BY <1>1, <1>3, <2>2
      <3>2. (m + 1) - 1 = m /\ (m + 1 # 1 => m \in 1 .. l)
        OBVIOUS
      <3>3. m + 1 # 1 => f[m] = g[m]
        BY <2>4, <3>2
      <3> QED
        BY <3>1, <3>2, <3>3 DEF Glued
    <2>5. Nat \subseteq Same
      <3> HIDE DEF Same
      <3> QED
        BY <2>3, <2>4, InductionOnSet
    <2>6. f[l] = g[l]
      BY <1>1, <1>6, <2>5
    <2>7. g[l + 1] = Glued(u, g, l + 1) /\ (l + 1) - 1 = l /\ l + 1 # 1
      BY <1>1, <1>3, <1>6
    <2>8. g[l + 1] = g[l] \o x
      BY <1>1, <2>7 DEF Glued
    <2> QED
      BY <1>4, <2>1, <2>6, <2>8 DEF u
  <1> QED
    BY <1>5, <1>6
=============================================================================
