------------------------------- MODULE Filters -------------------------------
(***************************************************************************)
(* What the adapters do with a list and a set of excluded or hidden names: *)
(* go through the list once and keep what is not in the set, in its order. *)
(* The set is a parameter, not an operator, and the recursion a function,  *)
(* so that FilterProofs can say what they return.                          *)
(***************************************************************************)
EXTENDS Integers, Sequences

\* For each n, the positions up to n at which a member of S stands in s.
PlacesUpTo(s, S) ==
  LET places[n \in 0 .. Len(s)] ==
        IF n = 0 THEN <<>>
        ELSE IF s[n] \in S THEN Append(places[n - 1], n)
        ELSE places[n - 1]
  IN  places

\* The positions at which a member of S stands in s, in order.
Places(s, S) == PlacesUpTo(s, S)[Len(s)]

\* The members of S that stand in s, in order.
Keep(s, S) ==
  LET places == Places(s, S) IN [i \in DOMAIN places |-> s[places[i]]]
=============================================================================
