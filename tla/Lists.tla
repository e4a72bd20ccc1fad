------------------------------- MODULE Lists -------------------------------
(* Going through a list, sorting one and leaving things out of it.  The     *)
(* community modules have these by recursion over operators, about which    *)
(* nothing can be proved; here a loop is a list of functions, each of which *)
(* makes the next state of it, and a place is found by its rank.            *)
EXTENDS Naturals, Sequences, FiniteSets

\* Where seq has what is not in set.
Places(seq, set) == {j \in DOMAIN seq : seq[j] \notin set}

\* The k-th of a set of places.
Nth(places, k) == CHOOSE j \in places : Cardinality({i \in places : i <= j}) = k

\* The elements of seq that are not in set, in their order.
Omitting(seq, set) ==
  [k \in 1..Cardinality(Places(seq, set)) |-> seq[Nth(Places(seq, set), k)]]

\* The elements of a set, ordered by the pairs of which the first goes first.
Sorted(S, before) ==
  [k \in 1..Cardinality(S) |->
     CHOOSE x \in S : Cardinality({y \in S : <<y, x>> \in before}) = k - 1]

\* What a loop makes of a state: turns[k] says what its k-th turn does.
Looped(turns, state) ==
  LET after[k \in 0..Len(turns)] == IF k = 0 THEN state ELSE turns[k][after[k - 1]]
  IN  after[Len(turns)]
=============================================================================
