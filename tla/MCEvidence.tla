----------------------------- MODULE MCEvidence -----------------------------
(* Instances of Evidence for TLC: clients, keys, namespaces are alike. *)
EXTENDS Evidence

\* A batch of all three receipts, which pads its tree, and a note on the first
\* two, which an append may follow.
BatchAndNote == {[kind |-> "batch", ids |-> {1, 2, 3}], [kind |-> "note", ids |-> {1, 2}]}

Symmetric == Permutations(Client) \cup Permutations(Keys) \cup Permutations(Namespaces)
=============================================================================
