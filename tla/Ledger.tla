------------------------------- MODULE Ledger -------------------------------
(***************************************************************************)
(* What the vault promises whoever reads one namespace of it: a list of    *)
(* receipt ids that only ever grows at its end, with ids drawn from one    *)
(* counter for all namespaces, and that can only be dropped as a whole.    *)
(* Vault implements this (Vault!ImplementsLedger); modules that only need  *)
(* the promise use this one instead of the SQL.                            *)
(***************************************************************************)
EXTENDS Naturals, Sequences

CONSTANTS Namespaces, MaxId

VARIABLES
  chain,        \* chain[n]: ids of the receipts of namespace n, oldest first
  issued        \* the largest id ever issued

LedgerInit ==
  /\ chain = [n \in Namespaces |-> <<>>]
  /\ issued = 0

\* storage.append: one new receipt at the end of one namespace.
Extend(n) ==
  /\ issued < MaxId
  /\ issued' = issued + 1
  /\ chain' = [chain EXCEPT ![n] = Append(@, issued')]

\* namespace.delete: every receipt of the namespace at once.
Drop(n) ==
  /\ chain' = [chain EXCEPT ![n] = <<>>]
  /\ UNCHANGED issued

LedgerNext == \E n \in Namespaces : Extend(n) \/ Drop(n)

Spec == LedgerInit /\ [][LedgerNext]_<<chain, issued>>
=============================================================================
