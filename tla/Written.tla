------------------------------ MODULE Written ------------------------------
(***************************************************************************)
(* What programs that call storage.append in their own process share: the  *)
(* receipts in the order of their ids.  A receipt is who wrote it and what *)
(* it says; its place in the list is its id.  Vault has the table itself.  *)
(***************************************************************************)
EXTENDS Naturals, Sequences

CONSTANTS
  MaxWritten    \* bound: receipts

VARIABLES
  written       \* the receipts

WrittenInit == written = <<>>

\* storage.append: the next id.
AppendWritten(receipt) ==
  /\ Len(written) < MaxWritten
  /\ written' = Append(written, receipt)

Receipt(by, says) == [by |-> by, says |-> says]

\* Another program appends.
SomebodyAppends == AppendWritten(Receipt("somebody", "something"))

WrittenBy(by) == {i \in DOMAIN written : written[i].by = by}
=============================================================================
