------------------------------ MODULE Readers ------------------------------
(* The readers of the vault side by side: tail, prove, and whoever appends  *)
(* to the vault or deletes from it.  The readers share nothing but the      *)
(* vault, which they do not change.                                         *)
EXTENDS Tail, Packet

readersVars == <<chain, issued, tail, dropped, outdir, build>>

ReadersInit == LedgerInit /\ TailInit /\ PacketInit

VaultStep ==
  \E n \in Namespaces :
    \/ Extend(n) /\ UNCHANGED tailVars
    \/ Drop(n) /\ chain[n] # <<>> /\ NoteDrop(n)

ReadersNext ==
  \/ VaultStep /\ UNCHANGED packetVars
  \/ \E f \in Follower : TailStep(f) /\ UNCHANGED <<chain, issued, packetVars>>
  \/ \E b \in Builder : BuildStep(b) /\ UNCHANGED <<chain, issued, tailVars>>

\* A follower that is not stopped polls again and again.
ReadersSpec ==
  ReadersInit /\ [][ReadersNext]_readersVars
    /\ \A f \in Follower : WF_readersVars(Poll(f) /\ UNCHANGED <<chain, issued, packetVars>>)

=============================================================================
