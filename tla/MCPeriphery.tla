---------------------------- MODULE MCPeriphery ----------------------------
(* Instances of Periphery for TLC.  Its parts are never at work together,   *)
(* so they may share the names of processes and of values.                  *)
EXTENDS Periphery, TLC

Symmetric == Permutations(Editor) \cup Permutations(Models)

\* The integers at which CBOR's forms change, and one of each inside.
Integers == {0, 1, 23, 24, 255, 256, 65535, 65536, 16777216, 2147483647,
             -1, -8, -24, -25, -256, -257, -65537}

\* Every service of the table has the same static certificate here.
OneUrl == [t \in Tsa |-> CHOOSE u \in TsaUrl : TRUE]
=============================================================================
