---------------------------- MODULE MCSigningKey ----------------------------
(* Instances of SigningKey for TLC: processes and keys are interchangeable. *)
EXTENDS SigningKey, TLC

Symmetric == Permutations(Process) \cup Permutations(Keys)
=============================================================================
