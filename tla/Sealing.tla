------------------------------ MODULE Sealing ------------------------------
(***************************************************************************)
(* dontlie encrypt and dontlie unlock: a sealed copy of the vault's file   *)
(* beside it, and back.  The file is read as bytes, not through SQLite:    *)
(* what is committed but still in the write-ahead log is not in it.        *)
(*                                                                         *)
(* Abstracted: a vault is how many receipts it holds; a sealed copy opens  *)
(* with its passphrase, and with no other, if it is complete (AES-GCM).    *)
(***************************************************************************)
EXTENDS Naturals

CONSTANTS
  Passphrase,
  MaxCommits,   \* bound: receipts ever appended
  Gone,         \* a file that is not there
  Cut           \* a file with its end missing, or read while it was written

VARIABLES
  committed,    \* receipts in the vault, as SQLite shows it
  mainFile,     \* those of them in the vault's file
  checkpointing,\* SQLite is moving the log into the file
  box,          \* the sealed copy: Gone, Cut or its passphrase and content
  restored,     \* the file unlock writes: Gone, Cut or a number of receipts
  sealer,       \* the encrypt command
  opener        \* the unlock command

sealingVars == <<committed, mainFile, checkpointing, box, restored, sealer, opener>>

Idle == [pc |-> "idle"]

SealingInit ==
  /\ committed = 0 /\ mainFile = 0 /\ checkpointing = FALSE
  /\ box = Gone /\ restored = Gone
  /\ sealer = Idle /\ opener = Idle

-----------------------------------------------------------------------------
(* The vault, which others use *)

CommitToLog ==
  /\ committed < MaxCommits /\ committed' = committed + 1
  /\ UNCHANGED <<mainFile, checkpointing, box, restored, sealer, opener>>

Checkpoint ==
  /\ \/ ~checkpointing /\ mainFile < committed /\ checkpointing' = TRUE /\ UNCHANGED mainFile
     \/ checkpointing /\ checkpointing' = FALSE /\ mainFile' = committed
  /\ UNCHANGED <<committed, box, restored, sealer, opener>>

-----------------------------------------------------------------------------
(* dontlie encrypt *)

\* A sealed copy that is there is kept, unless --force is given.
BeginEncrypt ==
  /\ sealer.pc = "idle"
  /\ \E force \in BOOLEAN, p \in Passphrase :
       /\ box = Gone \/ force
       /\ sealer' = [pc |-> "begun", pass |-> p]
  /\ UNCHANGED <<committed, mainFile, checkpointing, box, restored, opener>>

ReadVaultFile ==
  /\ sealer.pc = "begun"
  /\ sealer' = [pc |-> "read", pass |-> sealer.pass, of |-> committed,
                got |-> IF checkpointing THEN Cut ELSE mainFile]
  /\ UNCHANGED <<committed, mainFile, checkpointing, box, restored, opener>>

\* dst.open("wb")
OpenBox ==
  /\ sealer.pc = "read"
  /\ box' = Cut
  /\ sealer' = [sealer EXCEPT !.pc = "writing"]
  /\ UNCHANGED <<committed, mainFile, checkpointing, restored, opener>>

WriteBox ==
  /\ sealer.pc = "writing"
  /\ box' = [pass |-> sealer.pass, got |-> sealer.got, of |-> sealer.of]
  /\ sealer' = Idle
  /\ UNCHANGED <<committed, mainFile, checkpointing, restored, opener>>

-----------------------------------------------------------------------------
(* dontlie unlock *)

BeginUnlock ==
  /\ opener.pc = "idle" /\ box # Gone
  /\ \E force \in BOOLEAN, p \in Passphrase :
       /\ restored = Gone \/ force
       /\ opener' = [pc |-> "begun", pass |-> p, before |-> restored]
  /\ UNCHANGED <<committed, mainFile, checkpointing, box, restored, sealer>>

\* Fault variant: the target is opened before anything was decrypted.
DecryptIntoTarget ==
  /\ opener.pc = "begun"
  /\ restored' = Cut
  /\ opener' = IF box # Cut /\ box.pass = opener.pass
               THEN [pc |-> "opened", before |-> opener.before, got |-> box.got, of |-> box.of]
               ELSE [pc |-> "failed", before |-> opener.before]
  /\ UNCHANGED <<committed, mainFile, checkpointing, box, sealer>>

\* decrypt_file: everything is decrypted before the target is touched.
Decrypt ==
  /\ opener.pc = "begun"
  /\ opener' = IF box # Cut /\ box.pass = opener.pass
               THEN [pc |-> "opened", before |-> opener.before, got |-> box.got, of |-> box.of]
               ELSE [pc |-> "failed", before |-> opener.before]
  /\ UNCHANGED <<committed, mainFile, checkpointing, box, restored, sealer>>

\* dst.write_bytes: the file is emptied, then written.
OpenTarget ==
  /\ opener.pc = "opened"
  /\ restored' = Cut
  /\ opener' = [opener EXCEPT !.pc = "writing"]
  /\ UNCHANGED <<committed, mainFile, checkpointing, box, sealer>>

WriteTarget ==
  /\ opener.pc = "writing"
  /\ restored' = opener.got
  /\ opener' = [opener EXCEPT !.pc = "done"]
  /\ UNCHANGED <<committed, mainFile, checkpointing, box, sealer>>

EndUnlock ==
  /\ opener.pc \in {"done", "failed"}
  /\ opener' = Idle
  /\ UNCHANGED <<committed, mainFile, checkpointing, box, restored, sealer>>

KillSealing ==
  /\ \/ sealer # Idle /\ sealer' = Idle /\ UNCHANGED opener
     \/ opener.pc \in {"begun", "opened", "writing"} /\ opener' = Idle /\ UNCHANGED sealer
  /\ UNCHANGED <<committed, mainFile, checkpointing, box, restored>>

SealingNext ==
  \/ CommitToLog \/ Checkpoint
  \/ BeginEncrypt \/ ReadVaultFile \/ OpenBox \/ WriteBox
  \/ BeginUnlock \/ Decrypt \/ OpenTarget \/ WriteTarget \/ EndUnlock
  \/ KillSealing

-----------------------------------------------------------------------------
\* What unlock leaves when it succeeds is what encrypt read, and that is the
\* vault up to some receipt that had been committed by then (or the file in
\* the middle of a checkpoint, Cut); when it fails, whatever was wrong with
\* the passphrase or the copy, the target is as it was before.
SealedReturns ==
  /\ opener.pc = "done" =>
       restored = opener.got /\ (restored = Cut \/ restored <= opener.of)
  /\ opener.pc = "failed" => restored = opener.before
=============================================================================
