------------------------------ MODULE Sidecar ------------------------------
(***************************************************************************)
(* Files kept beside the vault, one for each receipt: the timestamp tokens *)
(* of "dontlie anchor" (dontlie/anchor.py) and the OpenTimestamps proofs   *)
(* of "dontlie ots" (dontlie/ots.py).  Commands overlap and die, receipts  *)
(* are deleted, and the ots tool of another project completes a proof in   *)
(* place.                                                                  *)
(*                                                                         *)
(* Abstracted: a token is whether it was granted, and the digest; a proof  *)
(* is how far it has come, and the digest.                                 *)
(***************************************************************************)
EXTENDS Ledger

CONSTANTS
  Command,      \* processes that run a command
  Absent,       \* there is no such file
  Emptied,      \* a file that was opened for writing and not written
  MaxCommands   \* bound: commands each process runs

\* How far a token or a proof has come, and of what.
Content(state, i) == [state |-> state, digest |-> <<"sha", i>>]

ASSUME SidecarAssumption ==
  \A state \in {"granted", "denied", "pending", "bitcoin"}, i \in 1..MaxId :
    Content(state, i) \notin {Absent, Emptied}

VARIABLES
  tsr,          \* receipt-<id>.tsr, by receipt
  ots,          \* receipt-<id>.ots, by receipt
  command,      \* the state of each process
  completed     \* history: proofs completed, and not created again since

sidecarVars == <<tsr, ots, command, completed>>

-----------------------------------------------------------------------------
NoCommand == [pc |-> "none", id |-> 0, content |-> Absent, runs |-> 0, status |-> Absent]

SidecarInit ==
  /\ tsr = [i \in 1..MaxId |-> Absent]
  /\ ots = [i \in 1..MaxId |-> Absent]
  /\ command = [c \in Command |-> NoCommand]
  /\ completed = {}

CommandAt(c, pc) == command[c].pc = pc
CommandBecomes(c, state) == command' = [command EXCEPT ![c] = state]

GetReceipt(i) == \E n \in Namespaces : \E j \in DOMAIN chain[n] : chain[n][j] = i

\* A command ends with a status, what it held is gone.
Exits(c, status) ==
  CommandBecomes(c, [NoCommand EXCEPT !.runs = command[c].runs, !.status = status])

\* anchor, create_pending: the receipt must be there.
BeginCommand(c, pc, i) ==
  /\ CommandAt(c, "none") /\ command[c].runs < MaxCommands
  /\ LET run == [NoCommand EXCEPT !.runs = command[c].runs + 1]
     IN  CommandBecomes(c, IF GetReceipt(i) THEN [run EXCEPT !.pc = pc, !.id = i]
                           ELSE [run EXCEPT !.status = 1])
  /\ UNCHANGED <<tsr, ots, completed>>

\* _post_tsa: an error, or an answer, which nobody looks at: it is stored also
\* if the authority did not grant the request.
PostTsa(c) ==
  /\ CommandAt(c, "post")
  /\ \/ Exits(c, 1)
     \/ \E state \in {"granted", "denied"} :
          CommandBecomes(c, [command[c] EXCEPT !.pc = "opentsr",
                               !.content = Content(state, command[c].id)])
  /\ UNCHANGED <<tsr, ots, completed>>

\* write_bytes: open, which empties the file, and write.
OpenTsr(c) ==
  /\ CommandAt(c, "opentsr")
  /\ tsr' = [tsr EXCEPT ![command[c].id] = Emptied]
  /\ CommandBecomes(c, [command[c] EXCEPT !.pc = "writetsr"])
  /\ UNCHANGED <<ots, completed>>

WriteTsr(c) ==
  /\ CommandAt(c, "writetsr")
  /\ tsr' = [tsr EXCEPT ![command[c].id] = command[c].content]
  /\ Exits(c, 0)
  /\ UNCHANGED <<ots, completed>>

\* create_pending, whether or not there is a proof already.
OpenOts(c) ==
  /\ CommandAt(c, "openots")
  /\ ots' = [ots EXCEPT ![command[c].id] = Emptied]
  /\ completed' = completed \ {command[c].id}
  /\ CommandBecomes(c, [command[c] EXCEPT !.pc = "writeots"])
  /\ UNCHANGED tsr

WritePending(c) ==
  /\ CommandAt(c, "writeots")
  /\ ots' = [ots EXCEPT ![command[c].id] = Content("pending", command[c].id)]
  /\ completed' = completed \ {command[c].id}
  /\ Exits(c, 0)
  /\ UNCHANGED tsr

\* ots upgrade: the other tool completes a pending proof in place, or there is
\* no tool, no file, an error or a timeout, and the file is as it was.
UpgradeOts(c, i) ==
  /\ CommandAt(c, "none") /\ command[c].runs < MaxCommands
  /\ LET run == [NoCommand EXCEPT !.runs = command[c].runs + 1]
     IN  \/ /\ ots[i] = Content("pending", i)
            /\ ots' = [ots EXCEPT ![i] = Content("bitcoin", i)]
            /\ completed' = completed \cup {i}
            /\ CommandBecomes(c, [run EXCEPT !.status = 0])
         \/ /\ CommandBecomes(c, [run EXCEPT !.status = 1])
            /\ UNCHANGED <<ots, completed>>
  /\ UNCHANGED tsr

KillCommand(c) ==
  /\ ~CommandAt(c, "none")
  /\ Exits(c, 1)
  /\ UNCHANGED <<tsr, ots, completed>>

SidecarNext ==
  \E c \in Command :
    \/ \E i \in 1..MaxId, pc \in {"post", "openots"} : BeginCommand(c, pc, i)
    \/ PostTsa(c) \/ OpenTsr(c) \/ WriteTsr(c) \/ OpenOts(c) \/ WritePending(c)
    \/ \E i \in 1..MaxId : UpgradeOts(c, i)
    \/ KillCommand(c)

-----------------------------------------------------------------------------
\* What a file beside the vault says is about the receipt it is named after,
\* also after the receipt is gone; a receipt that was never issued has none;
\* and a proof that was completed stays complete until somebody creates it
\* again, which loses it.
SidecarsMatch ==
  \A i \in 1..MaxId :
    /\ \A file \in {tsr[i], ots[i]} \ {Absent, Emptied} : file.digest = <<"sha", i>>
    /\ i > issued => {tsr[i], ots[i]} = {Absent}
    /\ i \in completed => ots[i] = Content("bitcoin", i)
=============================================================================
