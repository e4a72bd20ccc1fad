------------------------------- MODULE Backup -------------------------------
(***************************************************************************)
(* dontlie backup (dontlie/backup.py): copy the live vault with SQLite's   *)
(* online backup into <dst>.tmp, then rename that over <dst>.  The names   *)
(* are fixed per second (or by --dst), so two backups may share both; a    *)
(* process goes on writing to the file it opened whatever it is called by  *)
(* then, which is why names and files are kept apart here.                 *)
(***************************************************************************)
EXTENDS Ledger, FiniteSets

CONSTANTS
  Saver,        \* processes that run dontlie backup with the same dst
  Node,         \* files (inodes), numbers: as many as there can be in use
  NoNode,       \* a name that names no file
  HalfWritten   \* content of a file that is being copied into

ASSUME BackupAssumption ==
  /\ Node \subseteq Nat /\ NoNode \notin Node
  /\ IsFiniteSet(Saver) /\ IsFiniteSet(Node) /\ Cardinality(Node) > Cardinality(Saver) + 1
  /\ HalfWritten \notin [chain : [Namespaces -> Seq(1..MaxId)], issued : 0..MaxId]

VARIABLES
  tmpName,      \* the file <dst>.tmp names
  dstName,      \* the file <dst> names
  content,      \* what the files hold
  saver,        \* the state of each backup
  overlapped    \* history: two backups were under way at once

backupVars == <<tmpName, dstName, content, saver, overlapped>>

-----------------------------------------------------------------------------
NotSaving == [pc |-> "idle", node |-> NoNode, copy |-> HalfWritten]

BackupInit ==
  /\ tmpName = NoNode
  /\ dstName = NoNode
  /\ content = [d \in Node |-> HalfWritten]
  /\ saver = [p \in Saver |-> NotSaving]
  /\ overlapped = FALSE

SaverAt(p, pc) == saver[p].pc = pc
SaverBecomes(p, state) == saver' = [saver EXCEPT ![p] = state]
Unused == Node \ ({tmpName, dstName} \cup {saver[p].node : p \in Saver})
FirstUnused == CHOOSE d \in Unused : \A e \in Unused : d <= e

\* backup_vault: src_conn and dst_conn; the second creates <dst>.tmp if it is
\* not there (files are alike: it takes the first that is not in use).
OpenTmp(p) ==
  /\ SaverAt(p, "idle")
  /\ tmpName' = IF tmpName = NoNode THEN FirstUnused ELSE tmpName
  /\ SaverBecomes(p, [NotSaving EXCEPT !.pc = "opened", !.node = tmpName'])
  /\ overlapped' = (overlapped \/ \E q \in Saver \ {p} : ~SaverAt(q, "idle"))
  /\ UNCHANGED <<dstName, content>>

\* Connection.backup() begins: it has the source's read lock and the target's
\* write lock, for which it waits.  SQLite does not write to a database file
\* that was renamed since it was opened (SQLITE_READONLY_DBMOVED).
BeginCopy(p) ==
  /\ SaverAt(p, "opened") /\ saver[p].node = tmpName
  /\ \A q \in Saver : SaverAt(q, "copying") => saver[q].node # saver[p].node
  /\ content' = [content EXCEPT ![saver[p].node] = HalfWritten]
  /\ SaverBecomes(p, [saver[p] EXCEPT !.pc = "copying",
                        !.copy = [chain |-> chain, issued |-> issued]])
  /\ UNCHANGED <<tmpName, dstName, overlapped>>

EndCopy(p) ==
  /\ SaverAt(p, "copying")
  /\ content' = [content EXCEPT ![saver[p].node] = saver[p].copy]
  /\ SaverBecomes(p, [saver[p] EXCEPT !.pc = "copied"])
  /\ UNCHANGED <<tmpName, dstName, overlapped>>

\* Fault variant: the rename does not wait for the copy.
ReplaceEarly(p) ==
  /\ saver[p].pc \in {"copying", "copied"}
  /\ IF tmpName = NoNode THEN UNCHANGED <<tmpName, dstName>>
     ELSE dstName' = tmpName /\ tmpName' = NoNode
  /\ SaverBecomes(p, NotSaving)
  /\ UNCHANGED <<content, overlapped>>

\* os.replace(tmp, dst): whatever <dst>.tmp names by now; FileNotFoundError
\* if that is nothing.
Replace(p) ==
  /\ SaverAt(p, "copied")
  /\ IF tmpName = NoNode THEN UNCHANGED <<tmpName, dstName>>
     ELSE dstName' = tmpName /\ tmpName' = NoNode
  /\ SaverBecomes(p, NotSaving)
  /\ UNCHANGED <<content, overlapped>>

\* The process dies, or SQLite raises: what it wrote so far stays.
KillSaver(p) ==
  /\ ~SaverAt(p, "idle")
  /\ SaverBecomes(p, NotSaving)
  /\ UNCHANGED <<tmpName, dstName, content, overlapped>>

BackupStep(p) == OpenTmp(p) \/ BeginCopy(p) \/ EndCopy(p) \/ Replace(p) \/ KillSaver(p)

BackupNext == \E p \in Saver : BackupStep(p)

-----------------------------------------------------------------------------
(* Properties *)

Whole(name) == name = NoNode \/ content[name] # HalfWritten

\* "so partial backups never appear at dst": whatever dies halfway and is
\* started again, <dst> is a whole vault, as long as no two backups with the
\* same names overlap.
SnapshotWhole == overlapped \/ Whole(dstName)

\* The same without the exception, which the code does not guarantee.
NeverPartial == Whole(dstName)
=============================================================================
