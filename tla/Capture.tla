------------------------------ MODULE Capture ------------------------------
(***************************************************************************)
(* Passive capture (onboard/runtime.py): inside a host program the request *)
(* methods of the SDKs are wrapped, and each wrapper signs a receipt when  *)
(* its call or stream is over.  Host threads run at the same time; to      *)
(* record, a thread points the global storage.DB_PATH at the project's     *)
(* vault and back.  Whatever goes wrong in recording stays invisible to    *)
(* the host ("fail-open").                                                 *)
(*                                                                         *)
(* Abstracted: one SDK method that calls no other wrapped one; synchronous *)
(* and asynchronous wrappers are alike, since recording never awaits;      *)
(* answers are numbers of chunks.  A thread makes one call.  A failing     *)
(* append stands for every exception on the way to the vault, the key's    *)
(* included.  A stream that is finished yields nothing more.               *)
(***************************************************************************)
EXTENDS Naturals, Sequences

CONSTANTS
  Thread,       \* threads of the host program, one call each
  MaxPieces,    \* bound: chunks of a stream
  Nobody        \* the lock is free

ASSUME CaptureAssumption == MaxPieces \in Nat \ {0} /\ Nobody \notin Thread

VARIABLES
  layers,       \* wrappers around the SDK method
  dbPath,       \* storage.DB_PATH: "host" or "project"
  holder,       \* who holds _RECORD_LOCK
  thread,       \* what each thread does
  captured      \* the receipts it has signed

captureVars == <<layers, dbPath, holder, thread, captured>>

-----------------------------------------------------------------------------
\* said: how the call or stream ended; heard: what the host has seen of that;
\* left: wrappers that have not recorded yet; then: where they go afterwards.
Unborn == [pc |-> "new", stream |-> FALSE, wrapped |-> FALSE, left |-> 0, pieces |-> 0,
           said |-> "none", heard |-> "none", finished |-> FALSE,
           outcome |-> "none", then |-> "none", old |-> "none", failed |-> FALSE]

CaptureInit ==
  /\ layers = 0
  /\ dbPath = "host"
  /\ holder = Nobody
  /\ thread = [t \in Thread |-> Unborn]
  /\ captured = <<>>

Is(t, pc) == thread[t].pc = pc
Becomes(t, state) == thread' = [thread EXCEPT ![t] = state]

\* Fault variant: the mark on wrapped methods is not looked at.
PatchAgain ==
  /\ layers < 2
  /\ layers' = layers + 1
  /\ UNCHANGED <<dbPath, holder, thread, captured>>

\* patch_loaded_modules, after every import of an SDK module and under its own
\* lock: a method that has the mark of a wrapper is left as it is.
Patch ==
  /\ layers = 0
  /\ layers' = 1
  /\ UNCHANGED <<dbPath, holder, thread, captured>>

-----------------------------------------------------------------------------
(* The host's call *)

\* On to pc; at the end of the call the host sees how it went.
GoOn(state, pc) ==
  [state EXCEPT !.pc = pc, !.heard = IF pc = "over" THEN state.said ELSE @]

\* Each wrapper records, then the thread goes on.
Record(t, state, outcome, then) ==
  Becomes(t, IF state.left = 0 THEN GoOn(state, then)
             ELSE [state EXCEPT !.pc = "acquire", !.outcome = outcome, !.then = then])

CallSDK(t, stream) ==
  /\ Is(t, "new")
  /\ Becomes(t, [Unborn EXCEPT !.pc = "provider", !.stream = stream,
                            !.wrapped = layers > 0, !.left = layers])
  /\ UNCHANGED <<layers, dbPath, holder, captured>>

\* The provider raises: recorded as an error, then raised again.
ProviderRaises(t) ==
  /\ Is(t, "provider")
  /\ Record(t, [thread[t] EXCEPT !.said = "raised", !.finished = TRUE], "error", "over")
  /\ UNCHANGED <<layers, dbPath, holder, captured>>

\* It returns: a result is recorded, a stream is given to the host in a proxy.
ProviderReturns(t) ==
  /\ Is(t, "provider")
  /\ IF thread[t].stream
     THEN Becomes(t, [thread[t] EXCEPT !.pc = "stream"])
     ELSE Record(t, [thread[t] EXCEPT !.said = "returned", !.pieces = 1, !.finished = TRUE],
                 "success", "over")
  /\ UNCHANGED <<layers, dbPath, holder, captured>>

\* __next__ of the proxy.
NextPiece(t) ==
  /\ Is(t, "stream") /\ ~thread[t].finished
  /\ thread[t].pieces < MaxPieces
  /\ Becomes(t, [thread[t] EXCEPT !.pieces = @ + 1])
  /\ UNCHANGED <<layers, dbPath, holder, captured>>

\* Fault variant: _finish does not remember that it was called.
FinishEachTime(t, said, outcome) ==
  Record(t, [thread[t] EXCEPT !.said = said, !.left = layers], outcome, "stream")

\* _finish, once per stream: the first of the end of the iteration, an error in
\* it or in the host's with block, the end of that block, and close().
Finish(t, said, outcome) ==
  IF thread[t].finished THEN UNCHANGED thread
  ELSE Record(t, [thread[t] EXCEPT !.said = said, !.finished = TRUE], outcome, "stream")

StreamEnds(t) ==
  /\ Is(t, "stream") /\ thread[t].said = "none"
  /\ Finish(t, "returned", "success")
  /\ UNCHANGED <<layers, dbPath, holder, captured>>

StreamRaises(t) ==
  /\ Is(t, "stream") /\ thread[t].said = "none"
  /\ Finish(t, "raised", "error")
  /\ UNCHANGED <<layers, dbPath, holder, captured>>

\* close() or the end of the with block, early or after the end; when the close
\* of the SDK raises, what was read is still recorded as a success.
CloseStream(t, said) ==
  /\ Is(t, "stream")
  /\ Finish(t, said, "success")
  /\ UNCHANGED <<layers, dbPath, holder, captured>>

\* The host is done with the stream, or forgets it half-way.
LeaveStream(t) ==
  /\ Is(t, "stream")
  /\ Becomes(t, GoOn(thread[t], "over"))
  /\ UNCHANGED <<layers, dbPath, holder, captured>>

-----------------------------------------------------------------------------
(* _append_receipt *)

\* Fault variant: no lock around the swap.
AcquireAnyway(t) ==
  /\ Is(t, "acquire")
  /\ Becomes(t, [thread[t] EXCEPT !.pc = "swap", !.old = dbPath])
  /\ UNCHANGED <<layers, dbPath, holder, captured>>

\* with _RECORD_LOCK: old_path = storage.DB_PATH
Acquire(t) ==
  /\ Is(t, "acquire") /\ holder = Nobody
  /\ holder' = t
  /\ Becomes(t, [thread[t] EXCEPT !.pc = "swap", !.old = dbPath])
  /\ UNCHANGED <<layers, dbPath, captured>>

SwapPath(t) ==
  /\ Is(t, "swap")
  /\ dbPath' = "project"
  /\ Becomes(t, [thread[t] EXCEPT !.pc = "append"])
  /\ UNCHANGED <<layers, holder, captured>>

\* storage.append connects to whatever DB_PATH says now.
AppendCaptured(t) ==
  /\ Is(t, "append")
  /\ captured' = Append(captured, [by |-> t, vault |-> dbPath, pieces |-> thread[t].pieces,
                                   outcome |-> thread[t].outcome])
  /\ Becomes(t, [thread[t] EXCEPT !.pc = "restore"])
  /\ UNCHANGED <<layers, dbPath, holder>>

\* Fault variant: an exception leaves with the lock held and the path swapped.
FailWithoutFinally(t) ==
  /\ Is(t, "append")
  /\ Becomes(t, GoOn([thread[t] EXCEPT !.failed = TRUE, !.left = 0], thread[t].then))
  /\ UNCHANGED <<layers, dbPath, holder, captured>>

\* Fault variant: what append raises reaches the host.
FailClosed(t) ==
  /\ Is(t, "append")
  /\ dbPath' = thread[t].old /\ holder' = Nobody
  /\ Becomes(t, [thread[t] EXCEPT !.pc = "over", !.failed = TRUE, !.heard = "raised"])
  /\ UNCHANGED <<layers, captured>>

\* load, generate or append raises; the exception is swallowed further up.
FailToRecord(t) ==
  /\ Is(t, "append")
  /\ Becomes(t, [thread[t] EXCEPT !.pc = "restore", !.failed = TRUE])
  /\ UNCHANGED <<layers, dbPath, holder, captured>>

\* finally: DB_PATH as it was; the lock is released.
RestorePath(t) ==
  /\ Is(t, "restore")
  /\ dbPath' = thread[t].old
  /\ holder' = Nobody
  /\ LET rest == [thread[t] EXCEPT !.left = @ - 1, !.old = "none"]
     IN  Record(t, rest, rest.outcome, rest.then)
  /\ UNCHANGED <<layers, captured>>

RecordStep(t) ==
  \/ Acquire(t) \/ SwapPath(t) \/ AppendCaptured(t) \/ FailToRecord(t) \/ RestorePath(t)

HostStep(t) ==
  \/ \E stream \in BOOLEAN : CallSDK(t, stream)
  \/ ProviderRaises(t) \/ ProviderReturns(t)
  \/ NextPiece(t) \/ StreamEnds(t) \/ StreamRaises(t) \/ LeaveStream(t)
  \/ \E said \in {"returned", "close raised"} : CloseStream(t, said)

CaptureNext == Patch \/ \E t \in Thread : HostStep(t) \/ RecordStep(t)

-----------------------------------------------------------------------------
(* Properties *)

Ending == {"none", "returned", "raised", "close raised"}

HostThread ==
  [pc : {"new", "provider", "stream", "acquire", "swap", "append", "restore", "over"},
   stream : BOOLEAN, wrapped : BOOLEAN, left : 0..1, pieces : 0..MaxPieces,
   said : Ending, heard : Ending, finished : BOOLEAN,
   outcome : {"none", "success", "error"}, then : {"none", "stream", "over"},
   old : {"none", "host", "project"}, failed : BOOLEAN]

CapturedReceipt ==
  [by : Thread, vault : {"host", "project"}, pieces : 0..MaxPieces,
   outcome : {"success", "error"}]

\* Types of the threads and of what they share.
CaptureTypeOK ==
  /\ layers \in 0..1
  /\ dbPath \in {"host", "project"}
  /\ holder \in Thread \cup {Nobody}
  /\ thread \in [Thread -> HostThread]
  /\ captured \in Seq(CapturedReceipt)

\* DB_PATH is the host's, except while a thread is between its swap and its
\* restore: whatever fails on the way, and however threads overlap, the host's
\* own use of the vault is not redirected for good.
PathRestored ==
  dbPath # "host" => \E t \in Thread : thread[t].pc \in {"append", "restore"}

\* Captured receipts go to the project's vault, never to the one the host has
\* chosen, although threads swap one global back and forth.
CapturedInProject == \A k \in DOMAIN captured : captured[k].vault = "project"

CapturedBy(t) == {k \in DOMAIN captured : captured[k].by = t}

\* Every wrapped call that ended, and every stream that ended, failed or was
\* closed, leaves one receipt, of what the host consumed, unless recording
\* failed; no call leaves two, however often its stream is finished.
OneReceiptPerCall ==
  \A t \in Thread :
    LET mine == CapturedBy(t)
    IN  /\ \A k, l \in mine : k = l
        /\ thread[t].pc \in {"stream", "over"} /\ thread[t].finished /\ thread[t].wrapped
             => mine # {} \/ thread[t].failed
        /\ \A k \in mine : captured[k].pieces = thread[t].pieces
                           /\ (captured[k].outcome = "error") = (thread[t].said = "raised")

\* The host sees what the provider did, whatever happens to the recording
\* ("never on the user's provider-call failure path").
HostUndisturbed ==
  \A t \in Thread : Is(t, "over") => thread[t].heard = thread[t].said

\* A thread that records is given back to the host: no exception leaves the
\* lock behind for the others to wait on.
RecordingEnds ==
  \A t \in Thread : Is(t, "acquire") ~> (Is(t, "stream") \/ Is(t, "over"))
=============================================================================
