---------------------------- MODULE Integration ----------------------------
(***************************************************************************)
(* dontlie.integrations.core: ActionRecorder around the tools of a host    *)
(* program, as a context manager or a decorator, or fed with events.       *)
(* Recorded calls nest, run in several threads, fail, are interrupted, or  *)
(* return a coroutine before they have done anything.                      *)
(*                                                                         *)
(* Abstracted: what a call takes and returns is the call itself; sanitizing*)
(* changes only that; a correlation id is the scope it names, or the call  *)
(* that drew it.                                                           *)
(***************************************************************************)
EXTENDS Written

CONSTANTS
  Thread,       \* threads of the host program
  MaxCalls,     \* bound: recorded calls and scopes
  MaxDepth      \* bound: how deep they nest in a thread

VARIABLES
  failureMode,  \* failure_mode of the recorder
  frames,       \* by thread: calls and scopes it is in, the innermost last
  told,         \* history: how each call ended for the host
  drawn         \* calls and scopes begun so far

integrationVars == <<failureMode, frames, told, drawn>>

-----------------------------------------------------------------------------
IntegrationInit ==
  /\ failureMode \in {"raise", "return_none"}
  /\ frames = [t \in Thread |-> <<>>]
  /\ told = <<>>
  /\ drawn = 0

Innermost(t) == frames[t][Len(frames[t])]
Popped(t) == [frames EXCEPT ![t] = SubSeq(@, 1, Len(@) - 1)]
Pushed(t, frame) == [frames EXCEPT ![t] = Append(@, frame)]

ScopesOf(t) == {d \in DOMAIN frames[t] : frames[t][d].kind = "scope"}

\* current_correlation_id: the innermost scope of this context, or a new id.
CorrelationId(t, fresh) ==
  IF ScopesOf(t) = {} THEN fresh
  ELSE frames[t][CHOOSE d \in ScopesOf(t) : \A e \in ScopesOf(t) : e <= d].cid

MayDraw(t) == drawn < MaxCalls /\ Len(frames[t]) < MaxDepth

Frame(kind, id, cid) == [kind |-> kind, id |-> id, cid |-> cid]

\* correlation_scope, entered and left.
EnterScope(t) ==
  /\ MayDraw(t)
  /\ drawn' = drawn + 1
  /\ frames' = Pushed(t, Frame("scope", drawn', drawn'))
  /\ UNCHANGED <<failureMode, told>>

LeaveScope(t) ==
  /\ frames[t] # <<>> /\ Innermost(t).kind = "scope"
  /\ frames' = Popped(t)
  /\ UNCHANGED <<failureMode, told, drawn>>

\* action, decorate: the correlation id is drawn, then the body runs.  What
\* is decorated may be a coroutine function.
BeginAction(t) ==
  /\ MayDraw(t)
  /\ drawn' = drawn + 1
  /\ \E kind \in {"call", "async"} :
       frames' = Pushed(t, Frame(kind, drawn', CorrelationId(t, drawn')))
  /\ UNCHANGED <<failureMode, told>>

Says(frame, status) == [id |-> frame.id, cid |-> frame.cid, status |-> status]
Tell(t, outcome) ==
  told' = Append(told, [id |-> Innermost(t).id, thread |-> t, outcome |-> outcome])

\* record: append, or an error (the payload cannot be serialized, the storage
\* refuses), which is raised or swallowed.  "outcome" is what the host is told
\* when record returns.
Record(t, status, outcome) ==
  \/ /\ AppendWritten(Receipt("recorder", Says(Innermost(t), status)))
     /\ Tell(t, outcome)
  \/ /\ UNCHANGED written
     /\ Tell(t, IF failureMode = "raise" THEN "RecordingError" ELSE outcome)

\* Fault variant: the action is recorded as completed, whatever becomes of it.
EndAsCompleted(t, end) ==
  /\ frames[t] # <<>> /\ Innermost(t).kind \in {"call", "async"}
  /\ \/ end = "returns" /\ Record(t, "completed", "value")
     \/ end = "raises" /\ Innermost(t).kind = "call" /\ Record(t, "completed", "error")
     \/ end = "interrupted" /\ Tell(t, "interrupted") /\ UNCHANGED written
  /\ frames' = Popped(t)
  /\ UNCHANGED <<failureMode, drawn>>

\* The body ends.  An exception is recorded and raised again; one that is not
\* an Exception (KeyboardInterrupt, a cancelled task) passes by unrecorded; a
\* coroutine function has only returned its coroutine.
EndAction(t, end) ==
  /\ frames[t] # <<>> /\ Innermost(t).kind \in {"call", "async"}
  /\ \/ end = "returns" /\ Record(t, "completed", "value")
     \/ end = "raises" /\ Innermost(t).kind = "call" /\ Record(t, "failed", "error")
     \/ end = "interrupted" /\ Tell(t, "interrupted") /\ UNCHANGED written
  /\ frames' = Popped(t)
  /\ UNCHANGED <<failureMode, drawn>>

\* callback: an event from elsewhere.  from_dict refuses one that is not well
\* formed; the receipt says what the event says.  record_action is the same
\* without the check.
HandleEvent(t, wellFormed) ==
  /\ drawn < MaxCalls
  /\ drawn' = drawn + 1
  /\ LET event == Frame("event", drawn', CorrelationId(t, drawn'))
         Ends(outcome) == told' = Append(told, [id |-> drawn', thread |-> t, outcome |-> outcome])
     IN  \/ /\ wellFormed
            /\ AppendWritten(Receipt("recorder", Says(event, "completed")))
            /\ Ends("value")
         \/ /\ UNCHANGED written
            /\ Ends(IF failureMode = "return_none" THEN "none"
                    ELSE IF wellFormed THEN "RecordingError" ELSE "TypeError")
  /\ UNCHANGED <<failureMode, frames>>

IntegrationNext ==
  \E t \in Thread :
    \/ EnterScope(t) /\ UNCHANGED written
    \/ LeaveScope(t) /\ UNCHANGED written
    \/ BeginAction(t) /\ UNCHANGED written
    \/ \E end \in {"returns", "raises", "interrupted"} : EndAction(t, end)
    \/ \E wellFormed \in BOOLEAN : HandleEvent(t, wellFormed)

-----------------------------------------------------------------------------
ReceiptsOf(id) == {i \in WrittenBy("recorder") : written[i].says.id = id}
Recorded(id, status) ==
  \E i \in ReceiptsOf(id) : ReceiptsOf(id) = {i} /\ written[i].says.status = status

\* A host that runs the recorder in its default mode knows from how a call
\* ended what the vault says about it: a value means one receipt that says
\* completed, its own error one that says failed, anything else none.  What is
\* still running has no receipt.  (Coroutine functions: "completed" says only
\* that the coroutine exists.)  The other mode never raises what is not the
\* host's own.  Receipts that share a correlation id come from one thread.
HostKnows ==
  /\ \A j \in DOMAIN told :
       LET call == told[j]
       IN  /\ failureMode = "raise" =>
                CASE call.outcome = "value" -> Recorded(call.id, "completed")
                  [] call.outcome = "error" -> Recorded(call.id, "failed")
                  [] OTHER                  -> ReceiptsOf(call.id) = {}
           /\ failureMode = "return_none" =>
                call.outcome \notin {"RecordingError", "TypeError"}
  /\ \A t \in Thread : \A d \in DOMAIN frames[t] : ReceiptsOf(frames[t][d].id) = {}
  /\ \A j, k \in DOMAIN told : \A i \in ReceiptsOf(told[j].id), h \in ReceiptsOf(told[k].id) :
       written[i].says.cid = written[h].says.cid => told[j].thread = told[k].thread
=============================================================================
