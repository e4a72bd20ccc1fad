------------------------------- MODULE Proxy -------------------------------
(***************************************************************************)
(* The capturing HTTP proxy: cli.cmd_proxy (one handler thread per call)   *)
(* over dontlie/proxy.py, with the model provider upstream, the client     *)
(* downstream and the vault, of which it needs no more than Ledger says.   *)
(* An unstreamed answer is signed and then returned; a streamed one goes   *)
(* to the client chunk by chunk and is signed when it is over.             *)
(*                                                                         *)
(* Abstracted: a body is a sequence of chunks, each "text" or "odd" (valid *)
(* JSON without a first choice, such as the usage chunk of a stream);      *)
(* headers, URLs and keys are left out (no key: the upstream fails at once). *)
(***************************************************************************)
EXTENDS Ledger, FiniteSets

CONSTANTS
  Call,         \* calls a client may make, each served by its own thread
  MaxChunks,    \* bound: chunks of one streamed answer
  Faults        \* what may go wrong: some of the names in AllFaults

AllFaults == {"crash", "append", "client", "upstream"}

ASSUME ProxyAssumption ==
  /\ MaxChunks \in Nat \ {0}
  /\ Faults \subseteq AllFaults
  /\ IsFiniteSet(Call) /\ MaxId >= Cardinality(Call)   \* room for every receipt

VARIABLES
  legacy,       \* use_legacy_openai: the OpenAI path without an adapter
  call,         \* the state of each call's handler thread and client
  receipt       \* what each receipt covers: id -> [call, body]

vars == <<chain, issued, legacy, call, receipt>>

-----------------------------------------------------------------------------
Fresh == [pc |-> "new", stream |-> "no", ok |-> TRUE, body |-> <<>>, ended |-> FALSE,
          started |-> FALSE, gone |-> FALSE, answer |-> "none",
          mishap |-> FALSE]

Init ==
  /\ LedgerInit
  /\ legacy \in BOOLEAN
  /\ call = [c \in Call |-> Fresh]
  /\ receipt = [i \in {} |-> Fresh]

At(c, pc) == call[c].pc = pc
Become(c, state) == call' = [call EXCEPT ![c] = state]
Quietly == UNCHANGED <<chain, issued, legacy, receipt>>
Streaming(c) == call[c].stream # "no"

\* The thread is over and the connection closed, with this answer; nothing
\* reaches a client that has left.
Over(c, answer) ==
  [call[c] EXCEPT !.pc = "over", !.answer = IF call[c].gone THEN "none" ELSE answer]

\* An exception that do_POST handles: 502, unless the answer is under way.
Handled(c) == Over(c, IF call[c].started THEN "cut" ELSE "502")
\* One that it does not: the server closes the connection.
Unhandled(c) == Over(c, "cut")

-----------------------------------------------------------------------------
\* do_POST reads and validates the request.  An adapter takes only "stream":
\* true for a stream, do_POST anything true; the ProtocolError is not handled.
Accept(c, stream) ==
  /\ At(c, "new")
  /\ Become(c, [call[c] EXCEPT !.pc = "upstream", !.stream = stream])
  /\ Quietly

RejectRequest(c) ==
  /\ At(c, "new")
  /\ Become(c, Over(c, "400"))
  /\ Quietly

RejectStreamFlag(c) ==
  /\ At(c, "upstream") /\ call[c].stream = "truthy" /\ ~legacy
  /\ Become(c, Unhandled(c))
  /\ Quietly

MayForward(c) == At(c, "upstream") /\ (call[c].stream = "truthy" => legacy)

\* Fault variant: a connection lost in mid-stream looks like its end.
LostIsOver(c) ==
  /\ "upstream" \in Faults
  /\ At(c, "body") /\ Streaming(c)
  /\ Become(c, [call[c] EXCEPT !.pc = "extract"])
  /\ Quietly

\* httpx raises: no connection, a timeout, a connection lost in mid-answer.
UpstreamFails(c) ==
  /\ "upstream" \in Faults
  /\ MayForward(c) \/ At(c, "body")
  /\ Become(c, [Handled(c) EXCEPT !.mishap = TRUE])
  /\ Quietly

\* The provider answers with a status.  A stream is started towards the client
\* at once; if that fails there is no one to send the 502 to either.
UpstreamAnswers(c, ok) ==
  /\ MayForward(c)
  /\ \/ Become(c, [call[c] EXCEPT !.pc = "body", !.ok = ok, !.started = Streaming(c)])
     \/ /\ Streaming(c) /\ call[c].gone
        /\ Become(c, Unhandled(c))
  /\ Quietly

\* One chunk of a stream: collected, then written and flushed to the client.
\* Writing to a client that left may raise or go unnoticed.
RelayChunk(c, kind) ==
  /\ At(c, "body") /\ Streaming(c) /\ Len(call[c].body) < MaxChunks
  /\ LET got == [call[c] EXCEPT !.body = Append(@, kind)]
     IN  \/ Become(c, got)
         \/ call[c].gone /\ Become(c, [got EXCEPT !.pc = "over"])
  /\ Quietly

\* The upstream body ends.  An unstreamed one is read in one go.
BodyEnds(c) ==
  /\ At(c, "body")
  /\ \/ Streaming(c) /\ Become(c, [call[c] EXCEPT !.pc = "extract", !.ended = TRUE])
     \/ /\ ~Streaming(c)
        /\ \E kind \in {"text", "odd"} :
             Become(c, [call[c] EXCEPT !.pc = "extract", !.ended = TRUE, !.body = <<kind>>])
  /\ Quietly

\* Fault variant: the adapters trip over odd events, too.
CannotExtractAny(c) ==
  Streaming(c) /\ \E i \in DOMAIN call[c].body : call[c].body[i] = "odd"

\* _extract_assistant_text indexes the first choice of every event of a
\* successful stream and handles only JSON errors; adapters skip odd events.
CannotExtract(c) ==
  /\ legacy /\ Streaming(c) /\ call[c].ok
  /\ \E i \in DOMAIN call[c].body : call[c].body[i] = "odd"

ExtractText(c) ==
  /\ At(c, "extract")
  /\ Become(c, IF CannotExtract(c) THEN Over(c, "whole")
               ELSE [call[c] EXCEPT !.pc = "append"])
  /\ Quietly

\* storage.append: one receipt at the end of the chain, for the whole body.
Sign(c) ==
  /\ At(c, "append")
  /\ Extend("default")
  /\ receipt' = [i \in DOMAIN receipt \cup {issued'} |->
                   IF i = issued' THEN [call |-> c, body |-> call[c].body, ok |-> call[c].ok]
                   ELSE receipt[i]]
  /\ Become(c, IF Streaming(c) THEN Over(c, "whole") ELSE [call[c] EXCEPT !.pc = "answer"])
  /\ UNCHANGED legacy

\* Fault variant: storage.append has committed when it raises.
SignThenFail(c) ==
  /\ "append" \in Faults
  /\ At(c, "append")
  /\ Extend("default")
  /\ receipt' = [i \in DOMAIN receipt \cup {issued'} |->
                   IF i = issued' THEN [call |-> c, body |-> call[c].body, ok |-> call[c].ok]
                   ELSE receipt[i]]
  /\ Become(c, [Handled(c) EXCEPT !.mishap = TRUE])
  /\ UNCHANGED legacy

\* storage.append raises: OSError and RuntimeError are handled, SQLite errors
\* and ValueError are not.  A streamed answer has been delivered all the same.
SignFails(c) ==
  /\ "append" \in Faults
  /\ At(c, "append")
  /\ \E over \in IF Streaming(c) THEN {Over(c, "whole")} ELSE {Handled(c), Unhandled(c)} :
       Become(c, [over EXCEPT !.mishap = TRUE])
  /\ Quietly

\* Fault variant: the answer goes out before the receipt is written.
AnswerFirst(c) ==
  /\ At(c, "append") \/ At(c, "answer")
  /\ ~Streaming(c)
  /\ Become(c, Over(c, "whole"))
  /\ Quietly

\* Fault variant: a thread whose client has left waits for it.
ReturnAnswerIfThere(c) ==
  /\ At(c, "answer") /\ ~call[c].gone
  /\ Become(c, Over(c, "whole"))
  /\ Quietly

\* The unstreamed answer goes out, after its receipt.
ReturnAnswer(c) ==
  /\ At(c, "answer")
  /\ Become(c, Over(c, "whole"))
  /\ Quietly

\* External: the client hangs up.
ClientLeaves(c) ==
  /\ "client" \in Faults
  /\ call[c].pc \notin {"new", "over"} /\ ~call[c].gone
  /\ Become(c, [call[c] EXCEPT !.gone = TRUE])
  /\ Quietly

\* The proxy dies and all its (daemon) threads with it; it is started again
\* for later calls.
ProxyDies ==
  /\ "crash" \in Faults
  /\ \E c \in Call : call[c].pc \notin {"new", "over"}
  /\ call' = [c \in Call |-> IF call[c].pc \in {"new", "over"} THEN call[c]
                             ELSE [Unhandled(c) EXCEPT !.mishap = TRUE]]
  /\ Quietly

\* What the handler thread of c does next, as long as the upstream answers or
\* its timeout strikes.
Handle(c) ==
  \/ RejectStreamFlag(c)
  \/ UpstreamFails(c)
  \/ \E ok \in BOOLEAN : UpstreamAnswers(c, ok)
  \/ \E kind \in {"text", "odd"} : RelayChunk(c, kind)
  \/ BodyEnds(c)
  \/ ExtractText(c)
  \/ Sign(c) \/ SignFails(c)
  \/ ReturnAnswer(c)

ProxyNext ==
  \/ \E c \in Call :
       \/ \E stream \in {"no", "true", "truthy"} : Accept(c, stream)
       \/ RejectRequest(c)
       \/ Handle(c)
       \/ ClientLeaves(c)
  \/ ProxyDies

\* Threads are scheduled fairly; every wait for the upstream ends, by a chunk
\* or by httpx's timeout (a stream without end is cut off by MaxChunks).
ProxySpec == Init /\ [][ProxyNext]_vars /\ \A c \in Call : WF_vars(Handle(c))

-----------------------------------------------------------------------------
(* Properties *)

ReceiptsOf(c) == {i \in DOMAIN receipt : receipt[i].call = c}

\* A client holds a complete unstreamed answer only if a receipt of exactly
\* that answer and status is in the vault already.
AnswerIsReceipted ==
  \A c \in Call :
    call[c].answer = "whole" /\ ~Streaming(c) =>
      \E i \in ReceiptsOf(c) : receipt[i].body = call[c].body /\ receipt[i].ok = call[c].ok

\* No receipt is signed for part of an answer: a stream that the upstream lost,
\* the client left or the proxy's death cut short leaves none.
NoPartialReceipt ==
  \A i \in DOMAIN receipt :
    LET c == receipt[i].call
    IN  call[c].ended /\ receipt[i].body = call[c].body

\* A client that is told of a failure has left no receipt behind, and no call
\* leaves two: retrying after an error does not duplicate the record.
ErrorMeansNoReceipt ==
  \A c \in Call :
    /\ call[c].answer \in {"400", "502"} => ReceiptsOf(c) = {}
    /\ \A i, j \in ReceiptsOf(c) : i = j

\* Behind an adapter, a stream that reached its client whole gets its receipt,
\* unless the vault fails or the proxy dies in the moment between.
StreamGetsReceipt ==
  \A c \in Call :
    (~legacy /\ Streaming(c) /\ call[c].ended)
      ~> (ReceiptsOf(c) # {} \/ call[c].mishap)

\* Every call comes to an end, whatever upstream, client and vault do.
CallsEnd == \A c \in Call : At(c, "upstream") ~> At(c, "over")

\* Every answer delivered whole has a receipt ("auto-logs every request as a
\* signed receipt").  The code does not guarantee this.
EveryAnswerReceipted ==
  \A c \in Call : call[c].answer = "whole" => ReceiptsOf(c) # {}
=============================================================================
