-------------------------- MODULE RecordersProofs --------------------------
(***************************************************************************)
(* Theorems about the proxy and passive capture beside each other: for     *)
(* every set of calls and of host threads, every length of streams and     *)
(* every choice of faults.                                                 *)
(***************************************************************************)
EXTENDS Recorders, TLAPS

-----------------------------------------------------------------------------
(* The proxy: the inductive invariant *)

CallStates ==
  [pc : {"new", "upstream", "body", "extract", "append", "answer", "over"},
   stream : {"no", "true", "truthy"}, ok : BOOLEAN, body : Seq({"text", "odd"}),
   ended : BOOLEAN, started : BOOLEAN, gone : BOOLEAN,
   answer : {"none", "400", "502", "cut", "whole"}, mishap : BOOLEAN]

\* Types; ids are handed out once.
ProxyTypeOK ==
  /\ legacy \in BOOLEAN
  /\ call \in [Call -> CallStates]
  /\ issued \in Nat
  /\ DOMAIN receipt \subseteq 1..issued
  /\ \A i \in DOMAIN receipt : receipt[i].call \in Call

\* Receipt i covers what its call's provider answered.
Covers(i, s) == receipt[i].body = s.body /\ receipt[i].ok = s.ok

\* A body is over before it is taken apart, an answer waits until it is sent,
\* and only an unstreamed one waits for its receipt.
InOrder(s) ==
  /\ s.pc \in {"extract", "append", "answer"} => s.ended
  /\ s.pc # "over" => s.answer = "none"
  /\ s.pc = "answer" => s.stream = "no"

\* An unstreamed answer that is on its way or with its client has its receipt.
Receipted(c) ==
  call[c].pc = "answer" \/ (call[c].answer = "whole" /\ ~Streaming(c)) =>
    \E i \in ReceiptsOf(c) : Covers(i, call[c])

\* A receipt is its call's only one, and its call will change no more but to
\* hand the answer over.
Final(i) ==
  LET s == call[receipt[i].call]
  IN  /\ s.pc \in {"answer", "over"} /\ s.ended /\ s.answer \notin {"400", "502"}
      /\ Covers(i, s)
      /\ \A j \in DOMAIN receipt : receipt[j].call = receipt[i].call => j = i

ProxyInv ==
  /\ ProxyTypeOK
  /\ \A c \in Call : InOrder(call[c]) /\ Receipted(c)
  /\ \A i \in DOMAIN receipt : Final(i)

-----------------------------------------------------------------------------
(* What one step does *)

\* A handler whose call has no receipt yet moves on without writing one.
LEMMA QuietMove ==
  ASSUME ProxyInv, NEW c \in Call, NEW s \in CallStates, Become(c, s), Quietly,
         call[c].pc \notin {"answer", "over"}, s.pc # "answer", InOrder(s),
         s.answer = "whole" => s.stream # "no"
  PROVE  ProxyInv'
<1>1. /\ call' \in [Call -> CallStates] /\ call'[c] = s
      /\ \A d \in Call \ {c} : call'[d] = call[d]
  BY DEF Become, ProxyInv, ProxyTypeOK
<1>2. UNCHANGED <<issued, legacy, receipt>>
  BY DEF Quietly
<1>3. \A i \in DOMAIN receipt : receipt[i].call # c
  BY DEF ProxyInv, Final
<1>4. ProxyTypeOK'
  BY <1>1, <1>2 DEF ProxyInv, ProxyTypeOK
<1>5. ASSUME NEW d \in Call PROVE InOrder(call'[d]) /\ Receipted(d)'
  <2>1. CASE d = c
    BY <1>1, <2>1 DEF Receipted, Streaming
  <2>2. CASE d # c
    BY <1>1, <1>2, <2>2 DEF ProxyInv, Receipted, Streaming, ReceiptsOf, Covers
  <2> QED BY <2>1, <2>2
<1>6. ASSUME NEW i \in DOMAIN receipt' PROVE Final(i)'
  <2>1. receipt' = receipt /\ receipt[i].call \in Call \ {c}
    BY <1>2, <1>3 DEF ProxyInv, ProxyTypeOK
  <2>2. call'[receipt[i].call] = call[receipt[i].call]
    BY <1>1, <2>1
  <2> QED BY <1>2, <2>1, <2>2 DEF ProxyInv, Final, Covers
<1> QED BY <1>4, <1>5, <1>6 DEF ProxyInv

\* The two ways a call is over, with and without a mishap.
OverFrom(s, d, a) ==
  /\ s \in CallStates /\ InOrder(s) /\ s.pc = "over" /\ s.answer \in {a, "none"}
  /\ s.stream = d.stream /\ s.body = d.body /\ s.ok = d.ok /\ s.ended = d.ended

LEMMA OverState ==
  ASSUME ProxyTypeOK, NEW c \in Call, NEW a \in {"none", "400", "502", "cut", "whole"}
  PROVE  /\ OverFrom(Over(c, a), call[c], a)
         /\ OverFrom([Over(c, a) EXCEPT !.mishap = TRUE], call[c], a)
<1> DEFINE s == Over(c, a)
           m == [s EXCEPT !.mishap = TRUE]
<1>1. call[c] \in CallStates
  BY DEF ProxyTypeOK
<1>2. OverFrom(s, call[c], a)
  BY <1>1 DEF Over, OverFrom, InOrder, CallStates
<1>3. m \in CallStates /\ m.pc = s.pc /\ m.answer = s.answer /\ m.stream = s.stream
      /\ m.body = s.body /\ m.ok = s.ok /\ m.ended = s.ended
  <2>1. s \in CallStates
    BY <1>2 DEF OverFrom
  <2> HIDE DEF s
  <2> QED BY <2>1 DEF CallStates
<1> HIDE DEF s, m
<1>4. OverFrom(m, call[c], a)
  BY <1>2, <1>3 DEF OverFrom, InOrder
<1> QED BY <1>2, <1>4 DEF s, m

\* The call is over, without an unstreamed answer delivered whole.
LEMMA QuietEnd ==
  ASSUME ProxyInv, NEW c \in Call, Quietly, call[c].pc \notin {"answer", "over"},
         NEW a \in {"none", "400", "502", "cut", "whole"}, a = "whole" => Streaming(c),
         \/ Become(c, Over(c, a)) \/ Become(c, [Over(c, a) EXCEPT !.mishap = TRUE])
  PROVE  ProxyInv'
<1>1. ProxyTypeOK
  BY DEF ProxyInv
<1>2. CASE Become(c, Over(c, a))
  <2> DEFINE s == Over(c, a)
  <2>1. OverFrom(s, call[c], a) /\ Become(c, s)
    BY <1>1, <1>2, OverState
  <2> HIDE DEF s
  <2> QED BY <2>1, QuietMove DEF Streaming, OverFrom
<1>3. CASE Become(c, [Over(c, a) EXCEPT !.mishap = TRUE])
  <2> DEFINE s == [Over(c, a) EXCEPT !.mishap = TRUE]
  <2>1. OverFrom(s, call[c], a) /\ Become(c, s)
    BY <1>1, <1>3, OverState
  <2> HIDE DEF s
  <2> QED BY <2>1, QuietMove DEF Streaming, OverFrom
<1> QED BY <1>2, <1>3

\* The handler goes on to a later program counter.
LEMMA AcceptKeepsInv ==
  ASSUME ProxyInv, NEW c \in Call, NEW stream \in {"no", "true", "truthy"}, Accept(c, stream)
  PROVE  ProxyInv'
<1> DEFINE s == [call[c] EXCEPT !.pc = "upstream", !.stream = stream]
<1>1. call[c] \in CallStates /\ call[c].pc = "new" /\ call[c].answer = "none"
  BY DEF Accept, At, ProxyInv, ProxyTypeOK, InOrder
<1>2. s \in CallStates /\ InOrder(s) /\ s.pc = "upstream" /\ s.answer = "none"
  BY <1>1 DEF CallStates, InOrder
<1>3. Become(c, s) /\ Quietly
  BY DEF Accept
<1> HIDE DEF s
<1> QED BY <1>1, <1>2, <1>3, QuietMove

LEMMA RefusalKeepsInv ==
  ASSUME ProxyInv, NEW c \in Call,
         RejectRequest(c) \/ RejectStreamFlag(c) \/ UpstreamFails(c)
  PROVE  ProxyInv'
<1>1. call[c].pc \notin {"answer", "over"} /\ Quietly
  BY DEF RejectRequest, RejectStreamFlag, UpstreamFails, MayForward, At
<1>2. CASE RejectRequest(c)
  BY <1>1, <1>2, QuietEnd DEF RejectRequest
<1>3. CASE RejectStreamFlag(c)
  BY <1>1, <1>3, QuietEnd DEF RejectStreamFlag, Unhandled
<1>4. CASE UpstreamFails(c)
  BY <1>1, <1>4, QuietEnd DEF UpstreamFails, Handled
<1> QED BY <1>2, <1>3, <1>4

LEMMA AnswersKeepsInv ==
  ASSUME ProxyInv, NEW c \in Call, NEW ok \in BOOLEAN, UpstreamAnswers(c, ok)
  PROVE  ProxyInv'
<1>1. call[c].pc = "upstream" /\ Quietly /\ call[c] \in CallStates /\ call[c].answer = "none"
  BY DEF UpstreamAnswers, MayForward, At, ProxyInv, ProxyTypeOK, InOrder
<1> DEFINE s == [call[c] EXCEPT !.pc = "body", !.ok = ok, !.started = Streaming(c)]
<1>2. CASE Become(c, s)
  <2>1. s \in CallStates /\ InOrder(s) /\ s.pc = "body" /\ s.answer = "none"
    BY <1>1 DEF CallStates, InOrder, Streaming
  <2> HIDE DEF s
  <2> QED BY <1>1, <1>2, <2>1, QuietMove
<1>3. CASE Become(c, Unhandled(c))
  BY <1>1, <1>3, QuietEnd DEF Unhandled
<1> QED BY <1>2, <1>3 DEF UpstreamAnswers

LEMMA RelayKeepsInv ==
  ASSUME ProxyInv, NEW c \in Call, NEW kind \in {"text", "odd"}, RelayChunk(c, kind)
  PROVE  ProxyInv'
<1>1. call[c].pc = "body" /\ Quietly /\ call[c] \in CallStates /\ call[c].answer = "none"
  BY DEF RelayChunk, At, ProxyInv, ProxyTypeOK, InOrder
<1> DEFINE got == [call[c] EXCEPT !.body = Append(@, kind)]
           out == [got EXCEPT !.pc = "over"]
<1>2. Append(call[c].body, kind) \in Seq({"text", "odd"})
  BY <1>1 DEF CallStates
<1>3. got \in CallStates /\ InOrder(got) /\ got.pc = "body" /\ got.answer = "none"
  BY <1>1, <1>2 DEF CallStates, InOrder
<1>4. out \in CallStates /\ InOrder(out) /\ out.pc = "over" /\ out.answer = "none"
  <2> HIDE DEF got
  <2> QED BY <1>3 DEF CallStates, InOrder
<1>5. Become(c, got) \/ Become(c, out)
  BY DEF RelayChunk
<1> HIDE DEF got, out
<1> QED BY <1>1, <1>3, <1>4, <1>5, QuietMove

LEMMA BodyEndsKeepsInv ==
  ASSUME ProxyInv, NEW c \in Call, BodyEnds(c)
  PROVE  ProxyInv'
<1>1. call[c].pc = "body" /\ Quietly /\ call[c] \in CallStates /\ call[c].answer = "none"
  BY DEF BodyEnds, At, ProxyInv, ProxyTypeOK, InOrder
<1> DEFINE whole(kind) == [call[c] EXCEPT !.pc = "extract", !.ended = TRUE, !.body = <<kind>>]
           s == [call[c] EXCEPT !.pc = "extract", !.ended = TRUE]
<1>2. s \in CallStates /\ InOrder(s) /\ s.pc = "extract" /\ s.answer = "none"
  BY <1>1 DEF CallStates, InOrder
<1>3. ASSUME NEW kind \in {"text", "odd"}
      PROVE  /\ whole(kind) \in CallStates /\ InOrder(whole(kind))
             /\ whole(kind).pc = "extract" /\ whole(kind).answer = "none"
  <2>1. <<kind>> \in Seq({"text", "odd"})
    OBVIOUS
  <2> QED BY <1>1, <2>1 DEF CallStates, InOrder
<1>4. Become(c, s) \/ \E kind \in {"text", "odd"} : Become(c, whole(kind))
  BY DEF BodyEnds
<1> HIDE DEF s, whole
<1> QED BY <1>1, <1>2, <1>3, <1>4, QuietMove

LEMMA ExtractKeepsInv ==
  ASSUME ProxyInv, NEW c \in Call, ExtractText(c)
  PROVE  ProxyInv'
<1>1. /\ call[c].pc = "extract" /\ Quietly /\ call[c] \in CallStates
      /\ call[c].answer = "none" /\ call[c].ended
  BY DEF ExtractText, At, ProxyInv, ProxyTypeOK, InOrder
<1>2. CASE CannotExtract(c)
  <2>1. Become(c, Over(c, "whole")) /\ Streaming(c)
    BY <1>2 DEF ExtractText, CannotExtract
  <2> QED BY <1>1, <2>1, QuietEnd
<1>3. CASE ~CannotExtract(c)
  <2> DEFINE s == [call[c] EXCEPT !.pc = "append"]
  <2>1. s \in CallStates /\ InOrder(s) /\ s.pc = "append" /\ s.answer = "none"
    BY <1>1 DEF CallStates, InOrder
  <2>2. Become(c, s)
    BY <1>3 DEF ExtractText
  <2> HIDE DEF s
  <2> QED BY <1>1, <2>1, <2>2, QuietMove
<1> QED BY <1>2, <1>3

LEMMA SignFailsKeepsInv ==
  ASSUME ProxyInv, NEW c \in Call, SignFails(c)
  PROVE  ProxyInv'
<1>1. call[c].pc = "append" /\ Quietly
  BY DEF SignFails, At
<1>2. PICK a \in {"502", "cut", "whole"} :
        (a = "whole" => Streaming(c)) /\ Become(c, [Over(c, a) EXCEPT !.mishap = TRUE])
  BY DEF SignFails, Handled, Unhandled
<1> QED BY <1>1, <1>2, QuietEnd

\* The one step that writes: the receipt is new, and of the whole answer.
LEMMA SignKeepsInv ==
  ASSUME ProxyInv, NEW c \in Call, Sign(c)
  PROVE  ProxyInv'
<1>1. /\ call[c].pc = "append" /\ call[c] \in CallStates /\ call[c].ended
      /\ call[c].answer = "none"
  BY DEF Sign, At, ProxyInv, ProxyTypeOK, InOrder
<1>2. \A i \in DOMAIN receipt : receipt[i].call # c
  BY <1>1 DEF ProxyInv, Final
<1>3. PICK id \in Nat : id = issued + 1
  BY DEF ProxyInv, ProxyTypeOK
<1>4. /\ issued' = id /\ id \notin DOMAIN receipt /\ legacy' = legacy
      /\ receipt' = [i \in DOMAIN receipt \cup {id} |->
                       IF i = id THEN [call |-> c, body |-> call[c].body, ok |-> call[c].ok]
                       ELSE receipt[i]]
  BY <1>3 DEF Sign, Extend, ProxyInv, ProxyTypeOK
<1>5. /\ DOMAIN receipt' = DOMAIN receipt \cup {id}
      /\ receipt'[id].call = c /\ receipt'[id].body = call[c].body
      /\ receipt'[id].ok = call[c].ok
      /\ \A i \in DOMAIN receipt : receipt'[i] = receipt[i]
  BY <1>4
<1> DEFINE s == IF Streaming(c) THEN Over(c, "whole") ELSE [call[c] EXCEPT !.pc = "answer"]
<1>6. /\ s \in CallStates /\ InOrder(s) /\ s.pc \in {"answer", "over"}
      /\ s.ended /\ s.answer \in {"none", "whole"}
      /\ s.body = call[c].body /\ s.ok = call[c].ok
  <2>1. CASE Streaming(c)
    BY <1>1, <2>1, OverState DEF ProxyInv, OverFrom
  <2>2. CASE ~Streaming(c)
    BY <1>1, <2>2 DEF CallStates, InOrder, Streaming
  <2> QED BY <2>1, <2>2
<1>7. Become(c, s)
  BY DEF Sign
<1> HIDE DEF s
<1>8. /\ call' \in [Call -> CallStates] /\ call'[c] = s
      /\ \A d \in Call \ {c} : call'[d] = call[d]
  BY <1>6, <1>7 DEF Become, ProxyInv, ProxyTypeOK
<1>9. ProxyTypeOK'
  BY <1>3, <1>4, <1>5, <1>8 DEF ProxyInv, ProxyTypeOK
<1>10. ASSUME NEW d \in Call PROVE InOrder(call'[d]) /\ Receipted(d)'
  <2>1. CASE d = c
    BY <1>5, <1>6, <1>8, <2>1 DEF Receipted, ReceiptsOf, Covers
  <2>2. CASE d # c
    <3>1. call'[d] = call[d]
      BY <1>8, <2>2
    <3> QED BY <1>5, <3>1, <2>2 DEF ProxyInv, Receipted, Streaming, ReceiptsOf, Covers
  <2> QED BY <2>1, <2>2
<1>11. ASSUME NEW i \in DOMAIN receipt' PROVE Final(i)'
  <2>1. CASE i = id
    BY <1>2, <1>5, <1>6, <1>8, <2>1 DEF Final, Covers
  <2>2. CASE i # id
    <3>1. i \in DOMAIN receipt /\ receipt'[i] = receipt[i] /\ receipt[i].call \in Call \ {c}
      BY <1>2, <1>5, <2>2 DEF ProxyInv, ProxyTypeOK
    <3>2. call'[receipt[i].call] = call[receipt[i].call]
      BY <1>8, <3>1
    <3> QED BY <1>5, <3>1, <3>2 DEF ProxyInv, Final, Covers
  <2> QED BY <2>1, <2>2
<1> QED BY <1>9, <1>10, <1>11 DEF ProxyInv

\* A call keeps what its receipt covers when its answer goes out, its client
\* leaves or the proxy dies.
LEMMA AfterwardsKeepsInv ==
  ASSUME ProxyInv, Quietly, call' \in [Call -> CallStates],
         \A c \in Call :
           \/ call'[c] = call[c]
           \/ /\ InOrder(call'[c]) /\ call[c].pc # "over"
              /\ call'[c].body = call[c].body /\ call'[c].ok = call[c].ok
              /\ call'[c].ended = call[c].ended /\ call'[c].stream = call[c].stream
              /\ call'[c].pc = "answer" \/ call'[c].answer = "whole" => call[c].pc = "answer"
              /\ call'[c].pc = "over" \/ call'[c].pc = call[c].pc
              /\ call'[c].answer \notin {"400", "502"}
  PROVE  ProxyInv'
<1>1. UNCHANGED <<issued, legacy, receipt>>
  BY DEF Quietly
<1>2. ProxyTypeOK'
  BY <1>1 DEF ProxyInv, ProxyTypeOK
<1>3. ASSUME NEW d \in Call PROVE InOrder(call'[d]) /\ Receipted(d)'
  BY <1>1 DEF ProxyInv, Receipted, Streaming, ReceiptsOf, Covers
<1>4. ASSUME NEW i \in DOMAIN receipt' PROVE Final(i)'
  <2>1. receipt' = receipt /\ receipt[i].call \in Call
    BY <1>1 DEF ProxyInv, ProxyTypeOK
  <2> QED BY <1>1, <2>1 DEF ProxyInv, Final, Covers
<1> QED BY <1>2, <1>3, <1>4 DEF ProxyInv

LEMMA ReturnKeepsInv ==
  ASSUME ProxyInv, NEW c \in Call, ReturnAnswer(c)
  PROVE  ProxyInv'
<1> DEFINE s == Over(c, "whole")
<1>1. call[c].pc = "answer" /\ Quietly /\ Become(c, s) /\ ProxyTypeOK
  BY DEF ReturnAnswer, At, ProxyInv
<1>2. OverFrom(s, call[c], "whole")
  BY <1>1, OverState
<1> HIDE DEF s
<1>3. /\ call' \in [Call -> CallStates] /\ call'[c] = s
      /\ \A d \in Call \ {c} : call'[d] = call[d]
  BY <1>1, <1>2 DEF Become, ProxyTypeOK, OverFrom
<1> QED BY <1>1, <1>2, <1>3, AfterwardsKeepsInv DEF OverFrom

LEMMA LeaveKeepsInv ==
  ASSUME ProxyInv, NEW c \in Call, ClientLeaves(c)
  PROVE  ProxyInv'
<1> DEFINE s == [call[c] EXCEPT !.gone = TRUE]
<1>1. call[c].pc # "over" /\ Quietly /\ call[c] \in CallStates /\ InOrder(call[c])
  BY DEF ClientLeaves, ProxyInv, ProxyTypeOK
<1>2. /\ s \in CallStates /\ InOrder(s) /\ s.pc = call[c].pc /\ s.body = call[c].body
      /\ s.ok = call[c].ok /\ s.ended = call[c].ended /\ s.stream = call[c].stream
      /\ s.answer = "none"
  BY <1>1 DEF CallStates, InOrder
<1>3. Become(c, s)
  BY DEF ClientLeaves
<1> HIDE DEF s
<1>4. /\ call' \in [Call -> CallStates] /\ call'[c] = s
      /\ \A d \in Call \ {c} : call'[d] = call[d]
  BY <1>2, <1>3 DEF Become, ProxyInv, ProxyTypeOK
<1> QED BY <1>1, <1>2, <1>4, AfterwardsKeepsInv

LEMMA DeathKeepsInv ==
  ASSUME ProxyInv, ProxyDies
  PROVE  ProxyInv'
<1> DEFINE s(c) == [Unhandled(c) EXCEPT !.mishap = TRUE]
<1>1. ASSUME NEW c \in Call
      PROVE  OverFrom(s(c), call[c], "cut")
  BY <1>1, OverState DEF Unhandled, ProxyInv
<1> HIDE DEF s
<1>2. call' = [c \in Call |-> IF call[c].pc \in {"new", "over"} THEN call[c] ELSE s(c)]
      /\ Quietly
  BY DEF ProxyDies, s
<1>3. call' \in [Call -> CallStates]
  BY <1>1, <1>2 DEF ProxyInv, ProxyTypeOK, OverFrom
<1> QED BY <1>1, <1>2, <1>3, AfterwardsKeepsInv DEF OverFrom

-----------------------------------------------------------------------------
(* The theorems *)

LEMMA ProxyInvStarts == ASSUME Init PROVE ProxyInv
<1>1. Fresh \in CallStates /\ InOrder(Fresh) /\ Fresh.pc = "new" /\ Fresh.answer = "none"
  <2>1. <<>> \in Seq({"text", "odd"})
    OBVIOUS
  <2> QED BY <2>1 DEF Fresh, CallStates, InOrder
<1> QED BY <1>1 DEF Init, LedgerInit, ProxyInv, ProxyTypeOK, Receipted

LEMMA ProxyInvSteps == ASSUME ProxyInv, [ProxyNext]_vars PROVE ProxyInv'
<1>1. CASE UNCHANGED vars
  BY <1>1 DEF vars, ProxyInv, ProxyTypeOK, Receipted, Streaming, ReceiptsOf, Covers, Final
<1>2. ASSUME NEW c \in Call, Handle(c) PROVE ProxyInv'
  BY <1>2, RefusalKeepsInv, AnswersKeepsInv, RelayKeepsInv, BodyEndsKeepsInv,
     ExtractKeepsInv, SignKeepsInv, SignFailsKeepsInv, ReturnKeepsInv DEF Handle
<1>3. ASSUME NEW c \in Call,
             \/ \E stream \in {"no", "true", "truthy"} : Accept(c, stream)
             \/ RejectRequest(c) \/ ClientLeaves(c)
      PROVE  ProxyInv'
  BY <1>3, AcceptKeepsInv, RefusalKeepsInv, LeaveKeepsInv
<1> QED BY <1>1, <1>2, <1>3, DeathKeepsInv DEF ProxyNext

\* The invariant holds throughout, beside whatever passive capture does.
LEMMA ProxyInvHolds == RecordersSpec => []ProxyInv
<1>1. RecordersInit => ProxyInv
  BY ProxyInvStarts DEF RecordersInit
<1>2. ProxyInv /\ [RecordersNext]_recordersVars => ProxyInv'
  <2>1. [RecordersNext]_recordersVars => [ProxyNext]_vars
    BY DEF RecordersNext, recordersVars
  <2> QED BY <2>1, ProxyInvSteps
<1> QED BY <1>1, <1>2, PTL DEF RecordersSpec

\* Whatever fails, a client with a whole unstreamed answer has it on record.
THEOREM AnswersAreReceipted == RecordersSpec => []AnswerIsReceipted
<1>1. ProxyInv => AnswerIsReceipted
  BY DEF ProxyInv, Receipted, Covers, AnswerIsReceipted
<1> QED BY <1>1, ProxyInvHolds, PTL

\* However streams are cut short, no receipt is signed for a part of an answer.
THEOREM ReceiptsAreWhole == RecordersSpec => []NoPartialReceipt
<1>1. ProxyInv => NoPartialReceipt
  BY DEF ProxyInv, Final, Covers, NoPartialReceipt
<1> QED BY <1>1, ProxyInvHolds, PTL

\* Who is told of a failure may try again without leaving two receipts.
THEOREM ErrorsLeaveNoReceipt == RecordersSpec => []ErrorMeansNoReceipt
<1>1. ProxyInv => ErrorMeansNoReceipt
  BY DEF ProxyInv, Final, ReceiptsOf, ErrorMeansNoReceipt
<1> QED BY <1>1, ProxyInvHolds, PTL

-----------------------------------------------------------------------------
(* Passive capture: the inductive invariant *)

Recording == {"acquire", "swap", "append", "restore"}
Inside == {"swap", "append", "restore"}     \* with the lock held

\* How far a thread has come in its call determines what it remembers of it.
CallOK(s) ==
  /\ s.pc \in Recording =>
       /\ s.left = 1 /\ s.wrapped /\ s.finished
       /\ s.then \in {"stream", "over"} /\ s.outcome \in {"success", "error"}
       /\ s.said # "none" /\ (s.outcome = "error") = (s.said = "raised")
  /\ s.pc \in Inside => s.old = "host"
  /\ s.pc \in {"new", "provider"} => ~s.finished /\ s.said = "none"
  /\ s.pc \in {"provider", "stream"} /\ ~s.finished => s.wrapped = (s.left = 1)
  /\ s.pc = "stream" => (s.said = "none") = ~s.finished
  /\ s.pc \in {"stream", "over"} /\ s.finished => s.left = 0
  /\ s.pc = "over" => s.heard = s.said

\* Which receipts a thread in state s may have.
Fits(s, mine) ==
  /\ s.pc \in {"new", "provider", "acquire", "swap", "append"} => mine = {}
  /\ ~s.finished => mine = {}
  /\ s.pc = "restore" => mine # {} \/ s.failed
  /\ s.pc \in {"stream", "over"} /\ s.finished /\ s.wrapped => mine # {} \/ s.failed
  /\ \A k, l \in mine : k = l
  /\ \A k \in mine : captured[k].pieces = s.pieces
                     /\ (captured[k].outcome = "error") = (s.said = "raised")

\* The thread that is inside holds the lock; only it moves the path.
LockOK ==
  /\ \A t \in Thread : thread[t].pc \in Inside => holder = t
  /\ \A t \in Thread : thread[t].pc = "append" => dbPath = "project"
  /\ PathRestored
  /\ CapturedInProject

ThreadsOK == \A t \in Thread : CallOK(thread[t]) /\ Fits(thread[t], CapturedBy(t))

CaptureInv == CaptureTypeOK /\ LockOK /\ ThreadsOK

-----------------------------------------------------------------------------
(* A thread's own step *)

\* The state s is one that t may go to while the vault stays as it is.
Sound(t, s) == s \in HostThread /\ CallOK(s) /\ Fits(s, CapturedBy(t))

\* Where a thread goes that has to record, or need not.
Recorded(s, outcome, then) ==
  IF s.left = 0 THEN GoOn(s, then)
  ELSE [s EXCEPT !.pc = "acquire", !.outcome = outcome, !.then = then]

\* A call that just ended may be recorded or passed on.
LEMMA RecordedIsSound ==
  ASSUME NEW t \in Thread, NEW s \in HostThread, CapturedBy(t) = {},
         s.finished, s.wrapped = (s.left = 1),
         NEW outcome \in {"success", "error"}, NEW then \in {"stream", "over"},
         s.said # "none", (outcome = "error") = (s.said = "raised")
  PROVE  /\ Sound(t, Recorded(s, outcome, then))
         /\ Recorded(s, outcome, then).pc \notin Inside
<1> DEFINE r == Recorded(s, outcome, then)
<1>1. CASE s.left = 0
  <2>0. r = [s EXCEPT !.pc = then, !.heard = IF then = "over" THEN s.said ELSE s.heard]
    BY <1>1 DEF Recorded, GoOn, HostThread
  <2>a. r \in HostThread
    BY <2>0 DEF HostThread
  <2>b. /\ r.pc = then /\ r.left = 0 /\ r.finished = s.finished /\ r.said = s.said
        /\ r.wrapped = s.wrapped /\ (then = "over" => r.heard = r.said)
    BY <1>1, <2>0, ZenonT(40) DEF HostThread, Ending
  <2>c. s.wrapped = FALSE /\ s.finished = TRUE
    BY <1>1 DEF HostThread
  <2> HIDE DEF r
  <2>1. /\ r \in HostThread /\ r.pc = then /\ r.left = 0 /\ r.finished /\ r.said = s.said
        /\ ~r.wrapped /\ (then = "over" => r.heard = r.said)
    BY <2>a, <2>b, <2>c
  <2>2. CallOK(r)
    BY <2>1 DEF CallOK, Recording, Inside
  <2>3. Fits(r, CapturedBy(t))
    BY <2>1 DEF Fits
  <2> QED BY <2>1, <2>2, <2>3 DEF Sound, Inside, r
<1>2. CASE s.left = 1
  <2>0. r = [s EXCEPT !.pc = "acquire", !.outcome = outcome, !.then = then]
    BY <1>2 DEF Recorded
  <2>a. r \in HostThread
    BY <2>0, ZenonT(40) DEF HostThread
  <2>b. /\ r.pc = "acquire" /\ r.left = 1 /\ r.finished = s.finished /\ r.wrapped = s.wrapped
        /\ r.then = then /\ r.outcome = outcome /\ r.said = s.said
    BY <1>2, <2>0 DEF HostThread
  <2>1. /\ r \in HostThread /\ r.pc = "acquire" /\ r.left = 1 /\ r.finished /\ r.wrapped
        /\ r.then = then /\ r.outcome = outcome /\ r.said = s.said
    BY <1>2, <2>a, <2>b
  <2> HIDE DEF r
  <2>2. CallOK(r)
    BY <2>1 DEF CallOK, Recording, Inside
  <2>3. Fits(r, CapturedBy(t))
    BY <2>1 DEF Fits
  <2> QED BY <2>1, <2>2, <2>3 DEF Sound, Inside, r
<1> QED BY <1>1, <1>2 DEF HostThread

\* Whatever the host does, its thread is in a sound state afterwards, and was
\* and is outside the lock.
LEMMA HostStepIsSound ==
  ASSUME CaptureAssumption, CaptureInv, NEW t \in Thread, HostStep(t)
  PROVE  /\ UNCHANGED <<layers, dbPath, holder, captured>>
         /\ \/ UNCHANGED thread
            \/ \E s : /\ Becomes(t, s) /\ Sound(t, s)
                      /\ thread[t].pc \notin Inside /\ s.pc \notin Inside
<1> DEFINE old == thread[t]
<1>0. old \in HostThread /\ CallOK(old) /\ Fits(old, CapturedBy(t)) /\ layers \in 0..1
  BY DEF CaptureInv, CaptureTypeOK, ThreadsOK
<1>a. 0 \in 0..MaxPieces /\ 1 \in 0..MaxPieces
  BY CaptureAssumption DEF CaptureAssumption
<1>1. UNCHANGED <<layers, dbPath, holder, captured>>
  BY DEF HostStep, CallSDK, ProviderRaises, ProviderReturns, NextPiece, StreamEnds,
         StreamRaises, CloseStream, LeaveStream
<1>2. ASSUME NEW stream \in BOOLEAN, CallSDK(t, stream)
      PROVE  \E s : Becomes(t, s) /\ Sound(t, s) /\ old.pc \notin Inside /\ s.pc \notin Inside
  <2> DEFINE s == [Unborn EXCEPT !.pc = "provider", !.stream = stream,
                                 !.wrapped = layers > 0, !.left = layers]
  <2>1. Becomes(t, s) /\ old.pc = "new"
    BY <1>2 DEF CallSDK, Is
  <2>a. s \in HostThread
    <3>1. Unborn \in HostThread
      BY <1>a DEF Unborn, HostThread, Ending
    <3>2. ASSUME NEW w \in BOOLEAN
          PROVE  [Unborn EXCEPT !.pc = "provider", !.stream = stream,
                                !.wrapped = w, !.left = layers] \in HostThread
      BY <1>0, <3>1 DEF HostThread
    <3>3. (layers > 0) \in BOOLEAN
      BY <1>0
    <3> QED BY <3>2, <3>3, Zenon
  <2>b. /\ s.pc = "provider" /\ s.finished = FALSE /\ s.said = "none"
        /\ s.wrapped = (layers > 0) /\ s.left = layers
    BY DEF Unborn
  <2>2. /\ s \in HostThread /\ s.pc = "provider" /\ ~s.finished /\ s.said = "none"
        /\ s.wrapped = (s.left = 1)
    <3> HIDE DEF s
    <3>1. (layers > 0) = (layers = 1)
      BY <1>0
    <3> QED BY <2>a, <2>b, <3>1
  <2> HIDE DEF s
  <2>3. CallOK(s)
    BY <2>2 DEF CallOK, Recording, Inside
  <2>4. Fits(s, CapturedBy(t))
    BY <1>0, <2>1, <2>2 DEF Fits
  <2> QED BY <2>1, <2>2, <2>3, <2>4 DEF Sound, Inside
<1>3. CASE ProviderRaises(t)
  <2> DEFINE s == [old EXCEPT !.said = "raised", !.finished = TRUE]
  <2>1. old.pc = "provider" /\ Becomes(t, Recorded(s, "error", "over"))
    BY <1>3 DEF ProviderRaises, Is, Record, Recorded, Becomes
  <2>2. /\ s \in HostThread /\ s.finished /\ s.wrapped = (s.left = 1) /\ s.said = "raised"
        /\ CapturedBy(t) = {}
    BY <1>0, <2>1 DEF HostThread, Ending, CallOK, Fits
  <2> HIDE DEF s
  <2> QED BY <1>1, <2>1, <2>2, RecordedIsSound DEF Inside
<1>4. CASE ProviderReturns(t)
  <2>1. old.pc = "provider" /\ ~old.finished /\ old.said = "none" /\ CapturedBy(t) = {}
        /\ old.wrapped = (old.left = 1)
    BY <1>0, <1>4 DEF ProviderReturns, Is, CallOK, Fits
  <2>2. CASE old.stream
    <3> DEFINE s == [old EXCEPT !.pc = "stream"]
    <3>1. Becomes(t, s)
      BY <1>4, <2>2 DEF ProviderReturns
    <3>2. /\ s \in HostThread /\ s.pc = "stream" /\ ~s.finished /\ s.said = "none"
          /\ s.wrapped = (s.left = 1)
      BY <1>0, <2>1 DEF HostThread
    <3> HIDE DEF s
    <3>3. CallOK(s) /\ Fits(s, CapturedBy(t))
      BY <2>1, <3>2 DEF CallOK, Fits, Recording, Inside
    <3> QED BY <1>1, <2>1, <3>1, <3>2, <3>3 DEF Sound, Inside
  <2>3. CASE ~old.stream
    <3> DEFINE s == [old EXCEPT !.said = "returned", !.pieces = 1, !.finished = TRUE]
    <3>1. Becomes(t, Recorded(s, "success", "over"))
      BY <1>4, <2>3 DEF ProviderReturns, Record, Recorded, Becomes
    <3>2. s \in HostThread /\ s.finished /\ s.wrapped = (s.left = 1) /\ s.said = "returned"
      BY <1>0, <1>a, <2>1 DEF HostThread, Ending
    <3> HIDE DEF s
    <3> QED BY <1>1, <2>1, <3>1, <3>2, RecordedIsSound DEF Inside
  <2> QED BY <2>2, <2>3
<1>5. CASE NextPiece(t)
  <2> DEFINE s == [old EXCEPT !.pieces = @ + 1]
  <2>1. Becomes(t, s) /\ old.pc = "stream" /\ ~old.finished /\ old.pieces < MaxPieces
    BY <1>5 DEF NextPiece, Is
  <2>2. /\ s \in HostThread /\ s.pc = "stream" /\ ~s.finished /\ s.said = "none"
        /\ s.wrapped = (s.left = 1) /\ CapturedBy(t) = {}
    BY <1>0, <2>1, CaptureAssumption DEF HostThread, CallOK, Fits, CaptureAssumption
  <2> HIDE DEF s
  <2>3. CallOK(s) /\ Fits(s, CapturedBy(t))
    BY <2>2 DEF CallOK, Fits, Recording, Inside
  <2> QED BY <1>1, <2>1, <2>2, <2>3 DEF Sound, Inside
<1>6. ASSUME NEW said \in Ending \ {"none"}, NEW outcome \in {"success", "error"},
             (outcome = "error") = (said = "raised"),
             old.pc = "stream", Finish(t, said, outcome)
      PROVE  \/ UNCHANGED thread
             \/ \E s : Becomes(t, s) /\ Sound(t, s) /\ old.pc \notin Inside /\ s.pc \notin Inside
  <2>1. CASE old.finished
    BY <1>6, <2>1 DEF Finish
  <2>2. CASE ~old.finished
    <3> DEFINE s == [old EXCEPT !.said = said, !.finished = TRUE]
    <3>1. Becomes(t, Recorded(s, outcome, "stream"))
      BY <1>6, <2>2 DEF Finish, Record, Recorded, Becomes
    <3>2. /\ s \in HostThread /\ s.finished /\ s.wrapped = (s.left = 1) /\ s.said = said
          /\ CapturedBy(t) = {}
      BY <1>0, <1>6, <2>2 DEF HostThread, CallOK, Fits
    <3> HIDE DEF s
    <3>3. said # "none"
      BY <1>6
    <3> QED BY <1>6, <3>1, <3>2, <3>3, RecordedIsSound DEF Inside
  <2> QED BY <2>1, <2>2
<1>7. CASE StreamEnds(t)
  BY <1>6, <1>7 DEF StreamEnds, Is, Ending
<1>8. CASE StreamRaises(t)
  BY <1>6, <1>8 DEF StreamRaises, Is, Ending
<1>9. ASSUME NEW said \in {"returned", "close raised"}, CloseStream(t, said)
      PROVE  \/ UNCHANGED thread
             \/ \E s : Becomes(t, s) /\ Sound(t, s) /\ old.pc \notin Inside /\ s.pc \notin Inside
  BY <1>6, <1>9 DEF CloseStream, Is, Ending
<1>10. CASE LeaveStream(t)
  <2> DEFINE s == [old EXCEPT !.pc = "over", !.heard = old.said]
  <2>1. Becomes(t, s) /\ old.pc = "stream"
    BY <1>0, <1>10 DEF LeaveStream, Is, GoOn, HostThread
  <2>2. /\ s \in HostThread /\ s.pc = "over" /\ s.heard = s.said /\ s.said = old.said
        /\ s.finished = old.finished /\ s.wrapped = old.wrapped /\ s.left = old.left
        /\ s.failed = old.failed /\ s.pieces = old.pieces
    BY <1>0 DEF HostThread
  <2> HIDE DEF s
  <2>3. CallOK(s) /\ Fits(s, CapturedBy(t))
    BY <1>0, <2>1, <2>2 DEF CallOK, Fits, Recording, Inside
  <2> QED BY <1>1, <2>1, <2>2, <2>3 DEF Sound, Inside
<1> QED BY <1>1, <1>2, <1>3, <1>4, <1>5, <1>7, <1>8, <1>9, <1>10 DEF HostStep

-----------------------------------------------------------------------------
(* What a move of one thread means for the whole *)

\* While the vault stays as it is, a sound move keeps every thread sound.
LEMMA MoveKeepsThreads ==
  ASSUME CaptureInv, NEW t \in Thread, NEW s, Becomes(t, s), Sound(t, s),
         UNCHANGED captured
  PROVE  /\ thread' \in [Thread -> HostThread] /\ ThreadsOK'
         /\ thread'[t] = s /\ \A u \in Thread \ {t} : thread'[u] = thread[u]
<1>1. thread \in [Thread -> HostThread] /\ s \in HostThread
  BY DEF CaptureInv, CaptureTypeOK, Sound
<1>2. /\ thread' \in [Thread -> HostThread]
      /\ thread'[t] = s /\ \A u \in Thread \ {t} : thread'[u] = thread[u]
  BY <1>1 DEF Becomes
<1>3. \A u \in Thread : CapturedBy(u)' = CapturedBy(u)
  BY DEF CapturedBy
<1>4. ASSUME NEW u \in Thread PROVE (CallOK(thread[u]) /\ Fits(thread[u], CapturedBy(u)))'
  <2>1. CallOK(thread'[u]) /\ Fits(thread'[u], CapturedBy(u))
    <3>1. CASE u = t
      BY <1>2, <3>1 DEF Sound
    <3>2. CASE u # t
      BY <1>2, <3>2 DEF CaptureInv, ThreadsOK
    <3> QED BY <3>1, <3>2
  <2> QED BY <1>3, <2>1 DEF CallOK, Fits
<1> QED BY <1>2, <1>4 DEF ThreadsOK

\* A thread that stays outside the lock leaves everything about it as it was.
LEMMA OutsideKeepsLock ==
  ASSUME CaptureInv, NEW t \in Thread, NEW s, Becomes(t, s), Sound(t, s),
         thread[t].pc \notin Inside, s.pc \notin Inside,
         UNCHANGED <<dbPath, holder, captured>>
  PROVE  LockOK'
<1>1. thread'[t] = s /\ \A u \in Thread \ {t} : thread'[u] = thread[u]
  BY MoveKeepsThreads
<1>2. \A u \in Thread : thread'[u].pc \in Inside => u # t /\ thread[u].pc \in Inside
  BY <1>1
<1>3. \A u \in Thread : thread[u].pc \in Inside => thread'[u] = thread[u]
  BY <1>1
<1>4. /\ \A u \in Thread : thread'[u].pc \in Inside => holder' = u
      /\ \A u \in Thread : thread'[u].pc = "append" => dbPath' = "project"
  BY <1>1, <1>2 DEF CaptureInv, LockOK, Inside
<1>5. PathRestored'
  BY <1>3 DEF CaptureInv, LockOK, PathRestored, Inside
<1>6. CapturedInProject'
  BY DEF CaptureInv, LockOK, CapturedInProject
<1> QED BY <1>4, <1>5, <1>6 DEF LockOK

\* The host's steps keep the invariant.
LEMMA HostStepKeepsInv ==
  ASSUME CaptureAssumption, CaptureInv, NEW t \in Thread, HostStep(t)
  PROVE  CaptureInv'
<1>1. UNCHANGED <<layers, dbPath, holder, captured>>
  BY HostStepIsSound
<1>2. CASE UNCHANGED thread
  <2>1. UNCHANGED captureVars
    BY <1>1, <1>2 DEF captureVars
  <2> QED BY <2>1 DEF captureVars, CaptureInv, CaptureTypeOK, LockOK, PathRestored,
          CapturedInProject, ThreadsOK, CallOK, Fits, CapturedBy
<1>3. ASSUME NEW s, Becomes(t, s), Sound(t, s), thread[t].pc \notin Inside, s.pc \notin Inside
      PROVE  CaptureInv'
  <2>1. thread' \in [Thread -> HostThread] /\ ThreadsOK'
    BY <1>1, <1>3, MoveKeepsThreads
  <2>2. LockOK'
    BY <1>1, <1>3, OutsideKeepsLock
  <2>3. CaptureTypeOK'
    BY <1>1, <2>1 DEF CaptureInv, CaptureTypeOK
  <2> QED BY <2>1, <2>2, <2>3 DEF CaptureInv
<1> QED BY <1>2, <1>3, HostStepIsSound

-----------------------------------------------------------------------------
(* Recording *)

\* While nobody holds the lock nobody is inside, and the path is the host's.
LEMMA FreeLock ==
  ASSUME CaptureAssumption, CaptureInv, holder = Nobody
  PROVE  dbPath = "host" /\ \A u \in Thread : thread[u].pc \notin Inside
<1>1. \A u \in Thread : thread[u].pc \notin Inside
  BY DEF CaptureAssumption, CaptureInv, LockOK
<1>2. dbPath = "host"
  BY <1>1 DEF CaptureInv, LockOK, PathRestored, Inside
<1> QED BY <1>1, <1>2

\* Who is inside holds the lock, so nobody else is.
LEMMA Alone ==
  ASSUME CaptureInv, NEW t \in Thread, thread[t].pc \in Inside
  PROVE  holder = t /\ \A u \in Thread \ {t} : thread[u].pc \notin Inside
BY DEF CaptureInv, LockOK

LEMMA AcquireKeepsInv ==
  ASSUME CaptureAssumption, CaptureInv, NEW t \in Thread, Acquire(t)
  PROVE  CaptureInv'
<1> DEFINE old == thread[t]
           s == [old EXCEPT !.pc = "swap", !.old = dbPath]
<1>0. old \in HostThread /\ CallOK(old) /\ Fits(old, CapturedBy(t))
  BY DEF CaptureInv, CaptureTypeOK, ThreadsOK
<1>1. /\ old.pc = "acquire" /\ Becomes(t, s) /\ holder' = t
      /\ UNCHANGED <<layers, dbPath, captured>>
  BY DEF Acquire, Is
<1>2. dbPath = "host" /\ \A u \in Thread : thread[u].pc \notin Inside
  BY FreeLock DEF Acquire
<1>3. /\ s \in HostThread /\ s.pc = "swap" /\ s.old = "host" /\ s.left = old.left
      /\ s.wrapped = old.wrapped /\ s.finished = old.finished /\ s.then = old.then
      /\ s.outcome = old.outcome /\ s.said = old.said /\ s.failed = old.failed
      /\ s.pieces = old.pieces
  BY <1>0, <1>2 DEF HostThread
<1> HIDE DEF s
<1>4. Sound(t, s)
  BY <1>0, <1>1, <1>3 DEF Sound, CallOK, Fits, Recording, Inside
<1>5. /\ thread' \in [Thread -> HostThread] /\ ThreadsOK'
      /\ thread'[t] = s /\ \A u \in Thread \ {t} : thread'[u] = thread[u]
  BY <1>1, <1>4, MoveKeepsThreads
<1>6. CaptureTypeOK'
  BY <1>1, <1>5 DEF CaptureInv, CaptureTypeOK
<1>7. LockOK'
  BY <1>1, <1>2, <1>3, <1>5
  DEF CaptureInv, LockOK, PathRestored, CapturedInProject, Inside
<1> QED BY <1>5, <1>6, <1>7 DEF CaptureInv

LEMMA SwapKeepsInv ==
  ASSUME CaptureInv, NEW t \in Thread, SwapPath(t)
  PROVE  CaptureInv'
<1> DEFINE old == thread[t]
           s == [old EXCEPT !.pc = "append"]
<1>0. old \in HostThread /\ CallOK(old) /\ Fits(old, CapturedBy(t))
  BY DEF CaptureInv, CaptureTypeOK, ThreadsOK
<1>1. /\ old.pc = "swap" /\ Becomes(t, s) /\ dbPath' = "project"
      /\ UNCHANGED <<layers, holder, captured>>
  BY DEF SwapPath, Is
<1>2. holder = t /\ \A u \in Thread \ {t} : thread[u].pc \notin Inside
  BY <1>1, Alone DEF Inside
<1>3. /\ s \in HostThread /\ s.pc = "append" /\ s.old = old.old /\ s.left = old.left
      /\ s.wrapped = old.wrapped /\ s.finished = old.finished /\ s.then = old.then
      /\ s.outcome = old.outcome /\ s.said = old.said /\ s.failed = old.failed
      /\ s.pieces = old.pieces
  BY <1>0 DEF HostThread
<1> HIDE DEF s
<1>4. Sound(t, s)
  BY <1>0, <1>1, <1>3 DEF Sound, CallOK, Fits, Recording, Inside
<1>5. /\ thread' \in [Thread -> HostThread] /\ ThreadsOK'
      /\ thread'[t] = s /\ \A u \in Thread \ {t} : thread'[u] = thread[u]
  BY <1>1, <1>4, MoveKeepsThreads
<1>6. CaptureTypeOK'
  BY <1>1, <1>5 DEF CaptureInv, CaptureTypeOK
<1>7. LockOK'
  BY <1>1, <1>2, <1>3, <1>5
  DEF CaptureInv, LockOK, PathRestored, CapturedInProject, Inside
<1> QED BY <1>5, <1>6, <1>7 DEF CaptureInv

LEMMA FailKeepsInv ==
  ASSUME CaptureInv, NEW t \in Thread, FailToRecord(t)
  PROVE  CaptureInv'
<1> DEFINE old == thread[t]
           s == [old EXCEPT !.pc = "restore", !.failed = TRUE]
<1>0. old \in HostThread /\ CallOK(old) /\ Fits(old, CapturedBy(t))
  BY DEF CaptureInv, CaptureTypeOK, ThreadsOK
<1>1. old.pc = "append" /\ Becomes(t, s) /\ UNCHANGED <<layers, dbPath, holder, captured>>
  BY DEF FailToRecord, Is
<1>2. holder = t /\ \A u \in Thread \ {t} : thread[u].pc \notin Inside
  BY <1>1, Alone DEF Inside
<1>3. /\ s \in HostThread /\ s.pc = "restore" /\ s.old = old.old /\ s.left = old.left
      /\ s.wrapped = old.wrapped /\ s.finished = old.finished /\ s.then = old.then
      /\ s.outcome = old.outcome /\ s.said = old.said /\ s.failed
      /\ s.pieces = old.pieces
  BY <1>0 DEF HostThread
<1> HIDE DEF s
<1>4. Sound(t, s)
  BY <1>0, <1>1, <1>3 DEF Sound, CallOK, Fits, Recording, Inside
<1>5. /\ thread' \in [Thread -> HostThread] /\ ThreadsOK'
      /\ thread'[t] = s /\ \A u \in Thread \ {t} : thread'[u] = thread[u]
  BY <1>1, <1>4, MoveKeepsThreads
<1>6. CaptureTypeOK'
  BY <1>1, <1>5 DEF CaptureInv, CaptureTypeOK
<1>7. LockOK'
  BY <1>1, <1>2, <1>3, <1>5
  DEF CaptureInv, LockOK, PathRestored, CapturedInProject, Inside
<1> QED BY <1>5, <1>6, <1>7 DEF CaptureInv

\* Inside, the last step gives back what the first took.
LEMMA RestoreKeepsInv ==
  ASSUME CaptureInv, NEW t \in Thread, RestorePath(t)
  PROVE  CaptureInv'
<1> DEFINE old == thread[t]
           heard == IF old.then = "over" THEN old.said ELSE old.heard
           s == [old EXCEPT !.left = 0, !.old = "none", !.pc = old.then, !.heard = heard]
<1>0. old \in HostThread /\ CallOK(old) /\ Fits(old, CapturedBy(t))
  BY DEF CaptureInv, CaptureTypeOK, ThreadsOK
<1>1. /\ old.pc = "restore" /\ old.left = 1 /\ old.then \in {"stream", "over"}
      /\ old.old = "host"
  BY <1>0 DEF RestorePath, Is, CallOK, Recording, Inside
<1>2. Becomes(t, s)
  <2> DEFINE rest == [old EXCEPT !.left = @ - 1, !.old = "none"]
  <2>1. rest = [old EXCEPT !.left = 0, !.old = "none"]
    BY <1>0, <1>1 DEF HostThread
  <2>2. rest.left = 0 /\ rest.then = old.then
    BY <1>0, <2>1 DEF HostThread
  <2>3. Record(t, rest, rest.outcome, rest.then)
    BY DEF RestorePath
  <2>4. Becomes(t, GoOn(rest, rest.then))
    BY <2>2, <2>3 DEF Record
  <2>5. GoOn(rest, rest.then) = s
    BY <1>0, <2>1, <2>2 DEF GoOn, HostThread
  <2> QED BY <2>4, <2>5
<1>3. dbPath' = "host" /\ holder' = Nobody /\ UNCHANGED <<layers, captured>>
  BY <1>1 DEF RestorePath
<1>4. holder = t /\ \A u \in Thread \ {t} : thread[u].pc \notin Inside
  BY <1>1, Alone DEF Inside
<1>a. heard \in Ending /\ (old.then = "over" => heard = old.said)
  BY <1>0 DEF HostThread
<1> HIDE DEF heard
<1>5. s \in HostThread
  <2> DEFINE rest == [old EXCEPT !.left = 0, !.old = "none"]
  <2>1. rest \in HostThread
    <3>1. ASSUME NEW n \in 0..1 PROVE [old EXCEPT !.left = n, !.old = "none"] \in HostThread
      BY <1>0 DEF HostThread
    <3>2. 0 \in 0..1
      OBVIOUS
    <3> QED BY <3>1, <3>2, Zenon
  <2>2. s = [rest EXCEPT !.pc = old.then, !.heard = heard]
    BY <1>0 DEF HostThread
  <2> HIDE DEF rest, s
  <2>3. old.then \in {"stream", "over"}
    BY <1>1
  <2> QED BY <1>a, <2>1, <2>2, <2>3 DEF HostThread
<1>6. /\ s.pc = old.then /\ s.left = 0
      /\ s.wrapped = old.wrapped /\ s.finished = old.finished
      /\ s.said = old.said /\ s.failed = old.failed /\ s.pieces = old.pieces
      /\ (old.then = "over" => s.heard = s.said)
  BY <1>0, <1>1, <1>a DEF HostThread
<1> HIDE DEF s
<1>7. Sound(t, s)
  BY <1>0, <1>1, <1>5, <1>6 DEF Sound, CallOK, Fits, Recording, Inside
<1>8. /\ thread' \in [Thread -> HostThread] /\ ThreadsOK'
      /\ thread'[t] = s /\ \A u \in Thread \ {t} : thread'[u] = thread[u]
  BY <1>2, <1>3, <1>7, MoveKeepsThreads
<1>9. CaptureTypeOK'
  BY <1>3, <1>8 DEF CaptureInv, CaptureTypeOK
<1>10. LockOK'
  BY <1>1, <1>3, <1>4, <1>6, <1>8
  DEF CaptureInv, LockOK, PathRestored, CapturedInProject, Inside
<1> QED BY <1>8, <1>9, <1>10 DEF CaptureInv

\* The receipt goes to the project and is the only one of its thread.
LEMMA AppendKeepsInv ==
  ASSUME CaptureInv, NEW t \in Thread, AppendCaptured(t)
  PROVE  CaptureInv'
<1> DEFINE old == thread[t]
           s == [old EXCEPT !.pc = "restore"]
           last == Len(captured) + 1
           r == [by |-> t, vault |-> dbPath, pieces |-> old.pieces, outcome |-> old.outcome]
<1>0. old \in HostThread /\ CallOK(old) /\ Fits(old, CapturedBy(t))
      /\ captured \in Seq(CapturedReceipt)
  BY DEF CaptureInv, CaptureTypeOK, ThreadsOK
<1>1. /\ old.pc = "append" /\ Becomes(t, s) /\ captured' = Append(captured, r)
      /\ UNCHANGED <<layers, dbPath, holder>>
  BY DEF AppendCaptured, Is
<1>2. holder = t /\ dbPath = "project" /\ \A u \in Thread \ {t} : thread[u].pc \notin Inside
  BY <1>1, Alone DEF Inside, CaptureInv, LockOK
<1>3. /\ s \in HostThread /\ s.pc = "restore" /\ s.old = old.old /\ s.left = old.left
      /\ s.wrapped = old.wrapped /\ s.finished = old.finished /\ s.then = old.then
      /\ s.outcome = old.outcome /\ s.said = old.said /\ s.pieces = old.pieces
  BY <1>0 DEF HostThread
<1>4. CapturedBy(t) = {} /\ old.outcome \in {"success", "error"}
      /\ (old.outcome = "error") = (old.said = "raised")
  BY <1>0, <1>1 DEF Fits, CallOK, Recording
<1>5. r \in CapturedReceipt
  BY <1>0, <1>2, <1>4 DEF CapturedReceipt, HostThread
<1>6. /\ captured' \in Seq(CapturedReceipt) /\ DOMAIN captured' = DOMAIN captured \cup {last}
      /\ last \notin DOMAIN captured
      /\ \A k \in DOMAIN captured : captured'[k] = captured[k]
      /\ captured'[last] = r
  <2> HIDE DEF r
  <2> QED BY <1>0, <1>1, <1>5
<1>7. r.by = t /\ r.vault = "project" /\ r.pieces = old.pieces /\ r.outcome = old.outcome
  BY <1>2
<1> HIDE DEF s, r, last
<1>8. CapturedBy(t)' = {last}
  BY <1>4, <1>6, <1>7 DEF CapturedBy
<1>9. \A u \in Thread \ {t} : CapturedBy(u)' = CapturedBy(u)
  BY <1>6, <1>7 DEF CapturedBy
<1>10. /\ thread' \in [Thread -> HostThread]
       /\ thread'[t] = s /\ \A u \in Thread \ {t} : thread'[u] = thread[u]
  BY <1>1, <1>3 DEF Becomes, CaptureInv, CaptureTypeOK
<1>11. ThreadsOK'
  <2>1. (CallOK(thread[t]) /\ Fits(thread[t], CapturedBy(t)))'
    <3>1. CallOK(s)
      BY <1>0, <1>1, <1>3 DEF CallOK, Recording, Inside
    <3>2. s.finished
      BY <1>0, <1>1, <1>3 DEF CallOK, Recording
    <3> QED BY <1>3, <1>4, <1>6, <1>7, <1>8, <1>10, <3>1, <3>2 DEF CallOK, Fits
  <2>2. ASSUME NEW u \in Thread \ {t}
        PROVE  (CallOK(thread[u]) /\ Fits(thread[u], CapturedBy(u)))'
    <3>1. CallOK(thread[u]) /\ Fits(thread[u], CapturedBy(u))
      BY DEF CaptureInv, ThreadsOK
    <3>2. \A k \in CapturedBy(u) : captured'[k] = captured[k]
      BY <1>6 DEF CapturedBy
    <3> QED BY <1>9, <1>10, <3>1, <3>2 DEF CallOK, Fits
  <2> QED BY <2>1, <2>2 DEF ThreadsOK
<1>12. CaptureTypeOK'
  BY <1>1, <1>6, <1>10 DEF CaptureInv, CaptureTypeOK
<1>13. LockOK'
  <2>1. CapturedInProject'
    BY <1>6, <1>7 DEF CaptureInv, LockOK, CapturedInProject
  <2> QED BY <1>1, <1>2, <1>3, <1>10, <2>1 DEF CaptureInv, LockOK, PathRestored, Inside
<1> QED BY <1>11, <1>12, <1>13 DEF CaptureInv

-----------------------------------------------------------------------------
(* The theorems *)

LEMMA CaptureStarts == CaptureAssumption /\ CaptureInit => CaptureInv
<1> SUFFICES ASSUME CaptureAssumption, CaptureInit PROVE CaptureInv
  OBVIOUS
<1>1. Unborn \in HostThread
  BY DEF CaptureAssumption, Unborn, HostThread, Ending
<1>2. CaptureTypeOK
  BY <1>1 DEF CaptureInit, CaptureTypeOK
<1>3. LockOK
  BY DEF CaptureInit, LockOK, PathRestored, CapturedInProject, Unborn, Inside
<1>4. \A t \in Thread : CapturedBy(t) = {}
  BY DEF CaptureInit, CapturedBy
<1>5. ThreadsOK
  BY <1>4 DEF CaptureInit, ThreadsOK, CallOK, Fits, Unborn, Recording, Inside
<1> QED BY <1>2, <1>3, <1>5 DEF CaptureInv

LEMMA CaptureSteps ==
  ASSUME CaptureAssumption, CaptureInv, [CaptureNext]_captureVars
  PROVE  CaptureInv'
<1>1. CASE UNCHANGED captureVars
  BY <1>1 DEF captureVars, CaptureInv, CaptureTypeOK, LockOK, PathRestored,
     CapturedInProject, ThreadsOK, CallOK, Fits, CapturedBy
<1>2. CASE Patch
  BY <1>2 DEF Patch, CaptureInv, CaptureTypeOK, LockOK, PathRestored,
     CapturedInProject, ThreadsOK, CallOK, Fits, CapturedBy
<1>3. ASSUME NEW t \in Thread, HostStep(t) PROVE CaptureInv'
  BY <1>3, HostStepKeepsInv
<1>4. ASSUME NEW t \in Thread, RecordStep(t) PROVE CaptureInv'
  BY <1>4, AcquireKeepsInv, SwapKeepsInv, AppendKeepsInv, FailKeepsInv, RestoreKeepsInv
  DEF RecordStep
<1> QED BY <1>1, <1>2, <1>3, <1>4 DEF CaptureNext

\* The invariant holds throughout, beside whatever the proxy does.
LEMMA CaptureInvHolds == RecordersSpec => []CaptureInv
<1>1. RecordersInit => CaptureInv
  BY CaptureStarts, CaptureAssumption DEF RecordersInit
<1>2. CaptureInv /\ [RecordersNext]_recordersVars => CaptureInv'
  <2>1. [RecordersNext]_recordersVars => [CaptureNext]_captureVars
    BY DEF RecordersNext, recordersVars, captureVars
  <2> QED BY <2>1, CaptureSteps, CaptureAssumption
<1> QED BY <1>1, <1>2, PTL DEF RecordersSpec

\* The threads and what they share stay well typed.
THEOREM CaptureTypes == RecordersSpec => []CaptureTypeOK
<1>1. CaptureInv => CaptureTypeOK
  BY DEF CaptureInv
<1> QED BY <1>1, CaptureInvHolds, PTL

\* The global path is the host's again after every recording, failed or not,
\* however many threads record.
THEOREM PathIsRestored == RecordersSpec => []PathRestored
<1>1. CaptureInv => PathRestored
  BY DEF CaptureInv, LockOK
<1> QED BY <1>1, CaptureInvHolds, PTL

\* No thread's receipt strays into the vault the host has chosen.
THEOREM CaptureStaysInProject == RecordersSpec => []CapturedInProject
<1>1. CaptureInv => CapturedInProject
  BY DEF CaptureInv, LockOK
<1> QED BY <1>1, CaptureInvHolds, PTL

\* One receipt per call or stream, of what was consumed, unless recording failed.
THEOREM CallsRecordedOnce == RecordersSpec => []OneReceiptPerCall
<1>1. CaptureInv => OneReceiptPerCall
  BY DEF CaptureInv, ThreadsOK, Fits, OneReceiptPerCall
<1> QED BY <1>1, CaptureInvHolds, PTL

\* Whatever recording does, the host sees what the provider did.
THEOREM HostSeesProvider == RecordersSpec => []HostUndisturbed
<1>1. CaptureInv => HostUndisturbed
  BY DEF CaptureInv, ThreadsOK, CallOK, HostUndisturbed, Is
<1> QED BY <1>1, CaptureInvHolds, PTL
=============================================================================
