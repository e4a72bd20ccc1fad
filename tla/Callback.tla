------------------------------ MODULE Callback ------------------------------
(***************************************************************************)
(* DontlieCallback of dontlie_langchain: the prompts of a model call are   *)
(* put aside when the call starts and paired with its generations when it  *)
(* ends.  One callback object serves every call it was passed to, also     *)
(* those that other threads make; LangChain tells it nothing it implements *)
(* when a call fails.                                                      *)
(***************************************************************************)
EXTENDS Written

CONSTANTS
  LlmCall,      \* model calls of the program
  MaxPrompts    \* bound: prompts of a call

ASSUME CallbackAssumption == MaxPrompts \in Nat

VARIABLES
  pending,      \* _pending of the callback object
  llm,          \* the state of each call
  mixed         \* history: a call started while another one was under way

callbackVars == <<pending, llm, mixed>>

-----------------------------------------------------------------------------
NotCalled == [pc |-> "none", size |-> 0, pairs |-> <<>>, dropped |-> FALSE]

CallbackInit ==
  /\ pending = <<>>
  /\ llm = [c \in LlmCall |-> NotCalled]
  /\ mixed = FALSE

LlmAt(c, pc) == llm[c].pc = pc
LlmBecomes(c, state) == llm' = [llm EXCEPT ![c] = state]

Prompts(c, size) == [j \in 1..size |-> [call |-> c, place |-> j]]
Generations(c) == Prompts(c, llm[c].size)

UnderWay == {c \in LlmCall : LlmAt(c, "running")}

\* Fault variant: what is pending stays.
StartAdds(c) ==
  /\ LlmAt(c, "none")
  /\ \E size \in 1..MaxPrompts :
       /\ pending' = pending \o Prompts(c, size)
       /\ LlmBecomes(c, [NotCalled EXCEPT !.pc = "running", !.size = size])
  /\ mixed' = (mixed \/ UnderWay # {})

\* on_llm_start: the prompts replace what is pending.
OnLlmStart(c) ==
  /\ LlmAt(c, "none")
  /\ \E size \in 1..MaxPrompts :
       /\ pending' = Prompts(c, size)
       /\ LlmBecomes(c, [NotCalled EXCEPT !.pc = "running", !.size = size])
  /\ mixed' = (mixed \/ UnderWay # {})

\* The call fails, and the callback is not told.
LlmFails(c) ==
  /\ LlmAt(c, "running")
  /\ LlmBecomes(c, [llm[c] EXCEPT !.pc = "failed"])
  /\ UNCHANGED <<pending, mixed>>

\* zip(strict=False): as many pairs as the shorter list has members.
ZipPairs(prompts, answers) ==
  [j \in 1..(IF Len(prompts) < Len(answers) THEN Len(prompts) ELSE Len(answers))
     |-> [prompt |-> prompts[j], answer |-> answers[j]]]

\* on_llm_end: take what is pending, under the lock, and pair it.
OnLlmEnd(c) ==
  /\ LlmAt(c, "running")
  /\ LlmBecomes(c, [llm[c] EXCEPT !.pc = "recording", !.pairs = ZipPairs(pending, Generations(c))])
  /\ pending' = <<>>
  /\ UNCHANGED mixed

\* _record, one pair after the other; an error of the storage is swallowed.
RecordPair(c) ==
  /\ LlmAt(c, "recording") /\ llm[c].pairs # <<>>
  /\ \/ /\ AppendWritten(Receipt("callback", Head(llm[c].pairs)))
        /\ LlmBecomes(c, [llm[c] EXCEPT !.pairs = Tail(@)])
     \/ /\ LlmBecomes(c, [llm[c] EXCEPT !.pairs = Tail(@), !.dropped = TRUE])
        /\ UNCHANGED written
  /\ UNCHANGED <<pending, mixed>>

EndRecording(c) ==
  /\ LlmAt(c, "recording") /\ llm[c].pairs = <<>>
  /\ LlmBecomes(c, [llm[c] EXCEPT !.pc = "over"])
  /\ UNCHANGED <<pending, mixed>>

CallbackNext ==
  \E c \in LlmCall :
    \/ /\ OnLlmStart(c) \/ LlmFails(c) \/ OnLlmEnd(c) \/ EndRecording(c)
       /\ UNCHANGED written
    \/ RecordPair(c)

-----------------------------------------------------------------------------
PairsOf(c) == {i \in WrittenBy("callback") : written[i].says.answer.call = c}

\* Where calls do not overlap, a receipt holds the prompt its answer was given
\* to, and a call that is over has a receipt for each of its prompts unless
\* the storage refused one; a call that failed before has left nothing behind
\* that a later one could be paired with.
PromptsMatch ==
  ~mixed =>
    /\ \A i \in WrittenBy("callback") : written[i].says.prompt = written[i].says.answer
    /\ \A c \in LlmCall :
         LlmAt(c, "over") /\ ~llm[c].dropped =>
           {written[i].says.prompt.place : i \in PairsOf(c)} = 1..llm[c].size
=============================================================================
