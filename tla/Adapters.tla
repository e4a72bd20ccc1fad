------------------------------ MODULE Adapters ------------------------------
(***************************************************************************)
(* The provider adapters of dontlie.protocols: which requests they accept, *)
(* and how a request of one provider is turned into one of the other.      *)
(*                                                                         *)
(* Abstracted: a message is its role, the kind of its content and the      *)
(* texts in it, by their places in the conversation; of the parameters     *)
(* those are kept that a conversion checks, renames or moves.              *)
(***************************************************************************)
EXTENDS Lists

CONSTANTS
  NoParam,      \* a parameter that is not given
  MaxMessages   \* bound: messages of a request

ASSUME AdaptersAssumption == NoParam # "bad" /\ MaxMessages \in Nat

VARIABLES
  asked,        \* a request
  default,      \* the caller's default_max_tokens
  sent          \* what it was turned into, and what that was turned into

adaptersVars == <<asked, default, sent>>

-----------------------------------------------------------------------------
(* What an adapter accepts *)

Message(role, content, texts) == [role |-> role, content |-> content, texts |-> texts]

\* Content is text, blocks of text, or more than text (an image, a tool's
\* result); an OpenAI message may hold tool calls.
Contents == {"text", "blocks", "more", "tool_calls"}

ValidOpenAI(request) == request.model # ""

\* max_tokens must be a positive integer; NoParam and 0 are none.
ValidAnthropic(request) ==
  /\ request.model # ""
  /\ request.max_tokens \notin {NoParam, 0}
  /\ \A j \in DOMAIN request.messages :
       /\ request.messages[j].role \in {"user", "assistant"}
       /\ request.messages[j].content # "tool_calls"

Valid(request) ==
  IF request.provider = "openai" THEN ValidOpenAI(request) ELSE ValidAnthropic(request)

\* Tool schemas are renamed; what is no function with a name is refused.
ConvertibleTools(tools) == tools \in {NoParam, "functions"}

-----------------------------------------------------------------------------
(* Conversions *)

Refusal == [provider |-> "none"]

JoinTexts(messages) ==
  LET Join == [j \in DOMAIN messages |-> [texts \in Seq(Nat) |-> texts \o messages[j].texts]]
  IN  Looped(Join, <<>>)

Speakers == {"system", "user", "assistant", "tool"}
InRole(messages, roles) ==
  {messages[j] : j \in {i \in DOMAIN messages : messages[i].role \in roles}}

\* The texts of the system messages, joined into one, if there are any.
JoinSystem(messages) ==
  LET parts == Omitting(messages, InRole(messages, Speakers \ {"system"}))
  IN  IF parts = <<>> THEN <<>> ELSE <<Message("system", "text", JoinTexts(parts))>>

Turns(messages) == Omitting(messages, InRole(messages, {"system"}))

\* max_completion_tokens goes before max_tokens, and both before the default.
MaxTokens(request, default_max) ==
  CASE request.max_completion_tokens # NoParam -> request.max_completion_tokens
    [] request.max_completion_tokens = NoParam /\ request.max_tokens # NoParam -> request.max_tokens
    [] OTHER -> default_max

\* A single stop string becomes a list of one.
StopList(stop) == IF stop = "string" THEN "list" ELSE stop

\* Fault variant: only a system message in front is moved.
SystemInFront(request, default_max) ==
  LET first == IF request.messages = <<>> THEN <<>> ELSE <<Head(request.messages)>>
      output ==
        [provider |-> "anthropic", model |-> request.model,
         system |-> JoinSystem(first), messages |-> Turns(request.messages),
         max_tokens |-> MaxTokens(request, default_max),
         stop |-> StopList(request.stop), tools |-> request.tools]
  IN  IF /\ ValidOpenAI(request)
         /\ \A j \in DOMAIN request.messages :
              /\ request.messages[j].role \in {"system", "user", "assistant"}
              /\ request.messages[j].content = "text"
         /\ request.stop # "bad" /\ ConvertibleTools(request.tools)
         /\ ValidAnthropic(output)
      THEN output ELSE Refusal

\* openai_to_anthropic_request: text only, in roles that have a counterpart;
\* the result must be valid.
OpenAIToAnthropic(request, default_max) ==
  LET output ==
        [provider |-> "anthropic", model |-> request.model,
         system |-> JoinSystem(request.messages), messages |-> Turns(request.messages),
         max_tokens |-> MaxTokens(request, default_max),
         stop |-> StopList(request.stop), tools |-> request.tools]
  IN  IF /\ ValidOpenAI(request)
         /\ \A j \in DOMAIN request.messages :
              /\ request.messages[j].role \in {"system", "user", "assistant"}
              /\ request.messages[j].content = "text"
         /\ request.stop # "bad" /\ ConvertibleTools(request.tools)
         /\ ValidAnthropic(output)
      THEN output ELSE Refusal

\* anthropic_to_openai_request: the system text becomes the first message,
\* blocks of text are joined.
AnthropicToOpenAI(request) ==
  IF /\ ValidAnthropic(request)
     /\ \A j \in DOMAIN request.system : request.system[j].content = "text"
     /\ \A j \in DOMAIN request.messages : request.messages[j].content \in {"text", "blocks"}
     /\ ConvertibleTools(request.tools)
  THEN [provider |-> "openai", model |-> request.model,
        messages |-> request.system
          \o [j \in DOMAIN request.messages |-> [request.messages[j] EXCEPT !.content = "text"]],
        max_tokens |-> request.max_tokens, max_completion_tokens |-> NoParam,
        stop |-> request.stop, tools |-> request.tools]
  ELSE Refusal

Converted(request, default_max) ==
  IF request.provider = "openai" THEN OpenAIToAnthropic(request, default_max)
                                 ELSE AnthropicToOpenAI(request)

-----------------------------------------------------------------------------
MessageLists(roles, contents) ==
  {[j \in DOMAIN shape |-> Message(shape[j][1], shape[j][2], <<j>>)] :
     shape \in UNION {[1..n -> roles \X contents] : n \in 0..MaxMessages}}

OpenAIRequests ==
  [provider : {"openai"}, model : {"", "m"},
   messages : MessageLists(Speakers, {"text", "blocks", "tool_calls"}),
   max_tokens : {NoParam, 0, 1}, max_completion_tokens : {NoParam, 2},
   stop : {NoParam, "string", "bad"}, tools : {NoParam, "functions", "other"}]

AnthropicRequests ==
  [provider : {"anthropic"}, model : {"", "m"},
   system : {<<>>} \cup {<<Message("system", content, <<0>>)>> : content \in {"text", "blocks"}},
   messages : MessageLists({"user", "assistant", "system"}, {"text", "blocks", "more"}),
   max_tokens : {NoParam, 0, 1}, stop : {NoParam, "list"}, tools : {NoParam, "functions", "other"}]

AdaptersInit ==
  /\ asked \in OpenAIRequests \cup AnthropicRequests
  /\ default \in {NoParam, 3}
  /\ sent = <<>>

\* A request is turned into one of the other provider, and that one back.
Translate ==
  /\ sent = <<>> \/ (Len(sent) = 1 /\ sent[1] # Refusal)
  /\ sent' = Append(sent, Converted(IF sent = <<>> THEN asked ELSE sent[1], default))
  /\ UNCHANGED <<asked, default>>

AdaptersNext == Translate

-----------------------------------------------------------------------------
\* What a request asks for, whichever provider it is written for.
Asks(request, default_max) ==
  LET openai == request.provider = "openai"
  IN  [system |-> JoinTexts(IF openai THEN JoinSystem(request.messages) ELSE request.system),
       turns |-> [j \in DOMAIN Turns(request.messages) |->
                    [role |-> Turns(request.messages)[j].role,
                     texts |-> Turns(request.messages)[j].texts]],
       limit |-> IF openai THEN MaxTokens(request, default_max) ELSE request.max_tokens,
       stop |-> StopList(request.stop), tools |-> request.tools]

\* A request that is converted, and converted back, is accepted by its
\* provider and asks for the same each time: every text of the conversation
\* once, from the same role and in the same order, the same limit, stops and
\* tools.  What one conversion made the other does not refuse.
ConversionKeeps ==
  /\ \A k \in DOMAIN sent :
       sent[k] # Refusal => Valid(sent[k]) /\ Asks(sent[k], default) = Asks(asked, default)
  /\ Len(sent) = 2 => sent[2] # Refusal
=============================================================================
