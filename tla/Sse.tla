-------------------------------- MODULE Sse --------------------------------
(***************************************************************************)
(* SSEDecoder of dontlie.protocols: server-sent events out of the bytes of *)
(* a stream, however the network cuts them.                                *)
(*                                                                         *)
(* Abstracted: a byte is CR, LF, the colon that begins a comment, or Data, *)
(* any other one; a field is its line; event types and ids are left out.   *)
(***************************************************************************)
EXTENDS Lists

CONSTANTS
  Cr, Lf, Colon, Data,
  MaxBytes      \* bound: length of a stream

ASSUME SseAssumption == Cr # Lf /\ Colon \notin {Cr, Lf} /\ MaxBytes \in Nat

VARIABLES
  stream,       \* the bytes of the answer
  fed,          \* how many of them have been fed
  sseBuffer,    \* _buffer of the decoder
  events,       \* what it has returned so far
  finished      \* finish() was called

sseVars == <<stream, fed, sseBuffer, events, finished>>

-----------------------------------------------------------------------------
Byte == {Cr, Lf, Colon, Data}
Line == Seq(Byte)
Event == Seq(Line)

Delimiters == {<<Cr, Lf, Cr, Lf>>, <<Lf, Lf>>, <<Cr, Cr>>}

\* Where a delimiter begins, and how long it is.
Boundaries(data) ==
  {b \in (1..Len(data)) \X {2, 4} :
     b[1] + b[2] - 1 <= Len(data) /\ SubSeq(data, b[1], b[1] + b[2] - 1) \in Delimiters}

\* _next_sse_boundary: the first one.
NextBoundary(data) == CHOOSE b \in Boundaries(data) : \A c \in Boundaries(data) : b[1] <= c[1]

\* What ends a line in a frame: LF, or CR unless it is the CR of CR LF.
EndsLine(frame, j) ==
  \/ frame[j] = Lf
  \/ frame[j] = Cr /\ ~(j < Len(frame) /\ frame[j + 1] = Lf)

\* An empty line and a comment say nothing.
Noted(lines, line) == IF line = <<>> \/ line[1] = Colon THEN lines ELSE Append(lines, line)
EventOf(lines) == IF lines = <<>> THEN <<>> ELSE <<lines>>

\* replace and split: the lines of a frame that say something.
LinesOf(frame) ==
  LET Read == [j \in DOMAIN frame |->
                 [state \in [lines : Event, line : Line] |->
                    CASE EndsLine(frame, j) ->
                           [lines |-> Noted(state.lines, state.line), line |-> <<>>]
                      [] ~EndsLine(frame, j) /\ frame[j] = Cr -> state
                      [] OTHER -> [state EXCEPT !.line = Append(@, frame[j])]]]
      last == Looped(Read, [lines |-> <<>>, line |-> <<>>])
  IN  Noted(last.lines, last.line)

\* _parse_sse_frame: the data lines; no event without any.
ParseFrame(frame) == EventOf(LinesOf(frame))

\* Fault variant: a frame is looked for in the latest chunk only.
FeedChunk(chunk) ==
  /\ LET frames == IF Boundaries(chunk) = {} THEN <<chunk>>
                   ELSE <<SubSeq(chunk, 1, NextBoundary(chunk)[1] - 1),
                          SubSeq(chunk, NextBoundary(chunk)[1] + NextBoundary(chunk)[2], Len(chunk))>>
     IN  /\ events' = IF Len(frames) = 2 THEN events \o ParseFrame(frames[1]) ELSE events
         /\ sseBuffer' = frames[Len(frames)]
  /\ fed' = fed + Len(chunk)
  /\ UNCHANGED <<stream, finished>>

\* The loop of feed(): frames up to the last delimiter, and what is left.
\* Each turn takes one frame off; a buffer has fewer frames than bytes.
TakeFrame(state) ==
  IF Boundaries(state.rest) = {} THEN state
  ELSE LET b == NextBoundary(state.rest)
       IN  [rest |-> SubSeq(state.rest, b[1] + b[2], Len(state.rest)),
            got |-> state.got \o ParseFrame(SubSeq(state.rest, 1, b[1] - 1))]

TakeFrames(data) ==
  LET Turns == [turn \in DOMAIN data |->
                  [state \in [rest : Seq(Byte), got : Seq(Event)] |-> TakeFrame(state)]]
  IN  Looped(Turns, [rest |-> data, got |-> <<>>])

\* feed(): the chunk joins the buffer.
Feed(chunk) ==
  /\ LET taken == TakeFrames(sseBuffer \o chunk)
     IN  /\ events' = events \o taken.got
         /\ sseBuffer' = taken.rest
  /\ fed' = fed + Len(chunk)
  /\ UNCHANGED <<stream, finished>>

\* finish(): what is left is a frame, if it is more than white space.
Finish ==
  /\ fed = Len(stream) /\ ~finished
  /\ events' = events \o ParseFrame(sseBuffer)
  /\ sseBuffer' = <<>>
  /\ finished' = TRUE
  /\ UNCHANGED <<stream, fed>>

SseInit ==
  /\ stream \in UNION {[1..n -> Byte] : n \in 0..MaxBytes}
  /\ fed = 0
  /\ sseBuffer = <<>>
  /\ events = <<>>
  /\ finished = FALSE

SseNext ==
  \/ \E n \in (fed + 1)..Len(stream) : Feed(SubSeq(stream, fed + 1, n))
  \/ Finish

-----------------------------------------------------------------------------
\* decode_sse: everything in one chunk.
DecodeSse(data) ==
  LET taken == TakeFrames(data) IN taken.got \o ParseFrame(taken.rest)

\* The rule of the standard for a stream whose lines all end in the same way:
\* an empty line ends an event.
Uniform(data) ==
  \/ \A j \in DOMAIN data : data[j] # Cr
  \/ \A j \in DOMAIN data : data[j] # Lf
  \/ \A j \in DOMAIN data : /\ data[j] = Cr => j < Len(data) /\ data[j + 1] = Lf
                            /\ data[j] = Lf => j > 1 /\ data[j - 1] = Cr

ByLines(data) ==
  LET Read == [j \in DOMAIN data |->
                 [state \in [done : Seq(Event), open : Event, line : Line] |->
                    CASE EndsLine(data, j) /\ state.line = <<>> ->
                           [done |-> state.done \o EventOf(state.open), open |-> <<>>, line |-> <<>>]
                      [] EndsLine(data, j) /\ state.line # <<>> ->
                           [done |-> state.done, open |-> Noted(state.open, state.line), line |-> <<>>]
                      [] ~EndsLine(data, j) /\ data[j] = Cr -> state
                      [] OTHER -> [state EXCEPT !.line = Append(@, data[j])]]]
      last == Looped(Read, [done |-> <<>>, open |-> <<>>, line |-> <<>>])
  IN  last.done \o EventOf(Noted(last.open, last.line))

\* However a stream is cut into chunks, the decoder returns the events of the
\* stream read in one go, and where the ends of lines are not mixed these are
\* the events of the standard, and what is left unfinished at the end.
ChunksInvisible ==
  finished => /\ events = DecodeSse(stream)
              /\ Uniform(stream) => events = ByLines(stream)
=============================================================================
