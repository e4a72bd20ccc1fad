-------------------------------- MODULE Tail --------------------------------
(***************************************************************************)
(* dontlie tail --follow (dontlie/tail.py): a process that prints the      *)
(* newest receipts of a namespace and then looks every few seconds whether *)
(* there are more.  It compares COUNTS to decide and IDS to choose what to *)
(* print, in two separate queries, while others append to and delete from  *)
(* the vault, of which it sees no more than Ledger says.                   *)
(***************************************************************************)
EXTENDS Ledger, Lists

CONSTANTS
  Follower,     \* tail processes
  Last          \* the option --last

ASSUME TailAssumption == Last \in Nat

VARIABLES
  tail,         \* the state of each process
  dropped       \* history: namespaces from which receipts were ever deleted

tailVars == <<tail, dropped>>

-----------------------------------------------------------------------------
NotStarted == [pc |-> "new", ns |-> "none", last |-> 0, current |-> 0,
               seen |-> {}, out |-> <<>>]

TailInit ==
  /\ tail = [f \in Follower |-> NotStarted]
  /\ dropped = {}

TailAt(f, pc) == tail[f].pc = pc

\* list_receipts(limit = k) of a namespace with these ids: newest first.
Newest(ids, k) ==
  [j \in 1..(IF k < Len(ids) THEN k ELSE Len(ids)) |-> ids[Len(ids) + 1 - j]]

RangeOf(ids) == {ids[j] : j \in DOMAIN ids}

\* Fault variant: what is printed is not added to the seen ids.
EmitUnmarked(state, ids) ==
  [state EXCEPT !.out = @ \o Omitting(ids, state.seen)]

\* Print, in this order, what has not been printed.
Emit(state, ids) ==
  [state EXCEPT !.seen = @ \cup RangeOf(ids),
                !.out = @ \o Omitting(ids, state.seen)]

\* dump_recent(), whose result, the number of receipts printed, is last_count.
Start(f, n) ==
  /\ TailAt(f, "new")
  /\ tail' = [tail EXCEPT ![f] =
       [Emit([NotStarted EXCEPT !.ns = n], Newest(chain[n], Last))
          EXCEPT !.pc = "poll", !.last = Len(Newest(chain[n], Last))]]
  /\ UNCHANGED dropped

\* current = storage.count(): go on if it is larger than last_count, else sleep.
Count(f) ==
  /\ TailAt(f, "poll")
  /\ Len(chain[tail[f].ns]) > tail[f].last
  /\ tail' = [tail EXCEPT ![f].pc = "list", ![f].current = Len(chain[tail[f].ns])]
  /\ UNCHANGED dropped

\* Fault variant: counts again after listing, which may be too late.
ListThenCount(f) ==
  /\ TailAt(f, "list")
  /\ tail' = [tail EXCEPT ![f] =
       [Emit(tail[f], Newest(chain[tail[f].ns], tail[f].current))
          EXCEPT !.pc = "poll", !.last = Len(chain[tail[f].ns]), !.current = 0]]
  /\ UNCHANGED dropped

\* list_receipts(limit=current), of the namespace as it is now; then
\* last_count = current.
List(f) ==
  /\ TailAt(f, "list")
  /\ tail' = [tail EXCEPT ![f] =
       [Emit(tail[f], Newest(chain[tail[f].ns], tail[f].current))
          EXCEPT !.pc = "poll", !.last = tail[f].current, !.current = 0]]
  /\ UNCHANGED dropped

\* Ctrl-C, a closed pipe, or an exception from SQLite ends the process.
StopTail(f) ==
  /\ tail[f].pc \in {"poll", "list"}
  /\ tail' = [tail EXCEPT ![f].pc = "over"]
  /\ UNCHANGED dropped

Poll(f) == Count(f) \/ List(f)

TailStep(f) == (\E n \in Namespaces : Start(f, n)) \/ Poll(f) \/ StopTail(f)

\* What a deletion looks like from here.
NoteDrop(n) ==
  /\ dropped' = dropped \cup (IF chain[n] # <<>> THEN {n} ELSE {})
  /\ UNCHANGED tail

-----------------------------------------------------------------------------
(* Properties *)

\* A receipt is printed once, however the listings overlap.
PrintedOnce ==
  \A f \in Follower : Cardinality(RangeOf(tail[f].out)) = Len(tail[f].out)

\* Every receipt of the namespace is printed sooner or later, unless the
\* follower stops or receipts are deleted (also those older than --last).
EverythingPrinted ==
  \A f \in Follower, i \in 1..MaxId :
    (\E n \in Namespaces : tail[f].ns = n /\ i \in RangeOf(chain[n]))
      ~> (i \in tail[f].seen \/ tail[f].ns \in dropped \/ TailAt(f, "over"))
=============================================================================
