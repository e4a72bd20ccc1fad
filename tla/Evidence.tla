------------------------------ MODULE Evidence ------------------------------
(***************************************************************************)
(* Signed statements about receipts: dontlie/batch.py, decision.py and     *)
(* annotate.py.  The three create() functions check that the receipts      *)
(* exist, sign, and insert a row and one link row per receipt, each        *)
(* statement committed on its own; receipts are appended, namespaces       *)
(* deleted and keys lost in between.  Decisions and annotations differ     *)
(* only in their text ("note" here).  The receipts are a Ledger; the key   *)
(* files are one value, their races being the subject of SigningKey.       *)
(***************************************************************************)
EXTENDS Ledger, Merkle, Lists, FiniteSetsExt, SequencesExt

CONSTANTS
  Client,       \* processes that create evidence
  Keys, None,   \* key ids; no key
  Requests,     \* bound: what is asked for, kinds with sets of receipts
  MaxRows       \* bound: evidence rows

ASSUME EvidenceAssumption ==
  /\ None \notin Keys /\ MaxId \in Nat /\ MaxRows \in Nat \ {0}
  /\ Requests \subseteq [kind : {"batch", "note"}, ids : (SUBSET (1..MaxId)) \ {{}}]

VARIABLES
  active,       \* the key that sign.load() finds
  minted,       \* keys generated so far
  filed,        \* key_history: keys whose public key is on file
  row,          \* batches, decisions and annotations with their links
  given,        \* rows whose create() has returned
  job           \* what each client is doing

vars == <<chain, issued, active, minted, filed, row, given, job>>

-----------------------------------------------------------------------------
Idle == [pc |-> "idle", kind |-> "note", ids |-> {}, todo |-> {}, at |-> 0, key |-> None]

Init ==
  /\ LedgerInit
  /\ active = None /\ minted = {} /\ filed = {}
  /\ row = <<>> /\ given = {}
  /\ job = [c \in Client |-> Idle]

At(c, pc) == job[c].pc = pc
Become(c, state) == job' = [job EXCEPT ![c] = state]

\* storage.get_receipt(i) is not None.
Exists(i) == \E n \in Namespaces : i \in ToSet(chain[n])

\* The key at hand, or a new one if there is none.
KeyAtHand == IF active # None THEN {active} ELSE Keys \ minted
Use(key) == active' = key /\ minted' = minted \cup {key}

LeavesOf(ids) == [k \in 1..Cardinality(ids) |-> <<Nth(ids, k)>>]

-----------------------------------------------------------------------------
(* The vault around it *)

\* storage.append files the public key of the receipt it stores.
AppendReceipt(n) ==
  /\ Extend(n)
  /\ \E key \in KeyAtHand : Use(key) /\ filed' = filed \cup {key}
  /\ UNCHANGED <<row, given, job>>

DeleteNamespace(n) ==
  /\ chain[n] # <<>>
  /\ Drop(n)
  /\ UNCHANGED <<active, minted, filed, row, given, job>>

\* External: the key files and the keychain entry are gone.  (If only the
\* private file is, append still finds the key and create() generates one: as
\* if the entry had gone with it, just before that.)
LoseKey ==
  /\ active # None
  /\ active' = None
  /\ UNCHANGED <<chain, issued, minted, filed, row, given, job>>

-----------------------------------------------------------------------------
(* create() *)

Elsewhere == UNCHANGED <<chain, issued, active, minted, filed>>

Begin(c, asked) ==
  /\ At(c, "idle")
  /\ Become(c, [Idle EXCEPT !.pc = "check", !.kind = asked.kind,
                            !.ids = asked.ids, !.todo = asked.ids])
  /\ Elsewhere /\ UNCHANGED <<row, given>>

\* The first receipt on the list is looked up: on to the next, and after the
\* last to the given point; a receipt that is not there ends the attempt.
LookUpNext(c, then) ==
  LET rest == job[c].todo \ {Min(job[c].todo)}
  IN  Become(c, IF ~Exists(Min(job[c].todo)) THEN Idle
                ELSE IF rest # {} THEN [job[c] EXCEPT !.todo = rest]
                ELSE [job[c] EXCEPT !.pc = then, !.todo = job[c].ids])

CheckReceipt(c) ==
  /\ At(c, "check")
  /\ LookUpNext(c, IF job[c].kind = "batch" THEN "hash" ELSE "sign")
  /\ Elsewhere /\ UNCHANGED <<row, given>>

\* A batch reads its receipts again, for their hashes.
HashReceipt(c) ==
  /\ At(c, "hash")
  /\ LookUpNext(c, "sign")
  /\ Elsewhere /\ UNCHANGED <<row, given>>

\* The key is generated if it is missing; unlike append, nobody files it.
SignEvidence(c) ==
  /\ At(c, "sign")
  /\ \E key \in KeyAtHand :
       Use(key) /\ Become(c, [job[c] EXCEPT !.pc = "insert", !.key = key])
  /\ UNCHANGED <<chain, issued, filed, row, given>>

InsertRow(c) ==
  /\ At(c, "insert") /\ Len(row) < MaxRows
  /\ row' = Append(row, [kind |-> job[c].kind, key |-> job[c].key, sealed |-> job[c].ids,
                         root |-> IF job[c].kind = "batch" THEN MerkleRoot(LeavesOf(job[c].ids))
                                  ELSE <<>>,
                         links |-> {}])
  /\ Become(c, [job[c] EXCEPT !.pc = "link", !.at = Len(row')])
  /\ Elsewhere /\ UNCHANGED given

\* Fault variant: the last receipt is not linked.
InsertAllButLast(c) ==
  /\ At(c, "link")
  /\ LET next == Min(job[c].todo)
         rest == job[c].todo \ {next}
     IN  /\ row' = IF rest = {} THEN row ELSE [row EXCEPT ![job[c].at].links = @ \cup {next}]
         /\ given' = IF rest = {} THEN given \cup {job[c].at} ELSE given
         /\ Become(c, IF rest = {} THEN Idle ELSE [job[c] EXCEPT !.todo = rest])
  /\ Elsewhere

\* One link row per receipt; after the last one create() returns.
InsertLink(c) ==
  /\ At(c, "link")
  /\ LET next == Min(job[c].todo)
         rest == job[c].todo \ {next}
     IN  /\ row' = [row EXCEPT ![job[c].at].links = @ \cup {next}]
         /\ given' = IF rest = {} THEN given \cup {job[c].at} ELSE given
         /\ Become(c, IF rest = {} THEN Idle ELSE [job[c] EXCEPT !.todo = rest])
  /\ Elsewhere

\* The process dies, or SQLite raises: what was inserted stays.
Crash(c) ==
  /\ ~At(c, "idle")
  /\ Become(c, Idle)
  /\ Elsewhere /\ UNCHANGED <<row, given>>

Create(c) ==
  \/ \E asked \in Requests : Begin(c, asked)
  \/ CheckReceipt(c) \/ HashReceipt(c) \/ SignEvidence(c)
  \/ InsertRow(c) \/ InsertLink(c)
  \/ Crash(c)

Next ==
  \/ \E c \in Client : Create(c)
  \/ \E n \in Namespaces : AppendReceipt(n) \/ DeleteNamespace(n)
  \/ LoseKey

EvidenceSpec == Init /\ [][Next]_vars

-----------------------------------------------------------------------------
(* Verification, which only reads *)

Rows == DOMAIN row
Findable(key) == key = active \/ key \in filed

\* Fault variant: receipt_ids is not part of the canonical payload.
SealHoldsAnyway(e) == Findable(row[e].key)

\* The signature covers the receipt ids; the payload is rebuilt from the links.
SealHolds(e) == Findable(row[e].key) /\ row[e].links = row[e].sealed

\* verify(): the receipts are there, the root is theirs, the signature holds.
\* A batch without any links makes merkle_root raise.
Verifies(e) ==
  /\ \A i \in row[e].links : Exists(i)
  /\ row[e].kind = "batch" =>
       row[e].links # {} /\ MerkleRoot(LeavesOf(row[e].links)) = row[e].root
  /\ SealHolds(e)

\* prove(): the path of a receipt within a batch.
Proof(e, i) ==
  LET leaves == LeavesOf(row[e].links)
      index  == (CHOOSE k \in DOMAIN leaves : leaves[k] = <<i>>) - 1
  IN  VerifyMerklePath(<<i>>, index, MerklePath(leaves, index), row[e].root)

-----------------------------------------------------------------------------
(* Properties *)

AllThere(e) == \A i \in row[e].sealed : Exists(i)

\* Whatever happens while it is created, evidence that create() returned
\* verifies as long as its receipts are there and its key can be found; and
\* evidence that is still being linked is not accepted yet, so that no reader
\* takes a part of the receipts for what was signed.
GivenVerifies ==
  \A e \in given : AllThere(e) /\ Findable(row[e].key) => Verifies(e)
PartIsRefused ==
  \A e \in Rows :
    (\E c \in Client : At(c, "link") /\ job[c].at = e) => ~Verifies(e)
VerifiesWhenWhole == GivenVerifies /\ PartIsRefused

\* The path that prove() returns for a receipt of a verified batch leads to
\* the signed root.
ProofsLead ==
  \A e \in Rows :
    row[e].kind = "batch" /\ Verifies(e) => \A i \in row[e].links : Proof(e, i)

\* Evidence about receipts that are there verifies ("Look up the public key
\* for this key_id (active or historical)").  The code does not guarantee it.
EvidenceOutlivesKey == \A e \in given : AllThere(e) => Verifies(e)
=============================================================================
