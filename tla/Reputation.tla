----------------------------- MODULE Reputation -----------------------------
(***************************************************************************)
(* Public attestations (dontlie/reputation/core.py and cli.py): signed     *)
(* statements about one receipt, kept in a directory under the hash of     *)
(* their content, each file written once, and revocations beside them.     *)
(* Publishers run side by side and die halfway; the signing key is         *)
(* replaced in between.                                                    *)
(*                                                                         *)
(* Abstracted: an attestation is its own hash; a signature cannot be       *)
(* forged; links and prefixes name one attestation.  Time is in seconds,   *)
(* so that what is published twice in one second is one attestation.       *)
(***************************************************************************)
EXTENDS Ledger, FiniteSets

CONSTANTS
  Publisher,    \* processes that publish and revoke in one store
  RepKey,       \* signing keys
  Partial,      \* a file created and not yet written
  MaxClock,     \* bound: seconds
  MaxFiles      \* bound: attestations in the store, and revocations

ASSUME ReputationAssumption == MaxClock \in Nat /\ MaxFiles \in Nat /\ Partial \notin RepKey

VARIABLES
  clock,        \* the second it is
  ownKey,       \* the key in dontlie.key
  attested,     \* files under attestations/, by address
  revoked,      \* files under revocations/, by address
  publisher,    \* the state of each publisher
  announced     \* history: attestations and revocations that were acknowledged

reputationVars == <<clock, ownKey, attested, revoked, publisher, announced>>

-----------------------------------------------------------------------------
Waiting == [pc |-> "idle", receipt |-> 0, item |-> Partial]

NoFiles == [a \in {} |-> Partial]

ReputationInit ==
  /\ clock = 1
  /\ ownKey \in RepKey
  /\ attested = NoFiles /\ revoked = NoFiles
  /\ publisher = [p \in Publisher |-> Waiting]
  /\ announced = {}

PublisherAt(p, pc) == publisher[p].pc = pc
PublisherBecomes(p, state) == publisher' = [publisher EXCEPT ![p] = state]

Put(files, a, value) == [b \in DOMAIN files \cup {a} |-> IF b = a THEN value ELSE files[b]]

\* Attestation.verify: the times fit each other and the number of witnesses.
ValidAttestation(a, now) ==
  /\ a.issued <= now /\ a.corroborated <= a.issued
  /\ (a.witnesses = 0) <=> (a.corroborated = 0)

\* Revocation.verify: only the signer of an attestation can withdraw it.
ValidRevocation(r, a) == r.of = a /\ r.key = a.key

Stored == UNION {{chain[n][j] : j \in DOMAIN chain[n]} : n \in Namespaces}

-----------------------------------------------------------------------------
\* publish: the receipt must be there ...
FindReceipt(p) ==
  /\ PublisherAt(p, "idle") /\ Cardinality(DOMAIN attested) < MaxFiles
  /\ \E i \in Stored : PublisherBecomes(p, [Waiting EXCEPT !.pc = "tip", !.receipt = i])
  /\ UNCHANGED <<clock, ownKey, attested, revoked, announced>>

\* ... then the newest receipt of all is looked up and the attestation built.
ReadTip(p) ==
  /\ PublisherAt(p, "tip")
  /\ \/ /\ Stored = {}
        /\ PublisherBecomes(p, Waiting)
     \/ \E tip \in Stored, witnesses \in 0..1, corroborated \in 0..clock :
          LET a == [receipt |-> publisher[p].receipt, tip |-> tip, key |-> ownKey,
                    issued |-> clock, witnesses |-> witnesses, corroborated |-> corroborated]
          IN  /\ \A i \in Stored : i <= tip
              /\ ValidAttestation(a, clock)
              /\ PublisherBecomes(p, [publisher[p] EXCEPT !.pc = "create", !.item = a])
  /\ UNCHANGED <<clock, ownKey, attested, revoked, announced>>

\* Fault variant: a file that is there already is taken for the right one.
WriteOnceTrusting(files, state, item) ==
  IF item \in DOMAIN files
  THEN [files |-> files, next |-> Waiting, ok |-> TRUE]
  ELSE [files |-> Put(files, item, Partial), next |-> state, ok |-> FALSE]

\* _write_once: create the file, unless there is one, which must hold the same.
WriteOnce(files, state, item) ==
  IF item \in DOMAIN files
  THEN [files |-> files, next |-> Waiting, ok |-> files[item] # Partial]
  ELSE [files |-> Put(files, item, Partial), next |-> state, ok |-> FALSE]

Announce(ok, item) == announced' = IF ok THEN announced \cup {item} ELSE announced

PutAttestation(p) ==
  /\ PublisherAt(p, "create")
  /\ LET w == WriteOnce(attested, [publisher[p] EXCEPT !.pc = "write"], publisher[p].item)
     IN
       /\ attested' = w.files
       /\ PublisherBecomes(p, w.next)
       /\ Announce(w.ok, publisher[p].item)
  /\ UNCHANGED <<clock, ownKey, revoked>>

WriteAttestation(p) ==
  /\ PublisherAt(p, "write")
  /\ attested' = Put(attested, publisher[p].item, publisher[p].item)
  /\ Announce(TRUE, publisher[p].item)
  /\ PublisherBecomes(p, Waiting)
  /\ UNCHANGED <<clock, ownKey, revoked>>

\* resolve: an address whose file does not hold what it names is refused.
Resolves(a) == a \in DOMAIN attested /\ attested[a] = a

\* revoke: resolve, and sign with the key of the attestation.
BuildRevocation(p) ==
  /\ PublisherAt(p, "idle") /\ Cardinality(DOMAIN revoked) < MaxFiles
  /\ \E a \in DOMAIN attested :
       /\ Resolves(a) /\ ownKey = a.key
       /\ PublisherBecomes(p, [Waiting EXCEPT !.pc = "createrev",
                                 !.item = [of |-> a, key |-> ownKey, at |-> clock]])
  /\ UNCHANGED <<clock, ownKey, attested, revoked, announced>>

PutRevocation(p) ==
  /\ PublisherAt(p, "createrev")
  /\ LET w == WriteOnce(revoked, [publisher[p] EXCEPT !.pc = "writerev"], publisher[p].item)
     IN
       /\ revoked' = w.files
       /\ PublisherBecomes(p, w.next)
       /\ Announce(w.ok, publisher[p].item)
  /\ UNCHANGED <<clock, ownKey, attested>>

WriteRevocation(p) ==
  /\ PublisherAt(p, "writerev")
  /\ revoked' = Put(revoked, publisher[p].item, publisher[p].item)
  /\ Announce(TRUE, publisher[p].item)
  /\ PublisherBecomes(p, Waiting)
  /\ UNCHANGED <<clock, ownKey, attested>>

\* The process dies, or an error ends it.
KillPublisher(p) ==
  /\ ~PublisherAt(p, "idle")
  /\ PublisherBecomes(p, Waiting)
  /\ UNCHANGED <<clock, ownKey, attested, revoked, announced>>

\* A second passes.
Tick ==
  /\ clock < MaxClock
  /\ clock' = clock + 1
  /\ UNCHANGED <<ownKey, attested, revoked, publisher, announced>>

\* External: the operator puts another key in place.
ReplaceKey ==
  /\ ownKey' \in RepKey \ {ownKey}
  /\ UNCHANGED <<clock, attested, revoked, publisher, announced>>

PublisherStep(p) ==
  \/ FindReceipt(p) \/ ReadTip(p) \/ PutAttestation(p) \/ WriteAttestation(p)
  \/ BuildRevocation(p) \/ PutRevocation(p) \/ WriteRevocation(p)
  \/ KillPublisher(p)

ReputationNext == (\E p \in Publisher : PublisherStep(p)) \/ Tick \/ ReplaceKey

\* check: what valid_revocations finds.
Revoked(a) == \E r \in DOMAIN revoked : revoked[r] = r /\ ValidRevocation(r, a)

-----------------------------------------------------------------------------
(* Properties *)

\* What was acknowledged as published can be resolved, and what was
\* acknowledged as revoked is shown as revoked, for good: whoever published
\* the same at the same time, or died over the same file.
AnnouncedStays ==
  \A x \in announced : IF "of" \in DOMAIN x THEN Revoked(x.of) ELSE Resolves(x)
=============================================================================
