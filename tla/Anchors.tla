------------------------------ MODULE Anchors ------------------------------
(***************************************************************************)
(* dontlie.anchors: a manifest of checkpoints, each a receipt with the     *)
(* attestations outside parties gave for its digest.  It is built, written *)
(* to a file, perhaps damaged there, read again, upgraded when a pending   *)
(* OpenTimestamps proof is complete, and verified with whatever clients    *)
(* the reader has.                                                         *)
(*                                                                         *)
(* Abstracted: a digest is what it was taken of; times, notes, metadata    *)
(* and key ids are left out.                                               *)
(***************************************************************************)
EXTENDS Naturals, Sequences, FiniteSets

CONSTANTS
  Attestor,     \* identifiers of attestors
  Upgrader,     \* those of OpenTimestamps clients, which answer "pending"
  Subject,      \* receipts to be anchored
  NoManifest

\* What is signed, kept and handed on.
Shas == {"sha"} \X Subject
AnchorProofs == [attestor : Attestor, status : {"pending", "confirmed"}, digest : Shas]
AnchorAttestations ==
  [attestor : Attestor, status : {"pending", "confirmed"}, digest : Shas, proof : AnchorProofs]
AnchorCheckpoints == [receipt : Subject, sha : Shas, attestations : Seq(AnchorAttestations)]
Manifests ==
  [checkpoints : Seq(AnchorCheckpoints), digest : {"digest"} \X Seq(AnchorCheckpoints)]

ASSUME AnchorsAssumption ==
  Upgrader \subseteq Attestor /\ Subject \subseteq Nat /\ NoManifest \notin Manifests

VARIABLES
  manifest,     \* the manifest in memory
  document,     \* the manifest in the file
  granted,      \* history: <<receipt, attestor, status>> that were really given
  damaged,      \* history: the file was not what was written
  redigested    \* history: a damaged manifest was upgraded

anchorsVars == <<manifest, document, granted, damaged, redigested>>

-----------------------------------------------------------------------------
(* Attestors *)

AnchorProof(attestor, status, digest) == [attestor |-> attestor, status |-> status, digest |-> digest]

Attestation(attestor, status, digest) ==
  [attestor |-> attestor, status |-> status, digest |-> digest,
   proof |-> AnchorProof(attestor, status, digest)]

\* request() of the offline clients.
RequestStatus(attestor) == IF attestor \in Upgrader THEN "pending" ELSE "confirmed"
RequestAttestation(attestor, digest) == Attestation(attestor, RequestStatus(attestor), digest)

\* verify() of the offline clients: what the proof says, if it is the proof of
\* this attestor for this digest.
VerifyOffline(attestor, att, digest) ==
  IF /\ att.attestor = attestor /\ att.digest = digest
     /\ att.proof.attestor = attestor /\ att.proof.digest = digest
  THEN att.proof.status ELSE "inconclusive"

\* verify() of the network clients: a pending OpenTimestamps proof stays so,
\* for the rest they cannot say.
VerifyLive(attestor, att, digest) ==
  IF /\ att.attestor = attestor /\ att.digest = digest
     /\ attestor \in Upgrader /\ att.status = "pending"
  THEN "pending" ELSE "inconclusive"

\* upgrade(): only what is pending changes.
UpgradeAttestation(att) ==
  IF att.status = "pending" THEN Attestation(att.attestor, "confirmed", att.digest) ELSE att

-----------------------------------------------------------------------------
(* Manifests *)

\* attest_checkpoint, for one attestor after the other.
AttestCheckpoint(receipt, attestors) ==
  [receipt |-> receipt, sha |-> <<"sha", receipt>>,
   attestations |-> [k \in DOMAIN attestors |->
                       RequestAttestation(attestors[k], <<"sha", receipt>>)]]

\* checkpoint_digest: of all of the checkpoints, attestations included.
CheckpointDigest(checkpoints) == <<"digest", checkpoints>>

BuildManifest(checkpoints) ==
  [checkpoints |-> checkpoints, digest |-> CheckpointDigest(checkpoints)]

Upgraded(checkpoint, upgrader) ==
  [checkpoint EXCEPT !.attestations =
     [k \in DOMAIN @ |-> IF @[k].attestor = upgrader THEN UpgradeAttestation(@[k]) ELSE @[k]]]

\* Fault variant: the upgraded manifest keeps the digest it had.
UpgradeKeepsDigest(m, upgrader) ==
  [m EXCEPT !.checkpoints = [j \in DOMAIN @ |-> Upgraded(@[j], upgrader)]]

\* upgrade_manifest: the digest is taken anew, whether or not it was right.
UpgradeManifest(m, upgrader) ==
  BuildManifest([j \in DOMAIN m.checkpoints |-> Upgraded(m.checkpoints[j], upgrader)])

\* verify_manifest, with the clients the reader has: offline or network ones
\* by attestor, or none.
AttestationStatus(checkpoint, k, clients) ==
  LET att == checkpoint.attestations[k]
  IN  CASE clients[att.attestor] = "offline" -> VerifyOffline(att.attestor, att, checkpoint.sha)
        [] clients[att.attestor] = "network" -> VerifyLive(att.attestor, att, checkpoint.sha)
        [] clients[att.attestor] = "none"    -> "inconclusive"

WithStatus(m, clients, status) ==
  {at \in UNION {{j} \X DOMAIN m.checkpoints[j].attestations : j \in DOMAIN m.checkpoints} :
     AttestationStatus(m.checkpoints[at[1]], at[2], clients) = status}

VerifyManifest(m, clients) ==
  [ok |-> Cardinality({p[1] : p \in WithStatus(m, clients, "confirmed")}),
   bad |-> Cardinality(WithStatus(m, clients, "failed"))
             + (IF m.digest = CheckpointDigest(m.checkpoints) THEN 0 ELSE 1),
   pending |-> Cardinality(WithStatus(m, clients, "pending")),
   inconclusive |-> Cardinality(WithStatus(m, clients, "inconclusive"))
             + Cardinality({j \in DOMAIN m.checkpoints : m.checkpoints[j].attestations = <<>>})]

-----------------------------------------------------------------------------
AnchorsInit ==
  /\ manifest = NoManifest
  /\ document = NoManifest
  /\ granted = {}
  /\ damaged = FALSE
  /\ redigested = FALSE

Orders(set) == {seq \in UNION {[1..n -> set] : n \in 0..Cardinality(set)} :
                  \A a, b \in DOMAIN seq : seq[a] = seq[b] => a = b}

\* build_manifest_from_receipts, with offline clients.  A network client raises
\* AnchorError, and so does a manifest without receipts: then there is none.
BuildFromReceipts(receipts, attestors) ==
  /\ manifest = NoManifest /\ document = NoManifest
  /\ receipts # <<>>
  /\ manifest' = BuildManifest([j \in DOMAIN receipts |-> AttestCheckpoint(receipts[j], attestors)])
  /\ granted' = {<<receipts[j], attestors[k], RequestStatus(attestors[k])>> :
                   j \in DOMAIN receipts, k \in DOMAIN attestors}
  /\ UNCHANGED <<document, damaged, redigested>>

\* to_json, into a file; the program ends.
WriteDocument ==
  /\ manifest # NoManifest
  /\ document' = manifest
  /\ manifest' = NoManifest
  /\ UNCHANGED <<granted, damaged, redigested>>

\* parse_manifest: the shape is checked, the digest is taken as it is.
ReadDocument ==
  /\ manifest = NoManifest
  /\ document # NoManifest /\ document.checkpoints # <<>>
  /\ manifest' = document
  /\ UNCHANGED <<document, granted, damaged, redigested>>

Without(seq, j) == [i \in 1..(Len(seq) - 1) |-> IF i < j THEN seq[i] ELSE seq[i + 1]]

\* External: the file loses a checkpoint, or an attestation.
DamageDocument ==
  /\ manifest = NoManifest /\ document # NoManifest /\ ~damaged
  /\ \E j \in DOMAIN document.checkpoints :
       \/ document' = [document EXCEPT !.checkpoints = Without(@, j)]
       \/ \E k \in DOMAIN document.checkpoints[j].attestations :
            document' = [document EXCEPT !.checkpoints[j].attestations = Without(@, k)]
  /\ damaged' = TRUE
  /\ UNCHANGED <<manifest, granted, redigested>>

\* upgrade_manifest with an offline OpenTimestamps client; any other raises.
UpgradeWith(upgrader) ==
  /\ manifest # NoManifest
  /\ manifest' = UpgradeManifest(manifest, upgrader)
  /\ granted' = {<<g[1], g[2], IF g[2] = upgrader THEN "confirmed" ELSE g[3]>> : g \in granted}
  /\ redigested' = (redigested \/ damaged)
  /\ UNCHANGED <<document, damaged>>

AnchorsNext ==
  \/ \E receipts \in Orders(Subject), attestors \in Orders(Attestor) :
       BuildFromReceipts(receipts, attestors)
  \/ WriteDocument \/ ReadDocument \/ DamageDocument
  \/ \E upgrader \in Upgrader : UpgradeWith(upgrader)

-----------------------------------------------------------------------------
\* What was given by the attestors for which the reader has such a client.
Known(clients, kinds, status) == {g \in granted : clients[g[2]] \in kinds /\ g[3] = status}

\* Whoever verifies a manifest, with whichever clients: it is valid exactly if
\* nothing was lost between writing and reading (unless an upgrade has taken
\* the digest anew since), and an intact one counts as confirmed the receipts
\* an attestor of this reader has confirmed, before or by an upgrade, and as
\* pending the proofs that are; network clients confirm nothing.
ManifestAgrees ==
  manifest # NoManifest =>
    \A clients \in [Attestor -> {"none", "offline", "network"}] :
      LET result == VerifyManifest(manifest, clients)
      IN  /\ ~redigested => (result.bad = 0 <=> ~damaged)
          /\ ~damaged =>
               /\ result.ok = Cardinality({g[1] : g \in Known(clients, {"offline"}, "confirmed")})
               /\ result.pending = Cardinality(Known(clients, {"offline", "network"}, "pending"))
=============================================================================
