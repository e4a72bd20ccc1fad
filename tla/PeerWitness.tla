---------------------------- MODULE PeerWitness ----------------------------
(***************************************************************************)
(* dontlie.groundtruth: an operator asks a witness to sign that it saw a   *)
(* receipt's digest, a verifier with a list of witness keys judges what    *)
(* the witness signed, and the operator signs that a blind probe went the  *)
(* route of the receipt.  Requests and attestations are JSON that others   *)
(* carry, as late and as often as they like, and may damage.               *)
(*                                                                         *)
(* Abstracted: the fields that are only copied (provider, model, nonce and *)
(* so on) are one, `claim`.                                                *)
(***************************************************************************)
EXTENDS Naturals

CONSTANTS
  Claim,        \* what a request, a receipt or a probe says
  Operator,     \* signs requests and route attestations
  Witness,      \* sign attestations; those the verifier knows:
  KnownWitness,
  Unsigned,     \* an empty signature
  Ttl,          \* ttl_seconds
  MaxTime       \* bound: time

\* What is signed, and what then travels: requests, attestations and routes.
PeerRequest(signature) ==
  [pc : {"built"}, claim : Claim, expires_at : Nat, signature : signature]
RequestSignatures == [by : {Operator}, over : PeerRequest({Unsigned})]
PeerRequests == PeerRequest(RequestSignatures \cup {Unsigned})
PeerAttestation(signature) ==
  [pc : {"attested"}, request : PeerRequests, claim : Claim, witness : Witness,
   observed_at : Nat, signature : signature]
AttestationSignatures == [by : Witness, over : PeerAttestation({Unsigned})]
PeerRoute(signature) == [pc : {"signed"}, receipt : Claim, probe : Claim, signature : signature]
RouteSignatures == [by : {Operator}, over : PeerRoute({Unsigned})]

ASSUME PeerAssumption ==
  /\ KnownWitness \subseteq Witness /\ Operator \notin Witness
  /\ Ttl \in Nat /\ MaxTime \in Nat
  /\ Unsigned \notin RequestSignatures /\ Unsigned \notin AttestationSignatures
  /\ Unsigned \notin RouteSignatures

VARIABLES
  time,        \* seconds, the same for everybody
  asking,      \* the operator's request
  attestation,  \* the last attestation a witness signed
  judged,       \* the last attestation a verifier judged, what it was, and when
  runner,       \* a runner is attached to the blind probe
  route         \* the last route attestation, and the last verdict on one

peerVars == <<time, asking, attestation, judged, runner, route>>

Nothing == [pc |-> "none"]

PeerInit ==
  /\ time = 0 /\ asking = Nothing /\ attestation = Nothing /\ judged = Nothing
  /\ runner = FALSE /\ route = Nothing

-----------------------------------------------------------------------------
(* Signatures, over the canonical JSON without the signature field *)

\* Fault variant: of the request only its claim, copied outside, is signed.
UnsealedFlat(document) ==
  IF "request" \in DOMAIN document
  THEN [document EXCEPT !.signature = Unsigned, !.request.expires_at = 0]
  ELSE [document EXCEPT !.signature = Unsigned]

Unsealed(document) == [document EXCEPT !.signature = Unsigned]

Signed(document, key) ==
  [document EXCEPT !.signature = [by |-> key, over |-> Unsealed(document)]]

SignedBy(document, key) ==
  document.signature # Unsigned /\ document.signature = Signed(document, key).signature

IsExpired(r) == time >= r.expires_at

PassTime ==
  /\ time < MaxTime /\ time' = time + 1
  /\ UNCHANGED <<asking, attestation, judged, runner, route>>

\* build_signed_request
BuildSignedRequest ==
  /\ asking = Nothing
  /\ \E claim \in Claim :
       asking' = Signed([pc |-> "built", claim |-> claim, expires_at |-> time + Ttl,
                          signature |-> Unsigned], Operator)
  /\ UNCHANGED <<time, attestation, judged, runner, route>>

\* A request as it may arrive at a witness.
ArrivedRequests ==
  {asking, [asking EXCEPT !.signature = Unsigned]}
    \cup {[asking EXCEPT !.claim = claim] : claim \in Claim}
    \cup {[asking EXCEPT !.expires_at = t] : t \in 0..MaxTime}

\* InProcessWitness.attest: a request that has a signature (whose, and whether
\* it fits, is left to the verifier) and has not expired.  OfflineWitness and
\* RemoteHTTPWitness refuse every request.
AttestRequest(w) ==
  /\ asking # Nothing
  /\ \E r \in ArrivedRequests :
       /\ r.signature # Unsigned /\ ~ IsExpired(r)
       /\ attestation' = Signed([pc |-> "attested", request |-> r, claim |-> r.claim, witness |-> w,
                                 observed_at |-> time, signature |-> Unsigned], w)
  /\ UNCHANGED <<time, asking, judged, runner, route>>

ArrivedAttestations ==
  {attestation, [attestation EXCEPT !.signature = Unsigned]}
    \cup {[attestation EXCEPT !.claim = claim] : claim \in Claim}
    \cup {[attestation EXCEPT !.request.claim = claim] : claim \in Claim}
    \cup {[attestation EXCEPT !.witness = w] : w \in Witness}
    \cup {[attestation EXCEPT !.request.expires_at = t] : t \in 0..MaxTime}

\* WitnessVerifier.verify
VerifyPeer(a) ==
  a.witness \in KnownWitness /\ ~ IsExpired(a.request) /\ SignedBy(a, a.witness)

\* WitnessVerifier.verify_request, with the operator's public key
VerifyRequest(r) == ~ IsExpired(r) /\ SignedBy(r, Operator)

Judge ==
  /\ attestation # Nothing
  /\ \E a \in ArrivedAttestations :
       judged' = [pc |-> "judged", at |-> time, ok |-> VerifyPeer(a),
                  ofOperator |-> VerifyRequest(a.request),
                  shown |-> a, signed |-> attestation]
  /\ UNCHANGED <<time, asking, attestation, runner, route>>

-----------------------------------------------------------------------------
(* Routes *)

\* attach_runner, reset_runner
SetRunner ==
  /\ \E attached \in BOOLEAN : runner' = attached
  /\ UNCHANGED <<time, asking, attestation, judged, route>>

\* BlindProbe.run is refused without a runner; attest_receipt signs the
\* receipt's id and hash with what the probe says.
AttestReceipt ==
  /\ runner
  /\ \E receipt, probe \in Claim :
       route' = Signed([pc |-> "signed", receipt |-> receipt, probe |-> probe,
                        signature |-> Unsigned], Operator)
  /\ UNCHANGED <<time, asking, attestation, judged, runner>>

\* verify_route_attestation, of an attestation that may have been changed,
\* against a receipt and a probe the verifier has.
VerifyRoute(a, receipt, probe) ==
  a.receipt = receipt /\ a.probe = probe /\ SignedBy(a, Operator)

JudgeRoute ==
  /\ route.pc = "signed"
  /\ \E receipt, probe, r, p \in Claim :
       route' = [pc |-> "judged", signed |-> route, receipt |-> receipt, probe |-> probe,
                 ok |-> VerifyRoute([route EXCEPT !.receipt = r, !.probe = p], receipt, probe)]
  /\ UNCHANGED <<time, asking, attestation, judged, runner>>

PeerNext == PassTime \/ BuildSignedRequest \/ Judge \/ \E w \in Witness : AttestRequest(w)

\* Routes have nothing in common with requests and attestations.
RouteNext == SetRunner \/ AttestReceipt \/ JudgeRoute

-----------------------------------------------------------------------------
\* An attestation is accepted just when it arrived as a known witness signed
\* it, and the request it carries has not expired; then it was signed before
\* that too.  If the request verifies as well, it is the operator's, and the
\* claim is what the operator claimed: nothing on the way, late or damaged,
\* passes for it.  A route verifies just for the receipt and the probe it was
\* signed for.
PeersHold ==
  /\ judged.pc = "judged" =>
       /\ judged.ok <=> /\ judged.shown = judged.signed
                        /\ judged.signed.witness \in KnownWitness
                        /\ judged.at < judged.signed.request.expires_at
       /\ judged.ok => /\ judged.signed.observed_at <= judged.at
                       /\ judged.signed.claim = judged.signed.request.claim
       /\ judged.ok /\ judged.ofOperator =>
            judged.signed.request = asking /\ judged.shown.claim = asking.claim
  /\ route.pc = "judged" /\ route.ok =>
       route.signed.receipt = route.receipt /\ route.signed.probe = route.probe
=============================================================================
