----------------------------- MODULE Timestamp -----------------------------
(***************************************************************************)
(* dontlie.anchor: an RFC 3161 timestamp for an export bundle.  A request  *)
(* with a nonce goes to a timestamp authority, is sent again once if the   *)
(* network fails, and its answer is parsed and put into the bundle; later  *)
(* the bundle, which has perhaps changed, is verified under the pins of    *)
(* that day.                                                               *)
(*                                                                         *)
(* Abstracted: a digest is what it was taken of; a certificate is a value; *)
(* DER is left out but for INTEGER, whose digits are to the base Base (256 *)
(* in the code), because the encoder gets the sign wrong.                  *)
(***************************************************************************)
EXTENDS Integers, Sequences, SequencesExt

CONSTANTS
  Tsa,          \* names in the table of authorities
  DefaultTsa,   \* "freetsa"
  TsaUrl,       \* URLs of authorities
  StaticUrl,    \* by name: the URL in the table
  Cert,         \* certificates of authorities, by their digests
  NoValue,      \* None
  Base,         \* how many values a digit of an INTEGER has
  Nonce,        \* nonces that are drawn
  MaxChanges,   \* bound: changes of bundle, pins and certificates
  MaxAnchors    \* bound: requests

ASSUME TimestampAssumption ==
  /\ DefaultTsa \in Tsa /\ StaticUrl \in [Tsa -> TsaUrl]
  /\ NoValue \notin Cert \cup TsaUrl /\ NoValue \notin [url : TsaUrl, certs : SUBSET Cert]
  /\ Base \in Nat /\ Base > 1 /\ Nonce \subseteq 0..(Base * Base - 1)
  /\ Cert \subseteq Nat /\ MaxChanges \in Nat /\ MaxAnchors \in Nat

VARIABLES
  bundle,       \* the export bundle: its content and its attestations
  pins,         \* _TABLE: by name, URL and pins
  expired,      \* certificates whose time is over
  request,      \* the call of anchor_bundle under way
  made,         \* history: what each attestation was made of, and under which pins
  changes       \* changes so far

timestampVars == <<bundle, pins, expired, request, made, changes>>

-----------------------------------------------------------------------------
(* INTEGER *)

\* The digits of a number below Base * Base, and the number they stand for.
DigitsOf(n) == IF n < Base THEN <<n>> ELSE <<n \div Base, n % Base>>
ValueOf(digits) == FoldLeft(LAMBDA value, digit : value * Base + digit, 0, digits)

SignDigit(digit) == 2 * digit >= Base

\* _encode_integer: the digit that is to keep a number from being negative is
\* put behind the last one, and if that one looks like a sign.
EncodeInteger(n) ==
  LET body == DigitsOf(n) IN IF SignDigit(body[Len(body)]) THEN Append(body, 0) ELSE body

\* _decode_integer: two's complement.
DecodeInteger(body) ==
  IF SignDigit(body[1]) THEN ValueOf(body) - Base ^ Len(body) ELSE ValueOf(body)

\* What an authority echoes.
Echoed(nonce) == DecodeInteger(EncodeInteger(nonce))

-----------------------------------------------------------------------------
(* Pins *)

TableAtStart == [name \in Tsa |-> [url |-> StaticUrl[name], certs |-> {}]]

\* _load_env_pins, at the import: pins from the environment are added, and
\* DONTLIE_TSA_URL replaces the URL of the default authority.
LoadEnvPins(override, env) ==
  [name \in Tsa |->
     [url |-> IF name = DefaultTsa /\ override # NoValue THEN override ELSE StaticUrl[name],
      certs |-> TableAtStart[name].certs \cup env[name]]]

\* Between two calls something changes.
Change ==
  /\ request = NoValue /\ changes < MaxChanges
  /\ changes' = changes + 1
  /\ UNCHANGED <<request, made>>

\* A new process, perhaps with another environment.
Restart ==
  /\ Change
  /\ \E override \in TsaUrl \cup {NoValue}, env \in [Tsa -> SUBSET Cert] :
       pins' = LoadEnvPins(override, env)
  /\ UNCHANGED <<bundle, expired>>

SetPin(name, cert) ==
  /\ Change
  /\ pins' = [pins EXCEPT ![name].certs = @ \cup {cert}]
  /\ UNCHANGED <<bundle, expired>>

ClearPins(name) ==
  /\ Change
  /\ pins' = [pins EXCEPT ![name].certs = {}]
  /\ UNCHANGED <<bundle, expired>>

Named(url) == {name \in Tsa : pins[name].url = url}

\* find_by_url: the first entry with that URL.
FindByUrl(url) ==
  IF Named(url) = {} THEN NoValue
  ELSE pins[IF DefaultTsa \in Named(url) THEN DefaultTsa ELSE CHOOSE name \in Named(url) : TRUE]

PinsOf(url) == IF Named(url) = {} THEN {} ELSE FindByUrl(url).certs

\* _pin_for_url: the least of the pins, whichever certificate the authority uses.
PinForUrl(url) ==
  LET entry == FindByUrl(url)
  IN  IF entry = NoValue \/ entry.certs = {} THEN NoValue
      ELSE CHOOSE pin \in entry.certs : \A other \in entry.certs : pin <= other

-----------------------------------------------------------------------------
(* anchor_bundle *)

\* Fault variant: the digest covers the attestations.
CanonicalWithAttestations == <<bundle.content, bundle.attestations>>

\* canonical_bundle_bytes: the bundle without its attestations.
CanonicalBundle == <<bundle.content>>

TimestampInit ==
  /\ bundle = [content |-> 0, attestations |-> <<>>]
  /\ pins \in {LoadEnvPins(NoValue, env) : env \in [Tsa -> SUBSET Cert]}
  /\ expired = {}
  /\ request = NoValue
  /\ made = <<>>
  /\ changes = 0

\* build_timestamp_request over the digest, with eight random bytes.
Ask(url, nonce) ==
  /\ request = NoValue /\ Len(made) < MaxAnchors
  /\ request' = [url |-> url, imprint |-> CanonicalBundle, nonce |-> nonce, attempt |-> 1]
  /\ UNCHANGED <<bundle, pins, expired, made, changes>>

\* Skipped with a warning, or given up with an exception that is no
\* TimestampError: in both cases the bundle is as it was.
EndWithout ==
  /\ request' = NoValue
  /\ UNCHANGED <<bundle, pins, expired, made, changes>>

\* _post_tsr: what the network does wrong is tried once more; an HTTP status
\* is not.
NetworkFails ==
  /\ request # NoValue
  /\ \/ /\ request.attempt = 1
        /\ request' = [request EXCEPT !.attempt = 2]
        /\ UNCHANGED <<bundle, pins, expired, made, changes>>
     \/ request.attempt = 2 /\ EndWithout

HttpError == request # NoValue /\ EndWithout

\* An answer of the authority: granted or not, with or without a certificate,
\* with the nonce it was sent, none or another one, with TSTInfo plain, with
\* a UTCTime, or in an OCTET STRING (as RFC 3161 has it).
Answers ==
  [granted : BOOLEAN, cert : Cert \cup {NoValue}, imprint : {request.imprint, NoValue},
   nonce : {Echoed(request.nonce), NoValue, 0},
   form : {"plain", "utc", "wrapped"}]

\* parse_response raises something else than TimestampError ...
Unreadable(answer) ==
  answer.granted /\ \/ answer.form # "plain"
                    \/ answer.nonce # NoValue /\ answer.nonce < 0

\* ... or TimestampError, which _extract_tst_info_and_cert comes before.
Refused(answer) ==
  \/ ~answer.granted
  \/ answer.imprint # request.imprint
  \/ answer.nonce # request.nonce

\* The attestation that goes into the bundle.
AttestationOf(answer) ==
  [url |-> request.url, pin |-> PinForUrl(request.url), imprint |-> request.imprint,
   nonce |-> answer.nonce,
   token |-> [cert |-> answer.cert, imprint |-> answer.imprint, nonce |-> answer.nonce]]

Receive(answer) ==
  /\ request # NoValue
  /\ \/ (Unreadable(answer) \/ Refused(answer)) /\ EndWithout
     \/ /\ ~Unreadable(answer) /\ ~Refused(answer)
        /\ bundle' = [bundle EXCEPT !.attestations = Append(@, AttestationOf(answer))]
        /\ made' = Append(made, [content |-> bundle.content, certs |-> PinsOf(request.url)])
        /\ request' = NoValue
        /\ UNCHANGED <<pins, expired, changes>>

\* The bundle is exported again with other receipts.
ChangeBundle ==
  /\ Change
  /\ bundle' = [bundle EXCEPT !.content = @ + 1]
  /\ UNCHANGED <<pins, expired>>

CertExpires(cert) ==
  /\ Change
  /\ expired' = expired \cup {cert}
  /\ UNCHANGED <<bundle, pins>>

TimestampNext ==
  \/ \E url \in TsaUrl, nonce \in Nonce : Ask(url, nonce)
  \/ NetworkFails \/ HttpError
  \/ request # NoValue /\ \E answer \in Answers : Receive(answer)
  \/ ChangeBundle \/ Restart
  \/ \E cert \in Cert : CertExpires(cert) \/ \E name \in Tsa : SetPin(name, cert)
  \/ \E name \in Tsa : ClearPins(name)

-----------------------------------------------------------------------------
(* verify_attestation; the signature of the token is not checked, only that *)
(* the pinned certificate is in it and valid today.                         *)
VerifyAttestation(att) ==
  LET entry == FindByUrl(att.url)
  IN  /\ att.pin # NoValue
      /\ att.imprint = CanonicalBundle
      /\ att.token.imprint = CanonicalBundle
      /\ att.token.cert # NoValue /\ att.token.cert = att.pin
      /\ entry # NoValue /\ att.token.cert \in entry.certs
      /\ att.token.cert \notin expired
      /\ att.nonce = att.token.nonce

\* An attestation in the bundle verifies on the days on which the receipts in
\* the bundle are those it was made of and its certificate is valid and pinned
\* for its URL, and on no other, whatever was attested, exported or pinned
\* since; it must have been made under that one pin.
TimestampHolds ==
  \A j \in DOMAIN bundle.attestations :
    LET att == bundle.attestations[j]
        entry == FindByUrl(att.url)
        holds == /\ made[j].content = bundle.content
                 /\ entry # NoValue /\ att.token.cert \in entry.certs \ expired
    IN  /\ VerifyAttestation(att) => holds
        /\ holds /\ made[j].certs = {att.token.cert} => VerifyAttestation(att)
=============================================================================
