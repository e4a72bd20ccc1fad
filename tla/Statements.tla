----------------------------- MODULE Statements -----------------------------
(***************************************************************************)
(* Receipts handed to others one by one: SCITT envelopes and bundles of    *)
(* them (dontlie.scitt), and verification links (dontlie.verify_url).      *)
(* Both are made with the key in the key files, which may have been        *)
(* replaced since the receipt was signed, and travel by themselves.        *)
(*                                                                         *)
(* Abstracted: a receipt's own fields are its id; a hash is what it is the *)
(* hash of; a key is a number, its public half and its id the same one.    *)
(***************************************************************************)
EXTENDS Naturals, Sequences, Functions

CONSTANTS MaxKeys, MaxReceipts   \* bounds: keys ever generated, receipts

VARIABLES
  signer,       \* the key in the key files
  receipts,     \* the vault: receipts[i] has id i
  packed,       \* build_scitt_bundle under way, or its document
  link          \* the last verification link, as it arrived

statementsVars == <<signer, receipts, packed, link>>

-----------------------------------------------------------------------------
(* Signatures *)

SignBytes(key, bytes) == [by |-> key, over |-> bytes]
VerifyBytes(key, bytes, signature) == signature = SignBytes(key, bytes)

\* Receipts before version 3 do not sign the operator, deployer and system.
Canonical(r) ==
  [id |-> r.id, key |-> r.key, version |-> r.version,
   identity |-> IF r.version >= 3 THEN r.identity ELSE "unsigned"]

NewReceipt(id, version) ==
  LET fields == [id |-> id, key |-> signer, version |-> version, identity |-> "operator"]
  IN [id |-> id, key |-> signer, version |-> version, identity |-> "operator",
      payload_sha256 |-> Canonical(fields), signature |-> SignBytes(signer, Canonical(fields))]

-----------------------------------------------------------------------------
NoBundle == [pc |-> "none"]

StatementsInit ==
  /\ signer = 1
  /\ receipts = <<>>
  /\ packed = NoBundle
  /\ link = [pc |-> "none"]

AppendSigned ==
  /\ Len(receipts) < MaxReceipts
  /\ \E version \in {2, 3} : receipts' = Append(receipts, NewReceipt(Len(receipts) + 1, version))
  /\ UNCHANGED <<signer, packed, link>>

\* The key files are put away and `gen-key` makes a new pair.
ReplaceSigner ==
  /\ signer < MaxKeys
  /\ signer' = signer + 1
  /\ UNCHANGED <<receipts, packed, link>>

-----------------------------------------------------------------------------
(* Envelopes *)

SigStructure(protected, payload) == <<"Signature1", protected, payload>>

Protected == "Ed25519, receipt hash"

\* The header names the receipt's key; the signature is the current key's.
EnvelopeForReceipt(r, key) ==
  [protected |-> Protected, payload |-> r.payload_sha256,
   unprotected |-> [kid |-> r.key, receipt_id |-> r.id, payload_sha256 |-> r.payload_sha256],
   signature |-> SignBytes(key, SigStructure(Protected, r.payload_sha256))]

VerifyEnvelopeSignature(envelope, key) ==
  /\ envelope.protected = Protected
  /\ VerifyBytes(key, SigStructure(envelope.protected, envelope.payload), envelope.signature)

\* _key_material: the keys of all receipts, and the current one.
KeyMaterial == {receipts[i].key : i \in DOMAIN receipts} \cup {signer}

\* build_scitt_bundle: the keys are read on one connection ...
BeginBundle ==
  /\ packed.pc = "none"
  /\ packed' = [pc |-> "keys", keys |-> KeyMaterial, rows |-> <<>>, envelopes |-> <<>>,
                from |-> Len(receipts), signers |-> <<>>]
  /\ UNCHANGED <<signer, receipts, link>>

\* ... the receipts on another ...
ListReceipts ==
  /\ packed.pc = "keys"
  /\ packed' = [packed EXCEPT !.pc = "rows", !.rows = receipts]
  /\ UNCHANGED <<signer, receipts, link>>

\* ... and each is wrapped by itself, with the key the files hold then.
\* signers is a history of these.
WrapNext ==
  /\ packed.pc = "rows"
  /\ Len(packed.envelopes) < Len(packed.rows)
  /\ LET r == packed.rows[Len(packed.envelopes) + 1] IN
     packed' = [packed EXCEPT !.envelopes = Append(@, EnvelopeForReceipt(r, signer)),
                              !.signers = Append(@, signer)]
  /\ UNCHANGED <<signer, receipts, link>>

WriteBundle ==
  /\ packed.pc = "rows" /\ Len(packed.envelopes) = Len(packed.rows)
  /\ packed' = [packed EXCEPT !.pc = "written"]
  /\ UNCHANGED <<signer, receipts, link>>

-----------------------------------------------------------------------------
(* Links *)

\* build_payload: the receipt's fields and canonical form, and the public key
\* in the key files.
BuildPayload(r) ==
  [receipt |-> r, body_canon |-> <<Canonical(r)>>, public_key |-> signer]

\* Fault variant: the canonical form that came with the link is what is checked.
VerifyCarriedForm(payload) ==
  \A canonical \in Range(payload.body_canon) :
    VerifyBytes(payload.public_key, canonical, payload.receipt.signature)

\* verify_payload_locally: the canonical form is derived from the fields, and
\* compared with the one that came along, if one did.
VerifyPayload(payload) ==
  /\ payload.body_canon \in {<<>>, <<Canonical(payload.receipt)>>}
  /\ VerifyBytes(payload.public_key, Canonical(payload.receipt), payload.receipt.signature)

\* What a link may have become where it is opened: one field is another.
Altered(r) ==
  {[r EXCEPT !.id = 0], [r EXCEPT !.key = 0], [r EXCEPT !.version = 5 - @],
   [r EXCEPT !.identity = "another"], [r EXCEPT !.payload_sha256.id = 0],
   [r EXCEPT !.signature.by = 0]}

Copies(payload) ==
  {payload, [payload EXCEPT !.public_key = 0], [payload EXCEPT !.body_canon = <<>>]}
    \cup {[payload EXCEPT !.receipt = r] : r \in Altered(payload.receipt)}

\* verify-url: the receipt is read, and encoded into a link that somebody opens.
SendLink ==
  /\ \E i \in DOMAIN receipts :
       LET payload == BuildPayload(receipts[i]) IN
       \E copy \in Copies(payload) :
         link' = [pc |-> "arrived", payload |-> copy,
                  intact |-> copy.receipt = payload.receipt /\ copy.public_key = payload.public_key]
  /\ UNCHANGED <<signer, receipts, packed>>

StatementsNext ==
  \/ AppendSigned \/ ReplaceSigner \/ SendLink
  \/ BeginBundle \/ ListReceipts \/ WrapNext \/ WriteBundle

-----------------------------------------------------------------------------
\* A version 2 receipt leaves its identity fields out of what is signed, and
\* the hash is shown but not looked at.
Bound(r) == {"id", "key", "version", "signature"} \cup (IF r.version >= 3 THEN {"identity"} ELSE {})

\* A link that was not changed verifies just when the receipt's key is still
\* the one in the key files, and one that verifies shows what the vault holds
\* in every field that is signed.
LinksHold ==
  link.pc = "arrived" =>
    LET shown == link.payload.receipt IN
    /\ link.intact =>
         (VerifyPayload(link.payload) <=> shown.key = link.payload.public_key)
    /\ VerifyPayload(link.payload) =>
         /\ shown.id \in DOMAIN receipts
         /\ \A field \in Bound(receipts[shown.id]) : shown[field] = receipts[shown.id][field]

\* A bundle, however the vault grows and the key is replaced beside it, holds
\* an envelope for every receipt there was when it was begun, in order and
\* each over its receipt's hash, signed by the key of its moment and by no
\* other; it has the keys of all those receipts.  If the key was never
\* replaced, it verifies out of itself.
BundleHolds ==
  packed.pc = "written" =>
    /\ Len(packed.envelopes) >= packed.from
    /\ \A i \in DOMAIN packed.envelopes :
         LET envelope == packed.envelopes[i] IN
         /\ envelope.unprotected.receipt_id = i /\ envelope.payload = receipts[i].payload_sha256
         /\ \A key \in 1..MaxKeys : VerifyEnvelopeSignature(envelope, key) <=> key = packed.signers[i]
         /\ i <= packed.from => receipts[i].key \in packed.keys
    /\ signer = 1 =>   \* the key was never replaced
         \A i \in DOMAIN packed.envelopes :
           /\ packed.envelopes[i].unprotected.kid \in packed.keys
           /\ VerifyEnvelopeSignature(packed.envelopes[i], packed.envelopes[i].unprotected.kid)
=============================================================================
