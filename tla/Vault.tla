------------------------------- MODULE Vault -------------------------------
(***************************************************************************)
(* The receipt vault: dontlie/storage.py over SQLite, with the two modules *)
(* that also write the receipts table, dontlie/namespace.py (delete) and   *)
(* dontlie/registry.py (attest).  Several clients (CLI invocations, proxy  *)
(* worker threads) work on one database file.  A step of this model is one *)
(* SQL statement or one transaction, because every connection is opened    *)
(* with isolation_level=None; whatever a client carries from one step to   *)
(* the next may be stale by then.                                          *)
(*                                                                         *)
(* Abstracted: prompt, response, model and timestamp are covered by the id *)
(* of a receipt, which is signed and never reused; SHA-256 and Ed25519 are *)
(* ideal (free constructors); a public key is named by its key id, and     *)
(* the key files are always whole here (SigningKey models them torn).      *)
(***************************************************************************)
EXTENDS Naturals, Sequences

CONSTANTS
  Client,       \* processes and threads that use the vault
  Namespaces,   \* namespace names in use
  Default,      \* the namespace "default"
  Keys,         \* key pairs that can be generated, named by their key id
  Tags,         \* tags the provider registry may add
  Operators,    \* values of DONTLIE_OPERATOR_ID in the clients' environments
  None,         \* SQL NULL / Python None
  MaxId         \* bound: receipts ever appended

ASSUME VaultAssumption ==
  /\ Default \in Namespaces
  /\ None \notin Namespaces \cup Keys \cup Nat
  /\ MaxId \in Nat
  /\ None \in Operators

VARIABLES
  rows,         \* table receipts: id -> row
  seq,          \* sqlite_sequence.seq of receipts (AUTOINCREMENT)
  names,        \* table namespaces: the registered names
  history,      \* table key_history: key id -> [pem, revoked]
  signer,       \* the key pair on disk, or None
  minted,       \* keys ever generated (a fresh key never equals an old one)
  client        \* what each client is doing

vars == <<rows, seq, names, history, signer, minted, client>>

-----------------------------------------------------------------------------
(* Receipts, hashes and signatures *)

Sha256(payload) == <<"sha256", payload>>
Sign(key, payload) == <<"ed25519", key, payload>>
VerifyBytes(pub, payload, sig) == sig = Sign(pub, payload)

\* The signed fields of row r stored under id i (_canonical_payload).
CanonicalPayload(i, r) ==
  [id |-> i, parent_id |-> r.parent_id, parent_sha |-> r.parent_sha,
   key_id |-> r.key_id, tags |-> r.tags, operator |-> r.operator]

RowFields == {"ns", "parent_id", "parent_sha", "key_id", "tags", "operator",
              "payload_sha256", "signature"}

Unsigned(o, n, k, parent) ==
  [ns |-> n, parent_id |-> parent,
   parent_sha |-> IF parent = None THEN None ELSE rows[parent].payload_sha256,
   key_id |-> k, tags |-> {}, operator |-> o,
   payload_sha256 |-> None, signature |-> None]

\* Fault variant: the row is sealed before its parent link is filled in.
SealTooEarly(i, r, k) ==
  LET p == CanonicalPayload(i, [r EXCEPT !.parent_id = None])
  IN  [r EXCEPT !.payload_sha256 = Sha256(p), !.signature = Sign(k, p)]

Seal(i, r, k) ==
  LET p == CanonicalPayload(i, r)
  IN  [r EXCEPT !.payload_sha256 = Sha256(p), !.signature = Sign(k, p)]

-----------------------------------------------------------------------------
(* Queries *)

Ids == DOMAIN rows
IdsIn(n) == {i \in Ids : rows[i].ns = n}

\* Fault variant: the head query loses its WHERE namespace = ? clause.
IsHeadOfVault(n, h) ==
  IF Ids = {} THEN h = None ELSE h \in Ids /\ \A j \in Ids : j <= h

\* SELECT id ... WHERE namespace = ? ORDER BY id DESC LIMIT 1
IsHead(n, h) ==
  IF IdsIn(n) = {} THEN h = None
  ELSE h \in IdsIn(n) /\ \A j \in IdsIn(n) : j <= h

\* Fault variant: ids come from the surviving rows, as without AUTOINCREMENT.
NextIdFromRows(h) ==
  IF Ids = {} THEN 1 ELSE (CHOOSE i \in Ids : \A j \in Ids : j <= i) + 1

\* Fault variant: the head id itself is handed out again.
NextIdNotAdvanced(h) == IF h # None /\ h > seq THEN h ELSE seq

\* max(expected_parent or 0, sqlite_sequence) + 1
NextId(h) == (IF h # None /\ h > seq THEN h ELSE seq) + 1

\* Fault variant: INSERT OR REPLACE, which also resets revoked_at.
RecordKeyReplacing(h, k, pem) ==
  [j \in DOMAIN h \cup {k} |->
     IF j = k THEN [pem |-> pem, revoked |-> FALSE] ELSE h[j]]

\* Fault variant: INSERT OR IGNORE, which leaves a missing public key missing.
RecordKeyOnce(h, k, pem) ==
  [j \in DOMAIN h \cup {k} |->
     IF j \in DOMAIN h THEN h[j] ELSE [pem |-> pem, revoked |-> FALSE]]

\* _record_key: insert, or fill in a missing public key (COALESCE).
RecordKey(h, k, pem) ==
  [j \in DOMAIN h \cup {k} |->
     IF j # k THEN h[j]
     ELSE IF k \notin DOMAIN h THEN [pem |-> pem, revoked |-> FALSE]
     ELSE [pem |-> IF h[k].pem # None THEN h[k].pem ELSE pem,
           revoked |-> h[k].revoked]]

-----------------------------------------------------------------------------
(* Verification: storage.verify_receipts over the rows of the whole vault *)

KeyMaterial == {k \in DOMAIN history : history[k].pem = k}
                 \cup (IF signer = None THEN {} ELSE {signer})
RevokedKeys == {k \in DOMAIN history : history[k].revoked}

IsPrevious(rs, i, p) ==
  /\ p \in DOMAIN rs /\ p < i
  /\ \A j \in DOMAIN rs : j < i => j <= p

\* Order and continuity of receipt i within the rows rs.
ChainIssue(rs, i) ==
  \/ /\ \A j \in DOMAIN rs : i <= j
     /\ i # 1 \/ rs[i].parent_id # None \/ rs[i].parent_sha # None
  \/ \E p \in DOMAIN rs :
       /\ IsPrevious(rs, i, p)
       /\ i # p + 1 \/ rs[i].parent_id # p
            \/ rs[i].parent_sha # rs[p].payload_sha256

\* Hash, revocation, key and signature of receipt i.
SealIssue(rs, i) ==
  LET p == CanonicalPayload(i, rs[i])
  IN  \/ rs[i].payload_sha256 # Sha256(p)
      \/ rs[i].key_id \in RevokedKeys
      \/ rs[i].key_id \notin KeyMaterial
      \/ ~VerifyBytes(rs[i].key_id, p, rs[i].signature)

\* Fault variant: the walk compares neighbours but forgets the first receipt.
VerifyReceiptsNoGenesis(rs) ==
  \A i \in DOMAIN rs :
    ~SealIssue(rs, i) /\ ((\E j \in DOMAIN rs : j < i) => ~ChainIssue(rs, i))

VerifyReceipts(rs) == \A i \in DOMAIN rs : ~ChainIssue(rs, i) /\ ~SealIssue(rs, i)

VerifyChainReport == VerifyReceipts(rows)

\* Fault variant: the parser of an exported receipt loses the tags.
FromMappingNoTags(r) == [r EXCEPT !.operator = None, !.tags = {}]

\* _receipt_from_mapping rebuilds a receipt without its identity fields.
FromMapping(r) == [r EXCEPT !.operator = None]

\* export_bundle followed by verify_export on the bundle's own keys.
VerifyExport == VerifyReceipts([i \in Ids |-> FromMapping(rows[i])])

-----------------------------------------------------------------------------
(* Clients *)

Idle == [pc |-> "idle", op |-> "none", ns |-> None, key |-> None,
         parent |-> None, row |-> None, tags |-> {}]

Init ==
  /\ rows = [i \in {} |-> None]
  /\ seq = 0
  /\ names = {}
  /\ history = [k \in {} |-> None]
  /\ signer = None
  /\ minted = {}
  /\ client = [c \in Client |-> Idle]

At(c, pc) == client[c].pc = pc
Become(c, state) == client' = [client EXCEPT ![c] = state]
Goto(c, pc) == Become(c, [client[c] EXCEPT !.pc = pc])

\* namespace.init() starts with a SELECT of the default namespace.
AfterSelect == IF Default \in names THEN "ready" ELSE "insert"

\* append() is called, with parent_id either omitted or the head the caller
\* has just looked up (its only legal value).  signing.load() finds the key,
\* or append goes on to signing.generate().
BeginAppend(c, n, parent) ==
  /\ At(c, "idle")
  /\ parent = None \/ IsHead(n, parent)
  /\ Become(c, [Idle EXCEPT !.pc = IF signer = None THEN "generate" ELSE AfterSelect,
                            !.op = "append", !.ns = n, !.parent = parent,
                            !.key = signer])
  /\ UNCHANGED <<rows, seq, names, history, signer, minted>>

\* signing.generate() replaces the key on disk; record_key is best effort.
GenerateKey(c, k) ==
  /\ At(c, "generate")
  /\ k \in Keys \ minted
  /\ signer' = k
  /\ minted' = minted \cup {k}
  /\ history' \in {history, RecordKey(history, k, None)}
  /\ Become(c, [client[c] EXCEPT !.pc = AfterSelect, !.key = k])
  /\ UNCHANGED <<rows, seq, names>>

\* namespace.create(n) and namespace.delete(n) call namespace.init() first.
BeginNamespaceOp(c, op, n) ==
  /\ At(c, "idle")
  /\ op = "delete" => n # Default
  /\ Become(c, [Idle EXCEPT !.pc = AfterSelect, !.op = op, !.ns = n])
  /\ UNCHANGED <<rows, seq, names, history, signer, minted>>

\* namespace.init() goes on to INSERT the missing default namespace; losing
\* that race is an IntegrityError, which ends the whole operation.
InitInsert(c) ==
  /\ At(c, "insert")
  /\ IF Default \in names THEN Become(c, Idle) ELSE Goto(c, "ready")
  /\ names' = names \cup {Default}
  /\ UNCHANGED <<rows, seq, history, signer, minted>>

\* The BEGIN IMMEDIATE ... COMMIT transaction of append().
CommitAppend(c) ==
  /\ At(c, "ready") /\ client[c].op = "append"
  /\ \E head \in Ids \cup {None}, o \in Operators :
       /\ IsHead(client[c].ns, head)
       /\ client[c].parent \in {None, head}
       /\ LET id == NextId(head)
              k  == client[c].key
              r  == Seal(id, Unsigned(o, client[c].ns, k, head), k)
          IN  /\ id <= MaxId
              /\ rows' = [i \in Ids \cup {id} |-> IF i = id THEN r ELSE rows[i]]
              /\ seq' = id
              /\ history' = RecordKey(history, k, k)
  /\ Become(c, Idle)
  /\ UNCHANGED <<names, signer, minted>>

\* The transaction finds that parent_id is no longer the head: ROLLBACK.
RejectParent(c) ==
  /\ At(c, "ready") /\ client[c].op = "append"
  /\ client[c].parent # None /\ ~IsHead(client[c].ns, client[c].parent)
  /\ Become(c, Idle)
  /\ UNCHANGED <<rows, seq, names, history, signer, minted>>

\* INSERT INTO namespaces; an existing name is an IntegrityError.
InsertNamespace(c) ==
  /\ At(c, "ready") /\ client[c].op = "create"
  /\ names' = names \cup {client[c].ns}
  /\ Become(c, Idle)
  /\ UNCHANGED <<rows, seq, history, signer, minted>>

\* delete() looks the namespace up; an unknown name is a ValueError.
FindNamespace(c) ==
  /\ At(c, "ready") /\ client[c].op = "delete"
  /\ IF client[c].ns \in names THEN Goto(c, "purge") ELSE Become(c, Idle)
  /\ UNCHANGED <<rows, seq, names, history, signer, minted>>

\* Fault variant: the purge stops at the newest receipt.
PurgeAllButHead(c) ==
  /\ At(c, "purge")
  /\ rows' = [i \in {j \in Ids : \/ rows[j].ns # client[c].ns
                                 \/ IsHead(client[c].ns, j)} |-> rows[i]]
  /\ Goto(c, "drop")
  /\ UNCHANGED <<seq, names, history, signer, minted>>

\* DELETE FROM receipts WHERE namespace = ? (autocommitted).
PurgeReceipts(c) ==
  /\ At(c, "purge")
  /\ rows' = [i \in {j \in Ids : rows[j].ns # client[c].ns} |-> rows[i]]
  /\ Goto(c, "drop")
  /\ UNCHANGED <<seq, names, history, signer, minted>>

\* DELETE FROM namespaces WHERE name = ?
DropNamespace(c) ==
  /\ At(c, "drop")
  /\ names' = names \ {client[c].ns}
  /\ Become(c, Idle)
  /\ UNCHANGED <<rows, seq, history, signer, minted>>

\* registry attest: get_receipt, match, and the new tag list in memory.
BeginAttest(c, i, t) ==
  /\ At(c, "idle")
  /\ i \in Ids /\ t \notin rows[i].tags
  /\ Become(c, [Idle EXCEPT !.pc = "retag", !.op = "attest", !.row = i,
                            !.tags = rows[i].tags \cup {t}])
  /\ UNCHANGED <<rows, seq, names, history, signer, minted>>

\* UPDATE receipts SET tags = ? WHERE id = ?, whatever happened since.
UpdateTags(c) ==
  /\ At(c, "retag")
  /\ rows' = IF client[c].row \notin Ids THEN rows
             ELSE [rows EXCEPT ![client[c].row].tags = client[c].tags]
  /\ Become(c, Idle)
  /\ UNCHANGED <<seq, names, history, signer, minted>>

\* Any exception on the way, or the death of the process: what the client
\* had not committed is rolled back or was never written.
Abort(c) ==
  /\ client[c].pc # "idle"
  /\ Become(c, Idle)
  /\ UNCHANGED <<rows, seq, names, history, signer, minted>>

\* revoke_key(): one upsert; the key need not be in key_history yet.
RevokeKey(k) ==
  /\ k \in minted
  /\ history' = [j \in DOMAIN history \cup {k} |->
                   IF j # k THEN history[j]
                   ELSE [pem |-> IF k \in DOMAIN history THEN history[k].pem
                                 ELSE None,
                         revoked |-> TRUE]]
  /\ UNCHANGED <<rows, seq, names, signer, minted, client>>

\* External: the operator removes the key files to rotate the key.
RemoveKeyFiles ==
  /\ signer # None
  /\ signer' = None
  /\ UNCHANGED <<rows, seq, names, history, minted, client>>

ClientStep(c) ==
  \/ \E n \in Namespaces, p \in Ids \cup {None} : BeginAppend(c, n, p)
  \/ \E k \in Keys : GenerateKey(c, k)
  \/ \E op \in {"create", "delete"}, n \in Namespaces : BeginNamespaceOp(c, op, n)
  \/ InitInsert(c)
  \/ CommitAppend(c)
  \/ RejectParent(c)
  \/ InsertNamespace(c)
  \/ FindNamespace(c)
  \/ PurgeReceipts(c)
  \/ DropNamespace(c)
  \/ \E i \in Ids, t \in Tags : BeginAttest(c, i, t)
  \/ UpdateTags(c)
  \/ Abort(c)

Next ==
  \/ \E c \in Client : ClientStep(c)
  \/ \E k \in Keys : RevokeKey(k)
  \/ RemoveKeyFiles

Spec == Init /\ [][Next]_vars

-----------------------------------------------------------------------------
(* Properties *)

RowOK(r) ==
  /\ r = [f \in RowFields |-> r[f]]
  /\ r.ns \in Namespaces
  /\ r.parent_id \in Nat \cup {None}
  /\ r.key_id \in Keys
  /\ r.tags \subseteq Tags

RowsOK ==
  /\ rows = [i \in Ids |-> rows[i]]
  /\ Ids \subseteq 1..seq
  /\ \A i \in Ids : RowOK(rows[i])

KeysOK ==
  /\ DOMAIN history \subseteq Keys
  /\ history \in [DOMAIN history -> [pem : Keys \cup {None}, revoked : BOOLEAN]]
  /\ signer \in minted \cup {None}
  /\ minted \subseteq Keys

\* An append holds a key as soon as it is past signing.generate().
StateOK(s, keys) ==
  /\ s \in [pc : {"idle", "generate", "insert", "ready", "purge", "drop", "retag"},
            op : {"none", "append", "create", "delete", "attest"},
            ns : Namespaces \cup {None}, key : keys \cup {None},
            parent : Nat \cup {None}, row : Nat \cup {None}, tags : SUBSET Tags]
  /\ s.op \in {"append", "create", "delete"} => s.ns \in Namespaces
  /\ s.op = "append" /\ s.pc # "generate" => s.key \in keys

ClientsOK ==
  /\ client = [c \in Client |-> client[c]]
  /\ \A c \in Client : StateOK(client[c], minted)

\* Types of the tables, the key on disk and the clients.
TypeOK ==
  /\ seq \in 0..MaxId
  /\ names \subseteq Namespaces
  /\ RowsOK
  /\ KeysOK
  /\ ClientsOK

\* Receipt i names the newest older receipt of its namespace and carries its
\* hash; only the oldest has no parent.
Linked(i) ==
  LET older == {j \in IdsIn(rows[i].ns) : j < i}
      p     == rows[i].parent_id
  IN  IF older = {} THEN p = None /\ rows[i].parent_sha = None
      ELSE /\ p \in older /\ \A j \in older : j <= p
           /\ rows[i].parent_sha = rows[p].payload_sha256

\* However appends, namespace deletions, aborts and key changes interleave,
\* the receipts of each namespace form one unforked chain (append's "single
\* continuous chain per-namespace").
NamespaceChains == \A i \in Ids : Linked(i)

\* What was hashed and signed is what is stored, but for tags that attest has
\* added since; the key that signed is the one the receipt names.
OnlyTagsDrift ==
  \A i \in Ids :
    \E t \in SUBSET rows[i].tags :
      LET p == CanonicalPayload(i, [rows[i] EXCEPT !.tags = t])
      IN  /\ rows[i].payload_sha256 = Sha256(p)
          /\ rows[i].signature = Sign(rows[i].key_id, p)

\* The signing key of every stored receipt has its public key in the vault,
\* under its own id: rotation or loss of the key files, revocation and
\* re-recording never make an old receipt unverifiable for want of a key.
KeysRetained ==
  \A i \in Ids :
    /\ rows[i].key_id \in DOMAIN history
    /\ history[rows[i].key_id].pem = rows[i].key_id

Retagged(i) == rows[i].tags # {}

\* verify_chain_report accepts the vault exactly when no receipt is missing
\* from the front or the middle, all receipts share one namespace, attest has
\* touched none of them, and no key that signed one is revoked.
VerifyExact ==
  VerifyChainReport <=>
    /\ \A i \in Ids : i = 1 \/ i - 1 \in Ids
    /\ \A i, j \in Ids : rows[i].ns = rows[j].ns
    /\ \A i \in Ids : ~Retagged(i)
    /\ \A i \in Ids : rows[i].key_id \notin RevokedKeys

\* A vault on which nothing was attested and no signing key revoked verifies,
\* whatever namespaces were written to and deleted (append keeps "a single
\* continuous chain per-namespace", namespace.py offers to "delete only their
\* namespace, not the whole vault").  The code does not guarantee this.
IntactVaultVerifies ==
  (\A i \in Ids : ~Retagged(i) /\ rows[i].key_id \notin RevokedKeys)
    => VerifyChainReport

\* An exported bundle verifies for its receiver exactly when the vault verifies
\* at home and no receipt asserts an identity field.
BundleAgrees ==
  VerifyExport <=> VerifyChainReport /\ \A i \in Ids : rows[i].operator = None

\* A receipt id that has been handed out and deleted never names another
\* receipt: batches and decisions refer to receipts by id alone.
NoResurrection ==
  [][\A i \in 1..seq : i \in DOMAIN rows' => i \in Ids]_vars

\* Revocation sticks and a recorded public key is never replaced, whichever
\* appends with that key race with revoke_key.
KeyHistoryMonotone ==
  [][\A k \in DOMAIN history :
       /\ k \in DOMAIN history'
       /\ history[k].revoked => history'[k].revoked
       /\ history[k].pem # None => history'[k].pem = history[k].pem]_vars

\* Once delete() has dropped a namespace, none of its receipts is left ("Delete
\* a namespace and ALL its receipts").  The code does not guarantee this.
DeleteLeavesNothing ==
  [][\A n \in names \ names' : \A i \in DOMAIN rows' : rows'[i].ns # n]_vars

\* What a namespace promises its readers, seen through the parent links from
\* its newest receipt: an append-only list that can only be dropped whole.
LinkedChain(n) ==
  LET walk[i \in Ids] ==
        IF rows[i].parent_id \in Ids /\ rows[i].parent_id < i
        THEN Append(walk[rows[i].parent_id], i) ELSE <<i>>
  IN  IF IdsIn(n) = {} THEN <<>> ELSE walk[CHOOSE h \in IdsIn(n) : IsHead(n, h)]

L == INSTANCE Ledger WITH chain <- [n \in Namespaces |-> LinkedChain(n)],
                          issued <- seq
ImplementsLedger == L!Spec
=============================================================================
