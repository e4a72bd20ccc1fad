---------------------------- MODULE VaultProofs ----------------------------
(* Theorems about Vault for every set of clients, namespaces, keys and tags. *)
EXTENDS Vault, Wellorder

\* A sealed receipt has exactly the columns of the table, the values append
\* gave it, and a hash and signature over those values.
LEMMA SealedRow ==
  ASSUME NEW o, NEW n, NEW k, NEW parent, NEW id, NEW r,
         r = Seal(id, Unsigned(o, n, k, parent), k)
  PROVE  /\ r = [f \in RowFields |-> r[f]]
         /\ r.ns = n /\ r.parent_id = parent /\ r.key_id = k /\ r.tags = {}
         /\ r.operator = o
         /\ r.parent_sha = IF parent = None THEN None ELSE rows[parent].payload_sha256
         /\ r.payload_sha256 = Sha256(CanonicalPayload(id, r))
         /\ r.signature = Sign(k, CanonicalPayload(id, r))
<1> DEFINE u == Unsigned(o, n, k, parent)
           p == CanonicalPayload(id, u)
<1>1. /\ u.ns = n /\ u.parent_id = parent /\ u.key_id = k /\ u.tags = {}
      /\ u.operator = o
      /\ u.parent_sha = IF parent = None THEN None ELSE rows[parent].payload_sha256
      /\ u = [f \in RowFields |-> u[f]]
  BY DEF Unsigned, RowFields
<1>2. r = [u EXCEPT !.payload_sha256 = Sha256(p), !.signature = Sign(k, p)]
  BY DEF Seal
<1> HIDE DEF u, p
<1>3. /\ r = [f \in RowFields |-> r[f]]
      /\ r.ns = u.ns /\ r.parent_id = u.parent_id /\ r.key_id = u.key_id
      /\ r.tags = u.tags /\ r.operator = u.operator /\ r.parent_sha = u.parent_sha
      /\ r.payload_sha256 = Sha256(p) /\ r.signature = Sign(k, p)
  BY <1>1, <1>2 DEF RowFields
<1>4. CanonicalPayload(id, r) = p
  BY <1>3 DEF CanonicalPayload, p
<1> QED BY <1>1, <1>3, <1>4

-----------------------------------------------------------------------------
(* What one step does to the clients *)

\* A step that moves one client to a well-typed state leaves all well typed.
LEMMA ClientMoves ==
  ASSUME ClientsOK, NEW c \in Client, NEW s, Become(c, s),
         minted \subseteq minted', StateOK(s, minted')
  PROVE  ClientsOK'
<1>1. client' = [d \in Client |-> client'[d]]
  BY DEF ClientsOK, Become
<1>2. ASSUME NEW d \in Client PROVE StateOK(client'[d], minted')
  <2>1. CASE d = c
    BY <2>1 DEF ClientsOK, Become
  <2>2. CASE d # c
    <3>1. client'[d] = client[d]
      BY <2>2 DEF ClientsOK, Become
    <3>2. StateOK(client[d], minted)
      BY DEF ClientsOK
    <3> QED BY <3>1, <3>2 DEF StateOK
  <2> QED BY <2>1, <2>2
<1> QED BY <1>1, <1>2 DEF ClientsOK

\* The idle state is well typed.
LEMMA IdleOK == ASSUME NEW keys PROVE StateOK(Idle, keys)
BY DEF StateOK, Idle

\* Moving the program counter keeps a client well typed, except that an
\* append may not leave "generate" this way.
LEMMA GotoOK ==
  ASSUME NEW s, NEW keys, StateOK(s, keys), s.pc # "generate",
         NEW pc \in {"insert", "ready", "purge", "drop"}
  PROVE  StateOK([s EXCEPT !.pc = pc], keys)
BY DEF StateOK

\* A step that leaves the clients alone and only adds keys keeps them typed.
LEMMA ClientsStay ==
  ASSUME ClientsOK, UNCHANGED client, minted \subseteq minted'
  PROVE  ClientsOK'
BY DEF ClientsOK, StateOK

-----------------------------------------------------------------------------
(* What the append transaction writes *)

\* Whatever the head, the next id is one more than the largest id ever issued.
LEMMA NextIdFresh ==
  ASSUME TypeOK, NEW head \in Ids \cup {None}
  PROVE  NextId(head) = seq + 1
BY DEF TypeOK, RowsOK, NextId

\* Row r, with parent head, is inserted for client c under the next id.
Inserts(c, r, head) ==
  /\ head \in Ids \cup {None}
  /\ client[c].ns \in Namespaces
  /\ client[c].key \in minted
  /\ IsHead(client[c].ns, head)
  /\ seq + 1 \in 1..MaxId
  /\ seq' = seq + 1
  /\ rows' = [i \in Ids \cup {seq + 1} |-> IF i = seq + 1 THEN r ELSE rows[i]]
  /\ history' = RecordKey(history, client[c].key, client[c].key)
  /\ r = [f \in RowFields |-> r[f]]
  /\ r.ns = client[c].ns /\ r.parent_id = head /\ r.key_id = client[c].key
  /\ r.tags = {}
  /\ r.parent_sha = IF head = None THEN None ELSE rows[head].payload_sha256
  /\ r.payload_sha256 = Sha256(CanonicalPayload(seq + 1, r))
  /\ r.signature = Sign(client[c].key, CanonicalPayload(seq + 1, r))

\* A commit inserts one row, under the next id, whose parent is the head of
\* the client's namespace and which is signed with the client's key.
LEMMA CommitInserts ==
  ASSUME TypeOK, NEW c \in Client, CommitAppend(c)
  PROVE  \E r, head : Inserts(c, r, head)
<1> DEFINE n == client[c].ns
           k == client[c].key
<1>1. n \in Namespaces /\ k \in minted
  BY DEF CommitAppend, At, TypeOK, KeysOK, ClientsOK, StateOK
<1>2. PICK head \in Ids \cup {None}, o \in Operators :
        /\ IsHead(n, head)
        /\ LET id == NextId(head)
               r  == Seal(id, Unsigned(o, n, k, head), k)
           IN  /\ id <= MaxId
               /\ rows' = [i \in Ids \cup {id} |-> IF i = id THEN r ELSE rows[i]]
               /\ seq' = id
               /\ history' = RecordKey(history, k, k)
  BY DEF CommitAppend
<1>3. NextId(head) = seq + 1
  BY NextIdFresh
<1> DEFINE r == Seal(seq + 1, Unsigned(o, n, k, head), k)
<1>4. /\ r = [f \in RowFields |-> r[f]]
      /\ r.ns = n /\ r.parent_id = head /\ r.key_id = k /\ r.tags = {}
      /\ r.parent_sha = IF head = None THEN None ELSE rows[head].payload_sha256
      /\ r.payload_sha256 = Sha256(CanonicalPayload(seq + 1, r))
      /\ r.signature = Sign(k, CanonicalPayload(seq + 1, r))
  BY SealedRow
<1>5. /\ seq + 1 <= MaxId /\ seq' = seq + 1
      /\ rows' = [i \in Ids \cup {seq + 1} |-> IF i = seq + 1 THEN r ELSE rows[i]]
      /\ history' = RecordKey(history, k, k)
  BY <1>2, <1>3
<1>6. seq + 1 \in 1..MaxId
  BY <1>5, VaultAssumption DEF TypeOK
<1> HIDE DEF r
<1>7. Inserts(c, r, head)
  BY <1>1, <1>2, <1>4, <1>5, <1>6 DEF Inserts
<1> QED BY <1>7

-----------------------------------------------------------------------------
(* Type correctness *)

LEMMA InitTypeOK == ASSUME Init PROVE TypeOK
<1>1. RowsOK BY DEF Init, RowsOK, Ids
<1>2. KeysOK BY DEF Init, KeysOK
<1>3. ClientsOK BY IdleOK DEF Init, ClientsOK
<1> QED BY <1>1, <1>2, <1>3, VaultAssumption DEF Init, TypeOK

\* The key table stays well typed when a key is recorded.
LEMMA RecordKeyOK ==
  ASSUME KeysOK, NEW k \in Keys, NEW pem \in Keys \cup {None},
         NEW h, h = RecordKey(history, k, pem)
  PROVE  /\ DOMAIN h = DOMAIN history \cup {k}
         /\ h \in [DOMAIN h -> [pem : Keys \cup {None}, revoked : BOOLEAN]]
BY DEF KeysOK, RecordKey

LEMMA CommitTypeOK ==
  ASSUME TypeOK, NEW c \in Client, CommitAppend(c)
  PROVE  TypeOK'
<1>1. PICK r, head : Inserts(c, r, head)
  BY CommitInserts
<1>2. seq' \in 0..MaxId /\ names' \subseteq Namespaces
  BY <1>1 DEF TypeOK, Inserts, CommitAppend
<1>3. RowsOK'
  <2>1. DOMAIN rows' = Ids \cup {seq + 1}
    BY <1>1 DEF Inserts
  <2>2. Ids' \subseteq 1..seq'
    BY <1>1, <2>1 DEF Inserts, TypeOK, RowsOK, Ids
  <2>3. RowOK(r)
    <3>1. r.parent_id \in Nat \cup {None}
      BY <1>1 DEF Inserts, TypeOK, RowsOK
    <3>2. r.key_id \in Keys
      BY <1>1 DEF Inserts, TypeOK, KeysOK
    <3> QED BY <1>1, <3>1, <3>2 DEF Inserts, RowOK
  <2>4. rows' = [i \in Ids' |-> rows'[i]]
    BY <1>1, <2>1 DEF Inserts, Ids
  <2>5. ASSUME NEW i \in Ids' PROVE RowOK(rows'[i])
    BY <1>1, <2>1, <2>3 DEF Inserts, TypeOK, RowsOK, Ids
  <2> QED BY <2>2, <2>4, <2>5 DEF RowsOK, RowOK
<1>4. KeysOK'
  <2> DEFINE k == client[c].key
  <2>1. k \in Keys /\ history' = RecordKey(history, k, k)
    BY <1>1 DEF Inserts, TypeOK, KeysOK
  <2> HIDE DEF k
  <2>2. /\ DOMAIN history' = DOMAIN history \cup {k}
        /\ history' \in [DOMAIN history' -> [pem : Keys \cup {None}, revoked : BOOLEAN]]
    BY <2>1, RecordKeyOK DEF TypeOK
  <2> QED BY <2>1, <2>2 DEF TypeOK, KeysOK, CommitAppend
<1>5. ClientsOK'
  BY IdleOK, ClientMoves DEF CommitAppend, TypeOK
<1> QED BY <1>2, <1>3, <1>4, <1>5 DEF TypeOK

LEMMA PurgeTypeOK ==
  ASSUME TypeOK, NEW c \in Client, PurgeReceipts(c)
  PROVE  TypeOK'
<1>1. RowsOK'
  BY DEF PurgeReceipts, TypeOK, RowsOK, RowOK, Ids
<1>2. KeysOK'
  BY DEF PurgeReceipts, TypeOK, KeysOK
<1>3. ClientsOK'
  BY GotoOK, ClientMoves DEF PurgeReceipts, Goto, At, TypeOK, ClientsOK
<1> QED BY <1>1, <1>2, <1>3 DEF PurgeReceipts, TypeOK

LEMMA RetagTypeOK ==
  ASSUME TypeOK, NEW c \in Client, UpdateTags(c)
  PROVE  TypeOK'
<1>1. RowsOK'
  <2>1. client[c].tags \subseteq Tags
    BY DEF TypeOK, ClientsOK, StateOK
  <2>2. ASSUME NEW r, RowOK(r), NEW ts \in SUBSET Tags
        PROVE  RowOK([r EXCEPT !.tags = ts])
    BY <2>2 DEF RowOK, RowFields
  <2>3. CASE client[c].row \notin Ids
    BY <2>3 DEF UpdateTags, TypeOK, RowsOK, RowOK, Ids
  <2>4. CASE client[c].row \in Ids
    <3> DEFINE x == [rows[client[c].row] EXCEPT !.tags = client[c].tags]
    <3>1. RowOK(x)
      BY <2>1, <2>2, <2>4 DEF TypeOK, RowsOK
    <3>2. rows' = [rows EXCEPT ![client[c].row] = x]
      BY <2>4, Zenon DEF UpdateTags
    <3> HIDE DEF x
    <3>3. Ids' = Ids /\ rows' = [i \in Ids' |-> rows'[i]]
      BY <3>2 DEF TypeOK, RowsOK, Ids
    <3>4. ASSUME NEW i \in Ids' PROVE RowOK(rows'[i])
      BY <3>1, <3>2, <3>3 DEF TypeOK, RowsOK, Ids
    <3> QED BY <3>3, <3>4 DEF UpdateTags, TypeOK, RowsOK, RowOK
  <2> QED BY <2>3, <2>4
<1>2. KeysOK'
  BY DEF UpdateTags, TypeOK, KeysOK
<1>3. ClientsOK'
  BY IdleOK, ClientMoves DEF UpdateTags, TypeOK
<1> QED BY <1>1, <1>2, <1>3 DEF UpdateTags, TypeOK

\* The steps of a client that write neither receipts nor keys.
LEMMA QuietTypeOK ==
  ASSUME TypeOK, NEW c \in Client,
         \/ \E n \in Namespaces, p \in Ids \cup {None} : BeginAppend(c, n, p)
         \/ \E op \in {"create", "delete"}, n \in Namespaces : BeginNamespaceOp(c, op, n)
         \/ InitInsert(c) \/ RejectParent(c) \/ InsertNamespace(c)
         \/ FindNamespace(c) \/ DropNamespace(c) \/ Abort(c)
         \/ \E i \in Ids, t \in Tags : BeginAttest(c, i, t)
  PROVE  TypeOK'
<1>1. UNCHANGED <<rows, seq, history, signer, minted>>
  BY DEF BeginAppend, BeginNamespaceOp, InitInsert, RejectParent, InsertNamespace,
         FindNamespace, DropNamespace, Abort, BeginAttest
<1>2. RowsOK' /\ KeysOK' /\ seq' \in 0..MaxId
  BY <1>1 DEF TypeOK, RowsOK, RowOK, KeysOK, Ids
<1>3. names' \subseteq Namespaces
  BY VaultAssumption
     DEF BeginAppend, BeginNamespaceOp, InitInsert, RejectParent, InsertNamespace,
         FindNamespace, DropNamespace, Abort, BeginAttest, TypeOK, ClientsOK, StateOK
<1>4. ClientsOK'
  <2>1. StateOK(client[c], minted) /\ minted \subseteq minted'
    BY <1>1 DEF TypeOK, ClientsOK
  <2>2. ASSUME NEW n \in Namespaces, NEW p \in Ids \cup {None}, BeginAppend(c, n, p)
        PROVE  ClientsOK'
    <3> DEFINE s == [Idle EXCEPT !.pc = IF signer = None THEN "generate" ELSE AfterSelect,
                                 !.op = "append", !.ns = n, !.parent = p,
                                 !.key = signer]
    <3>1. p \in Nat \cup {None} /\ signer \in minted \cup {None}
      BY DEF TypeOK, RowsOK, KeysOK
    <3>2. StateOK(s, minted)
      BY <3>1 DEF StateOK, Idle, AfterSelect
    <3>3. Become(c, s)
      BY <2>2 DEF BeginAppend
    <3> QED BY <3>2, <3>3, <1>1, ClientMoves DEF TypeOK
  <2>3. ASSUME NEW op \in {"create", "delete"}, NEW n \in Namespaces,
               BeginNamespaceOp(c, op, n)
        PROVE  ClientsOK'
    <3> DEFINE s == [Idle EXCEPT !.pc = AfterSelect, !.op = op, !.ns = n]
    <3>1. StateOK(s, minted)
      BY DEF StateOK, Idle, AfterSelect
    <3>2. Become(c, s)
      BY <2>3 DEF BeginNamespaceOp
    <3> QED BY <3>1, <3>2, <1>1, ClientMoves DEF TypeOK
  <2>4. ASSUME NEW i \in Ids, NEW t \in Tags, BeginAttest(c, i, t)
        PROVE  ClientsOK'
    <3> DEFINE s == [Idle EXCEPT !.pc = "retag", !.op = "attest", !.row = i,
                                 !.tags = rows[i].tags \cup {t}]
    <3>1. i \in Nat /\ rows[i].tags \subseteq Tags
      BY DEF TypeOK, RowsOK, RowOK
    <3>2. StateOK(s, minted)
      BY <3>1 DEF StateOK, Idle
    <3>3. Become(c, s)
      BY <2>4 DEF BeginAttest
    <3> QED BY <3>2, <3>3, <1>1, ClientMoves DEF TypeOK
  <2>5. CASE Become(c, Idle)
    BY <2>5, <1>1, IdleOK, ClientMoves DEF TypeOK
  <2>6. CASE /\ client[c].pc \in {"insert", "ready"}
             /\ \E pc \in {"ready", "purge"} : Goto(c, pc)
    <3>1. PICK pc \in {"ready", "purge"} : Goto(c, pc)
      BY <2>6
    <3>2. StateOK([client[c] EXCEPT !.pc = pc], minted)
      BY <2>1, <2>6, GotoOK
    <3> QED BY <3>1, <3>2, <1>1, ClientMoves DEF Goto, TypeOK
  <2> QED BY <2>2, <2>3, <2>4, <2>5, <2>6
          DEF InitInsert, RejectParent, InsertNamespace, FindNamespace,
              DropNamespace, Abort, At
<1> QED BY <1>2, <1>3, <1>4 DEF TypeOK

LEMMA GenerateTypeOK ==
  ASSUME TypeOK, NEW c \in Client, NEW k \in Keys, GenerateKey(c, k)
  PROVE  TypeOK'
<1>1. RowsOK' /\ seq' \in 0..MaxId /\ names' \subseteq Namespaces
  BY DEF GenerateKey, TypeOK, RowsOK, RowOK, Ids
<1>2. KeysOK'
  <2>1. CASE history' = history
    BY <2>1 DEF GenerateKey, TypeOK, KeysOK
  <2>2. CASE history' = RecordKey(history, k, None)
    <3>1. /\ DOMAIN history' = DOMAIN history \cup {k}
          /\ history' \in [DOMAIN history' -> [pem : Keys \cup {None}, revoked : BOOLEAN]]
      BY <2>2, RecordKeyOK DEF TypeOK
    <3> QED BY <3>1 DEF GenerateKey, TypeOK, KeysOK
  <2> QED BY <2>1, <2>2 DEF GenerateKey
<1>3. ClientsOK'
  <2> DEFINE s == [client[c] EXCEPT !.pc = AfterSelect, !.key = k]
  <2>1. StateOK(client[c], minted) /\ minted' = minted \cup {k}
    BY DEF TypeOK, ClientsOK, GenerateKey
  <2>2. StateOK(s, minted')
    BY <2>1 DEF StateOK, AfterSelect
  <2>3. Become(c, s)
    BY DEF GenerateKey
  <2> QED BY <2>1, <2>2, <2>3, ClientMoves DEF TypeOK
<1> QED BY <1>1, <1>2, <1>3 DEF TypeOK

LEMMA RevokeTypeOK ==
  ASSUME TypeOK, NEW k \in Keys, RevokeKey(k)
  PROVE  TypeOK'
<1>1. RowsOK' /\ ClientsOK' /\ seq' \in 0..MaxId /\ names' \subseteq Namespaces
  BY ClientsStay DEF RevokeKey, TypeOK, RowsOK, RowOK, Ids
<1>2. KeysOK'
  BY DEF RevokeKey, TypeOK, KeysOK
<1> QED BY <1>1, <1>2 DEF TypeOK

LEMMA RemoveTypeOK ==
  ASSUME TypeOK, RemoveKeyFiles
  PROVE  TypeOK'
<1>1. RowsOK' /\ ClientsOK' /\ seq' \in 0..MaxId /\ names' \subseteq Namespaces
  BY ClientsStay DEF RemoveKeyFiles, TypeOK, RowsOK, RowOK, Ids
<1>2. KeysOK'
  BY DEF RemoveKeyFiles, TypeOK, KeysOK
<1> QED BY <1>1, <1>2 DEF TypeOK

LEMMA StepTypeOK ==
  ASSUME TypeOK, [Next]_vars
  PROVE  TypeOK'
<1>1. CASE UNCHANGED vars
  BY <1>1 DEF vars, TypeOK, RowsOK, RowOK, KeysOK, ClientsOK, StateOK, Ids, At
<1>2. ASSUME NEW c \in Client, ClientStep(c)
      PROVE  TypeOK'
  BY <1>2, QuietTypeOK, GenerateTypeOK, CommitTypeOK, PurgeTypeOK, RetagTypeOK
     DEF ClientStep
<1>3. ASSUME NEW k \in Keys, RevokeKey(k)
      PROVE  TypeOK'
  BY <1>3, RevokeTypeOK
<1>4. CASE RemoveKeyFiles
  BY <1>4, RemoveTypeOK
<1> QED BY <1>1, <1>2, <1>3, <1>4 DEF Next

\* The tables, the key on disk and every client keep their types.
THEOREM TypeCorrect == Spec => []TypeOK
<1>1. Init => TypeOK
  BY InitTypeOK
<1>2. TypeOK /\ [Next]_vars => TypeOK'
  BY StepTypeOK
<1> QED BY <1>1, <1>2, PTL DEF Spec

-----------------------------------------------------------------------------
(* Who writes what *)

\* Receipts and the id counter change only by a commit, a purge or a retag.
LEMMA RowWriters ==
  ASSUME [Next]_vars
  PROVE  \/ UNCHANGED <<rows, seq>>
         \/ \E c \in Client : CommitAppend(c) \/ PurgeReceipts(c) \/ UpdateTags(c)
BY DEF Next, vars, ClientStep, BeginAppend, BeginNamespaceOp, InitInsert, RejectParent,
       InsertNamespace, FindNamespace, DropNamespace, Abort, BeginAttest, GenerateKey,
       RevokeKey, RemoveKeyFiles

\* The key table changes only by key generation, a commit or a revocation.
LEMMA KeyWriters ==
  ASSUME [Next]_vars
  PROVE  \/ UNCHANGED history
         \/ \E c \in Client : CommitAppend(c) \/ \E k \in Keys : GenerateKey(c, k)
         \/ \E k \in Keys : RevokeKey(k)
BY DEF Next, vars, ClientStep, BeginAppend, BeginNamespaceOp, InitInsert, RejectParent,
       InsertNamespace, FindNamespace, DropNamespace, Abort, BeginAttest,
       PurgeReceipts, UpdateTags, RemoveKeyFiles

\* A purge removes the receipts of one namespace and touches no other.
LEMMA PurgeRemoves ==
  ASSUME TypeOK, NEW c \in Client, PurgeReceipts(c)
  PROVE  /\ Ids' = {i \in Ids : rows[i].ns # client[c].ns}
         /\ \A i \in Ids' : rows'[i] = rows[i]
BY DEF PurgeReceipts, Ids

\* A retag changes no column but the tags.
LEMMA RetagKeeps ==
  ASSUME TypeOK, NEW c \in Client, UpdateTags(c)
  PROVE  /\ Ids' = Ids
         /\ \A i \in Ids : \E t : rows'[i] = [rows[i] EXCEPT !.tags = t]
<1>1. CASE client[c].row \notin Ids
  <2>1. rows' = rows
    BY <1>1 DEF UpdateTags
  <2>2. \A i \in Ids : rows[i] = [rows[i] EXCEPT !.tags = rows[i].tags]
    BY DEF TypeOK, RowsOK, RowOK, RowFields
  <2> QED BY <2>1, <2>2 DEF Ids
<1>2. CASE client[c].row \in Ids
  <2> DEFINE x == [rows[client[c].row] EXCEPT !.tags = client[c].tags]
  <2>1. rows' = [rows EXCEPT ![client[c].row] = x]
    BY <1>2, Zenon DEF UpdateTags
  <2>2. \A i \in Ids : rows[i] = [rows[i] EXCEPT !.tags = rows[i].tags]
    BY DEF TypeOK, RowsOK, RowOK, RowFields
  <2>3. \E t : x = [rows[client[c].row] EXCEPT !.tags = t]
    OBVIOUS
  <2> HIDE DEF x
  <2>4. Ids' = Ids
    BY <2>1 DEF TypeOK, RowsOK, Ids
  <2>5. ASSUME NEW i \in Ids PROVE \E t : rows'[i] = [rows[i] EXCEPT !.tags = t]
    <3>1. CASE i = client[c].row
      BY <3>1, <2>1, <2>3 DEF TypeOK, RowsOK, Ids
    <3>2. CASE i # client[c].row
      <4>1. rows'[i] = rows[i]
        BY <3>2, <2>1 DEF TypeOK, RowsOK, Ids
      <4> QED BY <4>1, <2>2
    <3> QED BY <3>1, <3>2
  <2> QED BY <2>4, <2>5
<1> QED BY <1>1, <1>2

-----------------------------------------------------------------------------
(* Chain continuity *)

\* A receipt stays linked while the links and hashes of its namespace up to it
\* stay as they are.
LEMMA LinkedStays ==
  ASSUME NEW i, i \in Ids', i \in Ids, Linked(i),
         \A j \in Nat : j <= i =>
           /\ j \in IdsIn(rows[i].ns) <=> (j \in Ids' /\ rows'[j].ns = rows'[i].ns)
           /\ j \in IdsIn(rows[i].ns) =>
                /\ rows'[j].parent_id = rows[j].parent_id
                /\ rows'[j].parent_sha = rows[j].parent_sha
                /\ rows'[j].payload_sha256 = rows[j].payload_sha256,
         Ids \subseteq Nat, Ids' \subseteq Nat
  PROVE  Linked(i)'
<1> DEFINE old == {j \in IdsIn(rows[i].ns) : j < i}
           new == {j \in Ids' : rows'[j].ns = rows'[i].ns /\ j < i}
<1>1. old = new
  BY DEF IdsIn
<1>2. i \in IdsIn(rows[i].ns)
  BY DEF IdsIn
<1>3. rows'[i].parent_id = rows[i].parent_id /\ rows'[i].parent_sha = rows[i].parent_sha
  BY <1>2
<1>4. \A p \in old : rows'[p].payload_sha256 = rows[p].payload_sha256
  BY DEF IdsIn
<1>5. IF old = {} THEN rows[i].parent_id = None /\ rows[i].parent_sha = None
      ELSE /\ rows[i].parent_id \in old /\ \A j \in old : j <= rows[i].parent_id
           /\ rows[i].parent_sha = rows[rows[i].parent_id].payload_sha256
  BY DEF Linked
<1> HIDE DEF old
<1>6. IF old = {} THEN rows'[i].parent_id = None /\ rows'[i].parent_sha = None
      ELSE /\ rows'[i].parent_id \in old /\ \A j \in old : j <= rows'[i].parent_id
           /\ rows'[i].parent_sha = rows'[rows'[i].parent_id].payload_sha256
  BY <1>3, <1>4, <1>5
<1> HIDE DEF new
<1>7. IF new = {} THEN rows'[i].parent_id = None /\ rows'[i].parent_sha = None
      ELSE /\ rows'[i].parent_id \in new /\ \A j \in new : j <= rows'[i].parent_id
           /\ rows'[i].parent_sha = rows'[rows'[i].parent_id].payload_sha256
  BY <1>1, <1>6
<1>8. new = {j \in {x \in Ids' : rows'[x].ns = rows'[i].ns} : j < i}
  BY DEF new
<1> QED BY <1>7, <1>8 DEF Linked, IdsIn

LEMMA CommitLinks ==
  ASSUME TypeOK, TypeOK', NamespaceChains, NEW c \in Client, CommitAppend(c)
  PROVE  NamespaceChains'
<1>1. PICK r, head : Inserts(c, r, head)
  BY CommitInserts
<1>i. PICK id \in Nat : id = seq + 1
  BY DEF TypeOK
<1>2. /\ Ids' = Ids \cup {id} /\ rows'[id] = r
      /\ \A i \in Ids : rows'[i] = rows[i] /\ i < id /\ i \in Nat
      /\ seq \in Nat /\ Ids \subseteq Nat /\ Ids' \subseteq Nat
  BY <1>i, <1>1 DEF Inserts, TypeOK, RowsOK, Ids
<1>3. ASSUME NEW i \in Ids PROVE Linked(i)'
  <2>1. Linked(i)
    BY DEF NamespaceChains
  <2> QED BY <1>2, <2>1, LinkedStays DEF IdsIn
<1>4. Linked(id)'
  <2> DEFINE n == client[c].ns
             older == {j \in {x \in Ids' : rows'[x].ns = r.ns} : j < id}
  <2>1. older = IdsIn(n)
    BY <1>1, <1>2 DEF IdsIn, Inserts
  <2>2. IF IdsIn(n) = {} THEN head = None
        ELSE head \in IdsIn(n) /\ \A j \in IdsIn(n) : j <= head
    BY <1>1 DEF Inserts, IsHead
  <2>3. None \notin Ids
    BY <1>2, VaultAssumption
  <2>4. r.parent_id = head
        /\ r.parent_sha = IF head = None THEN None ELSE rows[head].payload_sha256
    BY <1>1 DEF Inserts
  <2> HIDE DEF older
  <2>5. IF older = {} THEN r.parent_id = None /\ r.parent_sha = None
        ELSE /\ r.parent_id \in older /\ \A j \in older : j <= r.parent_id
             /\ r.parent_sha = rows'[r.parent_id].payload_sha256
    BY <1>2, <2>1, <2>2, <2>3, <2>4 DEF IdsIn
  <2> QED BY <1>2, <2>5 DEF Linked, IdsIn, older
<1> QED BY <1>2, <1>3, <1>4 DEF NamespaceChains

LEMMA PurgeLinks ==
  ASSUME TypeOK, TypeOK', NamespaceChains, NEW c \in Client, PurgeReceipts(c)
  PROVE  NamespaceChains'
<1>1. /\ Ids' = {i \in Ids : rows[i].ns # client[c].ns}
      /\ \A i \in Ids' : rows'[i] = rows[i]
      /\ Ids \subseteq Nat
  BY PurgeRemoves DEF TypeOK, RowsOK
<1>2. ASSUME NEW i \in Ids' PROVE Linked(i)'
  <2>1. Linked(i)
    BY <1>1 DEF NamespaceChains
  <2> QED BY <1>1, <2>1, LinkedStays DEF IdsIn
<1> QED BY <1>2 DEF NamespaceChains

LEMMA RetagLinks ==
  ASSUME TypeOK, TypeOK', NamespaceChains, NEW c \in Client, UpdateTags(c)
  PROVE  NamespaceChains'
<1>1. Ids' = Ids /\ \A i \in Ids : \E t : rows'[i] = [rows[i] EXCEPT !.tags = t]
  BY RetagKeeps
<1>2. ASSUME NEW i \in Ids
      PROVE  /\ rows'[i].ns = rows[i].ns
             /\ rows'[i].parent_id = rows[i].parent_id
             /\ rows'[i].parent_sha = rows[i].parent_sha
             /\ rows'[i].payload_sha256 = rows[i].payload_sha256
  BY <1>1 DEF TypeOK, RowsOK, RowOK, RowFields
<1>3. ASSUME NEW i \in Ids PROVE Linked(i)'
  <2>1. Linked(i) /\ Ids \subseteq Nat
    BY DEF NamespaceChains, TypeOK, RowsOK
  <2> QED BY <1>1, <1>2, <2>1, LinkedStays DEF IdsIn
<1> QED BY <1>1, <1>3 DEF NamespaceChains

LEMMA StepLinks ==
  ASSUME TypeOK, TypeOK', NamespaceChains, [Next]_vars
  PROVE  NamespaceChains'
<1>1. CASE UNCHANGED <<rows, seq>>
  BY <1>1 DEF NamespaceChains, Linked, IdsIn, Ids
<1>2. CASE \E c \in Client : CommitAppend(c) \/ PurgeReceipts(c) \/ UpdateTags(c)
  BY <1>2, CommitLinks, PurgeLinks, RetagLinks
<1> QED BY <1>1, <1>2, RowWriters

\* Whatever clients race, abort, delete and retag, every namespace is one
\* unforked chain of receipts bound by hash.
THEOREM ChainContinuity == Spec => []NamespaceChains
<1>1. Init => NamespaceChains
  BY DEF Init, NamespaceChains, Ids
<1>2. TypeOK /\ TypeOK' /\ NamespaceChains /\ [Next]_vars => NamespaceChains'
  BY StepLinks
<1> QED BY <1>1, <1>2, TypeCorrect, PTL DEF Spec

-----------------------------------------------------------------------------
(* Hashes and signatures *)

\* Hash and signature of row r under id i are those of its row as appended,
\* before anything was attested.
SealedAs(i, r) ==
  LET p == CanonicalPayload(i, [r EXCEPT !.tags = {}])
  IN  r.payload_sha256 = Sha256(p) /\ r.signature = Sign(r.key_id, p)

\* The inductive form of OnlyTagsDrift.
SealsHold == \A i \in Ids : SealedAs(i, rows[i])

LEMMA StepSeals ==
  ASSUME TypeOK, TypeOK', SealsHold, [Next]_vars
  PROVE  SealsHold'
<1>1. CASE UNCHANGED <<rows, seq>>
  BY <1>1 DEF SealsHold, Ids
<1>2. ASSUME NEW c \in Client, CommitAppend(c) PROVE SealsHold'
  <2>1. PICK r, head : Inserts(c, r, head)
    BY <1>2, CommitInserts
  <2>i. PICK id \in Nat : id = seq + 1
    BY DEF TypeOK
  <2>2. Ids' = Ids \cup {id} /\ rows'[id] = r /\ \A i \in Ids : rows'[i] = rows[i]
    BY <2>1, <2>i DEF Inserts, TypeOK, RowsOK, Ids
  <2>3. [r EXCEPT !.tags = {}] = r
    BY <2>1 DEF Inserts, RowFields
  <2>4. /\ r.payload_sha256 = Sha256(CanonicalPayload(id, r))
        /\ r.signature = Sign(r.key_id, CanonicalPayload(id, r))
    BY <2>1, <2>i DEF Inserts
  <2>5. SealedAs(id, r)
    BY <2>3, <2>4 DEF SealedAs
  <2> QED BY <2>2, <2>5 DEF SealsHold
<1>3. ASSUME NEW c \in Client, PurgeReceipts(c) PROVE SealsHold'
  BY <1>3, PurgeRemoves DEF SealsHold
<1>4. ASSUME NEW c \in Client, UpdateTags(c) PROVE SealsHold'
  <2>1. Ids' = Ids /\ \A i \in Ids : \E t : rows'[i] = [rows[i] EXCEPT !.tags = t]
    BY <1>4, RetagKeeps
  <2>2. ASSUME NEW i \in Ids PROVE SealedAs(i, rows'[i])
    <3>1. PICK t : rows'[i] = [rows[i] EXCEPT !.tags = t]
      BY <2>1
    <3>2. RowOK(rows[i]) /\ SealedAs(i, rows[i])
      BY DEF TypeOK, RowsOK, SealsHold
    <3>3. /\ [rows'[i] EXCEPT !.tags = {}] = [rows[i] EXCEPT !.tags = {}]
          /\ rows'[i].payload_sha256 = rows[i].payload_sha256
          /\ rows'[i].signature = rows[i].signature
          /\ rows'[i].key_id = rows[i].key_id
      BY <3>1, <3>2 DEF RowOK, RowFields
    <3> QED BY <3>2, <3>3 DEF SealedAs
  <2> QED BY <2>1, <2>2 DEF SealsHold
<1> QED BY <1>1, <1>2, <1>3, <1>4, RowWriters

LEMMA SealsHeld == Spec => []SealsHold
<1>1. Init => SealsHold
  BY DEF Init, SealsHold, Ids
<1>2. TypeOK /\ TypeOK' /\ SealsHold /\ [Next]_vars => SealsHold'
  BY StepSeals
<1> QED BY <1>1, <1>2, TypeCorrect, PTL DEF Spec

\* Nothing the vault does to a stored receipt, but adding tags, makes its hash
\* or signature wrong, whichever clients race.
THEOREM SealsSurvive == Spec => []OnlyTagsDrift
<1>1. SealsHold => OnlyTagsDrift
  <2> SUFFICES ASSUME SealsHold, NEW i \in Ids
               PROVE  \E t \in SUBSET rows[i].tags :
                        LET p == CanonicalPayload(i, [rows[i] EXCEPT !.tags = t])
                        IN  /\ rows[i].payload_sha256 = Sha256(p)
                            /\ rows[i].signature = Sign(rows[i].key_id, p)
    BY DEF OnlyTagsDrift
  <2>1. SealedAs(i, rows[i])
    BY DEF SealsHold
  <2> WITNESS {} \in SUBSET rows[i].tags
  <2> QED BY <2>1 DEF SealedAs
<1> QED BY <1>1, SealsHeld, PTL

-----------------------------------------------------------------------------
(* Keys *)

\* A public key is recorded only under its own id: with KeysRetained, the
\* inductive invariant of the key table.
KeysFiledRight ==
  \A k \in DOMAIN history : history[k].pem \in {None, k}

\* Recording key k under its own id fills the entry in and touches no other.
LEMMA RecordKeyFiles ==
  ASSUME KeysOK, NEW k \in Keys, NEW pem \in {None, k},
         history' = RecordKey(history, k, pem)
  PROVE  /\ DOMAIN history' = DOMAIN history \cup {k}
         /\ \A j \in DOMAIN history :
              /\ history[j].pem # None => history'[j].pem = history[j].pem
              /\ history[j].revoked => history'[j].revoked
         /\ KeysFiledRight => KeysFiledRight'
         /\ KeysFiledRight /\ pem = k => history'[k].pem = k
BY VaultAssumption DEF KeysOK, RecordKey, KeysFiledRight

\* Whatever step is taken, entries of the key table only gain information.
LEMMA StepKeyTable ==
  ASSUME TypeOK, [Next]_vars
  PROVE  /\ \A k \in DOMAIN history :
              /\ k \in DOMAIN history'
              /\ history[k].revoked => history'[k].revoked
              /\ history[k].pem # None => history'[k].pem = history[k].pem
         /\ KeysFiledRight => KeysFiledRight'
<1>1. CASE UNCHANGED history
  BY <1>1 DEF KeysFiledRight
<1>2. ASSUME NEW k \in Keys, NEW pem \in {None, k}, history' = RecordKey(history, k, pem)
      PROVE  /\ \A j \in DOMAIN history :
                  /\ j \in DOMAIN history'
                  /\ history[j].revoked => history'[j].revoked
                  /\ history[j].pem # None => history'[j].pem = history[j].pem
             /\ KeysFiledRight => KeysFiledRight'
  BY <1>2, RecordKeyFiles DEF TypeOK
<1>3. ASSUME NEW c \in Client, CommitAppend(c)
      PROVE  \E k \in Keys : history' = RecordKey(history, k, k)
  <2>1. PICK r, head : Inserts(c, r, head)
    BY <1>3, CommitInserts
  <2>2. client[c].key \in Keys /\ history' = RecordKey(history, client[c].key, client[c].key)
    BY <2>1 DEF Inserts, TypeOK, KeysOK
  <2> QED BY <2>2
<1>4. ASSUME NEW c \in Client, NEW k \in Keys, GenerateKey(c, k)
      PROVE  history' = history \/ history' = RecordKey(history, k, None)
  BY <1>4 DEF GenerateKey
<1>5. ASSUME NEW k \in Keys, RevokeKey(k)
      PROVE  /\ \A j \in DOMAIN history :
                  /\ j \in DOMAIN history'
                  /\ history[j].revoked => history'[j].revoked
                  /\ history[j].pem # None => history'[j].pem = history[j].pem
             /\ KeysFiledRight => KeysFiledRight'
  BY <1>5 DEF RevokeKey, KeysFiledRight, TypeOK, KeysOK
<1> QED BY <1>1, <1>2, <1>3, <1>4, <1>5, KeyWriters

\* Once revoked a key stays revoked, and a recorded public key is never
\* replaced, whichever appends race with revoke_key.
THEOREM KeyHistoryGrows == Spec => KeyHistoryMonotone
<1>1. TypeOK /\ [Next]_vars =>
        [\A k \in DOMAIN history :
           /\ k \in DOMAIN history'
           /\ history[k].revoked => history'[k].revoked
           /\ history[k].pem # None => history'[k].pem = history[k].pem]_vars
  BY StepKeyTable
<1> QED BY <1>1, TypeCorrect, PTL DEF Spec, KeyHistoryMonotone

LEMMA StepKeysRetained ==
  ASSUME TypeOK, TypeOK', KeysFiledRight, KeysRetained, [Next]_vars
  PROVE  KeysRetained'
<1>1. \A k \in Keys : k \in DOMAIN history /\ history[k].pem = k =>
                        k \in DOMAIN history' /\ history'[k].pem = k
  BY StepKeyTable, VaultAssumption
<1>2. \A i \in Ids : rows[i].key_id \in Keys
  BY DEF TypeOK, RowsOK, RowOK
<1>3. CASE UNCHANGED <<rows, seq>>
  BY <1>1, <1>2, <1>3 DEF KeysRetained, Ids
<1>4. ASSUME NEW c \in Client, CommitAppend(c) PROVE KeysRetained'
  <2>1. PICK r, head : Inserts(c, r, head)
    BY <1>4, CommitInserts
  <2>i. PICK id \in Nat : id = seq + 1
    BY DEF TypeOK
  <2>2. Ids' = Ids \cup {id} /\ rows'[id] = r /\ \A i \in Ids : rows'[i] = rows[i]
    BY <2>1, <2>i DEF Inserts, TypeOK, RowsOK, Ids
  <2>3. PICK k \in Keys : k = r.key_id /\ history' = RecordKey(history, k, k)
    BY <2>1 DEF Inserts, TypeOK, KeysOK
  <2>4. r.key_id \in DOMAIN history' /\ history'[r.key_id].pem = r.key_id
    BY <2>3, RecordKeyFiles DEF TypeOK
  <2> QED BY <1>1, <1>2, <2>2, <2>4 DEF KeysRetained
<1>5. ASSUME NEW c \in Client, PurgeReceipts(c) PROVE KeysRetained'
  BY <1>1, <1>2, <1>5, PurgeRemoves DEF KeysRetained
<1>6. ASSUME NEW c \in Client, UpdateTags(c) PROVE KeysRetained'
  <2>1. Ids' = Ids /\ \A i \in Ids : \E t : rows'[i] = [rows[i] EXCEPT !.tags = t]
    BY <1>6, RetagKeeps
  <2>2. \A i \in Ids : rows'[i].key_id = rows[i].key_id
    BY <2>1 DEF TypeOK, RowsOK, RowOK, RowFields
  <2> QED BY <1>1, <1>2, <2>1, <2>2 DEF KeysRetained
<1> QED BY <1>3, <1>4, <1>5, <1>6, RowWriters

\* The public key of every stored receipt is in the vault under its own id,
\* whatever became of the key files.
THEOREM KeysSurvive == Spec => []KeysRetained
<1>1. Init => KeysFiledRight /\ KeysRetained
  BY DEF Init, KeysFiledRight, KeysRetained, Ids
<1>2. TypeOK /\ TypeOK' /\ KeysFiledRight /\ KeysRetained /\ [Next]_vars
        => KeysFiledRight' /\ KeysRetained'
  BY StepKeyTable, StepKeysRetained
<1> QED BY <1>1, <1>2, TypeCorrect, PTL DEF Spec

-----------------------------------------------------------------------------
(* Ids *)

\* An id that was handed out and deleted never names another receipt.
THEOREM IdsStayRetired == Spec => NoResurrection
<1>1. ASSUME TypeOK, [Next]_vars, NEW i \in 1..seq, i \in DOMAIN rows'
      PROVE  i \in Ids
  <2>1. CASE UNCHANGED <<rows, seq>>
    BY <1>1, <2>1 DEF Ids
  <2>2. ASSUME NEW c \in Client, CommitAppend(c) PROVE i \in Ids
    <3>1. PICK r, head : Inserts(c, r, head)
      BY <1>1, <2>2, CommitInserts
    <3>2. DOMAIN rows' = Ids \cup {seq + 1} /\ seq \in Nat
      BY <1>1, <3>1 DEF Inserts, TypeOK
    <3> QED BY <1>1, <3>2
  <2>3. ASSUME NEW c \in Client, PurgeReceipts(c) PROVE i \in Ids
    BY <1>1, <2>3, PurgeRemoves DEF Ids
  <2>4. ASSUME NEW c \in Client, UpdateTags(c) PROVE i \in Ids
    BY <1>1, <2>4, RetagKeeps DEF Ids
  <2> QED BY <1>1, <2>1, <2>2, <2>3, <2>4, RowWriters
<1>2. TypeOK /\ [Next]_vars => [\A i \in 1..seq : i \in DOMAIN rows' => i \in Ids]_vars
  BY <1>1
<1> QED BY <1>2, TypeCorrect, PTL DEF Spec, NoResurrection

-----------------------------------------------------------------------------
(* Verification *)

\* The walk over the whole vault finds nothing wrong with order and continuity
\* exactly when no id is missing below another and one namespace has them all.
LEMMA ChainAccepted ==
  ASSUME TypeOK, NamespaceChains
  PROVE  (\A i \in Ids : ~ChainIssue(rows, i)) <=>
           /\ \A i \in Ids : i = 1 \/ i - 1 \in Ids
           /\ \A i, j \in Ids : rows[i].ns = rows[j].ns
<1>1. Ids \subseteq Nat /\ \A i \in Ids : i >= 1
  BY DEF TypeOK, RowsOK
<1>2. None \notin Nat
  BY VaultAssumption
<1>3. ASSUME \A i \in Ids : i = 1 \/ i - 1 \in Ids,
             \A i, j \in Ids : rows[i].ns = rows[j].ns,
             NEW i \in Ids
      PROVE  ~ChainIssue(rows, i)
  <2> DEFINE older == {j \in IdsIn(rows[i].ns) : j < i}
  <2>1. older = {j \in Ids : j < i}
    BY <1>3 DEF IdsIn
  <2>2. Linked(i) /\ i \in Nat
    BY <1>1 DEF NamespaceChains
  <2>3. ASSUME \A j \in Ids : i <= j
        PROVE  i = 1 /\ rows[i].parent_id = None /\ rows[i].parent_sha = None
    <3>1. older = {}
      <4>1. ASSUME NEW j \in Ids PROVE ~(j < i)
        BY <1>1, <2>2, <2>3
      <4> QED BY <2>1, <4>1
    <3>2. i = 1
      BY <1>3, <2>2, <2>3
    <3> QED BY <2>2, <3>1, <3>2 DEF Linked
  <2>4. ASSUME NEW p \in Ids, IsPrevious(rows, i, p)
        PROVE  /\ i = p + 1 /\ rows[i].parent_id = p
               /\ rows[i].parent_sha = rows[p].payload_sha256
    <3>1. p \in Nat /\ p >= 1 /\ p < i
      BY <1>1, <2>4 DEF IsPrevious
    <3>2. i - 1 \in Ids /\ i - 1 < i
      BY <1>3, <2>2, <3>1
    <3>3. i - 1 <= p
      BY <2>4, <3>2 DEF IsPrevious, Ids
    <3>4. i = p + 1
      BY <2>2, <3>1, <3>3
    <3>5. p \in older
      BY <2>1, <3>1
    <3>6. /\ rows[i].parent_id \in older /\ p <= rows[i].parent_id
          /\ rows[i].parent_sha = rows[rows[i].parent_id].payload_sha256
      BY <2>2, <3>5 DEF Linked
    <3>7. rows[i].parent_id \in Nat /\ rows[i].parent_id < i
      BY <1>1, <2>1, <3>6
    <3>8. rows[i].parent_id = p
      BY <2>2, <3>1, <3>4, <3>6, <3>7
    <3> QED BY <3>4, <3>6, <3>8
  <2> QED BY <2>3, <2>4 DEF ChainIssue, Ids
<1>4. ASSUME \A i \in Ids : ~ChainIssue(rows, i), NEW i \in Ids, i # 1
      PROVE  i - 1 \in Ids
  <2> DEFINE below == {j \in Ids : j < i}
  <2>1. i \in Nat /\ below \subseteq Nat /\ \A j \in below : j <= i
    <3>1. ASSUME NEW j \in Ids, j < i PROVE j <= i
      BY <1>1, <3>1
    <3> QED BY <1>1, <3>1
  <2>2. below # {}
    <3>1. CASE \A j \in Ids : i <= j
      BY <1>4, <3>1 DEF ChainIssue, Ids
    <3>2. CASE \E j \in Ids : ~(i <= j)
      BY <1>1, <3>2
    <3> QED BY <3>1, <3>2
  <2>3. PICK p \in below : \A j \in below : j <= p
    <3> HIDE DEF below
    <3> QED BY <2>1, <2>2, Greatest
  <2>4. IsPrevious(rows, i, p)
    BY <2>3 DEF IsPrevious, Ids
  <2>5. i = p + 1 /\ p \in Nat
    BY <1>1, <1>4, <2>3, <2>4 DEF ChainIssue, Ids
  <2> QED BY <2>3, <2>5
<1>5. ASSUME \A i \in Ids : ~ChainIssue(rows, i), NEW i \in Ids, i # 1
      PROVE  rows[i - 1].ns = rows[i].ns
  <2>1. i - 1 \in Ids /\ i \in Nat /\ i - 1 \in Nat
    BY <1>1, <1>4, <1>5
  <2>2. IsPrevious(rows, i, i - 1)
    BY <1>1, <2>1 DEF IsPrevious, Ids
  <2>3. rows[i].parent_id = i - 1
    BY <1>5, <2>1, <2>2 DEF ChainIssue, Ids
  <2>4. rows[i].parent_id # None
    BY <1>2, <2>1, <2>3
  <2>5. rows[i].parent_id \in IdsIn(rows[i].ns)
    BY <2>4 DEF NamespaceChains, Linked
  <2> QED BY <2>3, <2>5 DEF IdsIn
<1>6. ASSUME \A i \in Ids : ~ChainIssue(rows, i), NEW i \in Ids
      PROVE  rows[i].ns = rows[1].ns
  <2> DEFINE astray == {j \in Ids : rows[j].ns # rows[1].ns}
  <2>1. SUFFICES astray = {}
    OBVIOUS
  <2>2. SUFFICES ASSUME astray # {} PROVE FALSE
    OBVIOUS
  <2>3. PICK m \in astray : \A j \in astray : m <= j
    <3>1. astray \subseteq Nat
      BY <1>1
    <3> HIDE DEF astray
    <3> QED BY <2>2, <3>1, Least
  <2>4. m # 1 /\ m \in Ids /\ m \in Nat
    BY <1>1, <2>3
  <2>5. m - 1 \in Ids /\ rows[m - 1].ns = rows[m].ns
    BY <1>4, <1>5, <1>6, <2>4
  <2>6. m - 1 \in astray /\ m - 1 \in Nat
    BY <1>1, <2>3, <2>5
  <2> QED BY <2>3, <2>4, <2>6
<1> QED BY <1>3, <1>4, <1>6

\* Receipt i, whoever claims to be its operator, is accepted by hash, key and
\* signature exactly when it has no tags, the operator is the one it was
\* signed with and its key is not revoked.
LEMMA SealAccepted ==
  ASSUME TypeOK, SealsHold, KeysRetained, NEW i \in Ids,
         NEW o, NEW rs, rs[i] = [rows[i] EXCEPT !.operator = o]
  PROVE  ~SealIssue(rs, i) <=>
           /\ ~Retagged(i) /\ o = rows[i].operator
           /\ rows[i].key_id \notin RevokedKeys
<1> DEFINE p == CanonicalPayload(i, rs[i])
           q == CanonicalPayload(i, [rows[i] EXCEPT !.tags = {}])
<1>1. /\ rs[i].payload_sha256 = Sha256(q) /\ rs[i].key_id = rows[i].key_id
      /\ rs[i].signature = Sign(rows[i].key_id, q)
  BY DEF SealsHold, SealedAs, TypeOK, RowsOK, RowOK, RowFields
<1>2. p = q <=> rows[i].tags = {} /\ o = rows[i].operator
  BY DEF CanonicalPayload, TypeOK, RowsOK, RowOK, RowFields
<1>3. rows[i].key_id \in KeyMaterial
  BY DEF KeysRetained, KeyMaterial
<1> HIDE DEF q
<1>4. SealIssue(rs, i) <=> p # q \/ rows[i].key_id \in RevokedKeys
  BY <1>1, <1>3 DEF SealIssue, VerifyBytes, Sha256, Sign
<1> QED BY <1>2, <1>4 DEF Retagged

\* All of the vault is accepted exactly when chain and seals are.
LEMMA VaultAccepted ==
  ASSUME TypeOK, NamespaceChains, SealsHold, KeysRetained
  PROVE  VerifyExact
<1>1. ASSUME NEW i \in Ids
      PROVE  ~SealIssue(rows, i) <=> ~Retagged(i) /\ rows[i].key_id \notin RevokedKeys
  <2>1. rows[i] = [rows[i] EXCEPT !.operator = rows[i].operator]
    BY DEF TypeOK, RowsOK, RowOK, RowFields
  <2> QED BY <2>1, SealAccepted
<1> QED BY <1>1, ChainAccepted DEF VerifyExact, VerifyChainReport, VerifyReceipts, Ids

\* A bundle differs from the vault only in the operators it lost.
LEMMA BundleAccepted ==
  ASSUME TypeOK, SealsHold, KeysRetained
  PROVE  BundleAgrees
<1> DEFINE rs == [i \in Ids |-> FromMapping(rows[i])]
<1>1. DOMAIN rs = Ids /\ DOMAIN rows = Ids
  BY DEF Ids
<1>2. ASSUME NEW i \in Ids
      PROVE  /\ rs[i].parent_id = rows[i].parent_id /\ rs[i].parent_sha = rows[i].parent_sha
             /\ rs[i].payload_sha256 = rows[i].payload_sha256
             /\ rs[i] = [rows[i] EXCEPT !.operator = None]
  BY DEF FromMapping, TypeOK, RowsOK, RowOK, RowFields
<1>3. ASSUME NEW i \in Ids
      PROVE  /\ ~SealIssue(rows, i) <=> ~Retagged(i) /\ rows[i].key_id \notin RevokedKeys
             /\ ~SealIssue(rs, i) <=> /\ ~Retagged(i) /\ rows[i].operator = None
                                      /\ rows[i].key_id \notin RevokedKeys
  <2>1. rows[i] = [rows[i] EXCEPT !.operator = rows[i].operator]
    BY DEF TypeOK, RowsOK, RowOK, RowFields
  <2>2. rs[i] = [rows[i] EXCEPT !.operator = None]
    BY <1>2
  <2> HIDE DEF rs
  <2> QED BY <2>1, <2>2, SealAccepted
<1>4. ASSUME NEW i \in Ids PROVE ChainIssue(rs, i) <=> ChainIssue(rows, i)
  <2>1. \A p : IsPrevious(rs, i, p) <=> IsPrevious(rows, i, p)
    BY <1>1 DEF IsPrevious
  <2> HIDE DEF rs
  <2> QED BY <1>1, <1>2, <2>1 DEF ChainIssue
<1> HIDE DEF rs
<1>5. VerifyReceipts(rs) <=> VerifyReceipts(rows) /\ \A i \in Ids : rows[i].operator = None
  BY <1>1, <1>3, <1>4 DEF VerifyReceipts
<1> QED BY <1>5 DEF BundleAgrees, VerifyExport, VerifyChainReport, rs

\* Whatever has happened to the vault, verify says yes for exactly the reasons
\* it should: nothing missing, one namespace, no tags added, no key revoked.
THEOREM VerificationIsExact == Spec => []VerifyExact
<1>1. TypeOK /\ NamespaceChains /\ SealsHold /\ KeysRetained => VerifyExact
  BY VaultAccepted
<1> QED BY <1>1, TypeCorrect, ChainContinuity, SealsHeld, KeysSurvive, PTL

\* Whoever receives an exported bundle comes to the verdict of the vault,
\* except where a receipt names an operator.
THEOREM BundlesAgree == Spec => []BundleAgrees
<1>1. TypeOK /\ SealsHold /\ KeysRetained => BundleAgrees
  BY BundleAccepted
<1> QED BY <1>1, TypeCorrect, SealsHeld, KeysSurvive, PTL

-----------------------------------------------------------------------------
(* The vault implements the ledger *)

\* LinkedChain follows the parent links of a table by a recursive function.
\* Walk(rs, w) says that w is such a function for table rs; that one exists is
\* shown along the steps, that there is only one by the order of the ids.
Walk(rs, w) ==
  w = [i \in DOMAIN rs |->
         IF rs[i].parent_id \in DOMAIN rs /\ rs[i].parent_id < i
         THEN Append(w[rs[i].parent_id], i) ELSE <<i>>]

Walkable == \E w : Walk(rows, w)

TableIds(rs, n) == {i \in DOMAIN rs : rs[i].ns = n}

\* LinkedChain of namespace n in table rs.
ChainIn(rs, n) ==
  IF TableIds(rs, n) = {} THEN <<>>
  ELSE (CHOOSE w : Walk(rs, w))[CHOOSE h \in TableIds(rs, n) :
          IF TableIds(rs, n) = {} THEN h = None
          ELSE h \in TableIds(rs, n) /\ \A j \in TableIds(rs, n) : j <= h]

LEMMA ChainsRead ==
  ASSUME NEW n
  PROVE  LinkedChain(n) = ChainIn(rows, n) /\ LinkedChain(n)' = ChainIn(rows', n)
BY DEF LinkedChain, ChainIn, TableIds, Walk, IdsIn, Ids, IsHead

\* A table has at most one walk: two would differ at a least id.
LEMMA WalksAgree ==
  ASSUME NEW rs, DOMAIN rs \subseteq Nat, NEW v, Walk(rs, v), NEW w, Walk(rs, w)
  PROVE  v = w
<1> DEFINE apart == {i \in DOMAIN rs : v[i] # w[i]}
<1>1. apart = {}
  <2>1. SUFFICES ASSUME apart # {} PROVE FALSE
    OBVIOUS
  <2>2. PICK m \in apart : \A j \in apart : m <= j
    <3>1. apart \subseteq Nat
      OBVIOUS
    <3> HIDE DEF apart
    <3> QED BY <2>1, <3>1, Least
  <2>3. m \in DOMAIN rs /\ m \in Nat /\ v[m] # w[m]
    BY <2>2
  <2>4. CASE rs[m].parent_id \in DOMAIN rs /\ rs[m].parent_id < m
    <3>1. rs[m].parent_id \notin apart
      <4>1. rs[m].parent_id \in Nat
        BY <2>4
      <4> QED BY <2>2, <2>3, <2>4, <4>1
    <3>2. v[rs[m].parent_id] = w[rs[m].parent_id]
      BY <2>4, <3>1
    <3>3. v[m] = Append(v[rs[m].parent_id], m) /\ w[m] = Append(w[rs[m].parent_id], m)
      BY <2>3, <2>4 DEF Walk
    <3> QED BY <2>3, <3>2, <3>3
  <2>5. CASE ~(rs[m].parent_id \in DOMAIN rs /\ rs[m].parent_id < m)
    <3>1. v[m] = <<m>> /\ w[m] = <<m>>
      BY <2>3, <2>5 DEF Walk
    <3> QED BY <2>3, <3>1
  <2> QED BY <2>4, <2>5
<1>2. DOMAIN v = DOMAIN rs /\ DOMAIN w = DOMAIN rs
  BY DEF Walk
<1>3. \A i \in DOMAIN rs : v[i] = w[i]
  BY <1>1
<1>4. v = [i \in DOMAIN rs |-> v[i]] /\ w = [i \in DOMAIN rs |-> w[i]]
  BY <1>2 DEF Walk
<1> QED BY <1>3, <1>4

\* The chain of a namespace is its walk, read at the newest receipt.
LEMMA ChainFromHead ==
  ASSUME NEW rs, DOMAIN rs \subseteq Nat, NEW w, Walk(rs, w),
         NEW n, NEW h \in TableIds(rs, n), \A j \in TableIds(rs, n) : j <= h
  PROVE  ChainIn(rs, n) = w[h]
<1> DEFINE c == CHOOSE v : Walk(rs, v)
           t == CHOOSE x \in TableIds(rs, n) :
                  IF TableIds(rs, n) = {} THEN x = None
                  ELSE x \in TableIds(rs, n) /\ \A j \in TableIds(rs, n) : j <= x
<1>1. Walk(rs, c)
  OBVIOUS
<1>2. c = w
  <2> HIDE DEF c
  <2> QED BY <1>1, WalksAgree
<1>3. t \in TableIds(rs, n) /\ \A j \in TableIds(rs, n) : j <= t
  OBVIOUS
<1>4. ChainIn(rs, n) = c[t]
  BY DEF ChainIn
<1> HIDE DEF c, t
<1>5. t = h
  <2>1. t \in Nat /\ h \in Nat /\ t <= h /\ h <= t
    BY <1>3 DEF TableIds
  <2> QED BY <2>1
<1> QED BY <1>2, <1>4, <1>5

\* A chain that neither gains nor loses a receipt reads the same.
LEMMA ChainKept ==
  ASSUME NEW rs, NEW ts, DOMAIN rs \subseteq Nat, DOMAIN ts \subseteq Nat,
         NEW n, TableIds(rs, n) = TableIds(ts, n),
         NEW v, Walk(rs, v), NEW w, Walk(ts, w), \A i \in TableIds(rs, n) : v[i] = w[i],
         NEW b \in Nat, \A i \in DOMAIN rs : i <= b
  PROVE  ChainIn(rs, n) = ChainIn(ts, n)
<1>1. CASE TableIds(rs, n) = {}
  BY <1>1 DEF ChainIn
<1>2. ASSUME NEW h \in TableIds(rs, n), \A j \in TableIds(rs, n) : j <= h
      PROVE  ChainIn(rs, n) = ChainIn(ts, n)
  <2>1. ChainIn(rs, n) = v[h]
    BY <1>2, ChainFromHead
  <2>2. ChainIn(ts, n) = w[h]
    BY <1>2, ChainFromHead
  <2> QED BY <2>1, <2>2
<1>3. CASE TableIds(rs, n) # {}
  <2>1. TableIds(rs, n) \subseteq Nat /\ \A i \in TableIds(rs, n) : i <= b
    BY DEF TableIds
  <2>2. \E h \in TableIds(rs, n) : \A j \in TableIds(rs, n) : j <= h
    BY <1>3, <2>1, Greatest
  <2> QED BY <1>2, <2>2
<1> QED BY <1>1, <1>3

\* Ids of the table before and after a step are naturals, and bounded.
LEMMA TableOK ==
  ASSUME TypeOK
  PROVE  DOMAIN rows \subseteq Nat /\ seq \in Nat /\ \A i \in DOMAIN rows : i >= 1 /\ i <= seq
BY DEF TypeOK, RowsOK, Ids

LEMMA CommitWalks ==
  ASSUME TypeOK, TypeOK', Walkable, NEW c \in Client, CommitAppend(c)
  PROVE  /\ Walkable'
         /\ seq < MaxId /\ seq' = seq + 1
         /\ \E n \in Namespaces :
              /\ ChainIn(rows', n) = Append(ChainIn(rows, n), seq')
              /\ \A m \in Namespaces \ {n} : ChainIn(rows', m) = ChainIn(rows, m)
<1>1. PICK r, head : Inserts(c, r, head)
  BY CommitInserts
<1>2. PICK id \in Nat : id = seq + 1
  BY DEF TypeOK
<1> DEFINE n == client[c].ns
<1>3. /\ DOMAIN rows' = DOMAIN rows \cup {id} /\ rows'[id] = r /\ id \notin DOMAIN rows
      /\ \A i \in DOMAIN rows : rows'[i] = rows[i] /\ i < id /\ i \in Nat
      /\ DOMAIN rows \subseteq Nat /\ DOMAIN rows' \subseteq Nat
      /\ seq < MaxId /\ seq' = id
  BY <1>1, <1>2, TableOK, VaultAssumption DEF Inserts, TypeOK, RowsOK, Ids
<1>4. n \in Namespaces /\ r.ns = n /\ r.parent_id = head /\ None \notin Nat
  BY <1>1, VaultAssumption DEF Inserts
<1>5. PICK w : Walk(rows, w)
  BY DEF Walkable
<1> DEFINE last == IF head \in DOMAIN rows THEN Append(w[head], id) ELSE <<id>>
           v == [i \in DOMAIN rows' |-> IF i = id THEN last ELSE w[i]]
<1>6. Walk(rows', v)
  <2>1. ASSUME NEW i \in DOMAIN rows'
        PROVE  v[i] = IF rows'[i].parent_id \in DOMAIN rows' /\ rows'[i].parent_id < i
                      THEN Append(v[rows'[i].parent_id], i) ELSE <<i>>
    <3>1. CASE i = id
      <4>1. v[i] = last /\ rows'[i].parent_id = head
        BY <1>3, <1>4, <3>1
      <4>2. CASE head \in DOMAIN rows
        <5>1. v[head] = w[head] /\ head \in DOMAIN rows' /\ head < i
          BY <1>3, <3>1, <4>2
        <5> QED BY <3>1, <4>1, <4>2, <5>1
      <4>3. CASE head \notin DOMAIN rows
        <5>1. ~(head \in DOMAIN rows' /\ head < i)
          BY <1>3, <3>1, <4>3
        <5> QED BY <3>1, <4>1, <4>3, <5>1
      <4> QED BY <4>2, <4>3
    <3>2. CASE i # id
      <4>1. i \in DOMAIN rows /\ v[i] = w[i] /\ rows'[i] = rows[i] /\ i < id /\ i \in Nat
        BY <1>3, <3>2
      <4>2. w[i] = IF rows[i].parent_id \in DOMAIN rows /\ rows[i].parent_id < i
                   THEN Append(w[rows[i].parent_id], i) ELSE <<i>>
        BY <1>5, <4>1 DEF Walk
      <4>3. CASE rows[i].parent_id \in DOMAIN rows /\ rows[i].parent_id < i
        <5>1. v[rows[i].parent_id] = w[rows[i].parent_id] /\ rows[i].parent_id \in DOMAIN rows'
          BY <1>3, <4>3
        <5> HIDE DEF v
        <5> QED BY <4>1, <4>2, <4>3, <5>1
      <4>4. CASE ~(rows[i].parent_id \in DOMAIN rows /\ rows[i].parent_id < i)
        <5>1. ~(rows[i].parent_id \in DOMAIN rows' /\ rows[i].parent_id < i)
          BY <1>3, <4>1, <4>4
        <5> HIDE DEF v
        <5> QED BY <4>1, <4>2, <4>4, <5>1
      <4> QED BY <4>3, <4>4
    <3> QED BY <3>1, <3>2
  <2>2. DOMAIN v = DOMAIN rows' /\ v = [i \in DOMAIN rows' |-> v[i]]
    OBVIOUS
  <2> HIDE DEF v
  <2> QED BY <2>1, <2>2 DEF Walk
<1>7. Walkable'
  <2> HIDE DEF v
  <2> QED BY <1>6 DEF Walkable
<1>8. ChainIn(rows', n) = Append(ChainIn(rows, n), seq')
  <2>1. TableIds(rows', n) = TableIds(rows, n) \cup {id}
    BY <1>3, <1>4 DEF TableIds
  <2>2. id \in TableIds(rows', n) /\ \A j \in TableIds(rows', n) : j <= id
    BY <1>3, <2>1 DEF TableIds
  <2>3. ChainIn(rows', n) = last
    <3>1. v[id] = last
      BY <1>3
    <3> HIDE DEF v, last
    <3> QED BY <1>3, <1>6, <2>2, <3>1, ChainFromHead
  <2>4. CASE TableIds(rows, n) = {}
    <3>1. head = None /\ None \notin DOMAIN rows
      BY <1>1, <1>3, <1>4, <2>4 DEF Inserts, IsHead, IdsIn, Ids, TableIds
    <3>2. ChainIn(rows, n) = <<>>
      BY <2>4 DEF ChainIn
    <3> QED BY <1>3, <2>3, <3>1, <3>2
  <2>5. CASE TableIds(rows, n) # {}
    <3>1. head \in TableIds(rows, n) /\ \A j \in TableIds(rows, n) : j <= head
      BY <1>1, <2>5 DEF Inserts, IsHead, IdsIn, Ids, TableIds
    <3>2. ChainIn(rows, n) = w[head]
      BY <1>3, <1>5, <3>1, ChainFromHead
    <3>3. head \in DOMAIN rows
      BY <3>1 DEF TableIds
    <3> QED BY <1>3, <2>3, <3>2, <3>3
  <2> QED BY <2>4, <2>5
<1>9. ASSUME NEW m \in Namespaces, m # n
      PROVE  ChainIn(rows', m) = ChainIn(rows, m)
  <2>1. TableIds(rows', m) = TableIds(rows, m)
    BY <1>3, <1>4, <1>9 DEF TableIds
  <2>2. \A i \in TableIds(rows, m) : w[i] = v[i]
    BY <1>3 DEF TableIds
  <2>3. seq \in Nat /\ \A i \in DOMAIN rows : i <= seq
    BY TableOK
  <2> HIDE DEF v
  <2> QED BY <1>3, <1>5, <1>6, <2>1, <2>2, <2>3, ChainKept
<1> QED BY <1>2, <1>3, <1>4, <1>7, <1>8, <1>9

LEMMA PurgeWalks ==
  ASSUME TypeOK, NamespaceChains, Walkable, NEW c \in Client, PurgeReceipts(c)
  PROVE  /\ Walkable'
         /\ seq' = seq
         /\ ChainIn(rows', client[c].ns) = <<>>
         /\ \A m \in Namespaces \ {client[c].ns} : ChainIn(rows', m) = ChainIn(rows, m)
<1> DEFINE n == client[c].ns
<1>1. /\ DOMAIN rows' = {i \in DOMAIN rows : rows[i].ns # n}
      /\ \A i \in DOMAIN rows' : rows'[i] = rows[i]
      /\ DOMAIN rows \subseteq Nat /\ DOMAIN rows' \subseteq Nat
      /\ seq \in Nat /\ \A i \in DOMAIN rows : i <= seq
  BY PurgeRemoves, TableOK DEF Ids
<1>2. None \notin Nat
  BY VaultAssumption
<1>3. PICK w : Walk(rows, w)
  BY DEF Walkable
<1> DEFINE v == [i \in DOMAIN rows' |-> w[i]]
<1>4. ASSUME NEW i \in DOMAIN rows', rows[i].parent_id \in DOMAIN rows
      PROVE  rows[i].parent_id \in DOMAIN rows'
  <2>1. Linked(i) /\ rows[i].parent_id # None /\ rows[i].ns # n
    BY <1>1, <1>2, <1>4 DEF NamespaceChains, Ids
  <2>2. rows[rows[i].parent_id].ns = rows[i].ns
    BY <2>1 DEF Linked, IdsIn
  <2> QED BY <1>1, <1>4, <2>1, <2>2
<1>5. Walk(rows', v)
  <2>1. ASSUME NEW i \in DOMAIN rows'
        PROVE  v[i] = IF rows'[i].parent_id \in DOMAIN rows' /\ rows'[i].parent_id < i
                      THEN Append(v[rows'[i].parent_id], i) ELSE <<i>>
    <3>1. i \in DOMAIN rows /\ rows'[i] = rows[i] /\ v[i] = w[i]
      BY <1>1
    <3>2. w[i] = IF rows[i].parent_id \in DOMAIN rows /\ rows[i].parent_id < i
                 THEN Append(w[rows[i].parent_id], i) ELSE <<i>>
      BY <1>3, <3>1 DEF Walk
    <3>3. rows[i].parent_id \in DOMAIN rows <=> rows[i].parent_id \in DOMAIN rows'
      BY <1>1, <1>4
    <3>4. rows[i].parent_id \in DOMAIN rows' => v[rows[i].parent_id] = w[rows[i].parent_id]
      OBVIOUS
    <3> HIDE DEF v
    <3> QED BY <3>1, <3>2, <3>3, <3>4
  <2>2. DOMAIN v = DOMAIN rows' /\ v = [i \in DOMAIN rows' |-> v[i]]
    OBVIOUS
  <2> HIDE DEF v
  <2> QED BY <2>1, <2>2 DEF Walk
<1>6. Walkable'
  <2> HIDE DEF v
  <2> QED BY <1>5 DEF Walkable
<1>7. ChainIn(rows', n) = <<>>
  <2>1. TableIds(rows', n) = {}
    BY <1>1 DEF TableIds
  <2> QED BY <2>1 DEF ChainIn
<1>8. ASSUME NEW m \in Namespaces, m # n
      PROVE  ChainIn(rows', m) = ChainIn(rows, m)
  <2>1. TableIds(rows', m) = TableIds(rows, m)
    BY <1>1, <1>8 DEF TableIds
  <2>2. \A i \in TableIds(rows, m) : w[i] = v[i]
    BY <1>1, <1>8 DEF TableIds
  <2> HIDE DEF v
  <2> QED BY <1>1, <1>3, <1>5, <2>1, <2>2, ChainKept
<1> QED BY <1>6, <1>7, <1>8 DEF PurgeReceipts

LEMMA RetagWalks ==
  ASSUME TypeOK, TypeOK', Walkable, NEW c \in Client, UpdateTags(c)
  PROVE  /\ Walkable'
         /\ seq' = seq
         /\ \A m \in Namespaces : ChainIn(rows', m) = ChainIn(rows, m)
<1>1. DOMAIN rows' = DOMAIN rows /\ \A i \in Ids : \E t : rows'[i] = [rows[i] EXCEPT !.tags = t]
  BY RetagKeeps DEF Ids
<1>2. \A i \in DOMAIN rows :
        rows'[i].ns = rows[i].ns /\ rows'[i].parent_id = rows[i].parent_id
  BY <1>1 DEF TypeOK, RowsOK, RowOK, RowFields, Ids
<1>3. PICK w : Walk(rows, w)
  BY DEF Walkable
<1>4. Walk(rows', w)
  <2>1. [i \in DOMAIN rows' |->
           IF rows'[i].parent_id \in DOMAIN rows' /\ rows'[i].parent_id < i
           THEN Append(w[rows'[i].parent_id], i) ELSE <<i>>] =
        [i \in DOMAIN rows |->
           IF rows[i].parent_id \in DOMAIN rows /\ rows[i].parent_id < i
           THEN Append(w[rows[i].parent_id], i) ELSE <<i>>]
    BY <1>1, <1>2
  <2> QED BY <1>3, <2>1 DEF Walk
<1>5. ASSUME NEW m \in Namespaces PROVE ChainIn(rows', m) = ChainIn(rows, m)
  <2>1. TableIds(rows', m) = TableIds(rows, m)
    BY <1>1, <1>2 DEF TableIds
  <2> QED BY <1>1, <1>3, <1>4, <2>1, TableOK, ChainKept
<1> QED BY <1>4, <1>5 DEF Walkable, UpdateTags

\* The ledger that the vault implements, and that it starts and steps as one.
Mapped == [n \in Namespaces |-> LinkedChain(n)]

LEMMA StartsAsLedger ==
  ASSUME Init
  PROVE  L!LedgerInit /\ Walkable
<1>1. DOMAIN rows = {} /\ seq = 0
  BY DEF Init
<1>2. \A n : LinkedChain(n) = <<>>
  BY <1>1 DEF LinkedChain, IdsIn, Ids
<1>3. Walk(rows, [i \in DOMAIN rows |-> <<i>>])
  BY <1>1 DEF Walk
<1> QED BY <1>1, <1>2, <1>3 DEF L!LedgerInit, Walkable

LEMMA StepsAsLedger ==
  ASSUME TypeOK, TypeOK', NamespaceChains, Walkable, [Next]_vars
  PROVE  Walkable' /\ (L!LedgerNext \/ UNCHANGED <<Mapped, seq>>)
<1>1. \A n : LinkedChain(n) = ChainIn(rows, n) /\ LinkedChain(n)' = ChainIn(rows', n)
  BY ChainsRead
<1>2. CASE UNCHANGED <<rows, seq>>
  <2>1. \A n : LinkedChain(n)' = LinkedChain(n)
    BY <1>1, <1>2
  <2> QED BY <1>2, <2>1 DEF Mapped, Walkable
<1>3. ASSUME NEW c \in Client, CommitAppend(c) PROVE Walkable' /\ L!LedgerNext
  <2>1. PICK n \in Namespaces :
          /\ LinkedChain(n)' = Append(LinkedChain(n), seq')
          /\ \A m \in Namespaces \ {n} : LinkedChain(m)' = LinkedChain(m)
    BY <1>1, <1>3, CommitWalks
  <2>2. Walkable' /\ seq < MaxId /\ seq' = seq + 1
    BY <1>3, CommitWalks
  <2>3. Mapped' = [Mapped EXCEPT ![n] = Append(Mapped[n], seq')]
    BY <2>1 DEF Mapped
  <2> QED BY <2>2, <2>3 DEF L!LedgerNext, L!Extend, Mapped
<1>4. ASSUME NEW c \in Client, PurgeReceipts(c)
      PROVE  Walkable' /\ (L!LedgerNext \/ UNCHANGED <<Mapped, seq>>)
  <2>n. PICK n : n = client[c].ns
    OBVIOUS
  <2>1. /\ LinkedChain(n)' = <<>> /\ seq' = seq /\ Walkable'
        /\ \A m \in Namespaces \ {n} : LinkedChain(m)' = LinkedChain(m)
    BY <1>1, <1>4, <2>n, PurgeWalks
  <2>2. CASE n \in Namespaces
    <3>1. Mapped' = [Mapped EXCEPT ![n] = <<>>]
      BY <2>1, <2>2 DEF Mapped
    <3> QED BY <2>1, <2>2, <3>1 DEF L!LedgerNext, L!Drop, Mapped
  <2>3. CASE n \notin Namespaces
    BY <2>1, <2>3 DEF Mapped
  <2> QED BY <2>2, <2>3
<1>5. ASSUME NEW c \in Client, UpdateTags(c)
      PROVE  Walkable' /\ UNCHANGED <<Mapped, seq>>
  BY <1>1, <1>5, RetagWalks DEF Mapped
<1> QED BY <1>2, <1>3, <1>4, <1>5, RowWriters

\* Seen through its parent links, the vault is a ledger: an append-only list
\* per namespace that can only be dropped whole, with ids from one counter.
THEOREM VaultIsLedger == Spec => ImplementsLedger
<1>1. Init => L!LedgerInit /\ Walkable
  BY StartsAsLedger
<1>2. TypeOK /\ TypeOK' /\ NamespaceChains /\ Walkable /\ [Next]_vars
        => Walkable' /\ [L!LedgerNext]_<<Mapped, seq>>
  BY StepsAsLedger
<1> QED BY <1>1, <1>2, TypeCorrect, ChainContinuity, PTL
        DEF Spec, ImplementsLedger, L!Spec, Mapped
=============================================================================
