------------------------------ MODULE Witness ------------------------------
(***************************************************************************)
(* Co-signing by a witness: the notary (dontlie/witness_service.py), the   *)
(* command that has every receipt of a namespace co-signed                 *)
(* (dontlie/witness_coverage.py) and the daily anchor                      *)
(* (dontlie/anchor_daily.py).  Requests and answers are lost, notaries     *)
(* stop and come back with another key, runs die halfway and are resumed,  *)
(* under the same or under another witness URL.                            *)
(*                                                                         *)
(* Abstracted: a signature is an attestation [subject, key]; nonces,       *)
(* versions and times are left out; a Merkle root is the set of its        *)
(* receipts.                                                               *)
(***************************************************************************)
EXTENDS Ledger

CONSTANTS
  Url,          \* witness URLs operators use
  NotaryKey,    \* keys notaries may generate
  Coverer,      \* processes that run witness-coverage
  NoFile,       \* a file or a key that is not there
  Torn,         \* a file opened for writing and not yet written
  MaxCovered,   \* bound: receipts in a vault that is being covered
  MaxRuns,      \* bound: runs of each process that covers
  MaxBatch      \* bound: batches the daily anchor creates

ASSUME WitnessAssumption ==
  /\ NoFile \notin NotaryKey /\ Torn # NoFile
  /\ MaxId \in Nat /\ MaxCovered \in Nat /\ MaxRuns \in Nat /\ MaxBatch \in Nat

VARIABLES
  notary,       \* by URL: the key it signs with, NoFile before its first start
  signed,       \* history: every attestation a notary has signed
  attFile,      \* ATT_DIR/receipt-<id>.json, by receipt
  table,        \* witness_attestations: primary key (receipt, URL)
  coverer,      \* the state of each coverage run
  unread,       \* history: receipts whose file was torn when a run resumed on it
  batches,      \* batches of the daily anchor, each a set of receipts
  otsFile,      \* daily-<day>.ots
  dailyFile,    \* daily-<day>.json
  daily         \* the state of the daily anchor

notaryVars == <<notary, signed>>
coverVars == <<attFile, table, coverer, unread>>
dailyVars == <<batches, otsFile, dailyFile, daily>>
witnessVars == <<notaryVars, coverVars, dailyVars>>

-----------------------------------------------------------------------------
(* The notary *)

NotaryInit ==
  /\ notary = [u \in Url |-> NoFile]
  /\ signed = {}

UsedKeys == {notary[u] : u \in Url} \cup {a.key : a \in signed}

\* WitnessState(): generate a key if witness.key is missing, then load it.  A
\* notary whose key directory is kept comes back as it was; one that is down
\* cannot be told from one whose requests are lost.
StartNotary(u) ==
  /\ \E k \in NotaryKey \ UsedKeys : notary' = [notary EXCEPT ![u] = k]
  /\ UNCHANGED signed

\* attest(): the co-signature over one subject, under the key in memory.
Attest(u, subject) == [subject |-> subject, key |-> notary[u]]

\* POST /attest: the notary signs and answers, or signs and the answer is
\* lost, or never gets the request.  No answer is NoFile here.
Exchange(u, subject, answer) ==
  \/ /\ notary[u] # NoFile
     /\ signed' = signed \cup {Attest(u, subject)}
     /\ answer \in {Attest(u, subject), NoFile}
  \/ /\ answer = NoFile
     /\ UNCHANGED signed

-----------------------------------------------------------------------------
(* witness-coverage *)

NoRun == [pc |-> "idle", url |-> NoFile, resume |-> FALSE, listed |-> {},
          todo |-> <<>>, att |-> NoFile, failed |-> FALSE, runs |-> 0]

CoverInit ==
  /\ attFile = [i \in 1..MaxId |-> NoFile]
  /\ table = [p \in {} |-> NoFile]
  /\ coverer = [c \in Coverer |-> NoRun]
  /\ unread = {}

CoverAt(c, pc) == coverer[c].pc = pc
CoverBecomes(c, state) == coverer' = [coverer EXCEPT ![c] = state]

Reversed(ids) == [j \in DOMAIN ids |-> ids[Len(ids) + 1 - j]]

\* coverage_iter: list the receipts, newest first.
BeginCover(c, u, resume, n) ==
  /\ coverer[c].pc \in {"idle", "over"} /\ coverer[c].runs < MaxRuns
  /\ chain[n] # <<>> /\ issued <= MaxCovered
  /\ CoverBecomes(c, [NoRun EXCEPT !.pc = "pubkey", !.url = u, !.resume = resume,
                        !.runs = coverer[c].runs + 1,
                        !.listed = {chain[n][j] : j \in DOMAIN chain[n]},
                        !.todo = Reversed(chain[n])])
  /\ UNCHANGED <<attFile, table, unread, notaryVars>>

\* The witness's public key, once for all receipts; without it all have failed.
FetchPubkey(c) ==
  /\ CoverAt(c, "pubkey")
  /\ \/ /\ notary[coverer[c].url] # NoFile
        /\ CoverBecomes(c, [coverer[c] EXCEPT !.pc = "next"])
     \/ CoverBecomes(c, [coverer[c] EXCEPT !.pc = "over", !.todo = <<>>,
                           !.failed = TRUE])
  /\ UNCHANGED <<attFile, table, unread, notaryVars>>

Current(c) == Head(coverer[c].todo)
AlreadyAttested(i) == attFile[i] # NoFile

\* What a run knows after it is done with one receipt.
Advanced(c) == [coverer[c] EXCEPT !.pc = "next", !.todo = Tail(@), !.att = NoFile]
Failed(c) == [Advanced(c) EXCEPT !.failed = TRUE]

RowSet(i, u, att) ==
  [p \in DOMAIN table \cup {<<i, u>>} |-> IF p = <<i, u>> THEN att ELSE table[p]]

\* Fault variant: a resumed run does not look into the table.
BackfillNothing(c) ==
  /\ CoverAt(c, "next") /\ coverer[c].todo # <<>>
  /\ coverer[c].resume /\ AlreadyAttested(Current(c))
  /\ CoverBecomes(c, Advanced(c))
  /\ UNCHANGED <<attFile, table, unread, notaryVars>>

\* A resumed run skips a receipt whose file is there; _backfill_db_from_json
\* copies the file into the table, under the URL of this run, if no row is
\* there and the file can be read.
Backfill(c) ==
  /\ CoverAt(c, "next") /\ coverer[c].todo # <<>>
  /\ coverer[c].resume /\ AlreadyAttested(Current(c))
  /\ LET i == Current(c)
         u == coverer[c].url
     IN  \/ /\ <<i, u>> \in DOMAIN table
            /\ UNCHANGED <<table, unread>>
         \/ /\ <<i, u>> \notin DOMAIN table /\ attFile[i] = Torn
            /\ unread' = unread \cup {i}
            /\ UNCHANGED table
         \/ /\ <<i, u>> \notin DOMAIN table /\ attFile[i] # Torn
            /\ table' = RowSet(i, u, attFile[i].att)
            /\ UNCHANGED unread
  /\ CoverBecomes(c, Advanced(c))
  /\ UNCHANGED <<attFile, notaryVars>>

\* _attest_one, and the local verification: it ignores what verify_bytes
\* returns, so every answer with a signature in it passes.
PostReceipt(c) ==
  /\ CoverAt(c, "next") /\ coverer[c].todo # <<>>
  /\ ~(coverer[c].resume /\ AlreadyAttested(Current(c)))
  /\ \E answer \in {NoFile, Attest(coverer[c].url, <<"receipt", Current(c)>>)} :
       /\ Exchange(coverer[c].url, <<"receipt", Current(c)>>, answer)
       /\ CoverBecomes(c, IF answer = NoFile THEN Failed(c)
                          ELSE [coverer[c] EXCEPT !.pc = "open", !.att = answer])
  /\ UNCHANGED <<notary, attFile, table, unread>>

\* _save_attestation: open, which empties the file ...
OpenAttFile(c) ==
  /\ CoverAt(c, "open")
  /\ attFile' = [attFile EXCEPT ![Current(c)] = Torn]
  /\ CoverBecomes(c, [coverer[c] EXCEPT !.pc = "write"])
  /\ UNCHANGED <<table, unread, notaryVars>>

\* ... and write.
WriteAttFile(c) ==
  /\ CoverAt(c, "write")
  /\ attFile' = [attFile EXCEPT ![Current(c)] =
                   [url |-> coverer[c].url, att |-> coverer[c].att]]
  /\ CoverBecomes(c, [coverer[c] EXCEPT !.pc = "record"])
  /\ UNCHANGED <<table, unread, notaryVars>>

\* Fault variant: the next receipt inherits the answer to this one.
RecordForNext(c) ==
  /\ CoverAt(c, "record")
  /\ table' = RowSet(Head(Append(Tail(coverer[c].todo), Current(c))),
                     coverer[c].url, coverer[c].att)
  /\ CoverBecomes(c, Advanced(c))
  /\ UNCHANGED <<attFile, unread, notaryVars>>

\* INSERT OR REPLACE and commit; an SQLite error counts as a failure.
RecordAttestation(c) ==
  /\ CoverAt(c, "record")
  /\ \/ /\ table' = RowSet(Current(c), coverer[c].url, coverer[c].att)
        /\ CoverBecomes(c, Advanced(c))
     \/ /\ CoverBecomes(c, Failed(c))
        /\ UNCHANGED table
  /\ UNCHANGED <<attFile, unread, notaryVars>>

FinishCover(c) ==
  /\ CoverAt(c, "next") /\ coverer[c].todo = <<>>
  /\ CoverBecomes(c, [coverer[c] EXCEPT !.pc = "over", !.resume = FALSE])
  /\ UNCHANGED <<attFile, table, unread, notaryVars>>

\* The process dies; a file it had opened stays empty.
KillCover(c) ==
  /\ coverer[c].pc \notin {"idle", "over"}
  /\ CoverBecomes(c, [NoRun EXCEPT !.runs = coverer[c].runs])
  /\ UNCHANGED <<attFile, table, unread, notaryVars>>

CoverStep(c) ==
  \/ \E u \in Url, resume \in BOOLEAN, n \in Namespaces : BeginCover(c, u, resume, n)
  \/ FetchPubkey(c) \/ Backfill(c) \/ PostReceipt(c)
  \/ OpenAttFile(c) \/ WriteAttFile(c) \/ RecordAttestation(c)
  \/ FinishCover(c) \/ KillCover(c)

-----------------------------------------------------------------------------
(* anchor daily *)

NoAnchor == [pc |-> "idle", ids |-> {}, batch |-> 0, exit |-> NoFile]

DailyInit ==
  /\ batches = <<>>
  /\ otsFile = NoFile
  /\ dailyFile = NoFile
  /\ daily = NoAnchor

DailyAt(pc) == daily.pc = pc
DailyEnds(exit) == daily' = [daily EXCEPT !.pc = "idle", !.exit = exit]

\* The receipts of the day; without any there is nothing to anchor.
BeginDaily(n) ==
  /\ DailyAt("idle")
  /\ chain[n] # <<>> /\ issued <= MaxCovered
  /\ daily' = [NoAnchor EXCEPT !.pc = "batch",
                               !.ids = {chain[n][j] : j \in DOMAIN chain[n]}]
  /\ UNCHANGED <<batches, otsFile, dailyFile, notaryVars>>

InVault(i) == \E n \in Namespaces : \E j \in DOMAIN chain[n] : chain[n][j] = i

\* batch.create: every receipt must still be there.
CreateBatch ==
  /\ DailyAt("batch")
  /\ \/ /\ \A i \in daily.ids : InVault(i)
        /\ Len(batches) < MaxBatch
        /\ batches' = Append(batches, daily.ids)
        /\ daily' = [daily EXCEPT !.pc = "ots", !.batch = Len(batches) + 1]
     \/ /\ \E i \in daily.ids : ~InVault(i)
        /\ DailyEnds(1)
        /\ UNCHANGED batches
  /\ UNCHANGED <<otsFile, dailyFile, notaryVars>>

\* Fault variant: the OTS file of a day is written once and kept.
WriteOtsOnce ==
  /\ DailyAt("ots")
  /\ otsFile' = IF otsFile = NoFile THEN daily.batch ELSE otsFile
  /\ daily' = [daily EXCEPT !.pc = "post"]
  /\ UNCHANGED <<batches, dailyFile, notaryVars>>

\* _create_ots_for_root: a pending attestation over the root of the batch.
WriteOts ==
  /\ DailyAt("ots")
  /\ otsFile' = daily.batch
  /\ daily' = [daily EXCEPT !.pc = "post"]
  /\ UNCHANGED <<batches, dailyFile, notaryVars>>

Root(batch) == <<"root", batches[batch]>>

DailyRecord(att) == [batch |-> daily.batch, att |-> att, verified |-> att # Torn]

\* /pubkey and POST /attest; the file is written if the answer can be parsed,
\* also if there is no signature in it (Torn), which is exit status 2.
PostRoot(u) ==
  /\ DailyAt("post")
  /\ \E answer \in {NoFile, Torn, Attest(u, Root(daily.batch))} :
       /\ IF answer = Torn THEN UNCHANGED signed
          ELSE Exchange(u, Root(daily.batch), answer)
       /\ dailyFile' = IF answer = NoFile THEN dailyFile ELSE DailyRecord(answer)
       /\ DailyEnds(IF answer = NoFile THEN 1 ELSE IF answer = Torn THEN 2 ELSE 0)
  /\ UNCHANGED <<notary, batches, otsFile>>

\* The process dies, perhaps with the file it was about to write open.
KillDaily ==
  /\ ~DailyAt("idle")
  /\ otsFile' \in IF DailyAt("ots") THEN {otsFile, Torn} ELSE {otsFile}
  /\ dailyFile' \in IF DailyAt("post") THEN {dailyFile, Torn} ELSE {dailyFile}
  /\ daily' = NoAnchor
  /\ UNCHANGED <<batches, notaryVars>>

DailyStep ==
  \/ \E n \in Namespaces : BeginDaily(n)
  \/ CreateBatch \/ WriteOts
  \/ \E u \in Url : PostRoot(u)
  \/ KillDaily

-----------------------------------------------------------------------------
WitnessInit == NotaryInit /\ CoverInit /\ DailyInit

NotaryStep == \E u \in Url : StartNotary(u)

\* Coverage and daily anchor have nothing in common but the notary, so a
\* behaviour contains runs of one of them only.
Covering == coverer # [c \in Coverer |-> NoRun] \/ \E i \in 1..MaxId : attFile[i] # NoFile
Anchoring == daily # NoAnchor \/ batches # <<>>

WitnessNext ==
  \/ NotaryStep /\ UNCHANGED <<coverVars, dailyVars>>
  \/ ~Anchoring /\ UNCHANGED dailyVars /\ \E c \in Coverer : CoverStep(c)
  \/ ~Covering /\ UNCHANGED coverVars /\ DailyStep

-----------------------------------------------------------------------------
(* Properties *)

\* Every row of witness_attestations, also one that a resumed run filled in
\* from a file, holds what some notary signed for that very receipt.
RowsEarned ==
  \A p \in DOMAIN table :
    table[p] \in signed /\ table[p].subject = <<"receipt", p[1]>>

Covered(c) == \A i \in coverer[c].listed : <<i, coverer[c].url>> \in DOMAIN table

\* A run that exits with 0 has left a row for every receipt it listed, whoever
\* crashed before it, unless it met a file that was not written to the end.
CoverageComplete ==
  \A c \in Coverer :
    CoverAt(c, "over") /\ ~coverer[c].failed
      => Covered(c) \/ coverer[c].listed \cap unread # {}

\* The same without the exception: --resume may "skip receipts that already
\* have a stored attestation".  The code does not guarantee it.
ResumeCovers ==
  \A c \in Coverer : CoverAt(c, "over") /\ ~coverer[c].failed => Covered(c)

\* What the daily anchor leaves behind hangs together however often it failed
\* and was run again: the files name batches that exist, the timestamp file is
\* never older than the JSON file, and a root recorded as verified was signed.
DailyTrail ==
  /\ otsFile \in {NoFile, Torn} \cup DOMAIN batches
  /\ dailyFile \notin {NoFile, Torn} =>
       /\ dailyFile.batch \in DOMAIN batches
       /\ otsFile # Torn => otsFile >= dailyFile.batch
       /\ dailyFile.verified => /\ dailyFile.att \in signed
                                /\ dailyFile.att.subject = Root(dailyFile.batch)
=============================================================================
