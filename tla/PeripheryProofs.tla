-------------------------- MODULE PeripheryProofs --------------------------
(***************************************************************************)
(* Theorems about Periphery.  Each part gets the inductive invariant of    *)
(* its own, and a lemma that says which steps of Periphery it sees.        *)
(***************************************************************************)
EXTENDS Periphery, Wellorder, TextProofs

-----------------------------------------------------------------------------
(* The vault beside the parts *)

LedgerShape ==
  /\ issued \in 0..MaxId
  /\ chain \in [Namespaces -> Seq(1..MaxId)]

LEMMA LedgerKeeps ==
  ASSUME MaxId \in Nat, LedgerShape, [LedgerNext]_<<chain, issued>>
  PROVE  LedgerShape'
<1>1. CASE UNCHANGED <<chain, issued>>
  BY <1>1 DEF LedgerShape
<1>2. ASSUME NEW n \in Namespaces, Extend(n) PROVE LedgerShape'
  <2>1. issued' = issued + 1 /\ issued' \in 1..MaxId
    BY <1>2 DEF LedgerShape, Extend
  <2>2. Append(chain[n], issued') \in Seq(1..MaxId)
    BY <2>1 DEF LedgerShape
  <2> QED BY <1>2, <2>1, <2>2 DEF LedgerShape, Extend
<1>3. ASSUME NEW n \in Namespaces, Drop(n) PROVE LedgerShape'
  BY <1>3 DEF LedgerShape, Drop
<1> QED BY <1>1, <1>2, <1>3 DEF LedgerNext

\* A step is one of the part, or the part does not see it.
LEMMA PartsSee ==
  ASSUME [PeripheryNext]_peripheryVars
  PROVE  /\ SealingNext \/ UNCHANGED sealingVars
         /\ SettingsNext \/ UNCHANGED settingsVars
         /\ ReputationNext \/ UNCHANGED reputationVars
         /\ AnchorsNext \/ UNCHANGED anchorsVars
         /\ TimestampNext \/ UNCHANGED timestampVars
         /\ StatementsNext \/ UNCHANGED statementsVars
         /\ PeerNext \/ RouteNext \/ UNCHANGED peerVars
         /\ AgentNext \/ UNCHANGED agentVars
         /\ RedactionNext \/ UNCHANGED redactionVars
         /\ SseNext \/ UNCHANGED sseVars
         /\ AdaptersNext \/ UNCHANGED adaptersVars
         /\ CborNext \/ UNCHANGED cborVars
<1>1. CASE PartStep /\ OthersRest
  BY <1>1 DEF PartStep, OthersRest
<1>2. CASE UNCHANGED peripheryVars
  BY <1>2 DEF peripheryVars
<1> QED BY <1>1, <1>2 DEF PeripheryNext

LEMMA LongerSeq == ASSUME NEW S, NEW T, S \subseteq T, NEW s \in Seq(S) PROVE s \in Seq(T)
  OBVIOUS

\* What is left of a list without its first element.
LEMMA TailElements ==
  ASSUME NEW S, NEW s \in Seq(S), s # <<>>
  PROVE  /\ Head(s) \in S /\ Head(s) = s[1] /\ Tail(s) \in Seq(S)
         /\ Elements(s) = {Head(s)} \cup Elements(Tail(s))
<1>1. Len(s) \in Nat \ {0} /\ Tail(s) \in Seq(S) /\ Head(s) = s[1] /\ Head(s) \in S
  OBVIOUS
<1>2. Len(Tail(s)) = Len(s) - 1 /\ \A j \in 1..(Len(s) - 1) : Tail(s)[j] = s[j + 1]
  BY <1>1
<1>3. ASSUME NEW j \in 1..Len(s), j # 1 PROVE s[j] \in Elements(Tail(s))
  <2>1. j - 1 \in 1..(Len(s) - 1) /\ (j - 1) + 1 = j
    BY <1>1, <1>3
  <2>2. Tail(s)[j - 1] = s[j] /\ j - 1 \in DOMAIN Tail(s)
    BY <1>1, <1>2, <2>1
  <2> QED BY <2>2 DEF Elements
<1>4. ASSUME NEW j \in 1..(Len(s) - 1) PROVE Tail(s)[j] \in Elements(s)
  <2>1. j + 1 \in 1..Len(s)
    BY <1>1
  <2> QED BY <1>2, <2>1 DEF Elements
<1> QED BY <1>1, <1>2, <1>3, <1>4 DEF Elements

-----------------------------------------------------------------------------
(* Witness *)

LEMMA WitnessStep ==
  ASSUME [PeripheryNext]_peripheryVars
  PROVE  \/ WitnessNext /\ UNCHANGED <<chain, issued>>
         \/ UNCHANGED witnessVars /\ [LedgerNext]_<<chain, issued>>
<1>1. CASE PartStep /\ OthersRest /\ UNCHANGED <<chain, issued>>
  BY <1>1 DEF PartStep, OthersRest
<1>2. CASE LedgerNext /\ UNCHANGED witnessVars
  BY <1>2
<1>3. CASE UNCHANGED peripheryVars
  BY <1>3 DEF peripheryVars
<1> QED BY <1>1, <1>2, <1>3 DEF PeripheryNext

CoverRun(atts) ==
  [pc : {"idle", "pubkey", "next", "open", "write", "record", "over"},
   url : Url \cup {NoFile}, resume : BOOLEAN, listed : SUBSET (1..MaxId),
   todo : Seq(1..MaxId), att : atts \cup {NoFile}, failed : BOOLEAN, runs : Nat]

\* An answer that is being stored is the one to the receipt in hand, and a run
\* that has not failed owes nothing but what it still has to do.
RunSound(r, atts, rows, skipped) ==
  /\ r \in CoverRun(atts)
  /\ r.pc \in {"open", "write", "record"} =>
       r.todo # <<>> /\ r.att \in atts /\ r.att.subject = <<"receipt", Head(r.todo)>>
  /\ r.pc # "idle" /\ ~r.failed =>
       \A i \in r.listed \ Elements(r.todo) : <<i, r.url>> \in rows \/ i \in skipped
  /\ r.pc = "over" /\ ~r.failed => r.todo = <<>>

FilesEarned ==
  /\ attFile = [i \in 1..MaxId |-> attFile[i]]
  /\ \A i \in 1..MaxId :
       attFile[i] \notin {NoFile, Torn} =>
         attFile[i].att \in signed /\ attFile[i].att.subject = <<"receipt", i>>

TableEarned == table = [p \in DOMAIN table |-> table[p]] /\ RowsEarned

CoverInv ==
  /\ FilesEarned /\ TableEarned
  /\ coverer = [c \in Coverer |-> coverer[c]]
  /\ \A c \in Coverer : RunSound(coverer[c], signed, DOMAIN table, unread)

LEMMA CoverStarts == ASSUME WitnessInit, LedgerInit PROVE CoverInv
<1>1. attFile = [i \in 1..MaxId |-> NoFile] /\ DOMAIN table = {} /\ table = [p \in {} |-> NoFile]
  BY DEF WitnessInit, CoverInit
<1>2. RunSound(NoRun, signed, DOMAIN table, unread)
  BY DEF NoRun, CoverRun, RunSound
<1>3. coverer = [c \in Coverer |-> NoRun]
  BY DEF WitnessInit, CoverInit
<1>4. FilesEarned
  BY <1>1 DEF FilesEarned
<1>5. TableEarned
  BY <1>1 DEF TableEarned, RowsEarned
<1> QED BY <1>2, <1>3, <1>4, <1>5 DEF CoverInv

\* Whatever else is signed and stored, a run stays sound.
LEMMA RunStays ==
  ASSUME NEW r, NEW atts, NEW rows, NEW skipped, RunSound(r, atts, rows, skipped),
         NEW atts2, NEW rows2, NEW skipped2,
         atts \subseteq atts2, rows \subseteq rows2, skipped \subseteq skipped2
  PROVE  RunSound(r, atts2, rows2, skipped2)
<1>1. r \in CoverRun(atts2)
  BY DEF RunSound, CoverRun
<1> QED BY <1>1 DEF RunSound

LEMMA CoverMoves ==
  ASSUME CoverInv, NEW c \in Coverer, NEW r, CoverBecomes(c, r),
         signed \subseteq signed', DOMAIN table \subseteq DOMAIN table', unread \subseteq unread',
         FilesEarned', TableEarned', RunSound(r, signed', DOMAIN table', unread')
  PROVE  CoverInv'
<1>1. ASSUME NEW d \in Coverer PROVE RunSound(coverer'[d], signed', DOMAIN table', unread')
  <2>1. RunSound(coverer[d], signed', DOMAIN table', unread')
    BY RunStays DEF CoverInv
  <2> QED BY <2>1 DEF CoverBecomes, CoverInv
<1>2. coverer' = [d \in Coverer |-> coverer'[d]]
  BY DEF CoverBecomes, CoverInv
<1> QED BY <1>1, <1>2 DEF CoverInv

\* A run that is done with a receipt that was recorded, or that has failed.
LEMMA AdvancedSound ==
  ASSUME NEW c \in Coverer, NEW atts, NEW rows, NEW skipped,
         RunSound(coverer[c], atts, rows, skipped), coverer[c].todo # <<>>, coverer[c].pc # "idle",
         <<Current(c), coverer[c].url>> \in rows \/ Current(c) \in skipped \/ coverer[c].failed
  PROVE  RunSound(Advanced(c), atts, rows, skipped)
<1> DEFINE r == coverer[c]
           s == Advanced(c)
<1>1. r \in CoverRun(atts) /\ r.todo \in Seq(1..MaxId)
  BY DEF RunSound, CoverRun
<1>2. /\ Tail(r.todo) \in Seq(1..MaxId)
      /\ Elements(r.todo) = {Head(r.todo)} \cup Elements(Tail(r.todo))
  BY <1>1, TailElements
<1>3. s = [r EXCEPT !.pc = "next", !.todo = Tail(r.todo), !.att = NoFile]
  BY DEF Advanced
<1>4. /\ s \in CoverRun(atts) /\ s.pc = "next" /\ s.todo = Tail(r.todo)
      /\ s.url = r.url /\ s.failed = r.failed /\ s.listed = r.listed
  BY <1>1, <1>2, <1>3 DEF CoverRun
<1> HIDE DEF s
<1> QED BY <1>2, <1>4 DEF RunSound, Current, s

LEMMA FailedSound ==
  ASSUME NEW c \in Coverer, NEW atts, NEW rows, NEW skipped,
         RunSound(coverer[c], atts, rows, skipped), coverer[c].todo # <<>>
  PROVE  RunSound(Failed(c), atts, rows, skipped)
<1> DEFINE r == coverer[c]
           s == Failed(c)
<1>1. r \in CoverRun(atts) /\ r.todo \in Seq(1..MaxId)
  BY DEF RunSound, CoverRun
<1>2. Tail(r.todo) \in Seq(1..MaxId)
  BY <1>1, TailElements
<1>3. s \in CoverRun(atts) /\ s.pc = "next" /\ s.failed = TRUE
  BY <1>1, <1>2 DEF CoverRun, Failed, Advanced
<1> HIDE DEF s
<1> QED BY <1>3 DEF RunSound, s

LEMMA CoverKeeps ==
  ASSUME MaxId \in Nat, LedgerShape, CoverInv, NEW c \in Coverer, CoverStep(c)
  PROVE  CoverInv'
<1> DEFINE r == coverer[c]
           rows == DOMAIN table
<1>0. /\ RunSound(r, signed, rows, unread) /\ r \in CoverRun(signed)
      /\ FilesEarned /\ TableEarned
  BY DEF CoverInv, RunSound
<1>1. ASSUME NEW u \in Url, NEW resume \in BOOLEAN, NEW n \in Namespaces, BeginCover(c, u, resume, n)
      PROVE  CoverInv'
  <2> DEFINE s == [NoRun EXCEPT !.pc = "pubkey", !.url = u, !.resume = resume,
                        !.runs = coverer[c].runs + 1,
                        !.listed = {chain[n][j] : j \in DOMAIN chain[n]},
                        !.todo = Reversed(chain[n])]
             ids == chain[n]
  <2>1. ids \in Seq(1..MaxId)
    BY DEF LedgerShape
  <2>2. Reversed(ids) \in Seq(1..MaxId)
    <3> DEFINE S == 1..MaxId
    <3>1. ids \in Seq(S)
      BY <2>1
    <3> HIDE DEF S, ids
    <3>2. \A j \in 1..Len(ids) : Len(ids) + 1 - j \in 1..Len(ids)
      BY <3>1
    <3>3. [j \in 1..Len(ids) |-> ids[Len(ids) + 1 - j]] \in [1..Len(ids) -> S]
      BY <3>1, <3>2
    <3>4. [j \in 1..Len(ids) |-> ids[Len(ids) + 1 - j]] \in Seq(S)
      BY <3>1, <3>3
    <3> QED BY <3>1, <3>4 DEF Reversed, S
  <2>3. ASSUME NEW j \in DOMAIN ids PROVE ids[j] \in Elements(Reversed(ids))
    <3>1. Len(ids) + 1 - j \in DOMAIN ids /\ Len(ids) + 1 - (Len(ids) + 1 - j) = j
      BY <2>1
    <3>2. Reversed(ids)[Len(ids) + 1 - j] = ids[j]
      BY <3>1 DEF Reversed
    <3> QED BY <3>1, <3>2 DEF Elements, Reversed
  <2>4. s \in CoverRun(signed) /\ s.pc = "pubkey"
    <3>1. {chain[n][j] : j \in DOMAIN chain[n]} \in SUBSET (1..MaxId)
      BY <2>1
    <3>2. coverer[c].runs + 1 \in Nat
      BY <1>0 DEF CoverRun
    <3> QED BY <2>2, <3>1, <3>2 DEF NoRun, CoverRun
  <2>5. s.listed \subseteq Elements(s.todo)
    BY <2>3 DEF NoRun
  <2> HIDE DEF s
  <2>6. RunSound(s, signed, rows, unread)
    BY <2>4, <2>5 DEF RunSound
  <2> QED BY <1>0, <1>1, <2>6, CoverMoves DEF BeginCover, s, notaryVars, FilesEarned, TableEarned, RowsEarned
<1>2. CASE FetchPubkey(c)
  <2>1. RunSound([r EXCEPT !.pc = "next"], signed, rows, unread)
    BY <1>0, <1>2 DEF FetchPubkey, RunSound, CoverRun, CoverAt
  <2>2. RunSound([r EXCEPT !.pc = "over", !.todo = <<>>, !.failed = TRUE], signed, rows, unread)
    <3> DEFINE s == [r EXCEPT !.pc = "over", !.todo = <<>>, !.failed = TRUE]
    <3>1. <<>> \in Seq(1..MaxId)
      OBVIOUS
    <3>2. s \in CoverRun(signed) /\ s.pc = "over" /\ s.failed = TRUE
      BY <1>0, <3>1 DEF CoverRun
    <3> HIDE DEF s
    <3>3. RunSound(s, signed, rows, unread)
      BY <3>2 DEF RunSound
    <3> QED BY <3>3 DEF s
  <2> QED BY <1>0, <1>2, <2>1, <2>2, CoverMoves DEF FetchPubkey, notaryVars, FilesEarned, TableEarned, RowsEarned
<1>3. CASE Backfill(c)
  <2> DEFINE i == Current(c)
             u == coverer[c].url
  <2>1. r.todo # <<>> /\ r.pc = "next" /\ i \in 1..MaxId
    BY <1>0, <1>3, TailElements DEF Backfill, CoverAt, Current, CoverRun
  <2>2. FilesEarned'
    BY <1>0, <1>3 DEF Backfill, FilesEarned, notaryVars
  <2>3. rows \subseteq DOMAIN table' /\ unread \subseteq unread' /\ signed' = signed
        /\ (<<i, u>> \in DOMAIN table' \/ i \in unread')
    BY <1>3 DEF Backfill, RowSet, notaryVars
  <2>4. TableEarned'
    <3>1. CASE UNCHANGED table
      BY <1>0, <2>3, <3>1 DEF TableEarned, RowsEarned
    <3>2. CASE attFile[i] # Torn /\ table' = RowSet(i, u, attFile[i].att)
      <4>1. attFile[i].att \in signed /\ attFile[i].att.subject = <<"receipt", i>>
        BY <1>0, <1>3, <2>1, <3>2 DEF FilesEarned, Backfill, AlreadyAttested
      <4> HIDE DEF i, u
      <4> QED BY <1>0, <2>3, <3>2, <4>1 DEF TableEarned, RowsEarned, RowSet
    <3> QED BY <1>3, <3>1, <3>2 DEF Backfill
  <2>5. RunSound(r, signed', DOMAIN table', unread')
    BY <1>0, <2>3, RunStays
  <2>6. RunSound(Advanced(c), signed', DOMAIN table', unread')
    BY <2>1, <2>3, <2>5, AdvancedSound
  <2> QED BY <1>3, <2>2, <2>3, <2>4, <2>6, CoverMoves DEF Backfill
<1>4. CASE PostReceipt(c)
  <2> DEFINE i == Current(c)
             mine == Attest(coverer[c].url, <<"receipt", i>>)
  <2>1. r.todo # <<>> /\ r.pc = "next" /\ mine.subject = <<"receipt", i>>
    BY <1>4 DEF PostReceipt, CoverAt, Attest
  <2> HIDE DEF mine
  <2>2. PICK answer \in {NoFile, mine} :
          /\ Exchange(coverer[c].url, <<"receipt", i>>, answer)
          /\ CoverBecomes(c, IF answer = NoFile THEN Failed(c)
                             ELSE [coverer[c] EXCEPT !.pc = "open", !.att = answer])
    BY <1>4 DEF PostReceipt, mine
  <2>3. signed \subseteq signed' /\ (answer # NoFile => answer = mine /\ mine \in signed')
    BY <2>2 DEF Exchange, mine
  <2>4. UNCHANGED <<attFile, table, unread>>
    BY <1>4 DEF PostReceipt
  <2>5. FilesEarned' /\ TableEarned'
    BY <1>0, <2>3, <2>4 DEF FilesEarned, TableEarned, RowsEarned
  <2>6. RunSound(r, signed', rows, unread)
    BY <1>0, <2>3, RunStays
  <2>7. CASE answer = NoFile
    <3>1. RunSound(Failed(c), signed', rows, unread)
      BY <2>1, <2>6, FailedSound
    <3> QED BY <2>2, <2>3, <2>4, <2>5, <2>7, <3>1, CoverMoves
  <2>8. CASE answer # NoFile
    <3> DEFINE s == [r EXCEPT !.pc = "open", !.att = answer]
    <3>1. /\ s \in CoverRun(signed') /\ s.att = mine /\ s.pc = "open"
          /\ s.todo = r.todo /\ s.url = r.url /\ s.failed = r.failed /\ s.listed = r.listed
      BY <2>3, <2>6, <2>8 DEF RunSound, CoverRun
    <3> HIDE DEF s
    <3>2. RunSound(s, signed', rows, unread)
      BY <2>1, <2>3, <2>6, <2>8, <3>1 DEF RunSound, Current
    <3> QED BY <2>2, <2>3, <2>4, <2>5, <2>8, <3>2, CoverMoves DEF s
  <2> QED BY <2>7, <2>8
<1>5. CASE OpenAttFile(c)
  <2>1. RunSound([r EXCEPT !.pc = "write"], signed, rows, unread)
    BY <1>0, <1>5 DEF OpenAttFile, RunSound, CoverRun, CoverAt
  <2>2. FilesEarned'
    BY <1>0, <1>5 DEF OpenAttFile, FilesEarned, notaryVars
  <2> QED BY <1>0, <1>5, <2>1, <2>2, CoverMoves DEF OpenAttFile, notaryVars, TableEarned, RowsEarned
<1>6. CASE WriteAttFile(c)
  <2>1. RunSound([r EXCEPT !.pc = "record"], signed, rows, unread)
    BY <1>0, <1>6 DEF WriteAttFile, RunSound, CoverRun, CoverAt
  <2>2. FilesEarned'
    BY <1>0, <1>6 DEF WriteAttFile, FilesEarned, RunSound, CoverAt, Current, notaryVars
  <2> QED BY <1>0, <1>6, <2>1, <2>2, CoverMoves DEF WriteAttFile, notaryVars, TableEarned, RowsEarned
<1>7. CASE RecordAttestation(c)
  <2> DEFINE i == Current(c)
             u == coverer[c].url
  <2>1. r.todo # <<>> /\ r.pc = "record" /\ r.att \in signed /\ r.att.subject = <<"receipt", i>>
    BY <1>0, <1>7 DEF RecordAttestation, CoverAt, RunSound, Current
  <2>2. FilesEarned' /\ UNCHANGED <<signed, unread>>
    BY <1>0, <1>7 DEF RecordAttestation, FilesEarned, notaryVars
  <2>3. CASE table' = RowSet(i, u, coverer[c].att) /\ CoverBecomes(c, Advanced(c))
    <3> HIDE DEF i, u
    <3>1. TableEarned' /\ rows \subseteq DOMAIN table' /\ <<i, u>> \in DOMAIN table'
      BY <1>0, <2>1, <2>2, <2>3 DEF TableEarned, RowsEarned, RowSet
    <3>2. RunSound(r, signed', DOMAIN table', unread')
      BY <1>0, <2>2, <3>1, RunStays
    <3>3. RunSound(Advanced(c), signed', DOMAIN table', unread')
      BY <2>1, <3>1, <3>2, AdvancedSound DEF i, u
    <3> QED BY <2>2, <2>3, <3>1, <3>3, CoverMoves
  <2>4. CASE CoverBecomes(c, Failed(c)) /\ UNCHANGED table
    <3>1. RunSound(Failed(c), signed, rows, unread)
      BY <1>0, <2>1, FailedSound
    <3> QED BY <1>0, <2>2, <2>4, <3>1, CoverMoves DEF TableEarned, RowsEarned
  <2> QED BY <1>7, <2>3, <2>4 DEF RecordAttestation
<1>8. CASE FinishCover(c)
  <2>1. RunSound([r EXCEPT !.pc = "over", !.resume = FALSE], signed, rows, unread)
    BY <1>0, <1>8 DEF FinishCover, RunSound, CoverRun, CoverAt
  <2> QED BY <1>0, <1>8, <2>1, CoverMoves DEF FinishCover, notaryVars, FilesEarned, TableEarned, RowsEarned
<1>9. CASE KillCover(c)
  <2>1. RunSound([NoRun EXCEPT !.runs = coverer[c].runs], signed, rows, unread)
    <3> DEFINE s == [NoRun EXCEPT !.runs = coverer[c].runs]
    <3>1. <<>> \in Seq(1..MaxId)
      OBVIOUS
    <3>2. s \in CoverRun(signed) /\ s.pc = "idle"
      BY <1>0, <3>1 DEF CoverRun, NoRun
    <3> HIDE DEF s
    <3>3. RunSound(s, signed, rows, unread)
      BY <3>2 DEF RunSound
    <3> QED BY <3>3 DEF s
  <2> QED BY <1>0, <1>9, <2>1, CoverMoves DEF KillCover, notaryVars, FilesEarned, TableEarned, RowsEarned
<1> QED BY <1>1, <1>2, <1>3, <1>4, <1>5, <1>6, <1>7, <1>8, <1>9 DEF CoverStep

\* The batch the anchor works on is the newest, and the timestamp file is its
\* before the JSON file is.
TrailEarned ==
  dailyFile \notin {NoFile, Torn} =>
    /\ dailyFile.batch \in DOMAIN batches
    /\ otsFile # Torn => otsFile \in DOMAIN batches /\ otsFile >= dailyFile.batch
    /\ dailyFile.verified => /\ dailyFile.att \in signed
                             /\ dailyFile.att.subject = Root(dailyFile.batch)

DailyInv ==
  /\ batches \in Seq(SUBSET (1..MaxId))
  /\ daily \in [pc : {"idle", "batch", "ots", "post"}, ids : SUBSET (1..MaxId),
                batch : Nat, exit : {NoFile, 0, 1, 2}]
  /\ otsFile \in {NoFile, Torn} \cup DOMAIN batches
  /\ daily.pc \in {"ots", "post"} => daily.batch = Len(batches) /\ daily.batch \in DOMAIN batches
  /\ daily.pc = "post" => otsFile = daily.batch
  /\ TrailEarned

LEMMA DailyStarts == ASSUME WitnessInit PROVE DailyInv
BY DEF WitnessInit, DailyInit, DailyInv, TrailEarned, NoAnchor

LEMMA DailyKeeps ==
  ASSUME MaxId \in Nat, LedgerShape, DailyInv, DailyStep
  PROVE  DailyInv' /\ signed \subseteq signed'
<1>0. /\ batches \in Seq(SUBSET (1..MaxId)) /\ Len(batches) \in Nat /\ DOMAIN batches = 1..Len(batches)
      /\ daily = [pc |-> daily.pc, ids |-> daily.ids, batch |-> daily.batch, exit |-> daily.exit]
      /\ daily.ids \in SUBSET (1..MaxId) /\ daily.batch \in Nat
  BY DEF DailyInv
<1>1. ASSUME NEW n \in Namespaces, BeginDaily(n) PROVE DailyInv' /\ signed \subseteq signed'
  <2>1. {chain[n][j] : j \in DOMAIN chain[n]} \in SUBSET (1..MaxId)
    BY DEF LedgerShape
  <2>2. UNCHANGED <<batches, otsFile, dailyFile, signed>> /\ daily'.pc = "batch"
        /\ daily' \in [pc : {"idle", "batch", "ots", "post"}, ids : SUBSET (1..MaxId),
                       batch : Nat, exit : {NoFile, 0, 1, 2}]
    BY <1>1, <2>1 DEF BeginDaily, NoAnchor, notaryVars
  <2> QED BY <2>2 DEF DailyInv, TrailEarned, Root
<1>2. CASE CreateBatch
  <2>1. CASE batches' = Append(batches, daily.ids) /\ daily' = [daily EXCEPT !.pc = "ots", !.batch = Len(batches) + 1]
    <3>1. /\ batches' \in Seq(SUBSET (1..MaxId)) /\ Len(batches') = Len(batches) + 1
          /\ DOMAIN batches' = 1..(Len(batches) + 1)
          /\ \A b \in DOMAIN batches : batches'[b] = batches[b] /\ b \in DOMAIN batches'
      BY <1>0, <2>1
    <3>2. /\ daily'.pc = "ots" /\ daily'.batch = Len(batches')
          /\ daily' \in [pc : {"idle", "batch", "ots", "post"}, ids : SUBSET (1..MaxId),
                         batch : Nat, exit : {NoFile, 0, 1, 2}]
      <4>1. daily'.pc = "ots" /\ daily'.batch = Len(batches) + 1 /\ Len(batches) + 1 \in Nat
        BY <1>0, <2>1
      <4>2. daily' \in [pc : {"idle", "batch", "ots", "post"}, ids : SUBSET (1..MaxId),
                        batch : Nat, exit : {NoFile, 0, 1, 2}]
        BY <2>1, <4>1 DEF DailyInv
      <4> QED BY <3>1, <4>1, <4>2
    <3>3. UNCHANGED <<otsFile, dailyFile, signed>>
      BY <1>2 DEF CreateBatch, notaryVars
    <3>4. TrailEarned'
      BY SMTT(30), <3>1, <3>3 DEF DailyInv, TrailEarned, Root
    <3> QED BY <1>0, <3>1, <3>2, <3>3, <3>4 DEF DailyInv
  <2>2. CASE DailyEnds(1) /\ UNCHANGED batches
    BY <1>0, <1>2, <2>2 DEF CreateBatch, DailyEnds, DailyInv, TrailEarned, Root, notaryVars
  <2> QED BY <1>2, <2>1, <2>2 DEF CreateBatch
<1>3. CASE WriteOts
  <2>1. /\ daily'.pc = "post" /\ daily'.batch = daily.batch /\ daily.batch \in DOMAIN batches
        /\ daily' \in [pc : {"idle", "batch", "ots", "post"}, ids : SUBSET (1..MaxId),
                       batch : Nat, exit : {NoFile, 0, 1, 2}]
        /\ daily.batch = Len(batches) /\ otsFile' = daily.batch
        /\ UNCHANGED <<batches, dailyFile, signed>>
    BY <1>3 DEF WriteOts, DailyInv, DailyAt, notaryVars
  <2>2. TrailEarned'
    BY <1>0, <2>1 DEF DailyInv, TrailEarned, Root
  <2> QED BY <2>1, <2>2 DEF DailyInv
<1>4. ASSUME NEW u \in Url, PostRoot(u) PROVE DailyInv' /\ signed \subseteq signed'
  <2> DEFINE mine == Attest(u, Root(daily.batch))
  <2>1. mine.subject = Root(daily.batch)
    BY DEF Attest
  <2> HIDE DEF mine
  <2>2. PICK answer \in {NoFile, Torn, mine} :
          /\ IF answer = Torn THEN UNCHANGED signed
             ELSE Exchange(u, Root(daily.batch), answer)
          /\ dailyFile' = IF answer = NoFile THEN dailyFile ELSE DailyRecord(answer)
          /\ DailyEnds(IF answer = NoFile THEN 1 ELSE IF answer = Torn THEN 2 ELSE 0)
    BY <1>4 DEF PostRoot, mine
  <2>3. signed \subseteq signed' /\ (answer \notin {NoFile, Torn} => answer \in signed' /\ answer = mine)
    BY <2>2 DEF Exchange, mine
  <2>4. /\ daily.pc = "post" /\ UNCHANGED <<batches, otsFile>>
        /\ daily.batch \in DOMAIN batches /\ otsFile = daily.batch
    BY <1>4 DEF PostRoot, DailyAt, DailyInv
  <2>5. /\ daily'.pc = "idle"
        /\ daily' \in [pc : {"idle", "batch", "ots", "post"}, ids : SUBSET (1..MaxId),
                       batch : Nat, exit : {NoFile, 0, 1, 2}]
    BY <2>2 DEF DailyEnds, DailyInv
  <2>6. TrailEarned'
    <3>1. CASE answer = NoFile
      BY <2>2, <2>3, <2>4, <3>1 DEF DailyInv, TrailEarned, Root
    <3>2. CASE answer # NoFile
      <4>1. /\ dailyFile'.batch = daily.batch /\ dailyFile'.att = answer
            /\ dailyFile'.verified = (answer # Torn)
        BY <2>2, <3>2 DEF DailyRecord
      <4>2. otsFile' \in DOMAIN batches' /\ otsFile' >= dailyFile'.batch /\ dailyFile'.batch \in DOMAIN batches'
        BY <1>0, <2>4, <4>1
      <4>3. Root(daily.batch) = Root(dailyFile.batch)'
        BY <2>4, <4>1 DEF Root
      <4>4. dailyFile'.verified => dailyFile'.att \in signed' /\ dailyFile'.att.subject = Root(dailyFile.batch)'
        BY <2>1, <2>3, <3>2, <4>1, <4>3
      <4> QED BY <4>2, <4>4 DEF TrailEarned
    <3> QED BY <3>1, <3>2
  <2> QED BY <2>3, <2>4, <2>5, <2>6 DEF DailyInv
<1>5. CASE KillDaily
  <2>1. /\ daily' = NoAnchor /\ UNCHANGED <<batches, signed>>
        /\ otsFile' \in {otsFile, Torn} /\ dailyFile' \in {dailyFile, Torn}
    BY <1>5 DEF KillDaily, notaryVars
  <2> QED BY <2>1 DEF DailyInv, TrailEarned, Root, NoAnchor
<1> QED BY <1>1, <1>2, <1>3, <1>4, <1>5 DEF DailyStep

WitnessInv == LedgerShape /\ CoverInv /\ DailyInv

LEMMA WitnessInvInit == PeripheryInit => WitnessInv
<1> SUFFICES ASSUME PeripheryInit PROVE WitnessInv
  OBVIOUS
<1>1. WitnessInit /\ LedgerInit
  BY DEF PeripheryInit
<1>2. LedgerShape
  BY <1>1, WitnessAssumption DEF LedgerShape, LedgerInit
<1> QED BY <1>1, <1>2, CoverStarts, DailyStarts DEF WitnessInv

LEMMA WitnessInvNext == WitnessInv /\ [PeripheryNext]_peripheryVars => WitnessInv'
<1> SUFFICES ASSUME WitnessInv, [PeripheryNext]_peripheryVars PROVE WitnessInv'
  OBVIOUS
<1>1. MaxId \in Nat
  BY WitnessAssumption
<1>2. LedgerShape /\ CoverInv /\ DailyInv
  BY DEF WitnessInv
<1>3. CASE WitnessNext /\ UNCHANGED <<chain, issued>>
  <2>1. LedgerShape'
    BY <1>2, <1>3 DEF LedgerShape
  <2>2. ASSUME signed \subseteq signed', UNCHANGED coverVars PROVE CoverInv'
    <3>1. FilesEarned' /\ TableEarned'
      BY <1>2, <2>2 DEF CoverInv, FilesEarned, TableEarned, RowsEarned, coverVars
    <3>2. \A c \in Coverer : RunSound(coverer[c], signed', DOMAIN table, unread)
      BY <1>2, <2>2, RunStays DEF CoverInv
    <3> QED BY <1>2, <2>2, <3>1, <3>2 DEF CoverInv, coverVars
  <2>3. ASSUME signed \subseteq signed', UNCHANGED dailyVars PROVE DailyInv'
    BY <1>2, <2>3 DEF DailyInv, TrailEarned, Root, dailyVars
  <2>4. CASE NotaryStep /\ UNCHANGED <<coverVars, dailyVars>>
    BY <2>1, <2>2, <2>3, <2>4 DEF NotaryStep, StartNotary, WitnessInv
  <2>5. CASE UNCHANGED dailyVars /\ \E c \in Coverer : CoverStep(c)
    <3>1. CoverInv'
      BY <1>1, <1>2, <2>5, CoverKeeps
    <3>2. signed \subseteq signed'
      BY <2>5 DEF CoverStep, BeginCover, FetchPubkey, Backfill, PostReceipt, OpenAttFile, WriteAttFile,
                  RecordAttestation, FinishCover, KillCover, Exchange, notaryVars
    <3> QED BY <2>1, <2>3, <2>5, <3>1, <3>2 DEF WitnessInv
  <2>6. CASE UNCHANGED coverVars /\ DailyStep
    <3>1. DailyInv' /\ signed \subseteq signed'
      BY <1>1, <1>2, <2>6, DailyKeeps
    <3> QED BY <2>1, <2>2, <2>6, <3>1 DEF WitnessInv
  <2> QED BY <1>3, <2>4, <2>5, <2>6 DEF WitnessNext
<1>4. CASE UNCHANGED witnessVars /\ [LedgerNext]_<<chain, issued>>
  <2>1. LedgerShape'
    BY <1>1, <1>2, <1>4, LedgerKeeps
  <2>2. CoverInv'
    BY <1>2, <1>4 DEF CoverInv, FilesEarned, TableEarned, RowsEarned, RunSound, witnessVars,
                      coverVars, notaryVars
  <2>3. DailyInv'
    BY <1>2, <1>4 DEF DailyInv, TrailEarned, Root, witnessVars, dailyVars, notaryVars
  <2> QED BY <2>1, <2>2, <2>3 DEF WitnessInv
<1> QED BY <1>3, <1>4, WitnessStep

LEMMA WitnessInvHolds == PeripherySpec => []WitnessInv
BY WitnessInvInit, WitnessInvNext, PTL DEF PeripherySpec

\* RowsEarned: every row of witness_attestations is what a notary signed for
\* that very receipt, however runs die, resume and overlap.
THEOREM RowsAreEarned == PeripherySpec => []RowsEarned
<1>1. WitnessInv => RowsEarned
  BY DEF WitnessInv, CoverInv, TableEarned
<1> QED BY <1>1, WitnessInvHolds, PTL

\* CoverageComplete: a run of witness-coverage that exits with 0 has left no
\* receipt without a row, unless it met a torn file.
THEOREM CoverageIsComplete == PeripherySpec => []CoverageComplete
<1>1. WitnessInv => CoverageComplete
  <2> SUFFICES ASSUME WitnessInv, NEW c \in Coverer, CoverAt(c, "over"), ~coverer[c].failed,
                      coverer[c].listed \cap unread = {}
               PROVE  Covered(c)
    BY DEF CoverageComplete
  <2>1. RunSound(coverer[c], signed, DOMAIN table, unread)
    BY DEF WitnessInv, CoverInv
  <2>2. Elements(coverer[c].todo) = {}
    BY <2>1 DEF RunSound, CoverAt, Elements
  <2> QED BY <2>1, <2>2 DEF RunSound, CoverAt, Covered
<1> QED BY <1>1, WitnessInvHolds, PTL

\* DailyTrail: the files of the daily anchor name batches that exist, in the
\* order they were written, and what they call verified was signed.
THEOREM DailyTrailHolds == PeripherySpec => []DailyTrail
<1>1. WitnessInv => DailyTrail
  BY DEF WitnessInv, DailyInv, TrailEarned, DailyTrail
<1> QED BY <1>1, WitnessInvHolds, PTL

-----------------------------------------------------------------------------
(* Backup *)

LEMMA BackupSees ==
  ASSUME [PeripheryNext]_peripheryVars
  PROVE  \/ BackupNext /\ UNCHANGED <<chain, issued>>
         \/ UNCHANGED backupVars /\ [LedgerNext]_<<chain, issued>>
<1>1. CASE PartStep /\ OthersRest /\ UNCHANGED <<chain, issued>>
  BY <1>1 DEF PartStep, OthersRest
<1>2. CASE LedgerNext /\ UNCHANGED backupVars
  BY <1>2
<1>3. CASE UNCHANGED peripheryVars
  BY <1>3 DEF peripheryVars
<1> QED BY <1>1, <1>2, <1>3 DEF PeripheryNext

\* What a backup that is alone may rely on: <dst>.tmp is its own file, and not
\* the one <dst> names.
SaverSound(s) ==
  /\ s.pc \in {"idle", "opened", "copying", "copied"}
  /\ s.pc = "idle" => s = NotSaving
  /\ s.pc # "idle" => s.node = tmpName /\ tmpName \in Node
  /\ s.pc = "copying" => s.copy # HalfWritten
  /\ s.pc = "copied" => content[tmpName] # HalfWritten

Alone ==
  /\ tmpName \in Node \cup {NoNode} /\ dstName \in Node \cup {NoNode}
  /\ content = [d \in Node |-> content[d]]
  /\ saver = [p \in Saver |-> saver[p]]
  /\ tmpName = NoNode \/ tmpName # dstName
  /\ \A p \in Saver : SaverSound(saver[p])
  /\ \A p, q \in Saver : saver[p].pc # "idle" /\ saver[q].pc # "idle" => p = q
  /\ Whole(dstName)

BackupInv == overlapped \/ Alone

LEMMA FileLeft ==
  ASSUME Alone, tmpName = NoNode, \A p \in Saver : saver[p] = NotSaving
  PROVE  FirstUnused \in Node /\ FirstUnused # dstName
<1>1. Unused = Node \ {NoNode, dstName}
  BY DEF Unused, NotSaving
<1>2. Unused # {}
  <2> SUFFICES ASSUME Unused = {} PROVE FALSE
    OBVIOUS
  <2>1. Node \subseteq {dstName}
    BY <1>1, BackupAssumption
  <2>2. IsFiniteSet({dstName}) /\ Cardinality({dstName}) = 1
    BY FS_Singleton
  <2>3. Cardinality(Node) <= 1
    BY <2>1, <2>2, FS_Subset
  <2>4. Cardinality(Saver) \in Nat /\ Cardinality(Node) \in Nat
    BY BackupAssumption, FS_CardinalityType
  <2> QED BY <2>3, <2>4, BackupAssumption
<1>3. Unused \subseteq Nat
  BY <1>1, BackupAssumption
<1>4. \E d \in Unused : \A e \in Unused : d <= e
  BY <1>2, <1>3, Least
<1>5. FirstUnused \in Unused
  BY <1>4 DEF FirstUnused
<1> QED BY <1>1, <1>5

LEMMA BackupKeeps ==
  ASSUME LedgerShape, BackupInv, NEW p \in Saver, BackupStep(p)
  PROVE  BackupInv'
<1>0. SUFFICES ASSUME ~overlapped, Alone PROVE BackupInv'
  <2>1. ASSUME overlapped PROVE overlapped'
    <3>1. CASE OpenTmp(p)
      BY <2>1, <3>1 DEF OpenTmp
    <3>2. CASE BeginCopy(p) \/ EndCopy(p) \/ Replace(p) \/ KillSaver(p)
      BY <2>1, <3>2 DEF BeginCopy, EndCopy, Replace, KillSaver
    <3> QED BY <3>1, <3>2 DEF BackupStep
  <2> QED BY <2>1 DEF BackupInv
<1> USE <1>0
<1>a. SaverSound(saver[p]) /\ NoNode \notin Node
  BY BackupAssumption DEF Alone
<1>1. CASE OpenTmp(p)
  <2> SUFFICES ASSUME ~overlapped' PROVE Alone'
    BY DEF BackupInv
  <2>1. \A q \in Saver : saver[q] = NotSaving
    BY <1>1, <1>a DEF OpenTmp, SaverAt, Alone, SaverSound
  <2>2. tmpName' \in Node /\ tmpName' # dstName
    BY <1>1, <2>1, FileLeft DEF OpenTmp, Alone
  <2>3. /\ saver' = [saver EXCEPT ![p] = [NotSaving EXCEPT !.pc = "opened", !.node = tmpName']]
        /\ UNCHANGED <<dstName, content>>
    BY <1>1 DEF OpenTmp, SaverBecomes
  <2> QED BY <2>1, <2>2, <2>3 DEF Alone, SaverSound, NotSaving, Whole
<1>2. CASE BeginCopy(p)
  <2>1. [chain |-> chain, issued |-> issued] # HalfWritten
    BY BackupAssumption DEF LedgerShape
  <2>2. /\ content' = [content EXCEPT ![tmpName] = HalfWritten]
        /\ saver' = [saver EXCEPT ![p] = [saver[p] EXCEPT !.pc = "copying", !.copy = [chain |-> chain, issued |-> issued]]]
        /\ UNCHANGED <<tmpName, dstName, overlapped>> /\ saver[p].pc = "opened"
    BY <1>2 DEF BeginCopy, SaverBecomes, SaverAt
  <2> QED BY <1>a, <2>1, <2>2 DEF BackupInv, Alone, SaverSound, Whole
<1>3. CASE EndCopy(p)
  <2>1. /\ content' = [content EXCEPT ![tmpName] = saver[p].copy]
        /\ saver' = [saver EXCEPT ![p] = [saver[p] EXCEPT !.pc = "copied"]]
        /\ UNCHANGED <<tmpName, dstName, overlapped>> /\ saver[p].pc = "copying"
    BY <1>3, <1>a DEF EndCopy, SaverBecomes, SaverAt, SaverSound
  <2> QED BY <1>a, <2>1 DEF BackupInv, Alone, SaverSound, Whole
<1>4. CASE Replace(p)
  <2>1. /\ saver' = [saver EXCEPT ![p] = NotSaving] /\ dstName' = tmpName /\ tmpName' = NoNode
        /\ UNCHANGED <<content, overlapped>> /\ saver[p].pc = "copied"
    BY <1>4, <1>a DEF Replace, SaverBecomes, SaverAt, SaverSound
  <2> QED BY <1>a, <2>1 DEF BackupInv, Alone, SaverSound, Whole, NotSaving
<1>5. CASE KillSaver(p)
  <2>1. saver' = [saver EXCEPT ![p] = NotSaving] /\ UNCHANGED <<tmpName, dstName, content, overlapped>>
    BY <1>5 DEF KillSaver, SaverBecomes
  <2> QED BY <1>a, <2>1 DEF BackupInv, Alone, SaverSound, Whole, NotSaving
<1> QED BY <1>1, <1>2, <1>3, <1>4, <1>5 DEF BackupStep

LEMMA BackupInvHolds == PeripherySpec => [](LedgerShape /\ BackupInv)
<1>1. PeripheryInit => LedgerShape /\ BackupInv
  BY WitnessAssumption, BackupAssumption
     DEF PeripheryInit, LedgerInit, LedgerShape, BackupInit, BackupInv, Alone, SaverSound, NotSaving, Whole
<1>2. LedgerShape /\ BackupInv /\ [PeripheryNext]_peripheryVars => (LedgerShape /\ BackupInv)'
  <2> SUFFICES ASSUME LedgerShape, BackupInv, [PeripheryNext]_peripheryVars
               PROVE  LedgerShape' /\ BackupInv'
    OBVIOUS
  <2>1. CASE BackupNext /\ UNCHANGED <<chain, issued>>
    BY <2>1, BackupKeeps DEF BackupNext, LedgerShape
  <2>2. CASE UNCHANGED backupVars /\ [LedgerNext]_<<chain, issued>>
    <3>1. LedgerShape'
      BY <2>2, LedgerKeeps, WitnessAssumption
    <3>2. BackupInv'
      BY <2>2 DEF BackupInv, Alone, SaverSound, Whole, NotSaving, backupVars
    <3> QED BY <3>1, <3>2
  <2> QED BY <2>1, <2>2, BackupSees
<1> QED BY <1>1, <1>2, PTL DEF PeripherySpec

-----------------------------------------------------------------------------
(* Sealing *)

\* A file was read in the middle of a checkpoint, or before its end.
ReadBefore(got, of) == got = Cut \/ (got \in Nat /\ of \in Nat /\ got <= of)

SealingInv ==
  /\ committed \in Nat /\ mainFile \in Nat /\ mainFile <= committed
  /\ sealer.pc \in {"read", "writing"} => ReadBefore(sealer.got, sealer.of)
  /\ box \in {Gone, Cut} \/ ReadBefore(box.got, box.of)
  /\ opener.pc = "begun" => restored = opener.before /\ (box = Cut \/ ReadBefore(box.got, box.of))
  /\ opener.pc \in {"opened", "writing", "done"} => ReadBefore(opener.got, opener.of)
  /\ opener.pc = "done" => restored = opener.got
  /\ opener.pc = "failed" => restored = opener.before
  /\ sealer = [x \in DOMAIN sealer |-> sealer[x]] /\ "pc" \in DOMAIN sealer
  /\ opener = [x \in DOMAIN opener |-> opener[x]] /\ "pc" \in DOMAIN opener

LEMMA SealingKeeps == ASSUME SealingInv, SealingNext PROVE SealingInv'
<1> USE DEF SealingInv, ReadBefore, Idle
<1>1. CASE CommitToLog
  BY <1>1 DEF CommitToLog
<1>2. CASE Checkpoint
  BY <1>2 DEF Checkpoint
<1>3. CASE BeginEncrypt
  BY <1>3 DEF BeginEncrypt
<1>4. CASE ReadVaultFile
  BY <1>4 DEF ReadVaultFile
<1>5. CASE OpenBox
  BY <1>5 DEF OpenBox
<1>6. CASE WriteBox
  BY <1>6 DEF WriteBox
<1>7. CASE BeginUnlock
  BY <1>7 DEF BeginUnlock
<1>8. CASE Decrypt
  BY <1>8 DEF Decrypt
<1>9. CASE OpenTarget
  BY <1>9 DEF OpenTarget
<1>10. CASE WriteTarget
  BY <1>10 DEF WriteTarget
<1>11. CASE EndUnlock
  BY <1>11 DEF EndUnlock
<1>12. CASE KillSealing
  BY <1>12 DEF KillSealing
<1> QED BY <1>1, <1>2, <1>3, <1>4, <1>5, <1>6, <1>7, <1>8, <1>9, <1>10, <1>11, <1>12 DEF SealingNext

LEMMA SealingInvHolds == PeripherySpec => []SealingInv
<1>1. PeripheryInit => SealingInv
  BY DEF PeripheryInit, SealingInit, SealingInv, Idle
<1>2. SealingInv /\ [PeripheryNext]_peripheryVars => SealingInv'
  BY PartsSee, SealingKeeps DEF SealingInv, sealingVars
<1> QED BY <1>1, <1>2, PTL DEF PeripherySpec

\* CopiesWhole: a backup at <dst> is a whole vault, and what unlock leaves is
\* what encrypt read.
THEOREM CopiesAreWhole == PeripherySpec => []CopiesWhole
<1>1. BackupInv => SnapshotWhole
  BY DEF BackupInv, Alone, SnapshotWhole
<1>2. SealingInv => SealedReturns
  BY DEF SealingInv, ReadBefore, SealedReturns
<1> QED BY <1>1, <1>2, BackupInvHolds, SealingInvHolds, PTL DEF CopiesWhole

-----------------------------------------------------------------------------
(* Public attestations *)

\* A revocation names an attestation of the same key; an attestation is no
\* revocation.
IsRevocation(x) == "of" \in DOMAIN x /\ x.key = x.of.key
IsAttestation(x) == "of" \notin DOMAIN x

\* A file holds what its address names, or is still to be written.
HoldsOrPartial(files) == \A a \in DOMAIN files : files[a] \in {a, Partial}

PublisherSound(s) ==
  /\ s = [x \in {"pc", "receipt", "item"} |-> s[x]]
  /\ s.pc \in {"idle", "tip", "create", "write", "createrev", "writerev"}
  /\ s.pc \in {"create", "write"} => IsAttestation(s.item)
  /\ s.pc \in {"createrev", "writerev"} => IsRevocation(s.item)

ReputationInv ==
  /\ HoldsOrPartial(attested) /\ HoldsOrPartial(revoked)
  /\ publisher = [p \in Publisher |-> publisher[p]]
  /\ \A p \in Publisher : PublisherSound(publisher[p])
  /\ \A x \in announced :
       \/ IsAttestation(x) /\ Resolves(x)
       \/ IsRevocation(x) /\ x \in DOMAIN revoked /\ revoked[x] = x

\* Files only come and are completed.
LEMMA PutKeeps ==
  ASSUME NEW files, HoldsOrPartial(files), NEW item, NEW value \in {item, Partial},
         item \notin DOMAIN files \/ value = item
  PROVE  LET after == Put(files, item, value)
         IN  /\ HoldsOrPartial(after)
             /\ \A a \in DOMAIN files : files[a] = a => a \in DOMAIN after /\ after[a] = a
             /\ value = item => item \in DOMAIN after /\ after[item] = item
BY DEF Put, HoldsOrPartial

LEMMA WriteOnceKeeps ==
  ASSUME NEW files, HoldsOrPartial(files), NEW state, NEW item
  PROVE  LET w == WriteOnce(files, state, item)
         IN  /\ HoldsOrPartial(w.files)
             /\ \A a \in DOMAIN files : files[a] = a => a \in DOMAIN w.files /\ w.files[a] = a
             /\ w.ok \in BOOLEAN
             /\ w.ok => item \in DOMAIN w.files /\ w.files[item] = item
             /\ w.next \in {Waiting, state}
<1>1. CASE item \in DOMAIN files
  BY <1>1 DEF WriteOnce, HoldsOrPartial
<1>2. CASE item \notin DOMAIN files
  <2>1. /\ HoldsOrPartial(Put(files, item, Partial))
        /\ \A a \in DOMAIN files : files[a] = a =>
             a \in DOMAIN Put(files, item, Partial) /\ Put(files, item, Partial)[a] = a
    BY <1>2, PutKeeps
  <2> QED BY <1>2, <2>1 DEF WriteOnce
<1> QED BY <1>1, <1>2

\* A publisher goes on, files are added, and at most what it holds is announced.
LEMMA ReputationMoves ==
  ASSUME ReputationInv, NEW p \in Publisher, NEW s, PublisherBecomes(p, s), PublisherSound(s),
         HoldsOrPartial(attested'), HoldsOrPartial(revoked'),
         \A a \in DOMAIN attested : attested[a] = a => a \in DOMAIN attested' /\ attested'[a] = a,
         \A r \in DOMAIN revoked : revoked[r] = r => r \in DOMAIN revoked' /\ revoked'[r] = r,
         \A x \in announced' : \/ x \in announced
                               \/ IsAttestation(x) /\ x \in DOMAIN attested' /\ attested'[x] = x
                               \/ IsRevocation(x) /\ x \in DOMAIN revoked' /\ revoked'[x] = x
  PROVE  ReputationInv'
<1>1. publisher' = [q \in Publisher |-> publisher'[q]] /\ \A q \in Publisher : PublisherSound(publisher'[q])
  BY DEF PublisherBecomes, ReputationInv
<1>2. ASSUME NEW x \in announced'
      PROVE  \/ IsAttestation(x) /\ x \in DOMAIN attested' /\ attested'[x] = x
             \/ IsRevocation(x) /\ x \in DOMAIN revoked' /\ revoked'[x] = x
  BY DEF ReputationInv, Resolves
<1> QED BY <1>1, <1>2 DEF ReputationInv, Resolves

LEMMA ReputationKeeps ==
  ASSUME ReputationInv, ReputationNext PROVE ReputationInv'
<1> USE DEF ReputationInv
<1>w. PublisherSound(Waiting)
  BY DEF Waiting, PublisherSound
<1>1. ASSUME NEW p \in Publisher, FindReceipt(p) PROVE ReputationInv'
  <2>1. \A i : PublisherSound([Waiting EXCEPT !.pc = "tip", !.receipt = i])
    <3> SUFFICES ASSUME NEW i PROVE PublisherSound([Waiting EXCEPT !.pc = "tip", !.receipt = i])
      OBVIOUS
    <3> QED BY DEF Waiting, PublisherSound
  <2> QED BY <1>1, <2>1, ReputationMoves DEF FindReceipt
<1>2. ASSUME NEW p \in Publisher, ReadTip(p) PROVE ReputationInv'
  <2>0. PublisherSound(publisher[p])
    OBVIOUS
  <2>1. ASSUME NEW tip, NEW witnesses, NEW corroborated
        PROVE  PublisherSound([publisher[p] EXCEPT !.pc = "create",
                 !.item = [receipt |-> publisher[p].receipt, tip |-> tip, key |-> ownKey,
                    issued |-> clock, witnesses |-> witnesses, corroborated |-> corroborated]])
    <3> DEFINE a == [receipt |-> publisher[p].receipt, tip |-> tip, key |-> ownKey,
                     issued |-> clock, witnesses |-> witnesses, corroborated |-> corroborated]
    <3>1. IsAttestation(a)
      BY DEF IsAttestation
    <3> HIDE DEF a
    <3>2. PublisherSound([publisher[p] EXCEPT !.pc = "create", !.item = a])
      BY <2>0, <3>1 DEF PublisherSound
    <3> QED BY <3>2 DEF a
  <2> QED BY <1>2, <1>w, <2>1, ReputationMoves DEF ReadTip
<1>3. ASSUME NEW p \in Publisher, PutAttestation(p) PROVE ReputationInv'
  <2> DEFINE s == publisher[p]
             next == [publisher[p] EXCEPT !.pc = "write"]
             w == WriteOnce(attested, next, s.item)
  <2>1. PublisherSound(s) /\ s.pc = "create" /\ IsAttestation(s.item)
    BY <1>3 DEF PutAttestation, PublisherAt, PublisherSound
  <2>2. PublisherSound(next)
    BY <2>1 DEF PublisherSound
  <2>3. /\ attested' = w.files /\ PublisherBecomes(p, w.next) /\ Announce(w.ok, s.item)
        /\ UNCHANGED revoked
    BY <1>3 DEF PutAttestation
  <2> HIDE DEF next, w
  <2>4. /\ HoldsOrPartial(w.files)
        /\ \A a \in DOMAIN attested : attested[a] = a => a \in DOMAIN w.files /\ w.files[a] = a
        /\ w.ok => s.item \in DOMAIN w.files /\ w.files[s.item] = s.item
        /\ PublisherSound(w.next)
    BY <1>w, <2>2, WriteOnceKeeps DEF w
  <2>5. \A x \in announced' : x \in announced \/ (w.ok /\ x = s.item)
    BY <2>3 DEF Announce
  <2> QED BY <2>1, <2>3, <2>4, <2>5, ReputationMoves
<1>4. ASSUME NEW p \in Publisher, WriteAttestation(p) PROVE ReputationInv'
  <2> DEFINE s == publisher[p]
  <2>1. PublisherSound(s) /\ s.pc = "write" /\ IsAttestation(s.item)
    BY <1>4 DEF WriteAttestation, PublisherAt, PublisherSound
  <2>2. /\ attested' = Put(attested, s.item, s.item) /\ PublisherBecomes(p, Waiting)
        /\ announced' = announced \cup {s.item} /\ UNCHANGED revoked
    BY <1>4 DEF WriteAttestation, Announce
  <2>3. /\ HoldsOrPartial(attested') /\ s.item \in DOMAIN attested' /\ attested'[s.item] = s.item
        /\ \A a \in DOMAIN attested : attested[a] = a => a \in DOMAIN attested' /\ attested'[a] = a
    BY <2>2, PutKeeps
  <2> QED BY <1>w, <2>1, <2>2, <2>3, ReputationMoves
<1>5. ASSUME NEW p \in Publisher, BuildRevocation(p) PROVE ReputationInv'
  <2>1. ASSUME NEW a, ownKey = a.key
        PROVE  PublisherSound([Waiting EXCEPT !.pc = "createrev",
                                 !.item = [of |-> a, key |-> ownKey, at |-> clock]])
    <3> DEFINE x == [of |-> a, key |-> ownKey, at |-> clock]
    <3>1. IsRevocation(x)
      BY <2>1 DEF IsRevocation
    <3> HIDE DEF x
    <3>2. PublisherSound([Waiting EXCEPT !.pc = "createrev", !.item = x])
      BY <3>1 DEF Waiting, PublisherSound
    <3> QED BY <3>2 DEF x
  <2> QED BY <1>5, <2>1, ReputationMoves DEF BuildRevocation
<1>6. ASSUME NEW p \in Publisher, PutRevocation(p) PROVE ReputationInv'
  <2> DEFINE s == publisher[p]
             next == [publisher[p] EXCEPT !.pc = "writerev"]
             w == WriteOnce(revoked, next, s.item)
  <2>1. PublisherSound(s) /\ s.pc = "createrev" /\ IsRevocation(s.item)
    BY <1>6 DEF PutRevocation, PublisherAt, PublisherSound
  <2>2. PublisherSound(next)
    BY <2>1 DEF PublisherSound
  <2>3. /\ revoked' = w.files /\ PublisherBecomes(p, w.next) /\ Announce(w.ok, s.item)
        /\ UNCHANGED attested
    BY <1>6 DEF PutRevocation
  <2> HIDE DEF next, w
  <2>4. /\ HoldsOrPartial(w.files)
        /\ \A a \in DOMAIN revoked : revoked[a] = a => a \in DOMAIN w.files /\ w.files[a] = a
        /\ w.ok => s.item \in DOMAIN w.files /\ w.files[s.item] = s.item
        /\ PublisherSound(w.next)
    BY <1>w, <2>2, WriteOnceKeeps DEF w
  <2>5. \A x \in announced' : x \in announced \/ (w.ok /\ x = s.item)
    BY <2>3 DEF Announce
  <2> QED BY <2>1, <2>3, <2>4, <2>5, ReputationMoves
<1>7. ASSUME NEW p \in Publisher, WriteRevocation(p) PROVE ReputationInv'
  <2> DEFINE s == publisher[p]
  <2>1. PublisherSound(s) /\ s.pc = "writerev" /\ IsRevocation(s.item)
    BY <1>7 DEF WriteRevocation, PublisherAt, PublisherSound
  <2>2. /\ revoked' = Put(revoked, s.item, s.item) /\ PublisherBecomes(p, Waiting)
        /\ announced' = announced \cup {s.item} /\ UNCHANGED attested
    BY <1>7 DEF WriteRevocation, Announce
  <2>3. /\ HoldsOrPartial(revoked') /\ s.item \in DOMAIN revoked' /\ revoked'[s.item] = s.item
        /\ \A a \in DOMAIN revoked : revoked[a] = a => a \in DOMAIN revoked' /\ revoked'[a] = a
    BY <2>2, PutKeeps
  <2> QED BY <1>w, <2>1, <2>2, <2>3, ReputationMoves
<1>8. ASSUME NEW p \in Publisher, KillPublisher(p) PROVE ReputationInv'
  BY <1>8, <1>w, ReputationMoves DEF KillPublisher
<1>9. CASE Tick \/ ReplaceKey
  BY <1>9 DEF Tick, ReplaceKey, Resolves
<1> QED BY <1>1, <1>2, <1>3, <1>4, <1>5, <1>6, <1>7, <1>8, <1>9 DEF ReputationNext, PublisherStep

\* AnnouncedStays: what was acknowledged as published resolves, and what was
\* acknowledged as revoked is shown as revoked, for good.
THEOREM AnnouncedRemains == PeripherySpec => []AnnouncedStays
<1>1. PeripheryInit => ReputationInv
  BY DEF PeripheryInit, ReputationInit, ReputationInv, HoldsOrPartial, NoFiles, PublisherSound, Waiting
<1>2. ReputationInv /\ [PeripheryNext]_peripheryVars => ReputationInv'
  <2> SUFFICES ASSUME ReputationInv, [PeripheryNext]_peripheryVars PROVE ReputationInv'
    OBVIOUS
  <2>1. CASE ReputationNext
    BY <2>1, ReputationKeeps
  <2>2. CASE UNCHANGED reputationVars
    BY <2>2 DEF ReputationInv, Resolves, reputationVars
  <2> QED BY <2>1, <2>2, PartsSee
<1>3. ReputationInv => AnnouncedStays
  BY DEF ReputationInv, AnnouncedStays, Revoked, ValidRevocation, IsRevocation, IsAttestation
<1> QED BY <1>1, <1>2, <1>3, PTL DEF PeripherySpec
-----------------------------------------------------------------------------
(* The agent's own proxy *)

\* Without its last element a list whose elements differ is its front.
LEMMA OmittingLast ==
  ASSUME NEW X, NEW seq \in Seq(X), Len(seq) > 0,
         \A i, j \in 1..Len(seq) : seq[i] = seq[j] => i = j
  PROVE  LET out == Omitting(seq, {seq[Len(seq)]})
         IN  /\ out \in Seq(X) /\ Len(out) = Len(seq) - 1
             /\ \A k \in 1..Len(out) : out[k] = seq[k]
<1> DEFINE n == Len(seq)
           places == Places(seq, {seq[n]})
           out == Omitting(seq, {seq[n]})
<1>1. n \in Nat \ {0} /\ DOMAIN seq = 1..n
  OBVIOUS
<1>2. places = 1..(n - 1)
  BY <1>1 DEF Places
<1>3. Cardinality(places) = n - 1
  BY <1>1, <1>2, FS_Interval
<1> HIDE DEF places, out
<1>4. /\ out \in Seq(X) /\ Len(out) = n - 1
      /\ \A k \in DOMAIN out : out[k] = seq[Nth(places, k)]
  BY <1>3, OmittingKeeps DEF places, out
<1>5. ASSUME NEW k \in 1..(n - 1) PROVE Nth(places, k) = k
  <2> DEFINE m == Nth(places, k)
  <2>1. m \in places /\ Cardinality({i \in places : i <= m}) = k
    <3>1. n - 1 \in Nat /\ places \subseteq 1..(n - 1) /\ k \in 1..Cardinality(places)
      BY <1>1, <1>2, <1>3
    <3> QED BY <3>1, Ranked
  <2> HIDE DEF m
  <2>2. {i \in places : i <= m} = 1..m /\ m \in Nat
    BY <1>1, <1>2, <2>1
  <2>3. Cardinality(1..m) = m
    BY <2>2, FS_Interval
  <2> QED BY <2>1, <2>2, <2>3 DEF m
<1>6. /\ out \in Seq(X) /\ Len(out) = n - 1
      /\ \A k \in 1..Len(out) : out[k] = seq[k]
  BY <1>1, <1>4, <1>5
<1> QED BY <1>6 DEF out

Uses == [pc : {"none", "chosen", "wait", "patch", "installed", "stop", "gone", "failed"},
         port : Port \cup {Own}, proc : {"none", "starting", "up", "dead"},
         backup : Port \cup {Own}]

\* A port has been chosen; a proxy that may still bind it or has bound it is
\* stopped before its use is gone.
UseSound(u) ==
  /\ u.pc # "none" => u.port \in Port
  /\ u.proc \in {"starting", "up"} => u.pc \in {"wait", "patch", "installed", "stop", "failed"}

AgentShape ==
  /\ handle \in [Handle -> Uses]
  /\ environ \in Port \cup {Own}
  /\ listener \in [Port -> {Free, Foreign} \cup Handle]
  /\ stack \in Seq(Handle)
  /\ \A h \in Handle : UseSound(handle[h])
  /\ \A p \in Port : listener[p] \in Handle =>
       handle[listener[p]].port = p /\ handle[listener[p]].proc = "up"

IsAmid(h) == handle[h].pc \in {"chosen", "wait", "patch", "stop"}
Failures == {h \in Handle : handle[h].pc = "failed"}
Below(n) == {stack[i] : i \in 1..n}

\* The uses in force are stacked, and each leads back to the one below it.
Stacked ==
  /\ \A g, h \in Handle : IsAmid(g) /\ IsAmid(h) => g = h
  /\ \A i, j \in 1..Len(stack) : stack[i] = stack[j] => i = j
  /\ \A h \in Handle : handle[h].pc = "installed" <=> \E j \in 1..Len(stack) : stack[j] = h
  /\ \A j \in 1..Len(stack) :
       handle[stack[j]].backup = IF j = 1 THEN Own ELSE handle[stack[j - 1]].port
  /\ environ = IF stack = <<>> THEN Own ELSE handle[stack[Len(stack)]].port

\* Whoever listens for a use was there before it, and goes after it.
Served ==
  /\ \A j \in 1..Len(stack) :
       listener[handle[stack[j]].port] \in {Foreign} \cup Failures \cup Below(j)
  /\ \A h \in Handle : handle[h].pc = "patch" =>
       listener[handle[h].port] \in {Foreign} \cup Failures \cup Below(Len(stack)) \cup {h}

AgentInv ==
  /\ AgentShape
  /\ entangled \/ Stacked
  /\ entangled \/ died \/ Served

LEMMA AgentStarts == ASSUME AgentInit PROVE AgentInv
<1> USE AgentAssumption
<1>1. AgentShape
  BY DEF AgentInit, AgentShape, NotInstalled, Uses, UseSound
<1>2. Stacked
  BY DEF AgentInit, Stacked, NotInstalled, IsAmid
<1>3. Served
  BY DEF AgentInit, Served, NotInstalled
<1> QED BY <1>1, <1>2, <1>3 DEF AgentInv

\* One use goes on, and keeps the port it listens on.
LEMMA UseMoves ==
  ASSUME AgentShape, NEW h \in Handle, NEW u \in Uses, UseSound(u),
         HandleBecomes(h, u), listener' \in [Port -> {Free, Foreign} \cup Handle],
         environ' \in Port \cup {Own}, stack' \in Seq(Handle),
         \A p \in Port : listener'[p] \in Handle /\ listener'[p] # h => listener'[p] = listener[p],
         \A p \in Port : listener'[p] = h => u.port = p /\ u.proc = "up"
  PROVE  AgentShape'
<1>1. handle' \in [Handle -> Uses] /\ handle'[h] = u /\ \A g \in Handle \ {h} : handle'[g] = handle[g]
  BY DEF HandleBecomes, AgentShape
<1>2. \A g \in Handle : UseSound(handle'[g])
  BY <1>1 DEF AgentShape
<1>3. ASSUME NEW p \in Port, listener'[p] \in Handle
      PROVE  handle'[listener'[p]].port = p /\ handle'[listener'[p]].proc = "up"
  <2>1. CASE listener'[p] = h
    BY <1>1, <2>1
  <2>2. CASE listener'[p] # h
    <3>1. listener'[p] = listener[p] /\ listener[p] \in Handle \ {h}
      BY <1>3, <2>2
    <3>2. handle[listener[p]].port = p /\ handle[listener[p]].proc = "up"
      BY <3>1 DEF AgentShape
    <3> QED BY <1>1, <3>1, <3>2
  <2> QED BY <2>1, <2>2
<1> QED BY <1>1, <1>2, <1>3 DEF AgentShape

LEMMA AgentKeeps == ASSUME AgentInv, AgentNext PROVE AgentInv'
<1> USE AgentAssumption
<1>s. AgentShape
  BY DEF AgentInv
<1>1. ASSUME NEW h \in Handle, ChoosePort(h) PROVE AgentInv'
  <2> USE DEF HandleAt, HandleBecomes, NotInstalled, Amid
  <2>1. AgentShape'
    <3>1. PICK p \in Port : HandleBecomes(h, [NotInstalled EXCEPT !.pc = "chosen", !.port = p])
      BY <1>1 DEF ChoosePort
    <3> DEFINE u == [NotInstalled EXCEPT !.pc = "chosen", !.port = p]
    <3>2. u \in Uses /\ UseSound(u)
      BY DEF Uses, UseSound
    <3>3. \A q \in Port : listener[q] # h
      BY <1>s, <1>1 DEF ChoosePort, AgentShape, UseSound
    <3>4. UNCHANGED <<environ, listener, stack>>
      BY <1>1 DEF ChoosePort
    <3> HIDE DEF u
    <3>5. HandleBecomes(h, u)
      BY <3>1 DEF u
    <3> QED BY <1>s, <3>2, <3>3, <3>4, <3>5, UseMoves DEF AgentShape
  <2>2. ASSUME ~entangled' PROVE ~entangled /\ Stacked /\ Stacked'
    <3>1. ~entangled /\ Stacked
      BY <1>1, <2>2 DEF ChoosePort, AgentInv
    <3>2. Stacked'
      <4>1. /\ \A g \in Handle \ {h} : ~IsAmid(g) /\ handle'[g] = handle[g]
            /\ handle'[h].pc = "chosen" /\ handle[h].pc = "none"
            /\ UNCHANGED <<environ, stack>>
        BY <1>s, <1>1, <2>2 DEF ChoosePort, AgentShape, IsAmid
      <4>2. \A k \in 1..Len(stack) : stack[k] \in Handle \ {h}
        BY <1>s, <3>1, <4>1 DEF AgentShape, Stacked
      <4>3. stack # <<>> => Len(stack) \in 1..Len(stack)
        BY <1>s DEF AgentShape
      <4>4. \A k \in 1..Len(stack) : k # 1 => k - 1 \in 1..Len(stack)
        BY <1>s DEF AgentShape
      <4> QED BY <3>1, <4>1, <4>2, <4>3, <4>4 DEF Stacked, IsAmid
    <3> QED BY <3>1, <3>2
  <2>3. ASSUME ~entangled', ~died' PROVE Served'
    <3>1. ~entangled /\ Stacked /\ Served
      BY <1>1, <2>2, <2>3 DEF ChoosePort, AgentInv
    <3> QED BY <1>s, <1>1, <2>2, <2>3, <3>1 DEF ChoosePort, AgentShape, Uses, UseSound, Stacked, Served, IsAmid, Failures, Below
  <2> QED BY <2>1, <2>2, <2>3 DEF AgentInv
<1>2. ASSUME NEW h \in Handle, SpawnProxy(h) PROVE AgentInv'
  <2> USE DEF HandleAt, HandleBecomes, PortIsFree
  <2>1. AgentShape'
    <3> DEFINE u == IF PortIsFree(handle[h].port)
                      THEN [handle[h] EXCEPT !.pc = "wait", !.proc = "starting"]
                      ELSE [handle[h] EXCEPT !.pc = "patch"]
    <3>1. /\ handle[h] \in Uses /\ UseSound(handle[h]) /\ handle[h].pc = "chosen"
          /\ \A p \in Port : listener[p] # h
      BY <1>s, <1>2 DEF SpawnProxy, AgentShape, UseSound
    <3>2. u \in Uses /\ UseSound(u)
      BY <3>1 DEF Uses, UseSound
    <3>3. HandleBecomes(h, u) /\ UNCHANGED <<environ, listener, stack>>
      BY <1>2 DEF SpawnProxy
    <3> HIDE DEF u
    <3> QED BY <1>s, <3>1, <3>2, <3>3, UseMoves DEF AgentShape
  <2>2. ASSUME ~entangled' PROVE ~entangled /\ Stacked /\ Stacked'
    <3>1. ~entangled /\ Stacked
      BY <1>2, <2>2 DEF SpawnProxy, AgentInv
    <3>2. Stacked'
      BY <1>s, <1>2, <2>2, <3>1 DEF SpawnProxy, AgentShape, Uses, UseSound, Stacked, IsAmid
    <3> QED BY <3>1, <3>2
  <2>3. ASSUME ~entangled', ~died' PROVE Served'
    <3>1. ~entangled /\ Stacked /\ Served
      BY <1>2, <2>2, <2>3 DEF SpawnProxy, AgentInv
    <3> QED BY <1>s, <1>2, <2>2, <2>3, <3>1 DEF SpawnProxy, AgentShape, Uses, UseSound, Stacked, Served, IsAmid, Failures, Below
  <2> QED BY <2>1, <2>2, <2>3 DEF AgentInv
<1>3. ASSUME NEW h \in Handle, ProxyBinds(h) PROVE AgentInv'
  <2> USE DEF HandleAt, HandleBecomes, PortIsFree
  <2>1. AgentShape'
    BY <1>s, <1>3 DEF ProxyBinds, AgentShape, Uses, UseSound
  <2>2. ASSUME ~entangled' PROVE ~entangled /\ Stacked /\ Stacked'
    <3>1. ~entangled /\ Stacked
      BY <1>3, <2>2 DEF ProxyBinds, AgentInv
    <3>2. Stacked'
      BY SMTT(30), <1>s, <1>3, <2>2, <3>1 DEF ProxyBinds, AgentShape, Uses, UseSound, Stacked, IsAmid
    <3> QED BY <3>1, <3>2
  <2>3. ASSUME ~entangled', ~died' PROVE Served'
    <3>1. ~entangled /\ Stacked /\ Served
      BY <1>3, <2>2, <2>3 DEF ProxyBinds, AgentInv
    <3>2. /\ UNCHANGED <<stack>> /\ handle[h].port \in Port
          /\ \A g \in Handle : handle'[g].pc = handle[g].pc /\ handle'[g].port = handle[g].port
      BY <1>s, <1>3 DEF ProxyBinds, AgentShape, Uses, UseSound
    <3>3. \A p \in Port : listener[p] # Free => listener'[p] = listener[p]
      BY <1>s, <1>3, <3>2 DEF ProxyBinds, AgentShape
    <3>4. Failures' = Failures /\ \A k \in 1..Len(stack) : Below(k)' = Below(k)
      BY <3>2 DEF Failures, Below
    <3>5. \A k \in 1..Len(stack) : handle[stack[k]].port \in Port /\ stack[k] \in Handle
      BY <1>s, <3>1 DEF AgentShape, UseSound, Stacked
    <3>6. \A k \in 1..Len(stack) : listener'[handle[stack[k]].port] = listener[handle[stack[k]].port]
      BY <1>s, <3>1, <3>3, <3>5 DEF Served, Failures, Below, AgentShape
    <3>7. \A g \in Handle : handle[g].pc = "patch" =>
            listener'[handle[g].port] = listener[handle[g].port]
      BY <1>s, <3>1, <3>3 DEF Served, Failures, Below, AgentShape, UseSound
    <3>8. Below(Len(stack))' = Below(Len(stack))
      BY <3>2 DEF Below
    <3> QED BY <3>1, <3>2, <3>4, <3>5, <3>6, <3>7, <3>8 DEF Served
  <2> QED BY <2>1, <2>2, <2>3 DEF AgentInv
<1>4. ASSUME NEW h \in Handle, SeeBound(h) PROVE AgentInv'
  <2> USE DEF HandleAt, HandleBecomes, PortIsFree
  <2>1. AgentShape'
    BY SMTT(30), <1>s, <1>4 DEF SeeBound, AgentShape, Uses, UseSound
  <2>2. ASSUME ~entangled' PROVE ~entangled /\ Stacked /\ Stacked'
    <3>1. ~entangled /\ Stacked
      BY <1>4, <2>2 DEF SeeBound, AgentInv
    <3>2. Stacked'
      BY <1>s, <1>4, <2>2, <3>1 DEF SeeBound, AgentShape, Uses, UseSound, Stacked, IsAmid
    <3> QED BY <3>1, <3>2
  <2>3. ASSUME ~entangled', ~died' PROVE Served'
    <3>1. ~entangled /\ Stacked /\ Served
      BY <1>4, <2>2, <2>3 DEF SeeBound, AgentInv
    <3> QED BY <1>s, <1>4, <2>2, <2>3, <3>1 DEF SeeBound, AgentShape, Uses, UseSound, Stacked, Served, IsAmid, Failures, Below
  <2> QED BY <2>1, <2>2, <2>3 DEF AgentInv
<1>5. ASSUME NEW h \in Handle, GiveUp(h) PROVE AgentInv'
  <2> USE DEF HandleAt, HandleBecomes, PortIsFree
  <2>1. AgentShape'
    <3> DEFINE u == [handle[h] EXCEPT !.pc = "failed"]
    <3>1. /\ handle[h] \in Uses /\ UseSound(handle[h])
          /\ \A p \in Port : listener[p] = h => handle[h].port = p /\ handle[h].proc = "up"
      BY <1>s DEF AgentShape
    <3>2. u \in Uses /\ UseSound(u)
      BY <1>5, <3>1 DEF GiveUp, Uses, UseSound
    <3>3. /\ HandleBecomes(h, u) /\ UNCHANGED listener
          /\ environ' \in Port \cup {Own} /\ stack' \in Seq(Handle)
          /\ u.port = handle[h].port /\ u.proc = handle[h].proc
      BY <1>s, <1>5, <3>1 DEF GiveUp, AgentShape, Uses, UseSound
    <3> HIDE DEF u
    <3> QED BY <1>s, <3>1, <3>2, <3>3, UseMoves DEF AgentShape
  <2>2. ASSUME ~entangled' PROVE ~entangled /\ Stacked /\ Stacked'
    <3>1. ~entangled /\ Stacked
      BY <1>5, <2>2 DEF GiveUp, AgentInv
    <3>2. Stacked'
      BY <1>s, <1>5, <2>2, <3>1 DEF GiveUp, AgentShape, Uses, UseSound, Stacked, IsAmid
    <3> QED BY <3>1, <3>2
  <2>3. ASSUME ~entangled', ~died' PROVE Served'
    <3>1. ~entangled /\ Stacked /\ Served
      BY <1>5, <2>2, <2>3 DEF GiveUp, AgentInv
    <3> QED BY <1>s, <1>5, <2>2, <2>3, <3>1 DEF GiveUp, AgentShape, Uses, UseSound, Stacked, Served, IsAmid, Failures, Below
  <2> QED BY <2>1, <2>2, <2>3 DEF AgentInv
<1>6. ASSUME NEW h \in Handle, PatchEnv(h) PROVE AgentInv'
  <2> USE DEF HandleAt, HandleBecomes
  <2>1. AgentShape'
    <3> DEFINE u == [handle[h] EXCEPT !.pc = "installed", !.backup = environ]
    <3>1. /\ handle[h] \in Uses /\ UseSound(handle[h])
          /\ \A p \in Port : listener[p] = h => handle[h].port = p /\ handle[h].proc = "up"
      BY <1>s DEF AgentShape
    <3>2. u \in Uses /\ UseSound(u)
      <4>1. environ \in Port \cup {Own}
        BY <1>s DEF AgentShape
      <4> QED BY <1>6, <3>1, <4>1 DEF PatchEnv, Uses, UseSound
    <3>3. /\ HandleBecomes(h, u) /\ UNCHANGED listener
          /\ environ' \in Port \cup {Own} /\ stack' \in Seq(Handle)
          /\ u.port = handle[h].port /\ u.proc = handle[h].proc
      BY <1>s, <1>6, <3>1 DEF PatchEnv, AgentShape, Uses, UseSound
    <3> HIDE DEF u
    <3> QED BY <1>s, <3>1, <3>2, <3>3, UseMoves DEF AgentShape
  <2>2. ASSUME ~entangled' PROVE ~entangled /\ Stacked /\ Stacked'
    <3>1. ~entangled /\ Stacked
      BY <1>6, <2>2 DEF PatchEnv, AgentInv
    <3>2. Stacked'
      BY <1>s, <1>6, <2>2, <3>1 DEF PatchEnv, AgentShape, Uses, UseSound, Stacked, IsAmid
    <3> QED BY <3>1, <3>2
  <2>3. ASSUME ~entangled', ~died' PROVE Served'
    <3>1. ~entangled /\ Stacked /\ Served
      BY <1>6, <2>2, <2>3 DEF PatchEnv, AgentInv
    <3>2. /\ stack' = Append(stack, h) /\ UNCHANGED listener /\ handle[h].pc = "patch"
          /\ \A g \in Handle : handle'[g].port = handle[g].port
          /\ \A g \in Handle \ {h} : handle'[g] = handle[g]
          /\ handle'[h].pc = "installed"
      BY <1>s, <1>6 DEF PatchEnv, AgentShape, Uses
    <3>3. /\ Len(stack) \in Nat /\ Len(stack') = Len(stack) + 1 /\ stack'[Len(stack) + 1] = h
          /\ \A k \in 1..Len(stack) : stack'[k] = stack[k] /\ stack[k] \in Handle
      BY <1>s, <3>2 DEF AgentShape
    <3>4. Failures' = Failures
      BY <3>2 DEF Failures
    <3>5. ASSUME NEW k \in 1..Len(stack) PROVE Below(k)' = Below(k)
      BY <3>3 DEF Below
    <3>6. ASSUME NEW k \in Nat, k = Len(stack) + 1 PROVE Below(k)' = Below(Len(stack)) \cup {h}
      <4>1. 1..k = 1..Len(stack) \cup {k}
        BY <3>3, <3>6
      <4>2. {stack'[i] : i \in 1..Len(stack)} = {stack[i] : i \in 1..Len(stack)} /\ stack'[k] = h
        BY <3>3, <3>6
      <4>3. {stack'[i] : i \in 1..k} = {stack'[i] : i \in 1..Len(stack)} \cup {stack'[k]}
        BY <4>1
      <4> QED BY <4>2, <4>3 DEF Below
    <3>7. \A g \in Handle : handle'[g].pc # "patch"
      BY <3>1, <3>2 DEF Stacked, IsAmid
    <3>8. ASSUME NEW k \in 1..Len(stack')
          PROVE  listener'[handle'[stack'[k]].port] \in {Foreign} \cup Failures' \cup Below(k)'
      <4>1. CASE k \in 1..Len(stack)
        BY <3>1, <3>2, <3>3, <3>4, <3>5, <4>1 DEF Served
      <4>2. CASE k = Len(stack) + 1
        <5>1. listener[handle[h].port] \in {Foreign} \cup Failures \cup Below(Len(stack)) \cup {h}
          BY <3>1, <3>2 DEF Served
        <5>2. stack'[k] = h /\ handle'[h].port = handle[h].port /\ UNCHANGED listener
          BY <3>2, <3>3, <4>2
        <5>3. Below(k)' = Below(Len(stack)) \cup {h}
          BY <3>3, <3>6, <4>2
        <5> QED BY <3>4, <5>1, <5>2, <5>3
      <4> QED BY <3>3, <4>1, <4>2
    <3> QED BY <3>7, <3>8 DEF Served
  <2> QED BY <2>1, <2>2, <2>3 DEF AgentInv
<1>7. ASSUME NEW h \in Handle, Restore(h) PROVE AgentInv'
  <2> USE DEF HandleAt, HandleBecomes, Amid
  <2>1. AgentShape'
    <3> DEFINE u == [handle[h] EXCEPT !.pc = "stop"]
    <3>1. /\ handle[h] \in Uses /\ UseSound(handle[h])
          /\ \A p \in Port : listener[p] = h => handle[h].port = p /\ handle[h].proc = "up"
      BY <1>s DEF AgentShape
    <3>2. u \in Uses /\ UseSound(u)
      BY <1>7, <3>1 DEF Restore, Uses, UseSound
    <3>3. /\ HandleBecomes(h, u) /\ UNCHANGED listener
          /\ environ' \in Port \cup {Own} /\ stack' \in Seq(Handle)
          /\ u.port = handle[h].port /\ u.proc = handle[h].proc
      <4>1. stack' \in Seq(Handle)
        <5>1. stack \in Seq(Handle) /\ stack' = Omitting(stack, {h})
          BY <1>s, <1>7 DEF Restore, AgentShape
        <5> QED BY <5>1, OmittingElements
      <4>2. environ' \in Port \cup {Own} /\ HandleBecomes(h, u) /\ UNCHANGED listener
        BY <1>7, <3>1 DEF Restore, Uses
      <4> QED BY <3>1, <4>1, <4>2 DEF Uses
    <3> HIDE DEF u
    <3> QED BY <1>s, <3>1, <3>2, <3>3, UseMoves DEF AgentShape
  <2>0. ASSUME ~entangled'
        PROVE  /\ Stacked /\ Len(stack) \in Nat \ {0} /\ stack[Len(stack)] = h
               /\ \A g \in Handle : ~IsAmid(g)
               /\ stack' \in Seq(Handle) /\ Len(stack') = Len(stack) - 1
               /\ \A k \in 1..Len(stack') : stack'[k] = stack[k]
    <3>1. Stacked /\ handle[h].pc = "installed" /\ stack[Len(stack)] = h /\ stack' = Omitting(stack, {h})
      BY <1>7, <2>0 DEF Restore, AgentInv
    <3>2. stack \in Seq(Handle) /\ Len(stack) \in Nat \ {0}
      BY <1>s, <3>1 DEF AgentShape, Stacked
    <3>3. \A g \in Handle : ~IsAmid(g)
      BY <1>7, <2>0, <3>1 DEF Restore, IsAmid
    <3>4. \A i, j \in 1..Len(stack) : stack[i] = stack[j] => i = j
      BY <3>1 DEF Stacked
    <3>5. /\ stack' \in Seq(Handle) /\ Len(stack') = Len(stack) - 1
          /\ \A k \in 1..Len(stack') : stack'[k] = stack[k]
      <4> DEFINE out == Omitting(stack, {stack[Len(stack)]})
      <4>1. out \in Seq(Handle) /\ Len(out) = Len(stack) - 1 /\ \A k \in 1..Len(out) : out[k] = stack[k]
        <5>1. Len(stack) > 0
          BY <3>2
        <5> QED BY <3>2, <3>4, <5>1, OmittingLast
      <4>2. stack' = out
        BY <3>1
      <4> HIDE DEF out
      <4> QED BY <4>1, <4>2
    <3> QED BY <3>1, <3>2, <3>3, <3>5
  <2>2. ASSUME ~entangled' PROVE ~entangled /\ Stacked /\ Stacked'
    <3>1. ~entangled /\ Stacked
      BY <1>7, <2>2 DEF Restore, AgentInv
    <3>2. Stacked'
      <4> DEFINE n == Len(stack)
      <4>1. /\ n \in Nat \ {0} /\ stack[n] = h /\ Len(stack') = n - 1
            /\ \A k \in 1..(n - 1) : stack'[k] = stack[k] /\ stack[k] \in Handle
            /\ stack' = <<>> <=> n = 1
        BY <1>s, <2>0, <2>2 DEF AgentShape
      <4>2. /\ \A g \in Handle \ {h} : handle'[g] = handle[g] /\ ~IsAmid(g)
            /\ handle'[h].pc = "stop" /\ environ' = handle[h].backup
        BY <1>s, <1>7, <2>0, <2>2 DEF Restore, AgentShape
      <4>3. \A k \in 1..(n - 1) : stack[k] # h /\ k \in 1..n /\ (k # 1 => k - 1 \in 1..(n - 1))
        BY <3>1, <4>1 DEF Stacked
      <4>4. \A g, k \in Handle : IsAmid(g)' /\ IsAmid(k)' => g = k
        BY <4>2 DEF IsAmid
      <4>5. \A i, j \in 1..Len(stack') : stack'[i] = stack'[j] => i = j
        BY <3>1, <4>1, <4>3 DEF Stacked
      <4>6. ASSUME NEW g \in Handle
            PROVE  handle'[g].pc = "installed" <=> \E j \in 1..Len(stack') : stack'[j] = g
        <5>1. CASE g = h
          BY <4>1, <4>2, <4>3, <5>1
        <5>2. CASE g # h
          <6>1. handle[g].pc = "installed" <=> \E j \in 1..n : stack[j] = g
            BY <3>1 DEF Stacked
          <6>2. \A j \in 1..n : stack[j] = g => j \in 1..(n - 1)
            BY <4>1, <5>2
          <6> QED BY <4>1, <4>2, <4>3, <5>2, <6>1, <6>2, SMTT(60)
        <5> QED BY <5>1, <5>2
      <4>7. \A j \in 1..Len(stack') :
              handle'[stack'[j]].backup = IF j = 1 THEN Own ELSE handle'[stack'[j - 1]].port
        <5> SUFFICES ASSUME NEW j \in 1..(n - 1)
                     PROVE  handle'[stack'[j]].backup = IF j = 1 THEN Own ELSE handle'[stack'[j - 1]].port
          BY <4>1
        <5>1. handle[stack[j]].backup = IF j = 1 THEN Own ELSE handle[stack[j - 1]].port
          BY <3>1, <4>3 DEF Stacked
        <5>2. stack'[j] = stack[j] /\ handle'[stack[j]] = handle[stack[j]]
          BY <4>1, <4>2, <4>3
        <5>3. CASE j = 1
          BY <5>1, <5>2, <5>3
        <5>4. CASE j # 1
          <6>1. j - 1 \in 1..(n - 1)
            BY <4>3, <5>4
          <6>2. stack'[j - 1] = stack[j - 1] /\ handle'[stack[j - 1]] = handle[stack[j - 1]]
            BY <4>1, <4>2, <4>3, <6>1
          <6> QED BY <5>1, <5>2, <5>4, <6>2
        <5> QED BY <5>3, <5>4
      <4>8. environ' = IF stack' = <<>> THEN Own ELSE handle'[stack'[Len(stack')]].port
        <5>1. handle[stack[n]].backup = IF n = 1 THEN Own ELSE handle[stack[n - 1]].port
          BY <3>1, <4>1 DEF Stacked
        <5>2. n # 1 => n - 1 \in 1..(n - 1)
          BY <4>1
        <5> QED BY <4>1, <4>2, <4>3, <5>1, <5>2
      <4> QED BY <4>4, <4>5, <4>6, <4>7, <4>8 DEF Stacked
    <3> QED BY <3>1, <3>2
  <2>3. ASSUME ~entangled', ~died' PROVE Served'
    <3>1. ~entangled /\ Stacked /\ Served
      BY <1>7, <2>2, <2>3 DEF Restore, AgentInv
    <3>2. /\ Failures' = Failures /\ UNCHANGED listener
          /\ \A g \in Handle : handle'[g].port = handle[g].port /\ handle'[g].pc # "patch"
      BY <1>s, <1>7, <2>0, <2>3 DEF Restore, AgentShape, Uses, IsAmid, Failures
    <3>3. \A k \in 1..Len(stack') : Below(k)' = Below(k) /\ k \in 1..Len(stack) /\ stack[k] \in Handle
      BY <1>s, <2>0, <2>3 DEF Below, AgentShape
    <3> QED BY <2>0, <2>3, <3>1, <3>2, <3>3 DEF Served
  <2> QED BY <2>1, <2>2, <2>3 DEF AgentInv
<1>8. ASSUME NEW h \in Handle, StopProxy(h) PROVE AgentInv'
  <2> USE DEF HandleAt, HandleBecomes
  <2>1. AgentShape'
    <3> DEFINE u == [handle[h] EXCEPT !.pc = "gone", !.proc = "none"]
    <3>1. handle[h] \in Uses /\ UseSound(handle[h]) /\ handle[h].pc = "stop"
      BY <1>s, <1>8 DEF StopProxy, AgentShape
    <3>2. u \in Uses /\ UseSound(u)
      BY <3>1 DEF Uses, UseSound
    <3>3. /\ HandleBecomes(h, u) /\ UNCHANGED <<environ, stack>>
          /\ listener' = [p \in Port |-> IF listener[p] = h THEN Free ELSE listener[p]]
      BY <1>8 DEF StopProxy
    <3> HIDE DEF u
    <3>4. /\ listener' \in [Port -> {Free, Foreign} \cup Handle]
          /\ \A p \in Port : listener'[p] # h /\ (listener'[p] \in Handle => listener'[p] = listener[p])
      BY <1>s, <3>3 DEF AgentShape
    <3> QED BY <1>s, <3>2, <3>3, <3>4, UseMoves DEF AgentShape
  <2>2. ASSUME ~entangled' PROVE ~entangled /\ Stacked /\ Stacked'
    <3>1. ~entangled /\ Stacked
      BY <1>8, <2>2 DEF StopProxy, AgentInv
    <3>2. Stacked'
      BY <1>s, <1>8, <2>2, <3>1 DEF StopProxy, AgentShape, Uses, UseSound, Stacked, IsAmid
    <3> QED BY <3>1, <3>2
  <2>3. ASSUME ~entangled', ~died' PROVE Served'
    <3>1. ~entangled /\ Stacked /\ Served
      BY <1>8, <2>2, <2>3 DEF StopProxy, AgentInv
    <3>2. /\ UNCHANGED stack /\ handle[h].pc = "stop"
          /\ \A g \in Handle : handle'[g].port = handle[g].port
          /\ \A g \in Handle \ {h} : handle'[g] = handle[g]
          /\ handle'[h].pc = "gone"
          /\ \A p \in Port : listener[p] # h => listener'[p] = listener[p]
      BY <1>s, <1>8 DEF StopProxy, AgentShape, Uses
    <3>3. Failures' = Failures /\ h \notin Failures
      BY <3>2 DEF Failures
    <3>4. \A g \in Handle : handle'[g].pc # "patch"
      BY <3>1, <3>2 DEF Stacked, IsAmid
    <3>5. \A k \in 1..Len(stack) :
            /\ stack[k] \in Handle \ {h} /\ handle[stack[k]].port \in Port
            /\ h \notin Below(k) /\ Below(k)' = Below(k)
      <4>1. \A k \in 1..Len(stack) : stack[k] \in Handle \ {h} /\ handle[stack[k]].pc = "installed"
        BY <1>s, <3>1, <3>2 DEF AgentShape, Stacked
      <4>2. \A k \in 1..Len(stack) : handle[stack[k]].port \in Port
        BY <1>s, <4>1 DEF AgentShape, UseSound
      <4>3. \A k \in 1..Len(stack) : \A i \in 1..k : i \in 1..Len(stack)
        BY <1>s DEF AgentShape
      <4> QED BY <3>2, <4>1, <4>2, <4>3 DEF Below
    <3>6. \A k \in 1..Len(stack) : listener[handle[stack[k]].port] # h
      BY <3>1, <3>3, <3>5 DEF Served
    <3> QED BY <3>1, <3>2, <3>3, <3>4, <3>5, <3>6 DEF Served
  <2> QED BY <2>1, <2>2, <2>3 DEF AgentInv
<1>9. ASSUME NEW h \in Handle, ProxyDies(h) PROVE AgentInv'
  <2> USE DEF HandleAt, HandleBecomes
  <2>1. AgentShape'
    BY <1>s, <1>9 DEF ProxyDies, AgentShape, Uses, UseSound
  <2>2. ASSUME ~entangled' PROVE ~entangled /\ Stacked /\ Stacked'
    <3>1. ~entangled /\ Stacked
      BY <1>9, <2>2 DEF ProxyDies, AgentInv
    <3>2. Stacked'
      BY <1>s, <1>9, <2>2, <3>1 DEF ProxyDies, AgentShape, Uses, UseSound, Stacked, IsAmid
    <3> QED BY <3>1, <3>2
  <2>3. ASSUME ~entangled', ~died' PROVE Served'
    <3>1. ~entangled /\ Stacked /\ Served
      BY <1>9, <2>2, <2>3 DEF ProxyDies, AgentInv
    <3> QED BY <1>s, <1>9, <2>2, <2>3, <3>1 DEF ProxyDies, AgentShape, Uses, UseSound, Stacked, Served, IsAmid, Failures, Below
  <2> QED BY <2>1, <2>2, <2>3 DEF AgentInv
<1>10. ASSUME NEW p \in Port, Elsewhere(p) PROVE AgentInv'
  <2> USE DEF HandleAt, HandleBecomes, PortIsFree
  <2>1. AgentShape'
    BY <1>s, <1>10 DEF Elsewhere, AgentShape, Uses, UseSound
  <2>2. ASSUME ~entangled' PROVE ~entangled /\ Stacked /\ Stacked'
    <3>1. ~entangled /\ Stacked
      BY <1>10, <2>2 DEF Elsewhere, AgentInv
    <3>2. Stacked'
      BY <1>s, <1>10, <2>2, <3>1 DEF Elsewhere, AgentShape, Uses, UseSound, Stacked, IsAmid
    <3> QED BY <3>1, <3>2
  <2>3. ASSUME ~entangled', ~died' PROVE Served'
    <3>1. ~entangled /\ Stacked /\ Served
      BY <1>10, <2>2, <2>3 DEF Elsewhere, AgentInv
    <3> QED BY <1>s, <1>10, <2>2, <2>3, <3>1 DEF Elsewhere, AgentShape, Uses, UseSound, Stacked, Served, IsAmid, Failures, Below
  <2> QED BY <2>1, <2>2, <2>3 DEF AgentInv
<1> QED BY <1>1, <1>2, <1>3, <1>4, <1>5, <1>6, <1>7, <1>8, <1>9, <1>10 DEF AgentNext

\* AgentLeavesNoTrace: uses that are nested or apart leave the environment and
\* the ports of the machine as they were.
THEOREM NoTraceIsLeft == PeripherySpec => []AgentLeavesNoTrace
<1>1. PeripheryInit => AgentInv
  BY AgentStarts DEF PeripheryInit
<1>2. AgentInv /\ [PeripheryNext]_peripheryVars => AgentInv'
  <2> SUFFICES ASSUME AgentInv, [PeripheryNext]_peripheryVars PROVE AgentInv'
    OBVIOUS
  <2>1. CASE AgentNext
    BY <2>1, AgentKeeps
  <2>2. CASE UNCHANGED agentVars
    BY <2>2 DEF AgentInv, AgentShape, UseSound, Stacked, Served, IsAmid, Failures, Below, agentVars
  <2> QED BY SMTT(30), <2>1, <2>2, PartsSee
<1>3. AgentInv => AgentLeavesNoTrace
  <2> SUFFICES ASSUME AgentInv, ~entangled PROVE AgentLeavesNoTrace
    BY DEF AgentLeavesNoTrace
  <2>1. AgentShape /\ Stacked /\ (died \/ Served)
    BY DEF AgentInv
  <2>2. ASSUME stack # <<>>
        PROVE  environ = handle[stack[Len(stack)]].port /\ (died \/ ~PortIsFree(environ))
    <3>1. Len(stack) \in 1..Len(stack) /\ environ = handle[stack[Len(stack)]].port
      BY <2>1, <2>2 DEF AgentShape, Stacked
    <3>2. ASSUME ~died PROVE listener[environ] # Free
      BY <2>1, <3>1, <3>2, AgentAssumption DEF Served, Failures, Below, AgentShape
    <3> QED BY <3>1, <3>2 DEF PortIsFree
  <2>3. stack = <<>> => environ = Own
    BY <2>1 DEF Stacked
  <2>4. ASSUME \A h \in Handle : handle[h].pc \in {"none", "failed", "gone"},
               NEW p \in Port, listener[p] \in Handle
        PROVE  HandleAt(listener[p], "failed")
    BY <2>1, <2>4 DEF AgentShape, UseSound, HandleAt
  <2> QED BY <2>2, <2>3, <2>4 DEF AgentLeavesNoTrace
<1> QED BY <1>1, <1>2, <1>3, PTL DEF PeripherySpec

-----------------------------------------------------------------------------
(* Settings *)

\* What one of the files holds when it is whole.
InFile(k) ==
  CASE k = "policy"   -> Policies
    [] k = "registry" -> Registries
    [] k = "team"     -> Teams
    [] k = "leads"    -> LeadPipes

HoldsKept(value) == value \in InFile(kind) /\ kept \subseteq Remembered(value)

\* One editor at a time, which has what was kept in hand or in the file.
Undisturbed ==
  /\ editor = [e \in Editor |-> editor[e]]
  /\ \A e \in Editor :
       /\ editor[e] = [x \in {"pc", "value", "left", "added"} |-> editor[e][x]]
       /\ editor[e].pc # "idle" => HoldsKept(editor[e].value)
       /\ editor[e].pc = "saving" => store = editor[e].left
  /\ \A e, f \in Editor : editor[e].pc # "idle" /\ editor[f].pc # "idle" => e = f
  /\ NobodySaves => (store = Missing /\ kept = {}) \/ HoldsKept(store)

SettingsInv == kind \in Kinds /\ (disturbed \/ Undisturbed)

\* No command and no call takes a denial back ...
LEMMA DenialsStay ==
  ASSUME NEW p \in Policies, NEW q \in PolicyEdits(p)
  PROVE  q \in Policies /\ DeniedBy(p) \subseteq DeniedBy(q)
<1>1. q \in Policies
  BY DEF PolicyEdits, Policies, Globs
<1>2. p.denyModels \subseteq q.denyModels /\ p.denyPrompts \subseteq q.denyPrompts
  BY DEF PolicyEdits, Policies
<1>3. ASSUME NEW call \in Models \X SUBSET (Phrases \cup PiiKinds), NEW globs \in SUBSET {Models},
             Evaluate([q EXCEPT !.allowOnly = globs], call[1], call[2]).allowed
      PROVE  Evaluate([p EXCEPT !.allowOnly = globs], call[1], call[2]).allowed
  <2> DEFINE p1 == [p EXCEPT !.allowOnly = globs]
             q1 == [q EXCEPT !.allowOnly = globs]
  <2>1. /\ p1.denyModels = p.denyModels /\ p1.denyPrompts = p.denyPrompts /\ p1.allowOnly = globs
        /\ q1.denyModels = q.denyModels /\ q1.denyPrompts = q.denyPrompts /\ q1.allowOnly = globs
    BY <1>1 DEF Policies
  <2> HIDE DEF p1, q1
  <2>2. Evaluate(q1, call[1], call[2]).allowed
    BY <1>3 DEF q1
  <2>3. /\ ~\E g \in q.denyModels : call[1] \in g
        /\ globs # {} => \E g \in globs : call[1] \in g
        /\ q.denyPrompts \cap call[2] = {}
    BY <2>1, <2>2 DEF Evaluate
  <2>4. /\ ~\E g \in p.denyModels : call[1] \in g
        /\ p.denyPrompts \cap call[2] = {}
    BY <1>2, <2>3
  <2>5. Evaluate(p1, call[1], call[2]).allowed
    BY <2>1, <2>3, <2>4 DEF Evaluate
  <2> QED BY <2>5 DEF p1
<1> QED BY <1>1, <1>3 DEF DeniedBy

\* ... moves a provider before another ...
LEMMA OrderStays ==
  ASSUME NEW r \in Registries, NEW p \in Providers
  PROVE  AddProvider(r, p) \in Registries /\ OrderIn(r) \subseteq OrderIn(AddProvider(r, p))
<1> DEFINE q == AddProvider(r, p)
<1>1. /\ q \in Seq(Providers) /\ DOMAIN r \subseteq DOMAIN q
      /\ \A j \in DOMAIN r : q[j].name = r[j].name
  <2>1. CASE p.name \in NamesIn(r)
    BY <2>1 DEF AddProvider, Registries
  <2>2. CASE p.name \notin NamesIn(r)
    BY <2>2 DEF AddProvider, Registries
  <2> QED BY <2>1, <2>2
<1> HIDE DEF q
<1>2. OrderIn(r) \subseteq OrderIn(q)
  BY <1>1 DEF OrderIn
<1> QED BY <1>1, <1>2 DEF q, Registries

\* ... removes a user ...
LEMMA UsersStay ==
  ASSUME NEW t \in Teams, NEW u \in [id : UserIds, email : Emails, role : {"admin", "viewer"}]
  PROVE  /\ AddUser(t, u) \in Teams
         /\ {x.id : x \in t.users} \subseteq {x.id : x \in AddUser(t, u).users}
         /\ Authorize(t, u, "receipt:export") \in Teams
         /\ Authorize(t, u, "receipt:export").users = t.users
<1>1. Authorize(t, u, "receipt:export") \in Teams /\ Authorize(t, u, "receipt:export").users = t.users
  <2> DEFINE entry == [id |-> u.id, action |-> "receipt:export", ok |-> "receipt:export" \in RoleGrants[u.role]]
  <2>1. entry \in [id : UserIds, action : Actions, ok : BOOLEAN]
    BY DEF Actions
  <2>2. Authorize(t, u, "receipt:export") = [t EXCEPT !.audit = Append(@, entry)]
    BY DEF Authorize
  <2> DEFINE log == Append(t.audit, entry)
  <2>3. log \in Seq([id : UserIds, action : Actions, ok : BOOLEAN])
    <3> HIDE DEF entry
    <3> QED BY <2>1 DEF Teams
  <2>4. Authorize(t, u, "receipt:export") = [t EXCEPT !.audit = log]
    BY <2>2 DEF Teams
  <2> HIDE DEF log
  <2> QED BY <2>3, <2>4 DEF Teams
<1> DEFINE users == {x \in t.users : x.id # u.id} \cup {u}
<1>2. AddUser(t, u) = [t EXCEPT !.users = users] /\ users \in SUBSET [id : UserIds, email : Emails, role : {"admin", "viewer"}]
  BY DEF Teams, AddUser
<1> HIDE DEF users
<1>3. AddUser(t, u) \in Teams
  BY <1>2 DEF Teams
<1>4. AddUser(t, u).users = {x \in t.users : x.id # u.id} \cup {u}
  BY <1>2 DEF Teams, users
<1>5. {x.id : x \in t.users} \subseteq {x.id : x \in AddUser(t, u).users}
  BY <1>4
<1> QED BY <1>1, <1>3, <1>5

\* ... or a lead.
LEMMA LeadsStay ==
  ASSUME NEW p \in LeadPipes, NEW q,
         \/ \E i \in LeadIds, m \in Emails, s \in {0, 70} : q = AddLead(p, Lead(i, m, s, "new"))
         \/ \E l \in p.leads, s \in {"won", "?"} : q = UpdateLead(p, l, 40, s)
  PROVE  q \in LeadPipes /\ {l.email : l \in p.leads} \subseteq {l.email : l \in q.leads}
<1> DEFINE Leads == [id : LeadIds, email : Emails, score : {0, 40, 70}, status : Statuses]
<1>1. ASSUME NEW l \in p.leads, NEW k \in Leads, k.email = l.email,
             q = [p EXCEPT !.leads = (@ \ {l}) \cup {k}]
      PROVE  q \in LeadPipes /\ {x.email : x \in p.leads} \subseteq {x.email : x \in q.leads}
  <2>1. q \in LeadPipes /\ q.leads = (p.leads \ {l}) \cup {k}
    <3> DEFINE leads == (p.leads \ {l}) \cup {k}
    <3>1. leads \in SUBSET Leads /\ q = [p EXCEPT !.leads = leads]
      BY <1>1 DEF LeadPipes
    <3> HIDE DEF leads
    <3>2. q \in LeadPipes /\ q.leads = leads
      BY <3>1 DEF LeadPipes
    <3> QED BY <3>2 DEF leads
  <2> QED BY <1>1, <2>1
<1>2. ASSUME NEW l \in p.leads, NEW s \in {"won", "?"}, q = UpdateLead(p, l, 40, s)
      PROVE  q \in LeadPipes /\ {x.email : x \in p.leads} \subseteq {x.email : x \in q.leads}
  <2> DEFINE k == IF s \in Statuses THEN [l EXCEPT !.score = 40, !.status = s]
                  ELSE [l EXCEPT !.score = 40]
  <2>1. k \in Leads /\ k.email = l.email
    <3>1. l \in Leads
      BY DEF LeadPipes
    <3>2. CASE s \in Statuses
      <4>1. [l EXCEPT !.score = 40, !.status = s] \in Leads /\ [l EXCEPT !.score = 40, !.status = s].email = l.email
        BY <3>1, <3>2
      <4> QED BY <3>2, <4>1
    <3>3. CASE s \notin Statuses
      <4>1. [l EXCEPT !.score = 40] \in Leads /\ [l EXCEPT !.score = 40].email = l.email
        BY <3>1
      <4> QED BY <3>3, <4>1
    <3> QED BY <3>2, <3>3
  <2>2. q = [p EXCEPT !.leads = (@ \ {l}) \cup {k}]
    BY <1>2 DEF UpdateLead
  <2> HIDE DEF k
  <2> QED BY <1>1, <2>1, <2>2
<1>3. ASSUME NEW i \in LeadIds, NEW m \in Emails, NEW s \in {0, 70}, q = AddLead(p, Lead(i, m, s, "new"))
      PROVE  q \in LeadPipes /\ {x.email : x \in p.leads} \subseteq {x.email : x \in q.leads}
  <2> DEFINE new == Lead(i, m, s, "new")
             known == {l \in p.leads : l.email = new.email}
             first == CHOOSE l \in known : TRUE
             best == IF new.score > first.score THEN new.score ELSE first.score
  <2>0. new \in Leads
    BY DEF Lead, Statuses
  <2>1. CASE known = {}
    <3>1. q = [p EXCEPT !.leads = @ \cup {new}]
      BY <1>3, <2>1 DEF AddLead
    <3> HIDE DEF new
    <3>2. q \in LeadPipes /\ q.leads = p.leads \cup {new}
      BY <2>0, <3>1 DEF LeadPipes
    <3> QED BY <3>2
  <2>2. CASE known # {}
    <3>1. first \in p.leads /\ q = [p EXCEPT !.leads = (@ \ {first}) \cup {[first EXCEPT !.score = best]}]
      BY <1>3, <2>2 DEF AddLead
    <3> HIDE DEF first, new, known
    <3>2. [first EXCEPT !.score = best] \in Leads /\ [first EXCEPT !.score = best].email = first.email
      BY <2>0, <3>1 DEF LeadPipes
    <3> HIDE DEF best
    <3> QED BY <1>1, <3>1, <3>2
  <2> QED BY <2>1, <2>2
<1> QED BY <1>2, <1>3

LEMMA EditsKeep ==
  ASSUME kind \in Kinds, NEW value \in InFile(kind), NEW v \in Edited(value)
  PROVE  v \in InFile(kind) /\ Remembered(value) \subseteq Remembered(v)
<1>1. CASE kind = "policy"
  BY <1>1, DenialsStay DEF InFile, Edited, Remembered
<1>2. CASE kind = "registry"
  <2> DEFINE added(name, g) == AddProvider(value, Provider(name, g, TRUE))
  <2>0. v \in {added(name, g) : name \in {"groq", "acme"}, g \in Globs \ {{}}}
    BY <1>2 DEF Edited, Provider
  <2> HIDE DEF added
  <2>1. PICK name \in {"groq", "acme"}, g \in Globs \ {{}} : v = added(name, g)
    BY <2>0
  <2>2. Provider(name, g, TRUE) \in Providers
    BY DEF Provider, Providers
  <2>3. value \in Registries
    BY <1>2 DEF InFile
  <2> QED BY <1>2, <2>1, <2>2, <2>3, OrderStays DEF InFile, Remembered, added
<1>3. CASE kind = "team"
  <2>1. value \in Teams /\ Remembered(value) = {u.id : u \in value.users} /\ Remembered(v) = {u.id : u \in v.users}
    BY <1>3 DEF InFile, Remembered
  <2>2. \/ \E i \in UserIds, m \in Emails, r \in {"admin", "viewer"} : v = AddUser(value, User(i, m, r))
        \/ \E u \in value.users : v = Authorize(value, u, "receipt:export")
    BY <1>3 DEF Edited
  <2>3. ASSUME NEW i \in UserIds, NEW m \in Emails, NEW r \in {"admin", "viewer"}, v = AddUser(value, User(i, m, r))
        PROVE  v \in Teams /\ Remembered(value) \subseteq Remembered(v)
    <3>1. User(i, m, r) \in [id : UserIds, email : Emails, role : {"admin", "viewer"}]
      BY DEF User
    <3> QED BY <2>1, <2>3, <3>1, UsersStay
  <2>4. ASSUME NEW u \in value.users, v = Authorize(value, u, "receipt:export")
        PROVE  v \in Teams /\ Remembered(value) \subseteq Remembered(v)
    <3>1. u \in [id : UserIds, email : Emails, role : {"admin", "viewer"}]
      BY <2>1 DEF Teams
    <3> QED BY <2>1, <2>4, <3>1, UsersStay
  <2> QED BY <1>3, <2>2, <2>3, <2>4 DEF InFile
<1>4. CASE kind = "leads"
  <2>1. value \in LeadPipes /\ Remembered(value) = {l.email : l \in value.leads} /\ Remembered(v) = {l.email : l \in v.leads}
    BY <1>4 DEF InFile, Remembered
  <2>2. \/ \E i \in LeadIds, m \in Emails, s \in {0, 70} : v = AddLead(value, Lead(i, m, s, "new"))
        \/ \E l \in value.leads, s \in {"won", "?"} : v = UpdateLead(value, l, 40, s)
    BY <1>4 DEF Edited
  <2>3. v \in LeadPipes /\ {l.email : l \in value.leads} \subseteq {l.email : l \in v.leads}
    BY <2>1, <2>2, LeadsStay
  <2> QED BY <1>4, <2>1, <2>3 DEF InFile
<1> QED BY <1>1, <1>2, <1>3, <1>4 DEF Kinds

\* What is loaded has what was kept.
LEMMA LoadsKeep ==
  ASSUME kind \in Kinds, (store = Missing /\ kept = {}) \/ HoldsKept(store), NEW v \in Loaded
  PROVE  HoldsKept(v)
<1> USE SettingsAssumption
<1>1. CASE kind = "policy"
  <2>1. EmptyPolicy \in Policies
    BY DEF EmptyPolicy, Policies
  <2> QED BY <1>1, <2>1 DEF HoldsKept, InFile, Loaded, LoadPolicy
<1>2. CASE kind = "registry"
  <2>1. <<>> \in Registries
    BY DEF Registries
  <2> QED BY <1>2, <2>1 DEF HoldsKept, InFile, Loaded, LoadRegistry
<1>3. CASE kind = "team"
  <2>1. CASE store = Missing
    <3>1. v = EmptyTeam /\ kept = {}
      BY <1>3, <2>1 DEF HoldsKept, InFile, Loaded
    <3>2. EmptyTeam \in Teams
      BY DEF EmptyTeam, Teams
    <3> QED BY <1>3, <3>1, <3>2 DEF HoldsKept, InFile
  <2>2. CASE store # Missing
    <3>1. store \in Teams /\ kept \subseteq Remembered(store) /\ v = LoadTeam(store)
      BY <1>3, <2>2 DEF HoldsKept, InFile, Loaded
    <3>2. v \in Teams /\ v.users = store.users
      BY <3>1 DEF LoadTeam, Teams
    <3> QED BY <1>3, <3>1, <3>2 DEF HoldsKept, InFile, Remembered
  <2> QED BY <2>1, <2>2
<1>4. CASE kind = "leads"
  <2>1. EmptyPipe \in LeadPipes
    BY DEF EmptyPipe, LeadPipes
  <2> QED BY <1>4, <2>1 DEF HoldsKept, InFile, Loaded
<1> QED BY <1>1, <1>2, <1>3, <1>4 DEF Kinds

LEMMA SettingsKeeps == ASSUME SettingsInv, SettingsNext PROVE SettingsInv'
<1> USE SettingsAssumption
<1> SUFFICES ASSUME NEW e \in Editor, EditorStep(e), ~disturbed' PROVE Undisturbed'
  BY DEF SettingsInv, SettingsNext, EditorStep, LoadFile, InstallDefault, Edit, OpenFile, CloseFile, QuitEditor
<1>1. UNCHANGED kind /\ kind \in Kinds /\ ~disturbed /\ Undisturbed
  <2>1. UNCHANGED kind /\ ~disturbed
    <3>1. CASE LoadFile(e)
      BY <3>1 DEF LoadFile, MayBegin
    <3>2. CASE InstallDefault(e)
      BY <3>2 DEF InstallDefault, MayBegin
    <3>3. CASE Edit(e)
      BY <3>3 DEF Edit
    <3>4. CASE OpenFile(e)
      BY <3>4 DEF OpenFile
    <3>5. CASE CloseFile(e)
      BY <3>5 DEF CloseFile
    <3>6. CASE QuitEditor(e)
      BY <3>6 DEF QuitEditor
    <3> QED BY <3>1, <3>2, <3>3, <3>4, <3>5, <3>6 DEF EditorStep
  <2> QED BY <2>1 DEF SettingsInv
\* The others are idle; what is left to show is about the one that steps.
<1>2. ASSUME NEW s, EditorBecomes(e, s), \A f \in Editor \ {e} : editor[f].pc = "idle",
             s = [x \in {"pc", "value", "left", "added"} |-> s[x]],
             s.pc # "idle" => HoldsKept(s.value)', s.pc = "saving" => store' = s.left,
             s.pc # "saving" => (store' = Missing /\ kept' = {}) \/ HoldsKept(store)'
      PROVE  Undisturbed'
  <2>1. /\ editor' = [f \in Editor |-> editor'[f]] /\ editor'[e] = s
        /\ \A f \in Editor \ {e} : editor'[f] = editor[f]
    BY <1>1, <1>2 DEF Undisturbed, EditorBecomes
  <2> QED BY <1>1, <1>2, <2>1 DEF Undisturbed, NobodySaves, EditorAt
<1>3. CASE LoadFile(e)
  <2>1. PICK v \in Loaded : EditorBecomes(e, [NotEditing EXCEPT !.pc = "loaded", !.value = v])
    BY <1>3 DEF LoadFile
  <2>2. \A f \in Editor : editor[f].pc = "idle"
    BY <1>3 DEF LoadFile, EditorAt
  <2>3. (store = Missing /\ kept = {}) \/ HoldsKept(store)
    BY <1>1, <2>2 DEF Undisturbed, NobodySaves, EditorAt
  <2>4. HoldsKept(v) /\ UNCHANGED <<kind, store, kept>>
    BY <1>1, <1>3, <2>3, LoadsKeep DEF LoadFile
  <2>5. HoldsKept(v)' /\ ((store' = Missing /\ kept' = {}) \/ HoldsKept(store)')
    BY <2>3, <2>4 DEF HoldsKept, InFile, Remembered
  <2> DEFINE s == [NotEditing EXCEPT !.pc = "loaded", !.value = v]
  <2>6. s = [x \in {"pc", "value", "left", "added"} |-> s[x]] /\ s.pc = "loaded" /\ s.value = v
    BY DEF NotEditing
  <2> HIDE DEF s
  <2>7. EditorBecomes(e, s)
    BY <2>1 DEF s
  <2> QED BY <1>2, <2>2, <2>5, <2>6, <2>7
<1>4. CASE InstallDefault(e)
  <2>1. PICK m \in Models : EditorBecomes(e, [NotEditing EXCEPT !.pc = "edited", !.value = DefaultRegistry({m}, Models)])
    BY <1>4 DEF InstallDefault
  <2>2. \A f \in Editor : editor[f].pc = "idle"
    BY <1>4 DEF InstallDefault, EditorAt
  <2>3. kept' = {} /\ store' = Missing
    BY <1>1, <1>4, <2>2 DEF InstallDefault, Undisturbed, NobodySaves, EditorAt, HoldsKept, InFile
  <2> DEFINE v == DefaultRegistry({m}, Models)
             s == [NotEditing EXCEPT !.pc = "edited", !.value = v]
  <2>4. v \in Registries
    <3>1. /\ Provider("openai", {m}, TRUE) \in Providers /\ Provider("groq", Models, TRUE) \in Providers
          /\ Provider("local", Models, FALSE) \in Providers
      BY DEF Provider, Providers, Globs
    <3> HIDE DEF v
    <3>2. \A a, b, c \in Providers : <<a, b, c>> \in Seq(Providers)
      OBVIOUS
    <3> QED BY <3>1, <3>2 DEF v, DefaultRegistry, Registries
  <2>5. s = [x \in {"pc", "value", "left", "added"} |-> s[x]] /\ s.pc = "edited" /\ s.value = v
    BY DEF NotEditing
  <2> HIDE DEF v
  <2>6. HoldsKept(v)'
    BY <1>1, <1>4, <2>3, <2>4 DEF InstallDefault, HoldsKept, InFile
  <2>7. EditorBecomes(e, s)
    BY <2>1 DEF v
  <2> HIDE DEF s
  <2> QED BY <1>2, <2>2, <2>3, <2>5, <2>6, <2>7
<1>5. CASE Edit(e) \/ OpenFile(e) \/ CloseFile(e) \/ QuitEditor(e)
  <2>1. /\ editor[e].pc # "idle" /\ HoldsKept(editor[e].value)
        /\ editor[e] = [x \in {"pc", "value", "left", "added"} |-> editor[e][x]]
        /\ \A f \in Editor \ {e} : editor[f].pc = "idle"
    BY <1>1, <1>5 DEF Edit, OpenFile, CloseFile, QuitEditor, EditorAt, Undisturbed
  <2>2. editor[e].pc # "saving" => (store = Missing /\ kept = {}) \/ HoldsKept(store)
    BY <1>1, <2>1 DEF Undisturbed, NobodySaves, EditorAt
  <2>3. ASSUME UNCHANGED kept, NEW v, HoldsKept(v) PROVE HoldsKept(v)'
    BY <1>1, <2>3 DEF HoldsKept, InFile, Remembered
  <2>4. CASE Edit(e)
    <3>1. PICK v \in Edited(editor[e].value) :
            EditorBecomes(e, [editor[e] EXCEPT !.pc = "edited", !.value = v,
              !.added = IF kind = "team" THEN Len(v.audit) - Len(editor[e].value.audit) ELSE 0])
      BY <2>4 DEF Edit
    <3>2. UNCHANGED <<kind, store, kept>> /\ editor[e].pc = "loaded"
      BY <2>4 DEF Edit, EditorAt
    <3>3. HoldsKept(v)
      BY <1>1, <2>1, EditsKeep DEF HoldsKept
    <3> DEFINE n == IF kind = "team" THEN Len(v.audit) - Len(editor[e].value.audit) ELSE 0
    <3> HIDE DEF n
    <3>0. PICK s : s = [editor[e] EXCEPT !.pc = "edited", !.value = v, !.added = n]
      OBVIOUS
    <3>4. s = [x \in {"pc", "value", "left", "added"} |-> s[x]] /\ s.pc = "edited" /\ s.value = v
      BY <2>1, <3>0
    <3>5. EditorBecomes(e, s)
      BY <3>0, <3>1 DEF n
    <3>6. HoldsKept(v)' /\ ((store' = Missing /\ kept' = {}) \/ HoldsKept(store)')
      BY <2>2, <2>3, <3>2, <3>3
    <3> QED BY <1>2, <2>1, <3>4, <3>5, <3>6
  <2>5. CASE OpenFile(e)
    <3>1. PICK left \in Truncated(editor[e].value) :
            /\ store' = left
            /\ EditorBecomes(e, [editor[e] EXCEPT !.pc = "saving", !.left = left])
      BY <2>5 DEF OpenFile
    <3>2. UNCHANGED kept
      BY <2>5 DEF OpenFile
    <3>0. PICK s : s = [editor[e] EXCEPT !.pc = "saving", !.left = left]
      OBVIOUS
    <3>3. /\ s = [x \in {"pc", "value", "left", "added"} |-> s[x]] /\ s.pc = "saving"
          /\ s.value = editor[e].value /\ s.left = left
      BY <2>1, <3>0
    <3>4. EditorBecomes(e, s)
      BY <3>0, <3>1
    <3>5. HoldsKept(s.value)'
      BY <2>1, <2>3, <3>2, <3>3
    <3>6. store' = s.left
      BY <3>1, <3>3
    <3> QED BY <1>2, <2>1, <3>3, <3>4, <3>5, <3>6
  <2>6. CASE CloseFile(e)
    <3> DEFINE v == editor[e].value
    <3>1. store' = v /\ kept' = kept \cup Remembered(v) /\ EditorBecomes(e, NotEditing)
      BY <1>1, <2>6 DEF CloseFile, EditorAt, Undisturbed
    <3>2. HoldsKept(v) /\ kept' = Remembered(v)
      BY <2>1, <3>1 DEF HoldsKept
    <3>3. NotEditing = [x \in {"pc", "value", "left", "added"} |-> NotEditing[x]] /\ NotEditing.pc = "idle"
      BY DEF NotEditing
    <3>4. HoldsKept(store)'
      BY <1>1, <3>1, <3>2 DEF HoldsKept, InFile, Remembered
    <3> QED BY <1>2, <2>1, <3>1, <3>3, <3>4
  <2>7. CASE QuitEditor(e)
    <3>1. UNCHANGED <<store, kept>> /\ EditorBecomes(e, NotEditing) /\ editor[e].pc # "saving"
      BY <2>7 DEF QuitEditor, EditorAt
    <3>2. (store' = Missing /\ kept' = {}) \/ HoldsKept(store)'
      BY <2>2, <2>3, <3>1
    <3>3. NotEditing = [x \in {"pc", "value", "left", "added"} |-> NotEditing[x]] /\ NotEditing.pc = "idle"
      BY DEF NotEditing
    <3> QED BY <1>2, <2>1, <3>1, <3>2, <3>3
  <2> QED BY <1>5, <2>4, <2>5, <2>6, <2>7
<1> QED BY SMTT(30), <1>3, <1>4, <1>5 DEF EditorStep

LEMMA SettingsStarts == ASSUME SettingsInit PROVE SettingsInv
<1>1. NotEditing = [x \in {"pc", "value", "left", "added"} |-> NotEditing[x]] /\ NotEditing.pc = "idle"
  BY DEF NotEditing
<1> QED BY <1>1 DEF SettingsInit, SettingsInv, Undisturbed, NobodySaves, EditorAt

\* NothingForgotten: what an editor saved, the next one finds.
THEOREM NothingIsForgotten == PeripherySpec => []NothingForgotten
<1>1. PeripheryInit => SettingsInv
  BY SettingsStarts DEF PeripheryInit
<1>2. SettingsInv /\ [PeripheryNext]_peripheryVars => SettingsInv'
  <2> SUFFICES ASSUME SettingsInv, [PeripheryNext]_peripheryVars PROVE SettingsInv'
    OBVIOUS
  <2>1. CASE SettingsNext
    BY <2>1, SettingsKeeps
  <2>2. CASE UNCHANGED settingsVars
    BY <2>2 DEF SettingsInv, Undisturbed, HoldsKept, InFile, Remembered, NobodySaves, EditorAt, settingsVars
  <2> QED BY <2>1, <2>2, PartsSee
<1>3. SettingsInv => NothingForgotten
  <2> SUFFICES ASSUME SettingsInv, ~disturbed, NobodySaves, NEW v \in Loaded PROVE kept \subseteq Remembered(v)
    BY DEF NothingForgotten
  <2>1. kind \in Kinds /\ ((store = Missing /\ kept = {}) \/ HoldsKept(store))
    BY DEF SettingsInv, Undisturbed
  <2>2. HoldsKept(v)
    BY <2>1, LoadsKeep
  <2> QED BY <2>2 DEF HoldsKept
<1> QED BY <1>1, <1>2, <1>3, PTL DEF PeripherySpec

-----------------------------------------------------------------------------
(* Timestamps *)

TsaTokens == [cert : Cert \cup {NoValue}, imprint : Seq(Nat), nonce : Nonce]
BundleAttestations ==
  [url : TsaUrl, pin : Cert \cup {NoValue}, imprint : Seq(Nat), nonce : Nonce, token : TsaTokens]
Makings == [content : Nat, certs : SUBSET Cert]

\* An attestation is of the content it was made of, and names a pin that was
\* there then, unless there was none.
Attests(att, making) ==
  /\ att.imprint = <<making.content>> /\ att.token.imprint = <<making.content>>
  /\ att.nonce = att.token.nonce
  /\ \A cert \in Cert : making.certs = {cert} => att.pin = cert

TimestampInv ==
  /\ bundle \in [content : Nat, attestations : Seq(BundleAttestations)]
  /\ made \in Seq(Makings) /\ Len(made) = Len(bundle.attestations)
  /\ pins \in [Tsa -> [url : TsaUrl, certs : SUBSET Cert]]
  /\ request # NoValue =>
       /\ request = [x \in {"url", "imprint", "nonce", "attempt"} |-> request[x]]
       /\ request.url \in TsaUrl /\ request.nonce \in Nonce /\ request.imprint = <<bundle.content>>
  /\ \A j \in DOMAIN made : Attests(bundle.attestations[j], made[j])

\* The pin that is named is the one the URL has.
LEMMA OnePin ==
  ASSUME pins \in [Tsa -> [url : TsaUrl, certs : SUBSET Cert]], NEW url \in TsaUrl
  PROVE  /\ PinsOf(url) \in SUBSET Cert
         /\ PinForUrl(url) \in Cert \cup {NoValue}
         /\ \A cert \in Cert : PinsOf(url) = {cert} => PinForUrl(url) = cert
<1> USE TimestampAssumption
<1> DEFINE name == IF DefaultTsa \in Named(url) THEN DefaultTsa ELSE CHOOSE x \in Named(url) : TRUE
           certs == pins[name].certs
           pin == CHOOSE p \in certs : \A other \in certs : p <= other
<1>1. CASE Named(url) = {}
  <2>1. PinsOf(url) = {} /\ PinForUrl(url) = NoValue
    BY <1>1 DEF PinsOf, PinForUrl, FindByUrl
  <2> QED BY <2>1
<1>2. CASE Named(url) # {}
  <2>1. name \in Tsa /\ FindByUrl(url) = pins[name] /\ pins[name] # NoValue
        /\ pins[name] \in [url : TsaUrl, certs : SUBSET Cert]
    BY <1>2 DEF FindByUrl, Named
  <2> HIDE DEF name
  <2>2. certs \subseteq Cert /\ PinsOf(url) = certs
    BY <1>2, <2>1 DEF PinsOf
  <2>3. PinForUrl(url) = IF certs = {} THEN NoValue ELSE pin
    BY <2>1 DEF PinForUrl
  <2> HIDE DEF certs, pin
  <2>4. ASSUME certs # {} PROVE pin \in certs
    <3>1. certs \subseteq Nat /\ \E p \in certs : \A other \in certs : p <= other
      BY <2>2, <2>4, Least
    <3> QED BY <3>1 DEF pin
  <2> QED BY <2>2, <2>3, <2>4
<1> QED BY <1>1, <1>2

\* The bundle, its attestations and the request stay; anything else may change.
LEMMA BundleRests ==
  ASSUME TimestampInv, UNCHANGED <<bundle, made, request>>,
         pins' \in [Tsa -> [url : TsaUrl, certs : SUBSET Cert]]
  PROVE  TimestampInv'
  BY DEF TimestampInv, Attests, BundleAttestations, TsaTokens, Makings

LEMMA TimestampKeeps == ASSUME TimestampInv, TimestampNext PROVE TimestampInv'
<1> USE TimestampAssumption
<1>p. pins \in [Tsa -> [url : TsaUrl, certs : SUBSET Cert]]
  BY DEF TimestampInv
<1>e. ASSUME EndWithout PROVE TimestampInv'
  BY <1>e DEF EndWithout, TimestampInv, Attests, BundleAttestations, TsaTokens, Makings
<1>1. ASSUME NEW url \in TsaUrl, NEW nonce \in Nonce, Ask(url, nonce) PROVE TimestampInv'
  <2> DEFINE r == [url |-> url, imprint |-> CanonicalBundle, nonce |-> nonce, attempt |-> 1]
  <2>1. /\ r = [x \in {"url", "imprint", "nonce", "attempt"} |-> r[x]]
        /\ r.url = url /\ r.nonce = nonce /\ r.imprint = <<bundle.content>>
    BY DEF CanonicalBundle
  <2>2. request' = r /\ UNCHANGED <<bundle, pins, made>>
    BY <1>1 DEF Ask
  <2> HIDE DEF r
  <2> QED BY <2>1, <2>2 DEF TimestampInv, Attests, BundleAttestations, TsaTokens, Makings
<1>2. CASE NetworkFails
  <2>1. CASE request.attempt = 2 /\ EndWithout
    BY <1>e, <2>1
  <2>2. CASE request' = [request EXCEPT !.attempt = 2] /\ UNCHANGED <<bundle, pins, expired, made, changes>>
    BY <1>2, <2>2 DEF NetworkFails, TimestampInv, Attests, BundleAttestations, TsaTokens, Makings
  <2> QED BY <1>2, <2>1, <2>2 DEF NetworkFails
<1>3. CASE HttpError
  BY <1>3, <1>e DEF HttpError
<1>4. ASSUME request # NoValue, NEW answer \in Answers, Receive(answer) PROVE TimestampInv'
  <2>1. CASE EndWithout
    BY <1>e, <2>1
  <2>2. CASE /\ ~Unreadable(answer) /\ ~Refused(answer)
             /\ bundle' = [bundle EXCEPT !.attestations = Append(@, AttestationOf(answer))]
             /\ made' = Append(made, [content |-> bundle.content, certs |-> PinsOf(request.url)])
             /\ request' = NoValue
             /\ UNCHANGED <<pins, expired, changes>>
    <3> DEFINE att == AttestationOf(answer)
               making == [content |-> bundle.content, certs |-> PinsOf(request.url)]
    <3>1. /\ answer.imprint = <<bundle.content>> /\ answer.nonce \in Nonce
          /\ answer.cert \in Cert \cup {NoValue} /\ request.url \in TsaUrl
          /\ bundle.content \in Nat
      BY <1>4, <2>2 DEF Refused, TimestampInv, Answers
    <3>2. /\ PinsOf(request.url) \in SUBSET Cert /\ PinForUrl(request.url) \in Cert \cup {NoValue}
          /\ \A cert \in Cert : PinsOf(request.url) = {cert} => PinForUrl(request.url) = cert
      BY <1>p, <3>1, OnePin
    <3>3. <<bundle.content>> \in Seq(Nat)
      BY <3>1
    <3>4. att.token = [cert |-> answer.cert, imprint |-> answer.imprint, nonce |-> answer.nonce]
          /\ att.token \in TsaTokens
      BY <3>1, <3>3 DEF AttestationOf, TsaTokens
    <3>5. att \in BundleAttestations /\ Attests(att, making)
      <4>1. /\ att = [x \in {"url", "pin", "imprint", "nonce", "token"} |-> att[x]]
            /\ att.url = request.url /\ att.pin = PinForUrl(request.url)
            /\ att.imprint = request.imprint /\ att.nonce = answer.nonce
        BY DEF AttestationOf
      <4>2. request.imprint = <<bundle.content>>
        BY <1>4 DEF TimestampInv
      <4>3. att.token.imprint = <<bundle.content>> /\ att.token.nonce = answer.nonce
        BY <3>1, <3>4
      <4>4. making.content = bundle.content /\ making.certs = PinsOf(request.url)
        OBVIOUS
      <4> HIDE DEF att, making
      <4> QED BY <3>1, <3>2, <3>3, <3>4, <4>1, <4>2, <4>3, <4>4 DEF BundleAttestations, Attests
    <3>6. making \in Makings
      BY <3>1, <3>2 DEF Makings
    <3> HIDE DEF att, making
    <3> DEFINE atts == bundle.attestations
    <3>7. atts \in Seq(BundleAttestations) /\ made \in Seq(Makings) /\ Len(made) = Len(atts)
          /\ bundle = [content |-> bundle.content, attestations |-> atts]
      BY DEF TimestampInv
    <3>8. bundle' = [content |-> bundle.content, attestations |-> Append(atts, att)] /\ made' = Append(made, making)
      BY <2>2, <3>7 DEF att, making
    <3> HIDE DEF atts
    <3>9. /\ Append(atts, att) \in Seq(BundleAttestations) /\ made' \in Seq(Makings)
          /\ Len(made') = Len(Append(atts, att)) /\ Len(made') = Len(made) + 1 /\ Len(made) \in Nat
          /\ \A j \in 1..Len(made) : made'[j] = made[j] /\ Append(atts, att)[j] = atts[j]
          /\ made'[Len(made')] = making /\ Append(atts, att)[Len(made')] = att
      BY <3>5, <3>6, <3>7, <3>8
    <3>10. bundle' \in [content : Nat, attestations : Seq(BundleAttestations)]
           /\ bundle'.attestations = Append(atts, att)
      BY <3>1, <3>8, <3>9
    <3>11. ASSUME NEW j \in 1..Len(made') PROVE Attests(bundle.attestations[j], made[j])'
      <4>1. CASE j = Len(made')
        BY <3>5, <3>9, <3>10, <4>1 DEF Attests
      <4>2. CASE j # Len(made')
        <5>1. j \in 1..Len(made) /\ j \in DOMAIN made
          BY <3>7, <3>9, <4>2
        <5>2. Attests(atts[j], made[j])
          BY <5>1 DEF TimestampInv, atts
        <5> QED BY <3>9, <3>10, <5>1, <5>2 DEF Attests
      <4> QED BY <4>1, <4>2
    <3> QED BY <1>p, <2>2, <3>9, <3>10, <3>11 DEF TimestampInv
  <2> QED BY <1>4, <2>1, <2>2 DEF Receive
<1>5. CASE ChangeBundle
  <2>1. /\ bundle' = [bundle EXCEPT !.content = @ + 1] /\ UNCHANGED <<pins, request, made>>
        /\ request = NoValue
    BY <1>5 DEF ChangeBundle, Change
  <2>2. bundle' \in [content : Nat, attestations : Seq(BundleAttestations)] /\ bundle'.attestations = bundle.attestations
    BY <2>1 DEF TimestampInv
  <2> QED BY ZenonT(40), <2>1, <2>2 DEF TimestampInv, Attests
<1>6. CASE Restart
  <2>1. pins' \in [Tsa -> [url : TsaUrl, certs : SUBSET Cert]]
    BY <1>6 DEF Restart, LoadEnvPins, TableAtStart
  <2> QED BY <1>6, <2>1, BundleRests DEF Restart, Change
<1>7. ASSUME NEW cert \in Cert, CertExpires(cert) PROVE TimestampInv'
  BY <1>7, <1>p, BundleRests DEF CertExpires, Change
<1>8. ASSUME NEW cert \in Cert, NEW name \in Tsa, SetPin(name, cert) PROVE TimestampInv'
  <2>1. pins' \in [Tsa -> [url : TsaUrl, certs : SUBSET Cert]]
    BY <1>8, <1>p DEF SetPin
  <2> QED BY <1>8, <2>1, BundleRests DEF SetPin, Change
<1>9. ASSUME NEW name \in Tsa, ClearPins(name) PROVE TimestampInv'
  <2>1. pins' \in [Tsa -> [url : TsaUrl, certs : SUBSET Cert]]
    BY <1>9, <1>p DEF ClearPins
  <2> QED BY <1>9, <2>1, BundleRests DEF ClearPins, Change
<1> QED BY <1>1, <1>2, <1>3, <1>4, <1>5, <1>6, <1>7, <1>8, <1>9 DEF TimestampNext

LEMMA TimestampStarts == ASSUME TimestampInit PROVE TimestampInv
<1> USE TimestampAssumption
<1>1. pins \in [Tsa -> [url : TsaUrl, certs : SUBSET Cert]]
  BY DEF TimestampInit, LoadEnvPins, TableAtStart
<1> QED BY <1>1 DEF TimestampInit, TimestampInv

LEMMA TimestampSays == ASSUME TimestampInv PROVE TimestampHolds
<1> USE TimestampAssumption
<1> SUFFICES ASSUME NEW j \in DOMAIN bundle.attestations
    PROVE  LET att == bundle.attestations[j]
               entry == FindByUrl(att.url)
               holds == /\ made[j].content = bundle.content
                        /\ entry # NoValue /\ att.token.cert \in entry.certs \ expired
           IN  /\ VerifyAttestation(att) => holds
               /\ holds /\ made[j].certs = {att.token.cert} => VerifyAttestation(att)
  BY DEF TimestampHolds
<1> DEFINE att == bundle.attestations[j]
           entry == FindByUrl(att.url)
<1>1. j \in DOMAIN made /\ att \in BundleAttestations
  BY DEF TimestampInv
<1>2. Attests(att, made[j])
  BY <1>1 DEF TimestampInv
<1>3. entry # NoValue => entry.certs \subseteq Cert
  BY DEF FindByUrl, TimestampInv, Named
<1>4. att.token.cert \in Cert => att.token.cert # NoValue
  OBVIOUS
<1> DEFINE holds == /\ made[j].content = bundle.content
                    /\ entry # NoValue /\ att.token.cert \in entry.certs \ expired
<1>5. VerifyAttestation(att) => holds
  <2> HIDE DEF att
  <2> QED BY <1>2 DEF Attests, VerifyAttestation, CanonicalBundle
<1>6. holds /\ made[j].certs = {att.token.cert} => VerifyAttestation(att)
  <2> HIDE DEF att
  <2> QED BY <1>2, <1>3, <1>4 DEF Attests, VerifyAttestation, CanonicalBundle
<1> QED BY <1>5, <1>6

-----------------------------------------------------------------------------
(* Manifests of checkpoints *)

\* The attestations of a checkpoint are of its receipt, and what they say was
\* given for it; only clients that upgrade leave anything pending.
Genuine(checkpoint) ==
  /\ checkpoint.sha = <<"sha", checkpoint.receipt>>
  /\ \A k \in DOMAIN checkpoint.attestations :
       LET att == checkpoint.attestations[k]
       IN  /\ att = Attestation(att.attestor, att.status, checkpoint.sha)
           /\ att.status = "pending" => att.attestor \in Upgrader

GrantAt(m, j, k) ==
  <<m.checkpoints[j].receipt, m.checkpoints[j].attestations[k].attestor,
    m.checkpoints[j].attestations[k].status>>

\* A manifest says of every receipt, once, what each attestor, once, has given.
Complete(m, grants) ==
  /\ \A i, j \in DOMAIN m.checkpoints : m.checkpoints[i].receipt = m.checkpoints[j].receipt => i = j
  /\ \A j \in DOMAIN m.checkpoints : \A k, l \in DOMAIN m.checkpoints[j].attestations :
       m.checkpoints[j].attestations[k].attestor = m.checkpoints[j].attestations[l].attestor => k = l
  /\ \A j \in DOMAIN m.checkpoints : \A k \in DOMAIN m.checkpoints[j].attestations :
       GrantAt(m, j, k) \in grants
  /\ \A g \in grants : \E j \in DOMAIN m.checkpoints :
       \E k \in DOMAIN m.checkpoints[j].attestations : g = GrantAt(m, j, k)

ManifestSound(m) ==
  m # NoManifest =>
    /\ m \in Manifests
    /\ \A j \in DOMAIN m.checkpoints : Genuine(m.checkpoints[j])
    /\ ~redigested => (m.digest = CheckpointDigest(m.checkpoints) <=> ~damaged)

AnchorsInv ==
  /\ ManifestSound(manifest) /\ ManifestSound(document)
  /\ redigested => damaged
  /\ damaged => document # NoManifest
  /\ ~damaged /\ manifest # NoManifest => Complete(manifest, granted)
  /\ ~damaged /\ manifest = NoManifest /\ document # NoManifest => Complete(document, granted)

-----------------------------------------------------------------------------
LEMMA MapSeq ==
  ASSUME NEW S, NEW T, NEW s \in Seq(S), NEW t, t = [j \in DOMAIN s |-> t[j]],
         \A j \in DOMAIN s : t[j] \in T
  PROVE  t \in Seq(T) /\ DOMAIN t = DOMAIN s
<1>1. Len(s) \in Nat /\ DOMAIN s = 1..Len(s)
  OBVIOUS
<1>2. t \in [1..Len(s) -> T]
  BY <1>1
<1> QED BY <1>1, <1>2, IsASeq

LEMMA AttestsCheckpoint ==
  ASSUME NEW r \in Subject, NEW attestors \in Seq(Attestor)
  PROVE  LET checkpoint == AttestCheckpoint(r, attestors)
         IN  /\ checkpoint \in AnchorCheckpoints /\ Genuine(checkpoint) /\ checkpoint.receipt = r
             /\ DOMAIN checkpoint.attestations = DOMAIN attestors
             /\ \A k \in DOMAIN attestors :
                  /\ checkpoint.attestations[k].attestor = attestors[k]
                  /\ checkpoint.attestations[k].status = RequestStatus(attestors[k])
<1> DEFINE sha == <<"sha", r>>
           atts == [k \in DOMAIN attestors |-> RequestAttestation(attestors[k], sha)]
           cp == AttestCheckpoint(r, attestors)
<1>1. sha \in Shas
  BY DEF Shas
<1>2. cp = [receipt |-> r, sha |-> sha, attestations |-> atts]
  BY DEF AttestCheckpoint
<1> HIDE DEF sha, cp
<1>3. ASSUME NEW a \in Attestor
      PROVE  /\ RequestAttestation(a, sha) \in AnchorAttestations
             /\ RequestAttestation(a, sha) = Attestation(a, RequestStatus(a), sha)
             /\ RequestAttestation(a, sha).attestor = a /\ RequestAttestation(a, sha).status = RequestStatus(a)
             /\ RequestStatus(a) = "pending" => a \in Upgrader
  <2>1. RequestStatus(a) \in {"pending", "confirmed"} /\ (RequestStatus(a) = "pending" => a \in Upgrader)
    BY DEF RequestStatus
  <2>2. AnchorProof(a, RequestStatus(a), sha) \in AnchorProofs
    BY <1>1, <2>1 DEF AnchorProof, AnchorProofs
  <2> QED BY <1>1, <2>1, <2>2 DEF RequestAttestation, Attestation, AnchorAttestations
<1>4. \A k \in DOMAIN attestors : attestors[k] \in Attestor /\ atts[k] = RequestAttestation(attestors[k], sha)
  OBVIOUS
<1>5. atts = [k \in DOMAIN attestors |-> atts[k]]
  OBVIOUS
<1> HIDE DEF atts
<1>6. atts \in Seq(AnchorAttestations) /\ DOMAIN atts = DOMAIN attestors
  BY <1>3, <1>4, <1>5, MapSeq
<1>7. cp \in AnchorCheckpoints /\ cp.receipt = r /\ cp.sha = sha /\ cp.attestations = atts
  BY <1>1, <1>2, <1>6 DEF AnchorCheckpoints
<1>8. Genuine(cp)
  BY <1>3, <1>4, <1>6, <1>7 DEF Genuine, sha
<1> QED BY <1>3, <1>4, <1>6, <1>7, <1>8 DEF cp

LEMMA Builds ==
  ASSUME NEW cps \in Seq(AnchorCheckpoints)
  PROVE  /\ BuildManifest(cps) \in Manifests
         /\ BuildManifest(cps).checkpoints = cps
         /\ BuildManifest(cps).digest = CheckpointDigest(cps)
<1>1. CheckpointDigest(cps) \in {"digest"} \X Seq(AnchorCheckpoints)
  BY DEF CheckpointDigest
<1> QED BY <1>1 DEF BuildManifest, Manifests

LEMMA BuildKeeps ==
  ASSUME AnchorsInv, NEW subjects \in Orders(Subject), NEW attestors \in Orders(Attestor),
         BuildFromReceipts(subjects, attestors)
  PROVE  AnchorsInv'
<1> DEFINE cps == [j \in DOMAIN subjects |-> AttestCheckpoint(subjects[j], attestors)]
           m == BuildManifest(cps)
<1>0. ASSUME NEW S, NEW s \in Orders(S)
      PROVE  s \in Seq(S) /\ \A a, b \in DOMAIN s : s[a] = s[b] => a = b
  <2>1. PICK n \in 0..Cardinality(S) : s \in [1..n -> S]
    BY DEF Orders
  <2>2. n \in Nat
    BY <2>1
  <2>3. \A a, b \in DOMAIN s : s[a] = s[b] => a = b
    BY DEF Orders
  <2> QED BY <2>1, <2>2, <2>3, IsASeq
<1>1. /\ subjects \in Seq(Subject) /\ \A a, b \in DOMAIN subjects : subjects[a] = subjects[b] => a = b
      /\ attestors \in Seq(Attestor) /\ \A a, b \in DOMAIN attestors : attestors[a] = attestors[b] => a = b
  BY <1>0
<1>2. \A j \in DOMAIN subjects : subjects[j] \in Subject /\ cps[j] = AttestCheckpoint(subjects[j], attestors)
  BY <1>1
<1>3. \A j \in DOMAIN subjects :
        /\ cps[j] \in AnchorCheckpoints /\ Genuine(cps[j]) /\ cps[j].receipt = subjects[j]
        /\ DOMAIN cps[j].attestations = DOMAIN attestors
        /\ \A k \in DOMAIN attestors :
             /\ cps[j].attestations[k].attestor = attestors[k]
             /\ cps[j].attestations[k].status = RequestStatus(attestors[k])
  <2> HIDE DEF cps
  <2> QED BY <1>1, <1>2, AttestsCheckpoint
<1>4. cps = [j \in DOMAIN subjects |-> cps[j]]
  OBVIOUS
<1> HIDE DEF cps
<1>5. cps \in Seq(AnchorCheckpoints) /\ DOMAIN cps = DOMAIN subjects
  BY <1>1, <1>3, <1>4, MapSeq
<1>6. m \in Manifests /\ m.checkpoints = cps /\ m.digest = CheckpointDigest(cps) /\ m # NoManifest
  BY <1>5, Builds, AnchorsAssumption
<1>7. /\ manifest' = m /\ UNCHANGED <<document, damaged, redigested>> /\ document = NoManifest
      /\ granted' = {<<subjects[j], attestors[k], RequestStatus(attestors[k])>> :
                   j \in DOMAIN subjects, k \in DOMAIN attestors}
  BY DEF BuildFromReceipts, cps
<1> HIDE DEF m
<1>8. ~damaged /\ ~redigested
  BY <1>7 DEF AnchorsInv
<1>9. \A j \in DOMAIN m.checkpoints : \A k \in DOMAIN m.checkpoints[j].attestations :
        /\ j \in DOMAIN subjects /\ k \in DOMAIN attestors
        /\ GrantAt(m, j, k) = <<subjects[j], attestors[k], RequestStatus(attestors[k])>>
  BY <1>3, <1>5, <1>6 DEF GrantAt
<1>10. Complete(m, granted')
  <2>1. \A i, j \in DOMAIN cps : cps[i].receipt = cps[j].receipt => i = j
    BY <1>1, <1>3, <1>5
  <2>2. \A j \in DOMAIN cps : \A k, l \in DOMAIN cps[j].attestations :
          cps[j].attestations[k].attestor = cps[j].attestations[l].attestor => k = l
    BY <1>1, <1>3, <1>5
  <2>3. \A j \in DOMAIN cps : \A k \in DOMAIN cps[j].attestations : GrantAt(m, j, k) \in granted'
    BY <1>6, <1>7, <1>9
  <2>4. ASSUME NEW g \in granted'
        PROVE  \E j \in DOMAIN cps : \E k \in DOMAIN cps[j].attestations : g = GrantAt(m, j, k)
    <3>1. PICK j \in DOMAIN subjects, k \in DOMAIN attestors : g = <<subjects[j], attestors[k], RequestStatus(attestors[k])>>
      BY <1>7
    <3>2. j \in DOMAIN cps /\ k \in DOMAIN cps[j].attestations
      BY <1>3, <1>5
    <3> QED BY <1>6, <1>9, <3>1, <3>2
  <2> QED BY <1>6, <2>1, <2>2, <2>3, <2>4 DEF Complete
<1> QED BY <1>3, <1>5, <1>6, <1>7, <1>8, <1>10 DEF AnchorsInv, ManifestSound

\* Only what has been damaged has a digest that is not its own.
LEMMA CutFront ==
  ASSUME NEW S, NEW s \in Seq(S), NEW j \in DOMAIN s
  PROVE  /\ Without(s, j) \in Seq(S) /\ Len(Without(s, j)) = Len(s) - 1 /\ Without(s, j) # s
         /\ \A i \in DOMAIN Without(s, j) : \E k \in DOMAIN s : Without(s, j)[i] = s[k]
<1> DEFINE n == Len(s) - 1
           t == Without(s, j)
<1>1. n \in Nat /\ DOMAIN s = 1..(n + 1) /\ j \in 1..(n + 1) /\ Len(s) = n + 1
  OBVIOUS
<1>2. t = [i \in 1..n |-> t[i]] /\ \A i \in 1..n : t[i] = s[i] \/ t[i] = s[i + 1]
  BY DEF Without
<1> HIDE DEF n, t
<1>3. \A i \in 1..n : i \in DOMAIN s /\ i + 1 \in DOMAIN s
  BY <1>1
<1>4. \A i \in 1..n : t[i] \in S /\ \E k \in DOMAIN s : t[i] = s[k]
  BY <1>2, <1>3
<1>5. t \in [1..n -> S]
  BY <1>2, <1>4
<1>6. t \in Seq(S) /\ Len(t) = n
  BY <1>1, <1>5, IsASeq, LenProperties
<1>7. t # s
  BY <1>1, <1>6
<1> QED BY <1>1, <1>4, <1>6, <1>7 DEF n, t

LEMMA DamageKeeps == ASSUME AnchorsInv, DamageDocument PROVE AnchorsInv'
<1>1. /\ manifest = NoManifest /\ document # NoManifest /\ ~damaged /\ damaged' = TRUE
      /\ UNCHANGED <<manifest, granted, redigested>>
  BY DEF DamageDocument
<1>2. PICK j \in DOMAIN document.checkpoints :
       \/ document' = [document EXCEPT !.checkpoints = Without(@, j)]
       \/ \E k \in DOMAIN document.checkpoints[j].attestations :
            document' = [document EXCEPT !.checkpoints[j].attestations = Without(@, k)]
  BY DEF DamageDocument
<1> DEFINE cps == document.checkpoints
<1>3. /\ document \in Manifests /\ cps \in Seq(AnchorCheckpoints)
      /\ \A i \in DOMAIN cps : Genuine(cps[i])
      /\ ~redigested /\ document.digest = CheckpointDigest(cps)
  BY <1>1 DEF AnchorsInv, ManifestSound, Manifests
<1>4. ASSUME NEW cut \in Seq(AnchorCheckpoints), cut # cps, \A i \in DOMAIN cut : Genuine(cut[i]),
             document' = [document EXCEPT !.checkpoints = cut]
      PROVE  AnchorsInv'
  <2>1. document' \in Manifests /\ document'.checkpoints = cut /\ document'.digest = CheckpointDigest(cps)
    BY <1>3, <1>4 DEF Manifests
  <2>2. CheckpointDigest(cps) # CheckpointDigest(cut)
    BY <1>4 DEF CheckpointDigest
  <2>3. document' # NoManifest
    BY <2>1, AnchorsAssumption
  <2> QED BY <1>1, <1>3, <1>4, <2>1, <2>2, <2>3 DEF AnchorsInv, ManifestSound
<1>5. CASE document' = [document EXCEPT !.checkpoints = Without(@, j)]
  <2> DEFINE cut == Without(cps, j)
  <2>1. cut \in Seq(AnchorCheckpoints) /\ cut # cps /\ \A i \in DOMAIN cut : \E k \in DOMAIN cps : cut[i] = cps[k]
    <3> HIDE DEF cps
    <3> QED BY <1>2, <1>3, CutFront DEF cps
  <2>2. document' = [document EXCEPT !.checkpoints = cut]
    BY <1>5
  <2>3. \A i \in DOMAIN cut : Genuine(cut[i])
    <3> HIDE DEF cut, cps
    <3> QED BY <1>3, <2>1
  <2> HIDE DEF cut
  <2> QED BY <1>4, <2>1, <2>2, <2>3
<1>6. ASSUME NEW k \in DOMAIN cps[j].attestations,
             document' = [document EXCEPT !.checkpoints[j].attestations = Without(@, k)]
      PROVE  AnchorsInv'
  <2> DEFINE atts == Without(cps[j].attestations, k)
             cp == [cps[j] EXCEPT !.attestations = atts]
             cut == [cps EXCEPT ![j] = cp]
  <2>1. cps[j] \in AnchorCheckpoints /\ cps[j].attestations \in Seq(AnchorAttestations) /\ Genuine(cps[j])
    <3>1. j \in DOMAIN cps
      BY <1>2
    <3> HIDE DEF cps
    <3>2. cps[j] \in AnchorCheckpoints /\ Genuine(cps[j])
      BY <1>3, <3>1
    <3> QED BY <3>2 DEF AnchorCheckpoints
  <2>2. /\ atts \in Seq(AnchorAttestations) /\ Len(atts) = Len(cps[j].attestations) - 1
        /\ atts # cps[j].attestations
        /\ \A i \in DOMAIN atts : \E l \in DOMAIN cps[j].attestations : atts[i] = cps[j].attestations[l]
    BY <1>6, <2>1, CutFront
  <2>3. document' = [document EXCEPT !.checkpoints = cut]
    BY <1>3, <1>6 DEF Manifests
  <2> HIDE DEF atts
  <2>4. cp \in AnchorCheckpoints /\ cp.attestations = atts /\ cp.sha = cps[j].sha /\ cp.receipt = cps[j].receipt
    BY <2>1, <2>2 DEF AnchorCheckpoints
  <2> HIDE DEF cp
  <2>5. Genuine(cp)
    BY <2>1, <2>2, <2>4 DEF Genuine
  <2>6. cut \in Seq(AnchorCheckpoints) /\ cut[j] = cp /\ DOMAIN cut = DOMAIN cps
        /\ \A i \in DOMAIN cps \ {j} : cut[i] = cps[i]
    BY <1>2, <1>3, <2>4
  <2>7. cut # cps
    BY <2>2, <2>4, <2>6
  <2>8. \A i \in DOMAIN cut : Genuine(cut[i])
    BY <1>3, <2>5, <2>6
  <2> HIDE DEF cut, cps
  <2> QED BY <1>4, <2>3, <2>6, <2>7, <2>8
<1> QED BY <1>2, <1>5, <1>6

\* An upgrade completes the proofs of one attestor, wherever they are.
LEMMA UpgradesCheckpoint ==
  ASSUME NEW cp \in AnchorCheckpoints, Genuine(cp), NEW upgrader
  PROVE  LET up == Upgraded(cp, upgrader)
         IN  /\ up \in AnchorCheckpoints /\ Genuine(up) /\ up.receipt = cp.receipt
             /\ DOMAIN up.attestations = DOMAIN cp.attestations
             /\ \A k \in DOMAIN cp.attestations :
                  /\ up.attestations[k].attestor = cp.attestations[k].attestor
                  /\ up.attestations[k].status =
                       IF cp.attestations[k].attestor = upgrader THEN "confirmed"
                       ELSE cp.attestations[k].status
<1> DEFINE old == cp.attestations
           new == [k \in DOMAIN old |-> IF old[k].attestor = upgrader THEN UpgradeAttestation(old[k]) ELSE old[k]]
           up == Upgraded(cp, upgrader)
<1>1. old \in Seq(AnchorAttestations) /\ cp.sha \in Shas /\ cp.sha = <<"sha", cp.receipt>>
  BY DEF AnchorCheckpoints, Genuine
<1>2. up = [cp EXCEPT !.attestations = new]
  BY DEF Upgraded, AnchorCheckpoints
<1>3. \A k \in DOMAIN old :
        /\ old[k] \in AnchorAttestations /\ old[k] = Attestation(old[k].attestor, old[k].status, cp.sha)
        /\ old[k].status = "pending" => old[k].attestor \in Upgrader
  BY <1>1 DEF Genuine
<1>4. new = [k \in DOMAIN old |-> new[k]]
      /\ \A k \in DOMAIN old : new[k] = IF old[k].attestor = upgrader THEN UpgradeAttestation(old[k]) ELSE old[k]
  OBVIOUS
<1> HIDE DEF old, new, up
<1>5. ASSUME NEW k \in DOMAIN old
      PROVE  /\ new[k] \in AnchorAttestations /\ new[k] = Attestation(new[k].attestor, new[k].status, cp.sha)
             /\ new[k].attestor = old[k].attestor
             /\ new[k].status = IF old[k].attestor = upgrader THEN "confirmed" ELSE old[k].status
             /\ new[k].status = "pending" => new[k].attestor \in Upgrader
  <2>1. CASE new[k] = old[k] /\ old[k].attestor # upgrader
    BY <1>3, <1>5, <2>1
  <2>2. CASE old[k].attestor = upgrader /\ old[k].status = "pending"
    <3>1. new[k] = Attestation(old[k].attestor, "confirmed", old[k].digest)
      BY <1>4, <2>2 DEF UpgradeAttestation
    <3>2. old[k].attestor \in Attestor /\ old[k].digest = cp.sha
      BY <1>3 DEF Attestation, AnchorAttestations
    <3>3. AnchorProof(old[k].attestor, "confirmed", cp.sha) \in AnchorProofs
      BY <1>1, <3>2 DEF AnchorProof, AnchorProofs
    <3> QED BY <1>1, <2>2, <3>1, <3>2, <3>3 DEF Attestation, AnchorAttestations
  <2>3. CASE old[k].attestor = upgrader /\ old[k].status # "pending"
    <3>1. new[k] = old[k]
      BY <1>4, <2>3 DEF UpgradeAttestation
    <3>2. old[k].status = "confirmed"
      BY <1>3, <2>3 DEF AnchorAttestations
    <3> QED BY <1>3, <2>3, <3>1, <3>2
  <2> QED BY <1>4, <2>1, <2>2, <2>3
<1>6. new \in Seq(AnchorAttestations) /\ DOMAIN new = DOMAIN old
  BY <1>1, <1>4, <1>5, MapSeq
<1>7. up \in AnchorCheckpoints /\ up.attestations = new /\ up.sha = cp.sha /\ up.receipt = cp.receipt
  BY <1>2, <1>6 DEF AnchorCheckpoints
<1>8. Genuine(up)
  BY <1>1, <1>5, <1>6, <1>7 DEF Genuine
<1> QED BY <1>5, <1>6, <1>7, <1>8 DEF up, old

LEMMA UpgradeKeeps == ASSUME AnchorsInv, NEW upgrader \in Upgrader, UpgradeWith(upgrader) PROVE AnchorsInv'
<1> DEFINE old == manifest.checkpoints
           new == [j \in DOMAIN old |-> Upgraded(old[j], upgrader)]
           m == BuildManifest(new)
<1>1. /\ manifest # NoManifest /\ manifest' = m /\ redigested' = (redigested \/ damaged)
      /\ UNCHANGED <<document, damaged>>
      /\ granted' = {<<g[1], g[2], IF g[2] = upgrader THEN "confirmed" ELSE g[3]>> : g \in granted}
  BY DEF UpgradeWith, UpgradeManifest
<1>2. manifest \in Manifests /\ old \in Seq(AnchorCheckpoints) /\ \A j \in DOMAIN old : Genuine(old[j])
  BY <1>1 DEF AnchorsInv, ManifestSound, Manifests
<1>3. \A j \in DOMAIN old : old[j] \in AnchorCheckpoints /\ new[j] = Upgraded(old[j], upgrader)
  BY <1>2
<1>4. new = [j \in DOMAIN old |-> new[j]]
  OBVIOUS
<1> HIDE DEF old, new
<1>5. \A j \in DOMAIN old :
        /\ new[j] \in AnchorCheckpoints /\ Genuine(new[j]) /\ new[j].receipt = old[j].receipt
        /\ DOMAIN new[j].attestations = DOMAIN old[j].attestations
        /\ \A k \in DOMAIN old[j].attestations :
             /\ new[j].attestations[k].attestor = old[j].attestations[k].attestor
             /\ new[j].attestations[k].status =
                  IF old[j].attestations[k].attestor = upgrader THEN "confirmed"
                  ELSE old[j].attestations[k].status
  BY <1>2, <1>3, UpgradesCheckpoint
<1>6. new \in Seq(AnchorCheckpoints) /\ DOMAIN new = DOMAIN old
  BY <1>2, <1>4, <1>5, MapSeq
<1>7. m \in Manifests /\ m.checkpoints = new /\ m.digest = CheckpointDigest(new) /\ m # NoManifest
  BY <1>6, Builds, AnchorsAssumption
<1> HIDE DEF m
<1>8. ~redigested' => ~damaged'
  BY <1>1
<1>9. ManifestSound(manifest)' /\ ManifestSound(document)'
  BY <1>1, <1>5, <1>6, <1>7, <1>8 DEF AnchorsInv, ManifestSound
<1>10. ASSUME ~damaged PROVE Complete(m, granted')
  <2>1. Complete(manifest, granted)
    BY <1>1, <1>10 DEF AnchorsInv
  <2>2. ASSUME NEW j \in DOMAIN new, NEW k \in DOMAIN new[j].attestations
        PROVE  /\ j \in DOMAIN old /\ k \in DOMAIN old[j].attestations
               /\ GrantAt(m, j, k) = LET g == GrantAt(manifest, j, k)
                    IN <<g[1], g[2], IF g[2] = upgrader THEN "confirmed" ELSE g[3]>>
    BY <1>5, <1>6, <1>7 DEF GrantAt, old
  <2>3. \A j \in DOMAIN new : \A k \in DOMAIN new[j].attestations : GrantAt(m, j, k) \in granted'
    BY <1>1, <2>1, <2>2 DEF Complete, old
  <2>4. ASSUME NEW g \in granted PROVE
          \E j \in DOMAIN new : \E k \in DOMAIN new[j].attestations :
            <<g[1], g[2], IF g[2] = upgrader THEN "confirmed" ELSE g[3]>> = GrantAt(m, j, k)
    <3>1. PICK j \in DOMAIN old : \E k \in DOMAIN old[j].attestations : g = GrantAt(manifest, j, k)
      BY <2>1 DEF Complete, old
    <3>2. PICK k \in DOMAIN old[j].attestations : g = GrantAt(manifest, j, k)
      BY <3>1
    <3>3. j \in DOMAIN new /\ k \in DOMAIN new[j].attestations
      BY <1>5, <1>6
    <3> QED BY <2>2, <3>2, <3>3
  <2>5. \A i, j \in DOMAIN new : new[i].receipt = new[j].receipt => i = j
    BY <1>5, <1>6, <2>1 DEF Complete, old
  <2>6. \A j \in DOMAIN new : \A k, l \in DOMAIN new[j].attestations :
          new[j].attestations[k].attestor = new[j].attestations[l].attestor => k = l
    BY <1>5, <1>6, <2>1 DEF Complete, old
  <2> QED BY <1>1, <1>7, <2>3, <2>4, <2>5, <2>6 DEF Complete
<1> QED BY <1>1, <1>7, <1>9, <1>10 DEF AnchorsInv

LEMMA AnchorsKeeps == ASSUME AnchorsInv, AnchorsNext PROVE AnchorsInv'
<1>1. CASE WriteDocument
  BY <1>1 DEF WriteDocument, AnchorsInv, ManifestSound, Complete, GrantAt
<1>2. CASE ReadDocument
  BY <1>2 DEF ReadDocument, AnchorsInv, ManifestSound, Complete, GrantAt
<1> QED BY <1>1, <1>2, BuildKeeps, DamageKeeps, UpgradeKeeps DEF AnchorsNext

LEMMA AnchorsStarts == ASSUME AnchorsInit PROVE AnchorsInv
  BY DEF AnchorsInit, AnchorsInv, ManifestSound

-----------------------------------------------------------------------------
\* As many elements, if each of T is the image of exactly one of S.
LEMMA AsMany ==
  ASSUME NEW S, NEW T, IsFiniteSet(S), NEW f \in [S -> T],
         \A a, b \in S : f[a] = f[b] => a = b, \A t \in T : \E a \in S : f[a] = t
  PROVE  IsFiniteSet(T) /\ Cardinality(T) = Cardinality(S)
<1>1. f \in Bijection(S, T)
  BY DEF Bijection, Injection, Surjection, IsInjective
<1> QED BY <1>1, FS_Bijection DEF ExistsBijection

\* The places of a manifest's attestations are finitely many.
AttestationPlaces(m) == UNION {{j} \X DOMAIN m.checkpoints[j].attestations : j \in DOMAIN m.checkpoints}

LEMMA IndexesFinite == ASSUME NEW S, NEW s \in Seq(S) PROVE IsFiniteSet(DOMAIN s)
  BY FS_Interval

LEMMA PlacesFinite ==
  ASSUME NEW m \in Manifests
  PROVE  IsFiniteSet(DOMAIN m.checkpoints) /\ IsFiniteSet(AttestationPlaces(m))
<1> DEFINE cps == m.checkpoints
           of == [j \in DOMAIN cps |-> {j} \X DOMAIN cps[j].attestations]
<1>1. cps \in Seq(AnchorCheckpoints)
  BY DEF Manifests
<1>2. IsFiniteSet(DOMAIN cps)
  BY <1>1, IndexesFinite
<1>3. ASSUME NEW j \in DOMAIN cps PROVE IsFiniteSet({j} \X DOMAIN cps[j].attestations)
  <2>0. cps[j] \in AnchorCheckpoints
    <3> HIDE DEF cps
    <3> QED BY <1>1, <1>3
  <2>1. cps[j].attestations \in Seq(AnchorAttestations)
    BY <2>0 DEF AnchorCheckpoints
  <2>2. IsFiniteSet(DOMAIN cps[j].attestations) /\ IsFiniteSet({j})
    BY <2>1, IndexesFinite, FS_Singleton
  <2> QED BY <2>2, FS_Product
<1>4. IsFiniteSet({of[j] : j \in DOMAIN cps})
  <2> DEFINE sets == {of[j] : j \in DOMAIN cps}
  <2>1. of \in Surjection(DOMAIN cps, sets)
    BY DEF Surjection
  <2> HIDE DEF of, sets
  <2>2. IsFiniteSet(sets)
    BY <1>2, <2>1, FS_Surjection
  <2> QED BY <2>2 DEF sets
<1>5. \A T \in {of[j] : j \in DOMAIN cps} : IsFiniteSet(T)
  BY <1>3
<1>6. IsFiniteSet(UNION {of[j] : j \in DOMAIN cps})
  <2> HIDE DEF of, cps
  <2> QED BY <1>4, <1>5, FS_UNION
<1>7. UNION {of[j] : j \in DOMAIN cps} = AttestationPlaces(m)
  BY DEF AttestationPlaces
<1> QED BY <1>2, <1>6, <1>7

ClientChoices == [Attestor -> {"none", "offline", "network"}]

\* What a client says of a genuine attestation.
LEMMA StatusOf ==
  ASSUME NEW cp \in AnchorCheckpoints, Genuine(cp), NEW clients \in ClientChoices,
         NEW k \in DOMAIN cp.attestations
  PROVE  LET att == cp.attestations[k]
             status == AttestationStatus(cp, k, clients)
         IN  /\ att.attestor \in Attestor
             /\ status = "confirmed" <=> clients[att.attestor] = "offline" /\ att.status = "confirmed"
             /\ status = "pending" <=> clients[att.attestor] \in {"offline", "network"} /\ att.status = "pending"
             /\ status # "failed"
<1> DEFINE att == cp.attestations[k]
<1>1. att \in AnchorAttestations
  BY DEF AnchorCheckpoints
<1>2. att = Attestation(att.attestor, att.status, cp.sha) /\ (att.status = "pending" => att.attestor \in Upgrader)
  BY DEF Genuine
<1>3. /\ att.attestor \in Attestor /\ att.status \in {"pending", "confirmed"} /\ att.digest = cp.sha
      /\ att.proof.attestor = att.attestor /\ att.proof.digest = cp.sha /\ att.proof.status = att.status
  BY <1>1, <1>2 DEF Attestation, AnchorProof, AnchorAttestations
<1>4. clients[att.attestor] \in {"none", "offline", "network"}
  BY <1>3 DEF ClientChoices
<1>5. AttestationStatus(cp, k, clients) =
        CASE clients[att.attestor] = "offline" -> VerifyOffline(att.attestor, att, cp.sha)
          [] clients[att.attestor] = "network" -> VerifyLive(att.attestor, att, cp.sha)
          [] clients[att.attestor] = "none"    -> "inconclusive"
  BY DEF AttestationStatus
<1> HIDE DEF att
<1>6. VerifyOffline(att.attestor, att, cp.sha) = att.status
  BY <1>3 DEF VerifyOffline
<1>7. VerifyLive(att.attestor, att, cp.sha) = IF att.status = "pending" THEN "pending" ELSE "inconclusive"
  BY <1>2, <1>3 DEF VerifyLive
<1> QED BY <1>3, <1>4, <1>5, <1>6, <1>7 DEF att

LEMMA AnchorsSay == ASSUME AnchorsInv PROVE ManifestAgrees
<1> DEFINE m == manifest
<1> SUFFICES ASSUME manifest # NoManifest, NEW clients \in ClientChoices
             PROVE  LET result == VerifyManifest(manifest, clients)
                    IN  /\ ~redigested => (result.bad = 0 <=> ~damaged)
                        /\ ~damaged =>
                             /\ result.ok = Cardinality({g[1] : g \in Known(clients, {"offline"}, "confirmed")})
                             /\ result.pending = Cardinality(Known(clients, {"offline", "network"}, "pending"))
  BY DEF ManifestAgrees, ClientChoices
<1>1. /\ m \in Manifests /\ \A j \in DOMAIN m.checkpoints : Genuine(m.checkpoints[j])
      /\ ~redigested => (m.digest = CheckpointDigest(m.checkpoints) <=> ~damaged)
      /\ ~damaged => Complete(m, granted)
  BY DEF AnchorsInv, ManifestSound
<1> HIDE DEF m
<1>2. \A j \in DOMAIN m.checkpoints : m.checkpoints[j] \in AnchorCheckpoints
  <2>1. m.checkpoints \in Seq(AnchorCheckpoints)
    BY <1>1 DEF Manifests
  <2> QED BY <2>1
<1>3. \A j \in DOMAIN m.checkpoints : \A k \in DOMAIN m.checkpoints[j].attestations :
        LET att == m.checkpoints[j].attestations[k]
            status == AttestationStatus(m.checkpoints[j], k, clients)
        IN  /\ att.attestor \in Attestor
            /\ status = "confirmed" <=> clients[att.attestor] = "offline" /\ att.status = "confirmed"
            /\ status = "pending" <=> clients[att.attestor] \in {"offline", "network"} /\ att.status = "pending"
            /\ status # "failed"
  BY <1>1, <1>2, StatusOf
<1>4. ASSUME NEW status
      PROVE  /\ IsFiniteSet(WithStatus(m, clients, status))
             /\ \A at \in WithStatus(m, clients, status) :
                  /\ at = <<at[1], at[2]>> /\ at[1] \in DOMAIN m.checkpoints
                  /\ at[2] \in DOMAIN m.checkpoints[at[1]].attestations
                  /\ AttestationStatus(m.checkpoints[at[1]], at[2], clients) = status
             /\ \A j \in DOMAIN m.checkpoints : \A k \in DOMAIN m.checkpoints[j].attestations :
                  AttestationStatus(m.checkpoints[j], k, clients) = status => <<j, k>> \in WithStatus(m, clients, status)
  <2>1. WithStatus(m, clients, status) =
          {at \in AttestationPlaces(m) : AttestationStatus(m.checkpoints[at[1]], at[2], clients) = status}
    BY DEF WithStatus, AttestationPlaces
  <2>2. IsFiniteSet(WithStatus(m, clients, status))
    BY <1>1, <2>1, PlacesFinite, FS_Subset
  <2>3. \A at \in AttestationPlaces(m) :
          /\ at = <<at[1], at[2]>> /\ at[1] \in DOMAIN m.checkpoints
          /\ at[2] \in DOMAIN m.checkpoints[at[1]].attestations
    BY DEF AttestationPlaces
  <2>4. \A j \in DOMAIN m.checkpoints : \A k \in DOMAIN m.checkpoints[j].attestations : <<j, k>> \in AttestationPlaces(m)
    BY DEF AttestationPlaces
  <2> QED BY <2>1, <2>2, <2>3, <2>4
<1>5. WithStatus(m, clients, "failed") = {}
  BY <1>3, <1>4
<1>6. VerifyManifest(m, clients).bad = IF m.digest = CheckpointDigest(m.checkpoints) THEN 0 ELSE 1
  BY <1>5, FS_EmptySet DEF VerifyManifest
<1>7. ASSUME ~damaged
      PROVE  Cardinality({p[1] : p \in WithStatus(m, clients, "confirmed")})
               = Cardinality({g[1] : g \in Known(clients, {"offline"}, "confirmed")})
  <2> DEFINE S == {p[1] : p \in WithStatus(m, clients, "confirmed")}
             T == {g[1] : g \in Known(clients, {"offline"}, "confirmed")}
             f == [j \in S |-> m.checkpoints[j].receipt]
  <2>1. Complete(m, granted)
    BY <1>1, <1>7
  <2>2. \A j \in S : j \in DOMAIN m.checkpoints /\ \E k \in DOMAIN m.checkpoints[j].attestations :
                       AttestationStatus(m.checkpoints[j], k, clients) = "confirmed"
    BY <1>4
  <2>3. IsFiniteSet(S)
    <3>1. S \in SUBSET (DOMAIN m.checkpoints)
      BY <2>2
    <3> QED BY <1>1, <3>1, PlacesFinite, FS_Subset
  <2>4. ASSUME NEW j \in S PROVE m.checkpoints[j].receipt \in T
    <3>1. PICK k \in DOMAIN m.checkpoints[j].attestations :
            AttestationStatus(m.checkpoints[j], k, clients) = "confirmed"
      BY <2>2
    <3>2. /\ clients[m.checkpoints[j].attestations[k].attestor] = "offline"
          /\ m.checkpoints[j].attestations[k].status = "confirmed"
      BY <1>3, <2>2, <3>1
    <3>3. GrantAt(m, j, k) \in granted
      BY <2>1, <2>2 DEF Complete
    <3>4. GrantAt(m, j, k) \in Known(clients, {"offline"}, "confirmed") /\ GrantAt(m, j, k)[1] = m.checkpoints[j].receipt
      BY <3>2, <3>3 DEF Known, GrantAt
    <3> QED BY <3>4
  <2>5. ASSUME NEW t \in T PROVE \E j \in S : m.checkpoints[j].receipt = t
    <3>1. PICK g \in granted : clients[g[2]] = "offline" /\ g[3] = "confirmed" /\ t = g[1]
      BY DEF Known
    <3>2. PICK j \in DOMAIN m.checkpoints : \E k \in DOMAIN m.checkpoints[j].attestations : g = GrantAt(m, j, k)
      BY <2>1 DEF Complete
    <3>3. PICK k \in DOMAIN m.checkpoints[j].attestations : g = GrantAt(m, j, k)
      BY <3>2
    <3>4. AttestationStatus(m.checkpoints[j], k, clients) = "confirmed" /\ t = m.checkpoints[j].receipt
      BY <1>3, <3>1, <3>3 DEF GrantAt
    <3>5. <<j, k>> \in WithStatus(m, clients, "confirmed") /\ <<j, k>>[1] = j
      BY <1>4, <3>4
    <3> QED BY <3>4, <3>5
  <2>6. \A i, j \in S : m.checkpoints[i].receipt = m.checkpoints[j].receipt => i = j
    BY <2>1, <2>2 DEF Complete
  <2> HIDE DEF S, T
  <2>7. f \in [S -> T] /\ \A j \in S : f[j] = m.checkpoints[j].receipt
    BY <2>4
  <2> HIDE DEF f
  <2>8. Cardinality(T) = Cardinality(S)
    BY <2>3, <2>5, <2>6, <2>7, AsMany
  <2> QED BY <2>8 DEF S, T
<1>8. ASSUME ~damaged
      PROVE  Cardinality(WithStatus(m, clients, "pending"))
               = Cardinality(Known(clients, {"offline", "network"}, "pending"))
  <2> DEFINE S == WithStatus(m, clients, "pending")
             T == Known(clients, {"offline", "network"}, "pending")
             f == [at \in S |-> GrantAt(m, at[1], at[2])]
  <2>1. Complete(m, granted)
    BY <1>1, <1>8
  <2>2. IsFiniteSet(S)
    BY <1>4
  <2>3. \A at \in S : /\ at = <<at[1], at[2]>> /\ at[1] \in DOMAIN m.checkpoints
                      /\ at[2] \in DOMAIN m.checkpoints[at[1]].attestations
                      /\ AttestationStatus(m.checkpoints[at[1]], at[2], clients) = "pending"
    BY <1>4
  <2>4. ASSUME NEW at \in S PROVE GrantAt(m, at[1], at[2]) \in T
    <3>1. /\ clients[m.checkpoints[at[1]].attestations[at[2]].attestor] \in {"offline", "network"}
          /\ m.checkpoints[at[1]].attestations[at[2]].status = "pending"
      BY <1>3, <2>3
    <3>2. GrantAt(m, at[1], at[2]) \in granted
      BY <2>1, <2>3 DEF Complete
    <3> QED BY <3>1, <3>2 DEF Known, GrantAt
  <2>5. ASSUME NEW t \in T PROVE \E at \in S : GrantAt(m, at[1], at[2]) = t
    <3>1. t \in granted /\ clients[t[2]] \in {"offline", "network"} /\ t[3] = "pending"
      BY DEF Known
    <3>2. PICK j \in DOMAIN m.checkpoints : \E k \in DOMAIN m.checkpoints[j].attestations : t = GrantAt(m, j, k)
      BY <2>1, <3>1 DEF Complete
    <3>3. PICK k \in DOMAIN m.checkpoints[j].attestations : t = GrantAt(m, j, k)
      BY <3>2
    <3>4. AttestationStatus(m.checkpoints[j], k, clients) = "pending"
      BY <1>3, <3>1, <3>3 DEF GrantAt
    <3>5. <<j, k>> \in S /\ <<j, k>>[1] = j /\ <<j, k>>[2] = k
      BY <1>4, <3>4
    <3> QED BY <3>3, <3>5
  <2>6. ASSUME NEW a \in S, NEW b \in S, GrantAt(m, a[1], a[2]) = GrantAt(m, b[1], b[2]) PROVE a = b
    <3>1. a[1] = b[1]
      BY <2>1, <2>3, <2>6 DEF Complete, GrantAt
    <3>2. a[2] = b[2]
      BY <2>1, <2>3, <2>6, <3>1 DEF Complete, GrantAt
    <3> QED BY <2>3, <3>1, <3>2
  <2> HIDE DEF S, T
  <2>7. f \in [S -> T] /\ \A at \in S : f[at] = GrantAt(m, at[1], at[2])
    BY <2>4
  <2> HIDE DEF f
  <2>8. (\A a, b \in S : f[a] = f[b] => a = b) /\ \A t \in T : \E a \in S : f[a] = t
    BY <2>5, <2>6, <2>7
  <2>9. Cardinality(T) = Cardinality(S)
    BY <2>2, <2>7, <2>8, AsMany
  <2> QED BY <2>9 DEF S, T
<1>9. /\ VerifyManifest(m, clients).ok = Cardinality({p[1] : p \in WithStatus(m, clients, "confirmed")})
      /\ VerifyManifest(m, clients).pending = Cardinality(WithStatus(m, clients, "pending"))
  BY DEF VerifyManifest
<1> QED BY <1>1, <1>6, <1>7, <1>8, <1>9 DEF m

-----------------------------------------------------------------------------
(* Proofs beside receipts *)

\* What a file beside receipt i may hold.
About(i) == {Absent, Emptied} \cup {Content(state, i) : state \in {"granted", "denied", "pending", "bitcoin"}}

CommandSound(s) ==
  /\ s = [x \in {"pc", "id", "content", "runs", "status"} |-> s[x]]
  /\ s.pc # "none" => s.id \in 1..issued
  /\ s.pc \in {"opentsr", "writetsr"} => s.content \in About(s.id)

\* Every id in the vault has been issued, and what is kept beside a receipt is
\* kept beside one that was issued.
SidecarInv ==
  /\ issued \in 0..MaxId /\ DOMAIN chain = Namespaces
  /\ \A n \in Namespaces : chain[n] \in Seq(1..issued)
  /\ tsr = [i \in 1..MaxId |-> tsr[i]] /\ ots = [i \in 1..MaxId |-> ots[i]]
  /\ command = [c \in Command |-> command[c]]
  /\ \A c \in Command : CommandSound(command[c])
  /\ \A i \in 1..MaxId :
       /\ tsr[i] \in About(i) /\ ots[i] \in About(i)
       /\ tsr[i] # Absent \/ ots[i] # Absent => i \in 1..issued
       /\ i \in completed => ots[i] = Content("bitcoin", i)

LEMMA SidecarGrows == ASSUME MaxId \in Nat, SidecarInv, LedgerNext, UNCHANGED sidecarVars PROVE SidecarInv'
<1>1. ASSUME NEW n \in Namespaces, Extend(n) PROVE SidecarInv'
  <2>1. /\ issued' = issued + 1 /\ issued' \in 0..MaxId /\ 1..issued \subseteq 1..issued'
        /\ issued' \in 1..issued'
        /\ chain' = [chain EXCEPT ![n] = Append(@, issued')]
    BY <1>1 DEF Extend, SidecarInv
  <2>2. \A m \in Namespaces : chain[m] \in Seq(1..issued')
    BY <2>1, LongerSeq DEF SidecarInv
  <2>3. Append(chain[n], issued') \in Seq(1..issued')
    BY <2>1, <2>2
  <2>4. DOMAIN chain' = Namespaces /\ \A m \in Namespaces : chain'[m] \in Seq(1..issued')
    BY <2>1, <2>2, <2>3 DEF SidecarInv
  <2>5. UNCHANGED <<tsr, ots, command, completed>>
    BY DEF sidecarVars
  <2>6. \A c \in Command : CommandSound(command[c])'
    BY <2>1, <2>5 DEF SidecarInv, CommandSound, About, Content
  <2>7. \A i \in 1..MaxId : About(i)' = About(i) /\ Content("bitcoin", i)' = Content("bitcoin", i)
    BY DEF About, Content
  <2> QED BY <2>1, <2>4, <2>5, <2>6, <2>7 DEF SidecarInv
<1>2. ASSUME NEW n \in Namespaces, Drop(n) PROVE SidecarInv'
  <2>1. issued' = issued /\ chain' = [chain EXCEPT ![n] = <<>>] /\ <<>> \in Seq(1..issued)
    BY <1>2 DEF Drop
  <2>2. UNCHANGED <<tsr, ots, command, completed>>
    BY DEF sidecarVars
  <2>3. ASSUME NEW r, CommandSound(r) PROVE CommandSound(r)'
    BY <2>1, <2>3 DEF CommandSound, About, Content
  <2>4. \A c \in Command : CommandSound(command[c])'
    BY <2>2, <2>3 DEF SidecarInv
  <2> QED BY <2>1, <2>2, <2>4 DEF SidecarInv, About, Content
<1> QED BY <1>1, <1>2 DEF LedgerNext

\* A command goes on, and at most the files of one receipt change.
LEMMA CommandMoves ==
  ASSUME MaxId \in Nat, SidecarInv, NEW c \in Command, NEW s, CommandBecomes(c, s), CommandSound(s),
         NEW i \in 1..issued, NEW file \in About(i), NEW proof \in About(i),
         UNCHANGED <<chain, issued>>,
         tsr' = [tsr EXCEPT ![i] = file], ots' = [ots EXCEPT ![i] = proof],
         completed' \ {i} \subseteq completed,
         i \in completed' => proof = Content("bitcoin", i)
  PROVE  SidecarInv'
<1>1. i \in 1..MaxId /\ issued' = issued /\ chain' = chain
  BY DEF SidecarInv
<1>2. /\ command' = [d \in Command |-> command'[d]] /\ command'[c] = s
      /\ \A d \in Command \ {c} : command'[d] = command[d]
  BY DEF SidecarInv, CommandBecomes
<1>3. \A d \in Command : CommandSound(command[d])'
  <2>1. ASSUME NEW r, CommandSound(r) PROVE CommandSound(r)'
    BY <1>1, <2>1 DEF CommandSound, About, Content
  <2> QED BY <1>2, <2>1 DEF SidecarInv
<1>4. /\ tsr' = [j \in 1..MaxId |-> tsr'[j]] /\ tsr'[i] = file /\ \A j \in 1..MaxId \ {i} : tsr'[j] = tsr[j]
      /\ ots' = [j \in 1..MaxId |-> ots'[j]] /\ ots'[i] = proof /\ \A j \in 1..MaxId \ {i} : ots'[j] = ots[j]
  BY <1>1 DEF SidecarInv
<1>5. ASSUME NEW j \in 1..MaxId
      PROVE  /\ tsr'[j] \in About(j) /\ ots'[j] \in About(j)
             /\ tsr'[j] # Absent \/ ots'[j] # Absent => j \in 1..issued
             /\ j \in completed' => ots'[j] = Content("bitcoin", j)
  <2>1. CASE j = i
    BY <1>1, <1>4, <2>1 DEF SidecarInv
  <2>2. CASE j # i
    BY <1>1, <1>4, <2>2 DEF SidecarInv
  <2> QED BY <2>1, <2>2
<1> HIDE DEF About, Content
<1> QED BY <1>1, <1>2, <1>3, <1>4, <1>5 DEF SidecarInv

\* A command goes on, and no file changes.
LEMMA CommandStays ==
  ASSUME SidecarInv, NEW c \in Command, NEW s, CommandBecomes(c, s), CommandSound(s),
         UNCHANGED <<chain, issued, tsr, ots, completed>>
  PROVE  SidecarInv'
<1>1. /\ command' = [d \in Command |-> command'[d]] /\ command'[c] = s
      /\ \A d \in Command \ {c} : command'[d] = command[d]
  BY DEF SidecarInv, CommandBecomes
<1>2. ASSUME NEW r, CommandSound(r) PROVE CommandSound(r)'
  BY <1>2 DEF CommandSound, About, Content
<1>3. \A d \in Command : CommandSound(command[d])'
  BY <1>1, <1>2 DEF SidecarInv
<1> QED BY <1>1, <1>3 DEF SidecarInv, About, Content

LEMMA SidecarKeeps ==
  ASSUME MaxId \in Nat, SidecarInv, SidecarNext, UNCHANGED <<chain, issued>> PROVE SidecarInv'
<1> PICK c \in Command :
      \/ \E i \in 1..MaxId, pc \in {"post", "openots"} : BeginCommand(c, pc, i)
      \/ PostTsa(c) \/ OpenTsr(c) \/ WriteTsr(c) \/ OpenOts(c) \/ WritePending(c)
      \/ \E i \in 1..MaxId : UpgradeOts(c, i)
      \/ KillCommand(c)
  BY DEF SidecarNext
<1> USE DEF CommandAt
<1>0. /\ CommandSound(command[c])
      /\ \A i \in 1..MaxId : tsr[i] \in About(i) /\ ots[i] \in About(i)
      /\ tsr = [i \in 1..MaxId |-> tsr[i]] /\ ots = [i \in 1..MaxId |-> ots[i]]
      /\ issued \in 0..MaxId
  BY DEF SidecarInv
<1>i. command[c].pc # "none" => command[c].id \in 1..issued /\ command[c].id \in 1..MaxId
  BY <1>0 DEF CommandSound
<1>a. ASSUME NEW i \in 1..MaxId PROVE [tsr EXCEPT ![i] = tsr[i]] = tsr /\ [ots EXCEPT ![i] = ots[i]] = ots
  BY <1>0
<1>e. ASSUME NEW status, NEW r PROVE CommandSound([NoCommand EXCEPT !.runs = r, !.status = status])
  BY DEF CommandSound, NoCommand
<1>1. ASSUME NEW i \in 1..MaxId, NEW pc \in {"post", "openots"}, BeginCommand(c, pc, i) PROVE SidecarInv'
  <2>1. PICK r : r = command[c].runs + 1
    OBVIOUS
  <2>2. CommandBecomes(c, IF GetReceipt(i) THEN [NoCommand EXCEPT !.runs = r, !.pc = pc, !.id = i]
                          ELSE [NoCommand EXCEPT !.runs = r, !.status = 1])
    BY <1>1, <2>1 DEF BeginCommand, NoCommand
  <2>3. GetReceipt(i) => i \in 1..issued
    BY DEF GetReceipt, SidecarInv
  <2>4. GetReceipt(i) => CommandSound([NoCommand EXCEPT !.runs = r, !.pc = pc, !.id = i])
    BY <2>3 DEF CommandSound, NoCommand
  <2>5. UNCHANGED <<tsr, ots, completed>>
    BY <1>1 DEF BeginCommand
  <2> QED BY <1>e, <2>2, <2>4, <2>5, CommandStays
<1>2. CASE PostTsa(c)
  <2>1. CASE Exits(c, 1)
    BY <1>2, <1>e, <2>1, CommandStays DEF PostTsa, Exits
  <2>2. ASSUME NEW state \in {"granted", "denied"},
               CommandBecomes(c, [command[c] EXCEPT !.pc = "opentsr", !.content = Content(state, command[c].id)])
        PROVE  SidecarInv'
    <3>1. PICK s : s = [command[c] EXCEPT !.pc = "opentsr", !.content = Content(state, command[c].id)]
      OBVIOUS
    <3>2. CommandSound(s)
      BY <1>0, <1>2, <1>i, <3>1 DEF PostTsa, CommandSound, About
    <3> QED BY <1>2, <2>2, <3>1, <3>2, CommandStays DEF PostTsa
  <2> QED BY <1>2, <2>1, <2>2 DEF PostTsa
<1>3. CASE OpenTsr(c)
  <2>1. PICK s, i : s = [command[c] EXCEPT !.pc = "writetsr"] /\ i = command[c].id
    OBVIOUS
  <2>2. CommandSound(s) /\ i \in 1..issued /\ i \in 1..MaxId
    BY <1>0, <1>3, <1>i, <2>1 DEF OpenTsr, CommandSound
  <2>3. /\ CommandBecomes(c, s) /\ tsr' = [tsr EXCEPT ![i] = Emptied] /\ ots' = [ots EXCEPT ![i] = ots[i]]
        /\ completed' = completed /\ Emptied \in About(i)
    BY <1>3, <1>a, <2>1, <2>2 DEF OpenTsr, About
  <2>4. i \in completed' => ots[i] = Content("bitcoin", i)
    BY <2>2, <2>3 DEF SidecarInv
  <2> QED BY <1>0, <2>2, <2>3, <2>4, CommandMoves
<1>4. CASE WriteTsr(c)
  <2>1. PICK i, s : i = command[c].id /\ s = [NoCommand EXCEPT !.runs = command[c].runs, !.status = 0]
    OBVIOUS
  <2>2. CommandSound(s) /\ i \in 1..issued /\ i \in 1..MaxId /\ command[c].content \in About(i)
    BY <1>0, <1>4, <1>e, <1>i, <2>1 DEF WriteTsr, CommandSound
  <2>3. /\ CommandBecomes(c, s) /\ tsr' = [tsr EXCEPT ![i] = command[c].content] /\ ots' = [ots EXCEPT ![i] = ots[i]]
        /\ completed' = completed
    BY <1>4, <1>a, <2>1, <2>2 DEF WriteTsr, Exits
  <2>4. i \in completed' => ots[i] = Content("bitcoin", i)
    BY <2>2, <2>3 DEF SidecarInv
  <2> QED BY <1>0, <2>2, <2>3, <2>4, CommandMoves
<1>5. CASE OpenOts(c)
  <2>1. PICK s, i : s = [command[c] EXCEPT !.pc = "writeots"] /\ i = command[c].id
    OBVIOUS
  <2>2. CommandSound(s) /\ i \in 1..issued /\ i \in 1..MaxId
    BY <1>0, <1>5, <1>i, <2>1 DEF OpenOts, CommandSound
  <2>3. /\ CommandBecomes(c, s) /\ ots' = [ots EXCEPT ![i] = Emptied] /\ tsr' = [tsr EXCEPT ![i] = tsr[i]]
        /\ completed' = completed \ {i} /\ Emptied \in About(i)
    BY <1>5, <1>a, <2>1, <2>2 DEF OpenOts, About
  <2> QED BY <1>0, <2>2, <2>3, CommandMoves
<1>6. CASE WritePending(c)
  <2>1. PICK i, s : i = command[c].id /\ s = [NoCommand EXCEPT !.runs = command[c].runs, !.status = 0]
    OBVIOUS
  <2>2. CommandSound(s) /\ i \in 1..issued /\ i \in 1..MaxId /\ Content("pending", i) \in About(i)
    BY <1>0, <1>6, <1>e, <1>i, <2>1 DEF WritePending, About
  <2>3. /\ CommandBecomes(c, s) /\ ots' = [ots EXCEPT ![i] = Content("pending", i)] /\ tsr' = [tsr EXCEPT ![i] = tsr[i]]
        /\ completed' = completed \ {i}
    BY <1>6, <1>a, <2>1, <2>2 DEF WritePending, Exits
  <2> QED BY <1>0, <2>2, <2>3, CommandMoves
<1>7. ASSUME NEW i \in 1..MaxId, UpgradeOts(c, i) PROVE SidecarInv'
  <2>1. PICK r : r = command[c].runs + 1
    OBVIOUS
  <2>2. CASE CommandBecomes(c, [NoCommand EXCEPT !.runs = r, !.status = 1]) /\ UNCHANGED <<ots, completed>>
    BY <1>7, <1>e, <2>2, CommandStays DEF UpgradeOts
  <2>3. CASE /\ ots[i] = Content("pending", i)
             /\ ots' = [ots EXCEPT ![i] = Content("bitcoin", i)]
             /\ completed' = completed \cup {i}
             /\ CommandBecomes(c, [NoCommand EXCEPT !.runs = r, !.status = 0])
    <3>1. PICK s : s = [NoCommand EXCEPT !.runs = r, !.status = 0]
      OBVIOUS
    <3>2. i \in 1..issued
      <4>1. ots[i] # Absent
        BY <2>3, SidecarAssumption
      <4> QED BY <4>1 DEF SidecarInv
    <3>3. tsr' = [tsr EXCEPT ![i] = tsr[i]] /\ Content("bitcoin", i) \in About(i) /\ CommandSound(s)
      BY <1>7, <1>a, <1>e, <3>1 DEF UpgradeOts, About
    <3> QED BY <1>0, <2>3, <3>1, <3>2, <3>3, CommandMoves
  <2> QED BY <1>7, <2>1, <2>2, <2>3 DEF UpgradeOts, NoCommand
<1>8. CASE KillCommand(c)
  BY <1>8, <1>e, CommandStays DEF KillCommand, Exits
<1> QED BY <1>1, <1>2, <1>3, <1>4, <1>5, <1>6, <1>7, <1>8

LEMMA SidecarStarts == ASSUME MaxId \in Nat, SidecarInit, LedgerInit PROVE SidecarInv
  BY DEF SidecarInit, LedgerInit, SidecarInv, CommandSound, NoCommand, About

LEMMA SidecarSays == ASSUME MaxId \in Nat, SidecarInv PROVE SidecarsMatch
<1> SUFFICES ASSUME NEW i \in 1..MaxId
             PROVE  /\ \A file \in {tsr[i], ots[i]} \ {Absent, Emptied} : file.digest = <<"sha", i>>
                    /\ i > issued => {tsr[i], ots[i]} = {Absent}
                    /\ i \in completed => ots[i] = Content("bitcoin", i)
  BY DEF SidecarsMatch
<1>1. \A file \in About(i) \ {Absent, Emptied} : file.digest = <<"sha", i>>
  BY DEF About, Content
<1> QED BY <1>1 DEF SidecarInv

LEMMA SidecarSees ==
  ASSUME [PeripheryNext]_peripheryVars
  PROVE  \/ SidecarNext /\ UNCHANGED <<chain, issued>>
         \/ LedgerNext /\ UNCHANGED sidecarVars
         \/ UNCHANGED <<chain, issued, sidecarVars>>
<1>1. CASE PartStep /\ OthersRest /\ UNCHANGED <<chain, issued>>
  BY <1>1 DEF PartStep, OthersRest
<1>2. CASE LedgerNext /\ UNCHANGED sidecarVars
  BY <1>2
<1>3. CASE UNCHANGED peripheryVars
  BY <1>3 DEF peripheryVars
<1> QED BY <1>1, <1>2, <1>3 DEF PeripheryNext

-----------------------------------------------------------------------------
AnchoredInv == SidecarInv /\ TimestampInv /\ AnchorsInv

\* AnchorsHold: whatever proves the age of something is of that very thing.
THEOREM AnchorsAreOfTheirThing == PeripherySpec => []AnchorsHold
<1>0. MaxId \in Nat
  BY WitnessAssumption
<1>1. PeripheryInit => AnchoredInv
  BY <1>0, SidecarStarts, TimestampStarts, AnchorsStarts DEF PeripheryInit, AnchoredInv
<1>2. AnchoredInv /\ [PeripheryNext]_peripheryVars => AnchoredInv'
  <2> SUFFICES ASSUME AnchoredInv, [PeripheryNext]_peripheryVars PROVE AnchoredInv'
    OBVIOUS
  <2>1. SidecarInv /\ TimestampInv /\ AnchorsInv
    BY DEF AnchoredInv
  <2>2. SidecarInv'
    <3>1. CASE UNCHANGED <<chain, issued, sidecarVars>>
      BY <2>1, <3>1 DEF SidecarInv, CommandSound, sidecarVars
    <3> QED BY <1>0, <2>1, <3>1, SidecarSees, SidecarGrows, SidecarKeeps
  <2>3. TimestampInv'
    <3>1. CASE UNCHANGED timestampVars
      BY <2>1, <3>1 DEF TimestampInv, Attests, timestampVars
    <3> QED BY <2>1, <3>1, PartsSee, TimestampKeeps
  <2>4. AnchorsInv'
    <3>1. CASE UNCHANGED anchorsVars
      BY <2>1, <3>1 DEF AnchorsInv, ManifestSound, Complete, GrantAt, Genuine, anchorsVars
    <3> QED BY <2>1, <3>1, PartsSee, AnchorsKeeps
  <2> QED BY <2>2, <2>3, <2>4 DEF AnchoredInv
<1>3. AnchoredInv => AnchorsHold
  BY <1>0, SidecarSays, TimestampSays, AnchorsSay DEF AnchoredInv, AnchorsHold
<1> QED BY <1>1, <1>2, <1>3, PTL DEF PeripherySpec

-----------------------------------------------------------------------------
(* Programs that write receipts themselves *)

\* Receipts of each of the writers.
LlmTurns == [call : LlmCall, place : Nat]
Pairs == [prompt : LlmTurns, answer : LlmTurns]
ReportsSaid == [id : Nat, cid : Nat, status : {"completed", "failed"}]
WrittenReceipts ==
  [by : {"callback"}, says : Pairs] \cup [by : {"recorder"}, says : ReportsSaid]
    \cup [by : {"importer"}, says : Nat] \cup [by : {"somebody"}, says : {"something"}]

WrittenShape == written \in Seq(WrittenReceipts)

\* What is appended is the last of its writer's receipts, and the receipts of
\* the other writers stay what they were.
LEMMA AppendLeaves ==
  ASSUME WrittenShape, NEW r \in WrittenReceipts, written' = Append(written, r)
  PROVE  /\ WrittenShape'
         /\ Len(written) \in Nat /\ Len(written') = Len(written) + 1
         /\ DOMAIN written = 1..Len(written) /\ DOMAIN written' = DOMAIN written \cup {Len(written) + 1}
         /\ \A i \in DOMAIN written : written'[i] = written[i]
         /\ written'[Len(written) + 1] = r
         /\ \A by : WrittenBy(by)' = WrittenBy(by) \cup (IF r.by = by THEN {Len(written) + 1} ELSE {})
<1>1. /\ WrittenShape' /\ Len(written) \in Nat /\ Len(written') = Len(written) + 1
      /\ DOMAIN written = 1..Len(written) /\ DOMAIN written' = DOMAIN written \cup {Len(written) + 1}
      /\ \A i \in DOMAIN written : written'[i] = written[i]
      /\ written'[Len(written) + 1] = r
  BY DEF WrittenShape
<1>2. \A by : WrittenBy(by)' = WrittenBy(by) \cup (IF r.by = by THEN {Len(written) + 1} ELSE {})
  BY <1>1 DEF WrittenBy
<1> QED BY <1>1, <1>2

Untouched(by) ==
  /\ WrittenBy(by)' = WrittenBy(by)
  /\ \A i \in WrittenBy(by) : written'[i] = written[i]

LEMMA OnlyOwn ==
  ASSUME WrittenShape, NEW by, NEW says, AppendWritten(Receipt(by, says)) \/ UNCHANGED written,
         NEW other, other # by
  PROVE  Untouched(other)
<1>1. CASE UNCHANGED written
  BY <1>1 DEF Untouched, WrittenBy
<1>2. CASE AppendWritten(Receipt(by, says))
  <2>1. PICK r : r = Receipt(by, says)
    OBVIOUS
  <2>2. written \in Seq(WrittenReceipts \cup {r})
    BY LongerSeq DEF WrittenShape
  <2>3. written' = Append(written, r) /\ r.by = by
    BY <1>2, <2>1 DEF AppendWritten, Receipt
  <2>4. /\ DOMAIN written' = DOMAIN written \cup {Len(written) + 1}
        /\ \A i \in DOMAIN written : written'[i] = written[i]
        /\ written'[Len(written) + 1] = r
    BY <2>2, <2>3
  <2> QED BY <2>3, <2>4 DEF Untouched, WrittenBy
<1> QED BY <1>1, <1>2

-----------------------------------------------------------------------------
(* Callback *)

\* A call, and what it has yet to record; the answers are its own.
CallSound(s, c) ==
  /\ s = [x \in {"pc", "size", "pairs", "dropped"} |-> s[x]]
  /\ s.pc \in {"none", "running", "recording", "failed", "over"}
  /\ s.size \in Nat
  /\ s.pairs \in Seq(Pairs)
  /\ s.pc # "recording" => s.pairs = <<>>
  /\ \A j \in DOMAIN s.pairs : s.pairs[j].answer.call = c

PlacesLeft(s) == {s.pairs[j].prompt.place : j \in DOMAIN s.pairs}
PlacesRecorded(c) == {written[i].says.prompt.place : i \in PairsOf(c)}

\* A call whose prompts nobody else has touched.
CallAlone(s, c) ==
  /\ s.pc = "running" => pending = Prompts(c, s.size)
  /\ \A j \in DOMAIN s.pairs : s.pairs[j].prompt = s.pairs[j].answer
  /\ s.pc \in {"none", "running", "failed"} => PlacesRecorded(c) = {}
  /\ s.pc \in {"recording", "over"} /\ ~s.dropped =>
       PlacesRecorded(c) \cup PlacesLeft(s) = 1..s.size

\* Where calls do not overlap.
Apart ==
  /\ \A c, d \in LlmCall : LlmAt(c, "running") /\ LlmAt(d, "running") => c = d
  /\ \A i \in WrittenBy("callback") : written[i].says.prompt = written[i].says.answer
  /\ \A c \in LlmCall : CallAlone(llm[c], c)

CallbackInv ==
  /\ pending \in Seq(LlmTurns)
  /\ llm = [c \in LlmCall |-> llm[c]]
  /\ \A c \in LlmCall : CallSound(llm[c], c)
  /\ mixed \/ Apart

LEMMA CallbackStarts == ASSUME CallbackInit, WrittenInit PROVE CallbackInv /\ WrittenShape
<1>1. WrittenBy("callback") = {} /\ \A c \in LlmCall : PairsOf(c) = {}
  BY DEF WrittenInit, WrittenBy, PairsOf
<1>2. \A c \in LlmCall : PlacesRecorded(c) = {} /\ llm[c] = NotCalled
  BY <1>1 DEF PlacesRecorded, CallbackInit
<1>3. \A c \in LlmCall : CallSound(NotCalled, c) /\ CallAlone(NotCalled, c)
  BY <1>2 DEF CallSound, CallAlone, NotCalled
<1>4. Apart
  BY <1>1, <1>2, <1>3 DEF Apart, LlmAt, NotCalled
<1> QED BY <1>2, <1>3, <1>4 DEF CallbackInit, WrittenInit, CallbackInv, WrittenShape

\* The receipts of others do not matter to a callback.
LEMMA CallbackRests ==
  ASSUME WrittenShape, CallbackInv, UNCHANGED callbackVars, Untouched("callback")
  PROVE  CallbackInv'
<1>1. /\ WrittenBy("callback")' = WrittenBy("callback")
      /\ \A i \in WrittenBy("callback") : written'[i] = written[i]
  BY DEF Untouched
<1>2. \A c : PairsOf(c)' = PairsOf(c) /\ PlacesRecorded(c)' = PlacesRecorded(c)
  BY <1>1 DEF PairsOf, PlacesRecorded
<1> QED BY <1>1, <1>2 DEF CallbackInv, callbackVars, CallSound, CallAlone, Apart, PlacesLeft, LlmAt, Prompts

LEMMA PromptsAre ==
  ASSUME NEW c \in LlmCall, NEW size \in Nat
  PROVE  /\ Prompts(c, size) \in Seq(LlmTurns) /\ Len(Prompts(c, size)) = size
         /\ \A j \in 1..size : Prompts(c, size)[j] = [call |-> c, place |-> j]
<1> DEFINE p == Prompts(c, size)
<1>1. p = [j \in 1..size |-> [call |-> c, place |-> j]]
  BY DEF Prompts
<1>2. \A j \in 1..size : [call |-> c, place |-> j] \in LlmTurns
  BY DEF LlmTurns
<1> HIDE DEF p
<1>3. p \in [1..size -> LlmTurns]
  BY <1>1, <1>2
<1> QED BY <1>1, <1>3, IsASeq, LenProperties DEF p

LEMMA ZipIs ==
  ASSUME NEW p \in Seq(LlmTurns), NEW a \in Seq(LlmTurns)
  PROVE  /\ ZipPairs(p, a) \in Seq(Pairs)
         /\ Len(ZipPairs(p, a)) = IF Len(p) < Len(a) THEN Len(p) ELSE Len(a)
         /\ \A j \in DOMAIN ZipPairs(p, a) :
              j \in DOMAIN p /\ j \in DOMAIN a /\ ZipPairs(p, a)[j] = [prompt |-> p[j], answer |-> a[j]]
<1> DEFINE n == IF Len(p) < Len(a) THEN Len(p) ELSE Len(a)
           z == ZipPairs(p, a)
<1>1. z = [j \in 1..n |-> [prompt |-> p[j], answer |-> a[j]]]
  BY DEF ZipPairs
<1>2. n \in Nat /\ \A j \in 1..n : j \in DOMAIN p /\ j \in DOMAIN a
  OBVIOUS
<1> HIDE DEF n, z
<1>3. \A j \in 1..n : p[j] \in LlmTurns /\ a[j] \in LlmTurns
  BY <1>2
<1>4. \A j \in 1..n : [prompt |-> p[j], answer |-> a[j]] \in Pairs
  BY <1>3 DEF Pairs
<1>5. z \in [1..n -> Pairs]
  BY <1>1, <1>4
<1>6. z \in Seq(Pairs) /\ Len(z) = n
  BY <1>2, <1>5, IsASeq, LenProperties
<1> QED BY <1>1, <1>2, <1>5, <1>6 DEF z, n

\* A call becomes sound as long as it is; the others are what they were.
LEMMA CallMoves ==
  ASSUME CallbackInv, NEW c \in LlmCall, NEW s, LlmBecomes(c, s), CallSound(s, c),
         pending' \in Seq(LlmTurns), mixed => mixed',
         mixed' \/ Apart'
  PROVE  CallbackInv'
<1>1. /\ llm' = [d \in LlmCall |-> llm'[d]] /\ llm'[c] = s /\ \A d \in LlmCall \ {c} : llm'[d] = llm[d]
  BY DEF CallbackInv, LlmBecomes
<1>2. \A d \in LlmCall : CallSound(llm'[d], d)
  BY <1>1 DEF CallbackInv
<1> QED BY <1>1, <1>2 DEF CallbackInv, CallSound

LEMMA CallbackKeeps == ASSUME WrittenShape, CallbackInv, CallbackNext PROVE WrittenShape' /\ CallbackInv'
<1>0. CallbackAssumption /\ llm = [c \in LlmCall |-> llm[c]] /\ pending \in Seq(LlmTurns) /\ \A c \in LlmCall : CallSound(llm[c], c)
  BY CallbackAssumption DEF CallbackInv
<1>a. ASSUME NEW c \in LlmCall, NEW s, LlmBecomes(c, s)
      PROVE  llm' = [d \in LlmCall |-> llm'[d]] /\ llm'[c] = s /\ \A d \in LlmCall \ {c} : llm'[d] = llm[d]
  BY <1>0, <1>a DEF LlmBecomes
<1>u. ASSUME UNCHANGED written
      PROVE  /\ WrittenShape' /\ WrittenBy("callback")' = WrittenBy("callback")
             /\ \A i \in WrittenBy("callback") : written'[i] = written[i]
             /\ \A c : PlacesRecorded(c)' = PlacesRecorded(c)
  BY <1>u DEF WrittenShape, WrittenBy, PlacesRecorded, PairsOf
\* Alone, the prompts of the call that is running are those that are pending.
<1>b. ASSUME UNCHANGED written, NEW c \in LlmCall, NEW s, LlmBecomes(c, s), Apart,
             CallAlone(s, c)',
             s.pc = "running" \/ UNCHANGED pending \/ LlmAt(c, "running"),
             s.pc = "running" => UnderWay = {}
      PROVE  Apart'
  <2>1. llm' = [d \in LlmCall |-> llm'[d]] /\ llm'[c] = s /\ \A d \in LlmCall \ {c} : llm'[d] = llm[d]
    BY <1>a, <1>b
  <2>2. \A i \in WrittenBy("callback")' : written'[i].says.prompt = written'[i].says.answer
    BY <1>u, <1>b DEF Apart
  <2>3. \A d, e \in LlmCall : LlmAt(d, "running")' /\ LlmAt(e, "running")' => d = e
    BY <1>b, <2>1 DEF Apart, LlmAt, UnderWay
  <2>4. ASSUME NEW d \in LlmCall \ {c} PROVE CallAlone(llm[d], d)'
    <3>1. llm'[d] = llm[d] /\ CallAlone(llm[d], d)
      BY <1>b, <2>1 DEF Apart
    <3>2. llm[d].pc = "running" => UNCHANGED pending
      BY <1>b DEF Apart, LlmAt, UnderWay
    <3> QED BY <1>u, <1>b, <3>1, <3>2 DEF CallAlone, Prompts, PlacesLeft
  <2>5. CallAlone(llm[c], c)'
    BY <1>b, <2>1 DEF CallAlone, PlacesLeft, Prompts
  <2> QED BY <2>2, <2>3, <2>4, <2>5 DEF Apart
<1>1. ASSUME NEW c \in LlmCall, OnLlmStart(c), UNCHANGED written PROVE WrittenShape' /\ CallbackInv'
  <2>1. PICK size \in 1..MaxPrompts : pending' = Prompts(c, size)
                                      /\ LlmBecomes(c, [NotCalled EXCEPT !.pc = "running", !.size = size])
    BY <1>1 DEF OnLlmStart
  <2>2. PICK s : s = [NotCalled EXCEPT !.pc = "running", !.size = size]
    OBVIOUS
  <2>3. s = [x \in {"pc", "size", "pairs", "dropped"} |-> s[x]] /\ s.pc = "running" /\ s.size = size /\ s.pairs = <<>> /\ size \in Nat
    <3>1. size \in Nat
      BY <1>0 DEF CallbackAssumption
    <3>2. s = [pc |-> "running", size |-> size, pairs |-> <<>>, dropped |-> FALSE]
      BY <2>2 DEF NotCalled
    <3> QED BY <3>1, <3>2
  <2>4. CallSound(s, c) /\ pending' \in Seq(LlmTurns)
    BY <2>1, <2>3, PromptsAre DEF CallSound
  <2>5. ASSUME ~mixed' PROVE Apart'
    <3>1. ~mixed /\ UnderWay = {} /\ Apart
      BY <1>1, <2>5 DEF OnLlmStart, CallbackInv
    <3>2. PlacesRecorded(c) = {}
      BY <1>1, <3>1 DEF OnLlmStart, Apart, CallAlone, LlmAt
    <3>3. CallAlone(s, c)'
      BY <1>1, <1>u, <2>1, <2>3, <3>2 DEF CallAlone, Prompts
    <3> QED BY <1>1, <1>b, <2>1, <2>2, <2>3, <3>1, <3>3
  <2> QED BY <1>1, <1>u, <2>1, <2>2, <2>4, <2>5, CallMoves DEF OnLlmStart
<1>2. ASSUME NEW c \in LlmCall, LlmFails(c), UNCHANGED written PROVE WrittenShape' /\ CallbackInv'
  <2>1. PICK s : s = [llm[c] EXCEPT !.pc = "failed"]
    OBVIOUS
  <2>2. CallSound(llm[c], c) /\ llm[c].pc = "running" /\ LlmBecomes(c, s) /\ UNCHANGED <<pending, mixed>>
    BY <1>0, <1>2, <2>1 DEF LlmFails, LlmAt
  <2>3. s = [x \in {"pc", "size", "pairs", "dropped"} |-> s[x]] /\ s.pc = "failed" /\ s.size = llm[c].size /\ s.pairs = <<>>
    BY <2>1, <2>2 DEF CallSound
  <2>4. CallSound(s, c)
    BY <2>2, <2>3 DEF CallSound
  <2>5. ASSUME ~mixed PROVE Apart'
    <3>1. Apart /\ PlacesRecorded(c) = {}
      BY <2>2, <2>5 DEF CallbackInv, Apart, CallAlone
    <3>3. CallAlone(s, c)'
      BY <1>2, <1>u, <2>3, <3>1 DEF CallAlone
    <3> QED BY <1>2, <1>b, <2>2, <2>3, <3>1, <3>3
  <2> QED BY <1>0, <1>2, <1>u, <2>2, <2>4, <2>5, CallMoves
<1>3. ASSUME NEW c \in LlmCall, OnLlmEnd(c), UNCHANGED written PROVE WrittenShape' /\ CallbackInv'
  <2>1. PICK s : s = [llm[c] EXCEPT !.pc = "recording", !.pairs = ZipPairs(pending, Generations(c))]
    OBVIOUS
  <2>2. CallSound(llm[c], c) /\ llm[c].pc = "running" /\ LlmBecomes(c, s) /\ pending' = <<>> /\ UNCHANGED mixed
    BY <1>0, <1>3, <2>1 DEF OnLlmEnd, LlmAt
  <2>3. /\ s = [x \in {"pc", "size", "pairs", "dropped"} |-> s[x]] /\ s.pc = "recording"
        /\ s.size = llm[c].size /\ s.pairs = ZipPairs(pending, Generations(c)) /\ s.size \in Nat
    BY <2>1, <2>2 DEF CallSound
  <2>4. /\ Generations(c) = Prompts(c, s.size) /\ Generations(c) \in Seq(LlmTurns) /\ Len(Generations(c)) = s.size
        /\ \A j \in 1..s.size : Generations(c)[j] = [call |-> c, place |-> j]
    BY <2>3, PromptsAre DEF Generations
  <2>5. /\ s.pairs \in Seq(Pairs)
        /\ \A j \in DOMAIN s.pairs : s.pairs[j].answer.call = c
    <3>1. \A j \in DOMAIN s.pairs : j \in DOMAIN Generations(c) /\ s.pairs[j].answer = Generations(c)[j]
      BY <1>0, <2>3, <2>4, ZipIs
    <3>2. DOMAIN Generations(c) = 1..s.size
      BY <2>4
    <3>3. ASSUME NEW j \in DOMAIN s.pairs PROVE s.pairs[j].answer.call = c
      <4>1. s.pairs[j].answer = Generations(c)[j] /\ j \in 1..s.size
        BY <3>1, <3>2
      <4>2. s.pairs[j].answer = [call |-> c, place |-> j]
        BY <2>4, <4>1
      <4> QED BY <4>2
    <3>4. s.pairs \in Seq(Pairs)
      BY <1>0, <2>3, <2>4, ZipIs
    <3> QED BY <3>3, <3>4
  <2>6. CallSound(s, c)
    BY <2>3, <2>5 DEF CallSound
  <2>7. ASSUME ~mixed PROVE Apart'
    <3>1. Apart /\ PlacesRecorded(c) = {} /\ pending = Generations(c)
      BY <2>2, <2>3, <2>4, <2>7 DEF CallbackInv, Apart, CallAlone, LlmAt
    <3>2. /\ DOMAIN s.pairs = 1..s.size
          /\ \A j \in 1..s.size : s.pairs[j] = [prompt |-> [call |-> c, place |-> j], answer |-> [call |-> c, place |-> j]]
      BY <2>3, <2>4, <2>5, <3>1, ZipIs
    <3>3. PlacesLeft(s) = 1..s.size
      <4>1. ASSUME NEW j \in 1..s.size PROVE s.pairs[j].prompt.place = j /\ s.pairs[j].prompt = s.pairs[j].answer
        <5>1. s.pairs[j] = [prompt |-> [call |-> c, place |-> j], answer |-> [call |-> c, place |-> j]]
          BY <3>2
        <5> QED BY <5>1
      <4>2. PlacesLeft(s) = {s.pairs[j].prompt.place : j \in 1..s.size}
        BY <3>2 DEF PlacesLeft
      <4> QED BY <4>1, <4>2
    <3>4. CallAlone(s, c)'
      <4>1. PlacesRecorded(c)' = {}
        BY <1>3, <1>u, <3>1
      <4>2. PlacesLeft(s)' = 1..s.size
        BY <3>3 DEF PlacesLeft
      <4>3. ASSUME NEW j \in DOMAIN s.pairs PROVE s.pairs[j].prompt = s.pairs[j].answer
        <5>1. s.pairs[j] = [prompt |-> [call |-> c, place |-> j], answer |-> [call |-> c, place |-> j]]
          BY <3>2
        <5> QED BY <5>1
      <4> QED BY <2>3, <4>1, <4>2, <4>3 DEF CallAlone
    <3> QED BY <1>3, <1>b, <2>2, <2>3, <3>1, <3>4 DEF LlmAt
  <2> QED BY <1>3, <1>u, <2>2, <2>6, <2>7, CallMoves
<1>4. ASSUME NEW c \in LlmCall, EndRecording(c), UNCHANGED written PROVE WrittenShape' /\ CallbackInv'
  <2>1. PICK s : s = [llm[c] EXCEPT !.pc = "over"]
    OBVIOUS
  <2>2. CallSound(llm[c], c) /\ llm[c].pc = "recording" /\ llm[c].pairs = <<>> /\ LlmBecomes(c, s) /\ UNCHANGED <<pending, mixed>>
    BY <1>0, <1>4, <2>1 DEF EndRecording, LlmAt
  <2>3. /\ s = [x \in {"pc", "size", "pairs", "dropped"} |-> s[x]] /\ s.pc = "over" /\ s.size = llm[c].size
        /\ s.pairs = <<>> /\ s.dropped = llm[c].dropped
    BY <2>1, <2>2 DEF CallSound
  <2>4. CallSound(s, c)
    BY <2>2, <2>3 DEF CallSound
  <2>5. ASSUME ~mixed PROVE Apart'
    <3>1. Apart /\ CallAlone(llm[c], c)
      BY <2>5 DEF CallbackInv, Apart
    <3>3. CallAlone(s, c)'
      BY <1>4, <1>u, <2>2, <2>3, <3>1 DEF CallAlone, PlacesLeft
    <3> QED BY <1>4, <1>b, <2>2, <2>3, <3>1, <3>3
  <2> QED BY <1>0, <1>4, <1>u, <2>2, <2>4, <2>5, CallMoves
<1>5. ASSUME NEW c \in LlmCall, RecordPair(c) PROVE WrittenShape' /\ CallbackInv'
  <2> DEFINE t == Tail(llm[c].pairs)
             h == Head(llm[c].pairs)
  <2>1. /\ CallSound(llm[c], c) /\ llm[c].pc = "recording" /\ llm[c].pairs # <<>> /\ UNCHANGED <<pending, mixed>>
        /\ llm[c].pairs \in Seq(Pairs)
    BY <1>0, <1>5 DEF RecordPair, LlmAt, CallSound
  <2>2. /\ h \in Pairs /\ t \in Seq(Pairs) /\ h = llm[c].pairs[1] /\ 1 \in DOMAIN llm[c].pairs
        /\ \A j \in DOMAIN t : j + 1 \in DOMAIN llm[c].pairs /\ t[j] = llm[c].pairs[j + 1]
        /\ \A j \in DOMAIN llm[c].pairs : j # 1 => j - 1 \in DOMAIN t /\ llm[c].pairs[j] = t[j - 1]
    BY <2>1
  <2>3. h.answer.call = c /\ \A j \in DOMAIN t : t[j].answer.call = c
    BY <2>1, <2>2 DEF CallSound
  <2> HIDE DEF t, h
  <2>4. \/ UNCHANGED written /\ LlmBecomes(c, [llm[c] EXCEPT !.pairs = t, !.dropped = TRUE])
        \/ AppendWritten(Receipt("callback", h)) /\ LlmBecomes(c, [llm[c] EXCEPT !.pairs = t])
    BY <1>5 DEF RecordPair, t, h
  <2>5. CASE UNCHANGED written /\ LlmBecomes(c, [llm[c] EXCEPT !.pairs = t, !.dropped = TRUE])
    <3>1. PICK s : s = [llm[c] EXCEPT !.pairs = t, !.dropped = TRUE]
      OBVIOUS
    <3>2. /\ s = [x \in {"pc", "size", "pairs", "dropped"} |-> s[x]] /\ s.pc = "recording"
          /\ s.size = llm[c].size /\ s.pairs = t /\ s.dropped
      BY <2>1, <3>1 DEF CallSound
    <3>3. CallSound(s, c)
      BY <2>1, <2>2, <2>3, <3>2 DEF CallSound
    <3>4. ASSUME ~mixed PROVE Apart'
      <4>1. Apart /\ CallAlone(llm[c], c)
        BY <3>4 DEF CallbackInv, Apart
      <4>2. CallAlone(s, c)'
        BY <2>1, <2>2, <3>2, <4>1 DEF CallAlone
      <4> QED BY <1>b, <2>1, <2>5, <3>1, <3>2, <4>1, <4>2
    <3> QED BY <1>0, <1>u, <2>1, <2>5, <3>1, <3>3, <3>4, CallMoves
  <2>6. CASE AppendWritten(Receipt("callback", h)) /\ LlmBecomes(c, [llm[c] EXCEPT !.pairs = t])
    <3>1. PICK s : s = [llm[c] EXCEPT !.pairs = t]
      OBVIOUS
    <3>2. /\ s = [x \in {"pc", "size", "pairs", "dropped"} |-> s[x]] /\ s.pc = "recording"
          /\ s.size = llm[c].size /\ s.pairs = t /\ s.dropped = llm[c].dropped
      BY <2>1, <3>1 DEF CallSound
    <3>3. CallSound(s, c)
      BY <2>1, <2>2, <2>3, <3>2 DEF CallSound
    <3>4. PICK r \in WrittenReceipts : r.by = "callback" /\ r.says = h /\ written' = Append(written, r)
      BY <2>2, <2>6 DEF AppendWritten, Receipt, WrittenReceipts
    <3> DEFINE n == Len(written) + 1
    <3>5. /\ WrittenShape' /\ WrittenBy("callback")' = WrittenBy("callback") \cup {n}
          /\ \A i \in WrittenBy("callback") : written'[i] = written[i]
          /\ written'[n] = r /\ n \notin WrittenBy("callback")
      BY <3>4, AppendLeaves DEF WrittenBy
    <3> HIDE DEF n
    <3>6. \A d : PairsOf(d)' = PairsOf(d) \cup (IF d = c THEN {n} ELSE {})
      BY <2>3, <3>4, <3>5 DEF PairsOf
    <3>7. /\ PlacesRecorded(c)' = PlacesRecorded(c) \cup {h.prompt.place}
          /\ \A d : d # c => PlacesRecorded(d)' = PlacesRecorded(d)
      <4>1. \A d : \A i \in PairsOf(d) : written'[i] = written[i]
        BY <3>5 DEF PairsOf
      <4>2. ASSUME NEW d, d # c PROVE PlacesRecorded(d)' = PlacesRecorded(d)
        BY <3>6, <4>1, <4>2 DEF PlacesRecorded
      <4>3. PlacesRecorded(c)' = {written'[i].says.prompt.place : i \in PairsOf(c) \cup {n}}
        BY <3>6 DEF PlacesRecorded
      <4>4. written'[n].says.prompt.place = h.prompt.place
        BY <3>4, <3>5
      <4>5. PlacesRecorded(c)' = {written'[i].says.prompt.place : i \in PairsOf(c)} \cup {h.prompt.place}
        BY <4>3, <4>4
      <4>6. {written'[i].says.prompt.place : i \in PairsOf(c)} = PlacesRecorded(c)
        BY <4>1 DEF PlacesRecorded
      <4> QED BY <4>2, <4>5, <4>6
    <3>8. ASSUME ~mixed PROVE Apart'
      <4>1. Apart /\ CallAlone(llm[c], c)
        BY <3>8 DEF CallbackInv, Apart
      <4>2. llm' = [d \in LlmCall |-> llm'[d]] /\ llm'[c] = s /\ \A d \in LlmCall \ {c} : llm'[d] = llm[d]
        BY <1>a, <2>6, <3>1
      <4>3. h.prompt = h.answer /\ \A j \in DOMAIN t : t[j].prompt = t[j].answer
        BY <2>2, <4>1 DEF CallAlone
      <4>4. \A i \in WrittenBy("callback")' : written'[i].says.prompt = written'[i].says.answer
        BY <3>4, <3>5, <4>1, <4>3 DEF Apart
      <4>5. PlacesLeft(llm[c]) = {h.prompt.place} \cup PlacesLeft(s)
        <5>1. \A j \in DOMAIN llm[c].pairs : llm[c].pairs[j] = h \/ \E k \in DOMAIN t : llm[c].pairs[j] = t[k]
          BY <2>2
        <5>2. \A k \in DOMAIN t : \E j \in DOMAIN llm[c].pairs : t[k] = llm[c].pairs[j]
          BY <2>2
        <5> QED BY <2>2, <3>2, <5>1, <5>2 DEF PlacesLeft
      <4>6. ~s.dropped => PlacesRecorded(c)' \cup PlacesLeft(s) = 1..s.size
        BY <2>1, <3>2, <3>7, <4>1, <4>5 DEF CallAlone
      <4>7. CallAlone(llm[c], c)'
        <5>1. PlacesLeft(llm'[c]) = PlacesLeft(s)
          BY <4>2
        <5> QED BY <3>2, <4>2, <4>3, <4>6, <5>1 DEF CallAlone
      <4>8. ASSUME NEW d \in LlmCall \ {c} PROVE CallAlone(llm[d], d)'
        BY <2>1, <3>7, <4>1, <4>2 DEF CallAlone, Apart, Prompts, PlacesLeft
      <4>9. \A d, e \in LlmCall : LlmAt(d, "running")' /\ LlmAt(e, "running")' => d = e
        BY <2>1, <3>2, <4>1, <4>2 DEF Apart, LlmAt
      <4> QED BY <4>4, <4>7, <4>8, <4>9 DEF Apart
    <3> QED BY <1>0, <2>1, <2>6, <3>1, <3>3, <3>5, <3>8, CallMoves
  <2> QED BY <2>4, <2>5, <2>6
<1> QED BY <1>1, <1>2, <1>3, <1>4, <1>5 DEF CallbackNext

LEMMA CallbackSays == ASSUME CallbackInv PROVE PromptsMatch
<1> SUFFICES ASSUME ~mixed PROVE
      /\ \A i \in WrittenBy("callback") : written[i].says.prompt = written[i].says.answer
      /\ \A c \in LlmCall : LlmAt(c, "over") /\ ~llm[c].dropped => PlacesRecorded(c) = 1..llm[c].size
  BY DEF PromptsMatch, PlacesRecorded
<1>1. Apart
  BY DEF CallbackInv
<1>2. ASSUME NEW c \in LlmCall, LlmAt(c, "over"), ~llm[c].dropped PROVE PlacesRecorded(c) = 1..llm[c].size
  <2>1. llm[c].pairs = <<>> /\ CallAlone(llm[c], c)
    BY <1>1, <1>2 DEF CallbackInv, CallSound, LlmAt, Apart
  <2>2. PlacesLeft(llm[c]) = {}
    BY <2>1 DEF PlacesLeft
  <2> QED BY <1>2, <2>1, <2>2 DEF CallAlone, LlmAt
<1> QED BY <1>1, <1>2 DEF Apart

-----------------------------------------------------------------------------
(* Integration *)

OpenFrames == [kind : {"scope", "call", "async"}, id : Nat, cid : Nat]
CallOutcomes == {"value", "error", "interrupted", "RecordingError", "TypeError", "none"}
ToldCalls == [id : Nat, thread : Thread, outcome : CallOutcomes]

\* What HostKnows says of one call that has ended.
Agrees(call) ==
  /\ failureMode = "raise" =>
       /\ call.outcome = "value" => Recorded(call.id, "completed")
       /\ call.outcome = "error" => Recorded(call.id, "failed")
       /\ call.outcome \notin {"value", "error"} => ReceiptsOf(call.id) = {}
  /\ failureMode = "return_none" => call.outcome \notin {"RecordingError", "TypeError"}

\* A thread has given an action or an event this correlation id.
Owns(t, c) ==
  \/ \E d \in DOMAIN frames[t] : c = frames[t][d].cid
  \/ \E j \in DOMAIN told : t = told[j].thread /\ \E i \in ReceiptsOf(told[j].id) : c = written[i].says.cid

IntegrationInv ==
  /\ failureMode \in {"raise", "return_none"} /\ drawn \in Nat
  /\ frames \in [Thread -> Seq(OpenFrames)]
  /\ told \in Seq(ToldCalls)
  /\ \A t \in Thread : \A d \in DOMAIN frames[t] : frames[t][d].id \in 1..drawn
  /\ \A t, u \in Thread : \A d \in DOMAIN frames[t], e \in DOMAIN frames[u] :
       frames[t][d].id = frames[u][e].id => t = u /\ d = e
  /\ \A j \in DOMAIN told : told[j].id \in 1..drawn /\ Agrees(told[j])
  /\ \A t \in Thread : \A d \in DOMAIN frames[t] : \A j \in DOMAIN told : frames[t][d].id # told[j].id
  /\ \A i \in WrittenBy("recorder") : \E j \in DOMAIN told : told[j].id = written[i].says.id
  /\ \A c : \A t \in Thread : Owns(t, c) => c \in 1..drawn
  /\ \A c : \A t, u \in Thread : Owns(t, c) /\ Owns(u, c) => t = u

\* The id of an action or an event is of its thread, or new.
LEMMA CorrelationOwned ==
  ASSUME IntegrationInv, NEW t \in Thread, NEW fresh
  PROVE  CorrelationId(t, fresh) = fresh \/ \E d \in DOMAIN frames[t] : CorrelationId(t, fresh) = frames[t][d].cid
<1>1. CASE ScopesOf(t) = {}
  BY <1>1 DEF CorrelationId
<1>2. CASE ScopesOf(t) # {}
  <2>1. frames[t] \in Seq(OpenFrames)
    BY DEF IntegrationInv
  <2>2. ScopesOf(t) \in SUBSET (1..Len(frames[t])) /\ Len(frames[t]) \in Nat
    BY <2>1 DEF ScopesOf
  <2>3. \E d \in ScopesOf(t) : \A e \in ScopesOf(t) : e <= d
    BY SMTT(30), <1>2, <2>2, Greatest
  <2>4. (CHOOSE d \in ScopesOf(t) : \A e \in ScopesOf(t) : e <= d) \in ScopesOf(t)
    BY <2>3
  <2> QED BY <1>2, <2>4 DEF CorrelationId, ScopesOf
<1> QED BY <1>1, <1>2

LEMMA PopsFrame ==
  ASSUME IntegrationInv, NEW t \in Thread, frames[t] # <<>>, frames' = Popped(t)
  PROVE  /\ frames' \in [Thread -> Seq(OpenFrames)]
         /\ \A u \in Thread : \A d \in DOMAIN frames'[u] :
              d \in DOMAIN frames[u] /\ frames'[u][d] = frames[u][d] /\ frames'[u][d].id # Innermost(t).id
         /\ Len(frames[t]) \in DOMAIN frames[t] /\ Innermost(t) = frames[t][Len(frames[t])]
         /\ Innermost(t) \in OpenFrames
<1> DEFINE s == frames[t]
           n == Len(s)
           cut == SubSeq(s, 1, n - 1)
<1>1. s \in Seq(OpenFrames) /\ n \in Nat \ {0} /\ n \in DOMAIN s /\ Innermost(t) = s[n] /\ s[n] \in OpenFrames
  BY DEF IntegrationInv, Innermost
<1>2. /\ cut \in Seq(OpenFrames) /\ Len(cut) = n - 1
      /\ \A d \in 1..(n - 1) : cut[d] = s[d]
  BY <1>1
<1>3. frames' = [frames EXCEPT ![t] = cut]
  BY DEF Popped
<1> HIDE DEF cut
<1>4. frames' \in [Thread -> Seq(OpenFrames)] /\ frames'[t] = cut /\ \A u \in Thread \ {t} : frames'[u] = frames[u]
  BY <1>2, <1>3 DEF IntegrationInv
<1>5. ASSUME NEW d \in DOMAIN cut PROVE d \in DOMAIN s /\ cut[d] = s[d] /\ cut[d].id # s[n].id
  <2>1. d \in 1..(n - 1)
    BY <1>2
  <2>2. d \in DOMAIN s /\ d # n
    BY <1>1, <2>1
  <2>3. s[d].id # s[n].id
    BY <1>1, <2>2 DEF IntegrationInv
  <2> QED BY <1>2, <2>1, <2>2, <2>3
<1>6. ASSUME NEW u \in Thread \ {t}, NEW d \in DOMAIN frames[u] PROVE frames[u][d].id # s[n].id
  BY <1>1 DEF IntegrationInv
<1> QED BY <1>1, <1>4, <1>5, <1>6

\* A call or an event ends: it has one receipt, or none.
LEMMA CallCloses ==
  ASSUME WrittenShape, IntegrationInv, NEW t \in Thread, NEW x \in Nat, NEW c \in Nat,
         NEW ending \in CallOutcomes, NEW status \in {"completed", "failed"},
         UNCHANGED failureMode, drawn' \in Nat, drawn <= drawn', x \in 1..drawn',
         frames' \in [Thread -> Seq(OpenFrames)],
         \A u \in Thread : \A d \in DOMAIN frames'[u] :
           d \in DOMAIN frames[u] /\ frames'[u][d] = frames[u][d] /\ frames'[u][d].id # x,
         \A j \in DOMAIN told : told[j].id # x,
         Owns(t, c) \/ (c \in 1..drawn' /\ c \notin 1..drawn),
         told' = Append(told, [id |-> x, thread |-> t, outcome |-> ending]),
         failureMode = "return_none" => ending \notin {"RecordingError", "TypeError"},
         \/ /\ written' = Append(written, Receipt("recorder", [id |-> x, cid |-> c, status |-> status]))
            /\ failureMode = "raise" => \/ ending = "value" /\ status = "completed"
                                        \/ ending = "error" /\ status = "failed"
         \/ UNCHANGED written /\ (failureMode = "raise" => ending \notin {"value", "error"})
  PROVE  WrittenShape' /\ IntegrationInv'
<1> DEFINE call == [id |-> x, thread |-> t, outcome |-> ending]
           n == Len(told) + 1
           fresh == IF written' = written THEN {} ELSE {Len(written) + 1}
<1>1. /\ told' \in Seq(ToldCalls) /\ n \in Nat /\ DOMAIN told' = DOMAIN told \cup {n} /\ n \notin DOMAIN told
      /\ \A j \in DOMAIN told : told'[j] = told[j]
      /\ told'[n] = call
  <2>1. call \in ToldCalls /\ told \in Seq(ToldCalls)
    BY DEF ToldCalls, IntegrationInv
  <2> HIDE DEF call
  <2> QED BY <2>1 DEF call
<1>2. /\ WrittenShape' /\ WrittenBy("recorder")' = WrittenBy("recorder") \cup fresh
      /\ \A i \in WrittenBy("recorder") : written'[i] = written[i] /\ i \notin fresh
      /\ \A i \in fresh : written'[i].says = [id |-> x, cid |-> c, status |-> status]
  <2>1. CASE UNCHANGED written
    BY <2>1 DEF WrittenShape, WrittenBy
  <2>2. CASE written' = Append(written, Receipt("recorder", [id |-> x, cid |-> c, status |-> status]))
    <3>1. PICK r : r = Receipt("recorder", [id |-> x, cid |-> c, status |-> status])
      OBVIOUS
    <3>2. r \in WrittenReceipts /\ r.by = "recorder" /\ r.says = [id |-> x, cid |-> c, status |-> status]
      BY <3>1 DEF Receipt, WrittenReceipts, ReportsSaid
    <3>3. written' = Append(written, r)
      BY <2>2, <3>1
    <3>4. /\ WrittenShape' /\ WrittenBy("recorder")' = WrittenBy("recorder") \cup {Len(written) + 1}
          /\ \A i \in WrittenBy("recorder") : written'[i] = written[i] /\ i # Len(written) + 1
          /\ written'[Len(written) + 1] = r /\ Len(written') # Len(written)
      BY <3>2, <3>3, AppendLeaves DEF WrittenBy
    <3> QED BY <3>2, <3>4
  <2> QED BY <2>1, <2>2
<1>2a. /\ fresh = {} \/ \E i : fresh = {i}
       /\ failureMode = "raise" => IF fresh = {} THEN ending \notin {"value", "error"}
                                   ELSE \/ ending = "value" /\ status = "completed"
                                        \/ ending = "error" /\ status = "failed"
  <2>1. CASE UNCHANGED written
    BY <2>1
  <2>2. CASE written' # written
    BY <2>2
  <2> QED BY <2>1, <2>2
<1> HIDE DEF call, n, fresh
<1>3. ReceiptsOf(x) = {} /\ \A y : ReceiptsOf(y)' = IF y = x THEN fresh ELSE ReceiptsOf(y)
  <2>1. ReceiptsOf(x) = {}
    BY DEF ReceiptsOf, IntegrationInv
  <2>2. ASSUME NEW y PROVE ReceiptsOf(y)' = ReceiptsOf(y) \cup (IF y = x THEN fresh ELSE {})
    BY <1>2 DEF ReceiptsOf
  <2> QED BY <2>1, <2>2
<1>4. call = [id |-> x, thread |-> t, outcome |-> ending]
  BY DEF call
<1>5. ASSUME NEW j \in DOMAIN told PROVE Agrees(told[j])'
  <2>1. told'[j] = told[j] /\ told[j].id # x /\ Agrees(told[j])
    BY <1>1 DEF IntegrationInv
  <2>2. /\ ReceiptsOf(told[j].id)' = ReceiptsOf(told[j].id)
        /\ \A i \in ReceiptsOf(told[j].id) : written'[i] = written[i]
    BY <1>2, <1>3, <2>1 DEF ReceiptsOf
  <2>3. \A s : Recorded(told[j].id, s) => Recorded(told[j].id, s)'
    BY <2>1, <2>2 DEF Recorded
  <2> QED BY <2>1, <2>2, <2>3 DEF Agrees
<1>6. Agrees(call)'
  <2>0. ReceiptsOf(x)' = fresh
    BY <1>3
  <2>1. fresh # {} => Recorded(x, status)'
    <3>1. ASSUME fresh # {} PROVE \E i \in fresh : fresh = {i} /\ written'[i].says.status = status
      <4>1. PICK i \in fresh : fresh = {i}
        BY <1>2a, <3>1
      <4>2. written'[i].says.status = status
        BY <1>2
      <4> QED BY <4>1, <4>2
    <3> QED BY <2>0, <3>1 DEF Recorded
  <2>2. fresh = {} => ReceiptsOf(x)' = {}
    BY <2>0
  <2> QED BY <1>2a, <1>4, <2>1, <2>2 DEF Agrees
<1>7. ASSUME NEW j \in DOMAIN told' PROVE told'[j].id \in 1..drawn' /\ Agrees(told[j])'
  <2>1. CASE j \in DOMAIN told
    BY <1>1, <1>5, <2>1 DEF IntegrationInv
  <2>2. CASE j = n
    BY <1>1, <1>4, <1>6, <2>2 DEF Agrees
  <2> QED BY <1>1, <2>1, <2>2
<1>8. ASSUME NEW i \in WrittenBy("recorder")' PROVE \E j \in DOMAIN told' : told'[j].id = written'[i].says.id
  <2>1. CASE i \in WrittenBy("recorder")
    <3>1. PICK j \in DOMAIN told : told[j].id = written[i].says.id
      BY <2>1 DEF IntegrationInv
    <3>2. j \in DOMAIN told' /\ told'[j] = told[j] /\ written'[i] = written[i]
      BY <1>1, <1>2, <2>1
    <3> QED BY <3>1, <3>2
  <2>2. CASE i \in fresh
    <3>1. n \in DOMAIN told' /\ told'[n].id = x
      BY <1>1, <1>4
    <3>2. written'[i].says.id = x
      BY <1>2, <2>2
    <3> QED BY <3>1, <3>2
  <2> QED BY <1>2, <2>1, <2>2
<1>9. /\ \A u \in Thread : \A d \in DOMAIN frames'[u] : frames'[u][d].id \in 1..drawn'
      /\ \A u \in Thread : \A d \in DOMAIN frames'[u] : \A j \in DOMAIN told' : frames'[u][d].id # told'[j].id
  <2>1. \A u \in Thread : \A d \in DOMAIN frames'[u] : frames'[u][d].id \in 1..drawn'
    BY DEF IntegrationInv
  <2>2. ASSUME NEW u \in Thread, NEW d \in DOMAIN frames'[u], NEW j \in DOMAIN told'
        PROVE  frames'[u][d].id # told'[j].id
    <3>1. CASE j \in DOMAIN told
      BY <1>1, <2>2, <3>1 DEF IntegrationInv
    <3>2. CASE j = n
      BY <1>1, <1>4, <2>2, <3>2
    <3> QED BY <1>1, <3>1, <3>2
  <2> QED BY <2>1, <2>2
<1>10. \A u, v \in Thread : \A d \in DOMAIN frames'[u], e \in DOMAIN frames'[v] :
         frames'[u][d].id = frames'[v][e].id => u = v /\ d = e
  BY DEF IntegrationInv
<1>11. ASSUME NEW b, NEW u \in Thread, Owns(u, b)' PROVE Owns(u, b) \/ (u = t /\ b = c)
  <2>1. CASE \E d \in DOMAIN frames'[u] : b = frames'[u][d].cid
    BY <2>1 DEF Owns
  <2>2. ASSUME NEW j \in DOMAIN told', u = told'[j].thread, NEW i \in ReceiptsOf(told[j].id)', b = written'[i].says.cid
        PROVE  Owns(u, b) \/ (u = t /\ b = c)
    <3>1. CASE j \in DOMAIN told
      <4>1. told'[j] = told[j] /\ told[j].id # x
        BY <1>1, <3>1
      <4>2. i \in ReceiptsOf(told[j].id)
        <5>1. i \in WrittenBy("recorder")' /\ written'[i].says.id = told[j].id
          BY <2>2, <4>1 DEF ReceiptsOf
        <5>2. i \in WrittenBy("recorder") /\ written'[i] = written[i]
          BY <1>2, <4>1, <5>1
        <5> QED BY <5>1, <5>2 DEF ReceiptsOf
      <4>3. written'[i] = written[i]
        BY <1>2, <4>2 DEF ReceiptsOf
      <4> QED BY <2>2, <3>1, <4>1, <4>2, <4>3 DEF Owns
    <3>2. CASE j = n
      <4>1. told'[j].id = x /\ told'[j].thread = t
        BY <1>1, <1>4, <3>2
      <4>2. i \in fresh
        BY <1>3, <2>2, <4>1 DEF ReceiptsOf
      <4>3. b = c
        BY <1>2, <2>2, <4>2
      <4> QED BY <2>2, <4>1, <4>3
    <3> QED BY <1>1, <3>1, <3>2
  <2> QED BY <1>11, <2>1, <2>2 DEF Owns
<1>12. \A b : \A u \in Thread : Owns(u, b)' => b \in 1..drawn'
  <2>1. \A b : \A u \in Thread : Owns(u, b) => b \in 1..drawn'
    BY DEF IntegrationInv
  <2>2. c \in 1..drawn'
    BY <2>1
  <2> QED BY <1>11, <2>1, <2>2
<1>13. ASSUME NEW b, NEW u \in Thread, NEW v \in Thread, Owns(u, b)', Owns(v, b)' PROVE u = v
  <2>1. \A w \in Thread : Owns(w, b) => b \in 1..drawn
    BY DEF IntegrationInv
  <2>2. \A w, y \in Thread : Owns(w, b) /\ Owns(y, b) => w = y
    BY DEF IntegrationInv
  <2> QED BY <1>11, <1>13, <2>1, <2>2
<1> QED BY <1>1, <1>2, <1>7, <1>8, <1>9, <1>10, <1>12, <1>13 DEF IntegrationInv

\* A scope or an action begins, with an id of its own.
LEMMA FrameOpens ==
  ASSUME IntegrationInv, NEW t \in Thread, NEW kind0 \in {"scope", "call", "async"}, NEW c \in Nat,
         UNCHANGED <<failureMode, told, written>>, drawn' = drawn + 1,
         Owns(t, c) \/ c = drawn',
         frames' = Pushed(t, Frame(kind0, drawn', c))
  PROVE  IntegrationInv'
<1> DEFINE s == frames[t]
           n == Len(s) + 1
<1>1. PICK f : f = Frame(kind0, drawn', c)
  OBVIOUS
<1>2. f \in OpenFrames /\ f.id = drawn' /\ f.cid = c /\ drawn \in Nat
  BY <1>1 DEF Frame, OpenFrames, IntegrationInv
<1>3. /\ Append(s, f) \in Seq(OpenFrames) /\ DOMAIN Append(s, f) = DOMAIN s \cup {n} /\ n \notin DOMAIN s
      /\ \A d \in DOMAIN s : Append(s, f)[d] = s[d]
      /\ Append(s, f)[n] = f
  <2>1. s \in Seq(OpenFrames)
    BY DEF IntegrationInv
  <2> HIDE DEF s
  <2> QED BY <1>2, <2>1
<1>4. frames' = [frames EXCEPT ![t] = Append(s, f)]
  BY <1>1 DEF Pushed
<1>5. /\ frames' \in [Thread -> Seq(OpenFrames)] /\ \A u \in Thread \ {t} : frames'[u] = frames[u]
      /\ DOMAIN frames'[t] = DOMAIN frames[t] \cup {n} /\ n \notin DOMAIN frames[t]
      /\ \A d \in DOMAIN frames[t] : frames'[t][d] = frames[t][d]
      /\ frames'[t][n] = f
  BY ZenonT(40), <1>3, <1>4 DEF IntegrationInv
<1> HIDE DEF s, n
<1>6. ASSUME NEW u \in Thread, NEW d \in DOMAIN frames'[u]
      PROVE  \/ d \in DOMAIN frames[u] /\ frames'[u][d] = frames[u][d] /\ frames[u][d].id \in 1..drawn
             \/ u = t /\ d = n /\ frames'[u][d] = f
  BY <1>5, <1>6 DEF IntegrationInv
<1>7. \A u \in Thread : \A d \in DOMAIN frames'[u] : frames'[u][d].id \in 1..drawn'
  BY <1>2, <1>6
<1>8. \A u, v \in Thread : \A d \in DOMAIN frames'[u], e \in DOMAIN frames'[v] :
         frames'[u][d].id = frames'[v][e].id => u = v /\ d = e
  <2> SUFFICES ASSUME NEW u \in Thread, NEW v \in Thread, NEW d \in DOMAIN frames'[u], NEW e \in DOMAIN frames'[v],
                      frames'[u][d].id = frames'[v][e].id
               PROVE  u = v /\ d = e
    OBVIOUS
  <2>1. drawn' \notin 1..drawn
    BY <1>2
  <2>2. \/ d \in DOMAIN frames[u] /\ frames'[u][d] = frames[u][d] /\ frames[u][d].id \in 1..drawn
        \/ u = t /\ d = n /\ frames'[u][d] = f
    BY <1>6
  <2>3. \/ e \in DOMAIN frames[v] /\ frames'[v][e] = frames[v][e] /\ frames[v][e].id \in 1..drawn
        \/ v = t /\ e = n /\ frames'[v][e] = f
    BY <1>6
  <2> QED BY <1>2, <2>1, <2>2, <2>3 DEF IntegrationInv
<1>9. \A u \in Thread : \A d \in DOMAIN frames'[u] : \A j \in DOMAIN told : frames'[u][d].id # told[j].id
  <2>1. drawn' \notin 1..drawn /\ \A j \in DOMAIN told : told[j].id \in 1..drawn
    BY <1>2 DEF IntegrationInv
  <2> QED BY <1>2, <1>6, <2>1 DEF IntegrationInv
<1>10. \A y : ReceiptsOf(y)' = ReceiptsOf(y)
  BY DEF ReceiptsOf, WrittenBy
<1>11. \A b : \A u \in Thread : Owns(u, b)' => Owns(u, b) \/ (u = t /\ b = c)
  <2> SUFFICES ASSUME NEW b, NEW u \in Thread, Owns(u, b)' PROVE Owns(u, b) \/ (u = t /\ b = c)
    OBVIOUS
  <2>1. CASE \E d \in DOMAIN frames'[u] : b = frames'[u][d].cid
    BY <1>2, <1>6, <2>1 DEF Owns
  <2>2. CASE \E j \in DOMAIN told : u = told[j].thread /\ \E i \in ReceiptsOf(told[j].id) : b = written[i].says.cid
    BY <2>2 DEF Owns
  <2> QED BY <2>1, <2>2 DEF Owns, ReceiptsOf, WrittenBy
<1>12. \A j \in DOMAIN told : told[j].id \in 1..drawn' /\ Agrees(told[j])'
  <2>1. ASSUME NEW j \in DOMAIN told PROVE Agrees(told[j])'
    <3>1. ReceiptsOf(told[j].id)' = ReceiptsOf(told[j].id) /\ Agrees(told[j])
      BY DEF ReceiptsOf, WrittenBy, IntegrationInv
    <3>2. \A st : Recorded(told[j].id, st)' <=> Recorded(told[j].id, st)
      BY <3>1 DEF Recorded
    <3> QED BY <3>1, <3>2 DEF Agrees
  <2> QED BY <1>2, <2>1 DEF IntegrationInv
<1>13. WrittenBy("recorder")' = WrittenBy("recorder")
  BY DEF WrittenBy
<1>14. c \in 1..drawn' /\ drawn' \notin 1..drawn
  BY <1>2 DEF IntegrationInv
<1>15. \A b : \A u \in Thread : Owns(u, b)' => b \in 1..drawn'
  BY <1>2, <1>11, <1>14 DEF IntegrationInv
<1>16. ASSUME NEW b, NEW u \in Thread, NEW v \in Thread, Owns(u, b)', Owns(v, b)' PROVE u = v
  <2>1. \A w \in Thread : Owns(w, b) => b \in 1..drawn
    BY DEF IntegrationInv
  <2>2. \A w, y \in Thread : Owns(w, b) /\ Owns(y, b) => w = y
    BY DEF IntegrationInv
  <2> QED BY <1>11, <1>14, <1>16, <2>1, <2>2
<1> QED BY <1>2, <1>5, <1>7, <1>8, <1>9, <1>12, <1>13, <1>15, <1>16 DEF IntegrationInv

LEMMA IntegrationKeeps == ASSUME WrittenShape, IntegrationInv, IntegrationNext PROVE WrittenShape' /\ IntegrationInv'
<1>0. drawn \in Nat /\ \A j \in DOMAIN told : told[j].id \in 1..drawn
  BY DEF IntegrationInv
<1>u. ASSUME UNCHANGED written PROVE WrittenShape'
  BY <1>u DEF WrittenShape
<1>1. ASSUME NEW t \in Thread, EnterScope(t), UNCHANGED written PROVE WrittenShape' /\ IntegrationInv'
  <2>1. PICK c : c = drawn'
    OBVIOUS
  <2>2. /\ UNCHANGED <<failureMode, told, written>> /\ drawn' = drawn + 1 /\ c \in Nat
        /\ frames' = Pushed(t, Frame("scope", drawn', c))
    BY <1>0, <1>1, <2>1 DEF EnterScope
  <2> QED BY <1>u, <2>1, <2>2, FrameOpens
<1>2. ASSUME NEW t \in Thread, LeaveScope(t), UNCHANGED written PROVE WrittenShape' /\ IntegrationInv'
  <2>1. frames[t] # <<>> /\ frames' = Popped(t) /\ UNCHANGED <<failureMode, told, drawn, written>>
    BY <1>2 DEF LeaveScope
  <2>2. /\ frames' \in [Thread -> Seq(OpenFrames)]
        /\ \A u \in Thread : \A d \in DOMAIN frames'[u] : d \in DOMAIN frames[u] /\ frames'[u][d] = frames[u][d]
    BY <2>1, PopsFrame
  <2>3. \A b : \A u \in Thread : Owns(u, b)' => Owns(u, b)
    BY <2>1, <2>2 DEF Owns, ReceiptsOf, WrittenBy
  <2>4. \A j \in DOMAIN told : told[j].id \in 1..drawn /\ Agrees(told[j])'
    <3>1. ASSUME NEW j \in DOMAIN told PROVE Agrees(told[j])'
      <4>1. ReceiptsOf(told[j].id)' = ReceiptsOf(told[j].id) /\ Agrees(told[j])
        BY <2>1 DEF ReceiptsOf, WrittenBy, IntegrationInv
      <4>2. \A st : Recorded(told[j].id, st)' <=> Recorded(told[j].id, st)
        BY <2>1, <4>1 DEF Recorded
      <4> QED BY <2>1, <4>1, <4>2 DEF Agrees
    <3> QED BY <3>1 DEF IntegrationInv
  <2>5. /\ \A b : \A u \in Thread : Owns(u, b)' => b \in 1..drawn
        /\ \A b : \A u, v \in Thread : Owns(u, b)' /\ Owns(v, b)' => u = v
    BY <2>3 DEF IntegrationInv
  <2>6. /\ \A u \in Thread : \A d \in DOMAIN frames'[u] : frames'[u][d].id \in 1..drawn
        /\ \A u, v \in Thread : \A d \in DOMAIN frames'[u], e \in DOMAIN frames'[v] :
             frames'[u][d].id = frames'[v][e].id => u = v /\ d = e
        /\ \A u \in Thread : \A d \in DOMAIN frames'[u] : \A j \in DOMAIN told : frames'[u][d].id # told[j].id
    BY <2>2 DEF IntegrationInv
  <2>7. WrittenBy("recorder")' = WrittenBy("recorder")
    BY <2>1 DEF WrittenBy
  <2> QED BY <1>u, <2>1, <2>2, <2>4, <2>5, <2>6, <2>7 DEF IntegrationInv
<1>3. ASSUME NEW t \in Thread, BeginAction(t), UNCHANGED written PROVE WrittenShape' /\ IntegrationInv'
  <2>1. PICK kind0 \in {"call", "async"} : frames' = Pushed(t, Frame(kind0, drawn', CorrelationId(t, drawn')))
    BY <1>3 DEF BeginAction
  <2>2. PICK c : c = CorrelationId(t, drawn')
    OBVIOUS
  <2>3. UNCHANGED <<failureMode, told, written>> /\ drawn' = drawn + 1
    BY <1>3 DEF BeginAction
  <2>4. Owns(t, c) \/ c = drawn'
    <3>1. PICK f : f = drawn'
      OBVIOUS
    <3>2. CorrelationId(t, f) = f \/ \E d \in DOMAIN frames[t] : CorrelationId(t, f) = frames[t][d].cid
      BY CorrelationOwned
    <3> QED BY <2>2, <3>1, <3>2 DEF Owns
  <2>5. c \in Nat
    BY <1>0, <2>3, <2>4 DEF IntegrationInv
  <2> QED BY <1>u, <1>3, <2>1, <2>2, <2>3, <2>4, <2>5, FrameOpens
\* What a call or an event with this id may leave.
<1> DEFINE Leaves(t, x, c, ending, status) ==
      /\ told' = Append(told, [id |-> x, thread |-> t, outcome |-> ending])
      /\ failureMode = "return_none" => ending \notin {"RecordingError", "TypeError"}
      /\ \/ /\ written' = Append(written, Receipt("recorder", [id |-> x, cid |-> c, status |-> status]))
            /\ failureMode = "raise" => \/ ending = "value" /\ status = "completed"
                                        \/ ending = "error" /\ status = "failed"
         \/ UNCHANGED written /\ (failureMode = "raise" => ending \notin {"value", "error"})
<1>4. ASSUME NEW t \in Thread, NEW end \in {"returns", "raises", "interrupted"}, EndAction(t, end)
      PROVE  WrittenShape' /\ IntegrationInv'
  <2>1. PICK f : f = Innermost(t)
    OBVIOUS
  <2>2. frames[t] # <<>> /\ frames' = Popped(t) /\ UNCHANGED <<failureMode, drawn>>
    BY <1>4 DEF EndAction
  <2>3. /\ frames' \in [Thread -> Seq(OpenFrames)]
        /\ \A u \in Thread : \A d \in DOMAIN frames'[u] :
             d \in DOMAIN frames[u] /\ frames'[u][d] = frames[u][d] /\ frames'[u][d].id # f.id
        /\ Len(frames[t]) \in DOMAIN frames[t] /\ f = frames[t][Len(frames[t])] /\ f \in OpenFrames
    BY <2>1, <2>2, PopsFrame
  <2>4. f.id \in Nat /\ f.cid \in Nat /\ f.id \in 1..drawn /\ Owns(t, f.cid) /\ \A j \in DOMAIN told : told[j].id # f.id
    BY <2>3 DEF IntegrationInv, OpenFrames, Owns
  <2>5. ASSUME NEW ending \in {"value", "error"}, NEW status \in {"completed", "failed"},
               ending = "value" <=> status = "completed", Record(t, status, ending)
        PROVE  \E o \in CallOutcomes : Leaves(t, f.id, f.cid, o, status)
    <3>1. CASE AppendWritten(Receipt("recorder", Says(Innermost(t), status))) /\ Tell(t, ending)
      <4>1. Leaves(t, f.id, f.cid, ending, status)
        BY <2>1, <2>5, <3>1 DEF Tell, Says, AppendWritten
      <4> QED BY <4>1 DEF CallOutcomes
    <3>2. CASE UNCHANGED written /\ Tell(t, IF failureMode = "raise" THEN "RecordingError" ELSE ending)
      <4>1. PICK o \in CallOutcomes : o = IF failureMode = "raise" THEN "RecordingError" ELSE ending
        BY DEF CallOutcomes
      <4>2. Leaves(t, f.id, f.cid, o, status)
        BY <2>1, <2>5, <3>2, <4>1 DEF Tell
      <4> QED BY <4>2
    <3> QED BY <2>5, <3>1, <3>2 DEF Record
  <2>6. Tell(t, "interrupted") /\ UNCHANGED written => Leaves(t, f.id, f.cid, "interrupted", "failed")
    BY <2>1 DEF Tell
  <2>7. \E o \in CallOutcomes, status \in {"completed", "failed"} : Leaves(t, f.id, f.cid, o, status)
    <3> HIDE DEF Leaves
    <3>1. "interrupted" \in CallOutcomes
      BY DEF CallOutcomes
    <3> QED BY <1>4, <2>5, <2>6, <3>1 DEF EndAction
  <2>8. PICK o \in CallOutcomes, status \in {"completed", "failed"} : Leaves(t, f.id, f.cid, o, status)
    BY <2>7
  <2>9. drawn' \in Nat /\ drawn <= drawn' /\ f.id \in 1..drawn' /\ UNCHANGED failureMode
    BY <1>0, <2>2, <2>4
  <2>10. PICK x, c : x = f.id /\ c = f.cid
    OBVIOUS
  <2>11. Leaves(t, x, c, o, status)
    BY <2>8, <2>10
  <2>12. /\ x \in Nat /\ c \in Nat /\ x \in 1..drawn' /\ Owns(t, c) /\ \A j \in DOMAIN told : told[j].id # x
         /\ \A u \in Thread : \A d \in DOMAIN frames'[u] :
              d \in DOMAIN frames[u] /\ frames'[u][d] = frames[u][d] /\ frames'[u][d].id # x
    BY <2>3, <2>4, <2>9, <2>10
  <2> QED BY <2>3, <2>9, <2>11, <2>12, CallCloses
<1>5. ASSUME NEW t \in Thread, NEW wellFormed \in BOOLEAN, HandleEvent(t, wellFormed)
      PROVE  WrittenShape' /\ IntegrationInv'
  <2>1. drawn' = drawn + 1 /\ UNCHANGED <<failureMode, frames>>
    BY <1>5 DEF HandleEvent
  <2>2. PICK x, c : x = drawn' /\ c = CorrelationId(t, drawn')
    OBVIOUS
  <2>3. Owns(t, c) \/ c = x
    <3>2. CorrelationId(t, x) = x \/ \E d \in DOMAIN frames[t] : CorrelationId(t, x) = frames[t][d].cid
      BY CorrelationOwned
    <3> QED BY <2>2, <3>2 DEF Owns
  <2>4. x \in 1..drawn' /\ x \notin 1..drawn /\ x \in Nat
    BY <1>0, <2>1, <2>2
  <2>5. c \in Nat /\ (Owns(t, c) \/ (c \in 1..drawn' /\ c \notin 1..drawn))
    BY <2>3, <2>4 DEF IntegrationInv
  <2>6. \E o \in CallOutcomes : Leaves(t, x, c, o, "completed")
    <3>1. CASE /\ written' = Append(written, Receipt("recorder", [id |-> x, cid |-> c, status |-> "completed"]))
               /\ told' = Append(told, [id |-> x, thread |-> t, outcome |-> "value"])
      <4>1. Leaves(t, x, c, "value", "completed")
        BY <3>1
      <4> QED BY <4>1 DEF CallOutcomes
    <3>2. ASSUME NEW o \in {"none", "RecordingError", "TypeError"}, failureMode = "return_none" => o = "none",
                 UNCHANGED written, told' = Append(told, [id |-> x, thread |-> t, outcome |-> o])
          PROVE  \E p \in CallOutcomes : Leaves(t, x, c, p, "completed")
      <4>1. Leaves(t, x, c, o, "completed")
        BY <3>2
      <4> QED BY <4>1 DEF CallOutcomes
    <3>3. PICK o \in {"none", "RecordingError", "TypeError"} :
            o = IF failureMode = "return_none" THEN "none" ELSE IF wellFormed THEN "RecordingError" ELSE "TypeError"
      OBVIOUS
    <3>4. \/ /\ written' = Append(written, Receipt("recorder", [id |-> x, cid |-> c, status |-> "completed"]))
             /\ told' = Append(told, [id |-> x, thread |-> t, outcome |-> "value"])
          \/ UNCHANGED written /\ told' = Append(told, [id |-> x, thread |-> t, outcome |-> o])
      BY <1>5, <2>2, <3>3 DEF HandleEvent, AppendWritten, Says, Frame
    <3> HIDE DEF Leaves
    <3> QED BY <3>1, <3>2, <3>3, <3>4
  <2>7. PICK o \in CallOutcomes : Leaves(t, x, c, o, "completed")
    BY <2>6
  <2>8. /\ frames' \in [Thread -> Seq(OpenFrames)]
        /\ \A u \in Thread : \A d \in DOMAIN frames'[u] :
             d \in DOMAIN frames[u] /\ frames'[u][d] = frames[u][d] /\ frames'[u][d].id # x
        /\ \A j \in DOMAIN told : told[j].id # x
    BY <1>0, <2>1, <2>4 DEF IntegrationInv
  <2>9. drawn' \in Nat /\ drawn <= drawn' /\ UNCHANGED failureMode
    BY <1>0, <2>1
  <2> QED BY <2>4, <2>5, <2>7, <2>8, <2>9, CallCloses
<1> QED BY <1>1, <1>2, <1>3, <1>4, <1>5 DEF IntegrationNext

LEMMA IntegrationStarts == ASSUME IntegrationInit, WrittenInit PROVE IntegrationInv
  BY DEF IntegrationInit, WrittenInit, IntegrationInv, WrittenBy, Owns

\* The receipts of others do not matter to the recorder.
LEMMA IntegrationRests ==
  ASSUME WrittenShape, IntegrationInv, UNCHANGED integrationVars, Untouched("recorder")
  PROVE  IntegrationInv'
<1>1. /\ WrittenBy("recorder")' = WrittenBy("recorder")
      /\ \A i \in WrittenBy("recorder") : written'[i] = written[i]
  BY DEF Untouched
<1>2. \A y : ReceiptsOf(y)' = ReceiptsOf(y) /\ \A i \in ReceiptsOf(y) : written'[i] = written[i]
  BY <1>1 DEF ReceiptsOf
<1>3. \A y, status : Recorded(y, status)' <=> Recorded(y, status)
  BY <1>2 DEF Recorded
<1>4. \A j \in DOMAIN told : Agrees(told[j])'
  BY <1>2, <1>3 DEF Agrees, IntegrationInv, integrationVars
<1>5. \A t, c : Owns(t, c)' <=> Owns(t, c)
  BY <1>2 DEF Owns, integrationVars
<1> QED BY <1>1, <1>4, <1>5 DEF IntegrationInv, integrationVars

LEMMA IntegrationSays == ASSUME IntegrationInv PROVE HostKnows
<1>1. ASSUME NEW j \in DOMAIN told
      PROVE  /\ failureMode = "raise" =>
                  CASE told[j].outcome = "value" -> Recorded(told[j].id, "completed")
                    [] told[j].outcome = "error" -> Recorded(told[j].id, "failed")
                    [] OTHER                     -> ReceiptsOf(told[j].id) = {}
             /\ failureMode = "return_none" => told[j].outcome \notin {"RecordingError", "TypeError"}
  BY DEF IntegrationInv, Agrees
<1>2. \A t \in Thread : \A d \in DOMAIN frames[t] : ReceiptsOf(frames[t][d].id) = {}
  BY DEF IntegrationInv, ReceiptsOf
<1>3. ASSUME NEW j \in DOMAIN told, NEW k \in DOMAIN told, NEW i \in ReceiptsOf(told[j].id), NEW h \in ReceiptsOf(told[k].id),
             written[i].says.cid = written[h].says.cid
      PROVE  told[j].thread = told[k].thread
  <2>1. Owns(told[j].thread, written[i].says.cid) /\ Owns(told[k].thread, written[h].says.cid)
    BY DEF Owns
  <2>2. told[j].thread \in Thread /\ told[k].thread \in Thread
    <3>1. told[j] \in ToldCalls /\ told[k] \in ToldCalls
      BY DEF IntegrationInv
    <3> QED BY <3>1 DEF ToldCalls
  <2> QED BY <1>3, <2>1, <2>2 DEF IntegrationInv
<1> QED BY <1>1, <1>2, <1>3 DEF HostKnows

-----------------------------------------------------------------------------
(* Importer *)

NumberGood(records) == Cardinality(Good(records))

LEMMA GoodTail ==
  ASSUME NEW s \in Seq(Kind), s # <<>>
  PROVE  /\ Head(s) \in Kind /\ Tail(s) \in Seq(Kind)
         /\ NumberGood(Tail(s)) \in Nat
         /\ NumberGood(s) = NumberGood(Tail(s)) + (IF Head(s) = "good" THEN 1 ELSE 0)
<1> DEFINE t == Tail(s)
           S == Good(t)
           T == Good(s) \ {1}
           f == [j \in S |-> j + 1]
<1>1. /\ t \in Seq(Kind) /\ Head(s) = s[1] /\ Head(s) \in Kind /\ 1 \in DOMAIN s
      /\ \A j \in DOMAIN t : j \in Nat \ {0} /\ j + 1 \in DOMAIN s /\ t[j] = s[j + 1]
      /\ \A j \in DOMAIN s : j # 1 => j - 1 \in DOMAIN t /\ s[j] = t[j - 1]
  OBVIOUS
<1> HIDE DEF t
<1>2. IsFiniteSet(S) /\ IsFiniteSet(Good(s))
  BY <1>1, IndexesFinite, FS_Subset DEF Good
<1>3. f \in [S -> T] /\ \A j \in S : f[j] = j + 1 /\ j \in Nat
  BY <1>1 DEF Good
<1>4. ASSUME NEW j \in T PROVE \E i \in S : f[i] = j
  <2>1. j \in DOMAIN s /\ j # 1 /\ s[j] = "good" /\ j \in Nat
    BY <1>4 DEF Good
  <2>2. j - 1 \in S /\ f[j - 1] = j
    BY <1>1, <2>1 DEF Good
  <2> QED BY <2>2
<1>5. \A a, b \in S : f[a] = f[b] => a = b
  BY <1>3
<1> HIDE DEF f, S, T
<1>6. Cardinality(T) = Cardinality(S)
  BY <1>2, <1>3, <1>4, <1>5, AsMany
<1>7. Cardinality(S) \in Nat /\ Cardinality(Good(s)) \in Nat
  BY <1>2, FS_CardinalityType
<1>8. Cardinality(T) = IF 1 \in Good(s) THEN Cardinality(Good(s)) - 1 ELSE Cardinality(Good(s))
  BY <1>2, FS_RemoveElement DEF T
<1>9. 1 \in Good(s) <=> Head(s) = "good"
  BY <1>1 DEF Good
<1> QED BY <1>1, <1>6, <1>7, <1>8, <1>9 DEF t, S, NumberGood

ImporterInv ==
  /\ export \in Exports
  /\ imports \in Nat
  /\ importer.pc # "idle" => imports # 0
  /\ importer = [x \in {"pc", "todo", "imported", "skipped", "first", "last"} |-> importer[x]]
  /\ importer.todo \in Seq(Kind) /\ importer.imported \in Nat /\ importer.skipped \in Nat
  /\ \A i \in WrittenBy("importer") : written[i].says \in 1..imports
  /\ importer.imported = Cardinality(OfThisRun)
  /\ IF OfThisRun = {} THEN importer.first = NoId
     ELSE /\ importer.first \in OfThisRun /\ importer.last \in OfThisRun
          /\ \A i \in OfThisRun : importer.first <= i /\ i <= importer.last
  /\ importer.pc \in {"reading", "done"} =>
       importer.imported + importer.skipped + NumberGood(importer.todo) = NumberGood(Yields(export))
  /\ importer.pc = "done" => importer.todo = <<>>

LEMMA YieldsKinds == ASSUME NEW e \in Exports PROVE Yields(e) \in Seq(Kind) 
<1>1. e.records \in Seq(Kind)
  <2>1. PICK n \in 1..MaxRecords : e.records \in [1..n -> Kind]
    BY DEF Exports, Export
  <2> QED BY <2>1, ImporterAssumption, IsASeq
<1>2. <<"odd">> \in Seq(Kind) /\ <<"good">> \in Seq(Kind) /\ <<>> \in Seq(Kind)
  BY DEF Kind
<1>3. e.shape \in {"object", "list", "lines"}
  BY DEF Exports, Export
<1> QED BY <1>1, <1>2, <1>3 DEF Yields

LEMMA WrittenFinite == ASSUME WrittenShape PROVE IsFiniteSet(OfThisRun)
<1>1. IsFiniteSet(DOMAIN written)
  BY IndexesFinite DEF WrittenShape
<1> QED BY <1>1, FS_Subset DEF OfThisRun, WrittenBy

LEMMA NoneGood == NumberGood(<<>>) = 0
  BY FS_EmptySet DEF NumberGood, Good

LEMMA ImporterStarts == ASSUME ImporterInit, WrittenInit PROVE ImporterInv
<1>1. WrittenBy("importer") = {} /\ OfThisRun = {}
  BY DEF WrittenInit, WrittenBy, OfThisRun
<1> QED BY <1>1, FS_EmptySet DEF ImporterInit, ImporterInv, NoImport

LEMMA ImporterRests ==
  ASSUME WrittenShape, ImporterInv, UNCHANGED importerVars, Untouched("importer")
  PROVE  ImporterInv'
<1>1. /\ WrittenBy("importer")' = WrittenBy("importer")
      /\ \A i \in WrittenBy("importer") : written'[i] = written[i]
  BY DEF Untouched
<1>2. OfThisRun' = OfThisRun
  BY <1>1 DEF OfThisRun, importerVars
<1> QED BY <1>1, <1>2 DEF ImporterInv, importerVars

LEMMA ImporterKeeps == ASSUME WrittenShape, ImporterInv, ImporterNext PROVE WrittenShape' /\ ImporterInv'
<1> USE DEF Importing
<1>u. ASSUME UNCHANGED written
      PROVE  /\ WrittenShape' /\ WrittenBy("importer")' = WrittenBy("importer")
             /\ \A i \in WrittenBy("importer") : written'[i] = written[i]
             /\ UNCHANGED imports => OfThisRun' = OfThisRun
  BY <1>u DEF WrittenShape, WrittenBy, OfThisRun
<1>1. CASE BeginImport
  <2>1. /\ imports' = imports + 1 /\ UNCHANGED <<export, written>>
        /\ importer' = [NoImport EXCEPT !.pc = "reading", !.todo = Yields(export)]
    BY <1>1 DEF BeginImport
  <2>2. /\ importer' = [x \in {"pc", "todo", "imported", "skipped", "first", "last"} |-> importer'[x]]
        /\ importer'.pc = "reading" /\ importer'.todo = Yields(export) /\ importer'.imported = 0
        /\ importer'.skipped = 0 /\ importer'.first = NoId
    BY <2>1 DEF NoImport
  <2>3. \A i \in WrittenBy("importer")' : written'[i].says \in 1..imports
    BY <1>u, <2>1 DEF ImporterInv
  <2>4. OfThisRun' = {}
    BY <2>1, <2>3 DEF OfThisRun, ImporterInv
  <2>5. Yields(export) \in Seq(Kind) /\ NumberGood(Yields(export)) \in Nat
    <3>1. Yields(export) \in Seq(Kind)
      BY YieldsKinds DEF ImporterInv
    <3>2. IsFiniteSet(Good(Yields(export)))
      BY <3>1, IndexesFinite, FS_Subset DEF Good
    <3> QED BY <3>1, <3>2, FS_CardinalityType DEF NumberGood
  <2>6. \A i \in WrittenBy("importer")' : written'[i].says \in 1..imports'
    BY <2>1, <2>3 DEF ImporterInv
  <2> QED BY <1>u, <2>1, <2>2, <2>4, <2>5, <2>6, FS_EmptySet DEF ImporterInv
<1>2. CASE ConverterRaises \/ EndImport
  <2>1. /\ UNCHANGED <<export, imports, written>>
        /\ \/ importer' = [importer EXCEPT !.pc = "raised"]
           \/ importer' = [importer EXCEPT !.pc = "done"] /\ importer.todo = <<>>
        /\ importer.pc = "reading"
    BY <1>2 DEF ConverterRaises, EndImport
  <2> QED BY <1>u, <2>1 DEF ImporterInv
<1>3. CASE PassOver
  <2>1. /\ UNCHANGED <<export, imports, written>> /\ importer.todo # <<>> /\ importer.pc = "reading"
        /\ Head(importer.todo) # "good" /\ importer' = [importer EXCEPT !.todo = Tail(@)]
    BY <1>3 DEF PassOver
  <2>2. Tail(importer.todo) \in Seq(Kind) /\ NumberGood(Tail(importer.todo)) = NumberGood(importer.todo)
    BY <2>1, GoodTail DEF ImporterInv
  <2> QED BY <1>u, <2>1, <2>2 DEF ImporterInv
<1>4. CASE ImportRecord
  <2>1. /\ UNCHANGED <<export, imports>> /\ importer.todo # <<>> /\ importer.pc = "reading"
        /\ Head(importer.todo) = "good"
        /\ \/ AppendWritten(Receipt("importer", imports)) /\ importer' = Counted(Len(written'))
           \/ importer' = [importer EXCEPT !.todo = Tail(@), !.skipped = @ + 1] /\ UNCHANGED written
    BY <1>4 DEF ImportRecord
  <2>2. /\ Tail(importer.todo) \in Seq(Kind) /\ NumberGood(Tail(importer.todo)) \in Nat
        /\ NumberGood(importer.todo) = NumberGood(Tail(importer.todo)) + 1
    BY <2>1, GoodTail DEF ImporterInv
  <2>3. CASE importer' = [importer EXCEPT !.todo = Tail(@), !.skipped = @ + 1] /\ UNCHANGED written
    <3>1. /\ importer' = [x \in {"pc", "todo", "imported", "skipped", "first", "last"} |-> importer'[x]]
          /\ importer'.pc = "reading" /\ importer'.todo = Tail(importer.todo)
          /\ importer'.imported = importer.imported /\ importer'.skipped = importer.skipped + 1
          /\ importer'.first = importer.first /\ importer'.last = importer.last
      BY <2>1, <2>3 DEF ImporterInv
    <3>2. importer.imported + importer.skipped + NumberGood(importer.todo) = NumberGood(Yields(export))
          /\ importer.imported \in Nat /\ importer.skipped \in Nat
      BY <2>1 DEF ImporterInv
    <3>3. importer'.imported + importer'.skipped + NumberGood(importer'.todo) = NumberGood(Yields(export'))
      <4>1. export' = export
        BY <2>1
      <4>2. importer.imported + (importer.skipped + 1) + NumberGood(Tail(importer.todo)) = NumberGood(Yields(export))
        <5>1. PICK all, rest, here, gone : /\ all = NumberGood(importer.todo) /\ rest = NumberGood(Tail(importer.todo))
                                          /\ here = importer.imported /\ gone = importer.skipped
          OBVIOUS
        <5>2. all = rest + 1 /\ rest \in Nat /\ here \in Nat /\ gone \in Nat
          BY <2>2, <3>2, <5>1
        <5>3. here + (gone + 1) + rest = here + gone + all
          BY <5>2
        <5> QED BY <3>2, <5>1, <5>3
      <4> QED BY <3>1, <4>1, <4>2
    <3> QED BY <1>u, <2>1, <2>2, <2>3, <3>1, <3>3 DEF ImporterInv
  <2>4. CASE AppendWritten(Receipt("importer", imports)) /\ importer' = Counted(Len(written'))
    <3> DEFINE n == Len(written) + 1
    <3>1. PICK r \in WrittenReceipts : r.by = "importer" /\ r.says = imports /\ written' = Append(written, r)
      BY <2>4 DEF AppendWritten, Receipt, WrittenReceipts, ImporterInv
    <3>2. /\ WrittenShape' /\ WrittenBy("importer")' = WrittenBy("importer") \cup {n}
          /\ \A i \in WrittenBy("importer") : written'[i] = written[i] /\ i \in Nat /\ i < n
          /\ written'[n] = r /\ n = Len(written') /\ n \in Nat
      BY <3>1, AppendLeaves DEF WrittenBy
    <3> HIDE DEF n
    <3>3. OfThisRun' = OfThisRun \cup {n} /\ n \notin OfThisRun /\ \A i \in OfThisRun : i \in Nat /\ i < n
      <4>1. imports' = imports /\ written'[n].says = imports /\ n \notin WrittenBy("importer")
        BY <2>1, <3>1, <3>2
      <4>2. OfThisRun \subseteq WrittenBy("importer")
        BY DEF OfThisRun
      <4>3. OfThisRun' = {i \in WrittenBy("importer") \cup {n} : written'[i].says = imports}
        BY <3>2, <4>1 DEF OfThisRun
      <4>4. OfThisRun = {i \in WrittenBy("importer") : written'[i].says = imports}
        BY <3>2 DEF OfThisRun
      <4> QED BY <3>2, <4>1, <4>2, <4>3, <4>4
    <3>4. Cardinality(OfThisRun') = Cardinality(OfThisRun) + 1
      BY <3>3, WrittenFinite, FS_AddElement
    <3>5. \A i \in WrittenBy("importer")' : written'[i].says \in 1..imports'
      <4>1. WrittenBy("importer") \cup {n} = WrittenBy("importer")' /\ imports' = imports
        BY <2>1, <3>2
      <4>2. imports \in 1..imports
        BY <2>1 DEF ImporterInv
      <4>3. \A i \in WrittenBy("importer") : written'[i].says \in 1..imports
        BY <3>2 DEF ImporterInv
      <4>4. written'[n].says \in 1..imports
        BY <3>1, <3>2, <4>2
      <4> QED BY <4>1, <4>3, <4>4
    <3>6. importer' = [importer EXCEPT !.todo = Tail(@), !.imported = @ + 1,
                   !.first = IF @ = NoId THEN n ELSE @, !.last = n]
      BY <2>4, <3>2 DEF Counted
    <3>7. /\ importer' = [x \in {"pc", "todo", "imported", "skipped", "first", "last"} |-> importer'[x]]
          /\ importer'.pc = "reading" /\ importer'.todo = Tail(importer.todo)
          /\ importer'.imported = importer.imported + 1 /\ importer'.skipped = importer.skipped
          /\ importer'.first = (IF importer.first = NoId THEN n ELSE importer.first) /\ importer'.last = n
      BY <2>1, <3>6 DEF ImporterInv
    <3>8. /\ importer.imported + importer.skipped + NumberGood(importer.todo) = NumberGood(Yields(export))
          /\ importer.imported \in Nat /\ importer.skipped \in Nat /\ importer.imported = Cardinality(OfThisRun)
      BY <2>1 DEF ImporterInv
    <3>9. importer'.imported + importer'.skipped + NumberGood(importer'.todo) = NumberGood(Yields(export'))
      BY SMTT(30), <2>1, <2>2, <3>7, <3>8
    <3>10. /\ importer'.first \in OfThisRun' /\ importer'.last \in OfThisRun'
           /\ \A i \in OfThisRun' : importer'.first <= i /\ i <= importer'.last
      <4>1. CASE OfThisRun = {}
        <5>1. importer'.first = n
          BY <3>7, <4>1 DEF ImporterInv
        <5> QED BY <3>2, <3>3, <3>7, <4>1, <5>1
      <4>2. CASE OfThisRun # {}
        <5>1. importer.first \in OfThisRun /\ \A i \in OfThisRun : importer.first <= i
          BY <4>2 DEF ImporterInv
        <5>2. importer'.first = importer.first
          BY <3>3, <3>7, <5>1, ImporterAssumption
        <5> QED BY <3>2, <3>3, <3>7, <5>1, <5>2
      <4> QED BY <4>1, <4>2
    <3>11. importer'.imported = Cardinality(OfThisRun')
      BY <3>4, <3>7, <3>8
    <3>12. OfThisRun' # {}
      BY <3>3
    <3>13. /\ export' \in Exports /\ imports' \in Nat /\ importer'.todo \in Seq(Kind)
           /\ importer'.imported \in Nat /\ importer'.skipped \in Nat /\ imports' # 0
      BY <2>1, <2>2, <3>7, <3>8 DEF ImporterInv
    <3> QED BY <3>2, <3>5, <3>7, <3>9, <3>10, <3>11, <3>12, <3>13 DEF ImporterInv
  <2> QED BY <2>1, <2>3, <2>4
<1>5. CASE SomebodyAppends /\ UNCHANGED importerVars
  <2>1. PICK r \in WrittenReceipts : r.by = "somebody" /\ written' = Append(written, r)
    BY <1>5 DEF SomebodyAppends, AppendWritten, Receipt, WrittenReceipts
  <2> QED BY <1>5, <2>1, ImporterRests, AppendLeaves, OnlyOwn DEF SomebodyAppends
<1> QED BY <1>1, <1>2, <1>3, <1>4, <1>5 DEF ImporterNext

LEMMA ImporterSays == ASSUME ImporterInv PROVE ImportReport
  BY NoneGood DEF ImporterInv, ImportReport, Importing, NumberGood

-----------------------------------------------------------------------------
WrittenInv == WrittenShape /\ CallbackInv /\ IntegrationInv /\ ImporterInv

LEMMA WritersSee ==
  ASSUME [PeripheryNext]_peripheryVars
  PROVE  \/ CallbackNext /\ UNCHANGED <<integrationVars, importerVars>>
         \/ IntegrationNext /\ UNCHANGED <<callbackVars, importerVars>>
         \/ ImporterNext /\ UNCHANGED <<callbackVars, integrationVars>>
         \/ UNCHANGED <<written, callbackVars, integrationVars, importerVars>>
<1>1. CASE PartStep /\ OthersRest
  BY <1>1 DEF PartStep, OthersRest
<1>2. CASE UNCHANGED peripheryVars
  BY <1>2 DEF peripheryVars
<1> QED BY <1>1, <1>2 DEF PeripheryNext

\* Each of them appends receipts of its own.
LEMMA EachItsOwn ==
  ASSUME WrittenShape
  PROVE  /\ CallbackNext => Untouched("recorder") /\ Untouched("importer")
         /\ IntegrationNext => Untouched("callback") /\ Untouched("importer")
         /\ ImporterNext => Untouched("callback") /\ Untouched("recorder")
         /\ UNCHANGED written => Untouched("callback") /\ Untouched("recorder") /\ Untouched("importer")
<1>1. ASSUME NEW by, (\E says : AppendWritten(Receipt(by, says))) \/ UNCHANGED written
      PROVE  \A other : other # by => Untouched(other)
  BY <1>1, OnlyOwn
<1>2. CallbackNext => (\E says : AppendWritten(Receipt("callback", says))) \/ UNCHANGED written
  BY DEF CallbackNext, RecordPair
<1>3. IntegrationNext => (\E says : AppendWritten(Receipt("recorder", says))) \/ UNCHANGED written
  BY DEF IntegrationNext, EndAction, Record, HandleEvent
<1>4. ImporterNext => \/ (\E says : AppendWritten(Receipt("importer", says))) \/ UNCHANGED written
                      \/ \E says : AppendWritten(Receipt("somebody", says))
  BY DEF ImporterNext, BeginImport, ConverterRaises, PassOver, ImportRecord, EndImport, SomebodyAppends
<1> QED BY <1>1, <1>2, <1>3, <1>4

\* RecordsMatchCalls: receipts made outside the proxy are of the calls they
\* were made for, and the program that made them is told the truth.
THEOREM RecordsAreOfTheirCalls == PeripherySpec => []RecordsMatchCalls
<1>1. PeripheryInit => WrittenInv
  BY CallbackStarts, IntegrationStarts, ImporterStarts DEF PeripheryInit, WrittenInv
<1>2. WrittenInv /\ [PeripheryNext]_peripheryVars => WrittenInv'
  <2> SUFFICES ASSUME WrittenInv, [PeripheryNext]_peripheryVars PROVE WrittenInv'
    OBVIOUS
  <2>0. WrittenShape /\ CallbackInv /\ IntegrationInv /\ ImporterInv
    BY DEF WrittenInv
  <2>1. CASE CallbackNext /\ UNCHANGED <<integrationVars, importerVars>>
    BY <2>0, <2>1, EachItsOwn, CallbackKeeps, IntegrationRests, ImporterRests DEF WrittenInv
  <2>2. CASE IntegrationNext /\ UNCHANGED <<callbackVars, importerVars>>
    BY <2>0, <2>2, EachItsOwn, CallbackRests, IntegrationKeeps, ImporterRests DEF WrittenInv
  <2>3. CASE ImporterNext /\ UNCHANGED <<callbackVars, integrationVars>>
    BY <2>0, <2>3, EachItsOwn, CallbackRests, IntegrationRests, ImporterKeeps DEF WrittenInv
  <2>4. CASE UNCHANGED <<written, callbackVars, integrationVars, importerVars>>
    <3>1. WrittenShape'
      BY <2>0, <2>4 DEF WrittenShape
    <3> QED BY <2>0, <2>4, <3>1, EachItsOwn, CallbackRests, IntegrationRests, ImporterRests DEF WrittenInv
  <2> QED BY <2>1, <2>2, <2>3, <2>4, WritersSee
<1>3. WrittenInv => RecordsMatchCalls
  BY CallbackSays, IntegrationSays, ImporterSays DEF WrittenInv, RecordsMatchCalls
<1> QED BY <1>1, <1>2, <1>3, PTL DEF PeripherySpec

-----------------------------------------------------------------------------
(* Statements *)

\* The receipts of the vault and the envelopes made of them.
CanonicalForms ==
  [id : Nat, key : Nat, version : {2, 3}, identity : {"operator", "unsigned"}]
SignedReceipts ==
  [id : Nat, key : Nat, version : {2, 3}, identity : {"operator"},
   payload_sha256 : CanonicalForms, signature : [by : Nat, over : CanonicalForms]]
Envelopes ==
  [protected : {Protected}, payload : CanonicalForms,
   unprotected : [kid : Nat, receipt_id : Nat, payload_sha256 : CanonicalForms],
   signature : [by : Nat, over : {"Signature1"} \X {Protected} \X CanonicalForms]]

IsSigned(r) == r.payload_sha256 = Canonical(r) /\ r.signature = [by |-> r.key, over |-> Canonical(r)]

\* Each receipt has its place for an id, and was signed by a key there has been.
ReceiptsSound ==
  /\ signer \in Nat \ {0}
  /\ receipts \in Seq(SignedReceipts)
  /\ \A i \in DOMAIN receipts :
       receipts[i].id = i /\ receipts[i].key \in 1..signer /\ IsSigned(receipts[i])

PackedShape ==
  [pc : {"keys", "rows", "written"}, keys : SUBSET Nat, rows : Seq(SignedReceipts),
   envelopes : Seq(Envelopes), from : Nat, signers : Seq(Nat)]

\* A bundle under way: the keys are those of the receipts there were, the rows
\* a prefix of the receipts there are, the envelopes those of the first rows.
PackedSound ==
  packed # NoBundle =>
    /\ packed \in PackedShape
    /\ packed.from <= Len(receipts)
    /\ \A i \in 1..packed.from : receipts[i].key \in packed.keys
    /\ signer = 1 => 1 \in packed.keys
    /\ packed.pc # "keys" => packed.from <= Len(packed.rows)
    /\ packed.pc = "written" => Len(packed.envelopes) = Len(packed.rows)
    /\ Len(packed.rows) <= Len(receipts)
    /\ \A i \in 1..Len(packed.rows) : packed.rows[i] = receipts[i]
    /\ Len(packed.envelopes) <= Len(packed.rows)
    /\ Len(packed.signers) = Len(packed.envelopes)
    /\ \A i \in 1..Len(packed.envelopes) :
         /\ packed.signers[i] \in 1..signer
         /\ packed.envelopes[i] = EnvelopeForReceipt(receipts[i], packed.signers[i])

StatementsInv == ReceiptsSound /\ PackedSound /\ LinksHold

-----------------------------------------------------------------------------
LEMMA StatementsStart == ASSUME StatementsInit PROVE StatementsInv
<1>1. receipts = << >> /\ signer = 1 /\ packed = NoBundle /\ link = [pc |-> "none"]
  BY DEF StatementsInit
<1>2. ReceiptsSound
  BY <1>1 DEF ReceiptsSound
<1> QED BY <1>1, <1>2 DEF StatementsInv, PackedSound, LinksHold

\* The canonical form of a receipt is one, and says what it is of.
LEMMA CanonicalSays ==
  ASSUME NEW r \in SignedReceipts
  PROVE  /\ Canonical(r) \in CanonicalForms
         /\ Canonical(r).id = r.id /\ Canonical(r).key = r.key /\ Canonical(r).version = r.version
         /\ r.version >= 3 => Canonical(r).identity = "operator"
  BY DEF SignedReceipts, CanonicalForms, Canonical

\* What is known of a bundle under way.
LEMMA BundleSoFar ==
  ASSUME StatementsInv, NEW p, p = packed, packed # NoBundle
  PROVE  /\ p \in PackedShape /\ p.from \in Nat /\ p.from <= Len(receipts)
         /\ \A i \in 1..p.from : receipts[i].key \in p.keys
         /\ signer = 1 => 1 \in p.keys
         /\ p.pc # "keys" => p.from <= Len(p.rows)
         /\ p.pc = "written" => Len(p.envelopes) = Len(p.rows)
         /\ Len(p.rows) <= Len(receipts) /\ Len(p.rows) \in Nat /\ Len(p.envelopes) \in Nat
         /\ \A i \in 1..Len(p.rows) : p.rows[i] = receipts[i]
         /\ Len(p.envelopes) <= Len(p.rows)
         /\ Len(p.signers) = Len(p.envelopes)
         /\ DOMAIN p.envelopes = 1..Len(p.envelopes)
         /\ \A i \in 1..Len(p.envelopes) :
              /\ p.signers[i] \in 1..signer
              /\ p.envelopes[i] = EnvelopeForReceipt(receipts[i], p.signers[i])
<1>1. PackedSound /\ p = packed
  BY DEF StatementsInv
<1>2. p \in PackedShape
  BY <1>1 DEF PackedSound
<1>3. /\ p.from \in Nat /\ Len(p.rows) \in Nat /\ Len(p.envelopes) \in Nat
      /\ DOMAIN p.envelopes = 1..Len(p.envelopes)
  BY <1>2 DEF PackedShape
<1> QED BY <1>1, <1>2, <1>3 DEF PackedSound

\* Nothing said of the receipts so far is undone by another.
LEMMA ReceiptsOnlyGrow ==
  ASSUME StatementsInv, UNCHANGED <<packed, link>>,
         NEW more \in Seq(SignedReceipts), receipts' = more, Len(receipts) <= Len(more),
         \A i \in DOMAIN receipts : more[i] = receipts[i],
         signer' \in Nat, signer <= signer'
  PROVE  PackedSound' /\ LinksHold'
<1>1. /\ receipts \in Seq(SignedReceipts) /\ signer \in Nat \ {0}
      /\ \A i \in DOMAIN receipts : i \in DOMAIN more
      /\ DOMAIN receipts = 1..Len(receipts) /\ Len(receipts) \in Nat /\ Len(more) \in Nat
  BY DEF StatementsInv, ReceiptsSound
<1>2. LinksHold'
  BY <1>1 DEF StatementsInv, LinksHold, VerifyPayload, VerifyBytes, SignBytes, Canonical
<1>3. ASSUME packed # NoBundle PROVE PackedSound'
  <2>1. PICK p : p = packed
    OBVIOUS
  <2>2. /\ p \in PackedShape /\ p.from \in Nat /\ p.from <= Len(receipts)
        /\ \A i \in 1..p.from : receipts[i].key \in p.keys
        /\ signer = 1 => 1 \in p.keys
        /\ p.pc # "keys" => p.from <= Len(p.rows)
        /\ p.pc = "written" => Len(p.envelopes) = Len(p.rows)
        /\ Len(p.rows) <= Len(receipts) /\ Len(p.rows) \in Nat /\ Len(p.envelopes) \in Nat
        /\ \A i \in 1..Len(p.rows) : p.rows[i] = receipts[i]
        /\ Len(p.envelopes) <= Len(p.rows)
        /\ Len(p.signers) = Len(p.envelopes)
        /\ \A i \in 1..Len(p.envelopes) :
             /\ p.signers[i] \in 1..signer
             /\ p.envelopes[i] = EnvelopeForReceipt(receipts[i], p.signers[i])
    BY <1>3, <2>1, BundleSoFar
  <2>3. \A i \in 1..Len(p.envelopes) :
             /\ p.signers[i] \in 1..signer'
             /\ p.envelopes[i] = EnvelopeForReceipt(more[i], p.signers[i])
    <3>1. TAKE i \in 1..Len(p.envelopes)
    <3>2. i \in DOMAIN receipts
      BY <1>1, <2>2
    <3>3. more[i] = receipts[i]
      BY <3>2
    <3>4. p.signers[i] \in 1..signer /\ p.envelopes[i] = EnvelopeForReceipt(receipts[i], p.signers[i])
      BY <2>2
    <3> QED BY <1>1, <3>3, <3>4
  <2>4. /\ \A i \in 1..p.from : more[i].key \in p.keys
        /\ \A i \in 1..Len(p.rows) : p.rows[i] = more[i]
        /\ signer' = 1 => 1 \in p.keys
        /\ p.from <= Len(more) /\ Len(p.rows) <= Len(more)
    <3>1. /\ \A i \in 1..p.from : i \in DOMAIN receipts /\ more[i] = receipts[i]
          /\ \A i \in 1..Len(p.rows) : i \in DOMAIN receipts /\ more[i] = receipts[i]
      <4>1. \A n \in Nat : n <= Len(receipts) => \A i \in 1..n : i \in DOMAIN receipts
        BY <1>1
      <4> QED BY <2>2, <4>1
    <3> QED BY <1>1, <2>2, <3>1
  <2> QED BY <2>1, <2>2, <2>3, <2>4 DEF PackedSound
<1> QED BY <1>2, <1>3 DEF PackedSound, NoBundle

LEMMA StatementsKeepReceipts ==
  ASSUME StatementsInv, AppendSigned \/ ReplaceSigner
  PROVE  StatementsInv'
<1>0. receipts \in Seq(SignedReceipts) /\ signer \in Nat \ {0}
  BY DEF StatementsInv, ReceiptsSound
<1>1. CASE AppendSigned
  <2>0. PICK version \in {2, 3} : receipts' = Append(receipts, NewReceipt(Len(receipts) + 1, version))
    BY <1>1 DEF AppendSigned
  <2>1. PICK r : r = NewReceipt(Len(receipts) + 1, version) /\ receipts' = Append(receipts, r)
    BY <2>0
  <2>2. UNCHANGED <<signer, packed, link>>
    BY <1>1 DEF AppendSigned
  <2>3. PICK c : c = Canonical([id |-> Len(receipts) + 1, key |-> signer, version |-> version, identity |-> "operator"])
    OBVIOUS
  <2>4. r = [id |-> Len(receipts) + 1, key |-> signer, version |-> version, identity |-> "operator",
             payload_sha256 |-> c, signature |-> [by |-> signer, over |-> c]]
    BY <2>1, <2>3 DEF NewReceipt, SignBytes
  <2>5. c \in CanonicalForms /\ c = Canonical(r)
    BY <1>0, <2>3, <2>4 DEF CanonicalForms, Canonical
  <2>6. r \in SignedReceipts /\ r.id = Len(receipts) + 1 /\ r.key \in 1..signer /\ IsSigned(r)
    BY <1>0, <2>4, <2>5 DEF SignedReceipts, IsSigned
  <2>7. PICK more : more = Append(receipts, r)
    OBVIOUS
  <2>8. /\ more \in Seq(SignedReceipts) /\ Len(more) = Len(receipts) + 1 /\ more[Len(more)] = r
        /\ \A i \in DOMAIN receipts : more[i] = receipts[i]
    BY <1>0, <2>6, <2>7
  <2>9. ReceiptsSound'
    <3>1. ASSUME NEW i \in DOMAIN more PROVE more[i].id = i /\ more[i].key \in 1..signer /\ IsSigned(more[i])
      <4>1. CASE i \in DOMAIN receipts
        BY <2>8, <4>1 DEF StatementsInv, ReceiptsSound
      <4>2. CASE i \notin DOMAIN receipts
        BY <1>0, <2>6, <2>8, <3>1, <4>2
      <4> QED BY <4>1, <4>2
    <3> QED BY <1>0, <2>1, <2>2, <2>7, <2>8, <3>1 DEF ReceiptsSound, IsSigned, Canonical
  <2>10. receipts' = more /\ Len(receipts) <= Len(more) /\ signer' \in Nat /\ signer <= signer'
    BY <1>0, <2>1, <2>2, <2>7, <2>8
  <2> QED BY <2>2, <2>8, <2>9, <2>10, ReceiptsOnlyGrow DEF StatementsInv
<1>2. CASE ReplaceSigner
  <2>1. signer' = signer + 1 /\ UNCHANGED <<receipts, packed, link>>
    BY <1>2 DEF ReplaceSigner
  <2>2. ReceiptsSound'
    BY <1>0, <2>1 DEF StatementsInv, ReceiptsSound, IsSigned, Canonical
  <2>3. PICK more : more = receipts
    OBVIOUS
  <2>4. /\ receipts' = more /\ Len(receipts) <= Len(more) /\ signer' \in Nat /\ signer <= signer'
        /\ \A i \in DOMAIN receipts : more[i] = receipts[i] /\ more \in Seq(SignedReceipts)
        /\ more \in Seq(SignedReceipts)
    BY <1>0, <2>1, <2>3
  <2> QED BY <2>1, <2>2, <2>4, ReceiptsOnlyGrow DEF StatementsInv
<1> QED BY <1>1, <1>2

LEMMA SendKeeps == ASSUME StatementsInv, SendLink PROVE StatementsInv'
<1>0. PICK i \in DOMAIN receipts : LET payload == BuildPayload(receipts[i]) IN
        \E copy \in Copies(payload) :
          link' = [pc |-> "arrived", payload |-> copy,
                   intact |-> copy.receipt = payload.receipt /\ copy.public_key = payload.public_key]
  BY DEF SendLink
<1>1. PICK payload, copy :
        /\ payload = BuildPayload(receipts[i]) /\ copy \in Copies(payload)
        /\ link' = [pc |-> "arrived", payload |-> copy,
                    intact |-> copy.receipt = payload.receipt /\ copy.public_key = payload.public_key]
  BY <1>0
<1>2. UNCHANGED <<signer, receipts, packed>>
  BY DEF SendLink
<1>3. PICK r, c : r = receipts[i] /\ c = Canonical(r)
  OBVIOUS
<1>4. /\ r \in SignedReceipts /\ r.id = i /\ r.key \in 1..signer /\ signer \in Nat \ {0}
      /\ r.payload_sha256 = c /\ r.signature = [by |-> r.key, over |-> c]
  BY <1>3 DEF StatementsInv, ReceiptsSound, IsSigned
<1>5. /\ c \in CanonicalForms /\ c.id = r.id /\ c.key = r.key /\ c.version = r.version
      /\ r.version >= 3 => c.identity = "operator"
  BY <1>3, <1>4, CanonicalSays
<1>6. payload = [receipt |-> r, body_canon |-> <<c>>, public_key |-> signer]
  BY <1>1, <1>3 DEF BuildPayload
<1>7. PICK shown, body, key : shown = copy.receipt /\ body = copy.body_canon /\ key = copy.public_key
  OBVIOUS
<1>8. \/ shown = r /\ key = signer /\ body \in {<<>>, <<c>>}
      \/ shown = r /\ key = 0
      \/ shown \in Altered(r) /\ key = signer
  <2>1. PICK altered : altered = Altered(r)
    OBVIOUS
  <2>2. \/ copy = payload \/ copy = [payload EXCEPT !.public_key = 0]
        \/ copy = [payload EXCEPT !.body_canon = <<>>]
        \/ \E a \in altered : copy = [payload EXCEPT !.receipt = a]
    BY <1>1, <1>6, <2>1 DEF Copies
  <2> QED BY <1>6, <1>7, <2>1, <2>2
<1>9. VerifyPayload(copy) <=> /\ body \in {<<>>, <<Canonical(shown)>>}
                              /\ shown.signature = [by |-> key, over |-> Canonical(shown)]
  BY <1>7 DEF VerifyPayload, VerifyBytes, SignBytes
<1>10. i \in Nat \ {0} /\ r.id = i
  BY <1>1, <1>4 DEF StatementsInv, ReceiptsSound
<1>11. \A altered \in Altered(r) : altered # r
  BY <1>4, <1>5, <1>10 DEF Altered, SignedReceipts, CanonicalForms
<1>12. (shown = r /\ key = signer) => (VerifyPayload(copy) <=> shown.key = key)
  <2>1. ASSUME shown = r, key = signer PROVE VerifyPayload(copy) <=> shown.key = key
    <3>1. body \in {<<>>, <<c>>}
      BY <1>8, <1>11, <1>4, <2>1
    <3> QED BY <1>3, <1>4, <1>9, <2>1, <3>1
  <2> QED BY <2>1
<1>13. ASSUME VerifyPayload(copy)
       PROVE  /\ shown.id = i
              /\ \A field \in Bound(r) : shown[field] = r[field]
  <2>1. shown.signature = [by |-> key, over |-> Canonical(shown)]
    BY <1>9, <1>13
  <2>2. CASE shown = r
    BY <1>4, <2>2
  <2>3. CASE shown \in Altered(r) /\ key = signer
    <3>1. shown.signature.over = Canonical(shown) /\ shown.signature.by = signer /\ signer # 0
      BY <1>4, <2>1, <2>3
    <3>2. shown.signature.over = c
      BY <1>4, <1>5, <2>3 DEF Altered, SignedReceipts
    <3>3. /\ Canonical(shown).id = shown.id /\ Canonical(shown).key = shown.key
          /\ Canonical(shown).version = shown.version
          /\ shown.version >= 3 => Canonical(shown).identity = shown.identity
      BY DEF Canonical
    <3>4. /\ shown.id = r.id /\ shown.key = r.key /\ shown.version = r.version
          /\ r.version >= 3 => shown.identity = r.identity
      BY <1>4, <1>5, <3>1, <3>2, <3>3 DEF SignedReceipts
    <3>5. shown.signature = r.signature
      BY <1>4, <2>3, <3>1 DEF Altered, SignedReceipts
    <3> QED BY <1>4, <3>4, <3>5 DEF Bound
  <2> QED BY <1>8, <2>2, <2>3
<1>14. LinksHold'
  <2>1. /\ link'.pc = "arrived" /\ link'.payload = copy /\ link'.payload.receipt = shown
        /\ link'.payload.public_key = key
        /\ link'.intact <=> (shown = r /\ key = signer)
    <3>1. payload.receipt = r /\ payload.public_key = signer
      BY <1>6
    <3>2. PICK intact \in BOOLEAN : intact <=> (shown = r /\ key = signer)
      OBVIOUS
    <3>3. link' = [pc |-> "arrived", payload |-> copy, intact |-> shown = r /\ key = signer]
      BY <1>1, <1>7, <3>1
    <3> QED BY <1>7, <3>3
  <2>2. VerifyPayload(link'.payload) <=> VerifyPayload(copy)
    BY <2>1
  <2>3. ASSUME VerifyPayload(copy)
        PROVE  shown.id \in DOMAIN receipts /\ \A field \in Bound(receipts[shown.id]) : shown[field] = receipts[shown.id][field]
    BY <1>1, <1>3, <1>13, <2>3
  <2> HIDE DEF VerifyPayload, Bound
  <2> QED BY <1>2, <1>12, <2>1, <2>2, <2>3 DEF LinksHold
<1> QED BY <1>2, <1>14 DEF StatementsInv, ReceiptsSound, PackedSound, IsSigned, Canonical

LEMMA BundleKeeps ==
  ASSUME StatementsInv, BeginBundle \/ ListReceipts \/ WrapNext \/ WriteBundle
  PROVE  StatementsInv'
<1>1. UNCHANGED <<signer, receipts, link>>
  BY DEF BeginBundle, ListReceipts, WrapNext, WriteBundle
<1>2. ReceiptsSound' /\ LinksHold'
  BY <1>1 DEF StatementsInv, ReceiptsSound, IsSigned, Canonical, LinksHold, VerifyPayload, VerifyBytes, SignBytes, Bound
<1>3. /\ receipts \in Seq(SignedReceipts) /\ signer \in Nat \ {0} /\ Len(receipts) \in Nat
      /\ DOMAIN receipts = 1..Len(receipts)
      /\ \A i \in DOMAIN receipts : receipts[i] \in SignedReceipts /\ IsSigned(receipts[i])
      /\ \A i \in DOMAIN receipts : receipts[i].key \in Nat
  <2>1. /\ receipts \in Seq(SignedReceipts) /\ signer \in Nat \ {0}
        /\ \A i \in DOMAIN receipts : IsSigned(receipts[i]) /\ receipts[i].key \in 1..signer
    BY DEF StatementsInv, ReceiptsSound
  <2>2. \A i \in DOMAIN receipts : receipts[i] \in SignedReceipts
    BY <2>1
  <2> QED BY <2>1, <2>2
<1>4. SUFFICES ASSUME NEW q, packed' = q
               PROVE  PackedSound'
  BY <1>2 DEF StatementsInv
<1>5. CASE BeginBundle
  <2>1. q = [pc |-> "keys", keys |-> KeyMaterial, rows |-> <<>>, envelopes |-> <<>>,
             from |-> Len(receipts), signers |-> <<>>]
    BY <1>4, <1>5 DEF BeginBundle
  <2>2. KeyMaterial \in SUBSET Nat /\ signer \in KeyMaterial /\ \A i \in DOMAIN receipts : receipts[i].key \in KeyMaterial
    BY <1>3 DEF KeyMaterial
  <2>3. q \in PackedShape /\ q.keys = KeyMaterial /\ q.from = Len(receipts) /\ q.pc = "keys"
        /\ q.rows = << >> /\ q.envelopes = << >> /\ q.signers = << >>
    BY <1>3, <2>1, <2>2 DEF PackedShape
  <2> QED BY <1>1, <1>3, <1>4, <2>2, <2>3 DEF PackedSound
<1>6. ASSUME packed # NoBundle, ListReceipts \/ WrapNext \/ WriteBundle PROVE PackedSound'
  <2>0. PICK p : p = packed
    OBVIOUS
  <2>1. /\ p \in PackedShape /\ p.from \in Nat /\ p.from <= Len(receipts)
        /\ \A i \in 1..p.from : receipts[i].key \in p.keys
        /\ signer = 1 => 1 \in p.keys
        /\ p.pc # "keys" => p.from <= Len(p.rows)
        /\ p.pc = "written" => Len(p.envelopes) = Len(p.rows)
        /\ Len(p.rows) <= Len(receipts) /\ Len(p.rows) \in Nat /\ Len(p.envelopes) \in Nat
        /\ \A i \in 1..Len(p.rows) : p.rows[i] = receipts[i]
        /\ Len(p.envelopes) <= Len(p.rows)
        /\ Len(p.signers) = Len(p.envelopes)
        /\ \A i \in 1..Len(p.envelopes) :
             /\ p.signers[i] \in 1..signer
             /\ p.envelopes[i] = EnvelopeForReceipt(receipts[i], p.signers[i])
    BY <1>6, <2>0, BundleSoFar
  <2>2. CASE ListReceipts
    <3>1. p.pc = "keys" /\ q = [p EXCEPT !.pc = "rows", !.rows = receipts]
      BY <1>4, <2>0, <2>2 DEF ListReceipts
    <3>2. /\ q \in PackedShape /\ q.keys = p.keys /\ q.from = p.from /\ q.pc = "rows"
          /\ q.rows = receipts /\ q.envelopes = p.envelopes /\ q.signers = p.signers
      BY <1>3, <2>1, <3>1 DEF PackedShape
    <3>3. Len(p.rows) <= Len(receipts) /\ Len(p.envelopes) <= Len(receipts)
      BY <1>3, <2>1
    <3> HIDE DEF PackedShape
    <3> QED BY <1>1, <1>3, <1>4, <2>1, <3>2, <3>3 DEF PackedSound, EnvelopeForReceipt
  <2>3. CASE WrapNext
    <3>1. PICK n, e : n = Len(p.envelopes) + 1 /\ e = EnvelopeForReceipt(p.rows[n], signer)
      OBVIOUS
    <3>2. /\ p.pc = "rows" /\ Len(p.envelopes) < Len(p.rows)
          /\ q = [p EXCEPT !.envelopes = Append(@, e), !.signers = Append(@, signer)]
      BY <1>4, <2>0, <2>3, <3>1 DEF WrapNext
    <3>3. n \in 1..Len(p.rows) /\ p.rows[n] = receipts[n] /\ n \in DOMAIN receipts
      <4>1. n \in 1..Len(p.rows) /\ Len(p.rows) <= Len(receipts)
        BY <2>1, <3>1, <3>2
      <4>2. n \in 1..Len(receipts)
        BY <1>3, <4>1
      <4> QED BY <1>3, <2>1, <4>1, <4>2
    <3>4. e \in Envelopes
      <4>1. PICK r, c : r = receipts[n] /\ c = r.payload_sha256
        OBVIOUS
      <4>2. r \in SignedReceipts /\ c \in CanonicalForms /\ r.key \in Nat /\ r.id \in Nat
        BY <1>3, <3>3, <4>1 DEF SignedReceipts
      <4>3. PICK o : o = SigStructure(Protected, c)
        OBVIOUS
      <4>4. o \in {"Signature1"} \X {Protected} \X CanonicalForms
        BY <4>2, <4>3 DEF SigStructure
      <4>5. e = [protected |-> Protected, payload |-> c,
                 unprotected |-> [kid |-> r.key, receipt_id |-> r.id, payload_sha256 |-> c],
                 signature |-> [by |-> signer, over |-> o]]
        BY <3>1, <3>3, <4>1, <4>3 DEF EnvelopeForReceipt, SignBytes
      <4> QED BY <1>3, <4>2, <4>4, <4>5 DEF Envelopes
    <3>5. p.envelopes \in Seq(Envelopes) /\ p.signers \in Seq(Nat) /\ Len(p.signers) = Len(p.envelopes)
      BY <2>1 DEF PackedShape
    <3>6. PICK es, ss : es = Append(p.envelopes, e) /\ ss = Append(p.signers, signer)
      OBVIOUS
    <3>7. /\ es \in Seq(Envelopes) /\ ss \in Seq(Nat) /\ Len(es) = n /\ Len(ss) = n
          /\ es[n] = e /\ ss[n] = signer
          /\ \A i \in 1..Len(p.envelopes) : es[i] = p.envelopes[i] /\ ss[i] = p.signers[i]
      BY <1>3, <3>1, <3>4, <3>5, <3>6
    <3>8. /\ q \in PackedShape /\ q.keys = p.keys /\ q.from = p.from /\ q.pc = "rows"
          /\ q.rows = p.rows /\ q.envelopes = es /\ q.signers = ss
      BY <2>1, <3>2, <3>6, <3>7 DEF PackedShape
    <3>9. \A i \in 1..n : ss[i] \in 1..signer /\ es[i] = EnvelopeForReceipt(receipts[i], ss[i])
      <4>1. TAKE i \in 1..n
      <4>2. CASE i = n
        BY <1>3, <3>1, <3>3, <3>7, <4>2
      <4>3. CASE i # n
        <5>1. i \in 1..Len(p.envelopes)
          BY <2>1, <3>1, <4>3
        <5> QED BY <2>1, <3>7, <5>1
      <4> QED BY <4>2, <4>3
    <3>10. n <= Len(p.rows) /\ p.from <= Len(p.rows)
      BY <2>1, <3>2, <3>3
    <3> HIDE DEF PackedShape
    <3> QED BY <1>1, <1>4, <2>1, <3>7, <3>8, <3>9, <3>10 DEF PackedSound, EnvelopeForReceipt
  <2>4. CASE WriteBundle
    <3>1. p.pc = "rows" /\ Len(p.envelopes) = Len(p.rows) /\ q = [p EXCEPT !.pc = "written"]
      BY <1>4, <2>0, <2>4 DEF WriteBundle
    <3>2. /\ q \in PackedShape /\ q.keys = p.keys /\ q.from = p.from /\ q.pc = "written"
          /\ q.rows = p.rows /\ q.envelopes = p.envelopes /\ q.signers = p.signers
      BY <2>1, <3>1 DEF PackedShape
    <3> QED BY <1>1, <1>4, <2>1, <3>1, <3>2 DEF PackedSound, EnvelopeForReceipt
  <2> QED BY <1>6, <2>2, <2>3, <2>4
<1>7. ASSUME ListReceipts \/ WrapNext \/ WriteBundle PROVE packed # NoBundle
  BY <1>7 DEF ListReceipts, WrapNext, WriteBundle, NoBundle
<1> QED BY <1>5, <1>6, <1>7

LEMMA StatementsKeep == ASSUME StatementsInv, StatementsNext PROVE StatementsInv'
  BY StatementsKeepReceipts, SendKeeps, BundleKeeps DEF StatementsNext

LEMMA StatementsSay == ASSUME StatementsInv PROVE LinksHold /\ BundleHolds
<1>1. ASSUME packed.pc = "written" PROVE BundleHolds
  <2>0. packed # NoBundle
    BY <1>1 DEF NoBundle
  <2>1. PICK p : p = packed
    OBVIOUS
  <2>2. /\ p \in PackedShape /\ p.from \in Nat /\ p.from <= Len(receipts)
        /\ \A i \in 1..p.from : receipts[i].key \in p.keys
        /\ signer = 1 => 1 \in p.keys
        /\ p.from <= Len(p.rows) /\ Len(p.envelopes) = Len(p.rows)
        /\ Len(p.rows) <= Len(receipts) /\ Len(p.rows) \in Nat
        /\ DOMAIN p.envelopes = 1..Len(p.envelopes)
        /\ \A i \in 1..Len(p.envelopes) :
             /\ p.signers[i] \in 1..signer
             /\ p.envelopes[i] = EnvelopeForReceipt(receipts[i], p.signers[i])
    BY <1>1, <2>0, <2>1, BundleSoFar
  <2>3. ASSUME NEW i \in DOMAIN p.envelopes
        PROVE  /\ p.envelopes[i].unprotected.receipt_id = i
               /\ p.envelopes[i].payload = receipts[i].payload_sha256
               /\ \A key : VerifyEnvelopeSignature(p.envelopes[i], key) <=> key = p.signers[i]
               /\ p.envelopes[i].unprotected.kid = receipts[i].key
               /\ receipts[i].key \in 1..signer /\ p.signers[i] \in 1..signer
    <3>1. i \in DOMAIN receipts /\ receipts[i].id = i /\ receipts[i].key \in 1..signer
      BY <2>2, <2>3 DEF StatementsInv, ReceiptsSound
    <3>2. PICK r, k, e : r = receipts[i] /\ k = p.signers[i] /\ e = p.envelopes[i]
      OBVIOUS
    <3>3. e = EnvelopeForReceipt(r, k) /\ k \in 1..signer
      BY <2>2, <2>3, <3>2
    <3>4. /\ e.unprotected.receipt_id = r.id /\ e.unprotected.kid = r.key /\ e.payload = r.payload_sha256
          /\ e.protected = Protected /\ e.signature = [by |-> k, over |-> SigStructure(Protected, r.payload_sha256)]
      BY <3>3 DEF EnvelopeForReceipt, SignBytes
    <3>5. \A key : VerifyEnvelopeSignature(e, key) <=> key = k
      <4>1. PICK o : o = SigStructure(Protected, r.payload_sha256)
        OBVIOUS
      <4>2. \A key : VerifyEnvelopeSignature(e, key) <=> [by |-> k, over |-> o] = [by |-> key, over |-> o]
        BY <3>4, <4>1 DEF VerifyEnvelopeSignature, VerifyBytes, SignBytes
      <4> QED BY <4>2
    <3> QED BY <3>1, <3>2, <3>3, <3>4, <3>5
  <2>4. signer \in Nat \ {0}
    BY DEF StatementsInv, ReceiptsSound
  <2>5. signer = 1 => \A i \in DOMAIN p.envelopes : receipts[i].key = 1 /\ p.signers[i] = 1
    BY <2>3, <2>4
  <2>6. Len(p.envelopes) >= p.from
    BY <2>2
  <2>7. \A i \in DOMAIN p.envelopes : i <= p.from => receipts[i].key \in p.keys
    BY <2>2
  <2>8. signer = 1 => \A i \in DOMAIN p.envelopes :
          /\ p.envelopes[i].unprotected.kid \in p.keys
          /\ VerifyEnvelopeSignature(p.envelopes[i], p.envelopes[i].unprotected.kid)
    <3>1. \A i \in DOMAIN p.envelopes :
            /\ p.envelopes[i].unprotected.kid = receipts[i].key
            /\ VerifyEnvelopeSignature(p.envelopes[i], receipts[i].key) <=> receipts[i].key = p.signers[i]
      BY <2>3
    <3> HIDE DEF VerifyEnvelopeSignature
    <3> QED BY <2>2, <2>5, <3>1
  <2> HIDE DEF VerifyEnvelopeSignature
  <2> QED BY ZenonT(40), <2>1, <2>3, <2>6, <2>7, <2>8 DEF BundleHolds
<1> QED BY <1>1 DEF StatementsInv, BundleHolds

-----------------------------------------------------------------------------
(* Peer witnesses *)

AskedSound ==
  asking # Nothing => /\ asking \in PeerRequest(RequestSignatures)
                      /\ asking.signature = [by |-> Operator, over |-> Unsealed(asking)]

\* A witness signs what it was asked, in time, by a request with a signature
\* of the operator, though perhaps not over this.
AttestationSound ==
  attestation # Nothing =>
    /\ attestation \in PeerAttestation(AttestationSignatures)
    /\ attestation.signature = [by |-> attestation.witness, over |-> Unsealed(attestation)]
    /\ attestation.claim = attestation.request.claim
    /\ attestation.observed_at <= time
    /\ asking # Nothing /\ attestation.request.signature = asking.signature

JudgedSound ==
  judged.pc = "judged" =>
    /\ asking # Nothing
    /\ judged.ok <=> /\ judged.shown = judged.signed
                     /\ judged.signed.witness \in KnownWitness
                     /\ judged.at < judged.signed.request.expires_at
    /\ judged.ok => /\ judged.signed.observed_at <= judged.at
                    /\ judged.signed.claim = judged.signed.request.claim
    /\ judged.ok /\ judged.ofOperator =>
         judged.signed.request = asking /\ judged.shown.claim = asking.claim

RouteSound ==
  /\ route.pc = "signed" => /\ route \in PeerRoute(RouteSignatures)
                            /\ route.signature = [by |-> Operator, over |-> Unsealed(route)]
  /\ route.pc = "judged" /\ route.ok =>
       route.signed.receipt = route.receipt /\ route.signed.probe = route.probe

PeerInv == time \in Nat /\ AskedSound /\ AttestationSound /\ JudgedSound /\ RouteSound

\* A signature is over everything but itself.
LEMMA SignsRequest ==
  ASSUME NEW S, NEW r \in PeerRequest(S), NEW key
  PROVE  /\ Unsealed(r) \in PeerRequest({Unsigned})
         /\ Signed(r, key) = [r EXCEPT !.signature = [by |-> key, over |-> Unsealed(r)]]
         /\ Signed(r, key).signature = [by |-> key, over |-> Unsealed(r)]
         /\ Unsealed(Signed(r, key)) = Unsealed(r)
         /\ \A q \in PeerRequest(S) : Unsealed(q) = Unsealed(r) /\ q.signature = r.signature => q = r
<1>1. PICK u : u = Unsealed(r)
  OBVIOUS
<1>2. u = [r EXCEPT !.signature = Unsigned]
  BY <1>1 DEF Unsealed
<1>3. PICK g : g = [by |-> key, over |-> u]
  OBVIOUS
<1>4. Signed(r, key) = [r EXCEPT !.signature = g]
  BY <1>1, <1>3 DEF Signed
<1>5. u \in PeerRequest({Unsigned})
  BY <1>2 DEF PeerRequest
<1>6. Signed(r, key).signature = g /\ Unsealed(Signed(r, key)) = u
  BY <1>2, <1>4 DEF PeerRequest, Unsealed
<1>7. ASSUME NEW q \in PeerRequest(S), Unsealed(q) = u, q.signature = r.signature PROVE q = r
  BY <1>2, <1>7 DEF Unsealed, PeerRequest
<1> QED BY <1>1, <1>3, <1>4, <1>5, <1>6, <1>7

LEMMA SignsAttestation ==
  ASSUME NEW S, NEW r \in PeerAttestation(S), NEW key
  PROVE  /\ Unsealed(r) \in PeerAttestation({Unsigned})
         /\ Signed(r, key) = [r EXCEPT !.signature = [by |-> key, over |-> Unsealed(r)]]
         /\ Signed(r, key).signature = [by |-> key, over |-> Unsealed(r)]
         /\ Unsealed(Signed(r, key)) = Unsealed(r)
         /\ \A q \in PeerAttestation(S) : Unsealed(q) = Unsealed(r) /\ q.signature = r.signature => q = r
<1>1. PICK u : u = Unsealed(r)
  OBVIOUS
<1>2. u = [r EXCEPT !.signature = Unsigned]
  BY <1>1 DEF Unsealed
<1>3. PICK g : g = [by |-> key, over |-> u]
  OBVIOUS
<1>4. Signed(r, key) = [r EXCEPT !.signature = g]
  BY <1>1, <1>3 DEF Signed
<1>5. u \in PeerAttestation({Unsigned})
  BY <1>2 DEF PeerAttestation
<1>6. Signed(r, key).signature = g /\ Unsealed(Signed(r, key)) = u
  BY <1>2, <1>4 DEF PeerAttestation, Unsealed
<1>7. ASSUME NEW q \in PeerAttestation(S), Unsealed(q) = u, q.signature = r.signature PROVE q = r
  BY <1>2, <1>7 DEF Unsealed, PeerAttestation
<1> QED BY <1>1, <1>3, <1>4, <1>5, <1>6, <1>7

LEMMA PeerStarts == ASSUME PeerInit PROVE PeerInv
  BY DEF PeerInit, PeerInv, AskedSound, AttestationSound, JudgedSound, RouteSound, Nothing

LEMMA PeerKeeps == ASSUME PeerInv, PeerNext PROVE PeerInv'
<1> USE PeerAssumption
<1>r. ASSUME UNCHANGED route PROVE RouteSound'
  BY <1>r DEF PeerInv, RouteSound, Unsealed
<1>1. CASE PassTime
  <2>1. time' = time + 1 /\ time \in Nat /\ UNCHANGED <<asking, attestation, judged, runner, route>>
    BY <1>1 DEF PassTime, PeerInv
  <2>2. AttestationSound'
    <3>1. ASSUME attestation # Nothing PROVE attestation.observed_at <= time'
      <4>1. attestation.observed_at \in Nat /\ attestation.observed_at <= time
        BY <3>1 DEF PeerInv, AttestationSound, PeerAttestation
      <4> QED BY <2>1, <4>1
    <3> QED BY <2>1, <3>1 DEF PeerInv, AttestationSound, Unsealed
  <2> QED BY <2>1, <2>2, <1>r DEF PeerInv, AskedSound, JudgedSound, Unsealed
<1>2. CASE BuildSignedRequest
  <2>1. asking = Nothing /\ UNCHANGED <<time, attestation, judged, runner, route>>
    BY <1>2 DEF BuildSignedRequest
  <2>0. PICK claim \in Claim :
          asking' = Signed([pc |-> "built", claim |-> claim, expires_at |-> time + Ttl,
                            signature |-> Unsigned], Operator)
    BY <1>2 DEF BuildSignedRequest
  <2>2. PICK r : /\ r = [pc |-> "built", claim |-> claim, expires_at |-> time + Ttl, signature |-> Unsigned]
                 /\ asking' = Signed(r, Operator)
    BY <2>0
  <2>3. r \in PeerRequest({Unsigned}) /\ time \in Nat
    BY <2>2 DEF PeerRequest, PeerInv
  <2>4. /\ asking' = [r EXCEPT !.signature = [by |-> Operator, over |-> Unsealed(r)]]
        /\ asking'.signature = [by |-> Operator, over |-> Unsealed(r)] /\ Unsealed(asking') = Unsealed(r)
        /\ Unsealed(r) \in PeerRequest({Unsigned})
    <3>1. /\ Unsealed(r) \in PeerRequest({Unsigned})
          /\ Signed(r, Operator) = [r EXCEPT !.signature = [by |-> Operator, over |-> Unsealed(r)]]
          /\ Signed(r, Operator).signature = [by |-> Operator, over |-> Unsealed(r)]
          /\ Unsealed(Signed(r, Operator)) = Unsealed(r)
      <4> HIDE PeerAssumption
      <4>1. PICK S : S = {Unsigned}
        OBVIOUS
      <4>2. r \in PeerRequest(S)
        BY <2>3, <4>1
      <4> QED BY <4>2, SignsRequest
    <3> QED BY <2>2, <3>1
  <2>5. asking' \in PeerRequest(RequestSignatures)
    BY <2>3, <2>4 DEF PeerRequest, RequestSignatures
  <2>6. AskedSound'
    BY <2>4, <2>5 DEF AskedSound, Unsealed
  <2>7. attestation = Nothing /\ judged.pc # "judged"
    BY <2>1 DEF PeerInv, AttestationSound, JudgedSound
  <2> QED BY <1>r, <2>1, <2>6, <2>7 DEF PeerInv, AttestationSound, JudgedSound
<1>3. ASSUME NEW w \in Witness, AttestRequest(w) PROVE PeerInv'
  <2>1. asking # Nothing /\ UNCHANGED <<time, asking, judged, runner, route>>
    BY <1>3 DEF AttestRequest
  <2>0. PICK r \in ArrivedRequests :
          /\ r.signature # Unsigned /\ ~ IsExpired(r)
          /\ attestation' = Signed([pc |-> "attested", request |-> r, claim |-> r.claim, witness |-> w,
                                    observed_at |-> time, signature |-> Unsigned], w)
    BY <1>3 DEF AttestRequest
  <2>2. PICK a :
          /\ r.signature # Unsigned /\ ~ IsExpired(r)
          /\ a = [pc |-> "attested", request |-> r, claim |-> r.claim, witness |-> w,
                  observed_at |-> time, signature |-> Unsigned]
          /\ attestation' = Signed(a, w)
    BY <2>0
  <2>3. asking \in PeerRequest(RequestSignatures) /\ time \in Nat
    BY <2>1 DEF PeerInv, AskedSound
  <2>4. r \in PeerRequests /\ r.signature = asking.signature
    BY <2>2, <2>3 DEF ArrivedRequests, PeerRequests, PeerRequest
  <2>5. a \in PeerAttestation({Unsigned})
    <3>1. r.claim \in Claim
      BY <2>4 DEF PeerRequests, PeerRequest
    <3> QED BY <2>2, <2>3, <2>4, <3>1 DEF PeerAttestation
  <2>6. /\ attestation' = [a EXCEPT !.signature = [by |-> w, over |-> Unsealed(a)]]
        /\ attestation'.signature = [by |-> w, over |-> Unsealed(a)] /\ Unsealed(attestation') = Unsealed(a)
        /\ Unsealed(a) \in PeerAttestation({Unsigned})
    <3>1. /\ Unsealed(a) \in PeerAttestation({Unsigned})
          /\ Signed(a, w) = [a EXCEPT !.signature = [by |-> w, over |-> Unsealed(a)]]
          /\ Signed(a, w).signature = [by |-> w, over |-> Unsealed(a)]
          /\ Unsealed(Signed(a, w)) = Unsealed(a)
      <4> HIDE PeerAssumption
      <4>1. PICK S : S = {Unsigned}
        OBVIOUS
      <4>2. a \in PeerAttestation(S)
        BY <2>5, <4>1
      <4> QED BY <4>2, SignsAttestation
    <3> QED BY <2>2, <3>1
  <2>7. /\ attestation' \in PeerAttestation(AttestationSignatures)
        /\ attestation'.witness = w /\ attestation'.request = r /\ attestation'.claim = r.claim
        /\ attestation'.observed_at = time
    <3>1. [by |-> w, over |-> Unsealed(a)] \in AttestationSignatures
      BY <2>6 DEF AttestationSignatures
    <3> QED BY <2>2, <2>5, <2>6, <3>1 DEF PeerAttestation
  <2>8. AttestationSound'
    BY <2>1, <2>3, <2>4, <2>6, <2>7 DEF AttestationSound, Unsealed
  <2> QED BY <1>r, <2>1, <2>8 DEF PeerInv, AskedSound, JudgedSound, Unsealed
<1>4. CASE Judge
  <2>1. attestation # Nothing /\ UNCHANGED <<time, asking, attestation, runner, route>>
    BY <1>4 DEF Judge
  <2>2. PICK a \in ArrivedAttestations :
          judged' = [pc |-> "judged", at |-> time, ok |-> VerifyPeer(a), ofOperator |-> VerifyRequest(a.request),
                     shown |-> a, signed |-> attestation]
    BY <1>4 DEF Judge
  <2>3. /\ attestation \in PeerAttestation(AttestationSignatures)
        /\ attestation.signature = [by |-> attestation.witness, over |-> Unsealed(attestation)]
        /\ attestation.claim = attestation.request.claim
        /\ attestation.observed_at <= time /\ asking # Nothing
        /\ attestation.request.signature = asking.signature
        /\ asking \in PeerRequest(RequestSignatures)
        /\ asking.signature = [by |-> Operator, over |-> Unsealed(asking)]
        /\ time \in Nat
    BY <2>1 DEF PeerInv, AttestationSound, AskedSound
  <2>4. /\ a \in PeerAttestation(AttestationSignatures \cup {Unsigned})
        /\ a.signature = Unsigned \/ a.signature = attestation.signature
    <3>1. attestation.request \in PeerRequests
      BY <2>3 DEF PeerAttestation
    <3>2. /\ \A claim \in Claim : [attestation.request EXCEPT !.claim = claim] \in PeerRequests
          /\ \A t \in 0..MaxTime : [attestation.request EXCEPT !.expires_at = t] \in PeerRequests
      BY <3>1 DEF PeerRequests, PeerRequest
    <3>3. \/ a \in {attestation, [attestation EXCEPT !.signature = Unsigned]}
          \/ \E claim \in Claim : a = [attestation EXCEPT !.claim = claim]
          \/ \E claim \in Claim : a = [attestation EXCEPT !.request = [attestation.request EXCEPT !.claim = claim]]
          \/ \E w \in Witness : a = [attestation EXCEPT !.witness = w]
          \/ \E t \in 0..MaxTime : a = [attestation EXCEPT !.request = [attestation.request EXCEPT !.expires_at = t]]
      BY <2>3 DEF ArrivedAttestations, PeerAttestation
    <3> QED BY <2>3, <3>2, <3>3 DEF PeerAttestation
  <2>5. SignedBy(a, a.witness) <=> a = attestation
    <3>1. Signed(a, a.witness).signature = [by |-> a.witness, over |-> Unsealed(a)]
      BY <2>4, SignsAttestation
    <3>2. ASSUME SignedBy(a, a.witness) PROVE a = attestation
      <4>1. a.signature = attestation.signature /\ a.signature = [by |-> a.witness, over |-> Unsealed(a)]
        BY <2>4, <3>1, <3>2 DEF SignedBy
      <4>2. Unsealed(a) = Unsealed(attestation)
        BY <2>3, <4>1
      <4>3. attestation \in PeerAttestation(AttestationSignatures \cup {Unsigned})
        BY <2>3 DEF PeerAttestation
      <4> QED BY ZenonT(40), <2>4, <4>1, <4>2, <4>3, SignsAttestation
    <3>3. ASSUME a = attestation PROVE SignedBy(a, a.witness)
      <4>1. a.signature # Unsigned
        BY <2>3, <3>3 DEF PeerAttestation
      <4> QED BY <2>3, <3>1, <3>3, <4>1 DEF SignedBy
    <3> QED BY <3>2, <3>3
  <2>6. attestation.request \in PeerRequests /\ attestation.request.expires_at \in Nat
    BY <2>3 DEF PeerAttestation, PeerRequests, PeerRequest
  <2>7. VerifyPeer(a) <=> /\ a = attestation /\ attestation.witness \in KnownWitness
                          /\ time < attestation.request.expires_at
    BY <2>3, <2>5, <2>6 DEF VerifyPeer, IsExpired
  <2>8. ASSUME VerifyPeer(a), VerifyRequest(a.request) PROVE attestation.request = asking
    <3>1. a.request = attestation.request
      BY <2>7, <2>8
    <3>2. Signed(attestation.request, Operator).signature = [by |-> Operator, over |-> Unsealed(attestation.request)]
      BY <2>6, SignsRequest DEF PeerRequests
    <3>3. Unsealed(attestation.request) = Unsealed(asking)
      BY <2>3, <2>8, <3>1, <3>2 DEF VerifyRequest, SignedBy
    <3>4. asking \in PeerRequests
      BY <2>3 DEF PeerRequests, PeerRequest
    <3> QED BY <2>3, <2>6, <3>3, <3>4, SignsRequest DEF PeerRequests
  <2>9. /\ judged'.ok <=> VerifyPeer(a)
        /\ judged'.ofOperator <=> VerifyRequest(a.request)
        /\ judged'.at = time /\ judged'.shown = a /\ judged'.signed = attestation
    BY <2>2
  <2>10. JudgedSound'
    BY <2>1, <2>3, <2>7, <2>8, <2>9 DEF JudgedSound
  <2> QED BY <1>r, <2>1, <2>10 DEF PeerInv, AskedSound, AttestationSound, Unsealed
<1> QED BY <1>1, <1>2, <1>3, <1>4 DEF PeerNext

LEMMA RouteKeeps == ASSUME PeerInv, RouteNext PROVE PeerInv'
<1> USE PeerAssumption
<1>1. UNCHANGED <<time, asking, attestation, judged>>
  BY DEF RouteNext, SetRunner, AttestReceipt, JudgeRoute
<1>2. SUFFICES RouteSound'
  BY <1>1 DEF PeerInv, AskedSound, AttestationSound, JudgedSound, Unsealed
<1>3. CASE SetRunner
  BY <1>3 DEF SetRunner, PeerInv, RouteSound, Unsealed
<1>4. CASE AttestReceipt
  <2>0. PICK receipt \in Claim, probe \in Claim :
          route' = Signed([pc |-> "signed", receipt |-> receipt, probe |-> probe, signature |-> Unsigned], Operator)
    BY <1>4 DEF AttestReceipt
  <2>1. PICK r : /\ r = [pc |-> "signed", receipt |-> receipt, probe |-> probe, signature |-> Unsigned]
                 /\ route' = Signed(r, Operator)
    BY <2>0
  <2>2. PICK u, g : u = Unsealed(r) /\ g = [by |-> Operator, over |-> u]
    OBVIOUS
  <2>3. u \in PeerRoute({Unsigned}) /\ route' = [r EXCEPT !.signature = g] /\ g \in RouteSignatures
    BY <2>1, <2>2 DEF Signed, Unsealed, PeerRoute, RouteSignatures
  <2>4. route' \in PeerRoute(RouteSignatures) /\ route'.signature = g /\ Unsealed(route') = u /\ route'.pc = "signed"
    BY <2>1, <2>2, <2>3 DEF PeerRoute, Unsealed
  <2> QED BY <2>2, <2>4 DEF RouteSound, Unsealed
<1>5. CASE JudgeRoute
  <2>1. route \in PeerRoute(RouteSignatures) /\ route.signature = [by |-> Operator, over |-> Unsealed(route)]
    BY <1>5 DEF JudgeRoute, PeerInv, RouteSound
  <2>0. PICK receipt \in Claim, probe \in Claim, r \in Claim, p \in Claim :
          route' = [pc |-> "judged", signed |-> route, receipt |-> receipt, probe |-> probe,
                    ok |-> VerifyRoute([route EXCEPT !.receipt = r, !.probe = p], receipt, probe)]
    BY <1>5 DEF JudgeRoute
  <2>2. PICK a : /\ a = [route EXCEPT !.receipt = r, !.probe = p]
                 /\ route' = [pc |-> "judged", signed |-> route, receipt |-> receipt, probe |-> probe,
                              ok |-> VerifyRoute(a, receipt, probe)]
    BY <2>0
  <2>3. ASSUME VerifyRoute(a, receipt, probe) PROVE route.receipt = receipt /\ route.probe = probe
    <3>1. a.receipt = receipt /\ a.probe = probe /\ a.signature = route.signature /\ a \in PeerRoute(RouteSignatures)
      BY <2>1, <2>2, <2>3 DEF VerifyRoute, PeerRoute
    <3>2. a.signature = [by |-> Operator, over |-> Unsealed(a)]
      <4>1. PICK u, g : u = Unsealed(a) /\ g = [by |-> Operator, over |-> u]
        OBVIOUS
      <4>2. Signed(a, Operator).signature = g
        BY <3>1, <4>1 DEF Signed, PeerRoute
      <4> QED BY <2>3, <4>1, <4>2 DEF VerifyRoute, SignedBy
    <3>3. Unsealed(a) = Unsealed(route)
      BY <2>1, <3>1, <3>2
    <3> QED BY <2>1, <3>1, <3>3 DEF Unsealed, PeerRoute
  <2>4. route'.pc = "judged" /\ (route'.ok <=> VerifyRoute(a, receipt, probe)) /\ route'.signed = route
        /\ route'.receipt = receipt /\ route'.probe = probe
    BY <2>2
  <2> QED BY <2>3, <2>4 DEF RouteSound
<1> QED BY <1>3, <1>4, <1>5 DEF RouteNext

LEMMA PeerSays == ASSUME PeerInv PROVE PeersHold
  BY DEF PeerInv, JudgedSound, RouteSound, PeersHold

-----------------------------------------------------------------------------
HandedInv == StatementsInv /\ PeerInv

\* StatementsHold: what is handed out of the vault by itself, a link, a bundle
\* or a witness's word, verifies as what was signed and as nothing else.
THEOREM StatementsAreWhatWasSigned == PeripherySpec => []StatementsHold
<1>1. PeripheryInit => HandedInv
  BY StatementsStart, PeerStarts DEF PeripheryInit, HandedInv
<1>2. HandedInv /\ [PeripheryNext]_peripheryVars => HandedInv'
  <2> SUFFICES ASSUME HandedInv, [PeripheryNext]_peripheryVars PROVE HandedInv'
    OBVIOUS
  <2>0. StatementsInv /\ PeerInv
    BY DEF HandedInv
  <2>1. StatementsInv'
    <3>1. CASE UNCHANGED statementsVars
      BY <2>0, <3>1 DEF StatementsInv, ReceiptsSound, PackedSound, LinksHold, IsSigned, statementsVars
    <3> QED BY <2>0, <3>1, PartsSee, StatementsKeep
  <2>2. PeerInv'
    <3>1. CASE UNCHANGED peerVars
      BY <2>0, <3>1 DEF PeerInv, AskedSound, AttestationSound, JudgedSound, RouteSound, Unsealed, peerVars
    <3> QED BY <2>0, <3>1, PartsSee, PeerKeeps, RouteKeeps
  <2> QED BY <2>1, <2>2 DEF HandedInv
<1>3. HandedInv => StatementsHold
  BY StatementsSay, PeerSays DEF HandedInv, StatementsHold
<1> QED BY <1>1, <1>2, <1>3, PTL DEF PeripherySpec
-----------------------------------------------------------------------------
(* Texts *)

\* NothingLeaks: what is signed or shared of a text shows of it what no
\* reported match covers, and no match whole, for every text, every table of
\* detectors and whatever they find.
THEOREM MatchesAreHidden == PeripherySpec => []NothingLeaks
<1>1. PeripheryInit => RedactionInv
  BY RedactionStarts DEF PeripheryInit
<1>2. RedactionInv /\ [PeripheryNext]_peripheryVars => RedactionInv'
  <2> SUFFICES ASSUME RedactionInv, [PeripheryNext]_peripheryVars PROVE RedactionInv'
    OBVIOUS
  <2>1. CASE UNCHANGED redactionVars
    BY <2>1 DEF RedactionInv, NothingLeaks, redactionVars
  <2> QED BY <2>1, PartsSee, RedactionKeeps
<1>3. RedactionInv => NothingLeaks
  BY DEF RedactionInv
<1> QED BY <1>1, <1>2, <1>3, PTL DEF PeripherySpec

\* ReadAlike: a stream of any length gives the same events however it is cut, a
\* conversation of any length translated for another provider and back asks the
\* same, and a sampled value is read back from the bytes it is written as, to
\* the last of them and from no fewer.
THEOREM ReadsAlike == PeripherySpec => []ReadAlike
<1>1. PeripheryInit => SseInv /\ AdaptersInv /\ CborInv
  BY SseStarts, AdaptersStarts, CborStarts DEF PeripheryInit
<1>2. SseInv /\ [PeripheryNext]_peripheryVars => SseInv'
  <2> SUFFICES ASSUME SseInv, [PeripheryNext]_peripheryVars PROVE SseInv'
    OBVIOUS
  <2>1. CASE UNCHANGED sseVars
    BY <2>1, SseRests
  <2> QED BY <2>1, PartsSee, SseKeeps
<1>3. AdaptersInv /\ [PeripheryNext]_peripheryVars => AdaptersInv'
  <2> SUFFICES ASSUME AdaptersInv, [PeripheryNext]_peripheryVars PROVE AdaptersInv'
    OBVIOUS
  <2>1. CASE UNCHANGED adaptersVars
    BY <2>1, AdaptersRests
  <2> QED BY <2>1, PartsSee, AdaptersKeeps
<1>4. CborInv /\ [PeripheryNext]_peripheryVars => CborInv'
  <2> SUFFICES ASSUME CborInv, [PeripheryNext]_peripheryVars PROVE CborInv'
    OBVIOUS
  <2>1. CASE UNCHANGED cborVars
    BY <2>1, CborRests
  <2> QED BY <2>1, PartsSee, CborKeeps
<1>5. SseInv /\ AdaptersInv /\ CborInv => ReadAlike
  BY SseKept, AdaptersKept, CborKept DEF ReadAlike
<1> QED BY <1>1, <1>2, <1>3, <1>4, <1>5, PTL DEF PeripherySpec
=============================================================================
