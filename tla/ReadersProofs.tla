--------------------------- MODULE ReadersProofs ---------------------------
(* Theorems about tail and prove, for every vault, however many followers,  *)
(* builds and writers there are, and every --last.                          *)
EXTENDS Readers, Wellorder

-----------------------------------------------------------------------------
(* The inductive invariant *)

NoRepeats(seq) == \A j, k \in DOMAIN seq : seq[j] = seq[k] => j = k

\* Ids go up along a chain, up to the last one issued.
LedgerInv ==
  /\ issued \in Nat
  /\ chain \in [Namespaces -> Seq(Nat)]
  /\ \A n \in Namespaces : NoRepeats(chain[n]) /\ \A j \in DOMAIN chain[n] : chain[n][j] <= issued

TailStates ==
  [pc : {"new", "poll", "list", "over"}, ns : Namespaces \cup {"none"}, last : Nat,
   current : Nat, seen : SUBSET Nat, out : Seq(Nat)]

\* What has been printed is known to have been, and was printed once.
Remembers(t) == NoRepeats(t.out) /\ RangeOf(t.out) \subseteq t.seen

TailInv ==
  /\ tail \in [Follower -> TailStates]
  /\ \A f \in Follower : /\ Remembers(tail[f])
                         /\ tail[f].pc \in {"poll", "list"} => tail[f].ns \in Namespaces

\* A bundle in the staging directory is as its count says, and so is what has
\* been moved out of there.
TrueTo(count, bundle) == count = Cardinality(bundle) /\ Verified(bundle)

Counts == {0} \cup {Cardinality(rows) : rows \in SUBSET (Namespaces \X Nat)}
Bundles == {Absent} \cup SUBSET (Namespaces \X Nat)

BuildStates ==
  [pc : {"idle", "verify", "export", "preflight", "exists", "rmdir", "replace"},
   count : Counts, bundle : Bundles]

Staged(s) ==
  s.pc \in {"preflight", "exists", "rmdir", "replace"} => TrueTo(s.count, s.bundle)

PacketInv ==
  /\ build \in [Builder -> BuildStates]
  /\ \A b \in Builder : Staged(build[b])
  /\ PacketHolds

ReadersInv == LedgerInv /\ TailInv /\ PacketInv

-----------------------------------------------------------------------------
(* The vault *)

LEMMA LedgerKept ==
  ASSUME LedgerInv, NEW n \in Namespaces, Extend(n) \/ Drop(n)
  PROVE  LedgerInv'
<1>1. CASE Extend(n)
  <2>1. issued' = issued + 1 /\ issued' \in Nat
    BY <1>1 DEF Extend, LedgerInv
  <2>2. /\ chain' \in [Namespaces -> Seq(Nat)] /\ chain'[n] = Append(chain[n], issued')
        /\ \A m \in Namespaces \ {n} : chain'[m] = chain[m]
    BY <1>1, <2>1 DEF Extend, LedgerInv
  <2>3. ASSUME NEW m \in Namespaces
        PROVE  NoRepeats(chain'[m]) /\ \A j \in DOMAIN chain'[m] : chain'[m][j] <= issued'
    <3>1. /\ chain[m] \in Seq(Nat) /\ NoRepeats(chain[m])
          /\ \A j \in DOMAIN chain[m] : chain[m][j] \in Nat /\ chain[m][j] <= issued
      BY DEF LedgerInv
    <3>2. CASE m # n
      BY <2>1, <2>2, <3>1, <3>2 DEF LedgerInv
    <3>3. CASE m = n
      <4>1. /\ DOMAIN chain'[n] = DOMAIN chain[n] \cup {Len(chain[n]) + 1}
            /\ Len(chain[n]) + 1 \notin DOMAIN chain[n]
            /\ chain'[n][Len(chain[n]) + 1] = issued'
            /\ \A j \in DOMAIN chain[n] : chain'[n][j] = chain[n][j]
        BY <2>1, <2>2, <3>1, <3>3, AppendProperties, SMTT(30)
      <4>2. \A j \in DOMAIN chain[n] : chain'[n][j] < issued'
        BY <2>1, <3>1, <3>3, <4>1 DEF LedgerInv
      <4> QED BY <2>1, <3>1, <3>3, <4>1, <4>2 DEF NoRepeats
    <3> QED BY <3>2, <3>3
  <2> QED BY <2>1, <2>2, <2>3 DEF LedgerInv
<1>2. CASE Drop(n)
  BY <1>2 DEF Drop, LedgerInv, NoRepeats
<1> QED BY <1>1, <1>2

-----------------------------------------------------------------------------
(* Tail *)

\* A listing has each of the newest receipts once.
LEMMA ListingsAreClean ==
  ASSUME LedgerInv, NEW n \in Namespaces, NEW k \in Nat
  PROVE  /\ Newest(chain[n], k) \in Seq(Nat) /\ NoRepeats(Newest(chain[n], k))
         /\ Len(Newest(chain[n], k)) \in Nat
<1> DEFINE ids == chain[n]
           m == IF k < Len(ids) THEN k ELSE Len(ids)
<1>1. ids \in Seq(Nat) /\ NoRepeats(ids) /\ Len(ids) \in Nat /\ DOMAIN ids = 1..Len(ids)
  BY DEF LedgerInv
<1>2. m \in Nat /\ m <= Len(ids)
  BY <1>1
<1>3. Newest(ids, k) = [j \in 1..m |-> ids[Len(ids) + 1 - j]]
  BY DEF Newest
<1> HIDE DEF ids, m
<1>4. \A j \in 1..m : Len(ids) + 1 - j \in DOMAIN ids
  BY <1>1, <1>2
<1>5. Newest(ids, k) \in [1..m -> Nat]
  BY <1>1, <1>3, <1>4
<1>6. Newest(ids, k) \in Seq(Nat) /\ Len(Newest(ids, k)) = m
  BY <1>2, <1>5
<1>7. NoRepeats(Newest(ids, k))
  <2>1. ASSUME NEW i \in 1..m, NEW j \in 1..m, ids[Len(ids) + 1 - i] = ids[Len(ids) + 1 - j]
        PROVE  i = j
    <3>1. Len(ids) + 1 - i = Len(ids) + 1 - j
      BY <1>1, <1>4, <2>1 DEF NoRepeats
    <3> QED BY <1>1, <1>2, <3>1
  <2> QED BY <1>3, <2>1 DEF NoRepeats
<1> QED BY <1>2, <1>6, <1>7 DEF ids

\* Printing what is not known to be printed repeats nothing.
LEMMA EmitRemembers ==
  ASSUME NEW t \in TailStates, Remembers(t), NEW ids \in Seq(Nat), NoRepeats(ids)
  PROVE  Emit(t, ids) \in TailStates /\ Remembers(Emit(t, ids)) /\ Emit(t, ids).ns = t.ns
<1> DEFINE new == Omitting(ids, t.seen)
           e == Emit(t, ids)
<1>1. /\ new \in Seq(Nat) /\ NoRepeats(new)
      /\ {new[k] : k \in DOMAIN new} = RangeOf(ids) \ t.seen
  <2>1. /\ new \in Seq(Nat)
        /\ {new[k] : k \in DOMAIN new} = {ids[j] : j \in DOMAIN ids} \ t.seen
        /\ (\A i, j \in DOMAIN ids : ids[i] = ids[j] => i = j)
             => (\A k, l \in DOMAIN new : new[k] = new[l] => k = l)
    BY OmittingElements
  <2> HIDE DEF new
  <2> QED BY <2>1 DEF NoRepeats, RangeOf
<1>2. t.out \in Seq(Nat) /\ t.seen \subseteq Nat /\ RangeOf(ids) \subseteq Nat
  BY DEF TailStates, RangeOf
<1>3. e = [t EXCEPT !.seen = t.seen \cup RangeOf(ids), !.out = t.out \o new]
  BY DEF Emit, TailStates
<1> HIDE DEF new, e
<1>4. /\ e \in TailStates /\ e.out = t.out \o new /\ e.ns = t.ns
      /\ e.seen = t.seen \cup RangeOf(ids)
  <2>1. t.out \o new \in Seq(Nat) /\ t.seen \cup RangeOf(ids) \in SUBSET Nat
    BY <1>1, <1>2
  <2> QED BY <1>3, <2>1 DEF TailStates
<1>5. /\ DOMAIN e.out = 1..(Len(t.out) + Len(new)) /\ Len(t.out) \in Nat /\ Len(new) \in Nat
      /\ \A k \in 1..(Len(t.out) + Len(new)) :
           \/ k \in DOMAIN t.out /\ e.out[k] = t.out[k]
           \/ k - Len(t.out) \in DOMAIN new /\ e.out[k] = new[k - Len(t.out)]
  BY <1>1, <1>2, <1>4
<1>6. \A k \in DOMAIN new : new[k] \in RangeOf(ids) /\ new[k] \notin t.seen
  BY <1>1
<1>7. \A k \in DOMAIN t.out : t.out[k] \in t.seen
  BY DEF Remembers, RangeOf
<1>8. NoRepeats(e.out)
  <2>1. ASSUME NEW j \in DOMAIN e.out, NEW k \in DOMAIN e.out, e.out[j] = e.out[k]
        PROVE  j = k
    <3>1. CASE j \in DOMAIN t.out /\ e.out[j] = t.out[j] /\ k \in DOMAIN t.out /\ e.out[k] = t.out[k]
      BY <2>1, <3>1 DEF Remembers, NoRepeats
    <3>2. CASE /\ j - Len(t.out) \in DOMAIN new /\ e.out[j] = new[j - Len(t.out)]
               /\ k - Len(t.out) \in DOMAIN new /\ e.out[k] = new[k - Len(t.out)]
      <4>1. j - Len(t.out) = k - Len(t.out)
        BY <1>1, <2>1, <3>2 DEF NoRepeats
      <4> QED BY <1>5, <4>1
    <3> QED BY <1>5, <1>6, <1>7, <2>1, <3>1, <3>2
  <2> QED BY <2>1 DEF NoRepeats
<1>9. RangeOf(e.out) \subseteq e.seen
  BY <1>4, <1>5, <1>6, <1>7 DEF RangeOf
<1> QED BY <1>4, <1>8, <1>9 DEF Remembers, e

LEMMA TailKept ==
  ASSUME LedgerInv, TailInv, NEW f \in Follower, TailStep(f)
  PROVE  TailInv'
<1>1. tail[f] \in TailStates /\ Remembers(tail[f])
  BY DEF TailInv
<1>2. SUFFICES ASSUME NEW s \in TailStates, tail' = [tail EXCEPT ![f] = s], Remembers(s),
                      s.pc \in {"poll", "list"} => s.ns \in Namespaces
               PROVE  TailInv'
  <2>1. ASSUME NEW n \in Namespaces, Start(f, n) PROVE TailInv'
    <3> DEFINE ids == Newest(chain[n], Last)
               t == [NotStarted EXCEPT !.ns = n]
               e == Emit(t, ids)
               s == [e EXCEPT !.pc = "poll", !.last = Len(ids)]
    <3>1. ids \in Seq(Nat) /\ NoRepeats(ids) /\ Len(ids) \in Nat
      BY ListingsAreClean, TailAssumption
    <3>2. tail' = [tail EXCEPT ![f] = s]
      BY <2>1 DEF Start
    <3>3. t \in TailStates /\ Remembers(t) /\ t.ns = n
      <4>1. <<>> \in Seq(Nat) /\ DOMAIN <<>> = {} /\ {} \in SUBSET Nat
        OBVIOUS
      <4> QED BY <4>1 DEF NotStarted, TailStates, Remembers, NoRepeats, RangeOf
    <3> HIDE DEF ids, t
    <3>4. e \in TailStates /\ Remembers(e) /\ e.ns = n
      BY <3>1, <3>3, EmitRemembers
    <3> HIDE DEF e
    <3>5. s \in TailStates /\ s.out = e.out /\ s.seen = e.seen /\ s.ns = n
      BY <3>1, <3>4 DEF TailStates
    <3> HIDE DEF s
    <3> QED BY <1>2, <3>2, <3>4, <3>5 DEF Remembers
  <2>2. CASE Count(f)
    <3> DEFINE s == [tail[f] EXCEPT !.pc = "list", !.current = Len(chain[tail[f].ns])]
    <3>1. tail[f].pc = "poll" /\ tail[f].ns \in Namespaces /\ tail' = [tail EXCEPT ![f] = s]
      BY <2>2 DEF Count, TailAt, TailInv
    <3>2. Len(chain[tail[f].ns]) \in Nat
      BY <3>1 DEF LedgerInv
    <3>3. s \in TailStates /\ s.out = tail[f].out /\ s.seen = tail[f].seen /\ s.ns = tail[f].ns
      BY <1>1, <3>2 DEF TailStates
    <3> HIDE DEF s
    <3> QED BY <1>1, <1>2, <3>1, <3>3 DEF Remembers
  <2>3. CASE List(f)
    <3> DEFINE ids == Newest(chain[tail[f].ns], tail[f].current)
               e == Emit(tail[f], ids)
               s == [e EXCEPT !.pc = "poll", !.last = tail[f].current, !.current = 0]
    <3>1. tail[f].ns \in Namespaces /\ tail[f].current \in Nat /\ tail' = [tail EXCEPT ![f] = s]
      BY <1>1, <2>3 DEF List, TailAt, TailInv, TailStates
    <3>2. ids \in Seq(Nat) /\ NoRepeats(ids)
      BY <3>1, ListingsAreClean
    <3> HIDE DEF ids
    <3>3. e \in TailStates /\ Remembers(e) /\ e.ns = tail[f].ns
      BY <1>1, <3>2, EmitRemembers
    <3> HIDE DEF e
    <3>4. s \in TailStates /\ s.out = e.out /\ s.seen = e.seen /\ s.ns = e.ns
      BY <3>1, <3>3 DEF TailStates
    <3> HIDE DEF s
    <3> QED BY <1>2, <3>1, <3>3, <3>4 DEF Remembers
  <2>4. CASE StopTail(f)
    <3> DEFINE s == [tail[f] EXCEPT !.pc = "over"]
    <3>1. s \in TailStates /\ s.out = tail[f].out /\ s.seen = tail[f].seen /\ s.pc = "over"
      BY <1>1 DEF TailStates
    <3>2. tail' = [tail EXCEPT ![f] = s]
      BY <2>4 DEF StopTail
    <3> HIDE DEF s
    <3> QED BY <1>1, <1>2, <3>1, <3>2 DEF Remembers
  <2> QED BY <2>1, <2>2, <2>3, <2>4 DEF TailStep, Poll
<1> QED BY <1>2 DEF TailInv

-----------------------------------------------------------------------------
(* Prove *)

LEMMA RowsOfTheVault ==
  ASSUME LedgerInv
  PROVE  Rows \in Bundles /\ Cardinality(Rows) \in Counts
<1>1. ASSUME NEW n \in Namespaces, NEW k \in DOMAIN chain[n]
      PROVE  <<n, chain[n][k]>> \in Namespaces \X Nat
  BY DEF LedgerInv
<1>2. Rows \in SUBSET (Namespaces \X Nat)
  BY <1>1 DEF Rows
<1> QED BY <1>2 DEF Bundles, Counts

LEMMA NothingBuilt ==
  /\ NoBuild \in BuildStates /\ Staged(NoBuild)
  /\ [NoBuild EXCEPT !.pc = "verify"] \in BuildStates
  /\ Staged([NoBuild EXCEPT !.pc = "verify"])
<1>1. 0 \in Counts /\ Absent \in Bundles
  BY DEF Counts, Bundles
<1> QED BY <1>1 DEF NoBuild, BuildStates, Staged

LEMMA PacketKept ==
  ASSUME LedgerInv, PacketInv, NEW b \in Builder, BuildStep(b)
  PROVE  PacketInv' /\ (IsPacket(outdir) => outdir' = outdir)
<1>1. build[b] \in BuildStates /\ Staged(build[b])
  BY DEF PacketInv
<1>2. NoBuild \in BuildStates /\ Staged(NoBuild)
  BY NothingBuilt
<1>3. ASSUME NEW s \in BuildStates, build' = [build EXCEPT ![b] = s], Staged(s),
             \/ outdir' = outdir
             \/ /\ ~IsPacket(outdir)
                /\ outdir' = Absent \/ TrueTo(outdir'.count, outdir'.bundle)
      PROVE  PacketInv' /\ (IsPacket(outdir) => outdir' = outdir)
  <2>1. /\ build' \in [Builder -> BuildStates] /\ build'[b] = s
        /\ \A d \in Builder \ {b} : build'[d] = build[d]
    BY <1>3 DEF PacketInv
  <2>2. PacketHolds'
    BY <1>3 DEF PacketInv, PacketHolds, IsPacket, TrueTo
  <2> QED BY <1>3, <2>1, <2>2 DEF PacketInv
<1>4. ASSUME NEW pc \in {"verify", "preflight", "exists", "rmdir", "replace"}
      PROVE  LET s == [build[b] EXCEPT !.pc = pc]
             IN  /\ s \in BuildStates /\ s.pc = pc
                 /\ s.count = build[b].count /\ s.bundle = build[b].bundle
  BY <1>1 DEF BuildStates
<1>5. CASE BeginBuild(b)
  <2> DEFINE s == [NoBuild EXCEPT !.pc = "verify"]
  <2>1. s \in BuildStates /\ Staged(s)
    BY NothingBuilt
  <2>2. build' = [build EXCEPT ![b] = s] /\ outdir' = outdir
    BY <1>5 DEF BeginBuild, BuildBecomes
  <2> HIDE DEF s
  <2> QED BY <1>3, <2>1, <2>2
<1>6. CASE VerifySource(b)
  <2> DEFINE s == [build[b] EXCEPT !.pc = "export", !.count = Cardinality(Rows)]
  <2>1. s \in BuildStates /\ Staged(s)
    BY <1>1, RowsOfTheVault DEF BuildStates, Staged
  <2>2. build' = [build EXCEPT ![b] = s] \/ build' = [build EXCEPT ![b] = NoBuild]
    BY <1>6 DEF VerifySource, BuildBecomes
  <2>3. outdir' = outdir
    BY <1>6 DEF VerifySource
  <2> HIDE DEF s
  <2> QED BY <1>2, <1>3, <2>1, <2>2, <2>3
<1>7. CASE Export(b)
  <2> DEFINE s == [build[b] EXCEPT !.pc = "preflight", !.bundle = Rows]
  <2>1. /\ s \in BuildStates /\ s.count = build[b].count /\ s.bundle = Rows
    BY <1>1, RowsOfTheVault DEF BuildStates
  <2>2. \/ build' = [build EXCEPT ![b] = s] /\ TrueTo(build[b].count, Rows)
        \/ build' = [build EXCEPT ![b] = NoBuild]
    BY <1>7 DEF Export, BuildBecomes, TrueTo
  <2>3. outdir' = outdir
    BY <1>7 DEF Export
  <2> HIDE DEF s
  <2>4. CASE build' = [build EXCEPT ![b] = s] /\ TrueTo(build[b].count, Rows)
    BY <1>3, <2>1, <2>3, <2>4 DEF Staged
  <2> QED BY <1>2, <1>3, <2>2, <2>3, <2>4
<1>8. ASSUME NEW pc \in {"preflight", "exists", "rmdir", "replace"},
             build[b].pc \in {"preflight", "exists", "rmdir", "replace"},
             build' = [build EXCEPT ![b] = [build[b] EXCEPT !.pc = pc]],
             outdir' = outdir \/ (~IsPacket(outdir) /\ outdir' = Absent)
      PROVE  PacketInv' /\ (IsPacket(outdir) => outdir' = outdir)
  <2> DEFINE s == [build[b] EXCEPT !.pc = pc]
  <2>1. s \in BuildStates /\ s.count = build[b].count /\ s.bundle = build[b].bundle
    BY <1>4
  <2>2. build' = [build EXCEPT ![b] = s]
    BY <1>8
  <2> HIDE DEF s
  <2> QED BY <1>1, <1>3, <1>8, <2>1, <2>2 DEF Staged
<1>9. CASE PreflightAgain(b)
  BY <1>2, <1>3, <1>8, <1>9 DEF PreflightAgain, BuildBecomes, BuildAt
<1>10. CASE SeeOutdir(b)
  BY <1>8, <1>10 DEF SeeOutdir, BuildBecomes, BuildAt
<1>11. CASE RemoveOutdir(b)
  BY <1>2, <1>3, <1>8, <1>11 DEF RemoveOutdir, BuildBecomes, BuildAt, IsPacket
<1>12. CASE Publish(b)
  <2>1. TrueTo(build[b].count, build[b].bundle)
    BY <1>1, <1>12 DEF Publish, BuildAt, Staged
  <2>2. outdir' = outdir \/ (~IsPacket(outdir) /\ TrueTo(outdir'.count, outdir'.bundle))
    BY <1>12, <2>1 DEF Publish
  <2> QED BY <1>2, <1>3, <1>12, <2>2 DEF Publish, BuildBecomes
<1>13. CASE BuildFails(b)
  BY <1>2, <1>3, <1>13 DEF BuildFails, BuildBecomes
<1> QED
  BY <1>5, <1>6, <1>7, <1>9, <1>10, <1>11, <1>12, <1>13 DEF BuildStep

-----------------------------------------------------------------------------
(* The theorems *)

LEMMA ReadersInvStarts == ASSUME ReadersInit PROVE ReadersInv
<1>1. LedgerInv
  BY DEF ReadersInit, LedgerInit, LedgerInv, NoRepeats
<1>2. NotStarted \in TailStates /\ Remembers(NotStarted) /\ NotStarted.pc = "new"
  <2>1. <<>> \in Seq(Nat) /\ DOMAIN <<>> = {} /\ {} \in SUBSET Nat
    OBVIOUS
  <2> QED BY <2>1 DEF NotStarted, TailStates, Remembers, NoRepeats, RangeOf
<1>3. TailInv
  BY <1>2 DEF ReadersInit, TailInit, TailInv
<1>4. PacketInv
  BY NothingBuilt DEF ReadersInit, PacketInit, PacketInv, PacketHolds, IsPacket
<1> QED BY <1>1, <1>3, <1>4 DEF ReadersInv

\* A step of one process leaves what the others know alone; a packet is not
\* touched by any.
LEMMA ReadersInvSteps ==
  ASSUME ReadersInv, [ReadersNext]_readersVars
  PROVE  ReadersInv' /\ (IsPacket(outdir) => outdir' = outdir)
<1>1. LedgerInv /\ TailInv /\ PacketInv
  BY DEF ReadersInv
<1>2. UNCHANGED <<chain, issued>> => LedgerInv'
  BY <1>1 DEF LedgerInv
<1>3. UNCHANGED tailVars => TailInv'
  BY <1>1 DEF TailInv, tailVars
<1>4. UNCHANGED packetVars => PacketInv'
  BY <1>1 DEF PacketInv, PacketHolds, IsPacket, packetVars
<1>5. CASE UNCHANGED readersVars
  BY <1>2, <1>3, <1>4, <1>5 DEF readersVars, tailVars, packetVars, ReadersInv
<1>6. CASE VaultStep /\ UNCHANGED packetVars
  <2>1. LedgerInv'
    BY <1>1, <1>6, LedgerKept DEF VaultStep
  <2>2. TailInv'
    BY <1>1, <1>6 DEF VaultStep, NoteDrop, tailVars, TailInv
  <2> QED BY <1>4, <1>6, <2>1, <2>2 DEF ReadersInv, packetVars
<1>7. ASSUME NEW f \in Follower, TailStep(f), UNCHANGED <<chain, issued, packetVars>>
      PROVE  ReadersInv' /\ outdir' = outdir
  BY <1>1, <1>2, <1>4, <1>7, TailKept DEF ReadersInv, packetVars
<1>8. ASSUME NEW b \in Builder, BuildStep(b), UNCHANGED <<chain, issued, tailVars>>
      PROVE  ReadersInv' /\ (IsPacket(outdir) => outdir' = outdir)
  BY <1>1, <1>2, <1>3, <1>8, PacketKept DEF ReadersInv
<1> QED BY <1>5, <1>6, <1>7, <1>8 DEF ReadersNext

\* Followers and builds stay in these states, whatever happens to the vault.
LEMMA ReadersInvHolds == ReadersSpec => []ReadersInv
<1>1. ReadersInv /\ [ReadersNext]_readersVars => ReadersInv'
  BY ReadersInvSteps
<1> QED BY <1>1, ReadersInvStarts, PTL DEF ReadersSpec

\* However the listings of tail overlap, and whatever is deleted and appended
\* between its two queries, it prints no receipt twice.
THEOREM NothingPrintedTwice == ReadersSpec => []PrintedOnce
<1>1. ASSUME ReadersInv, NEW f \in Follower
      PROVE  Cardinality(RangeOf(tail[f].out)) = Len(tail[f].out)
  <2> DEFINE out == tail[f].out
  <2>1. out \in Seq(Nat) /\ NoRepeats(out)
    BY <1>1 DEF ReadersInv, TailInv, TailStates, Remembers
  <2> HIDE DEF out
  <2>2. Len(out) \in Nat /\ DOMAIN out = 1..Len(out) /\ out \in [1..Len(out) -> RangeOf(out)]
    BY <2>1 DEF RangeOf
  <2>3. out \in Bijection(1..Len(out), RangeOf(out))
    <3>1. out \in Surjection(1..Len(out), RangeOf(out))
      BY <2>2 DEF Surjection, RangeOf
    <3>2. out \in Injection(1..Len(out), RangeOf(out))
      BY <2>1, <2>2 DEF Injection, IsInjective, NoRepeats
    <3> QED BY <3>1, <3>2 DEF Bijection
  <2>4. Cardinality(RangeOf(out)) = Len(out)
    BY <2>2, <2>3, FS_CountingElements DEF ExistsBijection
  <2> QED BY <2>4 DEF out
<1>2. ReadersInv => PrintedOnce
  BY <1>1 DEF PrintedOnce
<1> QED BY <1>2, ReadersInvHolds, PTL

\* A packet says of its bundle what is true of it, whatever was appended or
\* deleted between verification and export.
THEOREM PacketsHold == ReadersSpec => []PacketHolds
<1>1. ReadersInv => PacketHolds
  BY DEF ReadersInv, PacketInv
<1> QED BY <1>1, ReadersInvHolds, PTL

\* No build takes away or replaces the packet of another.
THEOREM PacketsStay == ReadersSpec => PacketStays
<1>1. ReadersInv /\ [ReadersNext]_readersVars
        => [IsPacket(outdir) => outdir' = outdir]_<<chain, issued, outdir, build>>
  BY ReadersInvSteps
<1> QED BY <1>1, ReadersInvHolds, PTL DEF ReadersSpec, PacketStays
=============================================================================
