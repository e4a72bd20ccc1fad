-------------------------- MODULE SigningKeyProofs --------------------------
(* Theorems about SigningKey for every set of processes and keys, with and  *)
(* without a keychain and crashes.  All rest on one fact: a generation that *)
(* nobody overtook has the files to itself.                                 *)
EXTENDS SigningKey, TLAPS

-----------------------------------------------------------------------------
(* The inductive invariant *)

States ==
  [pc : {"idle", "exists", "read", "readid", "truncate", "write", "keychain", "sign"},
   op : {"none", "append", "evidence", "gen-key"}, file : Files \cup {"none"},
   id : Keys \cup {None}, key : Keys \cup {None}, alone : BOOLEAN, clean : BOOLEAN]

\* Types; a generation holds one pair, a load has found a private key.
TypeOK ==
  /\ file \in [Files -> Keys \cup {None, Empty}]
  /\ keychain \in KeyOrNone
  /\ minted \subseteq Keys
  /\ spoiled \in BOOLEAN
  /\ proc \in [Process -> States]
  /\ \A p \in Process :
       /\ ~At(p, "idle") => proc[p].op # "none"
       /\ Generating(p) => proc[p].key \in Keys /\ proc[p].id = proc[p].key
       /\ proc[p].pc \in {"truncate", "write"} => proc[p].file \in Files
       /\ At(p, "readid") => proc[p].key \in Keys

\* Process p generates, or is about to, but has not touched a file yet.
Untouched(p) == At(p, "truncate") /\ proc[p].file = "private"

\* The files are for p alone: whoever else generates has not begun to write.
HasFiles(p) == \A q \in Process \ {p} : Generating(q) => Untouched(q)

\* A generation that nobody overtook has filled the files before its own with
\* its key; only the private file may have been removed since.
Filled(p) ==
  /\ Untouched(p) => file["private"] \notin Keys
  /\ proc[p].file \in {"public", "id"} \/ At(p, "keychain") =>
       file["private"] \in {None, proc[p].key}
  /\ proc[p].file = "id" \/ At(p, "keychain") => file["public"] = proc[p].key
  /\ At(p, "keychain") => file["id"] = proc[p].key

AloneOK ==
  \A p \in Process : Generating(p) /\ proc[p].alone =>
    /\ HasFiles(p) /\ Filled(p)
    /\ \A q \in Process \ {p} : Generating(q) => ~proc[q].alone

\* Between the two halves of load() nobody has written to the key id file.
LoadOK ==
  \A p \in Process : At(p, "readid") /\ proc[p].clean =>
    HasFiles(p) /\ file["id"] = proc[p].key

\* While no generation is under way in the files they belong together.
FilesOK ==
  ~spoiled /\ (\A p \in Process : Generating(p) => Untouched(p)) =>
    /\ file["public"] = file["id"]
    /\ file["private"] \in {None, file["id"]}
    /\ keychain \in {None, file["id"]}

KeyInv == TypeOK /\ AloneOK /\ LoadOK /\ FilesOK /\ SignsUnderOwnId

-----------------------------------------------------------------------------
(* What one step does *)

\* A step that moves one process leaves the others where they are.
LEMMA Moves ==
  ASSUME TypeOK, NEW p \in Process, NEW s \in States, Become(p, s)
  PROVE  /\ proc' \in [Process -> States] /\ proc'[p] = s
         /\ \A q \in Process \ {p} : proc'[q] = proc[q]
BY DEF Become, TypeOK

LEMMA IdleState == Idle \in States
BY DEF Idle, States

\* A process that starts to generate holds a fresh pair and has written nothing.
LEMMA StartsGenerating ==
  ASSUME TypeOK, NEW p \in Process, NEW pc, FreshPair(p, LookingUp(p, pc)),
         proc[p].op # "none"
  PROVE  \E k \in Keys :
           /\ minted' = minted \cup {k}
           /\ proc' \in [Process -> States]
           /\ \A q \in Process \ {p} : proc'[q] = proc[q]
           /\ proc'[p] = [proc[p] EXCEPT !.pc = "truncate", !.file = "private",
                                         !.id = k, !.key = k, !.alone = ~OthersGenerate(p),
                                         !.clean = ~spoiled /\ ~OthersGenerate(p)]
<1>1. PICK k \in Keys :
        /\ minted' = minted \cup {k}
        /\ Become(p, [LookingUp(p, pc) EXCEPT !.pc = "truncate", !.file = "private",
                                              !.id = k, !.key = k])
  BY DEF FreshPair
<1> DEFINE s == [proc[p] EXCEPT !.pc = "truncate", !.file = "private",
                                !.id = k, !.key = k, !.alone = ~OthersGenerate(p),
                                !.clean = ~spoiled /\ ~OthersGenerate(p)]
<1>2. proc[p] \in States /\ OthersGenerate(p) \in BOOLEAN
  BY DEF TypeOK, OthersGenerate
<1>3. [LookingUp(p, pc) EXCEPT !.pc = "truncate", !.file = "private", !.id = k, !.key = k] = s
  BY <1>2 DEF LookingUp, States
<1>4. s \in States
  BY <1>2 DEF States, Files
<1> HIDE DEF s
<1>5. Become(p, s)
  BY <1>1, <1>3
<1>6. proc' \in [Process -> States] /\ proc'[p] = s /\ \A q \in Process \ {p} : proc'[q] = proc[q]
  BY <1>4, <1>5, Moves
<1> QED BY <1>1, <1>6 DEF s

\* A generation begins: the file it will overwrite holds no readable key.
LEMMA StartKeepsInv ==
  ASSUME KeyInv, NEW p \in Process, NEW pc, FreshPair(p, LookingUp(p, pc)),
         ~At(p, "idle"), ~Generating(p), file["private"] \notin Keys,
         UNCHANGED <<file, keychain, spoiled>>
  PROVE  KeyInv'
<1>1. PICK k \in Keys :
        /\ minted' = minted \cup {k}
        /\ proc' \in [Process -> States]
        /\ \A q \in Process \ {p} : proc'[q] = proc[q]
        /\ proc'[p] = [proc[p] EXCEPT !.pc = "truncate", !.file = "private",
                                      !.id = k, !.key = k, !.alone = ~OthersGenerate(p),
                                      !.clean = ~spoiled /\ ~OthersGenerate(p)]
  <2>1. proc[p].op # "none"
    BY DEF KeyInv, TypeOK
  <2> QED BY <2>1, StartsGenerating DEF KeyInv
<1>2. /\ proc'[p].pc = "truncate" /\ proc'[p].file = "private" /\ proc'[p].op = proc[p].op
      /\ proc'[p].id = k /\ proc'[p].key = k /\ proc'[p].alone = ~OthersGenerate(p)
  BY <1>1 DEF KeyInv, TypeOK, States
<1>g. /\ Generating(p)' /\ Untouched(p)' /\ ~At(p, "readid")' /\ ~At(p, "sign")'
      /\ ~At(p, "idle")' /\ ~At(p, "keychain")'
      /\ \A q \in Process \ {p} :
           /\ Generating(q)' = Generating(q) /\ Untouched(q)' = Untouched(q)
           /\ Filled(q)' = Filled(q) /\ At(q, "readid")' = At(q, "readid")
           /\ At(q, "sign")' = At(q, "sign") /\ At(q, "idle")' = At(q, "idle")
  BY <1>1, <1>2 DEF Generating, Untouched, Filled, At
<1>3. TypeOK'
  <2>1. proc[p].op # "none" /\ "private" \in Files
    BY DEF KeyInv, TypeOK, Files
  <2>2. ASSUME NEW q \in Process
        PROVE  /\ ~At(q, "idle")' => proc'[q].op # "none"
               /\ Generating(q)' => proc'[q].key \in Keys /\ proc'[q].id = proc'[q].key
               /\ proc'[q].pc \in {"truncate", "write"} => proc'[q].file \in Files
               /\ At(q, "readid")' => proc'[q].key \in Keys
    BY <1>1, <1>2, <1>g, <2>1 DEF KeyInv, TypeOK
  <2> QED BY <1>1, <2>2 DEF KeyInv, TypeOK
<1>4. AloneOK'
  <2>1. ASSUME NEW q \in Process, Generating(q)', proc'[q].alone
        PROVE  /\ HasFiles(q)' /\ Filled(q)'
               /\ \A r \in Process \ {q} : Generating(r)' => ~proc'[r].alone
    <3>1. CASE q = p
      <4>1. \A r \in Process \ {p} : ~Generating(r)
        BY <1>2, <2>1, <3>1 DEF OthersGenerate
      <4>2. Filled(p)'
        BY <1>2, <1>g DEF Filled
      <4> QED BY <1>g, <3>1, <4>1, <4>2 DEF HasFiles
    <3>2. CASE q # p
      <4>1. Generating(q) /\ proc[q].alone
        BY <1>1, <1>g, <2>1, <3>2
      <4>2. /\ HasFiles(q) /\ Filled(q)
            /\ \A r \in Process \ {q} : Generating(r) => ~proc[r].alone
        BY <4>1 DEF KeyInv, AloneOK
      <4>3. ~proc'[p].alone
        BY <1>2, <3>2, <4>1 DEF OthersGenerate
      <4> QED BY <1>1, <1>g, <3>2, <4>2, <4>3 DEF HasFiles
    <3> QED BY <3>1, <3>2
  <2> QED BY <2>1 DEF AloneOK
<1>5. LoadOK' /\ SignsUnderOwnId'
  <2>1. ASSUME NEW q \in Process, At(q, "readid")', proc'[q].clean
        PROVE  HasFiles(q)' /\ file'["id"] = proc'[q].key
    <3>1. q # p /\ At(q, "readid") /\ proc[q].clean
      BY <1>1, <1>g, <2>1
    <3>2. HasFiles(q) /\ file["id"] = proc[q].key
      BY <3>1 DEF KeyInv, LoadOK
    <3> QED BY <1>1, <1>g, <3>1, <3>2 DEF HasFiles
  <2>2. SignsUnderOwnId'
    BY <1>1, <1>g DEF KeyInv, SignsUnderOwnId
  <2> QED BY <2>1, <2>2 DEF LoadOK
<1>6. FilesOK'
  BY <1>1, <1>2 DEF KeyInv, FilesOK, Untouched, Generating, At
<1> QED BY <1>3, <1>4, <1>5, <1>6 DEF KeyInv

\* Steps that touch no file: p leaves "idle", "exists" or "read" without
\* generating, goes back to "idle", or signs.
LEMMA GoesOnKeepsInv ==
  ASSUME KeyInv, NEW p \in Process, NEW s \in States, Become(p, s),
         s.pc \in {"idle", "exists", "read"}, s.pc # "idle" => s.op # "none",
         ~Generating(p), UNCHANGED <<file, keychain, minted, spoiled>>
  PROVE  KeyInv'
<1>1. /\ proc' \in [Process -> States] /\ proc'[p] = s
      /\ \A q \in Process \ {p} : proc'[q] = proc[q]
  BY Moves DEF KeyInv
<1>2. TypeOK'
  BY <1>1 DEF KeyInv, TypeOK, At, Generating
<1>3. AloneOK'
  BY <1>1 DEF KeyInv, AloneOK, HasFiles, Filled, Untouched, Generating, At
<1>4. LoadOK' /\ SignsUnderOwnId'
  BY <1>1 DEF KeyInv, LoadOK, SignsUnderOwnId, HasFiles, Untouched, Generating, At
<1>5. FilesOK'
  BY <1>1 DEF KeyInv, FilesOK, Untouched, Generating, At
<1> QED BY <1>2, <1>3, <1>4, <1>5 DEF KeyInv

LEMMA BeginKeepsInv ==
  ASSUME KeyInv, NEW p \in Process, NEW op \in {"append", "evidence", "gen-key"}, Begin(p, op)
  PROVE  KeyInv'
<1> DEFINE s == [Idle EXCEPT !.op = op, !.pc = IF op = "append" THEN "read" ELSE "exists"]
<1>1. s \in States /\ s.pc \in {"exists", "read"} /\ s.op # "none"
  BY DEF Idle, States
<1>2. Become(p, s) /\ ~Generating(p) /\ UNCHANGED <<file, keychain, minted, spoiled>>
  BY DEF Begin, At, Generating
<1> HIDE DEF s
<1> QED BY <1>1, <1>2, GoesOnKeepsInv

LEMMA CheckKeepsInv ==
  ASSUME KeyInv, NEW p \in Process, CheckExists(p)
  PROVE  KeyInv'
<1>1. ~At(p, "idle") /\ ~Generating(p)
  BY DEF CheckExists, At, Generating
<1>2. CASE file["private"] = None /\ FreshPair(p, LookingUp(p, "exists"))
  <2>1. file["private"] \notin Keys
    BY <1>2, SigningKeyAssumption
  <2> QED BY <1>1, <1>2, <2>1, StartKeepsInv DEF CheckExists
<1>3. CASE /\ Become(p, IF proc[p].op = "gen-key" THEN Idle ELSE [proc[p] EXCEPT !.pc = "read"])
           /\ UNCHANGED minted
  <2> DEFINE s == IF proc[p].op = "gen-key" THEN Idle ELSE [proc[p] EXCEPT !.pc = "read"]
  <2>1. proc[p] \in States /\ proc[p].op # "none"
    BY <1>1 DEF KeyInv, TypeOK
  <2>2. s \in States /\ s.pc \in {"idle", "read"} /\ (s.pc # "idle" => s.op # "none")
    <3>1. CASE proc[p].op = "gen-key"
      BY <3>1, IdleState DEF Idle
    <3>2. CASE proc[p].op # "gen-key"
      BY <2>1, <3>2 DEF States
    <3> QED BY <3>1, <3>2
  <2>3. Become(p, s)
    BY <1>3
  <2> HIDE DEF s
  <2> QED BY <1>1, <1>3, <2>2, <2>3, GoesOnKeepsInv DEF CheckExists
<1> QED BY <1>2, <1>3 DEF CheckExists

LEMMA ReadPrivateKeepsInv ==
  ASSUME KeyInv, NEW p \in Process, ReadPrivate(p)
  PROVE  KeyInv'
<1>1. ~At(p, "idle") /\ ~Generating(p) /\ UNCHANGED <<file, keychain, spoiled>>
      /\ proc[p] \in States /\ proc[p].op # "none"
  BY DEF ReadPrivate, At, Generating, KeyInv, TypeOK
<1>2. CASE PrivateKey \in Keys
  <2> DEFINE s == [LookingUp(p, "readid") EXCEPT !.key = PrivateKey]
  <2>1. Become(p, s) /\ UNCHANGED minted
    BY <1>2 DEF ReadPrivate
  <2>2. /\ s \in States /\ s.pc = "readid" /\ s.key = PrivateKey /\ s.op = proc[p].op
        /\ s.clean = (~spoiled /\ ~OthersGenerate(p))
    <3>1. OthersGenerate(p) \in BOOLEAN /\ spoiled \in BOOLEAN
      BY DEF OthersGenerate, KeyInv, TypeOK
    <3> QED BY <1>1, <1>2, <3>1 DEF LookingUp, States
  <2> HIDE DEF s
  <2>3. /\ proc' \in [Process -> States] /\ proc'[p] = s
        /\ \A q \in Process \ {p} : proc'[q] = proc[q]
    BY <2>1, <2>2, Moves DEF KeyInv
  <2>4. s.clean => file["id"] = s.key
    <3>1. SUFFICES ASSUME ~spoiled, ~OthersGenerate(p) PROVE file["id"] = PrivateKey
      BY <2>2
    <3>2. \A q \in Process : ~Generating(q)
      BY <1>1, <3>1 DEF OthersGenerate
    <3>3. file["private"] \in {None, file["id"]} /\ keychain \in {None, file["id"]}
      BY <3>1, <3>2 DEF KeyInv, FilesOK
    <3> QED BY <1>2, <3>3, SigningKeyAssumption DEF PrivateKey
  <2>5. TypeOK'
    BY <1>1, <1>2, <2>1, <2>2, <2>3 DEF KeyInv, TypeOK, At, Generating
  <2>6. AloneOK'
    BY <1>1, <2>2, <2>3 DEF KeyInv, AloneOK, HasFiles, Filled, Untouched, Generating, At
  <2>7. LoadOK'
    <3>1. ASSUME NEW q \in Process \ {p}, At(q, "readid")', proc'[q].clean
          PROVE  HasFiles(q)' /\ file'["id"] = proc'[q].key
      BY <1>1, <2>2, <2>3, <3>1 DEF KeyInv, LoadOK, HasFiles, Untouched, Generating, At
    <3>2. ASSUME s.clean
          PROVE  HasFiles(p)' /\ file'["id"] = proc'[p].key
      <4>1. \A q \in Process \ {p} : ~Generating(q)'
        BY <2>2, <2>3, <3>2 DEF OthersGenerate, Generating
      <4> QED BY <1>1, <2>3, <2>4, <3>2, <4>1 DEF HasFiles
    <3> QED BY <2>3, <3>1, <3>2 DEF LoadOK
  <2>8. SignsUnderOwnId'
    BY <1>1, <2>2, <2>3 DEF KeyInv, SignsUnderOwnId, At
  <2>9. FilesOK'
    BY <1>1, <2>2, <2>3 DEF KeyInv, FilesOK, Untouched, Generating, At
  <2> QED BY <2>5, <2>6, <2>7, <2>8, <2>9 DEF KeyInv
<1>3. CASE PrivateKey \notin Keys /\ proc[p].op = "append"
  <2>1. FreshPair(p, LookingUp(p, "read"))
    BY <1>3 DEF ReadPrivate
  <2>2. file["private"] \notin Keys
    BY <1>3, SigningKeyAssumption DEF PrivateKey
  <2> QED BY <1>1, <2>1, <2>2, StartKeepsInv
<1>4. CASE PrivateKey \notin Keys /\ proc[p].op # "append"
  <2>1. Become(p, Idle) /\ UNCHANGED minted
    BY <1>4 DEF ReadPrivate
  <2>2. Idle.pc = "idle"
    BY DEF Idle
  <2> QED BY <1>1, <2>1, <2>2, IdleState, GoesOnKeepsInv
<1> QED BY <1>2, <1>3, <1>4

LEMMA ReadKeyIdKeepsInv ==
  ASSUME KeyInv, NEW p \in Process, ReadKeyId(p)
  PROVE  KeyInv'
<1> DEFINE s == [proc[p] EXCEPT !.pc = "sign",
                   !.id = IF file["id"] \in Keys THEN file["id"] ELSE proc[p].key]
<1>1. /\ At(p, "readid") /\ proc[p] \in States /\ proc[p].op # "none" /\ proc[p].key \in Keys
      /\ UNCHANGED <<file, keychain, minted, spoiled>>
  BY DEF ReadKeyId, At, KeyInv, TypeOK
<1>2. /\ s \in States /\ s.pc = "sign" /\ s.op = proc[p].op /\ s.key = proc[p].key
      /\ s.clean = proc[p].clean
      /\ s.id = IF file["id"] \in Keys THEN file["id"] ELSE proc[p].key
  BY <1>1 DEF States
<1>3. Become(p, s)
  BY DEF ReadKeyId
<1> HIDE DEF s
<1>4. /\ proc' \in [Process -> States] /\ proc'[p] = s
      /\ \A q \in Process \ {p} : proc'[q] = proc[q]
  BY <1>2, <1>3, Moves DEF KeyInv
<1>5. TypeOK'
  BY <1>1, <1>2, <1>4 DEF KeyInv, TypeOK, At, Generating
<1>6. AloneOK'
  BY <1>1, <1>2, <1>4 DEF KeyInv, AloneOK, HasFiles, Filled, Untouched, Generating, At
<1>7. LoadOK'
  BY <1>1, <1>2, <1>4 DEF KeyInv, LoadOK, HasFiles, Untouched, Generating, At
<1>8. SignsUnderOwnId'
  BY <1>1, <1>2, <1>4 DEF KeyInv, LoadOK, SignsUnderOwnId, At
<1>9. FilesOK'
  BY <1>1, <1>2, <1>4 DEF KeyInv, FilesOK, Untouched, Generating, At
<1> QED BY <1>5, <1>6, <1>7, <1>8, <1>9 DEF KeyInv

\* Whoever is looking a key up or generating one is overtaken by p, and p by
\* nobody.
LEMMA TruncateKeepsInv ==
  ASSUME KeyInv, NEW p \in Process, Truncate(p)
  PROVE  KeyInv'
<1>1. /\ At(p, "truncate") /\ proc[p] \in States /\ proc[p].file \in Files
      /\ proc \in [Process -> States]
      /\ file' = [file EXCEPT ![proc[p].file] = Empty]
      /\ UNCHANGED <<keychain, minted, spoiled>>
  BY DEF Truncate, At, KeyInv, TypeOK
<1>2. proc' = [q \in Process |-> IF q = p THEN [proc[p] EXCEPT !.pc = "write"]
                                 ELSE [proc[q] EXCEPT !.alone = FALSE, !.clean = FALSE]]
  BY DEF Truncate
<1>3. /\ proc'[p] \in States /\ proc'[p].pc = "write" /\ proc'[p].file = proc[p].file
      /\ proc'[p].op = proc[p].op /\ proc'[p].key = proc[p].key /\ proc'[p].id = proc[p].id
      /\ proc'[p].alone = proc[p].alone /\ proc'[p].clean = proc[p].clean
  BY <1>1, <1>2 DEF States
<1>4. ASSUME NEW q \in Process \ {p}
      PROVE  /\ proc'[q] \in States /\ proc'[q].pc = proc[q].pc /\ proc'[q].file = proc[q].file
             /\ proc'[q].op = proc[q].op /\ proc'[q].key = proc[q].key
             /\ proc'[q].id = proc[q].id /\ ~proc'[q].alone /\ ~proc'[q].clean
  BY <1>1, <1>2 DEF States
<1>5. proc' \in [Process -> States]
  BY <1>2, <1>3, <1>4
<1>6. TypeOK'
  BY <1>1, <1>3, <1>4, <1>5 DEF KeyInv, TypeOK, At, Generating
<1>7. AloneOK'
  BY <1>1, <1>3, <1>4
     DEF KeyInv, TypeOK, AloneOK, HasFiles, Filled, Untouched, Generating, At, Files
<1>8. LoadOK'
  BY <1>1, <1>3, <1>4 DEF KeyInv, LoadOK, At
<1>9. SignsUnderOwnId'
  BY <1>1, <1>3, <1>4 DEF KeyInv, SignsUnderOwnId, At
<1>10. FilesOK'
  BY <1>1, <1>3, <1>4 DEF KeyInv, FilesOK, Untouched, Generating, At
<1> QED BY <1>6, <1>7, <1>8, <1>9, <1>10 DEF KeyInv

LEMMA FillKeepsInv ==
  ASSUME KeyInv, NEW p \in Process, Fill(p)
  PROVE  KeyInv'
<1> DEFINE next == NextFile[proc[p].file]
           s == [proc[p] EXCEPT !.pc = IF next = "none" THEN "keychain" ELSE "truncate",
                                !.file = next]
<1>1. /\ At(p, "write") /\ proc[p] \in States /\ proc[p].file \in Files
      /\ proc[p].key \in Keys
      /\ file' = [file EXCEPT ![proc[p].file] = proc[p].key]
      /\ UNCHANGED <<keychain, minted, spoiled>>
  BY DEF Fill, At, Generating, KeyInv, TypeOK
<1>2. /\ proc[p].file = "private" => next = "public"
      /\ proc[p].file = "public"  => next = "id"
      /\ proc[p].file = "id"      => next = "none"
      /\ next \in {"public", "id", "none"}
  BY <1>1 DEF NextFile, Files
<1>3. Become(p, s)
  BY DEF Fill
<1> HIDE DEF next
<1>4. /\ s \in States /\ s.pc = (IF next = "none" THEN "keychain" ELSE "truncate")
      /\ s.file = next /\ s.op = proc[p].op /\ s.key = proc[p].key /\ s.id = proc[p].id
      /\ s.alone = proc[p].alone /\ s.clean = proc[p].clean
  BY <1>1, <1>2 DEF States, Files
<1> HIDE DEF s
<1>5. /\ proc' \in [Process -> States] /\ proc'[p] = s
      /\ \A q \in Process \ {p} : proc'[q] = proc[q]
  BY <1>3, <1>4, Moves DEF KeyInv
<1>6. TypeOK'
  BY <1>1, <1>2, <1>4, <1>5 DEF KeyInv, TypeOK, At, Generating, Files
<1>7. AloneOK'
  BY <1>1, <1>2, <1>4, <1>5
     DEF KeyInv, TypeOK, AloneOK, HasFiles, Filled, Untouched, Generating, At, Files
<1>8. LoadOK'
  BY <1>1, <1>2, <1>4, <1>5
     DEF KeyInv, TypeOK, LoadOK, HasFiles, Untouched, Generating, At, Files
<1>9. SignsUnderOwnId'
  BY <1>1, <1>2, <1>4, <1>5 DEF KeyInv, SignsUnderOwnId, At
<1>10. FilesOK'
  BY <1>1, <1>2, <1>4, <1>5 DEF KeyInv, FilesOK, Untouched, Generating, At
<1> QED BY <1>6, <1>7, <1>8, <1>9, <1>10 DEF KeyInv

\* A generation that was not overtaken leaves files that belong together.
LEMMA StoreKeepsInv ==
  ASSUME KeyInv, NEW p \in Process, StoreInKeychain(p)
  PROVE  KeyInv'
<1> DEFINE s == CASE proc[p].op = "append"   -> [proc[p] EXCEPT !.pc = "sign", !.file = "none"]
                  [] proc[p].op = "evidence" -> [proc[p] EXCEPT !.pc = "read", !.file = "none"]
                  [] proc[p].op = "gen-key"  -> Idle
<1>1. /\ At(p, "keychain") /\ Generating(p) /\ proc[p] \in States
      /\ proc[p].op \in {"append", "evidence", "gen-key"}
      /\ proc[p].key \in Keys /\ proc[p].id = proc[p].key
      /\ keychain' \in {proc[p].key, keychain, None}
      /\ spoiled' = (~proc[p].alone \/ keychain' \notin {None, proc[p].key})
      /\ UNCHANGED <<file, minted>>
  BY DEF StoreInKeychain, At, Generating, KeyInv, TypeOK, States
<1>2. Become(p, s)
  BY DEF StoreInKeychain
<1>3. /\ s \in States /\ s.pc \in {"sign", "read", "idle"} /\ (s.pc # "idle" => s.op # "none")
      /\ s.pc = "sign" => s.id = s.key
  BY <1>1, IdleState DEF States, Idle
<1> HIDE DEF s
<1>4. /\ proc' \in [Process -> States] /\ proc'[p] = s
      /\ \A q \in Process \ {p} : proc'[q] = proc[q]
  BY <1>2, <1>3, Moves DEF KeyInv
<1>5. TypeOK'
  <2>1. keychain' \in KeyOrNone /\ spoiled' \in BOOLEAN
    BY <1>1 DEF KeyInv, TypeOK, KeyOrNone
  <2> QED BY <1>1, <1>3, <1>4, <2>1 DEF KeyInv, TypeOK, At, Generating
<1>6. AloneOK'
  BY <1>1, <1>3, <1>4 DEF KeyInv, AloneOK, HasFiles, Filled, Untouched, Generating, At
<1>7. LoadOK'
  BY <1>1, <1>3, <1>4 DEF KeyInv, LoadOK, HasFiles, Untouched, Generating, At
<1>8. SignsUnderOwnId'
  BY <1>1, <1>3, <1>4 DEF KeyInv, SignsUnderOwnId, At
<1>9. FilesOK'
  <2>1. SUFFICES ASSUME ~spoiled'
                 PROVE  /\ file["public"] = file["id"]
                        /\ file["private"] \in {None, file["id"]}
                        /\ keychain' \in {None, file["id"]}
    BY <1>1 DEF FilesOK
  <2>2. proc[p].alone /\ keychain' \in {None, proc[p].key}
    BY <1>1, <2>1
  <2>3. Filled(p)
    BY <1>1, <2>2 DEF KeyInv, AloneOK
  <2> QED BY <1>1, <2>2, <2>3 DEF Filled
<1> QED BY <1>5, <1>6, <1>7, <1>8, <1>9 DEF KeyInv

\* After a signature, or a death: one that interrupts a generation is noted.
LEMMA EndKeepsInv ==
  ASSUME KeyInv, NEW p \in Process, SignWith(p) \/ Crash(p)
  PROVE  KeyInv'
<1>1. /\ Become(p, Idle) /\ UNCHANGED <<file, keychain, minted>>
      /\ spoiled' \in BOOLEAN /\ (spoiled => spoiled') /\ (Generating(p) => spoiled')
  BY DEF SignWith, Crash, At, Generating, KeyInv, TypeOK
<1>2. /\ proc' \in [Process -> States] /\ proc'[p] = Idle /\ Idle.pc = "idle"
      /\ \A q \in Process \ {p} : proc'[q] = proc[q]
  BY <1>1, IdleState, Moves DEF KeyInv, Idle
<1>3. TypeOK'
  BY <1>1, <1>2 DEF KeyInv, TypeOK, At, Generating
<1>4. AloneOK'
  BY <1>1, <1>2 DEF KeyInv, AloneOK, HasFiles, Filled, Untouched, Generating, At
<1>5. LoadOK' /\ SignsUnderOwnId'
  BY <1>1, <1>2 DEF KeyInv, LoadOK, SignsUnderOwnId, HasFiles, Untouched, Generating, At
<1>6. FilesOK'
  BY <1>1, <1>2 DEF KeyInv, FilesOK, Untouched, Generating, At
<1> QED BY <1>3, <1>4, <1>5, <1>6 DEF KeyInv

LEMMA RemoveKeepsInv ==
  ASSUME KeyInv, RemovePrivate
  PROVE  KeyInv'
<1>1. /\ file' = [file EXCEPT !["private"] = None] /\ file'["private"] = None
      /\ file'["public"] = file["public"] /\ file'["id"] = file["id"]
      /\ UNCHANGED <<keychain, minted, spoiled, proc>>
  BY DEF RemovePrivate, KeyInv, TypeOK, Files
<1>2. TypeOK'
  BY <1>1 DEF KeyInv, TypeOK, At, Generating
<1>3. AloneOK'
  BY <1>1, SigningKeyAssumption
     DEF KeyInv, AloneOK, HasFiles, Filled, Untouched, Generating, At
<1>4. LoadOK' /\ SignsUnderOwnId'
  BY <1>1 DEF KeyInv, LoadOK, SignsUnderOwnId, HasFiles, Untouched, Generating, At
<1>5. FilesOK'
  BY <1>1 DEF KeyInv, FilesOK, Untouched, Generating, At
<1> QED BY <1>2, <1>3, <1>4, <1>5 DEF KeyInv

-----------------------------------------------------------------------------
(* The theorems *)

LEMMA KeyInvStarts == ASSUME Init PROVE KeyInv
<1>1. /\ \A p \in Process : proc[p] = Idle
      /\ Idle.pc = "idle"
  BY DEF Init, Idle
<1>2. TypeOK
  BY <1>1, IdleState DEF Init, TypeOK, KeyOrNone, At, Generating, Files
<1>3. AloneOK /\ LoadOK /\ SignsUnderOwnId
  BY <1>1 DEF AloneOK, LoadOK, SignsUnderOwnId, Generating, At
<1>4. FilesOK
  BY DEF Init, FilesOK, Files
<1> QED BY <1>2, <1>3, <1>4 DEF KeyInv

LEMMA KeyInvSteps == ASSUME KeyInv, [Next]_vars PROVE KeyInv'
<1>1. CASE UNCHANGED vars
  BY <1>1 DEF vars, KeyInv, TypeOK, AloneOK, LoadOK, FilesOK, SignsUnderOwnId, HasFiles,
              Filled, Untouched, Generating, At
<1>2. ASSUME NEW p \in Process, Step(p) PROVE KeyInv'
  BY <1>2, BeginKeepsInv, CheckKeepsInv, ReadPrivateKeepsInv, ReadKeyIdKeepsInv,
     TruncateKeepsInv, FillKeepsInv, StoreKeepsInv, EndKeepsInv DEF Step
<1>3. CASE RemovePrivate
  BY <1>3, RemoveKeepsInv
<1> QED BY <1>1, <1>2, <1>3 DEF Next

LEMMA KeyInvHolds == Spec => []KeyInv
<1>1. Init => KeyInv
  BY KeyInvStarts
<1>2. KeyInv /\ [Next]_vars => KeyInv'
  BY KeyInvSteps
<1> QED BY <1>1, <1>2, PTL DEF Spec

\* However many processes generate, load and remove keys, generations that did
\* not overlap and were not interrupted leave one pair in files and keychain.
THEOREM FilesBelongTogether == Spec => []FilesAgree
<1>1. KeyInv => FilesAgree
  BY DEF KeyInv, FilesOK, FilesAgree, Quiet
<1> QED BY <1>1, KeyInvHolds, PTL

\* Nobody whose lookup was not overtaken signs under another key's id.
THEOREM OwnIdSigned == Spec => []SignsUnderOwnId
<1>1. KeyInv => SignsUnderOwnId
  BY DEF KeyInv
<1> QED BY <1>1, KeyInvHolds, PTL

\* A readable private key is overwritten only after a generation overlapped.
THEOREM KeysAreNotDestroyed == Spec => []KeyNotDestroyed
<1>1. KeyInv => KeyNotDestroyed
  BY DEF KeyInv, AloneOK, Filled, Untouched, Generating, At, KeyNotDestroyed
<1> QED BY <1>1, KeyInvHolds, PTL
=============================================================================
