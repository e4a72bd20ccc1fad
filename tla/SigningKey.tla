----------------------------- MODULE SigningKey -----------------------------
(***************************************************************************)
(* The signing key on disk: dontlie/sign.py and its three kinds of caller. *)
(* storage.append loads the key and generates one if that fails; batch,    *)
(* decision and annotate generate one if the private file is missing and   *)
(* load it then; gen-key generates one unless the private file is there.   *)
(* generate() rewrites three files in place, each truncated and then       *)
(* filled, and puts the private key in the OS keychain if there is one.    *)
(* Nothing locks them, so other processes read and write in between.       *)
(***************************************************************************)
EXTENDS Naturals, FiniteSets

CONSTANTS
  Process,      \* CLI invocations and proxy threads sharing DONTLIE_KEY_DIR
  Keys,         \* key pairs that can be generated, named by their key id
  None,         \* no file, no keychain entry
  Empty,        \* a file truncated and not yet filled
  HasKeychain,  \* an OS keychain command is installed
  MayCrash      \* processes may die

ASSUME SigningKeyAssumption ==
  /\ None \notin Keys /\ Empty \notin Keys /\ None # Empty
  /\ HasKeychain \in BOOLEAN /\ MayCrash \in BOOLEAN

VARIABLES
  file,         \* PRIVATE_FILE, PUBLIC_FILE and KEY_ID_FILE, by what they hold
  keychain,     \* private_key_pem in the OS keychain
  minted,       \* keys ever generated
  spoiled,      \* generations overlapped or died since the last undisturbed one
  proc          \* what each process is doing

vars == <<file, keychain, minted, spoiled, proc>>

Files == {"private", "public", "id"}

-----------------------------------------------------------------------------
Idle == [pc |-> "idle", op |-> "none", file |-> "none", id |-> None, key |-> None,
         alone |-> TRUE, clean |-> TRUE]

Init ==
  /\ file = [f \in Files |-> None]
  /\ keychain = None
  /\ minted = {}
  /\ spoiled = FALSE
  /\ proc = [p \in Process |-> Idle]

At(p, pc) == proc[p].pc = pc
Become(p, state) == proc' = [proc EXCEPT ![p] = state]

Generating(p) == proc[p].pc \in {"truncate", "write", "keychain"}
OthersGenerate(p) == \E q \in Process \ {p} : Generating(q)

\* A lookup of the key starts: from here on p may be overtaken.
LookingUp(p, pc) ==
  [proc[p] EXCEPT !.pc = pc, !.alone = ~OthersGenerate(p),
                  !.clean = ~spoiled /\ ~OthersGenerate(p)]

Begin(p, op) ==
  /\ At(p, "idle")
  /\ Become(p, [Idle EXCEPT !.op = op, !.pc = IF op = "append" THEN "read" ELSE "exists"])
  /\ UNCHANGED <<file, keychain, minted, spoiled>>

\* What generate() starts with: a fresh pair and the first file to write.
FreshPair(p, state) ==
  \E k \in Keys \ minted :
    /\ minted' = minted \cup {k}
    /\ Become(p, [state EXCEPT !.pc = "truncate", !.file = "private",
                               !.id = k, !.key = k])

\* Fault variant: gen-key does not look whether there is a key already.
CheckNothing(p) ==
  /\ At(p, "exists")
  /\ FreshPair(p, LookingUp(p, "exists"))
  /\ UNCHANGED <<file, keychain, spoiled>>

\* PRIVATE_FILE.exists(): generate if it is missing, load it (or, for gen-key,
\* refuse) if it is there.
CheckExists(p) ==
  /\ At(p, "exists")
  /\ \/ /\ file["private"] = None
        /\ FreshPair(p, LookingUp(p, "exists"))
     \/ /\ file["private"] # None
        /\ Become(p, IF proc[p].op = "gen-key" THEN Idle
                     ELSE [proc[p] EXCEPT !.pc = "read"])
        /\ UNCHANGED minted
  /\ UNCHANGED <<file, keychain, spoiled>>

\* load(): the private key, from the file or else from the keychain.
PrivateKey == IF file["private"] = None THEN keychain ELSE file["private"]

\* load(), first half.  append answers a failed load with generate().
ReadPrivate(p) ==
  /\ At(p, "read")
  /\ \/ /\ PrivateKey \in Keys
        /\ Become(p, [LookingUp(p, "readid") EXCEPT !.key = PrivateKey])
        /\ UNCHANGED minted
     \/ /\ PrivateKey \notin Keys /\ proc[p].op = "append"
        /\ FreshPair(p, LookingUp(p, "read"))
     \/ /\ PrivateKey \notin Keys /\ proc[p].op # "append"
        /\ Become(p, Idle)
        /\ UNCHANGED minted
  /\ UNCHANGED <<file, keychain, spoiled>>

\* load(), second half: the id is what KEY_ID_FILE says, if that can be parsed.
ReadKeyId(p) ==
  /\ At(p, "readid")
  /\ Become(p, [proc[p] EXCEPT !.pc = "sign",
                  !.id = IF file["id"] \in Keys THEN file["id"] ELSE proc[p].key])
  /\ UNCHANGED <<file, keychain, minted, spoiled>>

\* Fault variant: an existing key id file is kept.
TruncateNoId(p) ==
  /\ At(p, "truncate")
  /\ IF proc[p].file = "id" /\ file["id"] \in Keys
     THEN UNCHANGED file /\ Become(p, [proc[p] EXCEPT !.pc = "keychain", !.file = "none"])
     ELSE /\ file' = [file EXCEPT ![proc[p].file] = Empty]
          /\ proc' = [q \in Process |->
                        IF q = p THEN [proc[p] EXCEPT !.pc = "write"]
                        ELSE [proc[q] EXCEPT !.alone = FALSE, !.clean = FALSE]]
  /\ UNCHANGED <<keychain, minted, spoiled>>

\* generate() opens one of its files for writing, which empties it.  Whoever
\* is looking the key up, or generating one too, is overtaken.
Truncate(p) ==
  /\ At(p, "truncate")
  /\ file' = [file EXCEPT ![proc[p].file] = Empty]
  /\ proc' = [q \in Process |->
                IF q = p THEN [proc[p] EXCEPT !.pc = "write"]
                ELSE [proc[q] EXCEPT !.alone = FALSE, !.clean = FALSE]]
  /\ UNCHANGED <<keychain, minted, spoiled>>

\* Fault variant: the key id file is never written.
NextFileNoId == [private |-> "public", public |-> "none", id |-> "none"]

NextFile == [private |-> "public", public |-> "id", id |-> "none"]

Fill(p) ==
  /\ At(p, "write")
  /\ file' = [file EXCEPT ![proc[p].file] = proc[p].key]
  /\ LET next == NextFile[proc[p].file]
     IN  Become(p, [proc[p] EXCEPT !.pc = IF next = "none" THEN "keychain" ELSE "truncate",
                                   !.file = next])
  /\ UNCHANGED <<keychain, minted, spoiled>>

\* _keychain_set is best effort: it may store the key, fail and leave the old
\* entry, or (on macOS) delete the old one and then fail.
StoreInKeychain(p) ==
  /\ At(p, "keychain")
  /\ keychain' \in IF HasKeychain THEN {proc[p].key, keychain, None} ELSE {keychain}
  /\ spoiled' = (~proc[p].alone \/ keychain' \notin {None, proc[p].key})
  /\ Become(p, CASE proc[p].op = "append"   -> [proc[p] EXCEPT !.pc = "sign", !.file = "none"]
                 [] proc[p].op = "evidence" -> [proc[p] EXCEPT !.pc = "read", !.file = "none"]
                 [] proc[p].op = "gen-key"  -> Idle)
  /\ UNCHANGED <<file, minted>>

\* The operation signs with the pair it holds; Vault and Evidence go on here.
SignWith(p) ==
  /\ At(p, "sign")
  /\ Become(p, Idle)
  /\ UNCHANGED <<file, keychain, minted, spoiled>>

\* A process dies; one that was generating leaves its files as they are.
Crash(p) ==
  /\ MayCrash /\ ~At(p, "idle")
  /\ spoiled' = (spoiled \/ Generating(p))
  /\ Become(p, Idle)
  /\ UNCHANGED <<file, keychain, minted>>

\* External: the private file is removed ("hosts where the private file was
\* removed"); the other two files stay.
RemovePrivate ==
  /\ file["private"] # None
  /\ file' = [file EXCEPT !["private"] = None]
  /\ UNCHANGED <<keychain, minted, spoiled, proc>>

Step(p) ==
  \/ \E op \in {"append", "evidence", "gen-key"} : Begin(p, op)
  \/ CheckExists(p) \/ ReadPrivate(p) \/ ReadKeyId(p)
  \/ Truncate(p) \/ Fill(p) \/ StoreInKeychain(p)
  \/ SignWith(p)
  \/ Crash(p)

Next == (\E p \in Process : Step(p)) \/ RemovePrivate

Spec == Init /\ [][Next]_vars

-----------------------------------------------------------------------------
(* Properties *)

KeyOrNone == Keys \cup {None}

Quiet == \A p \in Process : ~Generating(p)

\* After generations that neither overlapped nor died, the three files and the
\* keychain belong to one key pair, whatever loads and removals came between.
FilesAgree ==
  ~spoiled /\ Quiet =>
    /\ file["public"] = file["id"]
    /\ file["private"] \in {None, file["id"]}
    /\ keychain \in {None, file["id"]}

\* A process signs under a foreign key id only if a generation overlapped its
\* own lookup or an earlier one was disturbed.
SignsUnderOwnId ==
  \A p \in Process : At(p, "sign") /\ proc[p].clean => proc[p].id = proc[p].key

\* A readable private key is about to be overwritten only by a process that
\* another generation overtook since it found the key missing or unreadable.
KeyNotDestroyed ==
  \A p \in Process :
    At(p, "truncate") /\ proc[p].file = "private" /\ file["private"] \in Keys
      => ~proc[p].alone

\* As long as nobody is generating and nobody has died, dontlie.pub is the
\* public key of dontlie.key ("Public keys are stored alongside as dontlie.pub
\* (PEM) so receipts can be verified offline").  The code does not guarantee it.
PublicFileMatches ==
  Quiet /\ file["private"] \in Keys => file["public"] = file["private"]
=============================================================================
