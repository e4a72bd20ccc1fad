------------------------------ MODULE Settings ------------------------------
(***************************************************************************)
(* Four files that are loaded whole, changed and written whole: the policy *)
(* (dontlie/policy.py), the provider registry (dontlie/registry.py), the   *)
(* team (dontlie/auth/users.py) and the leads (dontlie/crm/lead_pipe.py).  *)
(* Each editor is a command, or a program that uses the module.  A save    *)
(* empties the file and then fills it; nothing locks it; load() takes a    *)
(* policy or a registry it cannot read for an empty one.                   *)
(***************************************************************************)
EXTENDS Naturals, Sequences, Policy, Registry, People

CONSTANTS
  Editor,       \* processes that use one of the files
  Missing,      \* no file
  Broken,       \* a file that cannot be parsed
  UserIds, LeadIds, Emails,
  MaxSaves      \* bound: saves in a behaviour

\* What the files hold when they are whole.
Providers == [name : {"openai", "groq", "local", "acme"}, glob : Globs, attestable : BOOLEAN]
Registries == Seq(Providers)
Teams ==
  [users : SUBSET [id : UserIds, email : Emails, role : {"admin", "viewer"}],
   audit : Seq([id : UserIds, action : Actions, ok : BOOLEAN])]
LeadPipes ==
  [leads : SUBSET [id : LeadIds, email : Emails, score : {0, 40, 70}, status : Statuses]]

ASSUME SettingsAssumption ==
  /\ Missing # Broken /\ MaxSaves \in Nat
  /\ \A mark \in {Missing, Broken} :
       mark \notin Policies /\ mark \notin Registries /\ mark \notin Teams /\ mark \notin LeadPipes

VARIABLES
  kind,         \* which of the four files the behaviour is about
  store,        \* what the file holds
  editor,       \* what each editor is doing
  kept,         \* history: what was saved and never taken back
  logged,       \* history: audit entries that were saved
  saves,        \* saves so far
  disturbed     \* history: editors overlapped, or one died while saving

settingsVars == <<kind, store, editor, kept, logged, saves, disturbed>>

-----------------------------------------------------------------------------
Kinds == {"policy", "registry", "team", "leads"}

NotEditing == [pc |-> "idle", value |-> Missing, left |-> Missing,
               added |-> 0]

SettingsInit ==
  /\ kind \in Kinds
  /\ store = Missing
  /\ editor = [e \in Editor |-> NotEditing]
  /\ kept = {} /\ logged = 0 /\ saves = 0
  /\ disturbed = FALSE

EditorAt(e, pc) == editor[e].pc = pc
EditorBecomes(e, state) == editor' = [editor EXCEPT ![e] = state]

\* What load() returns; nothing if it raises.
Loaded ==
  CASE kind = "policy"   -> {LoadPolicy(store)}
    [] kind = "registry" -> {LoadRegistry(store, {Missing, Broken})}
    [] kind = "team"     -> IF store = Missing THEN {EmptyTeam}
                            ELSE IF store = Broken THEN {} ELSE {LoadTeam(store)}
    [] kind = "leads"    -> IF store = Missing THEN {EmptyPipe}
                            ELSE IF store = Broken THEN {} ELSE {store}

\* What one command, or one call, makes of a value.
Edited(value) ==
  CASE kind = "policy"   -> PolicyEdits(value)
    [] kind = "registry" -> {AddProvider(value, Provider(name, g, TRUE)) :
                               name \in {"groq", "acme"}, g \in Globs \ {{}}}
    [] kind = "team"     ->
         {AddUser(value, u) : u \in {v \in {User(i, m, r) :
              i \in UserIds, m \in Emails, r \in {"admin", "viewer"}} : MayAddUser(value, v)}}
           \cup {Authorize(value, u, "receipt:export") : u \in value.users}
    [] kind = "leads"    ->
         {AddLead(value, Lead(i, m, s, "new")) :
            i \in LeadIds \ {l.id : l \in value.leads}, m \in Emails, s \in {0, 70}}
           \cup {UpdateLead(value, l, 40, s) : l \in value.leads, s \in {"won", "?"}}

\* What a later load() must find again.
Remembered(value) ==
  CASE kind = "policy"   -> DeniedBy(value)
    [] kind = "registry" -> OrderIn(value)
    [] kind = "team"     -> {u.id : u \in value.users}
    [] kind = "leads"    -> {l.email : l \in value.leads}

\* What a file may hold between the opening and the closing of it.  The leads
\* are written line by line, and a file cut between two lines can be read.
Truncated(value) ==
  IF kind = "leads" THEN {[leads |-> some] : some \in SUBSET value.leads} \cup {Broken} ELSE {Broken}

-----------------------------------------------------------------------------
\* Bound: after MaxSaves saves, or once editors have disturbed each other (when
\* the properties promise nothing more), nothing new is begun.
MayBegin == saves < MaxSaves /\ ~disturbed

LoadFile(e) ==
  /\ EditorAt(e, "idle") /\ MayBegin
  /\ \E v \in Loaded : EditorBecomes(e, [NotEditing EXCEPT !.pc = "loaded", !.value = v])
  /\ disturbed' = (\E f \in Editor \ {e} : ~EditorAt(f, "idle"))
  /\ UNCHANGED <<kind, store, kept, logged, saves>>

\* registry install-default: only if there is no file.
InstallDefault(e) ==
  /\ EditorAt(e, "idle") /\ MayBegin
  /\ kind = "registry" /\ store = Missing
  /\ \E m \in Models :
       EditorBecomes(e, [NotEditing EXCEPT !.pc = "edited", !.value = DefaultRegistry({m}, Models)])
  /\ disturbed' = (\E f \in Editor \ {e} : ~EditorAt(f, "idle"))
  /\ UNCHANGED <<kind, store, kept, logged, saves>>

Edit(e) ==
  /\ EditorAt(e, "loaded")
  /\ \E v \in Edited(editor[e].value) :
       EditorBecomes(e, [editor[e] EXCEPT !.pc = "edited", !.value = v,
         !.added = IF kind = "team" THEN Len(v.audit) - Len(editor[e].value.audit) ELSE 0])
  /\ UNCHANGED <<kind, store, kept, logged, saves, disturbed>>

\* save(): open for writing ...
OpenFile(e) ==
  /\ EditorAt(e, "edited")
  /\ \E left \in Truncated(editor[e].value) :
       /\ store' = left
       /\ EditorBecomes(e, [editor[e] EXCEPT !.pc = "saving", !.left = left])
  /\ UNCHANGED <<kind, kept, logged, saves, disturbed>>

\* ... and write.  On a file that somebody else has written to in between, a
\* shorter text leaves the end of the longer one behind.
CloseFile(e) ==
  /\ EditorAt(e, "saving")
  /\ store' \in IF store = editor[e].left THEN {editor[e].value}
                ELSE {editor[e].value, Broken}
  /\ kept' = kept \cup Remembered(editor[e].value)
  /\ logged' = logged + editor[e].added
  /\ saves' = saves + 1
  /\ EditorBecomes(e, NotEditing)
  /\ UNCHANGED <<kind, disturbed>>

\* The process ends without saving, or while it saves.
QuitEditor(e) ==
  /\ ~EditorAt(e, "idle")
  /\ disturbed' = (disturbed \/ EditorAt(e, "saving"))
  /\ EditorBecomes(e, NotEditing)
  /\ UNCHANGED <<kind, store, kept, logged, saves>>

EditorStep(e) ==
  LoadFile(e) \/ InstallDefault(e) \/ Edit(e) \/ OpenFile(e) \/ CloseFile(e) \/ QuitEditor(e)

SettingsNext == \E e \in Editor : EditorStep(e)

-----------------------------------------------------------------------------
(* Properties *)

NobodySaves == \A e \in Editor : ~EditorAt(e, "saving")

\* What a save has stored (a denial, whatever the allow-only lists say, providers
\* and their order, users, leads) is found by every later load, whoever loaded,
\* edited, gave up or died in between, as long as no two editors overlapped and
\* none died while it wrote.
NothingForgotten ==
  ~disturbed /\ NobodySaves => \A v \in Loaded : kept \subseteq Remembered(v)

\* "The audit log is append-only": one editor after the other, every entry
\* that was ever saved is still there.  The code does not guarantee it.
AuditAppendOnly ==
  kind = "team" /\ ~disturbed /\ (\A e \in Editor : EditorAt(e, "idle")) /\ store # Missing
    => Len(store.audit) = logged
=============================================================================
