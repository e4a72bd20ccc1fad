----------------------------- MODULE AgentProxy -----------------------------
(***************************************************************************)
(* dontlie_agent.auto: a program starts a proxy of its own (or takes the   *)
(* one that listens already), points its SDKs at it through environment    *)
(* variables, and puts everything back afterwards.  Uses may be nested (a  *)
(* signed function that calls another) and, in a program with threads,     *)
(* overlap.  A proxy may be slow to start, never start or die.             *)
(*                                                                         *)
(* Abstracted: the base URLs and placeholder keys are set and restored     *)
(* together, so the environment is one value: the port it leads to, or     *)
(* what the program had there itself.                                      *)
(***************************************************************************)
EXTENDS Lists

CONSTANTS
  Handle,       \* uses of install()
  Port,         \* ports of the machine
  Own,          \* the program's own settings
  Free,         \* nobody listens
  Foreign       \* a listener the program did not start

ASSUME AgentAssumption == Own \notin Port /\ {Free, Foreign} \cap Handle = {} /\ Free # Foreign

VARIABLES
  environ,      \* where the environment variables lead
  listener,     \* who listens on each port
  handle,       \* the state of each use
  stack,        \* uses in force, the first installed first
  entangled,   \* history: uses that were neither nested nor apart
  died          \* history: a proxy died, or a foreign listener left

agentVars == <<environ, listener, handle, stack, entangled, died>>

-----------------------------------------------------------------------------
NotInstalled == [pc |-> "none", port |-> Own, proc |-> "none", backup |-> Own]

AgentInit ==
  /\ environ = Own
  /\ listener = [p \in Port |-> Free]
  /\ handle = [h \in Handle |-> NotInstalled]
  /\ stack = <<>>
  /\ entangled = FALSE
  /\ died = FALSE

HandleAt(h, pc) == handle[h].pc = pc
HandleBecomes(h, state) == handle' = [handle EXCEPT ![h] = state]

\* Somebody else is between two steps of installing or uninstalling.
Amid(h) == \E g \in Handle \ {h} : handle[g].pc \in {"chosen", "wait", "patch", "stop"}

\* _port_is_free: nothing is bound to the port.
PortIsFree(p) == listener[p] = Free

\* install(): the port that was asked for, or 8080: the scan finds that very
\* port when it is free, and when it is not, its listener is taken for a proxy.
ChoosePort(h) ==
  /\ HandleAt(h, "none")
  /\ \E p \in Port : HandleBecomes(h, [NotInstalled EXCEPT !.pc = "chosen", !.port = p])
  /\ entangled' = (entangled \/ Amid(h))
  /\ UNCHANGED <<environ, listener, stack, died>>

\* _start_proxy, if the port is still free.
SpawnProxy(h) ==
  /\ HandleAt(h, "chosen")
  /\ HandleBecomes(h, IF PortIsFree(handle[h].port)
                      THEN [handle[h] EXCEPT !.pc = "wait", !.proc = "starting"]
                      ELSE [handle[h] EXCEPT !.pc = "patch"])
  /\ UNCHANGED <<environ, listener, stack, entangled, died>>

\* The child binds the port, or ends because somebody else has.
ProxyBinds(h) ==
  /\ handle[h].proc = "starting"
  /\ IF PortIsFree(handle[h].port)
     THEN /\ listener' = [listener EXCEPT ![handle[h].port] = h]
          /\ HandleBecomes(h, [handle[h] EXCEPT !.proc = "up"])
     ELSE /\ HandleBecomes(h, [handle[h] EXCEPT !.proc = "dead"])
          /\ UNCHANGED listener
  /\ UNCHANGED <<environ, stack, entangled, died>>

\* _start_proxy: the port is bound, by whomever ...
SeeBound(h) ==
  /\ HandleAt(h, "wait") /\ ~PortIsFree(handle[h].port)
  /\ HandleBecomes(h, [handle[h] EXCEPT !.pc = "patch"])
  /\ UNCHANGED <<environ, listener, stack, entangled, died>>

\* ... or five seconds are over: install() raises, the child stays.
GiveUp(h) ==
  /\ HandleAt(h, "wait") /\ PortIsFree(handle[h].port)
  /\ HandleBecomes(h, [handle[h] EXCEPT !.pc = "failed"])
  /\ UNCHANGED <<environ, listener, stack, entangled, died>>

\* _patch_env: back each variable up once, then set them.
PatchEnv(h) ==
  /\ HandleAt(h, "patch")
  /\ HandleBecomes(h, [handle[h] EXCEPT !.pc = "installed", !.backup = environ])
  /\ environ' = handle[h].port
  /\ stack' = Append(stack, h)
  /\ UNCHANGED <<listener, entangled, died>>

\* Fault variant: nothing stops a second uninstall().
RestoreAgain(h) ==
  /\ handle[h].pc \in {"installed", "gone"}
  /\ environ' = handle[h].backup
  /\ HandleBecomes(h, [handle[h] EXCEPT !.pc = "stop"])
  /\ entangled' = (entangled \/ Amid(h) \/ (h \in {stack[j] : j \in DOMAIN stack} /\ stack[Len(stack)] # h))
  /\ stack' = Omitting(stack, {h})
  /\ UNCHANGED <<listener, died>>

\* uninstall(), whoever calls it first (the end of a with block, the program,
\* atexit): put the variables back.  Called again it returns at once.
Restore(h) ==
  /\ HandleAt(h, "installed")
  /\ environ' = handle[h].backup
  /\ HandleBecomes(h, [handle[h] EXCEPT !.pc = "stop"])
  /\ entangled' = (entangled \/ Amid(h) \/ stack[Len(stack)] # h)
  /\ stack' = Omitting(stack, {h})
  /\ UNCHANGED <<listener, died>>

\* ... and stop the child, if it runs.
StopProxy(h) ==
  /\ HandleAt(h, "stop")
  /\ listener' = [p \in Port |-> IF listener[p] = h THEN Free ELSE listener[p]]
  /\ HandleBecomes(h, [handle[h] EXCEPT !.pc = "gone", !.proc = "none"])
  /\ UNCHANGED <<environ, stack, entangled, died>>

\* External: a proxy dies; another program comes and goes.
ProxyDies(h) ==
  /\ handle[h].proc = "up"
  /\ listener' = [listener EXCEPT ![handle[h].port] = Free]
  /\ HandleBecomes(h, [handle[h] EXCEPT !.proc = "dead"])
  /\ died' = TRUE
  /\ UNCHANGED <<environ, stack, entangled>>

Elsewhere(p) ==
  /\ \/ /\ PortIsFree(p)
        /\ listener' = [listener EXCEPT ![p] = Foreign]
        /\ UNCHANGED died
     \/ /\ listener[p] = Foreign
        /\ listener' = [listener EXCEPT ![p] = Free]
        /\ died' = TRUE
  /\ UNCHANGED <<environ, handle, stack, entangled>>

AgentNext ==
  \/ \E h \in Handle :
       \/ ChoosePort(h) \/ SpawnProxy(h) \/ SeeBound(h) \/ GiveUp(h)
       \/ PatchEnv(h) \/ Restore(h) \/ StopProxy(h)
       \/ ProxyBinds(h) \/ ProxyDies(h)
  \/ \E p \in Port : Elsewhere(p)

-----------------------------------------------------------------------------
(* Properties *)

\* Uses that are nested or apart leave no trace: the innermost one in force
\* decides where the SDKs are led, somebody listens there unless a listener
\* died, and when the last one is over the program has its own settings back
\* and no proxy is left but one that was too slow to start.
AgentLeavesNoTrace ==
  ~entangled =>
    /\ stack # <<>> =>
         LET h == stack[Len(stack)]
         IN  environ = handle[h].port /\ (died \/ ~PortIsFree(environ))
    /\ stack = <<>> => environ = Own
    /\ (\A h \in Handle : handle[h].pc \in {"none", "failed", "gone"}) =>
         \A p \in Port : listener[p] \in Handle => HandleAt(listener[p], "failed")
=============================================================================
