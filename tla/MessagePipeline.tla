--------------------------- MODULE MessagePipeline ---------------------------
(***************************************************************************)
(* The command pipeline with one plugin in a worker process: Commands and  *)
(* PluginIpc put together.  The handler of a command of that plugin is a   *)
(* call of the bridge (_RemoteHandler), loading the plugin from the web    *)
(* begins start(), and its unloading waits for stop() before the commands  *)
(* go.  A bridge has one life: a plugin that is reloaded gets a new one.   *)
(***************************************************************************)
EXTENDS Commands, PluginIpc

CONSTANTS Remote,   \* the plugin with sandbox "process"
          Overlap,  \* whether inline plugins are used while the worker lives
          Probed    \* names in messages while there is no worker, unless Overlap

ASSUME PipelineAssumption ==
    /\ Calls = Messages /\ Overlap \in BOOLEAN /\ Probed \subseteq Names
    /\ Remote \in Plugins \ Range(BootOrder)

vars == <<commandVars, bridge>>

TypeOK == CommandsTypeOK /\ BridgeTypeOK

\* A plugin that boots has no bridge here: the remote one is loaded later.
Init == CommandsInit /\ BridgeInit

IsRemote(c) == c.plugin = Remote

\* The bound that Overlap = FALSE sets: either the inline plugins come and go
\* and have messages, or the remote one does, in the registry as it booted.
AllBooted == FoldLeft(LoadedAtBoot, Bare, BootOrder)
Fresh == /\ \A m \in Messages : message[m].at = "new"
         /\ \A p \in Plugins : standing[p] = IF p \in Range(BootOrder) THEN "loaded" ELSE "out"
         /\ Reg = AllBooted
Apart(n) == Overlap \/ IF starting = "no" THEN n \in Probed ELSE IsRemote(commands[n])

\* The same bound: what is left to do for a message when its handler is over,
\* or it was rejected, is nothing to the bridge and waits until that has gone.
Ending == {"counting", "failing", "excusing", "replying"}
InTurn(m) == Overlap \/ starting = "no" \/ stopping = "stopped" \/ message[m].at \notin Ending

\* What a handler that starts does to the bridge, and whether it raises
\* before its first await: request() refuses or fails to write at once.
Begins(m, c, raises) ==
    IF IsRemote(c)
      THEN Request(m) /\ (raises <=> call'[m] \in Over)
      ELSE UNCHANGED bridge

Invoking(m) == In(m, "invoked")' /\ ~In(m, "invoked")

Handles(m, raises) ==
    /\ \/ \E n \in Names : Apart(n) /\ Arrives(m, n, raises)
       \/ Ruled(m, raises)
    /\ IF Invoking(m) THEN Begins(m, message'[m].cmd, raises)
                      ELSE ~raises /\ UNCHANGED bridge

\* Slip: the proxy sends the call and does not await it.
SentOff(m) == IsRemote(message[m].cmd) => call[m] # "new"

Served(m) == IsRemote(message[m].cmd) => call[m] = "answered"

\* The answers are sent one after the other before the handler returns.
Settles(m) == Answered(m) /\ UNCHANGED commandVars

RemoteRaises(m) == (DrainFails(m) \/ Fails(m) \/ TimesOut(m)) /\ HandlerRaises(m)

Handling(m) ==
    \/ Settles(m)
    \/ RemoteRaises(m)
    \/ Drains(m) /\ UNCHANGED commandVars
    \/ Served(m) /\ HandlerReturns(m) /\ UNCHANGED bridge
    \/ ~IsRemote(message[m].cmd) /\ HandlerRaises(m) /\ UNCHANGED bridge

Ends(m) == InTurn(m) /\ (Counted(m) \/ FailureCounted(m) \/ Replied(m)) /\ UNCHANGED bridge

CutShort(m) ==
    /\ InTurn(m) /\ Cut(m)
    /\ IF call[m] \in InFlight THEN Abandons(m) ELSE UNCHANGED bridge

MessageStep(m) ==
    \/ Ignored(m) /\ UNCHANGED bridge
    \/ \E raises \in BOOLEAN : Handles(m, raises)
    \/ Handling(m)
    \/ Ends(m)
    \/ CutShort(m)

\* _load_plugin_process registers the commands, then the request awaits start().
LoadRemote ==
    /\ starting = "no"
    /\ Overlap \/ Fresh
    /\ Load(Remote) /\ BeginStart

UnloadRemote == BeginUnload(Remote) /\ BeginStop

RemoteGone == stopping = "stopped" /\ EndUnload(Remote) /\ UNCHANGED bridge

Inline(p) ==
    /\ p # Remote
    /\ Overlap \/ starting = "no"
    /\ Load(p) \/ BeginUnload(p) \/ EndUnload(p)
    /\ UNCHANGED bridge

Next ==
    \/ BootPlugin /\ UNCHANGED bridge
    \/ Up /\ \E m \in Messages : MessageStep(m)
    \/ Up /\ (LoadRemote \/ UnloadRemote \/ RemoteGone)
    \/ Up /\ \E p \in Plugins : Inline(p)
    \/ BridgeStep /\ UNCHANGED commandVars

\* What stop() needs to come to its end: its own steps, the timeout of its
\* call, a worker that reads while it is not hung, cancelled tasks that end.
Fairness ==
    /\ WF_vars(StopStep /\ UNCHANGED commandVars)
    /\ WF_vars(CallStep(Shutdown) /\ UNCHANGED commandVars)
    /\ WF_vars(WorkerReads /\ UNCHANGED commandVars)
    /\ \A k \in Caps : WF_vars(CapabilityEnds(k) /\ UNCHANGED commandVars)

Spec == Init /\ [][Next]_vars /\ Fairness

(***************************************************************************)
(* Properties.                                                             *)
(***************************************************************************)
(* The records of a message agree with one another, and those of a remote  *)
(* command with its call: success is recorded only if the worker answered, *)
(* failure only if the call was refused, failed or ran out of time.        *)
BooksBalance ==
    \A m \in Messages :
       /\ BooksOf(m)
       /\ IsRemote(message[m].cmd) =>
             /\ In(m, "audit_invoked") => call[m] = "answered"
             /\ In(m, "failed") => call[m] \in {"failed", "refused"}

(* Unloading a remote plugin comes to its end, whatever its worker does,   *)
(* unless the worker hangs again and again while the shutdown call waits   *)
(* in drain() behind lines it has not read: nothing bounds that wait.      *)
StopReturns ==
    <>[](stopping \in {"asking", "exiting", "gathering"}) =>
       <>[](call[Shutdown] = "draining") /\ []<>(proc = "hung")
=============================================================================
