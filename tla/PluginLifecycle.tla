--------------------------- MODULE PluginLifecycle ---------------------------
(***************************************************************************)
(* The life of one plugin: PluginManager of app/core/plugin.py (load,      *)
(* start, unload, reload with rollback), the registries a plugin fills     *)
(* (commands, listeners, scheduled tasks), and the web requests that load, *)
(* unload, reload, configure and toggle it.                                *)
(*                                                                         *)
(* Every load_plugin() makes a new instance, numbered in order; 0 is the   *)
(* one that load_enabled() made at boot.  What a plugin registers is       *)
(* either declared in its manifest ("decl") or registered by its setup()   *)
(* ("dyn").  Registries are keyed by the plugin's name, so an instance can *)
(* overwrite or remove what another instance of the plugin registered.     *)
(***************************************************************************)
EXTENDS Naturals, FiniteSets

CONSTANTS Requests,   \* web requests, and the shutdown, that a run may see
          NoInst

ASSUME LifecycleAssumption ==
    /\ IsFiniteSet(Requests)
    /\ NoInst \notin Nat

Insts  == 0..Cardinality(Requests)     \* a request loads once at most
Origin == {"decl", "dyn"}

VARIABLES phase,      \* of the process: "loaded", "started", "up", "down"
          loads,      \* instances made after boot
          loaded,     \* PluginManager.loaded[name]
          commands,   \* CommandRegistry: whose command a name leads to
          listeners,  \* EventSubscriptionRegistry: <<instance, origin>>
          tasks,      \* scheduler job and PluginTaskEntry of a task id
          module,     \* sys.modules["plugins.<name>"]
          bg,         \* an instance's background task
          pooled,     \* instances whose coroutine the BackgroundWorker runs too
          started,    \* start() has returned and stop() was not awaited since
          config,     \* an instance's context.config: number of a saved version
          saved,      \* settings.plugin_configs[name]
          enabled,    \* settings.plugins[name]
          stored,     \* settings.runtime.plugin_tasks[name]
          row,        \* the state saved in the plugin_states table
          req,        \* each request: where it stands and its local variables
          marks       \* what the run has seen: see the properties

vars == <<phase, loads, loaded, commands, listeners, tasks, module, bg, pooled,
          started, config, saved, enabled, stored, row, req, marks>>

tables == <<commands, listeners, tasks, module>>
disk   == <<saved, enabled, stored, row>>

Point(a, k, i, c) == [at |-> a, kind |-> k, inst |-> i, cfg |-> c]
Idle   == Point("idle", "none", NoInst, 0)
Absent == [inst |-> NoInst, on |-> FALSE]
Known  == Insts \cup {NoInst}

Request == [at : {"idle", "closing", "starting", "saving loaded", "saving unloaded",
                  "saving error", "done"},
            kind : {"none", "load", "unload", "api unload", "reload", "config", "shutdown"},
            inst : Known, cfg : Insts]
Marks   == {"overlap", "twice", "rolled back", "config lost", "leftover", "not started",
            "unsaved"}
Entry   == [inst : Known, on : BOOLEAN]

TypeOK ==
    /\ phase \in {"loaded", "started", "up", "down"}
    /\ loads \in Insts
    /\ loaded \in Known
    /\ commands \in [Origin -> Known]
    /\ listeners \subseteq Insts \X Origin
    /\ tasks \in [Origin -> Entry]
    /\ module \in Known
    /\ bg \in [Insts -> {"none", "running", "cancelled", "over"}]
    /\ pooled \subseteq Insts
    /\ started \in [Insts -> BOOLEAN]
    /\ config \in [Insts -> Insts]
    /\ saved \in Insts
    /\ enabled \in BOOLEAN
    /\ stored \in [Origin -> {"unset", "on", "off"}]
    /\ row \in {"none", "loaded", "unloaded", "error"}
    /\ req \in [Requests -> Request]
    /\ marks \subseteq Marks

Step(r, new) == req' = [req EXCEPT ![r] = new]
Finish(r)    == Step(r, Point("done", "none", NoInst, 0))
Inactive(r)  == req[r].at \in {"idle", "done"}
Quiet        == \A r \in Requests : Inactive(r)
Overlapping  == IF Quiet THEN {} ELSE {"overlap"}

(***************************************************************************)
(* Registration.  A declared task starts as the stored choice says; a task *)
(* registered by setup() always starts enabled.                            *)
(***************************************************************************)
\* Slip: the stored choice is not consulted.
TaskAlwaysOn(i, k) == [inst |-> i, on |-> TRUE]

Task(i, k) == [inst |-> i, on |-> k = "dyn" \/ stored[k] # "off"]

Init ==
    /\ phase = "loaded"
    /\ loads = 0
    /\ loaded = 0
    /\ stored \in [Origin -> {"unset", "off"}]
    /\ commands = [k \in Origin |-> 0]
    /\ listeners = {0} \X Origin
    /\ tasks = [k \in Origin |-> Task(0, k)]
    /\ module = 0
    /\ bg = [i \in Insts |-> IF i = 0 THEN "running" ELSE "none"]
    /\ pooled = {}
    /\ started = [i \in Insts |-> FALSE]
    /\ config = [i \in Insts |-> 0]
    /\ saved = 0
    /\ enabled = TRUE
    /\ row = "none"
    /\ req = [r \in Requests |-> Idle]
    /\ marks = {}

(***************************************************************************)
(* main.py: run() starts the loaded plugins, then hands the background     *)
(* coroutines of all of them to the pool.                                  *)
(***************************************************************************)
BootStarts ==
    /\ phase = "loaded"
    /\ phase' = "started"
    /\ \E ok \in BOOLEAN :
          /\ started' = [started EXCEPT ![loaded] = ok]
          /\ marks' = IF ok THEN marks ELSE marks \cup {"not started"}
    /\ UNCHANGED <<loads, loaded, tables, bg, pooled, config, disk, req>>

BootSubmits ==
    /\ phase = "started"
    /\ phase' = "up"
    /\ pooled' = {loaded}
    /\ UNCHANGED <<loads, loaded, tables, bg, started, config, disk, req, marks>>

(***************************************************************************)
(* load_plugin(): make an instance, run its setup(), register what the     *)
(* manifest declares, and only then enter it in loaded.  There is no await *)
(* in it.  It does not ask whether the plugin is loaded already.           *)
(***************************************************************************)
New == loads + 1

Registers(i, others) == /\ commands' = [k \in Origin |-> i]
                        /\ listeners' = others \cup ({i} \X Origin)
                        /\ tasks' = [k \in Origin |-> Task(i, k)]
                        /\ module' = i

LoadSucceeds(cfg, others) ==
    /\ Registers(New, others)
    /\ loads' = New
    /\ loaded' = New
    /\ config' = [config EXCEPT ![New] = cfg]
    /\ bg' = [bg EXCEPT ![New] = "running"]

\* The tasks a load may have registered by the time it fails.
Left == {{}, {"dyn"}, {"dyn", "decl"}}

BeginLoad(r) ==
    /\ req[r].at = "idle"
    /\ phase = "up"
    /\ LoadSucceeds(saved, listeners)
    /\ Step(r, Point("starting", "load", New, 0))
    /\ marks' = (marks \ {"rolled back", "config lost", "leftover", "not started"})
                   \cup Overlapping \cup (IF loaded = NoInst THEN {} ELSE {"twice"})
    /\ UNCHANGED <<phase, pooled, started, disk>>

\* The except clause takes back commands and listeners, not the tasks.
BeginLoadFails(r) ==
    /\ req[r].at = "idle"
    /\ phase = "up"
    /\ commands' = [k \in Origin |-> NoInst]
    /\ listeners' = {}
    /\ module' = NoInst
    /\ loads' = New
    /\ \E left \in Left :
          /\ tasks' = [k \in Origin |-> IF k \in left THEN Task(New, k) ELSE tasks[k]]
          /\ marks' = marks \cup Overlapping
                            \cup (IF loaded = NoInst THEN {} ELSE {"twice"})
                            \cup (IF left = {} THEN {} ELSE {"leftover"})
    /\ Step(r, Point("saving error", "load", NoInst, 0))
    /\ UNCHANGED <<phase, loaded, bg, pooled, started, config, disk>>

\* A manifest that cannot be read or does not fit fails before anything is done.
BeginLoadRejected(r) ==
    /\ req[r].at = "idle"
    /\ phase = "up"
    /\ Step(r, Point("saving error", "load", NoInst, 0))
    /\ marks' = marks \cup Overlapping
    /\ UNCHANGED <<phase, loads, loaded, tables, bg, pooled, started, config, disk>>

(***************************************************************************)
(* unload_plugin(), up to its first await: the entry of loaded is popped   *)
(* and the background task cancelled; what is registered stays registered  *)
(* until the task has ended and the plugin's stop() has returned.          *)
(***************************************************************************)
Kinds == {"unload", "api unload", "reload"}

Cancelled(i) == bg' = [bg EXCEPT ![i] = IF @ = "running" THEN "cancelled" ELSE @]

Pops(r, kind, cfg) ==
    /\ loaded' = NoInst
    /\ Cancelled(loaded)
    /\ Step(r, Point("closing", kind, loaded, cfg))

\* Slip: a reload without a configuration does not fall back on the old one.
ForgottenConfig(i) == NoInst

KeptConfig(i) == config[i]

\* The web and API routes; reload_plugin() keeps the old instance's config.
BeginUnload(r) ==
    /\ req[r].at = "idle"
    /\ phase = "up"
    /\ loaded # NoInst
    /\ \E kind \in Kinds : /\ Pops(r, kind, KeptConfig(loaded))
                           /\ marks' = marks \cup Overlapping \cup
                                         (IF kind = "api unload" THEN {"unsaved"} ELSE {})
    /\ UNCHANGED <<phase, loads, tables, pooled, started, config, disk>>

\* The configuration form saves first, then reloads the plugin if it is loaded.
BeginConfig(r) ==
    /\ req[r].at = "idle"
    /\ phase = "up"
    /\ saved < Cardinality(Requests)
    /\ saved' = saved + 1
    /\ marks' = marks \cup Overlapping
    /\ IF loaded = NoInst THEN Finish(r) /\ UNCHANGED <<loaded, bg>>
                          ELSE Pops(r, "config", saved')
    /\ UNCHANGED <<phase, loads, tables, pooled, started, config, enabled, stored, row>>

\* run() leaves server.serve(), which lets open requests end, unloads every plugin
\* and then stops the pool.
BeginShutdown(r) ==
    /\ req[r].at = "idle"
    /\ phase = "up"
    /\ Quiet
    /\ phase' = "down"
    /\ IF loaded = NoInst THEN Finish(r) /\ UNCHANGED <<loaded, bg>>
                          ELSE Pops(r, "shutdown", 0)
    /\ pooled' = IF loaded = NoInst THEN {} ELSE pooled
    /\ UNCHANGED <<loads, tables, started, config, disk, marks>>

\* The cancelled task gives in.  Background coroutines are loops: they end no other way.
BgEnds(i) ==
    /\ bg[i] = "cancelled"
    /\ bg' = [bg EXCEPT ![i] = "over"]
    /\ UNCHANGED <<phase, loads, loaded, tables, pooled, started, config, disk, req, marks>>

\* stop() has returned: the rest of unload_plugin() and what follows it have no await.
Stopped(r) == req[r].at = "closing" /\ bg[req[r].inst] # "cancelled"

Unregisters == /\ commands' = [k \in Origin |-> NoInst]
               /\ listeners' = {}
               /\ tasks' = [k \in Origin |-> Absent]
               /\ module' = NoInst

UnloadEnds(r) ==
    /\ Stopped(r)
    /\ req[r].kind \in {"unload", "api unload", "shutdown"}
    /\ Unregisters
    /\ started' = [started EXCEPT ![req[r].inst] = FALSE]
    /\ IF req[r].kind = "unload"
       THEN Step(r, Point("saving unloaded", "unload", NoInst, 0))
       ELSE Finish(r)
    /\ marks' = marks \ {"rolled back", "config lost", "leftover", "not started"}
    /\ pooled' = IF phase = "down" THEN {} ELSE pooled
    /\ UNCHANGED <<phase, loads, loaded, bg, config, disk>>

(***************************************************************************)
(* reload_plugin() after its unload: load the plugin again, or roll back   *)
(* to the old instance, registering what its manifest declares and         *)
(* starting its background task, but not calling its setup() or start().   *)
(***************************************************************************)
ReloadSucceeds(r) ==
    /\ Stopped(r)
    /\ req[r].kind \in {"reload", "config"}
    /\ LoadSucceeds(req[r].cfg, {})
    /\ started' = [started EXCEPT ![req[r].inst] = FALSE]
    /\ Step(r, [req[r] EXCEPT !.at = "starting", !.inst = New])
    /\ marks' = (marks \ {"rolled back", "leftover", "not started"}) \cup
                   (IF loaded = NoInst THEN {} ELSE {"twice"})
    /\ UNCHANGED <<phase, pooled, disk>>

\* Slip: the handlers of the old instance are not registered again.
RollsBackBare(i, left) ==
    /\ commands' = [k \in Origin |-> NoInst]
    /\ listeners' = {}
    /\ tasks' = [k \in Origin |-> IF k = "decl" THEN Task(i, k)
                                  ELSE IF k \in left THEN Task(New, k) ELSE Absent]
    /\ module' = i

\* Slip: the failed load does not take back what the new setup() registered.
RollsBackOver(i, left) ==
    /\ commands' = [k \in Origin |-> IF k = "decl" THEN i ELSE New]
    /\ listeners' = {<<i, "decl">>, <<New, "dyn">>}
    /\ tasks' = [k \in Origin |-> IF k = "decl" THEN Task(i, k)
                                  ELSE IF k \in left THEN Task(New, k) ELSE Absent]
    /\ module' = i

RollsBack(i, left) ==
    /\ commands' = [k \in Origin |-> IF k = "decl" THEN i ELSE NoInst]
    /\ listeners' = {<<i, "decl">>}
    /\ tasks' = [k \in Origin |-> IF k = "decl" THEN Task(i, k)
                                  ELSE IF k \in left THEN Task(New, k) ELSE Absent]
    /\ module' = i

ReloadFails(r) ==
    /\ Stopped(r)
    /\ req[r].kind \in {"reload", "config"}
    /\ loaded' = req[r].inst
    /\ loads' = New
    /\ bg' = [bg EXCEPT ![req[r].inst] = "running"]
    /\ started' = [started EXCEPT ![req[r].inst] = FALSE]
    /\ \E left \in Left :
          /\ RollsBack(req[r].inst, left)
          /\ marks' = ((marks \ {"leftover", "not started"}) \cup {"rolled back"})
                         \cup (IF "dyn" \in left THEN {"leftover"} ELSE {})
                         \cup (IF req[r].kind = "config" THEN {"config lost"} ELSE {})
                         \cup (IF loaded = NoInst THEN {} ELSE {"twice"})
    /\ Finish(r)
    /\ UNCHANGED <<phase, pooled, config, disk>>

(***************************************************************************)
(* start_plugin() returns or raises; the load route then saves the state   *)
(* row and only after that the settings, the reload routes do neither.     *)
(***************************************************************************)
StartEnds(r) ==
    /\ req[r].at = "starting"
    /\ \E ok \in BOOLEAN :
          /\ started' = [started EXCEPT ![req[r].inst] = ok]
          /\ marks' = marks \cup (IF ok THEN {} ELSE {"not started"}) \cup
                              (IF ok \/ req[r].kind # "load" THEN {} ELSE {"unsaved"})
          /\ IF req[r].kind = "load"
             THEN Step(r, [req[r] EXCEPT !.at = IF ok THEN "saving loaded"
                                                       ELSE "saving error"])
             ELSE Finish(r)
    /\ UNCHANGED <<phase, loads, loaded, tables, bg, pooled, config, disk>>

\* Slip: the settings are not touched when a plugin is unloaded.
SavesLoadedOnly(r) ==
    /\ req[r].at \in {"saving loaded", "saving unloaded", "saving error"}
    /\ row' = CASE req[r].at = "saving loaded" -> "loaded"
                [] req[r].at = "saving unloaded" -> "unloaded"
                [] req[r].at = "saving error" -> "error"
    /\ enabled' = (enabled \/ req[r].at = "saving loaded")
    /\ Finish(r)
    /\ marks' = IF req[r].at = "saving error" THEN marks ELSE marks \ {"unsaved"}
    /\ UNCHANGED <<phase, loads, loaded, tables, bg, pooled, started, config, saved,
                   stored>>

Saves(r) ==
    /\ req[r].at \in {"saving loaded", "saving unloaded", "saving error"}
    /\ row' = CASE req[r].at = "saving loaded" -> "loaded"
                [] req[r].at = "saving unloaded" -> "unloaded"
                [] req[r].at = "saving error" -> "error"
    /\ enabled' = CASE req[r].at = "saving loaded" -> TRUE
                    [] req[r].at = "saving unloaded" -> FALSE
                    [] req[r].at = "saving error" -> enabled
    /\ Finish(r)
    /\ marks' = IF req[r].at = "saving error" THEN marks ELSE marks \ {"unsaved"}
    /\ UNCHANGED <<phase, loads, loaded, tables, bg, pooled, started, config, saved,
                   stored>>

\* The task page turns a registered task on or off and saves the choice.
Toggle(k) ==
    /\ phase = "up"
    /\ tasks[k] # Absent
    /\ tasks' = [tasks EXCEPT ![k].on = ~@]
    /\ stored' = [stored EXCEPT ![k] = IF tasks'[k].on THEN "on" ELSE "off"]
    /\ UNCHANGED <<phase, loads, loaded, commands, listeners, module, bg, pooled, started,
                   config, saved, enabled, row, req, marks>>

RequestStep(r) == \/ UnloadEnds(r) \/ ReloadSucceeds(r) \/ ReloadFails(r)
                  \/ StartEnds(r) \/ Saves(r)

Next ==
    \/ BootStarts \/ BootSubmits
    \/ \E r \in Requests : \/ BeginLoad(r) \/ BeginLoadFails(r) \/ BeginLoadRejected(r)
                           \/ BeginUnload(r) \/ BeginConfig(r) \/ BeginShutdown(r)
                           \/ RequestStep(r)
    \/ \E i \in Insts : BgEnds(i)
    \/ \E k \in Origin : Toggle(k)

Spec == Init /\ [][Next]_vars
-----------------------------------------------------------------------------
InTurn == Quiet /\ marks \cap {"overlap", "twice"} = {}

\* Between requests that took turns, a loaded plugin is whole: its command, listener,
\* task and module are its own, also after a rollback; and unless it was rolled back,
\* the same is true of what its setup() registered, and it has been started.
LoadedIsWhole == InTurn /\ loaded # NoInst /\ marks \cap {"leftover"} = {} =>
    /\ module = loaded
    /\ \A k \in (IF "rolled back" \in marks THEN {"decl"} ELSE Origin) :
          /\ commands[k] = loaded
          /\ <<loaded, k>> \in listeners
          /\ tasks[k].inst = loaded
    /\ phase = "up" /\ marks \cap {"rolled back", "not started"} = {} => started[loaded]

\* Between requests that took turns, nothing of an instance that is not loaded is
\* left: no handler, no task of its own, no module, and it is stopped.
NothingLeft == InTurn =>
    /\ \A k \in Origin : commands[k] \in {NoInst, loaded}
    /\ \A e \in listeners : e[1] = loaded
    /\ module \in {NoInst, loaded}
    /\ \A i \in Insts : (bg[i] = "running" \/ started[i]) => i = loaded
    /\ "leftover" \notin marks => \A k \in Origin : tasks[k].inst \in {NoInst, loaded}

\* Requests that take turns leave the plugin whole, or gone.
WholeOrGone == LoadedIsWhole /\ NothingLeft

\* However requests overlap, a command or listener belongs to the loaded instance or
\* to one that is being closed, as long as no load ran over a loaded plugin: a handler
\* of a third instance would answer messages with a context nobody can stop.
HandlersAreAccounted == "twice" \notin marks =>
    \A i \in Insts : (\E k \in Origin : commands[k] = i \/ <<i, k>> \in listeners) =>
        loaded = i \/ \E r \in Requests : req[r].at = "closing" /\ req[r].inst = i

\* A declared task the admin has turned off stays off: through reloads, rollbacks,
\* failed loads and requests that overlap.
DeclaredOffStaysOff == stored["decl"] = "off" => ~tasks["decl"].on

\* Between requests that took turns, the settings bring the same plugin back at the
\* next boot, and with the same configuration, unless the API unloaded it, or its
\* start() or the reload that was to apply the configuration failed.
SettingsMatch == InTurn /\ phase = "up" =>
    /\ "unsaved" \notin marks => enabled = (loaded # NoInst)
    /\ loaded # NoInst /\ "config lost" \notin marks => config[loaded] = saved

\* docs/CHANGELOG.md:24-25: after a failed reload was rolled back, the plugin's
\* functions are complete.
RollbackIsComplete == Quiet /\ loaded # NoInst /\ "rolled back" \in marks =>
    \A k \in Origin : commands[k] = loaded /\ <<loaded, k>> \in listeners

\* tests/test_fix_plugin_core.py:319: unloading cancels the coroutines a plugin has
\* registered with register_task().
UnloadCancels == InTurn => \A i \in Insts : i \in pooled \/ bg[i] = "running" => i = loaded
=============================================================================
