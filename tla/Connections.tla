----------------------------- MODULE Connections -----------------------------
(***************************************************************************)
(* The protocol connections: run_reconnect_loop() of app/adapters/base.py, *)
(* the OneBot adapter's forward and reverse sockets, ConnectionManager,    *)
(* BotClient's tables, build_adapters() and the admin requests that change *)
(* or restart connections while the bot runs.                              *)
(*                                                                         *)
(* Every build makes a new adapter object for each enabled connection; an  *)
(* object may be started more than once, each start() being a loop of its  *)
(* own.  Steps run from one await to the next, and every await may let the *)
(* other requests, loops and sockets of the event loop run.                *)
(***************************************************************************)
EXTENDS Naturals, FiniteSets

CONSTANTS Bots,        \* the ids of the configured connections
          Reverse,     \* those with mode "reverse_ws"; the others are forward
          PathOf,      \* PathOf[b]: the connection's path
          Clients,     \* protocol ends that dial in,
          DialsFor,    \*   each meant for the reverse connection DialsFor[c]
          Requests,    \* admin requests the run may see
          MaxAttempts, \* reconnect_max_attempts, 0 for no limit
          NoObj, NoLoop, NoSock,
          Refused      \* a client whose socket was closed at once

Builds == 0..Cardinality(Requests)          \* one at boot, one for each request
Objs   == Bots \X Builds                    \* the adapter of a bot and a build
Starts == 1..(Cardinality(Requests) + 1)    \* 1 is the manager's start()
Loops  == Objs \X Starts
BotOf(o) == o[1]

ASSUME ConnectionsAssumption ==
    /\ Reverse \subseteq Bots
    /\ DialsFor \in [Clients -> Reverse]
    /\ IsFiniteSet(Requests)
    /\ MaxAttempts \in Nat
    /\ {NoObj, Refused} \cap Objs = {}
    /\ ({NoLoop, NoSock} \cup Clients) \cap Loops = {}

VARIABLES enabled,     \* settings: the enabled connections
          builds,      \* calls of build_adapters() so far
          adapters,    \* ConnectionManager.adapters (and app.state.adapters)
          tasks,       \* ConnectionManager.tasks: bot -> loop
          registered,  \* BotClient.adapters: bot -> object
          status,      \* BotClient.status
          running,     \* an object's _running,
          generation,  \*   _generation,
          ws,          \*   and _ws: a loop, a client or nothing
          loop,        \* each loop: where it stands, its generation, its attempts
          req,         \* each request: where it stands and its local variables
          client,      \* each client: the object that serves it, NoObj or Refused
          halted,      \* objects that gave up, or whose reconnect button was pressed
          history      \* what the run has seen: see the properties

vars == <<enabled, builds, adapters, tasks, registered, status, running,
          generation, ws, loop, req, client, halted, history>>

Idle == [at |-> "idle", kind |-> "none", new |-> {}, todo |-> {}, sweep |-> {},
         bot |-> "none", task |-> NoLoop, obj |-> NoObj]

Points  == {"none", "created", "submitted", "connecting", "receiving", "dropped",
            "backoff", "cancelled", "ended"}
Live    == {"created", "connecting", "receiving", "dropped", "backoff", "cancelled"}
ReqAt   == {"idle", "stopping", "awaiting", "closing", "sweeping", "resubmit", "done"}
Kinds   == {"none", "reconfigure", "reconnect", "shutdown"}
Statuses == {"absent", "registered", "connected", "disconnected", "disabled"}

TypeOK ==
    /\ enabled \subseteq Bots
    /\ builds \in Builds
    /\ adapters \subseteq Objs
    /\ tasks \in [Bots -> Loops \cup {NoLoop}]
    /\ registered \in [Bots -> Objs \cup {NoObj}]
    /\ status \in [Bots -> Statuses]
    /\ running \in [Objs -> BOOLEAN]
    /\ generation \in [Objs -> Nat]
    /\ ws \in [Objs -> Loops \cup Clients \cup {NoSock}]
    /\ loop \in [Loops -> [at : Points, gen : Nat, tries : 0..MaxAttempts]]
    /\ req \in [Requests -> [at : ReqAt, kind : Kinds, new : SUBSET Objs,
                             todo : SUBSET Bots, sweep : SUBSET Objs,
                             bot : Bots \cup {"none"}, task : Loops \cup {NoLoop},
                             obj : Objs \cup {NoObj}]]
    /\ client \in [Clients -> Objs \cup {NoObj, Refused}]
    /\ halted \subseteq Objs
    /\ history \subseteq {"overlap", "pool", "crossed", "down"}

(***************************************************************************)
(* Building, adopting and starting.  build_adapters() registers every new  *)
(* object but hands over only the forward ones; the manager then starts    *)
(* those.                                                                  *)
(***************************************************************************)
Built(bots, k)   == {<<b, k>> : b \in bots}
Forward(objs)    == {o \in objs : BotOf(o) \notin Reverse}
StartedBy(objs)  == {<<o, 1>> : o \in objs}
ObjFor(b, objs)  == IF \E o \in objs : BotOf(o) = b
                    THEN CHOOSE o \in objs : BotOf(o) = b ELSE NoObj

StartAll(objs) ==
    [b \in Bots |-> IF ObjFor(b, objs) = NoObj THEN NoLoop ELSE <<ObjFor(b, objs), 1>>]

Blank == [at |-> "none", gen |-> 0, tries |-> 0]

Init ==
    /\ enabled = Bots
    /\ builds = 0
    /\ adapters = Forward(Built(enabled, 0))
    /\ tasks = StartAll(adapters)
    /\ registered = [b \in Bots |-> IF b \in enabled THEN <<b, 0>> ELSE NoObj]
    /\ status = [b \in Bots |-> IF b \in enabled THEN "registered" ELSE "absent"]
    /\ running = [o \in Objs |-> FALSE]
    /\ generation = [o \in Objs |-> 0]
    /\ ws = [o \in Objs |-> NoSock]
    /\ loop = [l \in Loops |-> IF l \in StartedBy(adapters)
                                 THEN [Blank EXCEPT !.at = "created"] ELSE Blank]
    /\ req = [r \in Requests |-> Idle]
    /\ client = [c \in Clients |-> NoObj]
    /\ halted = {}
    /\ history = {}

(***************************************************************************)
(* run_reconnect_loop(): one loop l = <<o, i>> of object o.                *)
(***************************************************************************)
At(l) == loop[l].at
Current(l) == running[l[1]] /\ generation[l[1]] = loop[l].gen

\* Slip: a start() does not take back what an earlier stop() has said.
LoopBeginsStopped(l) ==
    /\ At(l) \in {"created", "submitted"}
    /\ generation' = [generation EXCEPT ![l[1]] = @ + 1]
    /\ loop' = [loop EXCEPT ![l] = [at |-> "connecting", gen |-> generation'[l[1]], tries |-> 0]]
    /\ history' = history \cup (IF At(l) = "submitted" THEN {"pool"} ELSE {})
    /\ UNCHANGED <<enabled, builds, adapters, tasks, registered, status, running, ws, req,
                   client, halted>>

\* The manager's task is scheduled, or a pool worker has taken the submitted start().
LoopBegins(l) ==
    /\ At(l) \in {"created", "submitted"}
    /\ generation' = [generation EXCEPT ![l[1]] = @ + 1]
    /\ running' = [running EXCEPT ![l[1]] = TRUE]
    /\ loop' = [loop EXCEPT ![l] = [at |-> "connecting", gen |-> generation'[l[1]], tries |-> 0]]
    /\ history' = history \cup (IF At(l) = "submitted" THEN {"pool"} ELSE {})
    /\ UNCHANGED <<enabled, builds, adapters, tasks, registered, status, ws, req, client,
                   halted>>

\* _connect_forward(): the handshake is over.  Nothing looks at _running here.
Connected(l) ==
    /\ At(l) = "connecting"
    /\ ws' = [ws EXCEPT ![l[1]] = l]
    /\ status' = [status EXCEPT ![BotOf(l[1])] = "connected"]
    /\ loop' = [loop EXCEPT ![l].at = "receiving"]
    /\ UNCHANGED <<enabled, builds, adapters, tasks, registered, running, generation,
                   req, client, halted, history>>

\* Slip: one attempt too many before the adapter gives up.
GivesUpLate(n) == n > MaxAttempts + 1

GivesUp(n) == n > MaxAttempts

\* How many attempts count after a failure: none if the link had held long enough.
CountedTries(l) == {loop[l].tries + 1} \cup (IF loop[l].tries > 0 THEN {1} ELSE {})

\* connect() raises: refused, closed, stale.  The body then runs on to its sleep or end.
LoopFails(l) ==
    /\ At(l) \in {"connecting", "receiving", "dropped"}
    /\ \/ /\ ~Current(l)
          /\ loop' = [loop EXCEPT ![l].at = "ended"]
          /\ status' = [status EXCEPT ![BotOf(l[1])] = "disconnected"]
          /\ UNCHANGED <<running, halted>>
       \/ /\ Current(l)
          /\ \E n \in CountedTries(l) :
                IF MaxAttempts > 0 /\ GivesUp(n)
                THEN /\ loop' = [loop EXCEPT ![l].at = "ended"]
                     /\ status' = [status EXCEPT ![BotOf(l[1])] = "disabled"]
                     /\ running' = [running EXCEPT ![l[1]] = FALSE]
                     /\ halted' = halted \cup {l[1]}
                ELSE /\ loop' = [loop EXCEPT ![l].at = "backoff",
                                             ![l].tries = IF MaxAttempts = 0 THEN 0 ELSE n]
                     /\ status' = [status EXCEPT ![BotOf(l[1])] = "disconnected"]
                     /\ UNCHANGED <<running, halted>>
    /\ UNCHANGED <<enabled, builds, adapters, tasks, registered, generation, ws, req,
                   client, history>>

LoopWakes(l) ==
    /\ At(l) = "backoff"
    /\ loop' = [loop EXCEPT ![l].at = IF Current(l) THEN "connecting" ELSE "ended"]
    /\ UNCHANGED <<enabled, builds, adapters, tasks, registered, status, running,
                   generation, ws, req, client, halted, history>>

LoopUnwinds(l) ==
    /\ At(l) = "cancelled"
    /\ loop' = [loop EXCEPT ![l].at = "ended"]
    /\ UNCHANGED <<enabled, builds, adapters, tasks, registered, status, running,
                   generation, ws, req, client, halted, history>>

(***************************************************************************)
(* OneBotAdapter.stop(), up to its first await: the flag, the status, and  *)
(* the close of _ws unless that is a reverse socket.                       *)
(***************************************************************************)
StopMarks(o, loops) ==
    /\ running' = [running EXCEPT ![o] = FALSE]
    /\ status' = [status EXCEPT ![BotOf(o)] = "disconnected"]
    /\ loop' = [l \in Loops |-> IF l = ws[o] /\ loops[l].at = "receiving"
                                THEN [loops[l] EXCEPT !.at = "dropped"] ELSE loops[l]]

Inactive(r)   == req[r].at \in {"idle", "done"}
Quiet         == \A r \in Requests : Inactive(r)
Step(r, new)  == req' = [req EXCEPT ![r] = new]
Overlapping   == IF Quiet THEN {} ELSE {"overlap"}
WithTask      == {b \in Bots : tasks[b] # NoLoop}

Toggled(b) == IF b \in enabled THEN enabled \ {b} ELSE enabled \cup {b}

(***************************************************************************)
(* An admin toggles (or deletes, or adds back) a connection: the settings  *)
(* are saved, reconfigure_adapters() builds from them, and                 *)
(* ConnectionManager.reconfigure() enters stop_all().                      *)
(***************************************************************************)
BeginReconfigure(r, b) ==
    /\ req[r].at = "idle"
    /\ "down" \notin history
    /\ enabled' = Toggled(b)
    /\ builds' = builds + 1
    /\ LET new == Built(enabled', builds') IN
          /\ registered' = [x \in Bots |-> IF x \in enabled' THEN ObjFor(x, new)
                                                             ELSE registered[x]]
          /\ status' = [x \in Bots |-> IF x \in enabled' THEN "registered" ELSE status[x]]
          /\ Step(r, [Idle EXCEPT !.at = "stopping", !.kind = "reconfigure",
                                  !.new = Forward(new), !.todo = WithTask])
    /\ history' = history \cup Overlapping
    /\ UNCHANGED <<adapters, tasks, running, generation, ws, loop, client, halted>>

\* run() leaves server.serve(), which lets open requests end, and calls stop_all().
BeginShutdown(r) ==
    /\ req[r].at = "idle"
    /\ Quiet
    /\ "down" \notin history
    /\ Step(r, [Idle EXCEPT !.at = "stopping", !.kind = "shutdown", !.todo = WithTask])
    /\ history' = history \cup {"down"}
    /\ UNCHANGED <<enabled, builds, adapters, tasks, registered, status, running,
                   generation, ws, loop, client, halted>>

(***************************************************************************)
(* stop_all(): stop_connection() for each bot that had a task, then stop() *)
(* for each adapter of the list it then finds.                             *)
(***************************************************************************)
\* Slip: the task is taken from the table, but neither cancelled nor awaited.
StopNextForgets(r) ==
    /\ req[r].at = "stopping"
    /\ \E b \in req[r].todo :
          /\ Step(r, [req[r] EXCEPT !.at = "awaiting", !.todo = @ \ {b}, !.bot = b,
                                    !.task = NoLoop, !.obj = ObjFor(b, adapters)])
          /\ tasks' = [tasks EXCEPT ![b] = NoLoop]
    /\ UNCHANGED <<enabled, builds, adapters, registered, status, running, generation,
                   ws, loop, client, halted, history>>

\* Slip: the task is awaited without having been cancelled.
StopNextWaits(r) ==
    /\ req[r].at = "stopping"
    /\ \E b \in req[r].todo :
          /\ Step(r, [req[r] EXCEPT !.at = "awaiting", !.todo = @ \ {b}, !.bot = b,
                                    !.task = tasks[b], !.obj = ObjFor(b, adapters)])
          /\ tasks' = [tasks EXCEPT ![b] = NoLoop]
    /\ UNCHANGED <<enabled, builds, adapters, registered, status, running, generation,
                   ws, loop, client, halted, history>>

StopNext(r) ==
    /\ req[r].at = "stopping"
    /\ \E b \in req[r].todo :
          /\ Step(r, [req[r] EXCEPT !.at = "awaiting", !.todo = @ \ {b}, !.bot = b,
                                    !.task = tasks[b], !.obj = ObjFor(b, adapters)])
          /\ loop' = [l \in Loops |-> IF l = tasks[b] /\ At(l) \in Live
                                      THEN [loop[l] EXCEPT !.at = "cancelled"] ELSE loop[l]]
          /\ tasks' = [tasks EXCEPT ![b] = NoLoop]
    /\ UNCHANGED <<enabled, builds, adapters, registered, status, running, generation,
                   ws, client, halted, history>>

\* Slip: the cancelled task is not awaited.
TaskNotAwaited(r) ==
    /\ req[r].at = "awaiting"
    /\ IF req[r].obj = NoObj THEN UNCHANGED <<running, status, loop>>
                             ELSE StopMarks(req[r].obj, loop)
    /\ Step(r, [req[r] EXCEPT !.at = "closing"])
    /\ UNCHANGED <<enabled, builds, adapters, tasks, registered, generation, ws, client,
                   halted, history>>

TaskAwaited(r) ==
    /\ req[r].at = "awaiting"
    /\ req[r].task # NoLoop => At(req[r].task) = "ended"
    /\ IF req[r].obj = NoObj THEN UNCHANGED <<running, status, loop>>
                             ELSE StopMarks(req[r].obj, loop)
    /\ Step(r, [req[r] EXCEPT !.at = "closing"])
    /\ UNCHANGED <<enabled, builds, adapters, tasks, registered, generation, ws, client,
                   halted, history>>

Closed(r) ==
    /\ req[r].at = "closing"
    /\ status' = [status EXCEPT ![req[r].bot] = "disconnected"]
    /\ Step(r, [req[r] EXCEPT !.at = "stopping"])
    /\ UNCHANGED <<enabled, builds, adapters, tasks, registered, running, generation,
                   ws, loop, client, halted, history>>

BeginSweep(r) ==
    /\ req[r].at = "stopping"
    /\ req[r].todo = {}
    /\ Step(r, [req[r] EXCEPT !.at = "sweeping", !.sweep = adapters])
    /\ UNCHANGED <<enabled, builds, adapters, tasks, registered, status, running,
                   generation, ws, loop, client, halted, history>>

SweepNext(r) ==
    /\ req[r].at = "sweeping"
    /\ \E o \in req[r].sweep :
          /\ StopMarks(o, loop)
          /\ Step(r, [req[r] EXCEPT !.sweep = @ \ {o}])
    /\ UNCHANGED <<enabled, builds, adapters, tasks, registered, generation, ws, client,
                   halted, history>>

Swept(r, kind) == req[r].at = "sweeping" /\ req[r].sweep = {} /\ req[r].kind = kind

\* Slip: reconfigure() does not empty BotClient's tables first.
OnlyAdopted(new) == [b \in Bots |-> IF ObjFor(b, new) # NoObj THEN ObjFor(b, new)
                                   ELSE registered[b]]

Adopted(new) == [b \in Bots |-> ObjFor(b, new)]

\* reconfigure() empties every table, adopts the new adapters and starts them.
Adopt(r) ==
    /\ Swept(r, "reconfigure")
    /\ LET new == req[r].new IN
          /\ adapters' = new
          /\ registered' = Adopted(new)
          /\ status' = [b \in Bots |-> IF ObjFor(b, new) # NoObj THEN "registered"
                                       ELSE IF registered[b] # NoObj THEN "absent"
                                       ELSE status[b]]
          /\ tasks' = StartAll(new)
          /\ loop' = [l \in Loops |-> IF l \in StartedBy(new)
                                      THEN [Blank EXCEPT !.at = "created"] ELSE loop[l]]
    /\ Step(r, [Idle EXCEPT !.at = "done"])
    /\ UNCHANGED <<enabled, builds, running, generation, ws, client, halted, history>>

AllStopped(r) ==
    /\ Swept(r, "shutdown")
    /\ Step(r, [Idle EXCEPT !.at = "done"])
    /\ UNCHANGED <<enabled, builds, adapters, tasks, registered, status, running,
                   generation, ws, loop, client, halted, history>>

(***************************************************************************)
(* The reconnect button: stop the adapter, then hand its start() to the    *)
(* pool, which drops it while an earlier one of the same name still runs.  *)
(* Whether and when a worker takes it is the pool's business.              *)
(***************************************************************************)
BeginReconnect(r, b) ==
    /\ req[r].at = "idle"
    /\ "down" \notin history
    /\ ObjFor(b, adapters) # NoObj
    /\ StopMarks(ObjFor(b, adapters), loop)
    /\ Step(r, [Idle EXCEPT !.at = "resubmit", !.kind = "reconnect", !.bot = b,
                            !.obj = ObjFor(b, adapters)])
    /\ halted' = halted \cup {ObjFor(b, adapters)}
    /\ history' = history \cup Overlapping
    /\ UNCHANGED <<enabled, builds, adapters, tasks, registered, generation, ws, client>>

RunsInPool(b) == \E l \in Loops : l[2] > 1 /\ BotOf(l[1]) = b /\ At(l) \in Live

Resubmit(r) ==
    /\ req[r].at = "resubmit"
    /\ IF RunsInPool(req[r].bot) THEN UNCHANGED loop
       ELSE \E i \in Starts :
               /\ i > 1 /\ At(<<req[r].obj, i>>) = "none"
               /\ \A k \in 2..(i - 1) : At(<<req[r].obj, k>>) # "none"
               /\ loop' = [loop EXCEPT ![<<req[r].obj, i>>].at = "submitted"]
    /\ Step(r, [Idle EXCEPT !.at = "done"])
    /\ UNCHANGED <<enabled, builds, adapters, tasks, registered, status, running,
                   generation, ws, client, halted, history>>

(***************************************************************************)
(* Reverse sockets.  The route of a path leads to an adapter of the        *)
(* manager whose reverse_path it is; without one the socket is closed.     *)
(***************************************************************************)
RoutedTo(path) == {o \in adapters : PathOf[BotOf(o)] = path}

Dial(c) ==
    LET found == RoutedTo(PathOf[DialsFor[c]]) IN
    /\ client[c] \in {NoObj, Refused}
    /\ \/ /\ found = {}
          /\ client' = [client EXCEPT ![c] = Refused]
          /\ UNCHANGED <<ws, status, halted, history>>
       \/ \E o \in found :
             /\ client' = [client EXCEPT ![c] = o]
             /\ ws' = [ws EXCEPT ![o] = c]
             /\ status' = [status EXCEPT ![BotOf(o)] = "connected"]
             /\ history' = history \cup
                              (IF BotOf(o) = DialsFor[c] THEN {} ELSE {"crossed"})
    /\ UNCHANGED <<enabled, builds, adapters, tasks, registered, running, generation,
                   loop, req, halted>>

\* Slip: the finally clause leaves the status alone.
HangUpQuietly(c) ==
    /\ client[c] \in Objs
    /\ ws' = [ws EXCEPT ![client[c]] = NoSock]
    /\ client' = [client EXCEPT ![c] = NoObj]
    /\ UNCHANGED <<enabled, builds, adapters, tasks, registered, status, running,
                   generation, loop, req, halted, history>>

\* The finally clause forgets _ws, whoever's socket that is by now.
HangUp(c) ==
    /\ client[c] \in Objs
    /\ ws' = [ws EXCEPT ![client[c]] = NoSock]
    /\ status' = [status EXCEPT ![BotOf(client[c])] = "disconnected"]
    /\ client' = [client EXCEPT ![c] = NoObj]
    /\ UNCHANGED <<enabled, builds, adapters, tasks, registered, running, generation,
                   loop, req, halted, history>>

RequestStep(r) == \/ StopNext(r) \/ TaskAwaited(r) \/ Closed(r) \/ BeginSweep(r)
                  \/ SweepNext(r) \/ Adopt(r) \/ AllStopped(r) \/ Resubmit(r)

Next ==
    \/ \E r \in Requests, b \in Bots : BeginReconfigure(r, b) \/ BeginReconnect(r, b)
    \/ \E r \in Requests : BeginShutdown(r) \/ RequestStep(r)
    \/ \E l \in Loops : \/ LoopBegins(l) \/ Connected(l) \/ LoopFails(l)
                        \/ LoopWakes(l) \/ LoopUnwinds(l)
    \/ \E c \in Clients : Dial(c) \/ HangUp(c)

Spec == Init /\ [][Next]_vars

\* The event loop runs what is ready.  Nobody owes a handshake, a packet or a request.
Fairness == /\ \A r \in Requests : WF_vars(RequestStep(r))
            /\ \A l \in Loops : WF_vars(LoopUnwinds(l))

FairSpec == Spec /\ Fairness
-----------------------------------------------------------------------------
Receiving(b) == {l \in Loops : BotOf(l[1]) = b /\ At(l) = "receiving"}
Serving(b)   == {c \in Clients : client[c] \in Objs /\ BotOf(client[c]) = b}
LiveLoops    == {l \in Loops : At(l) \in Live}

\* A bot shown as connected has a socket that delivers, or one that a request is
\* just taking down: no interleaving leaves "connected" behind a dead link, which
\* the send path would then prefer to a live one.
ConnectedIsTrue == \A b \in Bots : status[b] = "connected" =>
    \/ Receiving(b) # {} \/ Serving(b) # {}
    \/ \E r \in Requests : req[r].at = "awaiting" /\ req[r].bot = b

\* Between requests the manager, the task table and BotClient name the same
\* adapters, however the requests overlapped.
BooksAgree == Quiet /\ "down" \notin history =>
    /\ tasks = StartAll(adapters)
    /\ \A b \in Bots \ Reverse : registered[b] = ObjFor(b, adapters)

\* manager.py:92: reconfiguring stops the old connections.  Between requests, no
\* loop that a start_all() began is alive outside the manager's task table.
NoOrphan == Quiet => \A l \in LiveLoops : l[2] = 1 => tasks[BotOf(l[1])] = l

\* The same, in runs whose requests did not overlap.
NoOrphanInTurn == "overlap" \notin history => NoOrphan

\* While requests take turns and the pool starts nothing, a bot has one receive
\* loop at most: no message is delivered, answered or counted twice.
OneReceiver == history \cap {"overlap", "pool"} = {} =>
    \A b \in Bots : Cardinality(Receiving(b)) <= 1

Managed == {l[1] : l \in {k \in LiveLoops : k[2] = 1}}

\* Between requests the manager runs every adapter it has, except those that gave up
\* and those that the reconnect button took from it.  If requests took turns, it runs
\* nothing else, its adapters are the enabled forward connections, and after the
\* shutdown it runs nothing.  Of the reverse ones it runs none, see ReverseServed.
SettingsApplied == Quiet =>
    /\ "down" \notin history => adapters \ Managed \subseteq halted
    /\ "overlap" \notin history =>
         IF "down" \in history
           THEN Managed = {}
           ELSE Managed \subseteq adapters /\ {BotOf(o) : o \in adapters} = enabled \ Reverse

\* A bot that is shown as connected between requests can also send, as long as no
\* reverse client was handed to another bot's adapter.
ConnectedCanSend == Quiet /\ history \cap {"overlap", "pool", "crossed"} = {} =>
    \A b \in Bots : status[b] = "connected" =>
        \E o \in Objs : registered[b] = o /\ ws[o] \in Receiving(b)

\* A bot has one link, and one that can send, unless requests overlapped, the pool
\* started an adapter, or a reverse client was handed to another bot's.
OneLink == OneReceiver /\ ConnectedCanSend

\* Every request comes to its end, whatever the loops and the other requests do.
RequestsEnd == \A r \in Requests : ~Inactive(r) ~> Inactive(r)

\* readme.md:74-76, docs/CHANGELOG.md:133: a protocol end that dials the path of an
\* enabled reverse connection is served, also after connections were reloaded.
ReverseServed ==
    [][\A c \in Clients : client'[c] = Refused => DialsFor[c] \notin enabled]_client
=============================================================================
