------------------------------ MODULE PluginIpc ------------------------------
(***************************************************************************)
(* PluginProcessBridge of app/core/plugin_ipc.py and the worker process it *)
(* starts (app/core/plugin_worker.py), over one life of the bridge: start, *)
(* calls of the plugin's handlers, capabilities that the plugin calls back *)
(* in the parent, stop.  The two pipes are the worker's stdin and stdout.  *)
(* The worker may hang, wake up and die at any moment; its answers arrive  *)
(* late or never.  What is handed over (events, texts) is left out.        *)
(***************************************************************************)
EXTENDS Naturals, Sequences, FiniteSets

CONSTANTS Calls,           \* handler calls, each made once at most
          Ping, Shutdown,  \* the bridge's own calls
          MaxCaps,         \* capability calls the plugin makes, at most
          HighWater        \* lines the worker may leave unread before drain() waits

ASSUME IpcAssumption ==
    /\ Ping \notin Calls /\ Shutdown \notin Calls /\ Ping # Shutdown
    /\ HighWater \in Nat /\ MaxCaps \in Nat

AllCalls == Calls \cup {Ping, Shutdown}
Caps     == 1..MaxCaps     \* numbered by the worker's own counter

VARIABLES proc,      \* the worker process
          reaped,    \* its return code is known to the parent
          stdin,     \* calls written that the worker has not read
          working,   \* calls the worker is executing
          stdout,    \* lines of the worker that the read loop has yet to read
          reader,    \* the parent's read loop
          call,      \* where each call stands in request()
          future,    \* what its future holds
          pending,   \* PluginProcessBridge._pending
          late,      \* calls entered after the read loop had ended
          cap,       \* each capability call
          slipped,   \* capability calls that came in while stop() gathered
          starting,  \* start(), awaited by the request that loads the plugin
          stopping,  \* stop(), awaited by the one that unloads it
          gathered,  \* capability tasks that stop() waits for
          closed     \* PluginProcessBridge._closed

worker == <<proc, reaped, stdin, working, stdout>>
books  == <<call, future, pending, late>>
served == <<cap, slipped>>
life   == <<starting, stopping, gathered, closed>>
bridge == <<worker, reader, books, served, life>>

InFlight == {"draining", "waiting"}
Over     == {"answered", "failed", "refused", "cancelled"}
Line     == ({"answer", "error"} \X AllCalls) \cup ({"capability"} \X Caps)

BridgeTypeOK ==
    /\ proc \in {"none", "running", "hung", "dead"}
    /\ reaped \in BOOLEAN
    /\ stdin \subseteq AllCalls
    /\ working \subseteq AllCalls
    /\ stdout \in Seq(Line)
    /\ reader \in {"none", "reading", "ended"}
    /\ call \in [AllCalls -> {"new"} \cup InFlight \cup Over]
    /\ future \in [AllCalls -> {"open", "result", "error"}]
    /\ pending \subseteq {r \in AllCalls : call[r] \in InFlight}
    /\ late \subseteq AllCalls
    /\ cap \in [Caps -> {"new", "sent", "serving", "cancelling", "over"}]
    /\ slipped \subseteq Caps
    /\ starting \in {"no", "spawning", "pinging", "returned", "raised"}
    /\ stopping \in {"no", "asking", "exiting", "gathering", "stopped"}
    /\ gathered \subseteq Caps
    /\ closed \in BOOLEAN

BridgeInit ==
    /\ proc = "none" /\ reaped = FALSE
    /\ stdin = {} /\ working = {} /\ stdout = << >>
    /\ reader = "none"
    /\ call = [r \in AllCalls |-> "new"]
    /\ future = [r \in AllCalls |-> "open"]
    /\ pending = {} /\ late = {}
    /\ cap = [k \in Caps |-> "new"] /\ slipped = {}
    /\ starting = "no" /\ stopping = "no" /\ gathered = {}
    /\ closed = FALSE

(***************************************************************************)
(* request(): the call is entered, its line written and, unless the worker *)
(* has left too much unread, the wait for the answer begun, all in one     *)
(* step.  Otherwise drain() waits first, which no timeout bounds.  A line  *)
(* for a dead worker may be lost in silence or raise.                      *)
(***************************************************************************)
Available == ~closed /\ proc # "none" /\ ~reaped
Backlog   == Cardinality(stdin) > HighWater

Unwritten(r, how) ==
    /\ call' = [call EXCEPT ![r] = how]
    /\ UNCHANGED <<pending, stdin, late>>

\* The call is entered although nobody reads answers any more.
Belated(r) == IF reader = "ended" THEN late \cup {r} ELSE late

LineLost(r) ==
    /\ call' = [call EXCEPT ![r] = "waiting"]
    /\ pending' = pending \cup {r}
    /\ late' = Belated(r)
    /\ UNCHANGED stdin

LineWritten(r) ==
    /\ stdin' = stdin \cup {r}
    /\ call' = [call EXCEPT ![r] = IF Cardinality(stdin \cup {r}) > HighWater
                                     THEN "draining" ELSE "waiting"]
    /\ pending' = pending \cup {r}
    /\ late' = Belated(r)

\* The effect of request() up to its first await, on the books.
Writes(r) ==
    /\ call[r] = "new"
    /\ \/ ~Available /\ Unwritten(r, "refused")
       \/ Available /\ proc = "dead" /\ Unwritten(r, "failed")
       \/ Available /\ proc = "dead" /\ LineLost(r)
       \/ Available /\ proc # "dead" /\ LineWritten(r)
    /\ UNCHANGED <<proc, reaped, working, stdout, reader, future>>

Request(r) == Writes(r) /\ UNCHANGED <<served, life>>

\* Slip: the call is left in the table.
LeavesBehind(r, how) ==
    /\ call' = [call EXCEPT ![r] = how]
    /\ future' = [future EXCEPT ![r] = "open"]
    /\ UNCHANGED <<worker, reader, pending, late, served, life>>

\* The end of request(): its finally clause forgets the call and its future.
Leaves(r, how) ==
    /\ call' = [call EXCEPT ![r] = how]
    /\ pending' = pending \ {r}
    /\ future' = [future EXCEPT ![r] = "open"]
    /\ UNCHANGED <<worker, reader, late, served, life>>

Drains(r) ==
    /\ call[r] = "draining"
    /\ ~Backlog
    /\ call' = [call EXCEPT ![r] = "waiting"]
    /\ UNCHANGED <<worker, reader, future, pending, late, served, life>>

DrainFails(r) == call[r] = "draining" /\ proc = "dead" /\ Leaves(r, "failed")
Answered(r)   == call[r] = "waiting" /\ future[r] = "result" /\ Leaves(r, "answered")
Fails(r)      == call[r] = "waiting" /\ future[r] = "error" /\ Leaves(r, "failed")
\* Slip: stop() waits for its answer without a timeout.
TimesOutLate(r) == /\ call[r] = "waiting" /\ future[r] = "open" /\ r # Shutdown
                   /\ Leaves(r, "failed")

TimesOut(r)   == call[r] = "waiting" /\ future[r] = "open" /\ Leaves(r, "failed")
Abandons(r)   == call[r] \in InFlight /\ Leaves(r, "cancelled")

(***************************************************************************)
(* start() spawns the worker, starts the read loop and pings.  Spawning is *)
(* an await: stop() may have closed the bridge before it returns.          *)
(***************************************************************************)
BeginStart ==
    /\ starting = "no" /\ stopping = "no"
    /\ starting' = "spawning"
    /\ UNCHANGED <<worker, reader, books, served, stopping, gathered, closed>>

Spawned ==
    /\ starting = "spawning"
    /\ proc' = "running"
    /\ reader' = "reading"
    /\ IF closed
         THEN /\ starting' = "raised"
              /\ call' = [call EXCEPT ![Ping] = "refused"]
              /\ UNCHANGED <<pending, stdin>>
         ELSE /\ starting' = "pinging"
              /\ call' = [call EXCEPT ![Ping] = "waiting"]
              /\ pending' = pending \cup {Ping}
              /\ stdin' = stdin \cup {Ping}
    /\ UNCHANGED <<reaped, working, stdout, future, late, served, stopping, gathered, closed>>

Started ==
    /\ starting = "pinging"
    /\ call[Ping] \in Over
    /\ starting' = IF call[Ping] = "answered" THEN "returned" ELSE "raised"
    /\ UNCHANGED <<worker, reader, books, served, stopping, gathered, closed>>

SpawnFails ==
    /\ starting = "spawning"
    /\ starting' = "raised"
    /\ UNCHANGED <<worker, reader, books, served, stopping, gathered, closed>>

(***************************************************************************)
(* The worker: every line it reads becomes a task, so answers come in any  *)
(* order.  Whoever blocks its event loop also stops it from reading.       *)
(***************************************************************************)
\* After the end of the read loop nobody reads what the worker writes.
Prints(kind, x) == IF reader = "ended" THEN stdout ELSE Append(stdout, <<kind, x>>)

WorkerKeeps == UNCHANGED <<reaped, reader, books, slipped, life>>

WorkerReads ==
    /\ proc = "running"
    /\ \E r \in stdin :
          /\ stdin' = stdin \ {r}
          /\ IF r \in Calls
               THEN working' = working \cup {r} /\ UNCHANGED stdout
               ELSE stdout' = Prints("answer", r) /\ UNCHANGED working
    /\ UNCHANGED <<proc, cap>> /\ WorkerKeeps

WorkerAnswers ==
    /\ proc = "running"
    /\ \E r \in working, kind \in {"answer", "error"} :
          /\ working' = working \ {r}
          /\ stdout' = Prints(kind, r)
    /\ UNCHANGED <<proc, stdin, cap>> /\ WorkerKeeps

WorkerCalls ==
    /\ proc = "running" /\ working \cap Calls # {}
    /\ \E k \in Caps : /\ cap[k] = "new" /\ \A j \in 1..(k - 1) : cap[j] # "new"
                       /\ cap' = [cap EXCEPT ![k] = "sent"]
                       /\ stdout' = Prints("capability", k)
    /\ UNCHANGED <<proc, stdin, working>> /\ WorkerKeeps

WorkerHangs ==
    /\ \/ proc = "running" /\ working \cap Calls # {} /\ proc' = "hung"
       \/ proc = "hung" /\ proc' = "running"
    /\ UNCHANGED <<stdin, working, stdout, cap>> /\ WorkerKeeps

WorkerDies ==
    /\ proc \in {"running", "hung"}
    /\ proc' = "dead"
    /\ stdin' = {} /\ working' = {}
    /\ UNCHANGED <<stdout, cap>> /\ WorkerKeeps

WorkerReaped ==
    /\ proc = "dead" /\ ~reaped
    /\ reaped' = TRUE
    /\ UNCHANGED <<proc, stdin, working, stdout, reader, books, served, life>>

(***************************************************************************)
(* The read loop of the parent.  Answers go to the call that still waits;  *)
(* a capability call becomes a task.  At the end of the worker's output,   *)
(* at a line it can not take, or when stop() cancels the loop, every call  *)
(* still pending gets an error.                                            *)
(***************************************************************************)
\* Slip: the loop ends without telling anyone.
TellsNobody == pending' = {} /\ UNCHANGED future

TellsPending ==
    /\ future' = [r \in AllCalls |-> IF r \in pending THEN "error" ELSE future[r]]
    /\ pending' = {}

\* Slip: answers are taken to come in the order of the calls.
DeliversToNext(kind, r) ==
    LET q == IF pending = {} THEN r ELSE CHOOSE q \in pending : TRUE IN
    /\ pending' = pending \ {q}
    /\ future' = IF q \in pending
                   THEN [future EXCEPT ![q] = IF kind = "answer" THEN "result" ELSE "error"]
                   ELSE future

Delivers(kind, r) ==
    /\ pending' = pending \ {r}
    /\ future' = IF r \in pending
                   THEN [future EXCEPT ![r] = IF kind = "answer" THEN "result" ELSE "error"]
                   ELSE future

ReaderReads ==
    /\ reader = "reading" /\ stdout # << >>
    /\ stdout' = Tail(stdout)
    /\ LET kind == Head(stdout)[1]  x == Head(stdout)[2] IN
         IF kind = "capability"
           THEN /\ cap' = [cap EXCEPT ![x] = "serving"]
                /\ slipped' = IF stopping = "gathering" \/ closed
                                THEN slipped \cup {x} ELSE slipped
                /\ UNCHANGED <<future, pending>>
           ELSE Delivers(kind, x) /\ UNCHANGED served
    /\ UNCHANGED <<proc, reaped, stdin, working, reader, call, late, life>>

ReaderEnds ==
    /\ reader = "reading" /\ stdout = << >> /\ proc = "dead"
    /\ reader' = "ended"
    /\ TellsPending
    /\ UNCHANGED <<worker, call, late, served, life>>

\* A line of more than 64 KiB, or JSON that is no object -- an answer, or something the
\* plugin prints -- ends the loop, and the worker lives on with nobody to read it.
ReaderFails ==
    /\ reader = "reading" /\ (stdout # << >> \/ proc # "dead")
    /\ reader' = "ended" /\ stdout' = << >>
    /\ TellsPending
    /\ UNCHANGED <<proc, reaped, stdin, working, call, late, served, life>>

(***************************************************************************)
(* _serve_capability(): the service runs in the parent.  A cancelled task  *)
(* still has its own cleanup to do before it is over.                      *)
(***************************************************************************)
CapabilityEnds(k) ==
    /\ cap[k] \in {"serving", "cancelling"}
    /\ cap' = [cap EXCEPT ![k] = "over"]
    /\ UNCHANGED <<worker, reader, books, slipped, life>>

(***************************************************************************)
(* stop(): asks the worker to shut down, terminates it and waits, closes   *)
(* the bridge, cancels the capability tasks and gathers them, and cancels  *)
(* the read loop last.                                                     *)
(***************************************************************************)
Serving == {k \in Caps : cap[k] = "serving"}

\* The read loop is cancelled and awaited; its finally clause runs.
JoinsReader ==
    /\ stopping' = "stopped"
    /\ stdout' = << >>
    /\ IF reader = "reading"
         THEN reader' = "ended" /\ TellsPending
         ELSE UNCHANGED <<reader, future, pending>>

\* Slip: the capability tasks are left running.
ClosesOnly ==
    /\ closed' = TRUE
    /\ UNCHANGED <<gathered, cap>>
    /\ JoinsReader

Closes ==
    /\ closed' = TRUE
    /\ gathered' = Serving
    /\ cap' = [k \in Caps |-> IF k \in Serving THEN "cancelling" ELSE cap[k]]
    /\ IF Serving = {}
         THEN JoinsReader
         ELSE stopping' = "gathering" /\ UNCHANGED <<stdout, reader, future, pending>>

BeginStop ==
    /\ stopping = "no"
    /\ IF proc # "none" /\ ~reaped
         THEN /\ stopping' = "asking"
              /\ Writes(Shutdown)
              /\ UNCHANGED <<served, starting, gathered, closed>>
         ELSE /\ Closes
              /\ UNCHANGED <<proc, reaped, stdin, working, call, late, slipped, starting>>

Terminates ==
    /\ stopping = "asking" /\ call[Shutdown] \in Over
    /\ stopping' = "exiting"
    /\ UNCHANGED <<worker, reader, books, served, starting, gathered, closed>>

\* The worker is gone, or three seconds pass and it is killed.
WorkerKilled == proc' = "dead" /\ stdin' = {} /\ working' = {}

StopCloses ==
    /\ stopping = "exiting"
    /\ WorkerKilled
    /\ Closes
    /\ UNCHANGED <<reaped, call, late, slipped, starting>>

StopEnds ==
    /\ stopping = "gathering"
    /\ \A k \in gathered : cap[k] = "over"
    /\ JoinsReader
    /\ gathered' = {}
    /\ UNCHANGED <<proc, reaped, stdin, working, call, late, served, starting, closed>>

WorkerStep == WorkerReads \/ WorkerAnswers \/ WorkerCalls \/ WorkerHangs
              \/ WorkerDies \/ WorkerReaped
CallStep(r) == Drains(r) \/ DrainFails(r) \/ Answered(r) \/ Fails(r) \/ TimesOut(r)
OwnStep(r)  == r \in {Ping, Shutdown} /\ CallStep(r)
StopStep    == Terminates \/ StopCloses \/ StopEnds
ReaderStep  == ReaderReads \/ ReaderEnds \/ ReaderFails

\* What the bridge and its worker do of their own accord.
BridgeStep ==
    \/ SpawnFails \/ Spawned \/ Started
    \/ WorkerStep \/ ReaderStep \/ StopStep
    \/ \E k \in Caps : CapabilityEnds(k)
    \/ \E r \in {Ping, Shutdown} : CallStep(r)

BridgeNext ==
    \/ BeginStart \/ BeginStop \/ BridgeStep
    \/ \E r \in Calls : Request(r) \/ CallStep(r) \/ Abandons(r)

BridgeSpec == BridgeInit /\ [][BridgeNext]_bridge

(***************************************************************************)
(* Properties.                                                             *)
(***************************************************************************)
(* A call that waits and has not been told anything is still in the books  *)
(* of a read loop that will tell it, unless it was made after the end of   *)
(* the loop.  request() does not ask whether anybody reads the answers, so *)
(* such a call waits for its whole timeout: between the death of the       *)
(* worker and the moment the parent learns of it, and for good once the    *)
(* loop has stumbled over a line of a worker that lives on (request and    *)
(* _read_loop).                                                            *)
NoneForgotten ==
    \A r \in AllCalls :
       call[r] \in InFlight /\ future[r] = "open" =>
          r \in pending /\ (reader = "reading" \/ r \in late)

(* Once stop() has returned, no capability runs on behalf of the plugin,   *)
(* except one whose request came in while stop() was gathering the others, *)
(* or from a worker that was spawned after the bridge had been closed.     *)
StopQuiets ==
    stopping = "stopped" =>
       \A k \in Caps : cap[k] \in {"serving", "cancelling"} => k \in slipped

(* Once stop() has returned its worker is dead; the one way to leave it    *)
(* behind is that stop() ran while start() was still spawning it, and then *)
(* nothing will ever stop it.                                              *)
WorkerGone == stopping = "stopped" /\ proc \in {"running", "hung"} => call[Ping] = "refused"

(* An unloaded plugin has stopped: nothing runs for it, and no worker.     *)
StopLeavesNothing == StopQuiets /\ WorkerGone

(***************************************************************************)
(* Refinement.                                                             *)
(***************************************************************************)
HasAnswer(r) == \/ future[r] = "result"
                \/ \E i \in 1..Len(stdout) : stdout[i] = <<"answer", r>>

Known(r) == IF call[r] \in InFlight THEN "asked" ELSE call[r]
Work(r)  == CASE r \in stdin -> "sent"
              [] r \in working \ stdin -> "running"
              [] OTHER -> IF HasAnswer(r) THEN "done" ELSE "none"

Promise == INSTANCE RemoteCalls WITH Handlers <- Calls, Own <- {Ping, Shutdown},
                                     call <- [r \in AllCalls |-> Known(r)],
                                     work <- [r \in AllCalls |-> Work(r)]

(* Whatever the worker does, answers too late or not at all: a handler is  *)
(* carried out at most once for each call and never after the unloading,   *)
(* and a caller is given the answer to its own call or none, although they *)
(* come in any order and after a call was given up (request, _read_loop,   *)
(* stop).                                                                  *)
ImplementsCalls == Promise!Spec
=============================================================================
