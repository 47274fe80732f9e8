-------------------------- MODULE BackgroundWorker --------------------------
(***************************************************************************)
(* app/core/background.py: the bounded asyncio.Queue, its worker tasks and *)
(* the _active table that suppresses duplicate submissions.                *)
(*                                                                         *)
(* The event loop is single threaded, so a step runs from one await to the *)
(* next.  submit() tests _active and then may wait for room in the queue;  *)
(* a worker that awaits a job resumes some time after the job has ended.   *)
(***************************************************************************)
EXTENDS Naturals, Sequences, FiniteSets

CONSTANTS Jobs,       \* the coroutines callers hand to submit(), one call each
          Names,
          NameOf,     \* NameOf[j]: the name argument of that call
          Endless,    \* jobs whose coroutine is a "while True" loop
          Fragile,    \* jobs that may end with CancelledError on their own
          Workers,
          QueueSize,
          NoJob

ASSUME PoolAssumption ==
    /\ NameOf \in [Jobs -> Names]
    /\ Endless \subseteq Jobs
    /\ Fragile \subseteq Jobs
    /\ IsFiniteSet(Workers)
    /\ QueueSize \in Nat \ {0}
    /\ NoJob \notin Jobs

VARIABLES phase,       \* of the pool: before start(), running, inside stop(), after it
          stage,       \* stage[j]: how far job j has come
          queue,       \* self.queue
          unfinished,  \* the queue's count of puts not yet matched by task_done()
          active,      \* self._active: name -> the task last created under it
          worker,      \* worker[w]: where the coroutine _worker(w) stands
          holds        \* holds[w]: the job of the task that _worker(w) awaits

vars == <<phase, stage, queue, unfinished, active, worker, holds>>

Phases  == {"new", "up", "stopping", "stopped"}
Stages  == {"new", "skipped", "blocked", "queued", "running",
            "returned", "cancelled", "over"}
WStates == {"unborn", "waiting", "running", "cancelled", "exited"}

TypeOK == /\ phase \in Phases
          /\ stage \in [Jobs -> Stages]
          /\ queue \in Seq(Jobs)
          /\ unfinished \in Nat
          /\ active \in [Names -> Jobs \cup {NoJob}]
          /\ worker \in [Workers -> WStates]
          /\ holds \in [Workers -> Jobs \cup {NoJob}]

Init == /\ phase = "new"
        /\ stage = [j \in Jobs |-> "new"]
        /\ queue = <<>>
        /\ unfinished = 0
        /\ active = [n \in Names |-> NoJob]
        /\ worker = [w \in Workers |-> "unborn"]
        /\ holds = [w \in Workers |-> NoJob]

Start == /\ phase = "new"
         /\ phase' = "up"
         /\ worker' = [w \in Workers |-> "waiting"]
         /\ UNCHANGED <<stage, queue, unfinished, active, holds>>

(***************************************************************************)
(* submit(): a job whose name is in _active is closed unstarted; any other *)
(* goes through queue.put(), which waits while the queue is full and does  *)
(* not look at _active again when it is let in.                            *)
(***************************************************************************)
Submitted(j) == phase = "up" /\ stage[j] = "new"

\* Slip: a name that is merely queued counts as a duplicate too.
SkipQueuedToo(j) == /\ Submitted(j)
                    /\ \/ active[NameOf[j]] # NoJob
                       \/ \E i \in 1..Len(queue) : NameOf[queue[i]] = NameOf[j]
                    /\ stage' = [stage EXCEPT ![j] = "skipped"]
                    /\ UNCHANGED <<phase, queue, unfinished, active, worker, holds>>

SkipDuplicate(j) == /\ Submitted(j)
                    /\ active[NameOf[j]] # NoJob
                    /\ stage' = [stage EXCEPT ![j] = "skipped"]
                    /\ UNCHANGED <<phase, queue, unfinished, active, worker, holds>>

Put(j) == /\ Len(queue) < QueueSize
          /\ queue' = Append(queue, j)
          /\ unfinished' = unfinished + 1
          /\ stage' = [stage EXCEPT ![j] = "queued"]
          /\ UNCHANGED <<phase, active, worker, holds>>

Enqueue(j) == /\ Submitted(j)
              /\ active[NameOf[j]] = NoJob
              /\ Put(j)

Block(j) == /\ Submitted(j)
            /\ active[NameOf[j]] = NoJob
            /\ Len(queue) >= QueueSize
            /\ stage' = [stage EXCEPT ![j] = "blocked"]
            /\ UNCHANGED <<phase, queue, unfinished, active, worker, holds>>

Unblock(j) == /\ stage[j] = "blocked"
              /\ Put(j)

(***************************************************************************)
(* _worker(): get a job, create its task, note it in _active (over any     *)
(* task of the same name), await it, and clean up in the finally clause.   *)
(***************************************************************************)
Take(w) == /\ worker[w] = "waiting"
           /\ queue # <<>>
           /\ LET j == Head(queue) IN
                 /\ active' = [active EXCEPT ![NameOf[j]] = j]
                 /\ holds' = [holds EXCEPT ![w] = j]
                 /\ stage' = [stage EXCEPT ![j] = "running"]
           /\ queue' = Tail(queue)
           /\ worker' = [worker EXCEPT ![w] = "running"]
           /\ UNCHANGED <<phase, unfinished>>

JobStage(w) == IF holds[w] = NoJob THEN "over" ELSE stage[holds[w]]

\* The coroutine returns or raises an Exception: the worker treats both alike.
JobReturns(w) == /\ worker[w] = "running"
                 /\ JobStage(w) = "running"
                 /\ holds[w] \notin Endless
                 /\ stage' = [stage EXCEPT ![holds[w]] = "returned"]
                 /\ UNCHANGED <<phase, queue, unfinished, active, worker, holds>>

\* Slip: the except branch re-raises without cancelling the job's task.
JobIgnoresCancel(w) == /\ JobStage(w) = "running"
                       /\ worker[w] = "running"
                       /\ holds[w] \in Fragile
                       /\ stage' = [stage EXCEPT ![holds[w]] = "cancelled"]
                       /\ UNCHANGED <<phase, queue, unfinished, active, worker, holds>>

\* CancelledError ends the task: its own, or the one the cancelled worker passes on.
JobCancelled(w) == /\ JobStage(w) = "running"
                   /\ \/ worker[w] = "cancelled"
                      \/ worker[w] = "running" /\ holds[w] \in Fragile
                   /\ stage' = [stage EXCEPT ![holds[w]] = "cancelled"]
                   /\ UNCHANGED <<phase, queue, unfinished, active, worker, holds>>

PopActive(j) == active' = [active EXCEPT ![NameOf[j]] = IF @ = j THEN NoJob ELSE @]

\* Slip: the table is tidied after a normal return only, not in the finally clause.
CleanupAfterReturn(w) == /\ IF JobStage(w) = "returned" THEN PopActive(holds[w])
                                                       ELSE UNCHANGED active
                         /\ stage' = [stage EXCEPT ![holds[w]] = "over"]
                         /\ holds' = [holds EXCEPT ![w] = NoJob]
                         /\ unfinished' = unfinished - 1
                         /\ UNCHANGED <<phase, queue>>

\* Slip: task_done() is called in the except branch and again in the finally clause.
CleanupTwice(w) == /\ PopActive(holds[w])
                   /\ unfinished' = unfinished -
                                      (IF JobStage(w) = "returned" THEN 1 ELSE 2)
                   /\ stage' = [stage EXCEPT ![holds[w]] = "over"]
                   /\ holds' = [holds EXCEPT ![w] = NoJob]
                   /\ UNCHANGED <<phase, queue>>

\* Slip: task_done() is called only when the job was not cancelled.
CleanupSkipsDone(w) == /\ PopActive(holds[w])
                       /\ unfinished' = unfinished -
                                          (IF JobStage(w) = "returned" THEN 1 ELSE 0)
                       /\ stage' = [stage EXCEPT ![holds[w]] = "over"]
                       /\ holds' = [holds EXCEPT ![w] = NoJob]
                       /\ UNCHANGED <<phase, queue>>

Cleanup(w) == /\ PopActive(holds[w])
              /\ stage' = [stage EXCEPT ![holds[w]] = "over"]
              /\ holds' = [holds EXCEPT ![w] = NoJob]
              /\ unfinished' = unfinished - 1
              /\ UNCHANGED <<phase, queue>>

\* Slip: an Exception of the job is not caught and ends the worker.
ReapEndsWorker(w) == /\ worker[w] = "running"
                     /\ JobStage(w) = "returned"
                     /\ Cleanup(w)
                     /\ worker' = [worker EXCEPT ![w] = "exited"]

Reap(w) == /\ worker[w] = "running"
           /\ JobStage(w) = "returned"
           /\ Cleanup(w)
           /\ worker' = [worker EXCEPT ![w] = "waiting"]

\* The except branch for CancelledError re-raises, so the worker task ends too.
WorkerDies(w) == /\ \/ worker[w] = "running" /\ JobStage(w) = "cancelled"
                    \/ worker[w] = "cancelled" /\ JobStage(w) \in {"returned", "cancelled"}
                 /\ Cleanup(w)
                 /\ worker' = [worker EXCEPT ![w] = "exited"]

IdleWorkerExits(w) == /\ worker[w] = "cancelled"
                      /\ holds[w] = NoJob
                      /\ worker' = [worker EXCEPT ![w] = "exited"]
                      /\ UNCHANGED <<phase, stage, queue, unfinished, active, holds>>

(***************************************************************************)
(* stop(): cancel the workers, wait for all of them, then cancel whatever  *)
(* _active still names and clear it.                                       *)
(***************************************************************************)
StopBegin == /\ phase = "up"
             /\ phase' = "stopping"
             /\ worker' = [w \in Workers |->
                              IF worker[w] = "exited" THEN "exited" ELSE "cancelled"]
             /\ UNCHANGED <<stage, queue, unfinished, active, holds>>

\* Slip: stop() does not wait for the workers it has cancelled.
StopEndAtOnce == /\ phase = "stopping"
                 /\ phase' = "stopped"
                 /\ stage' = [j \in Jobs |->
                                IF active[NameOf[j]] = j /\ stage[j] = "running"
                                   THEN "over" ELSE stage[j]]
                 /\ active' = [n \in Names |-> NoJob]
                 /\ UNCHANGED <<queue, unfinished, worker, holds>>

StopEnd == /\ phase = "stopping"
           /\ \A w \in Workers : worker[w] = "exited"
           /\ phase' = "stopped"
           /\ stage' = [j \in Jobs |->
                          IF active[NameOf[j]] = j /\ stage[j] = "running"
                             THEN "over" ELSE stage[j]]
           /\ active' = [n \in Names |-> NoJob]
           /\ UNCHANGED <<queue, unfinished, worker, holds>>

Submit(j) == SkipDuplicate(j) \/ Enqueue(j) \/ Block(j) \/ Unblock(j)

WorkerStep(w) == \/ Take(w) \/ JobReturns(w) \/ JobCancelled(w)
                 \/ Reap(w) \/ WorkerDies(w) \/ IdleWorkerExits(w)

Next == \/ Start
        \/ \E j \in Jobs : Submit(j)
        \/ \E w \in Workers : WorkerStep(w)
        \/ StopBegin
        \/ StopEnd

Spec == Init /\ [][Next]_vars

(***************************************************************************)
(* The event loop resumes every coroutine that is ready, and a job that is *)
(* not a loop ends.  Nobody has to submit a job, to call stop(), or to end *)
(* a fragile job with CancelledError while the pool is up.                 *)
(***************************************************************************)
Fairness == /\ WF_vars(Start)
            /\ \A w \in Workers :
                  /\ WF_vars(Take(w))
                  /\ WF_vars(JobReturns(w))
                  /\ WF_vars(worker[w] = "cancelled" /\ JobCancelled(w))
                  /\ WF_vars(Reap(w) \/ WorkerDies(w) \/ IdleWorkerExits(w))
            /\ WF_vars(StopEnd)

FairSpec == Spec /\ Fairness
-----------------------------------------------------------------------------
Busy == {w \in Workers : holds[w] # NoJob}

\* queue.join() returns exactly when nothing is queued and nothing is held: the
\* count of unfinished puts is the queued jobs plus the jobs the workers hold,
\* through cancellation, worker death and stop() alike.
UnfinishedCount == unfinished = Len(queue) + Cardinality(Busy)

\* _active never names a task that no worker awaits any more, although two jobs
\* of one name may run at once and overwrite each other's entry: a stale entry
\* would make submit() refuse that name for ever.
ActiveIsHeld == \A n \in Names :
                   active[n] # NoJob => /\ NameOf[active[n]] = n
                                        /\ \E w \in Workers : holds[w] = active[n]

\* When stop() returns, no job it knew of is running and no worker is left.
QuietAfterStop == phase = "stopped" =>
                     /\ \A j \in Jobs : stage[j] \notin {"running", "returned", "cancelled"}
                     /\ \A w \in Workers : worker[w] = "exited" /\ holds[w] = NoJob

\* A job of two workers, or one that is still in the queue while it runs, would
\* be executed twice: every job is in at most one place, the place its stage says.
OnePlace == /\ \A i, k \in 1..Len(queue) : queue[i] = queue[k] => i = k
            /\ \A j \in Jobs : stage[j] = "queued" <=> \E i \in 1..Len(queue) : queue[i] = j
            /\ \A v, w \in Workers : holds[v] = holds[w] /\ holds[v] # NoJob => v = w
            /\ \A j \in Jobs : stage[j] \in {"running", "returned", "cancelled"}
                                  <=> \E w \in Workers : holds[w] = j

\* submit() drops a coroutine only while a worker holds another job of its name.
SkipIsJustified ==
    [][\A j \in Jobs : stage[j] # "skipped" /\ stage'[j] = "skipped" =>
          \E w \in Workers : holds[w] # NoJob /\ NameOf[holds[w]] = NameOf[j]]_vars

\* Nothing will be taken again: every worker runs a loop, or was lost to a job that
\* ended with CancelledError -- one worker a job, at most.
Lost == {w \in Workers : worker[w] = "exited"}
Saturated == /\ \A w \in Workers : w \in Lost \/ holds[w] \in Endless
             /\ Cardinality(Lost) <= Cardinality({j \in Fragile : stage[j] = "over"})

\* Saturation and shutdown are the only reasons for which a queued job never runs.
QueuedJobsRun == \A j \in Jobs :
    stage[j] = "queued" ~> (stage[j] # "queued" \/ phase # "up" \/ Saturated)

\* stop() returns, whatever the workers were doing when it was called.
StopReturns == phase = "stopping" ~> phase = "stopped"

\* The pool as its callers see it.
AbsState(j) == CASE stage[j] = "new" -> "new"
                 [] stage[j] = "skipped" -> "refused"
                 [] stage[j] \in {"blocked", "queued"} -> "accepted"
                 [] stage[j] \in {"running", "returned", "cancelled"} -> "running"
                 [] stage[j] = "over" -> "over"

Pool == INSTANCE JobPool WITH Slots <- Workers, slot <- holds, stopped <- (phase = "stopped"),
                              state <- [j \in Jobs |-> AbsState(j)]

\* Queue, duplicate table and shutdown together implement the pool callers expect.
ImplementsPool == Pool!Spec
=============================================================================
