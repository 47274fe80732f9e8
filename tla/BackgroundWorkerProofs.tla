----------------------- MODULE BackgroundWorkerProofs -----------------------
(***************************************************************************)
(* The pool's safety for any number of jobs, names and workers: the        *)
(* invariants of BackgroundWorker, that it implements JobPool, and that    *)
(* start-up and shutdown as BotStartup has them leave that as it is.       *)
(***************************************************************************)
EXTENDS BotStartup, FiniteSetTheorems, TLAPS

(***************************************************************************)
(* What the listed invariants leave out and their proofs need: where a     *)
(* worker stands tells whether it holds a job, and the phase of the pool   *)
(* tells where its workers can stand.                                      *)
(***************************************************************************)
WorkerPhases ==
    /\ \A w \in Workers : worker[w] \in {"unborn", "waiting", "exited"} => holds[w] = NoJob
    /\ \A w \in Workers : worker[w] = "running" => holds[w] # NoJob
    /\ phase = "new" => \A w \in Workers : worker[w] = "unborn"
    /\ phase = "stopping" => \A w \in Workers : worker[w] \in {"cancelled", "exited"}
    /\ phase = "stopped" => \A w \in Workers : worker[w] = "exited"

PoolInv == TypeOK /\ WorkerPhases /\ OnePlace /\ ActiveIsHeld /\ UnfinishedCount

\* A step of one worker changes the number of busy workers by at most that worker.
LEMMA BusyAdd ==
    ASSUME NEW w \in Workers, holds[w] = NoJob, Busy' = Busy \cup {w}
    PROVE  /\ Cardinality(Busy) \in Nat
           /\ Cardinality(Busy') = Cardinality(Busy) + 1
<1>1. IsFiniteSet(Busy)
  BY PoolAssumption, FS_Subset DEF Busy
<1>2. w \notin Busy
  BY DEF Busy
<1> QED
  BY <1>1, <1>2, FS_AddElement, FS_CardinalityType

LEMMA BusyRemove ==
    ASSUME NEW w \in Workers, holds[w] # NoJob, Busy' = Busy \ {w}
    PROVE  /\ Cardinality(Busy) \in Nat \ {0}
           /\ Cardinality(Busy') = Cardinality(Busy) - 1
<1>1. IsFiniteSet(Busy)
  BY PoolAssumption, FS_Subset DEF Busy
<1>2. w \in Busy
  BY DEF Busy
<1>3. Cardinality(Busy) # 0
  BY <1>1, <1>2, FS_EmptySet
<1> QED
  BY <1>1, <1>2, <1>3, FS_RemoveElement, FS_CardinalityType

\* Reap and WorkerDies end the same way: the worker lets go of a job it holds.
LEMMA CleanupCounts ==
    ASSUME PoolInv, NEW w \in Workers, holds[w] # NoJob, Cleanup(w)
    PROVE  unfinished' \in Nat /\ UnfinishedCount'
<1>1. Busy' = Busy \ {w}
  BY PoolAssumption DEF PoolInv, TypeOK, Cleanup, Busy
<1>2. /\ Cardinality(Busy) \in Nat \ {0}
      /\ Cardinality(Busy') = Cardinality(Busy) - 1
  BY <1>1, BusyRemove
<1>3. unfinished' = unfinished - 1 /\ queue' = queue
  BY DEF Cleanup
<1>4. Len(queue) \in Nat /\ unfinished = Len(queue) + Cardinality(Busy)
  BY DEF PoolInv, TypeOK, UnfinishedCount
<1> QED
  BY <1>2, <1>3, <1>4 DEF UnfinishedCount

\* The count of unfinished jobs is exact after every step.
LEMMA CountStep ==
    ASSUME PoolInv, Next
    PROVE  unfinished' \in Nat /\ UnfinishedCount'
<1> USE DEF PoolInv
<1>1. ASSUME UNCHANGED <<queue, unfinished, holds>>
      PROVE  unfinished' \in Nat /\ UnfinishedCount'
  BY <1>1 DEF UnfinishedCount, Busy, TypeOK
<1>2. ASSUME NEW j \in Jobs, Put(j)
      PROVE  unfinished' \in Nat /\ UnfinishedCount'
  <2>1. Len(queue') = Len(queue) + 1 /\ unfinished' = unfinished + 1 /\ Busy' = Busy
    BY <1>2 DEF Put, TypeOK, Busy
  <2>2. Cardinality(Busy) \in Nat
    BY PoolAssumption, FS_Subset, FS_CardinalityType DEF Busy
  <2> QED
    BY <2>1, <2>2 DEF UnfinishedCount, TypeOK
<1>3. ASSUME NEW w \in Workers, Take(w)
      PROVE  unfinished' \in Nat /\ UnfinishedCount'
  <2>1. holds[w] = NoJob
    BY <1>3 DEF Take, WorkerPhases
  <2>2. queue # <<>> /\ Head(queue) \in Jobs /\ Len(queue') = Len(queue) - 1
    BY <1>3 DEF Take, TypeOK
  <2>3. Busy' = Busy \cup {w}
    BY <1>3, <2>2, PoolAssumption DEF Take, TypeOK, Busy
  <2>4. /\ Cardinality(Busy) \in Nat
        /\ Cardinality(Busy') = Cardinality(Busy) + 1
    BY <2>1, <2>3, BusyAdd
  <2>5. unfinished' = unfinished /\ Len(queue) \in Nat
    BY <1>3 DEF Take, TypeOK
  <2> QED
    BY <2>2, <2>4, <2>5 DEF UnfinishedCount, TypeOK
<1>4. ASSUME NEW w \in Workers, Reap(w) \/ WorkerDies(w)
      PROVE  unfinished' \in Nat /\ UnfinishedCount'
  <2>1. holds[w] # NoJob /\ Cleanup(w)
    BY <1>4 DEF Reap, WorkerDies, JobStage
  <2> QED
    BY <2>1, CleanupCounts
<1> QED
  BY <1>1, <1>2, <1>3, <1>4
  DEF Next, Submit, WorkerStep, Start, SkipDuplicate, Enqueue, Block, Unblock,
      JobReturns, JobCancelled, IdleWorkerExits, StopBegin, StopEnd

\* The actions, spelt out: Next is one of these.
LEMMA NextCases ==
    ASSUME Next
    PROVE  \/ Start \/ StopBegin \/ StopEnd
           \/ \E j \in Jobs : SkipDuplicate(j) \/ Block(j)
           \/ \E j \in Jobs : /\ Put(j)
                             /\ stage[j] \in {"new", "blocked"}
           \/ \E w \in Workers : Take(w)
           \/ \E w \in Workers : JobReturns(w) \/ JobCancelled(w)
           \/ \E w \in Workers : /\ Cleanup(w)
                                /\ worker[w] \in {"running", "cancelled"}
                                /\ JobStage(w) \in {"returned", "cancelled"}
                                /\ \E t \in {"waiting", "exited"} :
                                      /\ worker' = [worker EXCEPT ![w] = t]
                                      /\ t = "waiting" => worker[w] = "running"
           \/ \E w \in Workers : IdleWorkerExits(w)
BY DEF Next, Submit, WorkerStep, Enqueue, Unblock, Submitted, Reap, WorkerDies

\* Types and the place of each worker.
LEMMA TypeStep ==
    ASSUME PoolInv, Next
    PROVE  TypeOK' /\ WorkerPhases'
<1> USE PoolAssumption DEF PoolInv, TypeOK, WorkerPhases, Phases, Stages, WStates
<1>0. unfinished' \in Nat
  BY CountStep
<1>1. CASE Start \/ StopBegin \/ StopEnd
  BY <1>0, <1>1 DEF Start, StopBegin, StopEnd
<1>2. ASSUME NEW j \in Jobs, SkipDuplicate(j) \/ Block(j)
      PROVE  TypeOK' /\ WorkerPhases'
  BY <1>0, <1>2 DEF SkipDuplicate, Block
<1>3. ASSUME NEW j \in Jobs, Put(j)
      PROVE  TypeOK' /\ WorkerPhases'
  BY <1>0, <1>3 DEF Put
<1>4. ASSUME NEW w \in Workers, Take(w)
      PROVE  TypeOK' /\ WorkerPhases'
  <2>1. Head(queue) \in Jobs /\ Tail(queue) \in Seq(Jobs)
    BY <1>4 DEF Take
  <2> QED
    BY <1>0, <1>4, <2>1 DEF Take
<1>5. ASSUME NEW w \in Workers, JobReturns(w) \/ JobCancelled(w)
      PROVE  TypeOK' /\ WorkerPhases'
  BY <1>0, <1>5 DEF JobReturns, JobCancelled
<1>6. ASSUME NEW w \in Workers, NEW t \in {"waiting", "exited"}, Cleanup(w),
             worker[w] \in {"running", "cancelled"},
             worker' = [worker EXCEPT ![w] = t],
             t = "waiting" => worker[w] = "running"
      PROVE  TypeOK' /\ WorkerPhases'
  BY <1>0, <1>6 DEF Cleanup, PopActive
<1>7. ASSUME NEW w \in Workers, IdleWorkerExits(w)
      PROVE  TypeOK' /\ WorkerPhases'
  BY <1>0, <1>7 DEF IdleWorkerExits
<1> QED
  BY <1>1, <1>2, <1>3, <1>4, <1>5, <1>6, <1>7, NextCases

\* _active names only tasks that a worker awaits.
LEMMA ActiveStep ==
    ASSUME PoolInv, Next
    PROVE  ActiveIsHeld'
<1> USE PoolAssumption DEF PoolInv, TypeOK, ActiveIsHeld
<1>1. CASE Start \/ StopBegin \/ StopEnd
  BY <1>1 DEF Start, StopBegin, StopEnd
<1>2. ASSUME NEW j \in Jobs, SkipDuplicate(j) \/ Block(j) \/ Put(j)
      PROVE  ActiveIsHeld'
  BY <1>2 DEF SkipDuplicate, Block, Put
<1>3. ASSUME NEW w \in Workers, Take(w)
      PROVE  ActiveIsHeld'
  <2>1. Head(queue) \in Jobs /\ holds[w] = NoJob
    BY <1>3 DEF Take, WorkerPhases
  <2>2. /\ active' = [active EXCEPT ![NameOf[Head(queue)]] = Head(queue)]
        /\ holds' = [holds EXCEPT ![w] = Head(queue)]
    BY <1>3 DEF Take
  <2> QED
    BY <2>1, <2>2
<1>4. ASSUME NEW w \in Workers, JobReturns(w) \/ JobCancelled(w) \/ IdleWorkerExits(w)
      PROVE  ActiveIsHeld'
  BY <1>4 DEF JobReturns, JobCancelled, IdleWorkerExits
<1>5. ASSUME NEW w \in Workers, Cleanup(w), JobStage(w) \in {"returned", "cancelled"}
      PROVE  ActiveIsHeld'
  <2>1. holds[w] \in Jobs
    BY <1>5 DEF JobStage
  <2>2. /\ active' = [active EXCEPT ![NameOf[holds[w]]] = IF @ = holds[w] THEN NoJob ELSE @]
        /\ holds' = [holds EXCEPT ![w] = NoJob]
    BY <1>5 DEF Cleanup, PopActive
  <2> QED
    BY <2>1, <2>2
<1> QED
  BY <1>1, <1>2, <1>3, <1>4, <1>5, NextCases

\* A job is queued once or held once, as its stage says.
LEMMA OnePlaceStep ==
    ASSUME PoolInv, Next
    PROVE  OnePlace'
<1> USE PoolAssumption DEF PoolInv, TypeOK, OnePlace
<1>1. CASE Start \/ StopBegin
  BY <1>1 DEF Start, StopBegin
<1>2. CASE StopEnd
  <2>1. \A j \in Jobs : stage[j] # "running"
    BY <1>2 DEF StopEnd, WorkerPhases
  <2>2. stage' = stage /\ queue' = queue /\ holds' = holds
    BY <1>2, <2>1 DEF StopEnd
  <2> QED
    BY <2>2
<1>3. ASSUME NEW j \in Jobs, SkipDuplicate(j) \/ Block(j)
      PROVE  OnePlace'
  BY <1>3 DEF SkipDuplicate, Block, Submitted
<1>4. ASSUME NEW j \in Jobs, Put(j), stage[j] \in {"new", "blocked"}
      PROVE  OnePlace'
  <2>1. /\ Len(queue') = Len(queue) + 1
        /\ \A i \in 1..Len(queue) : queue'[i] = queue[i]
        /\ queue'[Len(queue) + 1] = j
        /\ Len(queue) \in Nat
    BY <1>4 DEF Put
  <2>2. stage' = [stage EXCEPT ![j] = "queued"] /\ holds' = holds
    BY <1>4 DEF Put
  <2>3. \A i \in 1..Len(queue) : queue[i] # j
    BY <1>4
  <2>4. \A i, k \in 1..Len(queue') : queue'[i] = queue'[k] => i = k
    BY <2>1, <2>3
  <2>5. \A i \in Jobs : stage'[i] = "queued" <=> \E k \in 1..Len(queue') : queue'[k] = i
    <3> SUFFICES ASSUME NEW i \in Jobs
                 PROVE  stage'[i] = "queued" <=> \E k \in 1..Len(queue') : queue'[k] = i
      OBVIOUS
    <3>1. CASE i = j
      BY <2>1, <2>2, <3>1
    <3>2. CASE i # j
      BY <2>1, <2>2, <3>2
    <3> QED
      BY <3>1, <3>2
  <2>6. /\ \A v, u \in Workers : holds'[v] = holds'[u] /\ holds'[v] # NoJob => v = u
        /\ \A i \in Jobs : stage'[i] \in {"running", "returned", "cancelled"}
                             <=> \E v \in Workers : holds'[v] = i
    BY <1>4, <2>2
  <2> QED
    BY <2>4, <2>5, <2>6
<1>5. ASSUME NEW w \in Workers, Take(w)
      PROVE  OnePlace'
  <2> DEFINE j == Head(queue)
  <2>1. /\ j \in Jobs /\ j = queue[1]
        /\ Len(queue) \in Nat \ {0}
        /\ Len(queue') = Len(queue) - 1
        /\ \A i \in 1..(Len(queue) - 1) : queue'[i] = queue[i + 1]
    BY <1>5 DEF Take
  <2>2. stage' = [stage EXCEPT ![j] = "running"] /\ holds' = [holds EXCEPT ![w] = j]
    BY <1>5 DEF Take
  <2>3. holds[w] = NoJob
    BY <1>5 DEF Take, WorkerPhases
  <2>4. stage[j] = "queued" /\ \A i \in 2..Len(queue) : queue[i] # j
    BY <2>1
  <2>5. \A v \in Workers : holds[v] # j
    BY <2>1, <2>4
  <2> HIDE DEF j
  <2>6. /\ \A i, k \in 1..Len(queue') : queue'[i] = queue'[k] => i = k
        /\ \A i \in 1..Len(queue') : queue'[i] # j
    <3>1. \A i \in 1..Len(queue') : i + 1 \in 2..Len(queue) /\ queue'[i] = queue[i + 1]
      BY <2>1
    <3>2. ASSUME NEW i \in 1..Len(queue'), NEW k \in 1..Len(queue'), queue'[i] = queue'[k]
          PROVE  i = k
      <4>1. i + 1 \in 1..Len(queue) /\ k + 1 \in 1..Len(queue) /\ queue[i + 1] = queue[k + 1]
        BY <3>1, <3>2
      <4>2. i + 1 = k + 1
        BY <4>1
      <4> QED BY <4>2
    <3> QED BY <2>4, <3>1, <3>2
  <2>7. \A i \in Jobs : stage'[i] = "queued" <=> \E k \in 1..Len(queue') : queue'[k] = i
    <3> SUFFICES ASSUME NEW i \in Jobs
                 PROVE  stage'[i] = "queued" <=> \E k \in 1..Len(queue') : queue'[k] = i
      OBVIOUS
    <3>1. CASE i = j
      BY <2>2, <2>6, <3>1
    <3>2. CASE i # j
      <4>1. stage'[i] = "queued" <=> \E k \in 2..Len(queue) : queue[k] = i
        BY <2>1, <2>2, <3>2
      <4>2. ASSUME NEW k \in 2..Len(queue), queue[k] = i
            PROVE  k - 1 \in 1..Len(queue') /\ queue'[k - 1] = i
        BY <2>1, <4>2
      <4>3. ASSUME NEW k \in 1..Len(queue'), queue'[k] = i
            PROVE  k + 1 \in 2..Len(queue) /\ queue[k + 1] = i
        BY <2>1, <4>3
      <4> QED
        BY <4>1, <4>2, <4>3
    <3> QED
      BY <3>1, <3>2
  <2>8. /\ \A v, u \in Workers : holds'[v] = holds'[u] /\ holds'[v] # NoJob => v = u
        /\ \A i \in Jobs : stage'[i] \in {"running", "returned", "cancelled"}
                             <=> \E v \in Workers : holds'[v] = i
    BY <2>1, <2>2, <2>3, <2>5
  <2> QED
    BY <2>6, <2>7, <2>8
<1>6. ASSUME NEW w \in Workers, JobReturns(w) \/ JobCancelled(w)
      PROVE  OnePlace'
  <2>1. holds[w] \in Jobs /\ stage[holds[w]] = "running"
    BY <1>6 DEF JobReturns, JobCancelled, JobStage
  <2>2. PICK t \in {"returned", "cancelled"} :
           stage' = [stage EXCEPT ![holds[w]] = t] /\ UNCHANGED <<queue, holds>>
    BY <1>6 DEF JobReturns, JobCancelled
  <2> QED
    BY <2>1, <2>2
<1>7. ASSUME NEW w \in Workers, Cleanup(w), JobStage(w) \in {"returned", "cancelled"}
      PROVE  OnePlace'
  <2>1. holds[w] \in Jobs /\ stage[holds[w]] \in {"returned", "cancelled"}
    BY <1>7 DEF JobStage
  <2>2. /\ stage' = [stage EXCEPT ![holds[w]] = "over"]
        /\ holds' = [holds EXCEPT ![w] = NoJob]
        /\ queue' = queue
    BY <1>7 DEF Cleanup
  <2> QED
    BY <2>1, <2>2
<1>8. ASSUME NEW w \in Workers, IdleWorkerExits(w)
      PROVE  OnePlace'
  BY <1>8 DEF IdleWorkerExits
<1> QED
  BY <1>1, <1>2, <1>3, <1>4, <1>5, <1>6, <1>7, <1>8, NextCases

-----------------------------------------------------------------------------
\* PoolInv is inductive.
LEMMA PoolInvInit == Init => PoolInv
<1> SUFFICES ASSUME Init PROVE PoolInv
  OBVIOUS
<1>1. Busy = {}
  BY DEF Init, Busy
<1>2. UnfinishedCount
  BY <1>1, FS_EmptySet DEF Init, UnfinishedCount
<1> QED
  BY <1>2, PoolAssumption
  DEF Init, PoolInv, TypeOK, WorkerPhases, OnePlace, ActiveIsHeld,
      Phases, Stages, WStates

LEMMA PoolInvNext == PoolInv /\ [Next]_vars => PoolInv'
<1> SUFFICES ASSUME PoolInv, [Next]_vars PROVE PoolInv'
  OBVIOUS
<1>1. CASE Next
  BY <1>1, TypeStep, ActiveStep, OnePlaceStep, CountStep DEF PoolInv
<1>2. CASE UNCHANGED vars
  BY <1>2 DEF vars, PoolInv, TypeOK, WorkerPhases, OnePlace, ActiveIsHeld,
              UnfinishedCount, Busy
<1> QED
  BY <1>1, <1>2

THEOREM PoolInvariant == Spec => []PoolInv
BY PoolInvInit, PoolInvNext, PTL DEF Spec

\* Every variable keeps its type: in particular task_done() is never called more
\* often than put(), for which asyncio would raise.
THEOREM TypeCorrect == Spec => []TypeOK
<1>1. PoolInv => TypeOK
  BY DEF PoolInv
<1> QED
  BY <1>1, PoolInvariant, PTL

\* queue.join() can be trusted: the count is the queued jobs plus the held ones.
THEOREM CountIsExact == Spec => []UnfinishedCount
<1>1. PoolInv => UnfinishedCount
  BY DEF PoolInv
<1> QED
  BY <1>1, PoolInvariant, PTL

\* No job is lost between two places or in two of them.
THEOREM EachJobInOnePlace == Spec => []OnePlace
<1>1. PoolInv => OnePlace
  BY DEF PoolInv
<1> QED
  BY <1>1, PoolInvariant, PTL

\* The duplicate table has no stale entry.
THEOREM TableHasNoStaleEntry == Spec => []ActiveIsHeld
<1>1. PoolInv => ActiveIsHeld
  BY DEF PoolInv
<1> QED
  BY <1>1, PoolInvariant, PTL

\* After stop() nothing runs and no worker is left.
THEOREM StopIsClean == Spec => []QuietAfterStop
<1>1. PoolInv => QuietAfterStop
  <2> SUFFICES ASSUME PoolInv, phase = "stopped"
               PROVE  /\ \A j \in Jobs : stage[j] \notin {"running", "returned", "cancelled"}
                      /\ \A w \in Workers : worker[w] = "exited" /\ holds[w] = NoJob
    BY DEF QuietAfterStop
  <2>1. \A w \in Workers : worker[w] = "exited" /\ holds[w] = NoJob
    BY DEF PoolInv, WorkerPhases
  <2> QED
    BY <2>1, PoolAssumption DEF PoolInv, OnePlace
<1> QED
  BY <1>1, PoolInvariant, PTL

\* submit() drops a coroutine only while a worker holds a job of its name.
THEOREM SkipsAreJustified == Spec => SkipIsJustified
<1> DEFINE Justified == \A j \in Jobs : stage[j] # "skipped" /\ stage'[j] = "skipped" =>
                            \E w \in Workers : holds[w] # NoJob /\ NameOf[holds[w]] = NameOf[j]
<1>1. ASSUME PoolInv, Next PROVE Justified
  <2> USE PoolAssumption DEF PoolInv, TypeOK
  <2>1. ASSUME NEW j \in Jobs, SkipDuplicate(j) PROVE Justified
    <3>1. active[NameOf[j]] \in Jobs
      BY <1>1, <2>1 DEF SkipDuplicate
    <3>2. \E w \in Workers : holds[w] # NoJob /\ NameOf[holds[w]] = NameOf[j]
      BY <1>1, <3>1 DEF ActiveIsHeld
    <3> QED
      BY <2>1, <3>2 DEF SkipDuplicate
  <2>2. ASSUME NEW w \in Workers, Take(w) PROVE Justified
    BY <2>2 DEF Take
  <2> QED
    BY <1>1, <2>1, <2>2
    DEF Next, Submit, WorkerStep, Start, Enqueue, Unblock, Put, Block, JobReturns,
        JobCancelled, Reap, WorkerDies, Cleanup, IdleWorkerExits, StopBegin, StopEnd
<1>2. PoolInv /\ [Next]_vars => [Justified]_vars
  BY <1>1
<1> QED
  BY <1>2, PoolInvariant, PTL DEF Spec, SkipIsJustified

-----------------------------------------------------------------------------
\* The mapped states differ from one step to the next at one job only.
LEMMA MappedChange ==
    ASSUME PoolInv, NEW j \in Jobs, NEW t \in Stages, stage' = [stage EXCEPT ![j] = t]
    PROVE  [i \in Jobs |-> AbsState(i)]' =
              [[i \in Jobs |-> AbsState(i)] EXCEPT ![j] = AbsState(j)']
<1>1. \A i \in Jobs : i # j => AbsState(i)' = AbsState(i)
  BY DEF PoolInv, TypeOK, AbsState
<1> QED
  BY <1>1

\* Every step of the pool is a step of JobPool or leaves its state alone.
LEMMA PoolStepSimulates ==
    ASSUME PoolInv, Next
    PROVE  [Pool!Next]_(Pool!vars)
<1> USE PoolAssumption DEF PoolInv, TypeOK, Stages
<1> DEFINE abs == [i \in Jobs |-> AbsState(i)]
<1>1. ASSUME stage' = stage, holds' = holds, phase' = phase
      PROVE  UNCHANGED Pool!vars
  BY <1>1 DEF Pool!vars, AbsState
<1>2. ASSUME NEW j \in Jobs, SkipDuplicate(j)
      PROVE  Pool!Refuse(j)
  <2>1. /\ stage[j] = "new" /\ stage' = [stage EXCEPT ![j] = "skipped"] /\ holds' = holds
        /\ phase' = phase
    BY <1>2 DEF SkipDuplicate, Submitted
  <2>2. active[NameOf[j]] \in Jobs
    BY <1>2 DEF SkipDuplicate
  <2>3. Pool!Occupied(NameOf[j])
    BY <2>2 DEF ActiveIsHeld, Pool!Occupied
  <2>4. abs' = [abs EXCEPT ![j] = "refused"] /\ AbsState(j) = "new"
    BY <2>1, MappedChange DEF AbsState
  <2> QED
    BY <2>1, <2>3, <2>4 DEF Pool!Refuse
<1>3. ASSUME NEW j \in Jobs, stage[j] = "new", NEW t \in {"blocked", "queued"},
             stage' = [stage EXCEPT ![j] = t], holds' = holds, phase' = phase
      PROVE  Pool!Accept(j)
  <2>1. abs' = [abs EXCEPT ![j] = "accepted"] /\ AbsState(j) = "new"
    BY <1>3, MappedChange DEF AbsState
  <2> QED
    BY <1>3, <2>1 DEF Pool!Accept
<1>4. ASSUME NEW j \in Jobs, NEW t \in Stages, AbsState(j)' = AbsState(j),
             stage' = [stage EXCEPT ![j] = t], holds' = holds, phase' = phase
      PROVE  UNCHANGED Pool!vars
  <2>1. \A i \in Jobs : i # j => AbsState(i)' = AbsState(i)
    BY <1>4 DEF AbsState
  <2>2. abs' = abs
    BY <1>4, <2>1
  <2> QED
    BY <1>4, <2>2 DEF Pool!vars
<1>5. ASSUME NEW w \in Workers, Take(w)
      PROVE  \E j \in Jobs : Pool!Run(w, j)
  <2>1. /\ Head(queue) \in Jobs /\ stage[Head(queue)] = "queued"
        /\ holds[w] = NoJob /\ phase # "stopped" /\ phase' = phase
    BY <1>5 DEF Take, WorkerPhases, OnePlace
  <2>2. /\ stage' = [stage EXCEPT ![Head(queue)] = "running"]
        /\ holds' = [holds EXCEPT ![w] = Head(queue)]
    BY <1>5 DEF Take
  <2>3. /\ abs' = [abs EXCEPT ![Head(queue)] = "running"]
        /\ AbsState(Head(queue)) = "accepted"
    BY <2>1, <2>2, MappedChange DEF AbsState
  <2> QED
    BY <2>1, <2>2, <2>3 DEF Pool!Run
<1>6. ASSUME NEW w \in Workers, Cleanup(w), JobStage(w) \in {"returned", "cancelled"}
      PROVE  Pool!Finish(w)
  <2>1. holds[w] \in Jobs
    BY <1>6 DEF JobStage
  <2>2. /\ stage' = [stage EXCEPT ![holds[w]] = "over"]
        /\ holds' = [holds EXCEPT ![w] = NoJob] /\ phase' = phase
    BY <1>6 DEF Cleanup
  <2>3. abs' = [abs EXCEPT ![holds[w]] = "over"]
    BY <2>1, <2>2, MappedChange DEF AbsState
  <2> QED
    BY <2>1, <2>2, <2>3 DEF Pool!Finish
<1>7. CASE Start \/ StopBegin \/ \E w \in Workers : IdleWorkerExits(w)
  <2>1. /\ stage' = stage /\ holds' = holds
        /\ phase' = phase \/ (phase # "stopped" /\ phase' # "stopped")
    BY <1>7 DEF Start, StopBegin, IdleWorkerExits
  <2> QED
    BY <2>1 DEF Pool!vars, AbsState
<1>8. CASE StopEnd
  <2>4. phase = "stopping" /\ phase' = "stopped" /\ \A w \in Workers : holds[w] = NoJob
    BY <1>8 DEF StopEnd, WorkerPhases
  <2>1. \A j \in Jobs : stage[j] # "running"
    BY <1>8 DEF StopEnd, WorkerPhases, OnePlace
  <2>2. stage' = stage /\ holds' = holds
    BY <1>8, <2>1 DEF StopEnd
  <2>3. [i \in Jobs |-> AbsState(i)]' = [i \in Jobs |-> AbsState(i)]
    BY <2>2 DEF AbsState
  <2>5. Pool!Stop
    BY <2>2, <2>3, <2>4 DEF Pool!Stop
  <2> QED
    BY <2>5 DEF Pool!Next
<1>9. ASSUME NEW j \in Jobs, Block(j) \/ (Put(j) /\ stage[j] \in {"new", "blocked"})
      PROVE  Pool!Accept(j) \/ UNCHANGED Pool!vars
  <2>1. CASE Block(j)
    BY <1>3, <2>1 DEF Block, Submitted
  <2>2. CASE Put(j) /\ stage[j] = "new"
    BY <1>3, <2>2 DEF Put
  <2>3. CASE Put(j) /\ stage[j] = "blocked"
    <3>1. /\ stage' = [stage EXCEPT ![j] = "queued"] /\ holds' = holds
          /\ phase' = phase
      BY <2>3 DEF Put
    <3>2. AbsState(j)' = AbsState(j)
      BY <2>3, <3>1 DEF AbsState
    <3> QED
      BY <1>4, <3>1, <3>2
  <2> QED
    BY <1>9, <2>1, <2>2, <2>3
<1>10. ASSUME NEW w \in Workers, JobReturns(w) \/ JobCancelled(w)
       PROVE  UNCHANGED Pool!vars
  <2>1. /\ holds[w] \in Jobs /\ stage[holds[w]] = "running"
        /\ holds' = holds /\ phase' = phase
    BY <1>10 DEF JobReturns, JobCancelled, JobStage
  <2>2. PICK t \in {"returned", "cancelled"} : stage' = [stage EXCEPT ![holds[w]] = t]
    BY <1>10 DEF JobReturns, JobCancelled
  <2>3. AbsState(holds[w])' = AbsState(holds[w])
    BY <2>1, <2>2 DEF AbsState
  <2> QED
    BY <1>4, <2>1, <2>2, <2>3
<1> QED
  <2> HIDE DEF PoolInv, TypeOK, Stages
  <2> QED
    BY <1>2, <1>5, <1>6, <1>7, <1>8, <1>9, <1>10, NextCases DEF Pool!Next

\* Queue, duplicate table and shutdown together implement the pool callers expect.
THEOREM PoolRefinement == Spec => ImplementsPool
<1>1. Init => Pool!Init
  BY DEF Init, Pool!Init, AbsState
<1>2. PoolInv /\ [Next]_vars => [Pool!Next]_(Pool!vars)
  <2>1. ASSUME UNCHANGED vars PROVE UNCHANGED Pool!vars
    BY <2>1 DEF vars, Pool!vars, AbsState
  <2> QED
    BY <2>1, PoolStepSimulates
<1> QED
  BY <1>1, <1>2, PoolInvariant, PTL DEF Spec, ImplementsPool, Pool!Spec

-----------------------------------------------------------------------------
(* What run() does in its order is something a caller of the pool may do.  *)
LEMMA StartupStep ==
    ASSUME BootJobs \in Seq(Jobs), Requests \subseteq Jobs, booted \in Nat,
           [BootNext]_bootVars
    PROVE  [Next]_vars /\ booted' \in Nat
<1>1. CASE Boot
  <2> DEFINE j == BootJobs[booted + 1]
  <2>1. j \in Jobs
    BY <1>1 DEF Boot
  <2>2. /\ SkipDuplicate(j) \/ Enqueue(j) \/ Unblock(j) \/ Block(j)
        /\ booted' \in {booted, booted + 1}
    BY <1>1 DEF Boot
  <2> HIDE DEF j
  <2> QED BY <2>1, <2>2 DEF Next, Submit
<1>2. CASE Request
  BY <1>2 DEF Request, Next
<1>3. CASE Shutdown \/ PoolStep
  BY <1>3 DEF Shutdown, PoolStep, Next
<1>4. CASE UNCHANGED bootVars
  BY <1>4 DEF bootVars, vars
<1> QED BY <1>1, <1>2, <1>3, <1>4 DEF BootNext

(* Whatever main.py submits at start-up, whatever the routers submit while *)
(* it serves, and whenever run() ends: the pool stays the pool its callers *)
(* expect, and when stop() has returned, with coroutines of run() and of   *)
(* the routers still waiting for room, nothing runs any more.              *)
THEOREM StartupRefinement ==
    ASSUME BootJobs \in Seq(Jobs), Requests \subseteq Jobs
    PROVE  BootSpec => ImplementsPool /\ []QuietAfterStop
<1>1. BootInit => Init /\ booted \in Nat
  BY DEF BootInit
<1>2. booted \in Nat /\ [BootNext]_bootVars => [Next]_vars /\ (booted \in Nat)'
  BY StartupStep
<1>3. BootSpec => Spec
  BY <1>1, <1>2, PTL DEF BootSpec, Spec
<1> QED BY <1>3, PoolRefinement, StopIsClean, PTL
=============================================================================
