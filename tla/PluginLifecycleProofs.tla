----------------------- MODULE PluginLifecycleProofs -----------------------
(***************************************************************************)
(* Proofs about PluginLifecycle, for any finite set of requests.           *)
(*                                                                         *)
(* Instances are numbered up to the number of requests; that every load    *)
(* finds a free number follows from LoadsBound: a request that may still   *)
(* load has not used its number yet.                                       *)
(***************************************************************************)
EXTENDS PluginLifecycle, FiniteSetTheorems, TLAPS

\* A request that has not begun, or that is to load again after its unload.
MayLoad(r) == \/ req[r].at = "idle"
              \/ req[r].at = "closing" /\ req[r].kind \in {"reload", "config"}

LoadsBound == loads + Cardinality({r \in Requests : MayLoad(r)}) <= Cardinality(Requests)

\* What a request closes or starts is an instance, and at boot nothing else happens.
RequestsAreSound ==
    /\ \A r \in Requests : req[r].at \in {"closing", "starting"} => req[r].inst \in Insts
    /\ phase \in {"loaded", "started"} =>
          loaded \in Insts /\ \A r \in Requests : req[r].at = "idle"

LifeInv == TypeOK /\ LoadsBound /\ RequestsAreSound

(***************************************************************************)
(* Counting loads.                                                         *)
(***************************************************************************)
\* There are as many numbers as requests, and one for boot.
LEMMA InstsAreNumbers == Cardinality(Requests) \in Nat /\ Insts \subseteq Nat /\ 0 \in Insts
BY LifecycleAssumption, FS_CardinalityType DEF Insts

\* When no request may load that could not before, the bound is kept.
LEMMA BoundKept ==
    ASSUME LifeInv, loads' = loads, \A s \in Requests : MayLoad(s)' => MayLoad(s)
    PROVE  LoadsBound'
<1> DEFINE M == {s \in Requests : MayLoad(s)}
           N == {s \in Requests : MayLoad(s)'}
<1>1. IsFiniteSet(M) /\ IsFiniteSet(N) /\ N \subseteq M
  BY LifecycleAssumption, FS_Subset
<1>2. Cardinality(N) <= Cardinality(M) /\ Cardinality(N) \in Nat /\ Cardinality(M) \in Nat
  BY <1>1, FS_Subset, FS_CardinalityType
<1>3. loads \in Nat
  BY InstsAreNumbers DEF LifeInv, TypeOK
<1> QED
  BY <1>2, <1>3, InstsAreNumbers DEF LifeInv, LoadsBound

\* A request that may load makes the next number an instance, and the bound is kept
\* when it gives the number up.
LEMMA BoundUsed ==
    ASSUME LifeInv, NEW r \in Requests, MayLoad(r)
    PROVE  /\ New \in Insts
           /\ loads' = New /\ ~MayLoad(r)'
                /\ (\A s \in Requests : MayLoad(s)' => MayLoad(s)) => LoadsBound'
<1> DEFINE M == {s \in Requests : MayLoad(s)}
           N == {s \in Requests : MayLoad(s)'}
<1>1. IsFiniteSet(M) /\ r \in M
  BY LifecycleAssumption, FS_Subset
<1>2. /\ IsFiniteSet(M \ {r})
      /\ Cardinality(M \ {r}) = Cardinality(M) - 1
      /\ Cardinality(M) \in Nat /\ Cardinality(M \ {r}) \in Nat
  BY <1>1, FS_RemoveElement, FS_CardinalityType
<1>3. loads \in Nat /\ loads + Cardinality(M) <= Cardinality(Requests)
  BY InstsAreNumbers DEF LifeInv, TypeOK, LoadsBound
<1>4. New \in Insts
  BY <1>2, <1>3, InstsAreNumbers DEF New, Insts
<1>5. ASSUME loads' = New, ~MayLoad(r)', \A s \in Requests : MayLoad(s)' => MayLoad(s)
      PROVE  LoadsBound'
  <2>1. N \subseteq M \ {r}
    BY <1>5
  <2>2. Cardinality(N) <= Cardinality(M \ {r}) /\ Cardinality(N) \in Nat
    BY <1>2, <2>1, FS_Subset, FS_CardinalityType
  <2>3. loads' + Cardinality(N) <= Cardinality(Requests)
    BY <1>2, <1>3, <1>5, <2>2, InstsAreNumbers DEF New
  <2> QED
    BY <2>3 DEF LoadsBound
<1> QED
  BY <1>4, <1>5

(***************************************************************************)
(* Next, one case an action.                                               *)
(***************************************************************************)
LEMMA NextCases ==
    ASSUME Next
    PROVE  \/ BootStarts \/ BootSubmits
           \/ \E r \in Requests : BeginLoad(r)
           \/ \E r \in Requests : BeginLoadFails(r)
           \/ \E r \in Requests : BeginLoadRejected(r)
           \/ \E r \in Requests : BeginUnload(r)
           \/ \E r \in Requests : BeginConfig(r)
           \/ \E r \in Requests : BeginShutdown(r)
           \/ \E r \in Requests : UnloadEnds(r)
           \/ \E r \in Requests : ReloadSucceeds(r)
           \/ \E r \in Requests : ReloadFails(r)
           \/ \E r \in Requests : StartEnds(r)
           \/ \E r \in Requests : Saves(r)
           \/ \E i \in Insts : BgEnds(i)
           \/ \E k \in Origin : Toggle(k)
BY DEF Next, RequestStep

\* A task that is registered for an instance has the shape of an entry of the table.
LEMMA TaskTyped ==
    ASSUME TypeOK, NEW i \in Insts, NEW k \in Origin
    PROVE  Task(i, k) \in Entry
BY DEF TypeOK, Task, Entry, Known

\* What a step of a request leaves in its local variables: it moves on to a point
\* where it may load no more, unless it has just begun to close the loaded instance.
Moves(r) == \E new \in Request :
    /\ req' = [req EXCEPT ![r] = new]
    /\ new.at # "idle"
    /\ new.at = "closing" => req[r].at = "idle" /\ loads' = loads
    /\ new.at \in {"closing", "starting"} =>
          new.inst \in Insts /\ new.inst \in {loaded, loads', req[r].inst}

LEMMA RequestMoves ==
    ASSUME LifeInv, NEW r \in Requests,
           \/ BeginLoad(r) \/ BeginLoadFails(r) \/ BeginLoadRejected(r)
           \/ BeginUnload(r) \/ BeginConfig(r) \/ BeginShutdown(r) \/ RequestStep(r)
    PROVE  Moves(r)
<1> USE DEF LifeInv
<1> DEFINE At(a, k) == Point(a, k, NoInst, 0)
<1>1. \A a \in {"done", "saving error", "saving unloaded"},
         k \in {"none", "load", "unload"} : At(a, k) \in Request
  BY InstsAreNumbers DEF Request, Known, Point
<1>2. ASSUME Finish(r)
      PROVE  Moves(r)
  BY <1>1, <1>2 DEF Finish, Step, Moves, Point
<1>3. ASSUME NEW kind \in {"unload", "api unload", "reload", "config", "shutdown"},
             NEW cfg \in Insts, loaded # NoInst, Pops(r, kind, cfg), req[r].at = "idle",
             loads' = loads
      PROVE  Moves(r)
  <2>1. loaded \in Insts
    BY <1>3 DEF TypeOK, Known
  <2>2. Point("closing", kind, loaded, cfg) \in Request
    BY <1>3, <2>1 DEF Request, Known, Point
  <2> QED
    BY <1>3, <2>1, <2>2 DEF Moves, Pops, Step, Point
<1>4. CASE BeginLoad(r)
  <2>1. New \in Insts /\ loads' = New
    BY <1>4, BoundUsed DEF MayLoad, BeginLoad, LoadSucceeds
  <2>2. Point("starting", "load", New, 0) \in Request
    BY <2>1, InstsAreNumbers DEF Request, Known, Point
  <2> QED
    BY <1>4, <2>1, <2>2 DEF BeginLoad, Step, Moves, Point
<1>5. CASE BeginLoadFails(r) \/ BeginLoadRejected(r)
  BY <1>1, <1>5 DEF BeginLoadFails, BeginLoadRejected, Step, Moves, Point
<1>6. CASE BeginUnload(r)
  <2>1. config[loaded] \in Insts
    BY <1>6 DEF BeginUnload, TypeOK, Known
  <2> QED
    BY <1>3, <1>6, <2>1 DEF BeginUnload, KeptConfig, Kinds
<1>7. CASE BeginConfig(r)
  <2>1. saved' \in Insts
    BY <1>7, InstsAreNumbers DEF BeginConfig, TypeOK, Insts
  <2> QED
    BY <1>2, <1>3, <1>7, <2>1 DEF BeginConfig
<1>8. CASE BeginShutdown(r)
  BY <1>2, <1>3, <1>8, InstsAreNumbers DEF BeginShutdown
<1>9. CASE UnloadEnds(r)
  BY <1>1, <1>2, <1>9 DEF UnloadEnds, Step, Moves, Point
<1>10. CASE ReloadSucceeds(r)
  <2>1. New \in Insts /\ loads' = New
    BY <1>10, BoundUsed DEF MayLoad, ReloadSucceeds, Stopped, LoadSucceeds
  <2>2. req[r] \in Request
    BY DEF TypeOK
  <2>3. /\ [req[r] EXCEPT !.at = "starting", !.inst = New] \in Request
        /\ [req[r] EXCEPT !.at = "starting", !.inst = New].at = "starting"
        /\ [req[r] EXCEPT !.at = "starting", !.inst = New].inst = New
    BY <2>1, <2>2 DEF Request, Known
  <2> QED
    BY <1>10, <2>1, <2>3 DEF Moves, ReloadSucceeds, Step
<1>11. CASE ReloadFails(r)
  BY <1>2, <1>11 DEF ReloadFails
<1>12. CASE StartEnds(r)
  <2>1. req[r] \in Request
    BY DEF TypeOK
  <2>2. ASSUME NEW a \in {"saving loaded", "saving error"},
               req' = [req EXCEPT ![r] = [req[r] EXCEPT !.at = a]]
        PROVE  Moves(r)
    <3>1. [req[r] EXCEPT !.at = a] \in Request /\ [req[r] EXCEPT !.at = a].at = a
      BY <2>1, <2>2 DEF Request
    <3> QED
      BY <2>2, <3>1 DEF Moves
  <2> QED
    BY <1>2, <1>12, <2>2 DEF StartEnds, Step
<1>13. CASE Saves(r)
  BY <1>2, <1>13 DEF Saves
<1> QED
  BY <1>4, <1>5, <1>6, <1>7, <1>8, <1>9, <1>10, <1>11, <1>12, <1>13 DEF RequestStep

\* Hence its local variables keep their types.
LEMMA RequestTyped ==
    ASSUME TypeOK, NEW r \in Requests, Moves(r)
    PROVE  req' \in [Requests -> Request]
BY DEF Moves, TypeOK

\* Registering an instance keeps the tables well formed.
LEMMA RegistersTyped ==
    ASSUME TypeOK, NEW i \in Insts, NEW others, others \subseteq Insts \X Origin,
           Registers(i, others)
    PROVE  /\ commands' \in [Origin -> Known]
           /\ listeners' \subseteq Insts \X Origin
           /\ tasks' \in [Origin -> Entry]
           /\ module' \in Known
<1>1. \A k \in Origin : Task(i, k) \in Entry
  BY TaskTyped
<1> QED
  BY <1>1 DEF Registers, Known

\* The types hold after a load that succeeds or fails.
LEMMA TypeLoad ==
    ASSUME LifeInv, NEW r \in Requests,
           BeginLoad(r) \/ BeginLoadFails(r) \/ ReloadSucceeds(r) \/ ReloadFails(r)
    PROVE  TypeOK'
<1> USE DEF LifeInv
<1>0. MayLoad(r)
  BY DEF MayLoad, BeginLoad, BeginLoadFails, ReloadSucceeds, ReloadFails, Stopped
<1>1. New \in Insts
  BY <1>0, BoundUsed
<1>2. \A k \in Origin : Task(New, k) \in Entry
  BY <1>1, TaskTyped
<1>3. CASE BeginLoad(r)
  <2>1. /\ commands' \in [Origin -> Known]
        /\ listeners' \subseteq Insts \X Origin
        /\ tasks' \in [Origin -> Entry]
        /\ module' \in Known
    BY <1>1, <1>3, RegistersTyped DEF BeginLoad, LoadSucceeds, TypeOK
  <2>2. req' \in [Requests -> Request]
    BY <1>3, RequestMoves, RequestTyped
  <2>3. marks' \subseteq Marks
    BY <1>3 DEF BeginLoad, TypeOK, Overlapping, Marks
  <2> QED
    BY <1>1, <1>3, <2>1, <2>2, <2>3 DEF BeginLoad, LoadSucceeds, TypeOK, Known, disk
<1>4. CASE BeginLoadFails(r)
  <2>1. tasks' \in [Origin -> Entry]
    BY <1>2, <1>4 DEF BeginLoadFails, TypeOK
  <2>2. req' \in [Requests -> Request]
    BY <1>4, RequestMoves, RequestTyped
  <2>3. marks' \subseteq Marks
    BY <1>4 DEF BeginLoadFails, TypeOK, Overlapping, Marks
  <2> QED
    BY <1>1, <1>4, <2>1, <2>2, <2>3 DEF BeginLoadFails, TypeOK, Known, disk
<1>5. CASE ReloadSucceeds(r)
  <2>1. /\ commands' \in [Origin -> Known]
        /\ listeners' \subseteq Insts \X Origin
        /\ tasks' \in [Origin -> Entry]
        /\ module' \in Known
    BY <1>1, <1>5, RegistersTyped DEF ReloadSucceeds, LoadSucceeds, TypeOK
  <2>2. req' \in [Requests -> Request]
    BY <1>5, RequestMoves, RequestTyped DEF RequestStep
  <2>3. marks' \subseteq Marks
    BY <1>5 DEF ReloadSucceeds, TypeOK, Marks
  <2>4. req[r].cfg \in Insts
    BY DEF TypeOK, Request
  <2> QED
    BY <1>1, <1>5, <2>1, <2>2, <2>3, <2>4
    DEF ReloadSucceeds, LoadSucceeds, TypeOK, Known, disk
<1>6. CASE ReloadFails(r)
  <2>0. req[r].inst \in Insts
    BY <1>6 DEF ReloadFails, Stopped, RequestsAreSound
  <2>1. PICK left \in Left : RollsBack(req[r].inst, left)
    BY <1>6 DEF ReloadFails
  <2>2. \A k \in Origin : Task(req[r].inst, k) \in Entry
    BY <2>0, TaskTyped
  <2>3. /\ commands' \in [Origin -> Known]
        /\ listeners' \subseteq Insts \X Origin
        /\ tasks' \in [Origin -> Entry]
        /\ module' \in Known
    BY <1>2, <2>0, <2>1, <2>2 DEF RollsBack, Absent, Entry, Known, Origin
  <2>4. req' \in [Requests -> Request]
    BY <1>6, RequestMoves, RequestTyped DEF RequestStep
  <2>5. marks' \subseteq Marks
    BY <1>6 DEF ReloadFails, TypeOK, Marks
  <2> QED
    BY <1>1, <1>6, <2>0, <2>3, <2>4, <2>5 DEF ReloadFails, TypeOK, Known, disk
<1> QED
  BY <1>3, <1>4, <1>5, <1>6

\* The types hold after every other step.
LEMMA TypeStep ==
    ASSUME LifeInv, Next
    PROVE  TypeOK'
<1> USE DEF LifeInv
<1>1. CASE BootStarts
  BY <1>1 DEF BootStarts, TypeOK, Marks, tables, disk
<1>2. CASE BootSubmits
  <2>1. loaded \in Insts
    BY <1>2 DEF BootSubmits, RequestsAreSound
  <2> QED
    BY <1>2, <2>1 DEF BootSubmits, TypeOK, tables, disk
<1>3. ASSUME NEW r \in Requests, BeginLoadRejected(r)
      PROVE  TypeOK'
  <2>1. req' \in [Requests -> Request]
    BY <1>3, RequestMoves, RequestTyped
  <2>2. marks' \subseteq Marks
    BY <1>3 DEF BeginLoadRejected, TypeOK, Overlapping, Marks
  <2> QED
    BY <1>3, <2>1, <2>2 DEF BeginLoadRejected, TypeOK, tables, disk
<1>4. ASSUME NEW r \in Requests, BeginUnload(r)
      PROVE  TypeOK'
  <2>1. req' \in [Requests -> Request]
    BY <1>4, RequestMoves, RequestTyped
  <2>2. marks' \subseteq Marks
    BY <1>4 DEF BeginUnload, TypeOK, Overlapping, Marks
  <2> QED
    BY <1>4, <2>1, <2>2 DEF BeginUnload, Pops, Cancelled, TypeOK, Known, tables, disk
<1>5. ASSUME NEW r \in Requests, BeginConfig(r)
      PROVE  TypeOK'
  <2>1. saved' \in Insts
    BY <1>5, InstsAreNumbers DEF BeginConfig, TypeOK, Insts
  <2>2. req' \in [Requests -> Request]
    BY <1>5, RequestMoves, RequestTyped
  <2>4. marks' \subseteq Marks
    BY <1>5 DEF BeginConfig, TypeOK, Overlapping, Marks
  <2>3. loaded' \in Known /\ bg' \in [Insts -> {"none", "running", "cancelled", "over"}]
    BY <1>5 DEF BeginConfig, Pops, Cancelled, TypeOK, Known
  <2> QED
    BY <1>5, <2>1, <2>2, <2>3, <2>4 DEF BeginConfig, TypeOK, tables
<1>6. ASSUME NEW r \in Requests, BeginShutdown(r)
      PROVE  TypeOK'
  <2>1. req' \in [Requests -> Request]
    BY <1>6, RequestMoves, RequestTyped
  <2>2. loaded' \in Known /\ bg' \in [Insts -> {"none", "running", "cancelled", "over"}]
    BY <1>6 DEF BeginShutdown, Pops, Cancelled, TypeOK, Known
  <2> QED
    BY <1>6, <2>1, <2>2 DEF BeginShutdown, TypeOK, tables, disk
<1>7. ASSUME NEW r \in Requests, UnloadEnds(r)
      PROVE  TypeOK'
  <2>1. req' \in [Requests -> Request]
    BY <1>7, RequestMoves, RequestTyped DEF RequestStep
  <2>2. tasks' \in [Origin -> Entry]
    BY <1>7 DEF UnloadEnds, Unregisters, Absent, Entry, Known
  <2> QED
    BY <1>7, <2>1, <2>2 DEF UnloadEnds, Unregisters, TypeOK, Known, Marks, disk
<1>8. ASSUME NEW r \in Requests, StartEnds(r)
      PROVE  TypeOK'
  <2>1. req' \in [Requests -> Request]
    BY <1>8, RequestMoves, RequestTyped DEF RequestStep
  <2>2. marks' \subseteq Marks
    BY <1>8 DEF StartEnds, TypeOK, Marks
  <2> QED
    BY <1>8, <2>1, <2>2 DEF StartEnds, TypeOK, tables, disk
<1>9. ASSUME NEW r \in Requests, Saves(r)
      PROVE  TypeOK'
  <2>1. req' \in [Requests -> Request]
    BY <1>9, RequestMoves, RequestTyped DEF RequestStep
  <2>2. /\ enabled' \in BOOLEAN
        /\ row' \in {"none", "loaded", "unloaded", "error"}
        /\ marks' \subseteq Marks
    BY <1>9 DEF Saves, TypeOK
  <2> QED
    BY <1>9, <2>1, <2>2 DEF Saves, TypeOK, tables
<1>10. ASSUME NEW i \in Insts, BgEnds(i)
       PROVE  TypeOK'
  BY <1>10 DEF BgEnds, TypeOK, tables, disk
<1>11. ASSUME NEW k \in Origin, Toggle(k)
       PROVE  TypeOK'
  <2>1. tasks' \in [Origin -> Entry] /\ stored' \in [Origin -> {"unset", "on", "off"}]
    BY <1>11 DEF Toggle, TypeOK, Entry
  <2> QED
    BY <1>11, <2>1 DEF Toggle, TypeOK
<1> QED
  BY NextCases, TypeLoad, <1>1, <1>2, <1>3, <1>4, <1>5, <1>6, <1>7, <1>8, <1>9, <1>10, <1>11

\* A step either leaves the numbers alone or takes one for a request that may load.
LEMMA BoundStep ==
    ASSUME LifeInv, Next
    PROVE  LoadsBound'
<1> USE DEF LifeInv
<1>1. ASSUME NEW r \in Requests,
             BeginLoad(r) \/ BeginLoadFails(r) \/ ReloadSucceeds(r) \/ ReloadFails(r)
      PROVE  LoadsBound'
  <2>1. MayLoad(r)
    BY <1>1 DEF MayLoad, BeginLoad, BeginLoadFails, ReloadSucceeds, ReloadFails, Stopped
  <2>2. loads' = New
    BY <1>1 DEF BeginLoad, BeginLoadFails, ReloadSucceeds, ReloadFails, LoadSucceeds
  <2>3. Moves(r)
    BY <1>1, RequestMoves DEF RequestStep
  <2>4. req'[r].at \notin {"idle", "closing"}
    BY <2>2, <2>3, InstsAreNumbers DEF Moves, New, TypeOK
  <2>5. \A s \in Requests : MayLoad(s)' => MayLoad(s)
    BY <2>1, <2>3 DEF Moves, MayLoad, TypeOK
  <2> QED
    BY <2>1, <2>2, <2>4, <2>5, BoundUsed DEF MayLoad
<1>2. ASSUME NEW r \in Requests, loads' = loads, Moves(r)
      PROVE  LoadsBound'
  <2>1. \A s \in Requests : MayLoad(s)' => MayLoad(s)
    BY <1>2 DEF Moves, MayLoad, TypeOK
  <2> QED
    BY <1>2, <2>1, BoundKept
<1>3. ASSUME NEW r \in Requests,
             \/ BeginLoadRejected(r) \/ BeginUnload(r) \/ BeginConfig(r)
             \/ BeginShutdown(r) \/ UnloadEnds(r) \/ StartEnds(r) \/ Saves(r)
      PROVE  LoadsBound'
  <2>1. Moves(r)
    BY <1>3, RequestMoves DEF RequestStep
  <2>2. loads' = loads
    BY <1>3 DEF BeginLoadRejected, BeginUnload, BeginConfig, BeginShutdown, UnloadEnds,
                StartEnds, Saves
  <2> QED
    BY <1>2, <2>1, <2>2
<1>4. ASSUME loads' = loads, req' = req
      PROVE  LoadsBound'
  BY <1>4, BoundKept DEF MayLoad
<1> QED
  BY NextCases, <1>1, <1>3, <1>4 DEF BootStarts, BootSubmits, BgEnds, Toggle

\* What requests close or start stays an instance.
LEMMA SoundStep ==
    ASSUME LifeInv, Next
    PROVE  RequestsAreSound'
<1> USE DEF LifeInv
<1>1. ASSUME NEW r \in Requests,
             \/ BeginLoad(r) \/ BeginLoadFails(r) \/ BeginLoadRejected(r)
             \/ BeginUnload(r) \/ BeginConfig(r) \/ BeginShutdown(r) \/ RequestStep(r)
      PROVE  RequestsAreSound'
  <2>1. Moves(r)
    BY <1>1, RequestMoves
  <2>2. phase = "up" \/ req[r].at # "idle"
    BY <1>1 DEF BeginLoad, BeginLoadFails, BeginLoadRejected, BeginUnload, BeginConfig,
                BeginShutdown, RequestStep, UnloadEnds, ReloadSucceeds, ReloadFails,
                StartEnds, Saves, Stopped
  <2>3. phase' \in {phase, "down"}
    BY <1>1 DEF BeginLoad, BeginLoadFails, BeginLoadRejected, BeginUnload, BeginConfig,
                BeginShutdown, RequestStep, UnloadEnds, ReloadSucceeds, ReloadFails,
                StartEnds, Saves
  <2> QED
    BY <2>1, <2>2, <2>3 DEF RequestsAreSound, Moves, TypeOK
<1>2. ASSUME BootStarts \/ BootSubmits \/ (\E i \in Insts : BgEnds(i))
                \/ (\E k \in Origin : Toggle(k))
      PROVE  RequestsAreSound'
  BY <1>2 DEF RequestsAreSound, BootStarts, BootSubmits, BgEnds, Toggle
<1> QED
  BY NextCases, <1>1, <1>2 DEF RequestStep

\* A handler keeps an owner that is loaded or being closed.
Accounted(i) == loaded = i \/ \E r \in Requests : req[r].at = "closing" /\ req[r].inst = i
Handles(i)   == \E k \in Origin : commands[k] = i \/ <<i, k>> \in listeners

LEMMA HandlersStep ==
    ASSUME LifeInv, HandlersAreAccounted, Next
    PROVE  HandlersAreAccounted'
<1> USE DEF LifeInv
<1>0. SUFFICES ASSUME "twice" \notin marks', NEW i \in Insts, Handles(i)'
               PROVE  Accounted(i)'
  BY DEF HandlersAreAccounted, Handles, Accounted
<1>1. ASSUME "twice" \notin marks, Handles(i)
      PROVE  Accounted(i)
  BY <1>1 DEF HandlersAreAccounted, Handles, Accounted
<1>2. ASSUME UNCHANGED <<loaded, commands, listeners, req>>, "twice" \notin marks
      PROVE  Accounted(i)'
  BY <1>0, <1>1, <1>2 DEF Handles, Accounted
<1>3. ASSUME NEW r \in Requests, LoadSucceeds(req[r].cfg, {}) \/ ReloadFails(r)
      PROVE  Accounted(i)'
  <2>1. \A k \in Origin : commands'[k] \in {loaded', NoInst}
    <3>1. CASE LoadSucceeds(req[r].cfg, {})
      BY <3>1 DEF LoadSucceeds, Registers
    <3>2. CASE ReloadFails(r)
      <4>1. /\ loaded' = req[r].inst
            /\ commands' = [k \in Origin |-> IF k = "decl" THEN req[r].inst ELSE NoInst]
        BY <3>2 DEF ReloadFails, RollsBack
      <4> QED BY <4>1
    <3> QED BY <1>3, <3>1, <3>2
  <2>2. \A k \in Origin : <<i, k>> \in listeners' => i = loaded'
    <3>1. CASE LoadSucceeds(req[r].cfg, {})
      BY <3>1 DEF LoadSucceeds, Registers
    <3>2. CASE ReloadFails(r)
      BY <3>2 DEF ReloadFails, RollsBack
    <3> QED
      BY <1>3, <3>1, <3>2
  <2>3. i # NoInst
    BY InstsAreNumbers, LifecycleAssumption
  <2> QED
    BY <1>0, <2>1, <2>2, <2>3 DEF Handles, Accounted
<1>4. ASSUME NEW r \in Requests, BeginLoad(r)
      PROVE  Accounted(i)'
  <2>1. loaded = NoInst /\ "twice" \notin marks
    BY <1>0, <1>4 DEF BeginLoad
  <2>2. CASE i = New
    BY <1>4, <2>2 DEF BeginLoad, LoadSucceeds, Accounted
  <2>3. CASE i # New
    <3>1. Handles(i)
      BY <1>0, <1>4, <2>3 DEF BeginLoad, LoadSucceeds, Registers, Handles
    <3>2. PICK s \in Requests : req[s].at = "closing" /\ req[s].inst = i
      BY <1>1, <2>1, <3>1, InstsAreNumbers, LifecycleAssumption DEF Accounted
    <3>3. req'[s] = req[s]
      BY <1>4, <3>2 DEF BeginLoad, Step, TypeOK
    <3> QED
      BY <3>2, <3>3 DEF Accounted
  <2> QED
    BY <2>2, <2>3
<1>5. ASSUME NEW r \in Requests, BeginLoadFails(r) \/ UnloadEnds(r)
      PROVE  Accounted(i)'
  <2>1. i # NoInst
    BY InstsAreNumbers, LifecycleAssumption
  <2> QED
    BY <1>0, <1>5, <2>1 DEF BeginLoadFails, UnloadEnds, Unregisters, Handles
<1>6. ASSUME NEW r \in Requests, BeginUnload(r) \/ BeginConfig(r) \/ BeginShutdown(r)
      PROVE  Accounted(i)'
  <2>1. "twice" \notin marks /\ UNCHANGED <<commands, listeners>> /\ req[r].at = "idle"
    BY <1>0, <1>6 DEF BeginUnload, BeginConfig, BeginShutdown, tables
  <2>2. Accounted(i)
    BY <1>0, <1>1, <2>1 DEF Handles
  <2>3. \A s \in Requests \ {r} : req'[s] = req[s]
    BY <1>6 DEF BeginUnload, BeginConfig, BeginShutdown, Pops, Finish, Step, TypeOK
  <2>4. ASSUME NEW kind, NEW cfg, Pops(r, kind, cfg)
        PROVE  req'[r].at = "closing" /\ req'[r].inst = loaded
    BY <2>4 DEF Pops, Step, Point, TypeOK
  <2>5. loaded' = loaded \/ (req'[r].at = "closing" /\ req'[r].inst = loaded)
    <3>1. CASE BeginUnload(r)
      <4>1. PICK kind \in Kinds : Pops(r, kind, KeptConfig(loaded))
        BY <3>1 DEF BeginUnload
      <4> QED
        BY <4>1, <2>4
    <3>2. CASE BeginConfig(r)
      <4>1. loaded' = loaded \/ Pops(r, "config", saved')
        BY <3>2 DEF BeginConfig
      <4> QED
        BY <4>1, <2>4
    <3>3. CASE BeginShutdown(r)
      <4>1. loaded' = loaded \/ Pops(r, "shutdown", 0)
        BY <3>3 DEF BeginShutdown
      <4> QED
        BY <4>1, <2>4
    <3> QED
      BY <1>6, <3>1, <3>2, <3>3
  <2> QED
    BY <2>1, <2>2, <2>3, <2>5 DEF Accounted
<1>7. ASSUME NEW r \in Requests, BeginLoadRejected(r) \/ StartEnds(r) \/ Saves(r)
      PROVE  Accounted(i)'
  <2>1. /\ "twice" \notin marks /\ UNCHANGED <<loaded, commands, listeners>>
        /\ req[r].at # "closing"
    BY <1>0, <1>7 DEF BeginLoadRejected, StartEnds, Saves, tables
  <2>2. Accounted(i)
    BY <1>0, <1>1, <2>1 DEF Handles
  <2>3. \A s \in Requests \ {r} : req'[s] = req[s]
    BY <1>7 DEF BeginLoadRejected, StartEnds, Saves, Finish, Step, TypeOK
  <2> QED
    BY <2>1, <2>2, <2>3 DEF Accounted
<1>8. ASSUME \/ BootStarts \/ BootSubmits
             \/ (\E j \in Insts : BgEnds(j)) \/ (\E k \in Origin : Toggle(k))
      PROVE  Accounted(i)'
  BY <1>0, <1>2, <1>8 DEF BootStarts, BootSubmits, BgEnds, Toggle, tables
<1> QED
  BY NextCases, <1>3, <1>4, <1>5, <1>6, <1>7, <1>8 DEF ReloadSucceeds

\* The stored choice is consulted by every registration of the declared task, and
\* changed only together with it.
LEMMA OffStep ==
    ASSUME LifeInv, DeclaredOffStaysOff, Next
    PROVE  DeclaredOffStaysOff'
<1> USE DEF LifeInv
<1>1. "decl" \in Origin
  BY DEF Origin
<1>2. \A i : stored["decl"] = "off" => ~Task(i, "decl").on
  BY DEF Task
<1>3. ASSUME stored' = stored,
             \/ tasks'["decl"] = tasks["decl"] \/ tasks'["decl"] = Absent
             \/ \E i : tasks'["decl"] = Task(i, "decl")
      PROVE  DeclaredOffStaysOff'
  BY <1>2, <1>3 DEF DeclaredOffStaysOff, Absent
<1>4. ASSUME NEW i, NEW others, Registers(i, others), stored' = stored
      PROVE  DeclaredOffStaysOff'
  BY <1>1, <1>3, <1>4 DEF Registers
<1>5. ASSUME NEW r \in Requests, BeginLoad(r) \/ ReloadSucceeds(r)
      PROVE  DeclaredOffStaysOff'
  BY <1>4, <1>5 DEF BeginLoad, ReloadSucceeds, LoadSucceeds, disk
<1>6. ASSUME NEW r \in Requests, BeginLoadFails(r) \/ ReloadFails(r)
      PROVE  DeclaredOffStaysOff'
  BY <1>1, <1>3, <1>6 DEF BeginLoadFails, ReloadFails, RollsBack, disk
<1>7. ASSUME NEW r \in Requests, UnloadEnds(r)
      PROVE  DeclaredOffStaysOff'
  BY <1>1, <1>3, <1>7 DEF UnloadEnds, Unregisters, disk
<1>8. ASSUME NEW r \in Requests,
             \/ BeginLoadRejected(r) \/ BeginUnload(r) \/ BeginConfig(r)
             \/ BeginShutdown(r) \/ StartEnds(r) \/ Saves(r)
      PROVE  DeclaredOffStaysOff'
  BY <1>3, <1>8
  DEF BeginLoadRejected, BeginUnload, BeginConfig, BeginShutdown, StartEnds, Saves, tables,
      disk
<1>9. ASSUME BootStarts \/ BootSubmits \/ \E i \in Insts : BgEnds(i)
      PROVE  DeclaredOffStaysOff'
  BY <1>3, <1>9 DEF BootStarts, BootSubmits, BgEnds, tables, disk
<1>10. ASSUME NEW k \in Origin, Toggle(k)
       PROVE  DeclaredOffStaysOff'
  <2>1. CASE k = "decl"
    <3>1. stored'["decl"] = IF tasks'["decl"].on THEN "on" ELSE "off"
      BY <1>10, <2>1 DEF Toggle, TypeOK
    <3> QED
      BY <3>1 DEF DeclaredOffStaysOff
  <2>2. CASE k # "decl"
    <3>1. stored'["decl"] = stored["decl"] /\ tasks'["decl"] = tasks["decl"]
      BY <1>1, <1>10, <2>2 DEF Toggle, TypeOK
    <3> QED
      BY <3>1 DEF DeclaredOffStaysOff
  <2> QED
    BY <2>1, <2>2
<1> QED
  BY NextCases, <1>5, <1>6, <1>7, <1>8, <1>9, <1>10

(***************************************************************************)
(* Requests that take turns.                                               *)
(***************************************************************************)
Turns == marks \cap {"overlap", "twice"} = {}

\* One request is under way at a time.
OneAtATime == \A r, s \in Requests : ~Inactive(r) /\ ~Inactive(s) => r = s

\* Where a request stands tells what it found or left.
Points == \A r \in Requests :
    /\ req[r].at = "closing" => /\ loaded = NoInst
                                /\ req[r].kind \in Kinds \cup {"config", "shutdown"}
                                /\ req[r].kind = "api unload" => "unsaved" \in marks
                                /\ req[r].kind = "shutdown" => phase = "down"
    /\ req[r].at = "starting" => /\ loaded = req[r].inst
                                 /\ req[r].kind \in {"load", "reload", "config"}
    /\ req[r].at = "saving loaded" => loaded # NoInst
    /\ req[r].at = "saving unloaded" => loaded = NoInst

\* Nothing of an instance but x is left, or of no instance at all.
Owned(x) ==
    /\ \A k \in Origin : commands[k] \in {NoInst, x}
    /\ \A i \in Insts, k \in Origin : <<i, k>> \in listeners => i = x
    /\ module \in {NoInst, x}
    /\ \A i \in Insts : (bg[i] = "running" \/ started[i]) => i = x
    /\ "leftover" \notin marks => \A k \in Origin : tasks[k].inst \in {NoInst, x}

\* The instance is the loaded one, or the one that is being closed.
Tidy == /\ (\A r \in Requests : req[r].at # "closing") => Owned(loaded)
        /\ \A r \in Requests : req[r].at = "closing" =>
             Owned(req[r].inst) /\ \A i \in Insts : bg[i] # "running"

\* What is loaded has registered what it should, even before it is started.
Whole == loaded # NoInst /\ "leftover" \notin marks =>
    /\ module = loaded
    /\ \A k \in (IF "rolled back" \in marks THEN {"decl"} ELSE Origin) :
          /\ commands[k] = loaded
          /\ <<loaded, k>> \in listeners
          /\ tasks[k].inst = loaded

\* It has been started, or is about to be.
Begun == (loaded # NoInst /\ phase \in {"started", "up"}
          /\ "rolled back" \notin marks /\ "not started" \notin marks
          /\ \A r \in Requests : req[r].at # "starting")
         => started[loaded]

\* The settings say what is loaded, or will once the request under way has ended.
EnabledRight == phase # "down" /\ "unsaved" \notin marks =>
    /\ (\A r \in Requests : req[r].at \in {"idle", "done", "saving error"}) =>
         enabled = (loaded # NoInst)
    /\ \A r \in Requests :
         req[r].at \in {"closing", "starting"} /\ req[r].kind \in {"reload", "config"}
           => enabled

\* The configuration is the saved one, or the one a reload is to apply.
ConfigRight == phase # "down" =>
    /\ loaded # NoInst /\ "config lost" \notin marks => config[loaded] = saved
    /\ \A r \in Requests : req[r].at = "closing" =>
         /\ req[r].kind = "config" => req[r].cfg = saved
         /\ req[r].kind = "reload" /\ "config lost" \notin marks =>
              req[r].cfg = saved /\ config[req[r].inst] = saved

TurnInv == Turns => /\ OneAtATime /\ Points /\ Tidy /\ Whole /\ Begun
                    /\ EnabledRight /\ ConfigRight

Starts(r) == BeginLoad(r) \/ BeginLoadFails(r) \/ BeginLoadRejected(r)
                \/ BeginUnload(r) \/ BeginConfig(r) \/ BeginShutdown(r)

\* Marks of an overlap stay.
LEMMA TurnsStay == ASSUME Next, Turns' PROVE Turns
BY NextCases DEF Turns, BootStarts, BootSubmits, BeginLoad, BeginLoadFails, BeginLoadRejected,
   BeginUnload, BeginConfig, BeginShutdown, UnloadEnds, ReloadSucceeds, ReloadFails, StartEnds,
   Saves, BgEnds, Toggle

\* A request that takes its turn finds the others idle or done.
LEMMA TakesTurn ==
    ASSUME LifeInv, TurnInv, Turns, Turns', NEW r \in Requests, Starts(r) \/ RequestStep(r)
    PROVE  /\ OneAtATime' /\ Moves(r)
           /\ \A s \in Requests \ {r} : req'[s] = req[s] /\ req[s].at \in {"idle", "done"}
           /\ Starts(r) => \A s \in Requests : req[s].at \in {"idle", "done"}
<1>1. Moves(r)
  BY RequestMoves DEF Starts
<1>2. \A s \in Requests \ {r} : req'[s] = req[s]
  BY <1>1 DEF Moves, LifeInv, TypeOK
<1>3. ASSUME Starts(r) PROVE Quiet
  <2>1. CASE BeginShutdown(r)
    BY <2>1 DEF BeginShutdown
  <2>2. CASE ~BeginShutdown(r)
    <3>1. Overlapping \subseteq marks'
      BY <1>3, <2>2 DEF Starts, BeginLoad, BeginLoadFails, BeginLoadRejected, BeginUnload,
         BeginConfig
    <3> QED BY <3>1 DEF Overlapping, Turns
  <2> QED BY <2>1, <2>2
<1>4. ASSUME RequestStep(r) PROVE ~Inactive(r)
  BY <1>4 DEF RequestStep, UnloadEnds, ReloadSucceeds, ReloadFails, StartEnds, Saves, Stopped,
     Inactive
<1>5. \A s \in Requests \ {r} : Inactive(s)
  BY <1>3, <1>4 DEF Quiet, TurnInv, OneAtATime
<1>6. OneAtATime'
  BY <1>2, <1>5 DEF OneAtATime, Inactive
<1> QED BY <1>1, <1>2, <1>3, <1>5, <1>6 DEF Inactive, Quiet

\* An instance is not the absence of one.
LEMMA InstIsSome == \A i \in Insts : i # NoInst
BY InstsAreNumbers, LifecycleAssumption

LEMMA Rests ==
    ASSUME LifeInv, TurnInv, Turns, NEW r \in Requests,
           OneAtATime', \A s \in Requests : req[s].at \in {"idle", "done"},
           \A s \in Requests : req'[s].at \in {"idle", "done", "saving error"},
           UNCHANGED <<loaded, commands, listeners, tasks, module, bg, started, config, enabled>>,
           saved' = saved \/ loaded = NoInst, phase' \in {phase, "down"},
           marks' \subseteq marks \cup {"overlap"}, marks \subseteq marks'
    PROVE  TurnInv'
<1>1. \A x \in {"leftover", "rolled back", "not started", "unsaved", "config lost"} :
        x \in marks' <=> x \in marks
  OBVIOUS
<1>2. Tidy' /\ Whole'
  BY <1>1 DEF TurnInv, Tidy, Owned, Whole
<1>3. Points'
  BY DEF Points
<1>4. Begun'
  BY <1>1 DEF TurnInv, Begun
<1>5. EnabledRight'
  BY <1>1 DEF TurnInv, EnabledRight
<1>6. ConfigRight'
  BY <1>1 DEF TurnInv, ConfigRight
<1> QED BY <1>2, <1>3, <1>4, <1>5, <1>6 DEF TurnInv

\* The loaded instance is popped.
LEMMA PopsTurn ==
    ASSUME LifeInv, TurnInv, Turns, NEW r \in Requests, NEW kind, NEW cfg,
           OneAtATime', \A s \in Requests : req[s].at \in {"idle", "done"},
           loaded # NoInst, Pops(r, kind, cfg), kind \in Kinds \cup {"config", "shutdown"},
           UNCHANGED <<commands, listeners, tasks, module, started, config, enabled>>,
           phase' \in {phase, "down"}, kind = "shutdown" => phase' = "down",
           marks \subseteq marks', marks' \subseteq marks \cup {"overlap", "unsaved"},
           kind = "api unload" => "unsaved" \in marks',
           saved' = IF kind = "config" THEN cfg ELSE saved,
           kind = "reload" => cfg = config[loaded]
    PROVE  TurnInv'
<1>1. /\ loaded \in Insts /\ loaded' = NoInst
      /\ req'[r].at = "closing" /\ req'[r].kind = kind /\ req'[r].cfg = cfg
      /\ req'[r].inst = loaded
      /\ \A s \in Requests \ {r} : req'[s] = req[s] /\ req'[s].at \in {"idle", "done"}
  BY DEF LifeInv, TypeOK, Known, Pops, Step, Point
<1>2. /\ \A i \in Insts \ {loaded} : bg'[i] = bg[i]
      /\ bg'[loaded] # "running"
  BY <1>1 DEF Pops, Cancelled, LifeInv, TypeOK
<1>3. Owned(loaded)
  BY DEF TurnInv, Tidy
<1>4. \A x \in {"leftover", "rolled back", "not started", "config lost"} :
        x \in marks' <=> x \in marks
  OBVIOUS
<1>5. Points'
  BY <1>1 DEF Points
<1>6. Tidy'
  <2>1. \A i \in Insts : bg'[i] # "running"
    BY <1>2, <1>3 DEF Owned
  <2>2. /\ \A k \in Origin : commands'[k] \in {NoInst, loaded}
        /\ \A i \in Insts, k \in Origin : <<i, k>> \in listeners' => i = loaded
        /\ module' \in {NoInst, loaded}
        /\ \A i \in Insts : (bg'[i] = "running" \/ started'[i]) => i = loaded
        /\ "leftover" \notin marks' => \A k \in Origin : tasks'[k].inst \in {NoInst, loaded}
    BY <1>3, <1>4, <2>1 DEF Owned
  <2> QED BY <1>1, <2>1, <2>2 DEF Tidy, Owned
<1>7. Whole' /\ Begun'
  BY <1>1 DEF Whole, Begun
<1>8. EnabledRight'
  BY <1>1 DEF TurnInv, EnabledRight
<1>9. ConfigRight'
  BY <1>1, <1>4 DEF TurnInv, ConfigRight
<1> QED BY <1>5, <1>6, <1>7, <1>8, <1>9 DEF TurnInv

\* A load finds nothing left, and fills the tables.
LEMMA LoadsTurn ==
    ASSUME LifeInv, TurnInv, Turns, NEW r \in Requests, MayLoad(r), loaded = NoInst,
           OneAtATime', \A s \in Requests \ {r} : req'[s] = req[s] /\ req[s].at \in {"idle", "done"},
           NEW cfg, NEW others, others = {}, LoadSucceeds(cfg, others),
           req'[r].at = "starting", req'[r].inst = New, req'[r].kind \in {"load", "reload", "config"},
           \A i \in Insts : ~started'[i] /\ bg[i] # "running",
           UNCHANGED <<phase, saved, enabled>>,
           phase # "down" /\ "config lost" \notin marks' => cfg = saved,
           phase # "down" /\ "unsaved" \notin marks' /\ req'[r].kind # "load" => enabled,
           "rolled back" \notin marks'
    PROVE  TurnInv'
<1>1. New \in Insts /\ New # NoInst /\ loaded' = New
  BY BoundUsed, InstIsSome DEF LoadSucceeds
<1>2. /\ \A k \in Origin : commands'[k] = New /\ <<New, k>> \in listeners' /\ tasks'[k].inst = New
      /\ \A i \in Insts, k \in Origin : <<i, k>> \in listeners' => i = New
      /\ module' = New
  BY DEF LoadSucceeds, Registers, Task
<1>3. /\ config'[New] = cfg
      /\ \A i \in Insts : bg'[i] = "running" => i = New
  BY <1>1 DEF LoadSucceeds, LifeInv, TypeOK
<1>4. \A s \in Requests : req'[s].at \in {"idle", "done", "starting"}
  OBVIOUS
<1>5. Points'
  BY <1>1 DEF Points
<1>6. Tidy'
  BY <1>1, <1>2, <1>3, <1>4 DEF Tidy, Owned
<1>7. Whole'
  BY <1>1, <1>2 DEF Whole, Origin
<1>8. Begun'
  BY DEF Begun
<1>9. EnabledRight'
  BY DEF EnabledRight
<1>10. ConfigRight'
  BY <1>1, <1>3, <1>4 DEF ConfigRight
<1> QED BY <1>5, <1>6, <1>7, <1>8, <1>9, <1>10 DEF TurnInv

LEMMA StartsTurn ==
    ASSUME LifeInv, TurnInv, Turns', Next, NEW r \in Requests, Starts(r)
    PROVE  TurnInv'
<1>1. Turns
  BY TurnsStay
<1>2. /\ OneAtATime' /\ Moves(r)
      /\ \A s \in Requests \ {r} : req'[s] = req[s] /\ req[s].at \in {"idle", "done"}
      /\ \A s \in Requests : req[s].at \in {"idle", "done"}
  BY <1>1, TakesTurn
<1>3. req[r].at = "idle" /\ phase = "up"
  BY DEF Starts, BeginLoad, BeginLoadFails, BeginLoadRejected, BeginUnload, BeginConfig,
     BeginShutdown
<1>4. Owned(loaded) /\ TypeOK
  BY <1>1, <1>2 DEF TurnInv, Tidy, LifeInv
<1>5. CASE BeginLoad(r)
  <2>1. loaded = NoInst
    BY <1>5 DEF BeginLoad, Turns
  <2>2. \A i \in Insts : i # NoInst /\ bg[i] # "running" /\ ~started[i]
    BY <1>4, <2>1, InstIsSome DEF Owned
  <2>3. listeners = {}
    BY <1>4, <2>1, <2>2 DEF Owned, TypeOK
  <2>4. /\ req'[r].at = "starting" /\ req'[r].inst = New /\ req'[r].kind = "load"
        /\ started' = started
    BY <1>4, <1>5 DEF BeginLoad, Step, Point, TypeOK
  <2>5. MayLoad(r)
    BY <1>3 DEF MayLoad
  <2>6. LoadSucceeds(saved, listeners) /\ UNCHANGED <<phase, saved, enabled>>
        /\ "rolled back" \notin marks'
    BY <1>5 DEF BeginLoad, disk, Overlapping
  <2> QED BY <1>1, <1>2, <2>1, <2>2, <2>3, <2>4, <2>5, <2>6, LoadsTurn
<1>6. CASE BeginLoadFails(r)
  <2>1. loaded = NoInst /\ loaded' = NoInst
    BY <1>6 DEF BeginLoadFails, Turns
  <2>2. \A s \in Requests : req'[s].at \in {"idle", "done", "saving error"}
    BY <1>2, <1>4, <1>6 DEF BeginLoadFails, Step, Point, TypeOK
  <2>3. PICK left \in Left :
          /\ tasks' = [k \in Origin |-> IF k \in left THEN Task(New, k) ELSE tasks[k]]
          /\ marks' = marks \cup Overlapping
                            \cup (IF loaded = NoInst THEN {} ELSE {"twice"})
                            \cup (IF left = {} THEN {} ELSE {"leftover"})
    BY <1>6 DEF BeginLoadFails
  <2>4. /\ marks \subseteq marks' /\ ("leftover" \notin marks' => tasks' = tasks)
    BY <1>4, <2>3 DEF TypeOK
  <2>5. Tidy'
    BY <1>4, <1>6, <2>1, <2>2, <2>4 DEF Tidy, Owned, BeginLoadFails
  <2>6. Whole' /\ Begun' /\ Points'
    BY <2>1, <2>2 DEF Whole, Begun, Points
  <2>7. EnabledRight' /\ ConfigRight'
    BY <1>1, <1>2, <1>6, <2>1, <2>2, <2>4
    DEF TurnInv, EnabledRight, ConfigRight, BeginLoadFails, disk
  <2> QED BY <1>2, <2>5, <2>6, <2>7 DEF TurnInv
<1>7. CASE BeginLoadRejected(r)
  <2>1. \A s \in Requests : req'[s].at \in {"idle", "done", "saving error"}
    BY <1>2, <1>4, <1>7 DEF BeginLoadRejected, Step, Point, TypeOK
  <2> QED BY <1>1, <1>2, <1>7, <2>1, Rests DEF BeginLoadRejected, Overlapping, tables, disk
<1>8. CASE BeginUnload(r)
  <2>1. PICK kind \in Kinds : /\ Pops(r, kind, KeptConfig(loaded))
                              /\ marks' = marks \cup Overlapping \cup
                                   (IF kind = "api unload" THEN {"unsaved"} ELSE {})
    BY <1>8 DEF BeginUnload
  <2>2. Overlapping \subseteq {"overlap"} /\ kind # "shutdown" /\ kind # "config"
    BY DEF Overlapping, Kinds
  <2>3. /\ loaded # NoInst
        /\ UNCHANGED <<commands, listeners, tasks, module, started, config, enabled, phase, saved>>
    BY <1>8 DEF BeginUnload, tables, disk
  <2>4. kind \in Kinds \cup {"config", "shutdown"}
    OBVIOUS
  <2>5. kind = "reload" => KeptConfig(loaded) = config[loaded]
    BY DEF KeptConfig
  <2> DEFINE cfg == KeptConfig(loaded)
  <2>6. /\ Pops(r, kind, cfg) /\ (kind = "reload" => cfg = config[loaded])
        /\ saved' = IF kind = "config" THEN cfg ELSE saved
        /\ marks \subseteq marks' /\ marks' \subseteq marks \cup {"overlap", "unsaved"}
        /\ (kind = "api unload" => "unsaved" \in marks')
        /\ phase' \in {phase, "down"} /\ (kind = "shutdown" => phase' = "down")
    BY <2>1, <2>2, <2>3, <2>5
  <2> HIDE DEF cfg
  <2> QED BY <1>1, <1>2, <2>3, <2>4, <2>6, PopsTurn
<1>9. CASE BeginConfig(r)
  <2>1. /\ UNCHANGED <<commands, listeners, tasks, module, started, config, enabled, phase>>
        /\ marks \subseteq marks' /\ marks' \subseteq marks \cup {"overlap"}
    BY <1>9 DEF BeginConfig, tables, Overlapping
  <2>2. CASE loaded = NoInst
    <3>1. Finish(r) /\ UNCHANGED <<loaded, bg>>
      BY <1>9, <2>2 DEF BeginConfig
    <3>2. \A s \in Requests : req'[s].at \in {"idle", "done", "saving error"}
      BY <1>2, <1>4, <3>1 DEF Finish, Step, Point, TypeOK
    <3> QED BY <1>1, <1>2, <2>1, <2>2, <3>1, <3>2, Rests
  <2>3. CASE loaded # NoInst
    <3>1. Pops(r, "config", saved')
      BY <1>9, <2>3 DEF BeginConfig
    <3> QED BY <1>1, <1>2, <2>1, <2>3, <3>1, PopsTurn
  <2> QED BY <2>2, <2>3
<1>10. CASE BeginShutdown(r)
  <2>1. /\ UNCHANGED <<commands, listeners, tasks, module, started, config, enabled, saved, marks>>
        /\ phase' = "down"
    BY <1>10 DEF BeginShutdown, tables, disk
  <2>2. CASE loaded = NoInst
    <3>1. Finish(r) /\ UNCHANGED <<loaded, bg>>
      BY <1>10, <2>2 DEF BeginShutdown
    <3>2. \A s \in Requests : req'[s].at \in {"idle", "done", "saving error"}
      BY <1>2, <1>4, <3>1 DEF Finish, Step, Point, TypeOK
    <3> QED BY <1>1, <1>2, <2>1, <2>2, <3>1, <3>2, Rests
  <2>3. CASE loaded # NoInst
    <3>1. Pops(r, "shutdown", 0)
      BY <1>10, <2>3 DEF BeginShutdown
    <3> QED BY <1>1, <1>2, <2>1, <2>3, <3>1, PopsTurn
  <2> QED BY <2>2, <2>3
<1> QED BY <1>5, <1>6, <1>7, <1>8, <1>9, <1>10 DEF Starts

\* The request that closes an instance ends, in one way or another.
LEMMA StepsTurn ==
    ASSUME LifeInv, TurnInv, Turns', Next, NEW r \in Requests, RequestStep(r)
    PROVE  TurnInv'
<1>1. Turns
  BY TurnsStay
<1>2. /\ OneAtATime' /\ Moves(r)
      /\ \A s \in Requests \ {r} : req'[s] = req[s] /\ req[s].at \in {"idle", "done"}
  BY <1>1, TakesTurn
<1>3. TypeOK /\ Points /\ Tidy /\ Whole /\ Begun /\ EnabledRight /\ ConfigRight
  BY <1>1 DEF TurnInv, LifeInv
<1>4. ASSUME req[r].at = "closing"
      PROVE  /\ loaded = NoInst /\ req[r].inst \in Insts /\ req[r].inst # NoInst
             /\ Owned(req[r].inst) /\ \A i \in Insts : bg[i] # "running"
             /\ req[r].kind \in Kinds \cup {"config", "shutdown"}
  BY <1>3, <1>4, InstIsSome DEF Points, Tidy, LifeInv, RequestsAreSound
<1>5. \A a, k : req' = [req EXCEPT ![r] = Point(a, k, NoInst, 0)] =>
         req'[r].at = a /\ req'[r].kind = k
  BY <1>3 DEF Point, TypeOK
<1>6. CASE UnloadEnds(r)
  <2>1. req[r].at = "closing" /\ loaded' = NoInst
    BY <1>4, <1>6 DEF UnloadEnds, Stopped
  <2>2. \A s \in Requests : req'[s].at \in {"idle", "done", "saving unloaded"}
    BY <1>2, <1>5, <1>6 DEF UnloadEnds, Finish, Step
  <2>3. \A i \in Insts : ~started'[i] /\ bg'[i] # "running"
    BY <1>3, <1>4, <1>6, <2>1 DEF UnloadEnds, Owned, TypeOK
  <2>4. Tidy'
    BY <1>6, <2>1, <2>2, <2>3 DEF Tidy, Owned, UnloadEnds, Unregisters, Absent
  <2>5. Whole' /\ Begun' /\ Points'
    BY <2>1, <2>2 DEF Whole, Begun, Points
  <2>6. EnabledRight'
    <3> SUFFICES ASSUME phase' # "down", "unsaved" \notin marks'
                 PROVE  ~(\A s \in Requests : req'[s].at \in {"idle", "done", "saving error"})
      BY <2>2 DEF EnabledRight
    <3>1. phase # "down" /\ "unsaved" \notin marks
      BY <1>6 DEF UnloadEnds
    <3>2. req[r].kind = "unload"
      BY <1>3, <1>6, <2>1, <3>1 DEF UnloadEnds, Points
    <3>3. req'[r].at = "saving unloaded"
      BY <1>5, <1>6, <3>2 DEF UnloadEnds, Step
    <3> QED BY <3>3
  <2>7. ConfigRight'
    BY <2>1, <2>2 DEF ConfigRight
  <2> QED BY <1>2, <2>4, <2>5, <2>6, <2>7 DEF TurnInv
<1>7. CASE ReloadSucceeds(r)
  <2>1. /\ req[r].at = "closing" /\ req[r].kind \in {"reload", "config"}
        /\ LoadSucceeds(req[r].cfg, {}) /\ UNCHANGED <<phase, saved, enabled>>
        /\ "rolled back" \notin marks' /\ loaded = NoInst
        /\ \A x \in {"config lost", "unsaved"} : x \in marks' <=> x \in marks
    BY <1>4, <1>7 DEF ReloadSucceeds, Stopped, disk
  <2>2. req'[r].at = "starting" /\ req'[r].inst = New /\ req'[r].kind = req[r].kind
    BY <1>3, <1>7 DEF ReloadSucceeds, Step, TypeOK, Request
  <2>3. \A i \in Insts : ~started'[i] /\ bg[i] # "running"
    BY <1>3, <1>4, <1>7, <2>1 DEF ReloadSucceeds, Owned, TypeOK
  <2>4. MayLoad(r)
    BY <2>1 DEF MayLoad
  <2>5. phase # "down" /\ "config lost" \notin marks' => req[r].cfg = saved
    BY <1>3, <2>1 DEF ConfigRight
  <2>6. phase # "down" /\ "unsaved" \notin marks' => enabled
    BY <1>3, <2>1 DEF EnabledRight
  <2> DEFINE cfg == req[r].cfg
  <2>7. LoadSucceeds(cfg, {}) /\ (phase # "down" /\ "config lost" \notin marks' => cfg = saved)
    BY <2>1, <2>5
  <2> HIDE DEF cfg
  <2> QED BY <1>1, <1>2, <2>1, <2>2, <2>3, <2>4, <2>6, <2>7, LoadsTurn
<1>8. CASE ReloadFails(r)
  <2> DEFINE i == req[r].inst
  <2>1. /\ req[r].at = "closing" /\ req[r].kind \in {"reload", "config"} /\ loaded' = i
        /\ i \in Insts /\ i # NoInst
        /\ UNCHANGED <<phase, config, saved, enabled>>
    BY <1>4, <1>8 DEF ReloadFails, Stopped, disk
  <2>2. PICK left \in Left :
          /\ RollsBack(i, left)
          /\ marks' = ((marks \ {"leftover", "not started"}) \cup {"rolled back"})
                         \cup (IF "dyn" \in left THEN {"leftover"} ELSE {})
                         \cup (IF req[r].kind = "config" THEN {"config lost"} ELSE {})
                         \cup (IF loaded = NoInst THEN {} ELSE {"twice"})
    BY <1>8 DEF ReloadFails
  <2>3. \A s \in Requests : req'[s].at \in {"idle", "done"}
    BY <1>2, <1>5, <1>8 DEF ReloadFails, Finish, Step
  <2>4. \A j \in Insts : (bg'[j] = "running" \/ started'[j]) => j = i
    BY <1>3, <1>4, <1>8, <2>1 DEF ReloadFails, Owned, TypeOK
  <2>5. /\ "rolled back" \in marks'
        /\ ("leftover" \notin marks' => "dyn" \notin left)
        /\ ("unsaved" \in marks' <=> "unsaved" \in marks)
        /\ ("config lost" \notin marks' => "config lost" \notin marks /\ req[r].kind = "reload")
    BY <2>1, <2>2
  <2>6. /\ commands'["decl"] = i /\ commands'["dyn"] = NoInst /\ listeners' = {<<i, "decl">>}
        /\ tasks'["decl"].inst = i /\ module' = i
        /\ ("dyn" \notin left => tasks'["dyn"].inst = NoInst)
    BY <2>2 DEF RollsBack, Task, Absent, Origin
  <2> HIDE DEF i
  <2>7. Tidy'
    BY <2>1, <2>3, <2>4, <2>5, <2>6 DEF Tidy, Owned, Origin
  <2>8. Whole'
    BY <2>1, <2>5, <2>6 DEF Whole
  <2>9. Begun' /\ Points'
    BY <2>3, <2>5 DEF Begun, Points
  <2>10. EnabledRight'
    BY <1>3, <2>1, <2>3, <2>5 DEF EnabledRight
  <2>11. ConfigRight'
    BY <1>3, <2>1, <2>3, <2>5 DEF ConfigRight, i
  <2> QED BY <1>2, <2>7, <2>8, <2>9, <2>10, <2>11 DEF TurnInv
<1>9. CASE StartEnds(r)
  <2>1. /\ req[r].at = "starting" /\ loaded = req[r].inst /\ req[r].inst \in Insts
        /\ loaded # NoInst /\ req[r].kind \in {"load", "reload", "config"}
        /\ UNCHANGED <<phase, loaded, commands, listeners, tasks, module, bg, config, saved, enabled>>
    BY <1>3, <1>9, InstIsSome DEF StartEnds, Points, LifeInv, RequestsAreSound, tables, disk
  <2>2. PICK ok \in BOOLEAN :
          /\ started' = [started EXCEPT ![req[r].inst] = ok]
          /\ marks' = marks \cup (IF ok THEN {} ELSE {"not started"}) \cup
                              (IF ok \/ req[r].kind # "load" THEN {} ELSE {"unsaved"})
          /\ IF req[r].kind = "load"
             THEN Step(r, [req[r] EXCEPT !.at = IF ok THEN "saving loaded"
                                                       ELSE "saving error"])
             ELSE Finish(r)
    BY <1>9 DEF StartEnds
  <2>3. req'[r].at = IF req[r].kind = "load" THEN IF ok THEN "saving loaded" ELSE "saving error"
                     ELSE "done"
    BY <1>3, <1>5, <2>2 DEF Finish, Step, TypeOK, Request
  <2>4. /\ \A x \in {"leftover", "rolled back", "config lost"} : x \in marks' <=> x \in marks
        /\ marks \subseteq marks'
        /\ ("not started" \notin marks' => ok)
        /\ ("unsaved" \notin marks' /\ req[r].kind = "load" => ok)
    BY <2>2
  <2>5. started'[loaded] = ok /\ \A j \in Insts \ {loaded} : started'[j] = started[j]
    BY <1>3, <2>1, <2>2 DEF TypeOK
  <2>6. \A s \in Requests : req[s].at # "closing" /\ req'[s].at # "closing"
    BY <1>2, <2>1, <2>3
  <2>7. Tidy' /\ Whole'
    BY <1>3, <2>1, <2>4, <2>5, <2>6 DEF Tidy, Owned, Whole
  <2>8. Begun'
    BY <2>1, <2>4, <2>5 DEF Begun
  <2>9. Points'
    BY <1>2, <2>1, <2>3 DEF Points
  <2>10. EnabledRight'
    <3> SUFFICES ASSUME phase # "down", "unsaved" \notin marks'
        PROVE /\ (\A s \in Requests : req'[s].at \in {"idle", "done", "saving error"}) => enabled
              /\ \A s \in Requests : req'[s].at \notin {"closing", "starting"}
      BY <2>1 DEF EnabledRight
    <3>1. req[r].kind = "load" => req'[r].at = "saving loaded"
      BY <2>3, <2>4
    <3>2. req[r].kind # "load" => enabled
      BY <1>3, <2>1, <2>4 DEF EnabledRight
    <3> QED BY <1>2, <2>3, <3>1, <3>2
  <2>11. ConfigRight'
    BY <1>3, <2>1, <2>4, <2>6 DEF ConfigRight
  <2> QED BY <1>2, <2>7, <2>8, <2>9, <2>10, <2>11 DEF TurnInv
<1>10. CASE Saves(r)
  <2>1. /\ req[r].at \in {"saving loaded", "saving unloaded", "saving error"}
        /\ UNCHANGED <<phase, loaded, commands, listeners, tasks, module, bg, started, config, saved>>
    BY <1>10 DEF Saves, tables
  <2>2. \A s \in Requests : req'[s].at \in {"idle", "done"}
    BY <1>2, <1>5, <1>10 DEF Saves, Finish, Step
  <2>3. /\ \A x \in {"leftover", "rolled back", "not started", "config lost"} :
             x \in marks' <=> x \in marks
        /\ req[r].at = "saving error" => marks' = marks /\ enabled' = enabled
    BY <1>10 DEF Saves
  <2>4. Tidy' /\ Whole'
    BY <1>2, <1>3, <2>1, <2>2, <2>3 DEF Tidy, Owned, Whole
  <2>5. Begun' /\ Points'
    BY <1>2, <1>3, <2>1, <2>2, <2>3 DEF Begun, Points
  <2>6. EnabledRight'
    <3> SUFFICES ASSUME phase # "down", "unsaved" \notin marks' PROVE enabled' = (loaded # NoInst)
      BY <2>1, <2>2 DEF EnabledRight
    <3>1. CASE req[r].at = "saving error"
      <4>1. \A s \in Requests : req[s].at \in {"idle", "done", "saving error"}
        BY <1>2, <3>1
      <4> QED BY <1>3, <2>3, <3>1, <4>1 DEF EnabledRight
    <3>2. CASE req[r].at = "saving loaded"
      BY <1>3, <1>10, <3>2 DEF Points, Saves
    <3>3. CASE req[r].at = "saving unloaded"
      BY <1>3, <1>10, <3>3 DEF Points, Saves
    <3> QED BY <2>1, <3>1, <3>2, <3>3
  <2>7. ConfigRight'
    BY <1>3, <2>1, <2>2, <2>3 DEF ConfigRight
  <2> QED BY <1>2, <2>4, <2>5, <2>6, <2>7 DEF TurnInv
<1> QED BY <1>6, <1>7, <1>8, <1>9, <1>10 DEF RequestStep

\* The boot, the end of a background task, the task page.
LEMMA OthersTurn ==
    ASSUME LifeInv, TurnInv, Turns', Next,
           \/ BootStarts \/ BootSubmits
           \/ (\E i \in Insts : BgEnds(i)) \/ (\E k \in Origin : Toggle(k))
    PROVE  TurnInv'
<1>1. Turns
  BY TurnsStay
<1>2. /\ TypeOK /\ OneAtATime /\ Points /\ Tidy /\ Whole /\ Begun /\ EnabledRight /\ ConfigRight
  BY <1>1 DEF TurnInv, LifeInv
<1> DEFINE Same == /\ UNCHANGED <<loaded, commands, listeners, module, config, saved, enabled, req>>
                   /\ \A k \in Origin : tasks'[k].inst = tasks[k].inst
                   /\ \A i \in Insts : bg'[i] = "running" => bg[i] = "running"
<1>3. Same
  <2>1. CASE BootStarts \/ BootSubmits
    BY <2>1 DEF BootStarts, BootSubmits, tables, disk
  <2>2. ASSUME NEW i \in Insts, BgEnds(i) PROVE Same
    BY <1>2, <2>2 DEF BgEnds, tables, disk, TypeOK
  <2>3. ASSUME NEW k \in Origin, Toggle(k) PROVE Same
    BY <1>2, <2>3 DEF Toggle, TypeOK, Entry
  <2> QED BY <2>1, <2>2, <2>3
<1>4. OneAtATime'
  BY <1>2, <1>3 DEF OneAtATime, Inactive
<1>5. /\ marks \subseteq marks' /\ marks' \subseteq marks \cup {"not started"}
      /\ phase' = phase \/ (phase = "started" /\ phase' = "up")
           \/ (phase = "loaded" /\ phase' = "started")
  BY DEF BootStarts, BootSubmits, BgEnds, Toggle
<1>6. /\ \A i \in Insts : started'[i] => started[i] \/ i = loaded
      /\ phase = "loaded" /\ phase' = "started" /\ "not started" \notin marks' => started'[loaded]
      /\ phase # "loaded" \/ phase' # "started" => started' = started
  <2>1. CASE BootStarts
    <3>1. loaded \in Insts /\ phase = "loaded" /\ phase' = "started"
      BY <2>1 DEF BootStarts, LifeInv, RequestsAreSound
    <3>2. PICK ok \in BOOLEAN : /\ started' = [started EXCEPT ![loaded] = ok]
                                /\ marks' = IF ok THEN marks ELSE marks \cup {"not started"}
      BY <2>1 DEF BootStarts
    <3> QED BY <1>2, <3>1, <3>2 DEF TypeOK
  <2>2. CASE ~BootStarts
    BY <2>2 DEF BootSubmits, BgEnds, Toggle
  <2> QED BY <2>1, <2>2
<1>7. Points'
  BY <1>2, <1>3, <1>5 DEF Points
<1>8. \A r \in Requests : req[r].at = "closing" => started' = started
  <2>1. phase = "loaded" => \A r \in Requests : req[r].at = "idle"
    BY DEF LifeInv, RequestsAreSound
  <2> QED BY <1>6, <2>1
<1>9. Tidy'
  <2>1. \A x : Owned(x) /\ (started' = started \/ x = loaded) => Owned(x)'
    BY <1>3, <1>5, <1>6 DEF Owned
  <2> QED BY <1>2, <1>3, <1>8, <2>1 DEF Tidy
<1>10. Whole'
  BY <1>2, <1>3, <1>5 DEF Whole, Origin
<1>11. Begun'
  BY <1>2, <1>3, <1>5, <1>6 DEF Begun
<1>12. EnabledRight' /\ ConfigRight'
  BY <1>2, <1>3, <1>5 DEF EnabledRight, ConfigRight
<1> QED BY <1>4, <1>7, <1>9, <1>10, <1>11, <1>12 DEF TurnInv

LEMMA TurnStep == ASSUME LifeInv, TurnInv, Next PROVE TurnInv'
<1> SUFFICES ASSUME Turns' PROVE TurnInv'
  BY DEF TurnInv
<1> QED BY StartsTurn, StepsTurn, OthersTurn DEF Next, Starts

(***************************************************************************)
(* The theorems.                                                           *)
(***************************************************************************)
Proved == LifeInv /\ HandlersAreAccounted /\ DeclaredOffStaysOff /\ TurnInv

LEMMA ProvedInit == ASSUME Init PROVE Proved
<1>1. TypeOK
  <2>1. \A k \in Origin : Task(0, k) \in Entry
    BY InstsAreNumbers DEF Task, Entry, Known
  <2>2. Idle \in Request
    BY InstsAreNumbers DEF Idle, Point, Request, Known
  <2> QED
    BY <2>1, <2>2, InstsAreNumbers DEF Init, TypeOK, Known
<1>2. LoadsBound
  <2>1. {r \in Requests : MayLoad(r)} = Requests
    BY DEF Init, MayLoad, Idle, Point
  <2>2. loads = 0
    BY DEF Init
  <2>3. Cardinality({r \in Requests : MayLoad(r)}) = Cardinality(Requests)
    BY <2>1
  <2>4. 0 + Cardinality(Requests) <= Cardinality(Requests)
    BY InstsAreNumbers
  <2> QED
    BY <2>2, <2>3, <2>4 DEF LoadsBound
<1>3. RequestsAreSound
  BY InstsAreNumbers DEF Init, RequestsAreSound, Idle, Point
<1>4. HandlersAreAccounted
  BY DEF Init, HandlersAreAccounted
<1>5. DeclaredOffStaysOff
  BY DEF Init, DeclaredOffStaysOff, Task, Origin
<1>6. TurnInv
  <2>1. /\ phase = "loaded" /\ loaded = 0 /\ 0 \in Insts /\ 0 # NoInst
        /\ commands = [k \in Origin |-> 0] /\ listeners = {0} \X Origin /\ module = 0
        /\ tasks = [k \in Origin |-> Task(0, k)]
        /\ bg = [i \in Insts |-> IF i = 0 THEN "running" ELSE "none"]
        /\ started = [i \in Insts |-> FALSE] /\ config = [i \in Insts |-> 0] /\ saved = 0
        /\ enabled = TRUE
    BY InstsAreNumbers, InstIsSome DEF Init
  <2>2. \A r \in Requests : req[r].at = "idle"
    BY DEF Init, Idle, Point
  <2>3. \A k \in Origin : tasks[k].inst = 0
    BY <2>1 DEF Task
  <2>4. OneAtATime /\ Points /\ Begun
    BY <2>1, <2>2 DEF OneAtATime, Inactive, Points, Begun
  <2>5. Tidy /\ Whole
    BY <2>1, <2>2, <2>3 DEF Tidy, Owned, Whole, Origin
  <2>6. EnabledRight /\ ConfigRight
    BY <2>1, <2>2 DEF EnabledRight, ConfigRight
  <2> QED
    BY <2>4, <2>5, <2>6 DEF TurnInv
<1> QED
  BY <1>1, <1>2, <1>3, <1>4, <1>5, <1>6 DEF Proved, LifeInv

LEMMA ProvedNext == ASSUME Proved, [Next]_vars PROVE Proved'
<1>1. CASE Next
  BY <1>1, TypeStep, BoundStep, SoundStep, HandlersStep, OffStep, TurnStep DEF Proved, LifeInv
<1>2. CASE UNCHANGED vars
  <2>1. LifeInv'
    BY <1>2 DEF vars, Proved, LifeInv, TypeOK, LoadsBound, MayLoad, RequestsAreSound
  <2>2. HandlersAreAccounted' /\ DeclaredOffStaysOff'
    BY <1>2 DEF vars, Proved, HandlersAreAccounted, DeclaredOffStaysOff
  <2>3. /\ OneAtATime' <=> OneAtATime
        /\ Points' <=> Points
        /\ Tidy' <=> Tidy
        /\ Turns' <=> Turns
    BY <1>2 DEF vars, Turns, OneAtATime, Inactive, Points, Tidy, Owned
  <2>4. /\ Whole' <=> Whole
        /\ Begun' <=> Begun
        /\ EnabledRight' <=> EnabledRight
        /\ ConfigRight' <=> ConfigRight
    BY <1>2 DEF vars, Whole, Begun, EnabledRight, ConfigRight
  <2>5. TurnInv'
    BY <2>3, <2>4 DEF Proved, TurnInv
  <2> QED
    BY <2>1, <2>2, <2>5 DEF Proved
<1> QED
  BY <1>1, <1>2

\* The inductive invariant holds in every reachable state.
THEOREM LifecycleInvariant == Spec => []Proved
BY ProvedInit, ProvedNext, PTL DEF Spec

\* Every state of the lifecycle is well formed; above all, there is a fresh instance
\* for every load, so that no two loads are taken for the same one.
THEOREM TypeCorrect == Spec => []TypeOK
BY LifecycleInvariant, PTL DEF Proved, LifeInv

\* However many requests overlap, as long as none loads over a loaded plugin, every
\* registered command and listener belongs to the instance that is loaded or to one
\* that is being closed.
THEOREM NoStrayHandler == Spec => []HandlersAreAccounted
BY LifecycleInvariant, PTL DEF Proved

\* A declared task that was turned off is never on again before it is turned on.
THEOREM OffIsKept == Spec => []DeclaredOffStaysOff
BY LifecycleInvariant, PTL DEF Proved

\* Requests that take turns leave the plugin whole, with everything registered for the
\* loaded instance, or gone, with nothing left of any.
THEOREM TurnsLeaveItWhole == Spec => []WholeOrGone
<1>1. Proved => WholeOrGone
  <2> SUFFICES ASSUME Proved, InTurn PROVE WholeOrGone
    BY DEF WholeOrGone, LoadedIsWhole, NothingLeft
  <2>1. /\ Turns /\ TypeOK /\ Tidy /\ Whole /\ Begun
        /\ \A r \in Requests : req[r].at \in {"idle", "done"}
    BY DEF Proved, LifeInv, TurnInv, InTurn, Turns, Quiet, Inactive
  <2>2. Owned(loaded)
    BY <2>1 DEF Tidy
  <2>3. \A e \in listeners : e[1] = loaded
    BY <2>1, <2>2 DEF Owned, TypeOK
  <2>4. NothingLeft
    BY <2>2, <2>3 DEF NothingLeft, Owned
  <2>5. LoadedIsWhole
    BY <2>1 DEF LoadedIsWhole, Whole, Begun
  <2> QED
    BY <2>4, <2>5 DEF WholeOrGone
<1> QED
  BY <1>1, LifecycleInvariant, PTL

\* Requests that take turns leave settings that bring back what is loaded.
THEOREM TurnsKeepSettings == Spec => []SettingsMatch
<1>1. Proved => SettingsMatch
  <2> SUFFICES ASSUME Proved, InTurn, phase = "up" PROVE SettingsMatch
    BY DEF SettingsMatch
  <2>1. /\ EnabledRight /\ ConfigRight
        /\ \A r \in Requests : req[r].at \in {"idle", "done"}
    BY DEF Proved, TurnInv, InTurn, Turns, Quiet, Inactive
  <2> QED
    BY <2>1 DEF SettingsMatch, EnabledRight, ConfigRight
<1> QED
  BY <1>1, LifecycleInvariant, PTL
=============================================================================
