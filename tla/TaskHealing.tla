---------------------------- MODULE TaskHealing ----------------------------
(***************************************************************************)
(* One scheduled task: its row in the tasks table, its job in the          *)
(* scheduler and its run history; the executions that count failures and   *)
(* disable it, the patrol that enables it again (app/runtime.py), and the  *)
(* administrator's requests (web/routers/tasks.py, web/routers/api.py).    *)
(*                                                                         *)
(* Everyone works on a copy: a session reads the row, awaits, and commits  *)
(* the columns that differ from what it read.  params is one JSON column,  *)
(* so a writer of one key writes all of them.  The engine is made with     *)
(* expire_on_commit=False, so an execution keeps its first copy to the end.*)
(***************************************************************************)
EXTENDS Naturals, Sequences, FiniteSets

CONSTANTS Executions,  \* calls of _execute_task() that may overlap
          Requests,    \* requests of administrators
          Threshold,   \* scheduler.auto_disable_after_failures
          MaxCycles,   \* how many self_heal_cycles are kept (9 in the code)
          MaxRuns,     \* bound: executions of a run
          MaxRestarts  \* bound: restarts of the process

ASSUME HealingAssumption ==
    /\ IsFiniteSet(Executions)
    /\ Threshold \in Nat \ {0}
    /\ MaxCycles \in Nat \ {0}
    /\ MaxRuns \in Nat
    /\ MaxRestarts \in Nat

VARIABLES row,      \* the row: [here, on, good, params]
          job,      \* the scheduler holds a job for the task
          history,  \* statuses of its TaskRun rows, oldest first
          exec,     \* each execution: where it stands, its copy
          patrol,   \* auto_reenable_disabled(): where it stands, its copy
          req,      \* each request
          disables, \* automatic disables so far; each one's number is its stamp
          cold,     \* stamps up to this one are older than the cooling time
          edits,    \* texts an administrator has given so far
          offByHand,\* the last switch of an administrator turned the task off
          runs, restarts,  \* counted for the bounds
          marks     \* what the run has seen: see the properties

vars == <<row, job, history, exec, patrol, req, disables, cold, edits, offByHand,
          runs, restarts, marks>>
ghosts == <<edits, offByHand, marks>>
counts == <<runs, restarts>>

(***************************************************************************)
(* The row.  stamp is params["auto_disabled"], 0 when there is none; cycles*)
(* is params["self_heal_cycles"]; error stands for "last_error" and text   *)
(* for what an administrator wrote.  good: the schedule columns hold a     *)
(* schedule that add_cron_job() and add_interval_job() accept.             *)
(***************************************************************************)
Fresh(text) == [stamp |-> 0, cycles |-> <<>>, error |-> FALSE, text |-> text]
Absent      == [here |-> FALSE, on |-> FALSE, good |-> FALSE, params |-> Fresh(0)]
NewRow(on, good, text) == [here |-> TRUE, on |-> on, good |-> good, params |-> Fresh(text)]

Cycle(n) == [disabled |-> n, closed |-> FALSE]
\* Slip: the oldest cycles are kept.
Oldest(s) == IF Len(s) <= MaxCycles THEN s ELSE SubSeq(s, 1, MaxCycles)
\* Slip: one cycle too many.
OneMore(s) == IF Len(s) <= MaxCycles THEN s ELSE SubSeq(s, Len(s) - MaxCycles, Len(s))

Recent(s) == IF Len(s) <= MaxCycles THEN s ELSE SubSeq(s, Len(s) - MaxCycles + 1, Len(s))
Closing(s) == IF s = <<>> THEN s ELSE [s EXCEPT ![Len(s)].closed = TRUE]
Unstamped(p) == [p EXCEPT !.stamp = 0]

\* What a commit leaves: a column is written only when it differs from the copy's.
Committed(copy, new) ==
    [row EXCEPT !.on     = IF new.on = copy.on THEN @ ELSE new.on,
                !.good   = IF new.good = copy.good THEN @ ELSE new.good,
                !.params = IF new.params = copy.params THEN @ ELSE new.params]

Stale(copy) == IF copy = row THEN {} ELSE {"stale"}

Idle == [at |-> "idle", copy |-> Absent]
Asleep == [at |-> "asleep", copy |-> Absent]
Unused == [at |-> "idle", kind |-> "none", copy |-> Absent, new |-> Absent]

\* restore_tasks() at start-up, or a database without the task yet.
Init == /\ \/ row = NewRow(TRUE, TRUE, 1) /\ job = TRUE /\ edits = 1
              /\ history \in {<<>>, <<"failed">>}     \* of an earlier process
           \/ row = Absent /\ job = FALSE /\ edits = 0 /\ history = <<>>
        /\ exec = [e \in Executions |-> Idle]
        /\ patrol = Asleep
        /\ req = [r \in Requests |-> Unused]
        /\ disables = 0 /\ cold = 0
        /\ offByHand = FALSE
        /\ runs = 0 /\ restarts = 0
        /\ marks = {}
-----------------------------------------------------------------------------
(***************************************************************************)
(* _execute_task().  Reading the row and committing status "running" is    *)
(* one step: between the two nothing that matters is read.  It is called by*)
(* the job, one at a time, and by the routes that run a task at once, which*)
(* may overlap with the job and with each other; the model does not tell   *)
(* them apart, since a route may do whatever the job may.                  *)
(***************************************************************************)
ExecutionBegins(e) ==
    /\ exec[e].at = "idle" /\ runs < MaxRuns
    /\ row.here /\ row.on
    /\ exec' = [exec EXCEPT ![e] = [at |-> "sending", copy |-> row]]
    /\ runs' = runs + 1
    /\ UNCHANGED <<row, job, history, patrol, req, disables, cold, restarts, ghosts>>

\* The send returned (sent) or raised.  A row that is gone fails the whole commit.
ExecutionRecords(e, sent) ==
    /\ exec[e].at = "sending"
    /\ LET copy == exec[e].copy
           new(err) == [copy EXCEPT !.params.error = err]
       IN IF ~row.here
          THEN /\ exec' = [exec EXCEPT ![e] = Idle]
               /\ UNCHANGED <<row, history, marks>>
          ELSE \* the same error text again leaves params as they were read
               /\ \E same \in IF ~sent /\ copy.params.error THEN BOOLEAN ELSE {TRUE} :
                    row' = IF same THEN Committed(copy, new(~sent))
                                   ELSE [row EXCEPT !.params = copy.params]
               /\ history' = Append(history, IF sent THEN "succeeded" ELSE "failed")
               /\ marks' = marks \cup Stale(copy)
               /\ exec' = [exec EXCEPT ![e] = IF sent THEN Idle
                              ELSE [at |-> "judging", copy |-> new(TRUE)]]
    /\ UNCHANGED <<job, patrol, req, disables, cold, edits, offByHand, counts>>

FailedInARow(h) ==
    /\ Len(h) >= Threshold
    /\ \A i \in Len(h) - Threshold + 1 .. Len(h) : h[i] = "failed"

Disabled(copy, n) ==
    [copy EXCEPT !.on = FALSE, !.params.stamp = n,
                 !.params.cycles = Recent(Append(@, Cycle(n)))]

\* The latest runs are counted, and the task disabled if enough of them failed in a row.
\* session.get() finds the execution's own object again, which still says enabled.
ExecutionJudges(e) ==
    /\ exec[e].at = "judging"
    /\ exec' = [exec EXCEPT ![e] = Idle]
    /\ IF FailedInARow(history) /\ row.here
       THEN LET copy == exec[e].copy IN
            /\ row' = Committed(copy, Disabled(copy, disables + 1))
            /\ disables' = disables + 1
            /\ marks' = marks \cup Stale(copy)
       ELSE UNCHANGED <<row, disables, marks>>
    /\ UNCHANGED <<job, history, patrol, req, cold, edits, offByHand, counts>>
-----------------------------------------------------------------------------
(***************************************************************************)
(* auto_reenable_disabled(), called by a loop of main.py: the cooling time *)
(* is compared before the rows are read; each row is committed in turn,    *)
(* and the job added after the commit.                                     *)
(***************************************************************************)
Cools == /\ cold < disables
         /\ cold' = cold + 1
         /\ UNCHANGED <<row, job, history, exec, patrol, req, disables, counts, ghosts>>

PatrolReads ==
    /\ patrol.at = "asleep"
    /\ row.here /\ ~row.on
    /\ row.params.stamp \in 1..cold
    /\ patrol' = [at |-> "writing", copy |-> row]
    /\ UNCHANGED <<row, job, history, exec, req, disables, cold, counts, ghosts>>

\* Some other request, or the patrol, is between a commit and what it tells the scheduler.
HalfDone(R) == \E x \in R : req[x].at \in {"written", "undoing"}
Crossing(r) == IF patrol.at = "scheduling" \/ HalfDone(Requests \ {r}) THEN {"crossed"} ELSE {}

Healed(copy) ==
    [copy EXCEPT !.on = TRUE,
                 !.params = [Unstamped(copy.params) EXCEPT !.cycles = Closing(@)]]

PatrolWrites ==
    /\ patrol.at = "writing"
    /\ IF row.here
       THEN /\ row' = Committed(patrol.copy, Healed(patrol.copy))
            /\ patrol' = [patrol EXCEPT !.at = "scheduling"]
            /\ marks' = marks \cup Stale(patrol.copy)
                             \cup (IF HalfDone(Requests) THEN {"crossed"} ELSE {})
       ELSE patrol' = Asleep /\ UNCHANGED <<row, marks>>
    /\ UNCHANGED <<job, history, exec, req, disables, cold, edits, offByHand, counts>>

\* Slip: the task is enabled and nobody tells the scheduler.
PatrolEnds ==
    /\ patrol.at = "scheduling"
    /\ patrol' = Asleep
    /\ UNCHANGED <<row, job, history, exec, req, disables, cold, counts, ghosts>>

\* A schedule that cannot be added fails the patrol, which its loop logs.
PatrolSchedules ==
    /\ patrol.at = "scheduling"
    /\ job' = (job \/ patrol.copy.good)
    /\ patrol' = Asleep
    /\ UNCHANGED <<row, history, exec, req, disables, cold, counts, ghosts>>
-----------------------------------------------------------------------------
(***************************************************************************)
(* Requests: a route reads the row, commits, and then tells the scheduler. *)
(* "enable", "disable" are the bulk route's; "delete" stands for removing  *)
(* one task, several, or one through the API.                              *)
(***************************************************************************)
Kinds == {"toggle", "edit on", "edit off", "enable", "disable", "delete", "api toggle"}

RequestReads(r, k) ==
    /\ req[r].at = "idle" /\ row.here
    /\ req' = [req EXCEPT ![r] = [at |-> "read", kind |-> k, copy |-> row, new |-> row]]
    /\ UNCHANGED <<row, job, history, exec, patrol, disables, cold, counts, ghosts>>

Switched(copy, on) == [copy EXCEPT !.on = on]

\* Slip: the mark of the automatic disable stays when a person enables the task.
ToggledOnly(copy) == Switched(copy, ~copy.on)

\* tasks_toggle() takes the mark of an automatic disable off when it enables.
Toggled(copy) == IF copy.on THEN Switched(copy, FALSE)
                 ELSE [Switched(copy, TRUE) EXCEPT !.params = Unstamped(@)]

\* tasks_edit() replaces params as a whole and takes any cron expression.
Edited(on, good) == NewRow(on, good, edits + 1)

Outcomes(k, copy) ==
    CASE k = "toggle"     -> {Toggled(copy)}
      [] k = "api toggle" -> {Switched(copy, ~copy.on)}
      [] k = "enable"     -> {Switched(copy, TRUE)}
      [] k = "disable"    -> {Switched(copy, FALSE)}
      [] k = "edit on"    -> {Edited(TRUE, g) : g \in BOOLEAN}
      [] k = "edit off"   -> {Edited(FALSE, g) : g \in BOOLEAN}
      [] k = "delete"     -> {Absent}

Noticed(r, copy, new) ==
    LET k == req[r].kind IN
    marks \cup Stale(copy) \cup Crossing(r)
          \cup (IF k = "api toggle" /\ new.on THEN {"api"} ELSE {})
          \cup (IF k \in {"enable", "api toggle"} /\ new.on /\ new.params.stamp # 0
                THEN {"stamp kept"} ELSE {})

\* The request is answered: an error, or nothing left to tell the scheduler.
Answered(r) == req' = [req EXCEPT ![r] = [Unused EXCEPT !.at = "done"]]

RequestWrites(r) ==
    LET copy == req[r].copy
        k    == req[r].kind
    IN
    /\ req[r].at = "read"
    /\ \E new \in Outcomes(k, copy) :
         \/ /\ ~row.here /\ k # "delete" /\ new # copy   \* nothing to update: an error
            /\ Answered(r)
            /\ UNCHANGED <<row, edits, offByHand, marks>>
         \/ /\ row.here \/ k = "delete" \/ new = copy
            /\ row' = IF k = "delete" THEN Absent ELSE Committed(copy, new)
            /\ edits' = IF k \in {"edit on", "edit off"} THEN edits + 1 ELSE edits
            /\ offByHand' = IF row'.on = row.on THEN offByHand ELSE row.on
            /\ marks' = Noticed(r, copy, new)
            /\ req' = [req EXCEPT ![r].new = new,
                           ![r].at = IF k = "api toggle" THEN "done" ELSE "written"]
    /\ UNCHANGED <<job, history, exec, patrol, disables, cold, counts>>

\* What a route does when the scheduler refuses: tasks_edit() has removed the old job
\* before it tries, and add_cron_job() parses before it removes.
JobRefused(k) == job /\ k \notin {"edit on", "edit off"}

RequestSchedules(r) ==
    LET k   == req[r].kind
        new == req[r].new
    IN
    /\ req[r].at = "written"
    /\ \/ /\ ~new.on                                     \* toggled, edited, disabled, deleted
          /\ job' = FALSE
          /\ Answered(r)
       \/ /\ new.on /\ k = "enable" /\ ~row.here         \* the bulk route looks again
          /\ Answered(r)
          /\ UNCHANGED job
       \/ /\ new.on /\ new.good /\ (k = "enable" => row.here)
          /\ job' = TRUE
          /\ Answered(r)
       \/ /\ new.on /\ ~new.good /\ (k = "enable" => row.here)
          /\ job' = JobRefused(k)
          /\ req' = [req EXCEPT ![r].at = IF k = "edit on" THEN "done" ELSE "undoing"]
    /\ UNCHANGED <<row, history, exec, patrol, disables, cold, counts, ghosts>>

\* tasks_toggle(), tasks_bulk() disable what they could not schedule; tasks_add() and
\* api_tasks_create() delete it.
RequestUndoes(r) ==
    /\ req[r].at = "undoing"
    /\ row' = IF req[r].kind = "add" \/ ~row.here THEN Absent ELSE Switched(row, FALSE)
    /\ offByHand' = IF row'.on = row.on THEN offByHand ELSE row.on
    /\ marks' = marks \cup Crossing(r)
    /\ Answered(r)
    /\ UNCHANGED <<job, history, exec, patrol, disables, cold, edits, counts>>

\* tasks_add(), and api_tasks_create(), which may create a disabled task.
RequestAdds(r) ==
    /\ req[r].at = "idle" /\ edits = 0
    /\ \E on, good \in BOOLEAN :
         LET new == NewRow(on, good, 1) IN
         /\ row' = new
         /\ req' = [req EXCEPT ![r] = [at |-> "written", kind |-> "add", copy |-> new,
                                       \* both schedule the task whatever "enabled" says
                                       new |-> Switched(new, TRUE)]]
    /\ edits' = 1
    /\ UNCHANGED <<job, history, exec, patrol, disables, cold, offByHand, marks, counts>>

\* tasks_runs_clear(): all the history, or the runs of one status, which leaves those of
\* the other.  A range of dates is left out.
Only(s) == [i \in 1..Cardinality({j \in DOMAIN history : history[j] = s}) |-> s]

RunsCleared(r) ==
    /\ req[r].at = "idle" /\ history # <<>>
    /\ history' \in {<<>>, Only("succeeded"), Only("failed")}
    /\ Answered(r)
    /\ UNCHANGED <<row, job, exec, patrol, disables, cold, counts, ghosts>>

\* The process ends anywhere and starts again: restore_tasks() schedules what is enabled.
Restart ==
    /\ restarts < MaxRestarts
    /\ restarts' = restarts + 1
    /\ exec' = [e \in Executions |-> Idle]
    /\ patrol' = Asleep
    /\ req' = [r \in Requests |-> IF req[r].at = "idle" THEN Unused
                                  ELSE [Unused EXCEPT !.at = "done"]]
    /\ job' = (row.here /\ row.on /\ row.good)
    /\ UNCHANGED <<row, history, disables, cold, runs, ghosts>>

Execution(e) ==
    \/ ExecutionBegins(e)
    \/ \E sent \in BOOLEAN : ExecutionRecords(e, sent)
    \/ ExecutionJudges(e)

Request(r) ==
    \/ \E k \in Kinds : RequestReads(r, k)
    \/ RequestWrites(r)
    \/ RequestSchedules(r)
    \/ RequestUndoes(r)
    \/ RequestAdds(r)
    \/ RunsCleared(r)

Next == \/ \E e \in Executions : Execution(e)
        \/ \E r \in Requests : Request(r)
        \/ Cools \/ PatrolReads \/ PatrolWrites \/ PatrolSchedules
        \/ Restart

Spec == Init /\ [][Next]_vars
-----------------------------------------------------------------------------
Params == [stamp : 0..MaxRuns, cycles : Seq([disabled : 1..MaxRuns, closed : BOOLEAN]),
           error : BOOLEAN, text : Nat]
Row    == [here : BOOLEAN, on : BOOLEAN, good : BOOLEAN, params : Params]

TypeOK ==
    /\ row \in Row /\ Len(row.params.cycles) <= MaxCycles
    /\ job \in BOOLEAN
    /\ history \in Seq({"succeeded", "failed"})
    /\ exec \in [Executions -> [at : {"idle", "sending", "judging"},
                               copy : Row]]
    /\ patrol \in [at : {"asleep", "writing", "scheduling"}, copy : Row]
    /\ req \in [Requests -> [at : {"idle", "read", "written", "undoing", "done"},
                            kind : Kinds \cup {"none", "add"}, copy : Row, new : Row]]
    /\ disables \in 0..MaxRuns /\ cold \in 0..disables
    /\ edits \in Nat
    /\ offByHand \in BOOLEAN
    /\ runs \in 0..MaxRuns /\ restarts \in 0..MaxRestarts
    /\ marks \subseteq {"stale", "crossed", "stamp kept", "api"}

\* What an administrator said last holds: the text is the last one given, and a task
\* that was turned off by hand is not turned on by the patrol.  It is lost in two ways
\* only: somebody commits over a row that changed since it was read, or the task was
\* enabled by a route that leaves the mark of its automatic disable (bulk, API).
LastWordHolds ==
    /\ row.here /\ "stale" \notin marks => row.params.text = edits
    /\ offByHand /\ row.on => marks \cap {"stale", "stamp kept"} # {}

\* A task that is marked as disabled automatically has the open cycle of just that
\* disable at the end of its cycles: the patrol closes what belongs to it.
StampHasCycle ==
    "stale" \notin marks /\ row.params.stamp # 0 =>
        /\ row.params.cycles # <<>>
        /\ row.params.cycles[Len(row.params.cycles)] = Cycle(row.params.stamp)

Settled == patrol.at # "scheduling" /\ ~HalfDone(Requests)

\* When nobody is about to tell the scheduler, an enabled task with a schedule that can
\* be kept is scheduled, and a task that is gone is not.  Exempt: the API's toggle, which
\* tells the scheduler nothing, stale commits, and writers that overtake each other
\* between commit and scheduler.
JobsMatchRows ==
    Settled /\ marks \cap {"api", "stale", "crossed"} = {} =>
        /\ row.here /\ row.on /\ row.good => job
        /\ ~row.here => ~job
=============================================================================
