------------------------------ MODULE Exports ------------------------------
(***************************************************************************)
(* One export: its dictionary in app.state.export_jobs, its row in the     *)
(* export_jobs table and its coroutines in the worker pool                 *)
(* (web/export_jobs.py, web/routers/exports.py, routers/audit_ops.py).     *)
(*                                                                         *)
(* A coroutine works on the dictionary it was given, whether or not that   *)
(* is still the one of app.state.  After a restart or a clean-up the row   *)
(* is all there is, and a retry makes a new dictionary from it.  Exports   *)
(* of other ids can push this one out of memory, and otherwise share       *)
(* nothing with it.  What is exported, and whether the pool has a worker   *)
(* to spare (see BotStartup), is left out.                                 *)
(***************************************************************************)
EXTENDS Naturals

CONSTANTS Runners,     \* coroutines of the export that are in the pool at a time
          Requests,    \* requests that are under way at a time
          Dicts,       \* dictionaries made in one life of the process
          First,       \* the one the export was created with
          NoDict, NoRunner,
          Retries,     \* web.export_retries, or what the form says
          MaxActs,     \* bound: requests after the one that created the export
          MaxRestarts  \* bound: restarts of the process

ASSUME ExportsAssumption ==
    /\ First \in Dicts /\ NoDict \notin Dicts /\ NoRunner \notin Runners
    /\ Retries \in Nat /\ MaxActs \in Nat /\ MaxRestarts \in Nat

VARIABLES audit,    \* it is an export of the audit log
          row,      \* status of its row, "none" when there is none
          live,     \* its dictionary in app.state.export_jobs
          status,   \* job["status"] of each dictionary
          runner,   \* each coroutine
          active,   \* the one that BackgroundWorker._active names
          req,      \* each request
          acts, restarts,  \* counted for the bounds
          marks     \* what the run has seen: see the properties

vars == <<audit, row, live, status, runner, active, req, acts, restarts, marks>>

Statuses == {"pending", "running", "done", "failed"}
Finished == {"done", "failed"}

\* found and wrote belong to _persist_export_job(): the row its select found, and the
\* status it assigned; found also is the row a retry has selected.  then is where the
\* coroutine goes on when that has returned.
Unborn == [at |-> "unborn", dict |-> NoDict, attempt |-> 0, then |-> "none",
           found |-> "none", wrote |-> "none"]
Unused == [at |-> "idle", dict |-> NoDict, found |-> "none", wrote |-> "none"]

\* exports_create() or the audit page has put the new job into app.state.
Init == /\ audit \in BOOLEAN
        /\ row = "none"
        /\ live = First
        /\ status = [d \in Dicts |-> IF d = First THEN "pending" ELSE "unmade"]
        /\ runner = [r \in Runners |-> Unborn]
        /\ active = NoRunner
        /\ \E q \in Requests :
             req = [p \in Requests |-> IF p = q THEN [Unused EXCEPT !.at = "creating", !.dict = First]
                                                ELSE Unused]
        /\ acts = 0 /\ restarts = 0
        /\ marks = {}

Answered(q) == req' = [req EXCEPT ![q] = Unused]

Acts == acts < MaxActs /\ acts' = acts + 1
-----------------------------------------------------------------------------
(***************************************************************************)
(* _persist_export_job(): select the row, assign what the dictionary says  *)
(* by then, commit the columns that differ.  A row that is gone or has     *)
(* appeared meanwhile, or a database that fails, is logged and forgotten.  *)
(***************************************************************************)
Selected(w) == [w EXCEPT !.at = "committing", !.found = row, !.wrote = status[w.dict]]

\* Slip: a row that exists is left as it is.
CommitsOnce(w) ==
    IF w.found = "none" /\ row = "none" THEN row' = w.wrote /\ marks' = marks
                                        ELSE UNCHANGED <<row, marks>>

Commits(w) ==
    IF w.found = "none"
    THEN \/ row = "none" /\ row' = w.wrote /\ marks' = marks
         \/ row' = row /\ marks' = marks \cup {"lost"}
    ELSE \/ /\ row' = IF row = "none" \/ w.wrote = w.found THEN row ELSE w.wrote
            /\ marks' = marks
         \/ row' = row /\ marks' = marks \cup {"lost"}
-----------------------------------------------------------------------------
(***************************************************************************)
(* The pool (see BackgroundWorker): submit() drops a coroutine while       *)
(* _active names another of its export, and queues it otherwise.           *)
(***************************************************************************)
Crossing == IF \E r \in Runners : runner[r].at # "unborn" THEN {"crossed"} ELSE {}

Submit(d) ==
    IF active # NoRunner THEN UNCHANGED runner
    ELSE \E r \in Runners :
            /\ runner[r].at = "unborn"
            /\ runner' = [runner EXCEPT ![r] = [Unborn EXCEPT !.at = "queued", !.dict = d]]

\* A worker takes the coroutine, whose first attempt begins.
Take(r) ==
    /\ runner[r].at = "queued"
    /\ status' = [status EXCEPT ![runner[r].dict] = "running"]
    /\ runner' = [runner EXCEPT ![r].at = "exporting"]
    /\ active' = r
    /\ UNCHANGED <<audit, row, live, req, acts, restarts, marks>>

(***************************************************************************)
(* run_export(): attempts with _run_export_job(), each recorded, until one *)
(* does not fail or the retries are used up.                               *)
(***************************************************************************)
\* An export created here may be retried; one made from a row has no retries left.
Allowed(d) == IF d = First /\ ~audit THEN Retries ELSE 0

\* The records are read and the file written, or either raises.
AttemptEnds(r) ==
    /\ runner[r].at = "exporting"
    /\ \E end \in Finished : status' = [status EXCEPT ![runner[r].dict] = end]
    /\ runner' = [runner EXCEPT ![r].at = "recording", ![r].then = "judge"]
    /\ UNCHANGED <<audit, row, live, active, req, acts, restarts, marks>>

Selects(r) ==
    /\ runner[r].at = "recording"
    /\ runner' = [runner EXCEPT ![r] = Selected(@)]
    /\ UNCHANGED <<audit, row, live, status, active, req, acts, restarts, marks>>

\* Slip: one attempt more than there are retries.
MayRetryOnceMore(r) == runner[r].attempt <= Allowed(runner[r].dict)

MayRetry(r) == runner[r].attempt < Allowed(runner[r].dict)

\* What the coroutine does with its dictionary when its record is written.  Only another
\* coroutine of the same dictionary can make it pending here.
Judged(r) ==
    LET d     == runner[r].dict
        rest  == [Unborn EXCEPT !.dict = d, !.attempt = runner[r].attempt]
        again == [rest EXCEPT !.at = "recording"]
    IN  CASE runner[r].then = "judge" /\ status[d] = "failed" /\ MayRetry(r) ->
               [status |-> "pending", runner |-> [again EXCEPT !.then = "sleep"]]
          [] runner[r].then = "judge" /\ status[d] = "pending" ->
               [status |-> "failed", runner |-> [again EXCEPT !.then = "end"]]
          [] runner[r].then = "sleep" ->
               [status |-> status[d], runner |-> [rest EXCEPT !.at = "sleeping"]]
          [] OTHER -> [status |-> status[d], runner |-> Unborn]

Records(r) ==
    /\ runner[r].at = "committing"
    /\ Commits(runner[r])
    /\ runner' = [runner EXCEPT ![r] = Judged(r).runner]
    /\ status' = [status EXCEPT ![runner[r].dict] = Judged(r).status]
    /\ active' = IF runner'[r] = Unborn /\ active = r THEN NoRunner ELSE active
    /\ UNCHANGED <<audit, live, req, acts, restarts>>

\* Half a second later.
Wakes(r) ==
    /\ runner[r].at = "sleeping"
    /\ status' = [status EXCEPT ![runner[r].dict] = "running"]
    /\ runner' = [runner EXCEPT ![r].at = "exporting", ![r].attempt = @ + 1]
    /\ UNCHANGED <<audit, row, live, active, req, acts, restarts, marks>>
-----------------------------------------------------------------------------
(***************************************************************************)
(* Creating: the job is recorded as pending, then submitted.               *)
(***************************************************************************)
CreateSelects(q) ==
    /\ req[q].at = "creating"
    /\ req' = [req EXCEPT ![q] = Selected(@)]
    /\ UNCHANGED <<audit, row, live, status, runner, active, acts, restarts, marks>>

CreateSubmits(q) ==
    /\ req[q].at = "committing"
    /\ Commits(req[q])
    /\ Submit(req[q].dict)
    /\ Answered(q)
    /\ UNCHANGED <<audit, live, status, active, acts, restarts>>

\* Creating another export drops the oldest finished ones from memory.
Crowded ==
    /\ Acts
    /\ live # NoDict /\ status[live] \in Finished
    /\ live' = NoDict
    /\ UNCHANGED <<audit, row, status, runner, active, req, restarts, marks>>

(***************************************************************************)
(* Retrying one export: in memory, or from its row.                        *)
(***************************************************************************)
\* Slip: an export that is done may be retried.
RetriableFinished(s) == s \in Finished /\ ~audit

Retriable(s) == s = "failed" /\ ~audit

Retry ==
    /\ Acts
    /\ live # NoDict /\ Retriable(status[live])
    /\ Submit(live)
    /\ marks' = marks \cup Crossing
    /\ UNCHANGED <<audit, row, live, status, active, req, restarts>>

RetryLooks(q) ==
    /\ Acts
    /\ req[q].at = "idle" /\ live = NoDict
    /\ req' = [req EXCEPT ![q].at = "looking"]
    /\ UNCHANGED <<audit, row, live, status, runner, active, restarts, marks>>

\* _export_job_from_row(), over whatever dictionary has come into memory meanwhile.
Unmade == {d \in Dicts \ {First} : status[d] = "unmade"}
Made   == CHOOSE d \in Unmade : TRUE

Restores(s) ==
    /\ Unmade # {}
    /\ live' = Made
    /\ status' = [status EXCEPT ![Made] = s]

RetryFinds(q) ==
    /\ req[q].at = "looking"
    /\ req' = [req EXCEPT ![q].at = "restoring", ![q].found = row]
    /\ UNCHANGED <<audit, row, live, status, runner, active, acts, restarts, marks>>

\* The row does not tell any more what it told when it was selected.
OldRow(found) == IF row = found THEN {} ELSE {"stale"}

\* Its session is closed, which takes its time, and the row is used as it was found.
RetryUses(q) ==
    LET found == req[q].found IN
    /\ req[q].at = "restoring"
    /\ Answered(q)
    /\ IF found = "none"
       THEN UNCHANGED <<live, status, runner, marks>>
       ELSE /\ Restores(found)
            /\ IF Retriable(found)
               THEN Submit(Made) /\ marks' = marks \cup OldRow(found) \cup Crossing
               ELSE UNCHANGED runner
                    /\ marks' = marks \cup OldRow(found)
                                      \cup (IF found \in Finished /\ Crossing = {}
                                              THEN {} ELSE {"ghost"})
    /\ UNCHANGED <<audit, row, active, acts, restarts>>

(***************************************************************************)
(* Retrying all that failed: the dictionaries that are in memory when it   *)
(* begins, then the rows listed after that; other exports are submitted    *)
(* between either list and this one's turn.                                *)
(***************************************************************************)
RetryAll(q) ==
    /\ Acts
    /\ req[q].at = "idle"
    /\ req' = [req EXCEPT ![q].at = IF live = NoDict THEN "listing" ELSE "turning",
                         ![q].dict = live]
    /\ UNCHANGED <<audit, row, live, status, runner, active, restarts, marks>>

\* The list does not tell what is in memory and in the table any more.
OldList(d) == IF row = "failed" /\ live = d THEN {} ELSE {"stale"}

\* Its row is passed over once the dictionary has been submitted.
RetryTurns(q) ==
    /\ req[q].at = "turning"
    /\ IF Retriable(status[req[q].dict])
       THEN /\ Submit(req[q].dict)
            /\ marks' = marks \cup Crossing \cup OldList(req[q].dict)
            /\ Answered(q)
       ELSE /\ req' = [req EXCEPT ![q] = [Unused EXCEPT !.at = "listing"]]
            /\ UNCHANGED <<runner, marks>>
    /\ UNCHANGED <<audit, row, live, status, active, acts, restarts>>

RowsListed(q) ==
    /\ req[q].at = "listing"
    /\ IF Retriable(row) THEN req' = [req EXCEPT ![q].at = "using"] ELSE Answered(q)
    /\ UNCHANGED <<audit, row, live, status, runner, active, acts, restarts, marks>>

RowUsed(q) ==
    /\ req[q].at = "using"
    /\ Answered(q)
    /\ IF live = NoDict
       THEN /\ Restores("failed") /\ Submit(Made)
            /\ marks' = marks \cup Crossing \cup OldList(NoDict)
       ELSE UNCHANGED <<live, status, runner, marks>>
    /\ UNCHANGED <<audit, row, active, acts, restarts>>

(***************************************************************************)
(* Clearing: finished jobs leave memory at once; the rows that are deleted *)
(* after that are the done ones, or all.  Either may be too young.         *)
(***************************************************************************)
Clear(q) ==
    /\ Acts
    /\ req[q].at = "idle"
    /\ \E keepFailed, old \in BOOLEAN :
         /\ live' = IF /\ old /\ live # NoDict
                       /\ status[live] = "done" \/ (status[live] = "failed" /\ ~keepFailed)
                    THEN NoDict ELSE live
         /\ req' = [req EXCEPT ![q].at = IF keepFailed THEN "deleting done" ELSE "deleting"]
    /\ UNCHANGED <<audit, row, status, runner, active, restarts, marks>>

Deletes(q) ==
    /\ req[q].at \in {"deleting", "deleting done"}
    /\ row' \in {row} \cup
         (IF req[q].at = "deleting" \/ row = "done" THEN {"none"} ELSE {})
    /\ Answered(q)
    /\ UNCHANGED <<audit, live, status, runner, active, acts, restarts, marks>>

Creating(q) == req[q].at \in {"creating", "committing"}

\* The process ends anywhere, or its shutdown cancels the coroutines, and starts again.
Restart ==
    /\ restarts < MaxRestarts
    /\ restarts' = restarts + 1
    /\ live' = NoDict
    /\ status' = [d \in Dicts |-> "unmade"]
    /\ runner' = [r \in Runners |-> Unborn]
    /\ active' = NoRunner
    /\ req' = [q \in Requests |-> Unused]
    /\ marks' = marks \cup (IF \/ \E r \in Runners : runner[r].at # "unborn"
                               \/ \E q \in Requests : Creating(q)
                            THEN {"cut"} ELSE {})
    /\ UNCHANGED <<audit, row, acts>>

Running(r) == AttemptEnds(r) \/ Selects(r) \/ Records(r) \/ Wakes(r)

Request(q) ==
    \/ CreateSelects(q) \/ CreateSubmits(q)
    \/ RetryLooks(q) \/ RetryFinds(q) \/ RetryUses(q)
    \/ RetryAll(q) \/ RetryTurns(q) \/ RowsListed(q) \/ RowUsed(q)
    \/ Clear(q) \/ Deletes(q)

Next ==
    \/ \E r \in Runners : Take(r) \/ Running(r)
    \/ \E q \in Requests : Request(q)
    \/ Crowded \/ Retry \/ Restart

Spec == Init /\ [][Next]_vars
-----------------------------------------------------------------------------
TypeOK ==
    /\ audit \in BOOLEAN
    /\ row \in Statuses \cup {"none"}
    /\ live \in Dicts \cup {NoDict}
    /\ status \in [Dicts -> Statuses \cup {"unmade"}]
    /\ runner \in [Runners ->
         [at : {"unborn", "queued", "exporting", "recording", "committing", "sleeping"},
          dict : Dicts \cup {NoDict}, attempt : 0..Retries,
          then : {"none", "judge", "sleep", "end"},
          found : Statuses \cup {"none"}, wrote : Statuses \cup {"none"}]]
    /\ active \in Runners \cup {NoRunner}
    /\ req \in [Requests ->
         [at : {"idle", "creating", "committing", "looking", "restoring", "turning", "listing",
                "using", "deleting", "deleting done"},
          dict : Dicts \cup {NoDict},
          found : Statuses \cup {"none"}, wrote : Statuses \cup {"none"}]]
    /\ acts \in 0..MaxActs /\ restarts \in 0..MaxRestarts
    /\ marks \subseteq {"lost", "crossed", "ghost", "cut", "stale"}

Quiet == /\ \A r \in Runners : runner[r].at = "unborn"
         /\ \A q \in Requests : ~Creating(q)
Unless(excuses) == Quiet /\ marks \cap excuses = {}

\* When nothing is under way, an export is shown as done or failed -- the page and the
\* retry buttons look at the dictionary if there is one, else at the row -- and the two
\* agree, however clean-ups, retries and automatic retries met.  The ways to lose it: a
\* refused retry leaves a dictionary in memory that it made from the row of an export
\* still under way, or cut off, and nobody works on it ("ghost"); a restart cuts a
\* coroutine off, whose row stays as it was and can not be retried ("cut"); two retries
\* are accepted before the first begins ("crossed"); a retry goes by a row, or "retry all"
\* by a list, that was true when it was read and is not any more ("stale"); the database
\* refuses a record ("lost").
ExportsSettle ==
    /\ Unless({"ghost"}) /\ live # NoDict => status[live] \in Finished
    /\ Unless({"lost", "cut", "crossed"}) /\ row # "none" => row \in Finished
    /\ Unless({"lost", "ghost", "crossed", "stale"}) /\ row # "none" /\ live # NoDict =>
         row = status[live]

\* An export that is recorded as done is not made again, let alone failed, unless two
\* retries crossed, or a retry read the row before another one was through with it and
\* used it after that: the code has this gap in either way of retrying ("stale").
DoneStays ==
    [][row = "done" /\ marks' \cap {"crossed", "stale"} = {} =>
         row' \in {"done", "none"}]_vars
=============================================================================
