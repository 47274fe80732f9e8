----------------------------- MODULE Automation -----------------------------
(***************************************************************************)
(* Events, alerts and workflows.  The event bus runs each handler of an    *)
(* event as a task of its own (core/bus.py).  The handlers that main.py    *)
(* subscribes check the alert rules (services/alerts.py) or trigger the    *)
(* workflows of a kind (services/workflow.py); a notified alert triggers   *)
(* workflows too, and a workflow that fails, is disabled or is enabled     *)
(* again dispatches the next event.  So an alert can feed itself, and what *)
(* stops it is the interval of the rule.                                   *)
(*                                                                         *)
(* A handler runs without interruption from one await to the next; each    *)
(* such stretch is an action.                                              *)
(***************************************************************************)
EXTENDS Naturals, Sequences, FiniteSets, SequencesExt

CONSTANTS Rules,       \* alert rules, each an object of its own
          NameOf,      \* the name of a rule; nothing makes names unique
          Saved,       \* rules that the settings bring back at the start
          EventOf,     \* the event a rule is for, "*" for any
          Debounced,   \* rules with a minimal interval above 0
          NFlows,      \* workflows are numbered in the order of their ids
          TriggerOf,   \* what triggers a workflow: "alert", "webhook", "schedule"
          Threshold,   \* web.auto_disable_workflows_after_failures; 0 is never
          Slots,       \* bound: handlers and direct runs at the same time
          MaxRuns,     \* bound: runs of one workflow
          MaxInputs,   \* bound: events from outside and direct runs
          MaxChanges   \* bound: changes an administrator makes, intervals and cooling
                       \* times that run out, the stop

Flows  == 1..NFlows
Tasks  == 1..Slots
Inner  == {"workflow.failed", "workflow.auto_disabled", "workflow.auto_reenabled"}
Events == Inner \cup {"adapter_disconnected"}

ASSUME AutomationAssumption ==
    /\ NFlows \in Nat /\ Threshold \in Nat
    /\ IsFiniteSet(Rules) /\ Saved \subseteq Rules
    /\ EventOf \in [Rules -> Events \cup {"*"}]
    /\ Debounced \subseteq Rules
    /\ TriggerOf \in [Flows -> {"alert", "webhook", "schedule"}]
    /\ {Slots, MaxRuns, MaxInputs, MaxChanges} \subseteq Nat

VARIABLES lists,    \* the lists service.rules has been; the last one is the present one
          enabled,  \* rules that are switched on, as a rule is that is yet to be made
          recent,   \* <<rule, event>>: a rule of this name was notified of the event, less
                    \* than this rule's interval ago
          flow,     \* rows of the workflows table
          hist,     \* each workflow's WorkflowRun rows: their statuses, oldest first
          task,     \* handlers and direct runs
          patrol,   \* the rows auto_reenable_disabled() has read and not yet written
          stopped,  \* the bus was stopped
          inputs, changes,  \* counted for the bounds
          calls,    \* notifications of <<rule, event>> since its interval ran out
          missed,   \* rules a finished check owed an entry in the alert history
          excused,  \* workflows enabled again, or a run of theirs cut off, since the last run began
          cutoff    \* <<workflow, run>> whose handler was cancelled

vars == <<lists, enabled, recent, flow, hist, task, patrol, stopped, inputs,
          changes, calls, missed, excused, cutoff>>
rules == <<lists, enabled>>
rulesVars == <<rules, changes>>
flowVars  == <<flow, hist, patrol, excused, cutoff>>
alertVars == <<recent, calls>>

Free == [at |-> "free", kind |-> "none", event |-> "none", gen |-> 0, i |-> 0, rule |-> "none",
         wf |-> 0, todo |-> {}, run |-> 0, result |-> "none", owed |-> {}]
Ended(t) == [Free EXCEPT !.owed = t.owed]
Busy(t) == t.at # "free"

Init == /\ lists = <<SetToSeq(Saved)>>
        /\ enabled = Rules
        /\ recent = {}
        /\ flow = [f \in Flows |-> [here |-> TRUE, on |-> TRUE, marked |-> FALSE]]
        /\ hist = [f \in Flows |-> <<>>]
        /\ task = [s \in Tasks |-> Free]
        /\ patrol = {}
        /\ stopped = FALSE
        /\ inputs = 0 /\ changes = 0
        /\ calls = [k \in Rules \X Events |-> 0]
        /\ missed = {} /\ excused = {} /\ cutoff = {}
-----------------------------------------------------------------------------
(***************************************************************************)
(* The bus: dispatch() makes the handler's task at once, and does nothing  *)
(* after stop().  event "none" stands for no dispatch.                     *)
(***************************************************************************)
AnyFree(ts) == CHOOSE s \in Tasks : ts[s].at = "free"
Room == \E s \in Tasks : task[s].at = "free"

Handler(kind, event) == [Free EXCEPT !.at = "new", !.kind = kind, !.event = event]

Dispatched(ts, event) ==
    IF stopped \/ event = "none" THEN ts
    ELSE [ts EXCEPT ![AnyFree(ts)] = Handler("alert", event)]

\* Task s goes on as t, having dispatched event; what a check still owes when it ends is missed.
Goes(s, t, event) ==
    /\ event = "none" \/ stopped \/ Room
    /\ task' = Dispatched([task EXCEPT ![s] = IF Busy(t) THEN t ELSE Free], event)
    /\ missed' = IF Busy(t) THEN missed ELSE missed \cup t.owed
-----------------------------------------------------------------------------
(***************************************************************************)
(* AlertService.check().  The loop runs over the list object it found;     *)
(* add_rule() appends to that object, remove_rule() makes a new one.       *)
(***************************************************************************)
Matches(r, event) == r \in enabled /\ EventOf[r] \in {"*", event}

Least(S) == CHOOSE x \in S : \A y \in S : x <= y

\* From the rule at place i on: the next rule that matches, or the end of the check.
From(t, i) ==
    LET list   == lists[t.gen]
        places == IF t.kind # "alert" THEN {}
                  ELSE {j \in i..Len(list) : Matches(list[j], t.event)}
        next   == Least(places)
    IN IF places = {} THEN Ended(t)
       ELSE [t EXCEPT !.at = "persisting", !.i = next, !.rule = list[next],
                      !.wf = 0, !.run = 0, !.result = "none"]

\* The old history was pruned; a webhook's handler has no rules to check.
Begins(s) ==
    LET t   == task[s]
        now == Last(lists)
    IN
    /\ t.at = "new"
    /\ IF t.kind = "alert"
       THEN Goes(s, From([t EXCEPT !.gen = Len(lists),
                              !.owed = {r \in Range(now) : Matches(r, t.event)}], 1), "none")
       ELSE Goes(s, [t EXCEPT !.at = "listing"], "none")
    /\ UNCHANGED <<rulesVars, alertVars, flowVars, stopped, inputs>>

Key(t) == <<t.rule, t.event>>
\* Slip: every notification goes out.
NeverSuppressed(t) == FALSE

Suppressed(t) == t.rule \in Debounced /\ Key(t) \in recent

\* Slip: the time is not noted.
NotNoted(t) == recent

\* What a rule with an interval can be notified of.
Heard == {k \in Debounced \X Events : EventOf[k[1]] \in {"*", k[2]}}

Namesakes(r) == {q \in Rules : NameOf[q] = NameOf[r]}

\* The AlertEvent is written (an error is logged); the time is noted before the await,
\* under the name of the rule and the event.  Only rules with an interval compare it.
Noted(t) == recent \cup (Heard \cap (Namesakes(t.rule) \X {t.event}))
Counted(t) == IF t.rule \in Debounced THEN [calls EXCEPT ![Key(t)] = @ + 1] ELSE calls
Recorded(t) == [t EXCEPT !.owed = @ \ {t.rule}]

Persists(s) ==
    LET t == task[s] IN
    /\ t.at = "persisting"
    /\ IF Suppressed(t)
       THEN /\ Goes(s, From(Recorded(t), t.i + 1), "none")
            /\ UNCHANGED <<recent, calls>>
       ELSE /\ Goes(s, [Recorded(t) EXCEPT !.at = "sending"], "none")
            /\ recent' = Noted(t)
            /\ calls' = Counted(t)
    /\ UNCHANGED <<rulesVars, flowVars, stopped, inputs>>

\* A send that raises (a target that is no number) ends the whole check.
SendRaises(s) ==
    /\ task[s].at = "sending"
    /\ Goes(s, Free, "none")
    /\ UNCHANGED <<rulesVars, alertVars, flowVars, stopped, inputs>>

Changes == ~stopped /\ changes < MaxChanges /\ changes' = changes + 1

\* An interval runs out.
IntervalPasses(k) ==
    /\ Changes /\ k \in recent
    /\ recent' = recent \ {k}
    /\ calls' = [calls EXCEPT ![k] = 0]
    /\ UNCHANGED <<rules, flowVars, task, stopped, inputs, missed>>
-----------------------------------------------------------------------------
(***************************************************************************)
(* WorkflowEngine: trigger() lists the workflows once and executes those   *)
(* that were enabled then, in turn.  execute() writes the run as "running",*)
(* runs the steps, writes the result and counts failures.                  *)
(***************************************************************************)
\* Slip: one more workflow than there are.
NextFlowOver(t) == [t EXCEPT !.at = "starting", !.wf = @ + 1, !.run = 0, !.result = "none"]

\* On to the next workflow of the trigger, else back to the check.
NextFlow(t) ==
    IF t.todo # {}
    THEN [t EXCEPT !.at = "starting", !.wf = Least(t.todo), !.todo = @ \ {Least(t.todo)},
                   !.run = 0, !.result = "none"]
    ELSE From(t, t.i + 1)

Lists(s) ==
    \* The kind of a handler is the name of the trigger it pulls.
    LET t    == task[s]
        todo == {f \in Flows : flow[f].here /\ flow[f].on /\ TriggerOf[f] = t.kind}
    IN
    /\ t.at \in {"sending", "listing"}
    /\ Goes(s, NextFlow([t EXCEPT !.todo = todo]), "none")
    /\ UNCHANGED <<rulesVars, alertVars, flowVars, stopped, inputs>>

\* Slip: a run that is not to be executed is dropped where it stands.
SkipsAtOnce(t) == NextFlow(t)

\* A run whose workflow is off, or whose condition does not match, is written as skipped.
Skips(t) == [t EXCEPT !.at = "recording", !.result = "skipped"]

\* A workflow that is gone raises, which ends the trigger or the direct run.
Starts(s) ==
    LET t == task[s]
        f == t.wf
        r == [t EXCEPT !.run = Len(hist[f]) + 1]
    IN
    /\ t.at = "starting" /\ Len(hist[f]) < MaxRuns
    /\ IF ~flow[f].here
       THEN /\ Goes(s, From([t EXCEPT !.todo = {}], t.i + 1), "none")
            /\ UNCHANGED <<hist, excused>>
       ELSE /\ hist' = [hist EXCEPT ![f] = Append(@, "running")]
            /\ excused' = excused \ {f}
            /\ \/ flow[f].on /\ Goes(s, [r EXCEPT !.at = "stepping"], "none")
               \/ Goes(s, Skips(r), "none")
    /\ UNCHANGED <<rulesVars, alertVars, flow, patrol, cutoff, stopped, inputs>>

\* All steps are done, or one of them raised.
StepsEnd(s) ==
    LET t == task[s] IN
    /\ t.at = "stepping"
    /\ \/ Goes(s, [t EXCEPT !.at = "recording", !.result = "succeeded"], "none")
       \/ Goes(s, [t EXCEPT !.at = "recording", !.result = "failed"], "workflow.failed")
    /\ UNCHANGED <<rulesVars, alertVars, flowVars, stopped, inputs>>

\* Slip: the result goes to the newest run of the workflow.
WrittenToNewest(t) == [hist EXCEPT ![t.wf][Len(hist[t.wf])] = t.result]

Written(t) == [hist EXCEPT ![t.wf][t.run] = t.result]

Records(s) ==
    LET t == task[s] IN
    /\ t.at = "recording"
    /\ hist' = Written(t)
    /\ Goes(s, IF t.result = "failed" /\ Threshold > 0 THEN [t EXCEPT !.at = "judging"]
               ELSE NextFlow(t), "none")
    /\ UNCHANGED <<rulesVars, alertVars, flow, patrol, excused, cutoff, stopped, inputs>>

AllFailed(h) ==
    /\ Len(h) >= Threshold
    /\ \A i \in Len(h) - Threshold + 1..Len(h) : h[i] = "failed"

\* Slip: the run that has just failed is not counted.
EarlierFailed(h) == Len(h) > 0 /\ AllFailed(SubSeq(h, 1, Len(h) - 1))

\* The newest runs of the workflow, whoever made them; one that is running ends the streak.
Streak(h) == AllFailed(h)

Judges(s) ==
    LET t == task[s] IN
    /\ t.at = "judging"
    /\ Goes(s, IF Streak(hist[t.wf]) THEN [t EXCEPT !.at = "disabling"]
               ELSE NextFlow(t), "none")
    /\ UNCHANGED <<rulesVars, alertVars, flowVars, stopped, inputs>>

Disables(s) ==
    LET t == task[s]
        f == t.wf
    IN
    /\ t.at = "disabling"
    /\ IF flow[f].here /\ flow[f].on
       THEN /\ flow' = [flow EXCEPT ![f].on = FALSE, ![f].marked = TRUE]
            /\ Goes(s, NextFlow(t), "workflow.auto_disabled")
       ELSE Goes(s, NextFlow(t), "none") /\ UNCHANGED flow
    /\ UNCHANGED <<rulesVars, alertVars, hist, patrol, excused, cutoff, stopped, inputs>>
-----------------------------------------------------------------------------
(***************************************************************************)
(* From outside: a connection is lost, a webhook or message arrives, and a *)
(* cron job, a page or the API runs one workflow whatever its trigger is.  *)
(***************************************************************************)
Input(t) ==
    /\ ~stopped /\ inputs < MaxInputs /\ Room
    /\ inputs' = inputs + 1
    /\ task' = [task EXCEPT ![AnyFree(task)] = t]
    /\ UNCHANGED <<rulesVars, alertVars, flowVars, stopped, missed>>

ConnectionLost == Input(Handler("alert", "adapter_disconnected"))
WebhookArrives == Input(Handler("webhook", "none"))
RunNow(f) == Input([Handler("direct", "none") EXCEPT !.at = "starting", !.wf = f])

\* The pages and the API of alerts: add, remove, switch.  Adding makes a new object and
\* does not look at names.
AddRule(r) ==
    /\ Changes /\ \A g \in 1..Len(lists) : r \notin Range(lists[g])
    /\ lists' = [lists EXCEPT ![Len(lists)] = Append(@, r)]
    /\ UNCHANGED <<enabled, alertVars, flowVars, task, stopped, inputs, missed>>

\* The rules of other names, in their order: there is one such sequence.
NamedOtherwise(n, list) ==
    LET places == {p \in 1..Len(list) : NameOf[list[p]] # n}
        upward == {f \in [1..Cardinality(places) -> places] :
                     \A j, k \in DOMAIN f : j < k => f[j] < f[k]}
    IN {[j \in 1..Cardinality(places) |-> list[f[j]]] : f \in upward}

\* Slip: the rules are taken out of the list the checks are running over.
RemovedInPlace(n) ==
    \E rest \in NamedOtherwise(n, Last(lists)) : lists' = [lists EXCEPT ![Len(lists)] = rest]

RemovedFromNew(n) == \E rest \in NamedOtherwise(n, Last(lists)) : lists' = Append(lists, rest)

RemoveRule(n) ==
    /\ Changes /\ RemovedFromNew(n)
    /\ UNCHANGED <<enabled, alertVars, flowVars, task, stopped, inputs, missed>>

\* The first rule of the name; switched while a check runs it is not owed to it any more.
ToggleRule(n) ==
    LET named == {p \in 1..Len(Last(lists)) : NameOf[Last(lists)[p]] = n}
        r     == Last(lists)[Least(named)]
    IN
    /\ Changes /\ named # {}
    /\ enabled' = IF r \in enabled THEN enabled \ {r} ELSE enabled \cup {r}
    /\ task' = [s \in Tasks |-> [task[s] EXCEPT !.owed = @ \ {r}]]
    /\ UNCHANGED <<lists, alertVars, flowVars, stopped, inputs, missed>>

\* The web pages of workflows: enable, edit (the new definition has no mark), delete.
Enable(f) ==
    /\ Changes /\ flow[f].here
    /\ flow' = [flow EXCEPT ![f].on = TRUE, ![f].marked = FALSE]
    /\ excused' = excused \cup {f}
    /\ UNCHANGED <<rules, alertVars, hist, patrol, cutoff, task, stopped, inputs, missed>>

Edit(f) ==
    /\ Changes /\ flow[f].here /\ flow[f].marked
    /\ flow' = [flow EXCEPT ![f].marked = FALSE]
    /\ UNCHANGED <<rules, alertVars, hist, patrol, excused, cutoff, task, stopped, inputs, missed>>

Delete(f) ==
    /\ Changes /\ flow[f].here
    /\ flow' = [flow EXCEPT ![f] = [here |-> FALSE, on |-> FALSE, marked |-> FALSE]]
    /\ UNCHANGED <<rules, alertVars, hist, patrol, excused, cutoff, task, stopped, inputs, missed>>

\* auto_reenable_disabled() reads the rows that are off, and heals the cooled ones in turn.
PatrolReads ==
    LET off == {f \in Flows : flow[f].here /\ ~flow[f].on /\ flow[f].marked} IN
    /\ Changes /\ patrol = {}
    /\ \E cooled \in SUBSET off \ {{}} : patrol' = cooled
    /\ UNCHANGED <<rules, alertVars, flow, hist, excused, cutoff, task, stopped, inputs, missed>>

\* A row that is gone fails the whole patrol.
PatrolWrites(f) ==
    /\ ~stopped /\ f \in patrol
    /\ UNCHANGED <<rulesVars, alertVars, hist, cutoff, stopped, inputs, missed>>
    /\ IF flow[f].here
       THEN /\ Room
            /\ flow' = [flow EXCEPT ![f].on = TRUE, ![f].marked = FALSE]
            /\ excused' = excused \cup {f}
            /\ patrol' = patrol \ {f}
            /\ task' = Dispatched(task, "workflow.auto_reenabled")
       ELSE patrol' = {} /\ UNCHANGED <<flow, excused, task>>

\* EventBus.stop(): nothing is dispatched any more, the handlers may finish ...
Stop ==
    /\ Changes /\ stopped' = TRUE
    /\ UNCHANGED <<rules, alertVars, flowVars, task, inputs, missed>>

\* ... and after the timeout they are cancelled, their runs left as they are.
StopTimesOut ==
    LET cancelled == {s \in Tasks : Busy(task[s]) /\ task[s].kind # "direct"}
        cut       == {s \in cancelled : task[s].run # 0}
    IN
    /\ stopped /\ cancelled # {}
    /\ task' = [s \in Tasks |-> IF s \in cancelled THEN Free ELSE task[s]]
    /\ excused' = excused \cup {task[s].wf : s \in cut}
    /\ cutoff' = cutoff \cup {<<task[s].wf, task[s].run>> : s \in cut}
    /\ UNCHANGED <<rulesVars, alertVars, flow, hist, patrol, stopped, inputs, missed>>

Step(s) ==
    \/ Begins(s) \/ Persists(s) \/ SendRaises(s)
    \/ Lists(s) \/ Starts(s) \/ StepsEnd(s) \/ Records(s) \/ Judges(s) \/ Disables(s)

Outside ==
    \/ ConnectionLost \/ WebhookArrives
    \/ \E k \in Rules \X Events : IntervalPasses(k)
    \/ \E r \in Rules : AddRule(r)
    \/ \E n \in {NameOf[r] : r \in Rules} : RemoveRule(n) \/ ToggleRule(n)
    \/ \E f \in Flows : RunNow(f) \/ Enable(f) \/ Edit(f) \/ Delete(f) \/ PatrolWrites(f)
    \/ PatrolReads \/ Stop \/ StopTimesOut

Next == Outside \/ \E s \in Tasks : Step(s)

Spec == Init /\ [][Next]_vars
-----------------------------------------------------------------------------
Statuses == {"running", "skipped", "succeeded", "failed"}
Points   == {"free", "new", "persisting", "sending", "listing", "starting", "stepping",
             "recording", "judging", "disabling"}

TypeOK ==
    /\ \A g \in 1..Len(lists) : lists[g] \in Seq(Rules)
    /\ enabled \subseteq Rules /\ recent \subseteq Debounced \X Events
    /\ flow \in [Flows -> [here : BOOLEAN, on : BOOLEAN, marked : BOOLEAN]]
    /\ \A f \in Flows : hist[f] \in Seq(Statuses)
    /\ \A s \in Tasks :
         /\ task[s].at \in Points
         /\ task[s].at \in {"persisting", "sending"} => task[s].rule \in Rules
         /\ task[s].at \in {"starting", "stepping", "recording", "judging", "disabling"} =>
              task[s].wf \in Flows
         /\ task[s].todo \subseteq Flows
         /\ task[s].run \in 0..(IF task[s].wf = 0 THEN 0 ELSE Len(hist[task[s].wf]))
    /\ patrol \subseteq Flows /\ missed \subseteq Rules /\ excused \subseteq Flows
    /\ stopped \in BOOLEAN

\* A rule with an interval is notified at most once per event and interval, however many
\* checks of that event run at the same time and whoever shares its name (docs/FAQ.md).
OncePerInterval == \A k \in Debounced \X Events : calls[k] <= 1

\* A check that runs to its end has recorded an alert for every rule that was in
\* force from its beginning to its end, whatever rules are added or removed meanwhile.
EveryRuleHears == missed = {}

Working(f) == \E s \in Tasks : task[s].run # 0 /\ Busy(task[s]) /\ task[s].wf = f

\* When no run of a workflow is under way and its last runs all failed, the workflow is
\* off, unless it was enabled since the last of them began or a run was cut off.
QuietMeansDisabled ==
    \A f \in Flows :
        flow[f].here /\ ~Working(f) /\ f \notin excused /\ Threshold > 0 =>
            (AllFailed(hist[f]) => ~flow[f].on)

\* A run that is shown as running has somebody who runs it, or was cut off by the stop.
RunsAccounted ==
    \A f \in Flows : \A i \in 1..Len(hist[f]) :
        hist[f][i] = "running" =>
            \/ <<f, i>> \in cutoff
            \/ \E s \in Tasks : Busy(task[s]) /\ task[s].run = i /\ task[s].wf = f

FeedsItself(r) == r \notin Debounced /\ EventOf[r] # "adapter_disconnected"

\* However alerts and workflows feed each other: where every rule that can hear of a
\* workflow has an interval, each run of a workflow is paid for by a pair whose interval
\* still runs, an input (one run for each rule without interval, if there are any, also
\* for each of several that share a name), or a change, such as an interval that ran out
\* (docs/archive/CHANGELOG_v2.md:292).  The pairs are finitely many and a handler ends
\* after finitely many steps, so the chain ends.
ChainIsBounded ==
    LET own == IF Debounced = Rules THEN 1 ELSE Cardinality(Rules \ Debounced) IN
    (\A r \in Rules : ~FeedsItself(r)) =>
        /\ recent \subseteq Heard
        /\ \A f \in Flows : Len(hist[f]) <= Cardinality(recent) + inputs * own + changes

\* Who has found a workflow failing and has not yet written that it is off.
Judged == {f \in Flows : \E s \in Tasks : task[s].at = "disabling" /\ task[s].wf = f}

Runs == INSTANCE WorkflowRuns WITH judged <- Judged

\* However handlers overlap, are cancelled or outlive a deletion, they change the rows of
\* the workflows as WorkflowRuns allows: a run ends once, with its own result, and the
\* engine switches a workflow off only after a judgement that its newest runs all failed.
ImplementsRuns == Runs!Spec
=============================================================================
