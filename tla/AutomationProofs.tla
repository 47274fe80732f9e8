-------------------------- MODULE AutomationProofs --------------------------
(***************************************************************************)
(* Safety of alerts and workflows for any rules, workflows, handlers and   *)
(* threshold: the inductive invariant AutoInv says what each task owns and *)
(* owes, and the properties of Automation follow from it.  A second one,   *)
(* ChainInv, keeps the account of the runs of a workflow.  At the end the  *)
(* refinement of WorkflowRuns follows from AutoInv.                        *)
(***************************************************************************)
EXTENDS Automation, FiniteSetTheorems, SequenceTheorems, WellFoundedInduction, TLAPS

Kinds   == {"none", "alert", "webhook", "direct"}
Results == {"none", "skipped", "succeeded", "failed"}
Owning  == {"stepping", "recording", "judging", "disabling"}

TaskRec == [at : Points, kind : Kinds, event : Events \cup {"none"}, gen : Nat, i : Nat,
            rule : Rules \cup {"none"}, wf : Flows \cup {0}, todo : SUBSET Flows, run : Nat,
            result : Results, owed : SUBSET Rules]

Types ==
    /\ lists \in Seq(Seq(Rules)) /\ lists # << >>
    /\ enabled \subseteq Rules
    /\ flow \in [Flows -> [here : BOOLEAN, on : BOOLEAN, marked : BOOLEAN]]
    /\ hist \in [Flows -> Seq(Statuses)]
    /\ task \in [Tasks -> TaskRec]
    /\ patrol \subseteq Flows /\ excused \subseteq Flows
    /\ stopped \in BOOLEAN

\* A task that has begun a run owns it, in the histories h, until its result is judged.
Phase(t, h) ==
    /\ t.at \notin Owning => t.run = 0
    /\ t.at \in Owning \cup {"starting"} => t.wf \in Flows
    /\ t.at \in Owning => t.run \in 1..Len(h[t.wf])
    /\ t.at \in {"stepping", "recording"} => h[t.wf][t.run] = "running"
    /\ t.at = "recording" => t.result # "none"
    /\ t.at \in {"judging", "disabling"} => h[t.wf][t.run] = "failed" /\ Threshold > 0
    /\ t.at \in {"persisting", "sending"} => t.kind = "alert" /\ t.rule \in Rules
    /\ t.at = "persisting" => EventOf[t.rule] \in {"*", t.event}
    /\ t.kind = "alert" => t.event \in Events

\* What a check owes lies at place n or behind it in the list, of ls, that it runs over,
\* and is in force, en being the rules that are switched on.
Pending(t, n, ls, en) ==
    /\ t.kind # "alert" => t.owed = {}
    /\ t.kind = "alert" =>
         /\ t.gen \in 1..Len(ls)
         /\ \A r \in t.owed : /\ r \in en /\ EventOf[r] \in {"*", t.event}
                              /\ \E p \in 1..Len(ls[t.gen]) : p >= n /\ ls[t.gen][p] = r

Hears(t, ls, en) ==
    /\ t.at \in {"free", "new"} => t.owed = {}
    /\ t.at \notin {"free", "new"} =>
         Pending(t, IF t.at = "persisting" THEN t.i ELSE t.i + 1, ls, en)
    /\ t.at = "persisting" => t.i \in 1..Len(ls[t.gen]) /\ ls[t.gen][t.i] = t.rule

Sound(t, h, ls, en) == Phase(t, h) /\ Hears(t, ls, en)

AllSound == \A s \in Tasks : Sound(task[s], hist, lists, enabled)

\* No two tasks own one run.
Alone == \A s, u \in Tasks :
    task[s].run # 0 /\ task[s].run = task[u].run /\ task[s].wf = task[u].wf => s = u

\* A workflow whose last runs all failed has a task that is about to switch it off.
Caught == \A f \in Flows :
    flow[f].here /\ flow[f].on /\ f \notin excused /\ Threshold > 0 /\ AllFailed(hist[f]) =>
        \E s \in Tasks : task[s].at \in {"judging", "disabling"} /\ task[s].wf = f

\* Only a notified key is counted.
Counting ==
    /\ recent \subseteq Debounced \X Events
    /\ calls \in [Rules \X Events -> Nat]
    /\ \A k \in Debounced \X Events : calls[k] <= 1 /\ (k \notin recent => calls[k] = 0)

AutoInv == /\ Types /\ AllSound /\ Alone /\ RunsAccounted /\ Caught
           /\ EveryRuleHears /\ Counting

(***************************************************************************)
(* A set of naturals that is not empty has a least element.                *)
(***************************************************************************)
Below == {p \in Nat \X Nat : p[1] < p[2]}

LEMMA BelowWF == IsWellFoundedOn(Below, Nat)
<1>1. Below = OpToRel(<, Nat)
  BY DEF Below, OpToRel
<1> QED BY <1>1, NatLessThanWellFounded

LEMMA LeastIsLeast ==
    ASSUME NEW S \in SUBSET Nat, S # {}
    PROVE  Least(S) \in S /\ \A y \in S : Least(S) <= y
<1>1. PICK x \in S : \A y \in S : ~(<<y, x>> \in Below)
  <2>1. S \subseteq Nat OBVIOUS
  <2> QED BY <2>1, BelowWF, WFMin
<1>2. ASSUME NEW y \in S PROVE x <= y
  <2>1. x \in Nat /\ y \in Nat
    OBVIOUS
  <2>2. ASSUME y < x PROVE FALSE
    <3>1. <<y, x>> \in Below
      BY <2>1, <2>2 DEF Below
    <3> QED BY <1>1, <3>1
  <2> QED BY <2>1, <2>2
<1> QED BY <1>2 DEF Least

(***************************************************************************)
(* What Goes() does to the tasks: s goes on as t, and a free one may begin *)
(* to handle the event.                                                    *)
(***************************************************************************)
Inert(t) == /\ t.at \in {"free", "new"} /\ t.run = 0 /\ t.owed = {}
            /\ t.kind = "alert" => t.event \in Events

LEMMA NewTasks ==
    ASSUME NEW e \in Events
    PROVE  /\ Free \in TaskRec /\ Inert(Free)
           /\ Handler("alert", e) \in TaskRec /\ Inert(Handler("alert", e))
BY DEF Free, Handler, TaskRec, Points, Kinds, Results, Inert

LEMMA GoesExactly ==
    ASSUME task \in [Tasks -> TaskRec], NEW s \in Tasks, Busy(task[s]), NEW t \in TaskRec,
           NEW e \in Events \cup {"none"}, Goes(s, t, e)
    PROVE  /\ task' \in [Tasks -> TaskRec]
           /\ Busy(t) => task'[s] = t
           /\ ~Busy(t) => task'[s] = Free \/ (e \in Events /\ task'[s] = Handler("alert", e))
           /\ \A u \in Tasks : u # s => task'[u] = task[u]
                  \/ (~Busy(task[u]) /\ e \in Events /\ task'[u] = Handler("alert", e))
<1> DEFINE own == IF Busy(t) THEN t ELSE Free
           ts  == [task EXCEPT ![s] = own]
<1>1. Free \in TaskRec /\ Inert(Free)
  BY NewTasks DEF Events, Inner
<1>2. own \in TaskRec /\ ts \in [Tasks -> TaskRec]
  BY <1>1
<1>3. ts[s] = own /\ \A u \in Tasks : u # s => ts[u] = task[u]
  OBVIOUS
<1>4. task' = Dispatched(ts, e)
  BY DEF Goes
<1>5. CASE stopped \/ e = "none"
  <2>1. task' = ts
    BY <1>4, <1>5 DEF Dispatched
  <2> HIDE DEF ts
  <2> QED BY <1>1, <1>2, <1>3, <2>1 DEF Goes
<1>6. CASE ~(stopped \/ e = "none")
  <2>1. e \in Events
    BY <1>6
  <2>2. PICK v \in Tasks : task[v].at = "free"
    BY <1>6 DEF Goes, Room
  <2>3. v # s
    BY <2>2 DEF Busy
  <2>4. ts[v].at = "free"
    BY <1>3, <2>2, <2>3
  <2>5. AnyFree(ts) \in Tasks /\ ts[AnyFree(ts)].at = "free"
    <3> HIDE DEF ts
    <3> QED BY <2>4 DEF AnyFree
  <2> DEFINE w == AnyFree(ts)
  <2>6. task' = [ts EXCEPT ![w] = Handler("alert", e)]
    BY <1>4, <1>6 DEF Dispatched
  <2>7. w = s => ~Busy(t)
    BY <1>3, <2>5 DEF Busy
  <2>8. w # s => ~Busy(task[w])
    BY <1>3, <2>5 DEF Busy
  <2>9. Handler("alert", e) \in TaskRec
    BY <2>1, NewTasks
  <2> HIDE DEF w, ts
  <2>10. task' \in [Tasks -> TaskRec] /\ task'[w] = Handler("alert", e)
         /\ \A u \in Tasks : u # w => task'[u] = ts[u]
    BY <1>2, <2>5, <2>6, <2>9 DEF w
  <2> HIDE DEF own
  <2>11. own = IF Busy(t) THEN t ELSE Free
    BY DEF own
  <2> QED BY <1>1, <1>3, <2>1, <2>5, <2>7, <2>8, <2>10, <2>11
<1> QED BY <1>5, <1>6

LEMMA GoesTasks ==
    ASSUME task \in [Tasks -> TaskRec], NEW s \in Tasks, Busy(task[s]), NEW t \in TaskRec,
           NEW e \in Events \cup {"none"}, Goes(s, t, e)
    PROVE  /\ task' \in [Tasks -> TaskRec]
           /\ Busy(t) => task'[s] = t
           /\ ~Busy(t) => Inert(task'[s])
           /\ \A u \in Tasks : u # s => task'[u] = task[u]
                                          \/ (~Busy(task[u]) /\ Inert(task'[u]))
           /\ missed' = IF Busy(t) THEN missed ELSE missed \cup t.owed
<1>1. Inert(Free) /\ \A d \in Events : Inert(Handler("alert", d))
  BY NewTasks DEF Events, Inner
<1>2. missed' = IF Busy(t) THEN missed ELSE missed \cup t.owed
  BY DEF Goes
<1> QED BY <1>1, <1>2, GoesExactly

(***************************************************************************)
(* From() finds the next rule that matches, and all that the check owes    *)
(* lies there or behind it; when it finds none, nothing is owed.           *)
(***************************************************************************)
Onward(t, points) ==
    /\ t \in TaskRec /\ t.run = 0
    /\ ~Busy(t) => t.owed = {}
    /\ Busy(t) => t.at \in points /\ \A h : Sound(t, h, lists, enabled)

LEMMA FromSound ==
    ASSUME Types, NEW t \in TaskRec, NEW n \in Nat \ {0},
           Pending(t, n, lists, enabled), t.kind = "alert" => t.event \in Events
    PROVE  Onward(From(t, n), {"persisting"})
<1> DEFINE list   == lists[t.gen]
           places == IF t.kind # "alert" THEN {}
                     ELSE {j \in n..Len(list) : Matches(list[j], t.event)}
           f      == From(t, n)
<1>1. CASE places = {}
  <2>1. t.owed = {}
    <3>1. CASE t.kind # "alert"
      BY <3>1 DEF Pending
    <3>2. CASE t.kind = "alert"
      <4>1. t.gen \in 1..Len(lists) /\ list \in Seq(Rules)
        BY <3>2 DEF Pending, Types
      <4>2. ASSUME NEW r \in t.owed PROVE FALSE
        <5>1. PICK p \in 1..Len(list) : p >= n /\ list[p] = r
          BY <3>2 DEF Pending
        <5>2. Matches(list[p], t.event)
          BY <3>2, <5>1 DEF Pending, Matches
        <5>3. p \in n..Len(list)
          BY <5>1, <4>1
        <5> QED BY <1>1, <3>2, <5>2, <5>3
      <4> QED BY <4>2
    <3> QED BY <3>1, <3>2
  <2>2. f = Ended(t)
    BY <1>1 DEF From
  <2>3. f = Free
    BY <2>1, <2>2 DEF Ended, Free
  <2> QED BY <2>3, NewTasks DEF Onward, Busy, Free, Inert, Events, Inner
<1>2. CASE places # {}
  <2>1. t.kind = "alert" /\ t.gen \in 1..Len(lists) /\ list \in Seq(Rules)
    BY <1>2 DEF Pending, Types
  <2>2. places \subseteq n..Len(list) /\ places \subseteq Nat
    BY <2>1
  <2> DEFINE next == Least(places)
  <2>3. next \in places /\ \A y \in places : next <= y
    <3> HIDE DEF places
    <3> QED BY <1>2, <2>2, LeastIsLeast
  <2>4. f = [t EXCEPT !.at = "persisting", !.i = next, !.rule = list[next],
                      !.wf = 0, !.run = 0, !.result = "none"]
    BY <1>2 DEF From
  <2>5. next \in 1..Len(list) /\ next \in Nat /\ list[next] \in Rules
    <3> HIDE DEF next
    <3> QED BY <2>1, <2>2, <2>3
  <2>11. EventOf[list[next]] \in {"*", t.event}
    BY <2>1, <2>3 DEF Matches
  <2>6. \A r \in t.owed : \E p \in 1..Len(list) : p >= next /\ list[p] = r
    <3> TAKE r \in t.owed
    <3>1. PICK p \in 1..Len(list) : p >= n /\ list[p] = r
      BY <2>1 DEF Pending
    <3>2. Matches(list[p], t.event)
      BY <2>1, <3>1 DEF Pending, Matches
    <3>3. p \in places
      BY <2>1, <3>1, <3>2
    <3>4. next <= p
      BY <2>3, <3>3
    <3> HIDE DEF next
    <3> QED BY <3>1, <3>4, <2>5
  <2> DEFINE rule == list[next]
  <2> HIDE DEF rule, next, list, places, f
  <2>7. f \in TaskRec /\ f.at = "persisting" /\ f.run = 0 /\ f.kind = "alert"
        /\ f.i = next /\ f.rule = rule /\ f.gen = t.gen /\ f.owed = t.owed
        /\ f.event = t.event
    <3>1. next \in Nat /\ rule \in Rules
      BY <2>5 DEF rule
    <3>2. f = [t EXCEPT !.at = "persisting", !.i = next, !.rule = rule,
                        !.wf = 0, !.run = 0, !.result = "none"]
      BY <2>4 DEF rule
    <3> QED BY <2>1, <3>1, <3>2 DEF TaskRec, Points, Results
  <2>8. Pending(f, next, lists, enabled)
    <3>1. \A r \in f.owed : r \in enabled /\ EventOf[r] \in {"*", f.event}
      BY <2>1, <2>7 DEF Pending
    <3> QED BY <2>1, <2>6, <2>7, <3>1 DEF Pending, list
  <2>9. Hears(f, lists, enabled)
    BY <2>5, <2>7, <2>8 DEF Hears, list, rule
  <2>10. \A h : Phase(f, h)
    BY <2>1, <2>5, <2>7, <2>11 DEF Phase, Owning, rule
  <2> QED BY <2>7, <2>9, <2>10 DEF Onward, Sound, Busy, f
<1> QED BY <1>1, <1>2

LEMMA NextSound ==
    ASSUME Types, NEW t \in TaskRec, Pending(t, t.i + 1, lists, enabled),
           t.kind = "alert" => t.event \in Events
    PROVE  Onward(NextFlow(t), {"persisting", "starting"})
<1>1. CASE t.todo = {}
  <2>1. NextFlow(t) = From(t, t.i + 1)
    BY <1>1 DEF NextFlow
  <2>2. t.i + 1 \in Nat \ {0}
    BY DEF TaskRec
  <2>3. Onward(From(t, t.i + 1), {"persisting"})
    BY <2>2, FromSound
  <2> QED BY <2>1, <2>3 DEF Onward
<1>2. CASE t.todo # {}
  <2>1. t.todo \subseteq Flows /\ t.todo \subseteq Nat
    BY AutomationAssumption DEF TaskRec, Flows
  <2>2. Least(t.todo) \in t.todo
    BY <1>2, <2>1, LeastIsLeast
  <2> DEFINE next == Least(t.todo)
             f    == NextFlow(t)
  <2>3. f = [t EXCEPT !.at = "starting", !.wf = next, !.todo = @ \ {next},
                      !.run = 0, !.result = "none"]
    BY <1>2 DEF NextFlow
  <2> HIDE DEF f, next
  <2>4. f \in TaskRec /\ f.at = "starting" /\ f.run = 0 /\ f.wf \in Flows /\ f.kind = t.kind
        /\ f.i = t.i /\ f.gen = t.gen /\ f.owed = t.owed /\ f.event = t.event
    BY <2>1, <2>2, <2>3 DEF TaskRec, Points, Results, next
  <2>5. Pending(f, f.i + 1, lists, enabled)
    BY <2>4 DEF Pending
  <2>6. Hears(f, lists, enabled)
    BY <2>4, <2>5 DEF Hears
  <2>7. \A h : Phase(f, h)
    BY <2>4 DEF Phase, Owning
  <2> QED BY <2>4, <2>6, <2>7 DEF Onward, Sound, Busy, f
<1> QED BY <1>1, <1>2

(***************************************************************************)
(* What a step of one task does to what concerns every task.               *)
(***************************************************************************)
LEMMA InertIsSound ==
    ASSUME NEW t, Inert(t), NEW h, NEW ls, NEW en
    PROVE  Sound(t, h, ls, en) /\ t.run = 0
BY DEF Inert, Sound, Phase, Hears, Owning

LEMMA SoundIsBusy ==
    ASSUME NEW t, NEW h, NEW ls, NEW en, Sound(t, h, ls, en)
    PROVE  /\ t.run # 0 => Busy(t) /\ t.wf \in Flows /\ t.at \in Owning
           /\ ~Busy(t) => t.owed = {}
BY DEF Sound, Phase, Hears, Owning, Busy

LEMMA Moves ==
    ASSUME AutoInv, NEW s \in Tasks, Busy(task[s]), NEW t \in TaskRec,
           NEW e \in Events \cup {"none"}, Goes(s, t, e), lists' = lists, enabled' = enabled,
           ~Busy(t) => t.owed = {},
           Busy(t) => Sound(t, hist', lists, enabled),
           Busy(t) /\ t.run # 0 =>
             \A u \in Tasks \ {s} : ~(task[u].run = t.run /\ task[u].wf = t.wf),
           \A u \in Tasks \ {s} : Sound(task[u], hist', lists, enabled)
    PROVE  /\ task' \in [Tasks -> TaskRec] /\ AllSound' /\ Alone' /\ EveryRuleHears'
           /\ Busy(t) => task'[s] = t
           /\ \A u \in Tasks \ {s} : Busy(task[u]) => task'[u] = task[u]
<1>1. /\ task' \in [Tasks -> TaskRec]
      /\ Busy(t) => task'[s] = t
      /\ ~Busy(t) => Inert(task'[s])
      /\ \A u \in Tasks : u # s => task'[u] = task[u] \/ (~Busy(task[u]) /\ Inert(task'[u]))
      /\ missed' = IF Busy(t) THEN missed ELSE missed \cup t.owed
  BY GoesTasks DEF AutoInv, Types
<1>2. AllSound'
  <2>1. ASSUME NEW u \in Tasks PROVE Sound(task'[u], hist', lists, enabled)
    <3>1. CASE u = s
      BY <1>1, <3>1, InertIsSound
    <3>2. CASE u # s
      BY <1>1, <3>2, InertIsSound
    <3> QED BY <3>1, <3>2
  <2> QED BY <2>1 DEF AllSound
<1>3. Alone'
  <2>1. ASSUME NEW u \in Tasks, NEW v \in Tasks, u # v, task'[u].run # 0,
               task'[u].run = task'[v].run, task'[u].wf = task'[v].wf
        PROVE  FALSE
    <3>1. \A x \in Tasks : Inert(task'[x]) => task'[x].run = 0
      BY InertIsSound
    <3>2. \A x \in {u, v} : x # s => task'[x] = task[x]
      BY <1>1, <2>1, <3>1
    <3>3. u # s /\ v # s => FALSE
      BY <2>1, <3>2 DEF AutoInv, Alone
    <3>4. Busy(t) => u # s /\ v # s
      BY <1>1, <2>1, <3>2
    <3>5. ~Busy(t) => u # s /\ v # s
      BY <1>1, <2>1, <3>1
    <3> QED BY <3>3, <3>4, <3>5
  <2> QED BY <2>1 DEF Alone
<1>4. EveryRuleHears'
  BY <1>1 DEF AutoInv, EveryRuleHears
<1> QED BY <1>1, <1>2, <1>3, <1>4

\* The histories stay, and a run that the task gives up is over.
LEMMA Plain ==
    ASSUME AutoInv, NEW s \in Tasks, Busy(task[s]), NEW t \in TaskRec,
           NEW e \in Events \cup {"none"}, Goes(s, t, e),
           UNCHANGED <<rules, flow, hist, patrol, excused, cutoff, stopped>>,
           ~Busy(t) => t.owed = {},
           Busy(t) => Sound(t, hist, lists, enabled),
           \/ Busy(t) /\ t.run = task[s].run /\ t.wf = task[s].wf
           \/ t.run = 0 /\ (task[s].run # 0 => hist[task[s].wf][task[s].run] # "running"),
           task[s].at \in {"judging", "disabling"} =>
             \/ Busy(t) /\ t.at \in {"judging", "disabling"} /\ t.wf = task[s].wf
             \/ Threshold > 0 => ~AllFailed(hist[task[s].wf])
             \/ ~(flow[task[s].wf].here /\ flow[task[s].wf].on)
    PROVE  Types' /\ AllSound' /\ Alone' /\ RunsAccounted' /\ Caught' /\ EveryRuleHears'
<1>1. /\ task' \in [Tasks -> TaskRec] /\ AllSound' /\ Alone' /\ EveryRuleHears'
      /\ Busy(t) => task'[s] = t
      /\ \A u \in Tasks \ {s} : Busy(task[u]) => task'[u] = task[u]
  <2>1. lists' = lists /\ enabled' = enabled /\ hist' = hist
    BY DEF rules
  <2>2. \A u \in Tasks \ {s} : Sound(task[u], hist', lists, enabled)
    BY <2>1 DEF AutoInv, AllSound
  <2>3. Busy(t) /\ t.run # 0 =>
          \A u \in Tasks \ {s} : ~(task[u].run = t.run /\ task[u].wf = t.wf)
    BY DEF AutoInv, Alone
  <2> QED BY <2>1, <2>2, <2>3, Moves
<1>2. Types'
  BY <1>1 DEF AutoInv, Types, rules
<1>3. RunsAccounted'
  <2>1. ASSUME NEW f \in Flows, NEW i \in 1..Len(hist[f]), hist[f][i] = "running",
               <<f, i>> \notin cutoff
        PROVE  \E u \in Tasks : Busy(task'[u]) /\ task'[u].run = i /\ task'[u].wf = f
    <3>1. PICK u \in Tasks : Busy(task[u]) /\ task[u].run = i /\ task[u].wf = f
      BY <2>1 DEF AutoInv, RunsAccounted
    <3>2. CASE u # s
      BY <1>1, <3>1, <3>2
    <3>3. CASE u = s
      BY <1>1, <2>1, <3>1, <3>3
    <3> QED BY <3>2, <3>3
  <2> QED BY <2>1 DEF RunsAccounted
<1>4. Caught'
  <2>1. ASSUME NEW f \in Flows, flow[f].here, flow[f].on, f \notin excused, Threshold > 0,
               AllFailed(hist[f])
        PROVE  \E u \in Tasks : task'[u].at \in {"judging", "disabling"} /\ task'[u].wf = f
    <3>1. PICK u \in Tasks : task[u].at \in {"judging", "disabling"} /\ task[u].wf = f
      BY <2>1 DEF AutoInv, Caught
    <3>2. CASE u # s
      BY <1>1, <3>1, <3>2 DEF Busy
    <3>3. CASE u = s
      BY <1>1, <2>1, <3>1, <3>3
    <3> QED BY <3>2, <3>3
  <2> QED BY <2>1 DEF Caught
<1> QED BY <1>1, <1>2, <1>3, <1>4

(***************************************************************************)
(* The steps of a task, one by one.                                        *)
(***************************************************************************)
Shared == Types /\ AllSound /\ Alone /\ RunsAccounted /\ Caught /\ EveryRuleHears

\* A check or a trigger that has given up its run, if it had one, goes on to what is next.
LEMMA GoesOn ==
    ASSUME AutoInv, NEW s \in Tasks, Busy(task[s]), NEW t,
           Onward(t, {"persisting", "starting"}),
           NEW e \in Events \cup {"none"}, Goes(s, t, e),
           UNCHANGED <<rules, flow, hist, patrol, excused, cutoff, stopped>>,
           task[s].run # 0 => hist[task[s].wf][task[s].run] # "running",
           task[s].at \in {"judging", "disabling"} =>
             \/ Threshold > 0 => ~AllFailed(hist[task[s].wf])
             \/ ~(flow[task[s].wf].here /\ flow[task[s].wf].on)
    PROVE  Shared'
<1>1. t \in TaskRec /\ t.run = 0 /\ (~Busy(t) => t.owed = {})
      /\ (Busy(t) => Sound(t, hist, lists, enabled))
  BY DEF Onward
<1>2. Types' /\ AllSound' /\ Alone' /\ RunsAccounted' /\ Caught' /\ EveryRuleHears'
  BY <1>1, Plain
<1> QED BY <1>2 DEF Shared

LEMMA BeginsKeeps ==
    ASSUME AutoInv, NEW s \in Tasks, Begins(s)
    PROVE  Shared'
<1> DEFINE t == task[s]
           now == Last(lists)
<1>1. t \in TaskRec /\ t.at = "new" /\ Busy(t) /\ t.run = 0 /\ t.owed = {}
      /\ (t.kind = "alert" => t.event \in Events)
  BY DEF AutoInv, Types, AllSound, Sound, Phase, Hears, Owning, Begins, Busy
<1>2. UNCHANGED <<rules, flow, hist, patrol, excused, cutoff, stopped>>
  BY DEF Begins, rulesVars, flowVars
<1>3. CASE t.kind = "alert"
  <2> DEFINE owed == {r \in Range(now) : Matches(r, t.event)}
             new  == [t EXCEPT !.gen = Len(lists), !.owed = owed]
  <2>1. Len(lists) \in 1..Len(lists) /\ now \in Seq(Rules) /\ now = lists[Len(lists)]
    BY DEF AutoInv, Types, Last
  <2>2. ASSUME NEW r \in owed
        PROVE  r \in Rules /\ r \in enabled /\ EventOf[r] \in {"*", t.event}
               /\ \E p \in 1..Len(now) : p >= 1 /\ now[p] = r
    BY <2>1 DEF Range, Matches
  <2>3. new \in TaskRec /\ new.kind = "alert" /\ new.gen = Len(lists) /\ new.owed = owed
        /\ new.event = t.event
    <3>1. owed \subseteq Rules /\ Len(lists) \in Nat
      BY <2>1, <2>2
    <3> HIDE DEF owed
    <3> QED BY <1>1, <1>3, <3>1 DEF TaskRec
  <2>4. Goes(s, From(new, 1), "none")
    BY <1>3 DEF Begins
  <2> HIDE DEF new, owed
  <2>5. Pending(new, 1, lists, enabled)
    BY <2>1, <2>2, <2>3 DEF Pending
  <2>6. Onward(From(new, 1), {"persisting", "starting"})
    <3>1. Onward(From(new, 1), {"persisting"})
      BY <1>1, <1>3, <2>3, <2>5, FromSound DEF AutoInv
    <3> QED BY <3>1 DEF Onward
  <2> QED BY <1>1, <1>2, <2>4, <2>6, GoesOn
<1>4. CASE t.kind # "alert"
  <2> DEFINE new == [t EXCEPT !.at = "listing"]
  <2>1. new \in TaskRec /\ new.at = "listing" /\ new.kind = t.kind /\ new.run = t.run
        /\ new.wf = t.wf /\ new.owed = t.owed
    BY <1>1 DEF TaskRec, Points
  <2>2. Goes(s, new, "none")
    BY <1>4 DEF Begins
  <2> HIDE DEF new
  <2>3. Sound(new, hist, lists, enabled) /\ Busy(new)
    BY <1>1, <1>4, <2>1 DEF Sound, Phase, Hears, Pending, Owning, Busy
  <2> HIDE DEF t
  <2>4. Types' /\ AllSound' /\ Alone' /\ RunsAccounted' /\ Caught' /\ EveryRuleHears'
    BY <1>1, <1>2, <2>1, <2>2, <2>3, Plain DEF t
  <2> QED BY <2>4 DEF Shared
<1> QED BY <1>3, <1>4

LEMMA PersistsKeeps ==
    ASSUME AutoInv, NEW s \in Tasks, Persists(s)
    PROVE  Shared'
<1> DEFINE t   == task[s]
           rec == Recorded(t)
<1>1. t \in TaskRec /\ t.at = "persisting" /\ Busy(t) /\ t.run = 0 /\ t.kind = "alert"
      /\ t.event \in Events /\ t.rule \in Rules /\ Pending(t, t.i, lists, enabled)
      /\ t.i \in 1..Len(lists[t.gen]) /\ lists[t.gen][t.i] = t.rule
  BY DEF AutoInv, Types, AllSound, Sound, Phase, Hears, Owning, Persists, Busy
<1>2. UNCHANGED <<rules, flow, hist, patrol, excused, cutoff, stopped>>
  BY DEF Persists, rulesVars, flowVars
<1>3. rec \in TaskRec /\ rec.at = "persisting" /\ rec.kind = "alert" /\ rec.run = t.run
      /\ rec.wf = t.wf /\ rec.event = t.event /\ rec.i = t.i /\ rec.gen = t.gen
      /\ rec.owed = t.owed \ {t.rule} /\ rec.rule = t.rule
  BY <1>1 DEF Recorded, TaskRec
<1>4. Pending(rec, rec.i + 1, lists, enabled)
  <2>1. ASSUME NEW r \in rec.owed
        PROVE  \E p \in 1..Len(lists[t.gen]) : p >= t.i + 1 /\ lists[t.gen][p] = r
    <3>1. r \in t.owed /\ r # t.rule
      BY <1>3, <2>1
    <3>2. PICK p \in 1..Len(lists[t.gen]) : p >= t.i /\ lists[t.gen][p] = r
      BY <1>1, <3>1 DEF Pending
    <3>3. p # t.i
      BY <1>1, <3>1, <3>2
    <3>4. p \in Nat /\ t.i \in Nat
      BY <1>1, <3>2 DEF TaskRec
    <3> QED BY <3>2, <3>3, <3>4
  <2>2. \A r \in rec.owed : r \in enabled /\ EventOf[r] \in {"*", rec.event}
    BY <1>1, <1>3 DEF Pending
  <2>3. rec.gen \in 1..Len(lists)
    BY <1>1, <1>3 DEF Pending
  <2> HIDE DEF rec, t
  <2> QED BY <1>3, <2>1, <2>2, <2>3 DEF Pending
<1>5. CASE Suppressed(t)
  <2>1. Goes(s, From(rec, rec.i + 1), "none")
    BY <1>3, <1>5 DEF Persists
  <2>2. Onward(From(rec, rec.i + 1), {"persisting", "starting"})
    <3>1. rec.i + 1 \in Nat \ {0}
      BY <1>3 DEF TaskRec
    <3>2. Onward(From(rec, rec.i + 1), {"persisting"})
      <4> HIDE DEF rec, t
      <4> QED BY <1>1, <1>3, <1>4, <3>1, FromSound DEF AutoInv
    <3> QED BY <3>2 DEF Onward
  <2> HIDE DEF rec
  <2> QED BY <1>1, <1>2, <2>1, <2>2, GoesOn
<1>6. CASE ~Suppressed(t)
  <2> DEFINE new == [rec EXCEPT !.at = "sending"]
  <2>1. new \in TaskRec /\ new.at = "sending" /\ new.kind = "alert" /\ new.run = t.run
        /\ new.wf = t.wf /\ new.event = t.event /\ new.i = rec.i /\ new.gen = rec.gen
        /\ new.owed = rec.owed /\ new.rule = t.rule
    <3> HIDE DEF rec
    <3> QED BY <1>3 DEF TaskRec, Points
  <2>2. Goes(s, new, "none")
    BY <1>6 DEF Persists
  <2> HIDE DEF new, rec
  <2>3. Sound(new, hist, lists, enabled) /\ Busy(new)
    BY <1>1, <1>3, <1>4, <2>1 DEF Sound, Phase, Hears, Pending, Owning, Busy
  <2> HIDE DEF t
  <2>4. Types' /\ AllSound' /\ Alone' /\ RunsAccounted' /\ Caught' /\ EveryRuleHears'
    BY <1>1, <1>2, <2>1, <2>2, <2>3, Plain DEF t
  <2> QED BY <2>4 DEF Shared
<1> QED BY <1>5, <1>6

LEMMA SendRaisesKeeps ==
    ASSUME AutoInv, NEW s \in Tasks, SendRaises(s)
    PROVE  Shared'
<1>1. task[s].at = "sending" /\ Busy(task[s]) /\ task[s].run = 0
  BY DEF AutoInv, AllSound, Sound, Phase, Owning, SendRaises, Busy
<1>2. UNCHANGED <<rules, flow, hist, patrol, excused, cutoff, stopped>>
  BY DEF SendRaises, rulesVars, flowVars
<1>3. Onward(Free, {"persisting", "starting"})
  BY NewTasks DEF Onward, Free, Busy, Inert, Events, Inner
<1> QED BY <1>1, <1>2, <1>3, GoesOn DEF SendRaises

LEMMA ListsKeeps ==
    ASSUME AutoInv, NEW s \in Tasks, Lists(s)
    PROVE  Shared'
<1> DEFINE t    == task[s]
           todo == {f \in Flows : flow[f].here /\ flow[f].on /\ TriggerOf[f] = t.kind}
           new  == [t EXCEPT !.todo = todo]
<1>1. t \in TaskRec /\ t.at \in {"sending", "listing"} /\ Busy(t) /\ t.run = 0
      /\ (t.kind = "alert" => t.event \in Events) /\ Pending(t, t.i + 1, lists, enabled)
  BY DEF AutoInv, Types, AllSound, Sound, Phase, Hears, Owning, Lists, Busy
<1>2. UNCHANGED <<rules, flow, hist, patrol, excused, cutoff, stopped>>
  BY DEF Lists, rulesVars, flowVars
<1>3. new \in TaskRec /\ new.kind = t.kind /\ new.event = t.event /\ new.i = t.i
      /\ new.gen = t.gen /\ new.owed = t.owed
  <2>1. todo \subseteq Flows
    OBVIOUS
  <2> HIDE DEF todo
  <2> QED BY <1>1, <2>1 DEF TaskRec
<1>4. Goes(s, NextFlow(new), "none")
  BY DEF Lists
<1> HIDE DEF new
<1>5. Pending(new, new.i + 1, lists, enabled)
  BY <1>1, <1>3 DEF Pending
<1>6. Onward(NextFlow(new), {"persisting", "starting"})
  BY <1>1, <1>3, <1>5, NextSound DEF AutoInv
<1> QED BY <1>1, <1>2, <1>4, <1>6, GoesOn

LEMMA StartsKeeps ==
    ASSUME AutoInv, NEW s \in Tasks, Starts(s)
    PROVE  Shared'
<1> DEFINE t == task[s]
           f == t.wf
           n == Len(hist[f]) + 1
           r == [t EXCEPT !.run = n]
<1>1. t \in TaskRec /\ t.at = "starting" /\ Busy(t) /\ t.run = 0 /\ f \in Flows
      /\ (t.kind = "alert" => t.event \in Events) /\ Pending(t, t.i + 1, lists, enabled)
  BY DEF AutoInv, Types, AllSound, Sound, Phase, Hears, Owning, Starts, Busy
<1>2. UNCHANGED <<rules, flow, patrol, cutoff, stopped>>
  BY DEF Starts, rulesVars
<1>3. CASE ~flow[f].here
  <2> DEFINE new == [t EXCEPT !.todo = {}]
  <2>1. new \in TaskRec /\ new.kind = t.kind /\ new.event = t.event /\ new.i = t.i
        /\ new.gen = t.gen /\ new.owed = t.owed
    BY <1>1 DEF TaskRec
  <2>2. Goes(s, From(new, new.i + 1), "none") /\ UNCHANGED <<hist, excused>>
    BY <1>3 DEF Starts
  <2> HIDE DEF new
  <2>3. Pending(new, new.i + 1, lists, enabled)
    BY <1>1, <2>1 DEF Pending
  <2>4. Onward(From(new, new.i + 1), {"persisting", "starting"})
    <3>1. new.i + 1 \in Nat \ {0}
      BY <2>1 DEF TaskRec
    <3>2. Onward(From(new, new.i + 1), {"persisting"})
      BY <1>1, <2>1, <2>3, <3>1, FromSound DEF AutoInv
    <3> QED BY <3>2 DEF Onward
  <2> QED BY <1>1, <1>2, <2>2, <2>4, GoesOn
<1>4. CASE flow[f].here
  <2>1. hist' = [hist EXCEPT ![f] = Append(@, "running")] /\ excused' = excused \ {f}
    BY <1>4 DEF Starts
  <2>2. hist[f] \in Seq(Statuses) /\ Len(hist[f]) \in Nat
    BY <1>1 DEF AutoInv, Types
  <2>3. /\ hist' \in [Flows -> Seq(Statuses)]
        /\ \A g \in Flows : g # f => hist'[g] = hist[g]
        /\ Len(hist'[f]) = n /\ hist'[f][n] = "running"
        /\ \A i \in 1..Len(hist[f]) : hist'[f][i] = hist[f][i]
    <3>1. Append(hist[f], "running") \in Seq(Statuses)
      BY <2>2 DEF Statuses
    <3>2. hist'[f] = Append(hist[f], "running") /\ \A g \in Flows : g # f => hist'[g] = hist[g]
      BY <1>1, <2>1 DEF AutoInv, Types
    <3>3. hist' \in [Flows -> Seq(Statuses)]
      BY <1>1, <2>1, <3>1 DEF AutoInv, Types
    <3> QED BY <2>2, <3>2, <3>3, AppendProperties
  <2>4. PICK new : /\ new \in {[r EXCEPT !.at = "stepping"], Skips(r)}
                   /\ Goes(s, new, "none")
    BY <1>4 DEF Starts
  <2>5. new \in TaskRec /\ new.at \in {"stepping", "recording"} /\ new.run = n /\ new.wf = f
        /\ (new.at = "recording" => new.result = "skipped") /\ new.kind = t.kind
        /\ new.event = t.event /\ new.i = t.i /\ new.gen = t.gen /\ new.owed = t.owed
    <3>1. n \in Nat
      BY <2>2
    <3> HIDE DEF n
    <3> QED BY <1>1, <2>4, <3>1 DEF Skips, TaskRec, Points, Results
  <2>6. Sound(new, hist', lists, enabled) /\ Busy(new)
    <3>1. Pending(new, new.i + 1, lists, enabled)
      BY <1>1, <2>5 DEF Pending
    <3>2. Hears(new, lists, enabled)
      BY <2>5, <3>1 DEF Hears
    <3>3. Phase(new, hist')
      BY <1>1, <2>2, <2>3, <2>5 DEF Phase, Owning
    <3> QED BY <2>5, <3>2, <3>3 DEF Sound, Busy
  <2>7. ASSUME NEW u \in Tasks \ {s}
        PROVE  /\ Sound(task[u], hist', lists, enabled)
               /\ ~(task[u].run = n /\ task[u].wf = f)
    <3>1. Sound(task[u], hist, lists, enabled) /\ task[u].run \in Nat
      BY DEF AutoInv, AllSound, Types, TaskRec
    <3>2. task[u].run # 0 => task[u].wf \in Flows /\ task[u].run \in 1..Len(hist[task[u].wf])
      BY <3>1 DEF Sound, Phase, Owning
    <3>3. Phase(task[u], hist')
      <4>1. CASE task[u].at \in Owning
        <5>1. task[u].wf \in Flows /\ task[u].run \in 1..Len(hist[task[u].wf])
          BY <3>1, <4>1 DEF Sound, Phase
        <5>2. /\ task[u].run \in 1..Len(hist'[task[u].wf])
              /\ hist'[task[u].wf][task[u].run] = hist[task[u].wf][task[u].run]
          <6> DEFINE g == task[u].wf
                     i == task[u].run
          <6>1. CASE g = f
            <7>1. 1..Len(hist[f]) \subseteq 1..n
              BY <2>2
            <7> HIDE DEF g, i, n
            <7> QED BY <2>3, <5>1, <6>1, <7>1 DEF g, i
          <6>2. CASE g # f
            BY <2>3, <5>1, <6>2
          <6> QED BY <6>1, <6>2
        <5> QED BY <3>1, <4>1, <5>1, <5>2 DEF Sound, Phase
      <4>2. CASE task[u].at \notin Owning
        BY <3>1, <4>2 DEF Sound, Phase, Owning
      <4> QED BY <4>1, <4>2
    <3> QED BY <2>2, <3>1, <3>2, <3>3 DEF Sound
  <2>8. /\ task' \in [Tasks -> TaskRec] /\ AllSound' /\ Alone' /\ EveryRuleHears'
        /\ task'[s] = new
        /\ \A u \in Tasks \ {s} : Busy(task[u]) => task'[u] = task[u]
    <3>1. lists' = lists /\ enabled' = enabled
      BY <1>2 DEF rules
    <3> HIDE DEF t, r
    <3> QED BY <1>1, <2>3, <2>4, <2>5, <2>6, <2>7, <3>1, Moves DEF t
  <2>9. Types'
    BY <1>2, <2>1, <2>3, <2>8 DEF AutoInv, Types, rules
  <2>10. RunsAccounted'
    <3>1. ASSUME NEW g \in Flows, NEW i \in 1..Len(hist'[g]), hist'[g][i] = "running",
                 <<g, i>> \notin cutoff
          PROVE  \E u \in Tasks : Busy(task'[u]) /\ task'[u].run = i /\ task'[u].wf = g
      <4>1. CASE g = f /\ i = n
        BY <2>5, <2>6, <2>8, <4>1
      <4>2. CASE ~(g = f /\ i = n)
        <5>1. i \in 1..Len(hist[g]) /\ hist[g][i] = "running"
          BY <2>2, <2>3, <3>1, <4>2
        <5>2. PICK u \in Tasks : Busy(task[u]) /\ task[u].run = i /\ task[u].wf = g
          BY <3>1, <5>1 DEF AutoInv, RunsAccounted
        <5>3. u # s
          BY <1>1, <5>1, <5>2
        <5> QED BY <2>8, <5>2, <5>3
      <4> QED BY <4>1, <4>2
    <3>2. cutoff' = cutoff
      BY <1>2
    <3> QED BY <3>1, <3>2 DEF RunsAccounted
  <2>11. Caught'
    <3>1. ASSUME NEW g \in Flows, flow[g].here, flow[g].on, g \notin excused', Threshold > 0,
                 AllFailed(hist'[g])
          PROVE  \E u \in Tasks : task'[u].at \in {"judging", "disabling"} /\ task'[u].wf = g
      <4>1. g # f
        <5>1. Len(hist'[f]) \in Len(hist'[f]) - Threshold + 1..Len(hist'[f])
          BY <2>2, <2>3, <3>1, AutomationAssumption
        <5> QED BY <2>3, <3>1, <5>1 DEF AllFailed
      <4>2. g \notin excused /\ AllFailed(hist[g])
        BY <2>1, <2>3, <3>1, <4>1
      <4>3. PICK u \in Tasks : task[u].at \in {"judging", "disabling"} /\ task[u].wf = g
        BY <3>1, <4>2 DEF AutoInv, Caught
      <4>4. u # s /\ Busy(task[u])
        BY <1>1, <4>3 DEF Busy
      <4> QED BY <2>8, <4>3, <4>4
    <3>2. flow' = flow
      BY <1>2
    <3> QED BY <3>1, <3>2 DEF Caught
  <2> QED BY <2>8, <2>9, <2>10, <2>11 DEF Shared
<1> QED BY <1>3, <1>4

LEMMA StepsEndKeeps ==
    ASSUME AutoInv, NEW s \in Tasks, StepsEnd(s)
    PROVE  Shared'
<1> DEFINE t == task[s]
<1>1. t \in TaskRec /\ t.at = "stepping" /\ Busy(t) /\ Sound(t, hist, lists, enabled)
  BY DEF AutoInv, Types, AllSound, StepsEnd, Busy
<1>2. UNCHANGED <<rules, flow, hist, patrol, excused, cutoff, stopped>>
  BY DEF StepsEnd, rulesVars, flowVars
<1>3. PICK res \in {"succeeded", "failed"}, e \in {"none", "workflow.failed"} :
        Goes(s, [t EXCEPT !.at = "recording", !.result = res], e)
  BY DEF StepsEnd
<1> DEFINE new == [t EXCEPT !.at = "recording", !.result = res]
<1>4. new \in TaskRec /\ new.at = "recording" /\ new.result # "none" /\ new.run = t.run
      /\ new.wf = t.wf /\ new.kind = t.kind /\ new.event = t.event /\ new.i = t.i
      /\ new.gen = t.gen /\ new.owed = t.owed
  BY <1>1 DEF TaskRec, Points, Results
<1>5. Goes(s, new, e)
  BY <1>3
<1> HIDE DEF new
<1>6. Pending(new, new.i + 1, lists, enabled)
  BY <1>1, <1>4 DEF Sound, Hears, Pending
<1>7. Sound(new, hist, lists, enabled) /\ Busy(new)
  BY <1>1, <1>4, <1>6 DEF Sound, Phase, Hears, Owning, Busy
<1>8. e \in Events \cup {"none"}
  BY DEF Events, Inner
<1> HIDE DEF t
<1>9. Types' /\ AllSound' /\ Alone' /\ RunsAccounted' /\ Caught' /\ EveryRuleHears'
  BY <1>1, <1>2, <1>4, <1>5, <1>7, <1>8, Plain DEF t
<1> QED BY <1>9 DEF Shared

LEMMA RecordsKeeps ==
    ASSUME AutoInv, NEW s \in Tasks, Records(s)
    PROVE  Shared'
<1> DEFINE t     == task[s]
           f     == t.wf
           n     == t.run
           judge == t.result = "failed" /\ Threshold > 0
           new   == IF judge THEN [t EXCEPT !.at = "judging"] ELSE NextFlow(t)
<1>1. t \in TaskRec /\ t.at = "recording" /\ Busy(t) /\ f \in Flows /\ t.result # "none"
      /\ n \in 1..Len(hist[f]) /\ (t.kind = "alert" => t.event \in Events)
      /\ Pending(t, t.i + 1, lists, enabled)
  BY DEF AutoInv, Types, AllSound, Sound, Phase, Hears, Owning, Records, Busy
<1>2. UNCHANGED <<rules, flow, patrol, excused, cutoff, stopped>>
      /\ hist' = [hist EXCEPT ![f][n] = t.result] /\ Goes(s, new, "none")
  BY DEF Records, Written, rulesVars
<1>3. hist[f] \in Seq(Statuses) /\ Len(hist[f]) \in Nat /\ t.result \in Statuses
  BY <1>1 DEF AutoInv, Types, TaskRec, Results, Statuses
<1>4. /\ hist' \in [Flows -> Seq(Statuses)]
      /\ \A g \in Flows : g # f => hist'[g] = hist[g]
      /\ Len(hist'[f]) = Len(hist[f]) /\ hist'[f][n] = t.result
      /\ \A i \in 1..Len(hist[f]) : i # n => hist'[f][i] = hist[f][i]
  <2>1. hist'[f] = [hist[f] EXCEPT ![n] = t.result]
        /\ \A g \in Flows : g # f => hist'[g] = hist[g]
    BY <1>1, <1>2 DEF AutoInv, Types
  <2>2. [hist[f] EXCEPT ![n] = t.result] \in Seq(Statuses)
        /\ Len([hist[f] EXCEPT ![n] = t.result]) = Len(hist[f])
    BY <1>1, <1>3, ExceptSeq
  <2>3. hist' = [hist EXCEPT ![f] = [hist[f] EXCEPT ![n] = t.result]]
    BY <1>2
  <2>4. hist' \in [Flows -> Seq(Statuses)]
    BY <1>1, <2>2, <2>3 DEF AutoInv, Types
  <2> QED BY <1>1, <1>3, <2>1, <2>2, <2>4
<1>5. \A g \in Flows : Len(hist'[g]) = Len(hist[g])
  BY <1>4
<1>6. new \in TaskRec /\ (~Busy(new) => new.owed = {})
      /\ (Busy(new) => Sound(new, hist', lists, enabled))
      /\ (judge => new.at = "judging" /\ new.run = n /\ new.wf = f)
      /\ (~judge => new.run = 0)
  <2>1. CASE judge
    <3>1. new = [t EXCEPT !.at = "judging"]
      BY <2>1
    <3> HIDE DEF new
    <3>2. new \in TaskRec /\ new.at = "judging" /\ new.run = n /\ new.wf = f /\ new.kind = t.kind
          /\ new.event = t.event /\ new.i = t.i /\ new.gen = t.gen /\ new.owed = t.owed
      BY <1>1, <3>1 DEF TaskRec, Points
    <3>3. Pending(new, new.i + 1, lists, enabled)
      BY <1>1, <3>2 DEF Pending
    <3>4. Hears(new, lists, enabled)
      BY <3>2, <3>3 DEF Hears
    <3>5. Phase(new, hist')
      BY <1>1, <1>3, <1>4, <2>1, <3>2 DEF Phase, Owning
    <3> QED BY <2>1, <3>2, <3>4, <3>5 DEF Sound, Busy
  <2>2. CASE ~judge
    <3>1. Onward(NextFlow(t), {"persisting", "starting"})
      BY <1>1, NextSound DEF AutoInv
    <3> HIDE DEF judge
    <3> QED BY <2>2, <3>1 DEF Onward
  <2> QED BY <2>1, <2>2
<1>7. ASSUME NEW u \in Tasks \ {s}
      PROVE  /\ Sound(task[u], hist', lists, enabled)
             /\ ~(task[u].run = n /\ task[u].wf = f)
  <2>1. n # 0
    BY <1>1, <1>3
  <2>2. ~(task[u].run = n /\ task[u].wf = f)
    BY <2>1 DEF AutoInv, Alone
  <2>3. Sound(task[u], hist, lists, enabled)
    BY DEF AutoInv, AllSound
  <2>4. task[u].at \in Owning => task[u].wf \in Flows /\ task[u].run \in 1..Len(hist[task[u].wf])
    BY <2>3 DEF Sound, Phase
  <2>5. task[u].at \in Owning =>
          hist'[task[u].wf][task[u].run] = hist[task[u].wf][task[u].run]
    BY <1>4, <2>2, <2>4
  <2>6. Phase(task[u], hist')
    BY <1>5, <2>3, <2>4, <2>5 DEF Sound, Phase, Owning
  <2> QED BY <2>2, <2>3, <2>6 DEF Sound
<1>8. /\ task' \in [Tasks -> TaskRec] /\ AllSound' /\ Alone' /\ EveryRuleHears'
      /\ Busy(new) => task'[s] = new
      /\ \A u \in Tasks \ {s} : Busy(task[u]) => task'[u] = task[u]
  <2>1. lists' = lists /\ enabled' = enabled
    BY <1>2 DEF rules
  <2>2. Busy(new) /\ new.run # 0 =>
          \A u \in Tasks \ {s} : ~(task[u].run = new.run /\ task[u].wf = new.wf)
    <3> HIDE DEF new, judge
    <3> QED BY <1>6, <1>7
  <2> HIDE DEF t, new
  <2> QED BY <1>1, <1>2, <1>4, <1>6, <1>7, <2>1, <2>2, Moves DEF t
<1>9. Types'
  BY <1>2, <1>4, <1>8 DEF AutoInv, Types, rules
<1>10. RunsAccounted'
  <2>1. ASSUME NEW g \in Flows, NEW i \in 1..Len(hist'[g]), hist'[g][i] = "running",
               <<g, i>> \notin cutoff
        PROVE  \E u \in Tasks : Busy(task'[u]) /\ task'[u].run = i /\ task'[u].wf = g
    <3>1. ~(g = f /\ i = n)
      BY <1>1, <1>4, <2>1 DEF TaskRec, Results
    <3>2. i \in 1..Len(hist[g]) /\ hist[g][i] = "running"
      BY <1>4, <1>5, <2>1, <3>1
    <3>3. PICK u \in Tasks : Busy(task[u]) /\ task[u].run = i /\ task[u].wf = g
      BY <2>1, <3>2 DEF AutoInv, RunsAccounted
    <3>4. u # s
      BY <3>1, <3>3
    <3> QED BY <1>8, <3>3, <3>4
  <2>2. cutoff' = cutoff
    BY <1>2
  <2> QED BY <2>1, <2>2 DEF RunsAccounted
<1>11. Caught'
  <2>1. ASSUME NEW g \in Flows, flow[g].here, flow[g].on, g \notin excused, Threshold > 0,
               AllFailed(hist'[g])
        PROVE  \E u \in Tasks : task'[u].at \in {"judging", "disabling"} /\ task'[u].wf = g
    <3>1. CASE g = f /\ judge
      <4> HIDE DEF new
      <4> QED BY <1>6, <1>8, <3>1 DEF Busy
    <3>2. CASE ~(g = f /\ judge)
      <4>1. AllFailed(hist[g])
        <5>1. CASE g # f
          BY <1>4, <2>1, <5>1
        <5>2. CASE g = f
          <6>1. t.result # "failed"
            BY <2>1, <3>2, <5>2
          <6>2. Len(hist[f]) >= Threshold
            BY <1>5, <2>1, <5>2 DEF AllFailed
          <6>3. ASSUME NEW i \in Len(hist[f]) - Threshold + 1..Len(hist[f])
                PROVE  hist[f][i] = "failed"
            <7>1. i \in 1..Len(hist[f])
              BY <1>3, <6>2, AutomationAssumption
            <7>2. hist'[f][i] = "failed"
              BY <1>5, <2>1, <5>2, <6>3 DEF AllFailed
            <7> QED BY <1>4, <6>1, <7>1, <7>2
          <6> QED BY <5>2, <6>2, <6>3 DEF AllFailed
        <5> QED BY <5>1, <5>2
      <4>2. PICK u \in Tasks : task[u].at \in {"judging", "disabling"} /\ task[u].wf = g
        BY <2>1, <4>1 DEF AutoInv, Caught
      <4>3. u # s /\ Busy(task[u])
        BY <1>1, <4>2 DEF Busy
      <4> QED BY <1>8, <4>2, <4>3
    <3> QED BY <3>1, <3>2
  <2>2. flow' = flow /\ excused' = excused
    BY <1>2
  <2> QED BY <2>1, <2>2 DEF Caught
<1> QED BY <1>8, <1>9, <1>10, <1>11 DEF Shared

LEMMA JudgesKeeps ==
    ASSUME AutoInv, NEW s \in Tasks, Judges(s)
    PROVE  Shared'
<1> DEFINE t == task[s]
<1>1. t \in TaskRec /\ t.at = "judging" /\ Busy(t) /\ t.wf \in Flows
      /\ hist[t.wf][t.run] = "failed" /\ (t.kind = "alert" => t.event \in Events)
      /\ Pending(t, t.i + 1, lists, enabled) /\ Sound(t, hist, lists, enabled)
  BY DEF AutoInv, Types, AllSound, Sound, Phase, Hears, Owning, Judges, Busy
<1>2. UNCHANGED <<rules, flow, hist, patrol, excused, cutoff, stopped>>
  BY DEF Judges, rulesVars, flowVars
<1>3. CASE AllFailed(hist[t.wf])
  <2> DEFINE new == [t EXCEPT !.at = "disabling"]
  <2>1. new \in TaskRec /\ new.at = "disabling" /\ new.run = t.run /\ new.wf = t.wf
        /\ new.kind = t.kind /\ new.event = t.event /\ new.i = t.i /\ new.gen = t.gen
        /\ new.owed = t.owed
    BY <1>1 DEF TaskRec, Points
  <2>2. Goes(s, new, "none")
    BY <1>3 DEF Judges, Streak
  <2> HIDE DEF new
  <2>3. Pending(new, new.i + 1, lists, enabled)
    BY <1>1, <2>1 DEF Pending
  <2>4. Sound(new, hist, lists, enabled) /\ Busy(new)
    BY <1>1, <2>1, <2>3 DEF Sound, Phase, Hears, Owning, Busy
  <2> HIDE DEF t
  <2>5. Types' /\ AllSound' /\ Alone' /\ RunsAccounted' /\ Caught' /\ EveryRuleHears'
    BY <1>1, <1>2, <2>1, <2>2, <2>4, Plain DEF t
  <2> QED BY <2>5 DEF Shared
<1>4. CASE ~AllFailed(hist[t.wf])
  <2>1. Goes(s, NextFlow(t), "none")
    BY <1>4 DEF Judges, Streak
  <2>2. Onward(NextFlow(t), {"persisting", "starting"})
    BY <1>1, NextSound DEF AutoInv
  <2> QED BY <1>1, <1>2, <1>4, <2>1, <2>2, GoesOn
<1> QED BY <1>3, <1>4

LEMMA DisablesKeeps ==
    ASSUME AutoInv, NEW s \in Tasks, Disables(s)
    PROVE  Shared'
<1> DEFINE t   == task[s]
           f   == t.wf
           new == NextFlow(t)
<1>1. t \in TaskRec /\ t.at = "disabling" /\ Busy(t) /\ f \in Flows
      /\ hist[f][t.run] = "failed" /\ (t.kind = "alert" => t.event \in Events)
      /\ Pending(t, t.i + 1, lists, enabled)
  BY DEF AutoInv, Types, AllSound, Sound, Phase, Hears, Owning, Disables, Busy
<1>2. UNCHANGED <<rules, hist, patrol, excused, cutoff, stopped>>
  BY DEF Disables, rulesVars
<1>3. Onward(new, {"persisting", "starting"})
  BY <1>1, NextSound DEF AutoInv
<1>4. CASE flow[f].here /\ flow[f].on
  <2>1. flow' = [flow EXCEPT ![f].on = FALSE, ![f].marked = TRUE]
        /\ Goes(s, new, "workflow.auto_disabled")
    BY <1>4 DEF Disables
  <2>2. flow' \in [Flows -> [here : BOOLEAN, on : BOOLEAN, marked : BOOLEAN]]
        /\ ~flow'[f].on /\ \A g \in Flows : g # f => flow'[g] = flow[g]
    BY <1>1, <2>1 DEF AutoInv, Types
  <2>3. new \in TaskRec /\ new.run = 0 /\ (~Busy(new) => new.owed = {})
        /\ (Busy(new) => Sound(new, hist, lists, enabled))
    BY <1>3 DEF Onward
  <2> HIDE DEF new, t
  <2>4. /\ task' \in [Tasks -> TaskRec] /\ AllSound' /\ Alone' /\ EveryRuleHears'
        /\ \A u \in Tasks \ {s} : Busy(task[u]) => task'[u] = task[u]
    <3>1. lists' = lists /\ enabled' = enabled /\ hist' = hist
      BY <1>2 DEF rules
    <3>2. \A u \in Tasks \ {s} : Sound(task[u], hist', lists, enabled)
      BY <3>1 DEF AutoInv, AllSound
    <3>3. "workflow.auto_disabled" \in Events \cup {"none"} /\ hist' \in [Flows -> Seq(Statuses)]
      BY <3>1 DEF Events, Inner, AutoInv, Types
    <3> QED BY <1>1, <2>1, <2>3, <3>1, <3>2, <3>3, Moves DEF t
  <2>5. Types'
    BY <1>2, <2>2, <2>4 DEF AutoInv, Types, rules
  <2>6. RunsAccounted'
    <3>1. ASSUME NEW g \in Flows, NEW i \in 1..Len(hist[g]), hist[g][i] = "running",
                 <<g, i>> \notin cutoff
          PROVE  \E u \in Tasks : Busy(task'[u]) /\ task'[u].run = i /\ task'[u].wf = g
      <4>1. PICK u \in Tasks : Busy(task[u]) /\ task[u].run = i /\ task[u].wf = g
        BY <3>1 DEF AutoInv, RunsAccounted
      <4>2. u # s
        BY <1>1, <3>1, <4>1 DEF t
      <4> QED BY <2>4, <4>1, <4>2
    <3> QED BY <1>2, <3>1 DEF RunsAccounted
  <2>7. Caught'
    <3>1. ASSUME NEW g \in Flows, flow'[g].here, flow'[g].on, g \notin excused, Threshold > 0,
                 AllFailed(hist[g])
          PROVE  \E u \in Tasks : task'[u].at \in {"judging", "disabling"} /\ task'[u].wf = g
      <4>1. g # f /\ flow[g].here /\ flow[g].on
        BY <2>2, <3>1
      <4>2. PICK u \in Tasks : task[u].at \in {"judging", "disabling"} /\ task[u].wf = g
        BY <3>1, <4>1 DEF AutoInv, Caught
      <4>3. u # s /\ Busy(task[u])
        BY <1>1, <4>1, <4>2 DEF t, Busy
      <4> QED BY <2>4, <4>2, <4>3
    <3> QED BY <1>2, <3>1 DEF Caught
  <2> QED BY <2>4, <2>5, <2>6, <2>7 DEF Shared
<1>5. CASE ~(flow[f].here /\ flow[f].on)
  <2>1. Goes(s, new, "none") /\ UNCHANGED flow
    BY <1>5 DEF Disables
  <2> HIDE DEF new
  <2> QED BY <1>1, <1>2, <1>3, <1>5, <2>1, GoesOn
<1> QED BY <1>4, <1>5

(***************************************************************************)
(* What comes from outside.                                                *)
(***************************************************************************)
\* Nothing but a free task begins something; flow, excused and patrol may change, as long
\* as a workflow that is switched on is excused.
LEMMA Enters ==
    ASSUME AutoInv, UNCHANGED <<rules, hist, cutoff, missed>>,
           task' \in [Tasks -> TaskRec], stopped' \in BOOLEAN,
           \A u \in Tasks : \/ task'[u] = task[u]
                            \/ /\ ~Busy(task[u]) /\ task'[u].run = 0
                               /\ Sound(task'[u], hist, lists, enabled),
           flow' \in [Flows -> [here : BOOLEAN, on : BOOLEAN, marked : BOOLEAN]],
           excused \subseteq excused', excused' \subseteq Flows, patrol' \subseteq Flows,
           \A f \in Flows : flow'[f].here /\ flow'[f].on /\ f \notin excused' =>
                            flow[f].here /\ flow[f].on
    PROVE  Shared'
<1>1. UNCHANGED <<lists, enabled, hist, cutoff, missed>>
  BY DEF rules
<1>2. Types' /\ EveryRuleHears'
  BY <1>1 DEF AutoInv, Types, EveryRuleHears
<1>3. AllSound'
  BY <1>1 DEF AutoInv, AllSound
<1>4. Alone'
  <2>1. \A u \in Tasks : task'[u].run # 0 => task'[u] = task[u]
    OBVIOUS
  <2> QED BY <2>1 DEF AutoInv, Alone
<1>5. \A u \in Tasks : Busy(task[u]) => task'[u] = task[u]
  OBVIOUS
<1>6. RunsAccounted'
  BY <1>1, <1>5 DEF AutoInv, RunsAccounted
<1>7. Caught'
  <2>1. ASSUME NEW f \in Flows, flow'[f].here, flow'[f].on, f \notin excused', Threshold > 0,
               AllFailed(hist[f])
        PROVE  \E u \in Tasks : task'[u].at \in {"judging", "disabling"} /\ task'[u].wf = f
    <3>1. PICK u \in Tasks : task[u].at \in {"judging", "disabling"} /\ task[u].wf = f
      BY <2>1 DEF AutoInv, Caught
    <3>2. Busy(task[u])
      BY <3>1 DEF Busy
    <3> QED BY <1>5, <3>1, <3>2
  <2> QED BY <1>1, <2>1 DEF Caught
<1> QED BY <1>2, <1>3, <1>4, <1>6, <1>7 DEF Shared

LEMMA InputKeeps ==
    ASSUME AutoInv, NEW t \in TaskRec, t.run = 0, Sound(t, hist, lists, enabled), Input(t)
    PROVE  Shared'
<1>1. PICK v \in Tasks : task[v].at = "free"
  BY DEF Input, Room
<1>2. AnyFree(task) \in Tasks /\ task[AnyFree(task)].at = "free"
  BY <1>1 DEF AnyFree
<1>3. task' = [task EXCEPT ![AnyFree(task)] = t]
      /\ UNCHANGED <<rules, flow, hist, patrol, excused, cutoff, stopped, missed>>
  BY DEF Input, rulesVars, flowVars
<1>4. task' \in [Tasks -> TaskRec]
      /\ \A u \in Tasks : \/ task'[u] = task[u]
                          \/ /\ ~Busy(task[u]) /\ task'[u].run = 0
                             /\ Sound(task'[u], hist, lists, enabled)
  BY <1>2, <1>3 DEF AutoInv, Types, Busy
<1>5. flow' \in [Flows -> [here : BOOLEAN, on : BOOLEAN, marked : BOOLEAN]] /\ flow' = flow
      /\ excused \subseteq excused' /\ excused' \subseteq Flows /\ patrol' \subseteq Flows
      /\ stopped' \in BOOLEAN
  BY <1>3 DEF AutoInv, Types
<1> QED BY <1>3, <1>4, <1>5, Enters

LEMMA ComesIn ==
    ASSUME AutoInv, ConnectionLost \/ WebhookArrives \/ \E f \in Flows : RunNow(f)
    PROVE  Shared'
<1>1. CASE ConnectionLost
  <2> DEFINE t == Handler("alert", "adapter_disconnected")
  <2>1. t \in TaskRec /\ Inert(t)
    BY NewTasks DEF Events
  <2>2. Sound(t, hist, lists, enabled) /\ t.run = 0
    BY <2>1, InertIsSound
  <2> QED BY <1>1, <2>1, <2>2, InputKeeps DEF ConnectionLost
<1>2. CASE WebhookArrives
  <2> DEFINE t == Handler("webhook", "none")
  <2>1. t \in TaskRec /\ Inert(t)
    BY DEF Handler, Free, TaskRec, Points, Kinds, Results, Inert
  <2>2. Sound(t, hist, lists, enabled) /\ t.run = 0
    BY <2>1, InertIsSound
  <2> QED BY <1>2, <2>1, <2>2, InputKeeps DEF WebhookArrives
<1>3. ASSUME NEW f \in Flows, RunNow(f) PROVE Shared'
  <2> DEFINE t == [Handler("direct", "none") EXCEPT !.at = "starting", !.wf = f]
  <2>1. t \in TaskRec /\ t.run = 0 /\ t.at = "starting" /\ t.wf = f /\ t.owed = {}
        /\ t.kind = "direct"
    BY DEF Handler, Free, TaskRec, Points, Kinds, Results
  <2>2. Sound(t, hist, lists, enabled)
    BY <2>1 DEF Sound, Phase, Hears, Pending, Owning
  <2>3. Input(t)
    BY <1>3 DEF RunNow
  <2> QED BY <2>1, <2>2, <2>3, InputKeeps
<1> QED BY <1>1, <1>2, <1>3

\* A list only grows at its end, and the lists before the last one stay as they are.
LEMMA ListsGrow ==
    ASSUME AutoInv, lists' \in Seq(Seq(Rules)), lists' # << >>,
           \A g \in 1..Len(lists) :
             /\ g \in 1..Len(lists')
             /\ \A p \in 1..Len(lists[g]) :
                  p \in 1..Len(lists'[g]) /\ lists'[g][p] = lists[g][p],
           UNCHANGED <<enabled, flow, hist, task, patrol, excused, cutoff, stopped, missed>>
    PROVE  Shared'
<1>1. Types' /\ Alone' /\ RunsAccounted' /\ Caught' /\ EveryRuleHears'
  BY DEF AutoInv, Types, Alone, RunsAccounted, Caught, EveryRuleHears
<1>2. ASSUME NEW u \in Tasks PROVE Sound(task[u], hist, lists', enabled)
  <2> DEFINE t == task[u]
             n == IF t.at = "persisting" THEN t.i ELSE t.i + 1
  <2>1. Sound(t, hist, lists, enabled)
    BY DEF AutoInv, AllSound
  <2>2. ASSUME t.at \notin {"free", "new"} PROVE Pending(t, n, lists', enabled)
    <3>1. Pending(t, n, lists, enabled)
      BY <2>1, <2>2 DEF Sound, Hears
    <3> HIDE DEF n, t
    <3> QED BY <3>1 DEF Pending
  <2>3. t.at = "persisting" =>
          t.i \in 1..Len(lists'[t.gen]) /\ lists'[t.gen][t.i] = t.rule
    <3>1. t.at = "persisting" => t.gen \in 1..Len(lists)
      BY <2>1 DEF Sound, Hears, Phase, Pending
    <3> QED BY <2>1, <3>1 DEF Sound, Hears
  <2> QED BY <2>1, <2>2, <2>3 DEF Sound, Hears
<1>3. AllSound'
  BY <1>2 DEF AllSound
<1> QED BY <1>1, <1>3 DEF Shared

LEMMA AddRuleKeeps ==
    ASSUME AutoInv, NEW r \in Rules, AddRule(r)
    PROVE  Shared'
<1> DEFINE n   == Len(lists)
           new == Append(lists[n], r)
<1>1. lists \in Seq(Seq(Rules)) /\ n \in 1..n /\ lists[n] \in Seq(Rules)
  BY DEF AutoInv, Types
<1>2. lists' = [lists EXCEPT ![n] = new]
      /\ UNCHANGED <<enabled, flow, hist, task, patrol, excused, cutoff, stopped, missed>>
  BY DEF AddRule, flowVars
<1>3. new \in Seq(Rules) /\ Len(new) = Len(lists[n]) + 1
      /\ \A p \in 1..Len(lists[n]) : new[p] = lists[n][p]
  BY <1>1, AppendProperties
<1> HIDE DEF new
<1>4. lists' \in Seq(Seq(Rules)) /\ Len(lists') = n /\ lists'[n] = new
      /\ \A g \in 1..n : g # n => lists'[g] = lists[g]
  <2>1. new \in Seq(Rules)
    BY <1>3
  <2> DEFINE S == Seq(Rules)
  <2> HIDE DEF S
  <2>2. lists \in Seq(S) /\ new \in S
    BY <1>1, <2>1 DEF S
  <2>3. [lists EXCEPT ![n] = new] \in Seq(S)
        /\ Len([lists EXCEPT ![n] = new]) = n
        /\ \A g \in 1..n : [lists EXCEPT ![n] = new][g] = IF g = n THEN new ELSE lists[g]
    BY <1>1, <2>2, ExceptSeq
  <2> QED BY <1>1, <1>2, <2>3 DEF S
<1>5. ASSUME NEW g \in 1..Len(lists)
      PROVE  /\ g \in 1..Len(lists')
             /\ \A p \in 1..Len(lists[g]) :
                  p \in 1..Len(lists'[g]) /\ lists'[g][p] = lists[g][p]
  <2>1. CASE g = n
    <3>1. Len(lists[n]) \in Nat
      BY <1>1
    <3> QED BY <1>3, <1>4, <2>1, <3>1
  <2>2. CASE g # n
    BY <1>4, <2>2
  <2> QED BY <2>1, <2>2
<1>6. lists' # << >>
  BY <1>1, <1>4, EmptySeq
<1> QED BY <1>2, <1>4, <1>5, <1>6, ListsGrow

\* What is left of a list has its elements in their order.
LEMMA OthersAre ==
    ASSUME NEW name, NEW q \in Seq(Rules), NEW new \in NamedOtherwise(name, q)
    PROVE  /\ new \in Seq(Rules)
           /\ (\A i, j \in 1..Len(q) : q[i] = q[j] => i = j) =>
                \A i, j \in 1..Len(new) : new[i] = new[j] => i = j
<1> DEFINE places == {p \in 1..Len(q) : NameOf[q[p]] # name}
           m      == Cardinality(places)
<1>1. PICK f \in [1..m -> places] :
        /\ \A j, k \in DOMAIN f : j < k => f[j] < f[k]
        /\ new = [j \in 1..m |-> q[f[j]]]
  BY DEF NamedOtherwise
<1>2. m \in Nat
  <2>1. IsFiniteSet(1..Len(q))
    BY FS_Interval
  <2> QED BY <2>1, FS_Subset, FS_CardinalityType
<1>3. \A j \in 1..m : f[j] \in 1..Len(q)
  OBVIOUS
<1> HIDE DEF m, places
<1>4. new \in [1..m -> Rules]
  BY <1>1, <1>3
<1>5. new \in Seq(Rules) /\ Len(new) = m
  BY <1>2, <1>4
<1>6. ASSUME \A i, j \in 1..Len(q) : q[i] = q[j] => i = j,
             NEW i \in 1..Len(new), NEW j \in 1..Len(new), new[i] = new[j]
      PROVE  i = j
  <2>1. i \in 1..m /\ j \in 1..m /\ DOMAIN f = 1..m
    BY <1>1, <1>5
  <2>2. f[i] = f[j] /\ f[i] \in Int
    BY <1>1, <1>3, <1>6, <2>1
  <2>3. ~(f[i] < f[j]) /\ ~(f[j] < f[i])
    BY <2>2
  <2>4. ~(i < j) /\ ~(j < i)
    BY <1>1, <2>1, <2>3
  <2> QED BY <2>1, <2>4
<1> QED BY <1>5, <1>6

LEMMA RemoveRuleKeeps ==
    ASSUME AutoInv, NEW name, RemoveRule(name)
    PROVE  Shared'
<1> DEFINE n == Len(lists)
<1>1. lists \in Seq(Seq(Rules)) /\ n \in 1..n /\ Last(lists) \in Seq(Rules)
  BY DEF AutoInv, Types, Last
<1>2. PICK new \in NamedOtherwise(name, Last(lists)) : lists' = Append(lists, new)
  BY DEF RemoveRule, RemovedFromNew
<1>3. UNCHANGED <<enabled, flow, hist, task, patrol, excused, cutoff, stopped, missed>>
  BY DEF RemoveRule, flowVars
<1>4. new \in Seq(Rules)
  BY <1>1, <1>2, OthersAre
<1>5. lists' \in Seq(Seq(Rules)) /\ Len(lists') = n + 1
      /\ \A g \in 1..n : lists'[g] = lists[g]
  <2> DEFINE S == Seq(Rules)
  <2> HIDE DEF S
  <2>1. lists \in Seq(S) /\ new \in S
    BY <1>1, <1>4 DEF S
  <2> QED BY <1>2, <2>1, AppendProperties DEF S
<1>6. \A g \in 1..Len(lists) :
        /\ g \in 1..Len(lists')
        /\ \A q \in 1..Len(lists[g]) : q \in 1..Len(lists'[g]) /\ lists'[g][q] = lists[g][q]
  BY <1>1, <1>5
<1>7. lists' # << >>
  BY <1>1, <1>5, EmptySeq
<1> QED BY <1>3, <1>5, <1>6, <1>7, ListsGrow

\* Some rule is switched.
LEMMA ToggledIs ==
    ASSUME AutoInv, NEW name, ToggleRule(name)
    PROVE  \E r \in Rules :
             /\ enabled' = IF r \in enabled THEN enabled \ {r} ELSE enabled \cup {r}
             /\ task' = [s \in Tasks |-> [task[s] EXCEPT !.owed = @ \ {r}]]
<1> DEFINE named == {p \in 1..Len(Last(lists)) : NameOf[Last(lists)[p]] = name}
           r     == Last(lists)[Least(named)]
<1>1. Last(lists) \in Seq(Rules) /\ named # {}
  BY DEF AutoInv, Types, Last, ToggleRule
<1>2. Least(named) \in named
  <2>1. named \subseteq Nat
    OBVIOUS
  <2> HIDE DEF named
  <2> QED BY <1>1, <2>1, LeastIsLeast
<1>3. Least(named) \in 1..Len(Last(lists))
  BY <1>2
<1>4. r \in Rules
  <2> HIDE DEF named
  <2> QED BY <1>1, <1>3
<1> QED BY <1>4 DEF ToggleRule

LEMMA ToggleRuleKeeps ==
    ASSUME AutoInv, NEW name, ToggleRule(name)
    PROVE  Shared'
<1>0. PICK r \in Rules :
        /\ enabled' = IF r \in enabled THEN enabled \ {r} ELSE enabled \cup {r}
        /\ task' = [s \in Tasks |-> [task[s] EXCEPT !.owed = @ \ {r}]]
  BY ToggledIs
<1> DEFINE less(t) == [t EXCEPT !.owed = @ \ {r}]
<1>1. UNCHANGED <<lists, flow, hist, patrol, excused, cutoff, stopped, missed>>
      /\ task' = [s \in Tasks |-> less(task[s])]
      /\ enabled' = IF r \in enabled THEN enabled \ {r} ELSE enabled \cup {r}
  BY <1>0 DEF ToggleRule, flowVars
<1>2. ASSUME NEW s \in Tasks
      PROVE  /\ task'[s] \in TaskRec
             /\ task'[s].at = task[s].at /\ task'[s].kind = task[s].kind
             /\ task'[s].event = task[s].event /\ task'[s].gen = task[s].gen
             /\ task'[s].i = task[s].i /\ task'[s].rule = task[s].rule
             /\ task'[s].wf = task[s].wf /\ task'[s].run = task[s].run
             /\ task'[s].result = task[s].result
             /\ task'[s].owed = task[s].owed \ {r}
  <2>1. task'[s] = less(task[s]) /\ task[s] \in TaskRec
    BY <1>1 DEF AutoInv, Types
  <2> DEFINE t == task[s]
             u == task'[s]
  <2>2. t \in TaskRec /\ u = [t EXCEPT !.owed = @ \ {r}]
    BY <2>1
  <2> HIDE DEF t, u
  <2>3. u \in TaskRec /\ u.at = t.at /\ u.kind = t.kind /\ u.event = t.event /\ u.gen = t.gen
        /\ u.i = t.i /\ u.rule = t.rule /\ u.wf = t.wf /\ u.run = t.run
        /\ u.result = t.result /\ u.owed = t.owed \ {r}
    BY <2>2 DEF TaskRec
  <2> QED BY <2>3 DEF t, u
<1>3. Types'
  <2>1. task' \in [Tasks -> TaskRec]
    BY <1>1, <1>2
  <2>2. enabled' \subseteq Rules
    BY <1>1 DEF AutoInv, Types
  <2> QED BY <1>1, <2>1, <2>2 DEF AutoInv, Types
<1>4. \A s \in Tasks : /\ task'[s].at = task[s].at /\ task'[s].run = task[s].run
                        /\ task'[s].wf = task[s].wf
  BY <1>2
<1>5. AllSound'
  <2>1. ASSUME NEW s \in Tasks PROVE Sound(task'[s], hist, lists, enabled')
    <3> DEFINE t == task[s]
               u == task'[s]
               n == IF t.at = "persisting" THEN t.i ELSE t.i + 1
    <3>1. Sound(t, hist, lists, enabled)
      BY DEF AutoInv, AllSound
    <3>2. u.at = t.at /\ u.kind = t.kind /\ u.event = t.event /\ u.gen = t.gen /\ u.i = t.i
          /\ u.rule = t.rule /\ u.wf = t.wf /\ u.run = t.run /\ u.result = t.result
          /\ u.owed = t.owed \ {r}
      BY <1>2
    <3> HIDE DEF t, u
    <3>3. Phase(u, hist)
      BY <3>1, <3>2 DEF Sound, Phase
    <3>4. Pending(t, n, lists, enabled) => Pending(u, n, lists, enabled')
      BY <1>1, <3>2 DEF Pending
    <3>5. Hears(u, lists, enabled')
      BY <3>1, <3>2, <3>4 DEF Sound, Hears
    <3> QED BY <3>3, <3>5 DEF Sound, u
  <2> QED BY <1>1, <2>1 DEF AllSound
<1>6. UNCHANGED <<flow, hist, excused, cutoff, missed>>
  BY <1>1
<1>7. Alone'
  BY <1>4 DEF AutoInv, Alone
<1>8. RunsAccounted'
  BY <1>4, <1>6 DEF AutoInv, RunsAccounted, Busy
<1>9. Caught' /\ EveryRuleHears'
  BY <1>4, <1>6 DEF AutoInv, Caught, EveryRuleHears
<1> QED BY <1>3, <1>5, <1>7, <1>8, <1>9 DEF Shared

LEMMA FlowPagesKeep ==
    ASSUME AutoInv, NEW f \in Flows, Enable(f) \/ Edit(f) \/ Delete(f)
    PROVE  Shared'
<1>1. UNCHANGED <<rules, hist, cutoff, missed, task, stopped, patrol>>
  BY DEF Enable, Edit, Delete
<1>2. PICK row \in [here : BOOLEAN, on : BOOLEAN, marked : BOOLEAN] :
        /\ flow' = [flow EXCEPT ![f] = row]
        /\ row.here => flow[f].here
        /\ row.on => flow[f].on \/ excused' = excused \cup {f}
        /\ excused' \in {excused, excused \cup {f}}
  <2>1. flow[f] \in [here : BOOLEAN, on : BOOLEAN, marked : BOOLEAN]
    BY DEF AutoInv, Types
  <2>2. CASE Enable(f)
    <3> DEFINE row == [flow[f] EXCEPT !.on = TRUE, !.marked = FALSE]
    <3>1. row \in [here : BOOLEAN, on : BOOLEAN, marked : BOOLEAN] /\ row.here = flow[f].here
      BY <2>1
    <3>2. flow' = [flow EXCEPT ![f] = row] /\ excused' = excused \cup {f} /\ flow[f].here
      BY <2>2 DEF Enable
    <3> HIDE DEF row
    <3> QED BY <3>1, <3>2
  <2>3. CASE Edit(f)
    <3> DEFINE row == [flow[f] EXCEPT !.marked = FALSE]
    <3>1. row \in [here : BOOLEAN, on : BOOLEAN, marked : BOOLEAN] /\ row.here = flow[f].here
          /\ row.on = flow[f].on
      BY <2>1
    <3>2. flow' = [flow EXCEPT ![f] = row] /\ excused' = excused
      BY <2>3 DEF Edit
    <3> HIDE DEF row
    <3> QED BY <3>1, <3>2
  <2>4. CASE Delete(f)
    <3> DEFINE row == [here |-> FALSE, on |-> FALSE, marked |-> FALSE]
    <3>1. row \in [here : BOOLEAN, on : BOOLEAN, marked : BOOLEAN] /\ ~row.here /\ ~row.on
      OBVIOUS
    <3>2. flow' = [flow EXCEPT ![f] = row] /\ excused' = excused
      BY <2>4 DEF Delete
    <3> HIDE DEF row
    <3> QED BY <3>1, <3>2
  <2> QED BY <2>2, <2>3, <2>4
<1>3. flow' \in [Flows -> [here : BOOLEAN, on : BOOLEAN, marked : BOOLEAN]] /\ flow'[f] = row
      /\ \A g \in Flows : g # f => flow'[g] = flow[g]
  BY <1>2 DEF AutoInv, Types
<1>4. \A g \in Flows : flow'[g].here /\ flow'[g].on /\ g \notin excused' =>
                        flow[g].here /\ flow[g].on
  BY <1>2, <1>3
<1>5. excused \subseteq excused' /\ excused' \subseteq Flows
  BY <1>2 DEF AutoInv, Types
<1>6. task' \in [Tasks -> TaskRec] /\ stopped' \in BOOLEAN /\ patrol' \subseteq Flows
      /\ \A u \in Tasks : task'[u] = task[u]
  BY <1>1 DEF AutoInv, Types
<1> QED BY <1>1, <1>3, <1>4, <1>5, <1>6, Enters

LEMMA PatrolWritesKeeps ==
    ASSUME AutoInv, NEW f \in Flows, PatrolWrites(f)
    PROVE  Shared'
<1>1. UNCHANGED <<rules, hist, cutoff, stopped, missed>>
  BY DEF PatrolWrites, rulesVars
<1>2. CASE ~flow[f].here
  <2>1. patrol' = {} /\ UNCHANGED <<flow, excused, task>>
    BY <1>2 DEF PatrolWrites
  <2>2. /\ task' \in [Tasks -> TaskRec] /\ stopped' \in BOOLEAN
        /\ flow' \in [Flows -> [here : BOOLEAN, on : BOOLEAN, marked : BOOLEAN]]
        /\ \A u \in Tasks : task'[u] = task[u]
        /\ excused \subseteq excused' /\ excused' \subseteq Flows /\ patrol' \subseteq Flows
        /\ \A g \in Flows : flow'[g].here /\ flow'[g].on => flow[g].here /\ flow[g].on
    BY <1>1, <2>1 DEF AutoInv, Types
  <2> QED BY <1>1, <2>2, Enters
<1>3. CASE flow[f].here
  <2>1. /\ Room
        /\ flow' = [flow EXCEPT ![f].on = TRUE, ![f].marked = FALSE]
        /\ excused' = excused \cup {f}
        /\ patrol' = patrol \ {f}
        /\ task' = Dispatched(task, "workflow.auto_reenabled")
    BY <1>3 DEF PatrolWrites
  <2>2. flow' \in [Flows -> [here : BOOLEAN, on : BOOLEAN, marked : BOOLEAN]]
        /\ \A g \in Flows : g # f => flow'[g] = flow[g]
    BY <2>1 DEF AutoInv, Types
  <2>3. /\ stopped' \in BOOLEAN
        /\ excused \subseteq excused' /\ excused' \subseteq Flows /\ patrol' \subseteq Flows
        /\ \A g \in Flows : flow'[g].here /\ flow'[g].on /\ g \notin excused' =>
                             flow[g].here /\ flow[g].on
    BY <1>1, <2>1, <2>2 DEF AutoInv, Types
  <2>4. task' \in [Tasks -> TaskRec]
        /\ \A u \in Tasks : \/ task'[u] = task[u]
                            \/ /\ ~Busy(task[u]) /\ task'[u].run = 0
                               /\ Sound(task'[u], hist, lists, enabled)
    <3> DEFINE t == Handler("alert", "workflow.auto_reenabled")
               v == AnyFree(task)
    <3>1. t \in TaskRec /\ t.run = 0 /\ Sound(t, hist, lists, enabled)
      <4>1. t \in TaskRec /\ Inert(t)
        BY NewTasks DEF Events, Inner
      <4> QED BY <4>1, InertIsSound
    <3>2. v \in Tasks /\ task[v].at = "free"
      BY <2>1 DEF Room, AnyFree
    <3>3. task' = task \/ task' = [task EXCEPT ![v] = t]
      BY <2>1 DEF Dispatched
    <3> HIDE DEF t, v
    <3> QED BY <3>1, <3>2, <3>3 DEF AutoInv, Types, Busy
  <2> QED BY <1>1, <2>2, <2>3, <2>4, Enters
<1> QED BY <1>2, <1>3

LEMMA QuietKeeps ==
    ASSUME AutoInv, PatrolReads \/ Stop \/ (\E k \in Rules \X Events : IntervalPasses(k))
    PROVE  Shared'
<1>1. UNCHANGED <<rules, hist, cutoff, missed, task, flow, excused>>
  BY DEF PatrolReads, Stop, IntervalPasses, flowVars
<1>2. patrol' \subseteq Flows /\ stopped' \in BOOLEAN
  BY DEF PatrolReads, Stop, IntervalPasses, flowVars, AutoInv, Types
<1>3. task' \in [Tasks -> TaskRec] /\ (\A u \in Tasks : task'[u] = task[u])
      /\ flow' \in [Flows -> [here : BOOLEAN, on : BOOLEAN, marked : BOOLEAN]]
      /\ excused \subseteq excused' /\ excused' \subseteq Flows
      /\ \A f \in Flows : flow'[f].here /\ flow'[f].on => flow[f].here /\ flow[f].on
  BY <1>1 DEF AutoInv, Types
<1> QED BY <1>1, <1>2, <1>3, Enters

LEMMA StopTimesOutKeeps ==
    ASSUME AutoInv, StopTimesOut
    PROVE  Shared'
<1> DEFINE cancelled == {s \in Tasks : Busy(task[s]) /\ task[s].kind # "direct"}
           cut       == {s \in cancelled : task[s].run # 0}
<1>1. /\ task' = [s \in Tasks |-> IF s \in cancelled THEN Free ELSE task[s]]
      /\ excused' = excused \cup {task[s].wf : s \in cut}
      /\ cutoff' = cutoff \cup {<<task[s].wf, task[s].run>> : s \in cut}
      /\ UNCHANGED <<lists, enabled, flow, hist, patrol, stopped, missed>>
  BY DEF StopTimesOut, rulesVars, rules
<1>2. Free \in TaskRec /\ Inert(Free)
  BY NewTasks DEF Events, Inner
<1>3. \A s \in cut : task[s].wf \in Flows
  BY SoundIsBusy DEF AutoInv, AllSound
<1>4. \A s \in Tasks : task'[s] = Free \/ task'[s] = task[s]
  BY <1>1
<1>11. \A s \in Tasks : s \notin cancelled => task'[s] = task[s]
  BY <1>1
<1>5. Types'
  <2>1. task' \in [Tasks -> TaskRec]
    BY <1>1, <1>2 DEF AutoInv, Types
  <2>2. excused' \subseteq Flows
    BY <1>1, <1>3 DEF AutoInv, Types
  <2> QED BY <1>1, <2>1, <2>2 DEF AutoInv, Types
<1>6. AllSound'
  BY <1>1, <1>2, <1>4, InertIsSound DEF AutoInv, AllSound
<1>7. Alone'
  <2>1. \A s \in Tasks : task'[s].run # 0 => task'[s] = task[s]
    BY <1>2, <1>4 DEF Inert
  <2> QED BY <2>1 DEF AutoInv, Alone
<1>8. RunsAccounted'
  <2>1. ASSUME NEW f \in Flows, NEW i \in 1..Len(hist[f]), hist[f][i] = "running",
               <<f, i>> \notin cutoff'
        PROVE  \E u \in Tasks : Busy(task'[u]) /\ task'[u].run = i /\ task'[u].wf = f
    <3>1. <<f, i>> \notin cutoff
      BY <1>1, <2>1
    <3>2. PICK u \in Tasks : Busy(task[u]) /\ task[u].run = i /\ task[u].wf = f
      BY <2>1, <3>1 DEF AutoInv, RunsAccounted
    <3>3. i # 0
      BY <2>1 DEF AutoInv, Types
    <3>4. u \notin cancelled
      <4>1. ASSUME u \in cancelled PROVE FALSE
        <5>1. u \in cut
          BY <3>2, <3>3, <4>1
        <5>2. <<task[u].wf, task[u].run>> \in cutoff'
          BY <1>1, <5>1
        <5> QED BY <2>1, <3>2, <5>2
      <4> QED BY <4>1
    <3>5. task'[u] = task[u]
      BY <1>11, <3>4
    <3> QED BY <3>2, <3>5
  <2> QED BY <1>1, <2>1 DEF RunsAccounted
<1>9. Caught'
  <2>1. ASSUME NEW f \in Flows, flow[f].here, flow[f].on, f \notin excused', Threshold > 0,
               AllFailed(hist[f])
        PROVE  \E u \in Tasks : task'[u].at \in {"judging", "disabling"} /\ task'[u].wf = f
    <3>1. f \notin excused
      BY <1>1, <2>1
    <3>2. PICK u \in Tasks : task[u].at \in {"judging", "disabling"} /\ task[u].wf = f
      BY <2>1, <3>1 DEF AutoInv, Caught
    <3>3. task[u].run # 0
      <4>1. task[u].run \in 1..Len(hist[f]) /\ Len(hist[f]) \in Nat
        BY <3>2 DEF AutoInv, AllSound, Sound, Phase, Owning, Types
      <4> QED BY <4>1
    <3>4. u \notin cancelled
      BY <1>1, <2>1, <3>2, <3>3
    <3>5. task'[u] = task[u]
      BY <1>11, <3>4
    <3> QED BY <3>2, <3>5
  <2> QED BY <1>1, <2>1 DEF Caught
<1>10. EveryRuleHears'
  BY <1>1 DEF AutoInv, EveryRuleHears
<1> QED BY <1>5, <1>6, <1>7, <1>8, <1>9, <1>10 DEF Shared

(***************************************************************************)
(* The notifications counted per key.                                      *)
(***************************************************************************)
LEMMA CountingKeeps ==
    ASSUME AutoInv, Next
    PROVE  Counting'
<1>1. CASE UNCHANGED <<recent, calls>>
  BY <1>1 DEF AutoInv, Counting
<1>2. ASSUME NEW s \in Tasks, Persists(s), ~Suppressed(task[s]) PROVE Counting'
  <2> DEFINE t == task[s]
             k == Key(t)
  <2>1. t.rule \in Rules /\ t.event \in Events /\ EventOf[t.rule] \in {"*", t.event}
    BY <1>2 DEF AutoInv, AllSound, Sound, Phase, Persists
  <2>2. recent' = Noted(t) /\ calls' = Counted(t)
    BY <1>2 DEF Persists
  <2>3. recent \subseteq recent' /\ recent' \subseteq Debounced \X Events
    BY <2>2 DEF Noted, Heard, AutoInv, Counting
  <2>4. CASE t.rule \notin Debounced
    BY <2>2, <2>3, <2>4 DEF Counted, AutoInv, Counting
  <2>5. CASE t.rule \in Debounced
    <3>1. k \notin recent /\ k \in Debounced \X Events /\ k \in Rules \X Events
      BY <1>2, <2>1, <2>5 DEF Suppressed, Key
    <3>2. k \in recent' /\ calls' = [calls EXCEPT ![k] = @ + 1]
      BY <2>1, <2>2, <2>5 DEF Noted, Counted, Heard, Namesakes, Key
    <3> HIDE DEF k
    <3>3. calls[k] = 0
      BY <3>1 DEF AutoInv, Counting
    <3> QED BY <2>3, <3>1, <3>2, <3>3 DEF AutoInv, Counting
  <2> QED BY <2>4, <2>5
<1>3. ASSUME NEW k \in Rules \X Events, IntervalPasses(k) PROVE Counting'
  <2>1. recent' = recent \ {k} /\ calls' = [calls EXCEPT ![k] = 0]
    BY <1>3 DEF IntervalPasses
  <2> QED BY <1>3, <2>1 DEF AutoInv, Counting
<1>4. CASE Outside
  <2>1. (\E k \in Rules \X Events : IntervalPasses(k)) \/ UNCHANGED <<recent, calls>>
    BY <1>4 DEF Outside, ConnectionLost, WebhookArrives, RunNow, Input, AddRule, RemoveRule,
                ToggleRule, Enable, Edit, Delete, PatrolReads, PatrolWrites, Stop,
                StopTimesOut, alertVars
  <2> QED BY <1>1, <1>3, <2>1
<1>5. ASSUME NEW s \in Tasks, Step(s) PROVE Counting'
  <2>1. (Persists(s) /\ ~Suppressed(task[s])) \/ UNCHANGED <<recent, calls>>
    BY <1>5 DEF Step, Begins, Persists, SendRaises, Lists, Starts, StepsEnd, Records, Judges,
                Disables, alertVars
  <2> QED BY <1>1, <1>2, <2>1
<1> QED BY <1>4, <1>5 DEF Next

(***************************************************************************)
(* Together.                                                               *)
(***************************************************************************)
LEMMA StepKeeps ==
    ASSUME AutoInv, NEW s \in Tasks, Step(s)
    PROVE  Shared'
BY BeginsKeeps, PersistsKeeps, SendRaisesKeeps, ListsKeeps, StartsKeeps, StepsEndKeeps,
   RecordsKeeps, JudgesKeeps, DisablesKeeps DEF Step

LEMMA OutsideKeeps ==
    ASSUME AutoInv, Outside
    PROVE  Shared'
<1>1. CASE \/ \E r \in Rules : AddRule(r)
           \/ \E name \in {NameOf[r] : r \in Rules} : RemoveRule(name) \/ ToggleRule(name)
  BY <1>1, AddRuleKeeps, RemoveRuleKeeps, ToggleRuleKeeps
<1>2. CASE \E f \in Flows : RunNow(f) \/ Enable(f) \/ Edit(f) \/ Delete(f) \/ PatrolWrites(f)
  BY <1>2, ComesIn, FlowPagesKeep, PatrolWritesKeeps
<1>3. CASE ConnectionLost \/ WebhookArrives
  BY <1>3, ComesIn
<1>4. CASE PatrolReads \/ Stop \/ \E k \in Rules \X Events : IntervalPasses(k)
  BY <1>4, QuietKeeps
<1>5. CASE StopTimesOut
  BY <1>5, StopTimesOutKeeps
<1> QED BY <1>1, <1>2, <1>3, <1>4, <1>5 DEF Outside

\* Nothing that AutoInv mentions changes.
LEMMA Stutters == ASSUME AutoInv, UNCHANGED vars PROVE AutoInv'
<1>1. UNCHANGED <<lists, enabled, recent, flow, hist, task, patrol, stopped, calls, missed,
                  excused, cutoff>>
  BY DEF vars
<1>2. Types' /\ AllSound'
  BY <1>1 DEF AutoInv, Types, AllSound
<1>3. Alone' /\ RunsAccounted'
  BY <1>1 DEF AutoInv, Alone, RunsAccounted
<1>4. Caught' /\ EveryRuleHears' /\ Counting'
  BY <1>1 DEF AutoInv, Caught, EveryRuleHears, Counting
<1> QED BY <1>2, <1>3, <1>4 DEF AutoInv

LEMMA SetToSeqType ==
    ASSUME NEW S, IsFiniteSet(S)
    PROVE  SetToSeq(S) \in Seq(S)
<1> DEFINE n == Cardinality(S)
<1>1. n \in Nat /\ ExistsBijection(1..n, S)
  BY FS_CardinalityType
<1>2. PICK f \in [1..n -> S] : IsInjective(f)
  BY <1>1 DEF ExistsBijection, Bijection, Injection
<1>3. SetToSeq(S) \in [1..n -> S]
  BY <1>2 DEF SetToSeq
<1> QED BY <1>1, <1>3

LEMMA AutoInit == Init => AutoInv
<1> SUFFICES ASSUME Init PROVE AutoInv
  OBVIOUS
<1>1. Free \in TaskRec /\ Inert(Free)
  BY NewTasks DEF Events, Inner
<1>2. \A s \in Tasks : task[s] = Free
  BY DEF Init
<1>3. Types
  <2> DEFINE first == SetToSeq(Saved)
  <2>1. first \in Seq(Saved) /\ Saved \subseteq Rules
    BY AutomationAssumption, SetToSeqType, FS_Subset
  <2> HIDE DEF first
  <2>2. <<first>> \in Seq(Seq(Rules)) /\ <<first>> # << >>
    <3>1. first \in Seq(Rules)
      BY <2>1
    <3> QED BY <3>1
  <2>3. lists \in Seq(Seq(Rules)) /\ lists # << >>
    BY <2>2 DEF Init, first
  <2>4. task \in [Tasks -> TaskRec]
    BY <1>1 DEF Init
  <2>5. hist \in [Flows -> Seq(Statuses)]
    BY DEF Init
  <2>6. flow \in [Flows -> [here : BOOLEAN, on : BOOLEAN, marked : BOOLEAN]]
    BY DEF Init
  <2> QED BY <2>3, <2>4, <2>5, <2>6 DEF Init, Types
<1>4. AllSound
  BY <1>1, <1>2, InertIsSound DEF AllSound
<1>5. Alone
  BY <1>1, <1>2 DEF Alone, Inert
<1>6. RunsAccounted
  BY DEF Init, RunsAccounted
<1>7. Caught
  <2>1. ASSUME Threshold > 0, NEW f \in Flows PROVE ~AllFailed(hist[f])
    BY <2>1, AutomationAssumption DEF Init, AllFailed
  <2> QED BY <2>1 DEF Caught
<1>8. EveryRuleHears
  BY DEF Init, EveryRuleHears
<1>9. Counting
  BY AutomationAssumption DEF Init, Counting
<1> QED BY <1>3, <1>4, <1>5, <1>6, <1>7, <1>8, <1>9 DEF AutoInv

\* AutoInv holds in every state: no task loses its run, no check what it owes.
THEOREM Invariance == Spec => []AutoInv
<1>1. AutoInv /\ [Next]_vars => AutoInv'
  <2> SUFFICES ASSUME AutoInv, [Next]_vars PROVE AutoInv'
    OBVIOUS
  <2>1. CASE Next
    <3>1. Shared'
      BY <2>1, StepKeeps, OutsideKeeps DEF Next
    <3>2. Counting'
      BY <2>1, CountingKeeps
    <3> QED BY <3>1, <3>2 DEF Shared, AutoInv
  <2>2. CASE UNCHANGED vars
    BY <2>2, Stutters
  <2> QED BY <2>1, <2>2
<1> QED BY <1>1, AutoInit, PTL DEF Spec

\* The types of the run of Automation, for any rules, workflows and handlers.
THEOREM Typed == Spec => []TypeOK
<1>1. AutoInv => TypeOK
  <2> SUFFICES ASSUME AutoInv PROVE TypeOK
    OBVIOUS
  <2>1. ASSUME NEW s \in Tasks
        PROVE  /\ task[s].at \in Points
               /\ task[s].at \in {"persisting", "sending"} => task[s].rule \in Rules
               /\ task[s].at \in {"starting", "stepping", "recording", "judging", "disabling"} =>
                    task[s].wf \in Flows
               /\ task[s].todo \subseteq Flows
               /\ task[s].run \in 0..(IF task[s].wf = 0 THEN 0 ELSE Len(hist[task[s].wf]))
    <3>1. task[s] \in TaskRec /\ Phase(task[s], hist)
      BY DEF AutoInv, Types, AllSound, Sound
    <3>2. task[s].run \in 0..(IF task[s].wf = 0 THEN 0 ELSE Len(hist[task[s].wf]))
      <4>1. CASE task[s].at \in Owning
        <5>1. task[s].wf \in Flows /\ task[s].wf # 0 /\ task[s].run \in 1..Len(hist[task[s].wf])
          BY <3>1, <4>1, AutomationAssumption DEF Phase, Flows
        <5> QED BY <5>1
      <4>2. CASE task[s].at \notin Owning
        <5>1. task[s].run = 0 /\ task[s].wf \in Flows \cup {0}
          BY <3>1, <4>2 DEF Phase, TaskRec
        <5>2. \A f \in Flows : Len(hist[f]) \in Nat
          BY DEF AutoInv, Types
        <5> QED BY <5>1, <5>2
      <4> QED BY <4>1, <4>2
    <3> QED BY <3>1, <3>2 DEF Phase, Owning, TaskRec
  <2>2. missed \subseteq Rules /\ recent \subseteq Debounced \X Events
    BY DEF AutoInv, EveryRuleHears, Counting
  <2> QED BY <2>1, <2>2 DEF AutoInv, Types, TypeOK
<1> QED BY <1>1, Invariance, PTL

\* Checks of one event that run at the same time notify a rule once per interval: the
\* time is noted before check() awaits the notification (services/alerts.py).
THEOREM NotifiedOnce == Spec => []OncePerInterval
<1>1. AutoInv => OncePerInterval
  BY DEF AutoInv, Counting, OncePerInterval
<1> QED BY <1>1, Invariance, PTL

\* remove_rule() makes a new list and add_rule() appends, so no check that runs over
\* the old list skips a rule (services/alerts.py).
THEOREM NoRuleSkipped == Spec => []EveryRuleHears
<1>1. AutoInv => EveryRuleHears
  BY DEF AutoInv
<1> QED BY <1>1, Invariance, PTL

\* A run that shows as running belongs to a handler, or the stop cut it off
\* (services/workflow.py, core/bus.py).
THEOREM NoRunLost == Spec => []RunsAccounted
<1>1. AutoInv => RunsAccounted
  BY DEF AutoInv
<1> QED BY <1>1, Invariance, PTL

\* Of handlers that fail a workflow at the same time the last one to judge switches it
\* off: nobody who was right to switch it off overlooks it (services/workflow.py).
THEOREM FailuresDisable == Spec => []QuietMeansDisabled
<1>1. AutoInv => QuietMeansDisabled
  <2> SUFFICES ASSUME AutoInv, NEW f \in Flows, flow[f].here, ~Working(f), f \notin excused,
                      Threshold > 0, AllFailed(hist[f])
               PROVE  ~flow[f].on
    BY DEF QuietMeansDisabled
  <2>1. ASSUME NEW s \in Tasks, task[s].at \in {"judging", "disabling"}, task[s].wf = f
        PROVE  FALSE
    <3>1. task[s].run \in 1..Len(hist[f]) /\ Len(hist[f]) \in Nat /\ Busy(task[s])
      BY <2>1 DEF AutoInv, AllSound, Sound, Phase, Owning, Types, Busy
    <3> QED BY <2>1, <3>1 DEF Working
  <2> QED BY <2>1 DEF AutoInv, Caught
<1> QED BY <1>1, Invariance, PTL

(***************************************************************************)
(* Every run of a workflow is paid for: by a pair that was notified, an    *)
(* input, or a change.  Who will start a run of f is counted in advance    *)
(* (Due), and so is each rule without interval that a check of a lost      *)
(* connection has still before it (Ahead).  A rule is met once in a check  *)
(* because it is added once: names may repeat in a list, objects do not.   *)
(***************************************************************************)
Unpaced == Rules \ Debounced
Own     == IF Debounced = Rules THEN 1 ELSE Cardinality(Unpaced)
Tame    == \A r \in Rules : ~FeedsItself(r)

\* The rules of the list that a check has behind it.
Passed(t, ls) == {ls[t.gen][j] : j \in 1..(IF t.at = "persisting" THEN t.i - 1 ELSE t.i)}

Owes(t, f) == \/ t.at \in {"sending", "listing"}
              \/ t.at = "new" /\ t.kind = "webhook"
              \/ t.at = "starting" /\ t.wf = f
              \/ f \in t.todo

Faces(t, r, ls) == /\ Busy(t) /\ t.kind = "alert" /\ t.event = "adapter_disconnected"
                   /\ r \notin Passed(t, ls)

Due(f) == {s \in Tasks : Owes(task[s], f)}
Ahead  == {p \in Tasks \X Unpaced : Faces(task[p[1]], p[2], lists)}

Order(t, ls) ==
    /\ t.at \in {"free", "new"} => t.i = 0 /\ t.todo = {}
    /\ t.at = "new" => t.kind \in {"alert", "webhook"}
    /\ t.at \in {"persisting", "sending", "listing"} => t.todo = {}
    /\ t.at = "persisting" => EventOf[t.rule] \in {"*", t.event}
    /\ t.at = "starting" => t.wf \notin t.todo
    /\ t.kind = "alert" /\ t.at \notin {"free", "new"} =>
         t.gen \in 1..Len(ls) /\ t.i <= Len(ls[t.gen])

InOrder  == \A s \in Tasks : Order(task[s], lists)
Distinct == \A g \in 1..Len(lists) :
                \A i, j \in 1..Len(lists[g]) : lists[g][i] = lists[g][j] => i = j
Numbers  == changes \in Nat /\ inputs \in Nat /\ recent \subseteq Heard

Covered == \A f \in Flows :
    Len(hist[f]) + Cardinality(Due(f)) + Cardinality(Ahead)
        <= Cardinality(recent) + inputs * Own + changes

ChainInv == InOrder /\ Distinct /\ Numbers /\ (Tame => Covered)

\* What is counted is finite.
LEMMA Finite ==
    /\ IsFiniteSet(Tasks) /\ IsFiniteSet(Unpaced) /\ IsFiniteSet(Tasks \X Unpaced)
    /\ IsFiniteSet(Heard)
<1>1. IsFiniteSet(Tasks)
  BY FS_Interval, AutomationAssumption DEF Tasks
<1>2. IsFiniteSet(Unpaced)
  BY FS_Difference, AutomationAssumption DEF Unpaced
<1>3. IsFiniteSet(Debounced)
  BY FS_Subset, AutomationAssumption
<1>4. IsFiniteSet(Events)
  <2>1. IsFiniteSet({"workflow.failed"})
    BY FS_Singleton
  <2>2. IsFiniteSet({"workflow.failed"} \cup {"workflow.auto_disabled"})
    BY <2>1, FS_AddElement
  <2>3. IsFiniteSet(({"workflow.failed"} \cup {"workflow.auto_disabled"})
                    \cup {"workflow.auto_reenabled"})
    BY <2>2, FS_AddElement
  <2>4. IsFiniteSet(Inner)
    <3>1. Inner = ({"workflow.failed"} \cup {"workflow.auto_disabled"})
                  \cup {"workflow.auto_reenabled"}
      BY DEF Inner
    <3> QED BY <2>3, <3>1
  <2> QED BY <2>4, FS_AddElement DEF Events
<1>5. IsFiniteSet(Tasks \X Unpaced)
  BY <1>1, <1>2, FS_Product
<1>6. IsFiniteSet(Debounced \X Events)
  BY <1>3, <1>4, FS_Product
<1>7. IsFiniteSet(Heard)
  BY <1>6, FS_Subset DEF Heard
<1> QED BY <1>1, <1>2, <1>5, <1>7

LEMMA Counts ==
    ASSUME Numbers, NEW f
    PROVE  /\ IsFiniteSet(Due(f)) /\ Cardinality(Due(f)) \in Nat
           /\ IsFiniteSet(Ahead) /\ Cardinality(Ahead) \in Nat
           /\ IsFiniteSet(recent) /\ Cardinality(recent) \in Nat
           /\ Own \in Nat \ {0} /\ Cardinality(Unpaced) \in Nat
           /\ Cardinality(Unpaced) <= Own
           /\ inputs * Own \in Nat
<1>1. IsFiniteSet(Due(f)) /\ IsFiniteSet(Ahead) /\ IsFiniteSet(recent)
  <2>1. Due(f) \subseteq Tasks /\ Ahead \subseteq Tasks \X Unpaced /\ recent \subseteq Heard
    BY DEF Due, Ahead, Numbers
  <2> QED BY <2>1, Finite, FS_Subset
<1>2. Cardinality(Unpaced) \in Nat
  BY Finite, FS_CardinalityType
<1>3. Own \in Nat \ {0} /\ Cardinality(Unpaced) <= Own
  <2>1. CASE Debounced = Rules
    <3>1. Unpaced = {}
      BY <2>1 DEF Unpaced
    <3> QED BY <2>1, <3>1, FS_EmptySet DEF Own
  <2>2. CASE Debounced # Rules
    <3>1. Unpaced # {}
      BY <2>2, AutomationAssumption DEF Unpaced
    <3>2. Cardinality(Unpaced) # 0
      BY <3>1, Finite, FS_EmptySet
    <3> QED BY <1>2, <2>2, <3>2 DEF Own
  <2> QED BY <2>1, <2>2
<1>4. inputs * Own \in Nat
  <2>1. inputs \in Nat /\ Own \in Nat
    BY <1>3 DEF Numbers
  <2> HIDE DEF Own
  <2> QED BY <2>1
<1> QED BY <1>1, <1>2, <1>3, <1>4, FS_CardinalityType

\* A handler of what happens inside has nothing to count.
LEMMA InnerHandlers ==
    ASSUME NEW e \in Inner, NEW ls
    PROVE  LET h == Handler("alert", e)
           IN  Order(h, ls) /\ (\A f : ~Owes(h, f)) /\ (\A r : ~Faces(h, r, ls))
<1> DEFINE h == Handler("alert", e)
<1>1. h.at = "new" /\ h.kind = "alert" /\ h.event = e /\ h.i = 0 /\ h.todo = {}
  BY DEF Handler, Free
<1>2. e # "adapter_disconnected"
  BY DEF Inner
<1> HIDE DEF h
<1>3. Order(h, ls) /\ (\A f : ~Owes(h, f)) /\ (\A r : ~Faces(h, r, ls))
  BY <1>1, <1>2 DEF Order, Owes, Faces
<1> QED BY <1>3 DEF h

LEMMA FreeTask ==
    ASSUME NEW ls
    PROVE  Order(Free, ls) /\ (\A f : ~Owes(Free, f)) /\ (\A r : ~Faces(Free, r, ls))
BY DEF Free, Order, Owes, Faces, Busy

(***************************************************************************)
(* A step of one task touches only what is counted for that task.          *)
(***************************************************************************)
LEMMA GoesCounted ==
    ASSUME AutoInv, InOrder, NEW s \in Tasks, Busy(task[s]), NEW t \in TaskRec,
           NEW e \in Inner \cup {"none"}, Goes(s, t, e), lists' = lists,
           Busy(t) => Order(t, lists),
           Busy(t) => \A r \in Unpaced : Faces(t, r, lists) => Faces(task[s], r, lists)
    PROVE  /\ InOrder'
           /\ Ahead' \subseteq Ahead
           /\ \A r \in Unpaced : ~(Busy(t) /\ Faces(t, r, lists)) => <<s, r>> \notin Ahead'
           /\ \A f : /\ Due(f)' \subseteq Due(f) \cup {s}
                     /\ ~(Busy(t) /\ Owes(t, f)) => s \notin Due(f)'
<1>1. /\ Busy(t) => task'[s] = t
      /\ ~Busy(t) => task'[s] = Free \/ (e \in Events /\ task'[s] = Handler("alert", e))
      /\ \A u \in Tasks : u # s => task'[u] = task[u]
                  \/ (~Busy(task[u]) /\ e \in Events /\ task'[u] = Handler("alert", e))
  <2>1. e \in Events \cup {"none"}
    BY DEF Events
  <2>2. task \in [Tasks -> TaskRec]
    BY DEF AutoInv, Types
  <2> QED BY <2>1, <2>2, GoesExactly
<1>2. ASSUME e \in Events
      PROVE  LET h == Handler("alert", e)
             IN  Order(h, lists) /\ (\A f : ~Owes(h, f)) /\ (\A r : ~Faces(h, r, lists))
  <2>1. e \in Inner
    BY <1>2 DEF Events, Inner
  <2> QED BY <2>1, InnerHandlers
<1>3. Order(Free, lists) /\ (\A f : ~Owes(Free, f)) /\ (\A r : ~Faces(Free, r, lists))
  BY FreeTask
<1>4. ASSUME NEW u \in Tasks
      PROVE  /\ Order(task'[u], lists)
             /\ \A r \in Unpaced : Faces(task'[u], r, lists) =>
                   Faces(task[u], r, lists) /\ (u = s => Busy(t) /\ Faces(t, r, lists))
             /\ \A f : Owes(task'[u], f) =>
                   IF u = s THEN Busy(t) /\ Owes(t, f) ELSE Owes(task[u], f)
  <2>1. CASE u # s
    BY <1>1, <1>2, <2>1 DEF InOrder
  <2>2. CASE u = s /\ Busy(t)
    BY <1>1, <2>2
  <2>3. CASE u = s /\ ~Busy(t)
    BY <1>1, <1>2, <1>3, <2>3
  <2> QED BY <2>1, <2>2, <2>3
<1>5. InOrder'
  BY <1>4 DEF InOrder
<1>6. ASSUME NEW p \in Ahead'
      PROVE  p \in Ahead /\ (p[1] = s => Busy(t) /\ Faces(t, p[2], lists))
  <2>1. p \in Tasks \X Unpaced /\ Faces(task'[p[1]], p[2], lists)
    BY <1>6 DEF Ahead
  <2> QED BY <1>4, <2>1 DEF Ahead
<1>7. \A r \in Unpaced : ~(Busy(t) /\ Faces(t, r, lists)) => <<s, r>> \notin Ahead'
  BY <1>6
<1>8. \A f : /\ Due(f)' \subseteq Due(f) \cup {s}
             /\ ~(Busy(t) /\ Owes(t, f)) => s \notin Due(f)'
  BY <1>4 DEF Due
<1> QED BY <1>5, <1>6, <1>7, <1>8

(***************************************************************************)
(* A task that goes on from t at place n of its list: it keeps what is     *)
(* still before it, and owes runs of todo only.                            *)
(***************************************************************************)
Before(t, n) == {lists[t.gen][j] : j \in 1..(n - 1)}

Beyond(u, t, n, todo) ==
    /\ u \in TaskRec
    /\ Busy(u) =>
         /\ Order(u, lists)
         /\ \A f : Owes(u, f) => f \in todo
         /\ \A r : Faces(u, r, lists) =>
               t.kind = "alert" /\ t.event = "adapter_disconnected" /\ r \notin Before(t, n)

LEMMA FromCounted ==
    ASSUME Types, NEW t \in TaskRec, NEW n \in Nat \ {0}, t.todo = {},
           t.kind = "alert" => t.gen \in 1..Len(lists)
    PROVE  Beyond(From(t, n), t, n, {})
<1> DEFINE list   == lists[t.gen]
           places == IF t.kind # "alert" THEN {}
                     ELSE {j \in n..Len(list) : Matches(list[j], t.event)}
           u      == From(t, n)
           next   == Least(places)
<1>1. CASE places = {}
  <2>1. u = Ended(t)
    BY <1>1 DEF From
  <2>2. ~Busy(u) /\ u \in TaskRec
    BY <2>1 DEF Ended, Free, Busy, TaskRec, Points, Kinds, Results
  <2> QED BY <2>2 DEF Beyond
<1>2. CASE places # {}
  <2>1. t.kind = "alert" /\ list \in Seq(Rules)
    BY <1>2 DEF Types
  <2>2. places \subseteq n..Len(list) /\ places \subseteq Nat
    BY <2>1
  <2>3. next \in places
    <3> HIDE DEF places
    <3> QED BY <1>2, <2>2, LeastIsLeast
  <2>4. u = [t EXCEPT !.at = "persisting", !.i = next, !.rule = list[next],
                      !.wf = 0, !.run = 0, !.result = "none"]
    BY <1>2 DEF From
  <2>5. next \in n..Len(list) /\ EventOf[list[next]] \in {"*", t.event}
    <3>1. \A j \in places : j \in n..Len(list) /\ Matches(list[j], t.event)
      BY <2>1
    <3> HIDE DEF next, places
    <3> QED BY <2>3, <3>1 DEF Matches
  <2> DEFINE rule == list[next]
  <2> HIDE DEF rule, next, places, u
  <2>6. u \in TaskRec /\ u.at = "persisting" /\ u.kind = "alert" /\ u.i = next /\ u.rule = rule
        /\ u.gen = t.gen /\ u.event = t.event /\ u.todo = {}
    <3>1. u = [t EXCEPT !.at = "persisting", !.i = next, !.rule = rule,
                        !.wf = 0, !.run = 0, !.result = "none"]
      BY <2>4 DEF rule
    <3>2. next \in Nat /\ rule \in Rules
      <4>1. next \in 1..Len(list)
        BY <2>1, <2>5
      <4> QED BY <2>1, <4>1 DEF rule
    <3> HIDE DEF list
    <3> QED BY <2>1, <3>1, <3>2 DEF TaskRec, Points, Results
  <2>7. Order(u, lists)
    BY <2>1, <2>5, <2>6 DEF Order, rule
  <2>8. \A f : ~Owes(u, f)
    BY <2>6 DEF Owes
  <2>9. Before(t, n) \subseteq Passed(u, lists)
    <3>1. n \in Nat /\ next \in Nat /\ next >= n
      BY <2>1, <2>5
    <3>2. \A j \in 1..(n - 1) : j \in 1..(next - 1)
      BY <3>1
    <3> QED BY <2>6, <3>2 DEF Before, Passed
  <2>10. \A r : Faces(u, r, lists) => t.event = "adapter_disconnected" /\ r \notin Before(t, n)
    BY <2>6, <2>9 DEF Faces
  <2> QED BY <2>1, <2>6, <2>7, <2>8, <2>10 DEF Beyond, u
<1> QED BY <1>1, <1>2

LEMMA NextCounted ==
    ASSUME Types, NEW t \in TaskRec,
           t.kind = "alert" => t.gen \in 1..Len(lists) /\ t.i <= Len(lists[t.gen])
    PROVE  Beyond(NextFlow(t), t, t.i + 1, t.todo)
<1>1. CASE t.todo = {}
  <2>1. NextFlow(t) = From(t, t.i + 1)
    BY <1>1 DEF NextFlow
  <2>2. t.i + 1 \in Nat \ {0}
    BY DEF TaskRec
  <2>3. Beyond(From(t, t.i + 1), t, t.i + 1, {})
    BY <1>1, <2>2, FromCounted
  <2> QED BY <1>1, <2>1, <2>3
<1>2. CASE t.todo # {}
  <2> DEFINE next == Least(t.todo)
             u    == NextFlow(t)
  <2>1. t.todo \subseteq Nat
    BY AutomationAssumption DEF TaskRec, Flows
  <2>2. next \in t.todo
    BY <1>2, <2>1, LeastIsLeast
  <2>3. u = [t EXCEPT !.at = "starting", !.wf = next, !.todo = @ \ {next},
                      !.run = 0, !.result = "none"]
    BY <1>2 DEF NextFlow
  <2> HIDE DEF u, next
  <2>4. u \in TaskRec /\ u.at = "starting" /\ u.wf = next /\ u.todo = t.todo \ {next} /\ u.kind = t.kind
        /\ u.i = t.i /\ u.gen = t.gen /\ u.event = t.event
    BY <2>2, <2>3 DEF TaskRec, Points, Results
  <2>5. Order(u, lists)
    BY <2>4 DEF Order
  <2>6. \A f : Owes(u, f) => f \in t.todo
    BY <2>2, <2>4 DEF Owes
  <2>7. Before(t, t.i + 1) = Passed(u, lists)
    <3>1. (t.i + 1) - 1 = t.i
      BY DEF TaskRec
    <3> QED BY <2>4, <3>1 DEF Before, Passed
  <2>8. \A r : Faces(u, r, lists) =>
          t.kind = "alert" /\ t.event = "adapter_disconnected" /\ r \notin Before(t, t.i + 1)
    BY <2>4, <2>7 DEF Faces
  <2> QED BY <2>4, <2>5, <2>6, <2>8 DEF Beyond, u
<1> QED BY <1>1, <1>2

(***************************************************************************)
(* The account: what a step owes more is what it pays.                     *)
(***************************************************************************)
\* Nothing more is owed, and no more was paid than before.
LEMMA NoMoreOwed ==
    ASSUME ChainInv, Numbers', Ahead' \subseteq Ahead,
           \A f \in Flows : Due(f)' \subseteq Due(f) /\ Len(hist'[f]) = Len(hist[f]),
           recent' = recent, inputs' = inputs, changes <= changes',
           \A f \in Flows : Len(hist[f]) \in Nat
    PROVE  Tame => Covered'
<1> SUFFICES ASSUME Tame, NEW f \in Flows
             PROVE  Len(hist'[f]) + Cardinality(Due(f)') + Cardinality(Ahead')
                       <= Cardinality(recent') + inputs' * Own + changes'
  BY DEF Covered
<1>1. Cardinality(Due(f)') <= Cardinality(Due(f)) /\ Cardinality(Ahead') <= Cardinality(Ahead)
      /\ Cardinality(Due(f)') \in Nat /\ Cardinality(Ahead') \in Nat
      /\ Cardinality(Due(f)) \in Nat /\ Cardinality(Ahead) \in Nat
      /\ Cardinality(recent) \in Nat /\ inputs * Own \in Nat
  <2>1. Numbers
    BY DEF ChainInv
  <2>2. IsFiniteSet(Due(f)) /\ IsFiniteSet(Ahead)
    BY <2>1, Counts
  <2>3. Cardinality(Due(f)) \in Nat /\ Cardinality(Ahead) \in Nat
        /\ Cardinality(recent) \in Nat /\ inputs * Own \in Nat
    BY <2>1, Counts
  <2> QED BY <2>2, <2>3, FS_Subset, FS_CardinalityType
<1>2. Len(hist[f]) + Cardinality(Due(f)) + Cardinality(Ahead)
         <= Cardinality(recent) + inputs * Own + changes
  BY DEF ChainInv, Covered
<1>3. changes \in Nat /\ changes' \in Nat /\ changes <= changes'
  BY DEF ChainInv, Numbers
<1> DEFINE h == Len(hist[f])  d == Cardinality(Due(f))  a == Cardinality(Ahead)
           d2 == Cardinality(Due(f)')  a2 == Cardinality(Ahead')
           c == Cardinality(recent)  o == inputs * Own
<1>4. h \in Nat
  OBVIOUS
<1> HIDE DEF h, d, a, d2, a2, c, o
<1>5. h + d2 + a2 <= c + o + changes'
  BY <1>1, <1>2, <1>3, <1>4 DEF h, d, a, d2, a2, c, o
<1>6. Len(hist'[f]) = h
  BY DEF h
<1> QED BY <1>5, <1>6 DEF d2, a2, c, o

\* A step of a task that keeps what it had before it and owes no new run.
LEMMA Passes ==
    ASSUME AutoInv, ChainInv, NEW s \in Tasks, Busy(task[s]), NEW t \in TaskRec,
           NEW e \in Inner \cup {"none"}, Goes(s, t, e),
           UNCHANGED <<lists, recent, inputs, changes>>,
           \A f \in Flows : Len(hist'[f]) = Len(hist[f]),
           Busy(t) => Order(t, lists),
           Busy(t) => \A r \in Unpaced : Faces(t, r, lists) => Faces(task[s], r, lists),
           Busy(t) => \A f \in Flows : Owes(t, f) => Owes(task[s], f)
    PROVE  ChainInv'
<1>1. /\ InOrder'
      /\ Ahead' \subseteq Ahead
      /\ \A f : /\ Due(f)' \subseteq Due(f) \cup {s}
                /\ ~(Busy(t) /\ Owes(t, f)) => s \notin Due(f)'
  BY GoesCounted DEF ChainInv
<1>2. Distinct' /\ Numbers'
  BY DEF ChainInv, Distinct, Numbers
<1>3. \A f \in Flows : Due(f)' \subseteq Due(f)
  <2>1. ASSUME NEW f \in Flows, s \in Due(f)' PROVE s \in Due(f)
    BY <1>1, <2>1 DEF Due
  <2> QED BY <1>1, <2>1
<1>4. \A f \in Flows : Len(hist[f]) \in Nat
  BY DEF AutoInv, Types
<1>5. changes <= changes'
  BY DEF ChainInv, Numbers
<1>6. Tame => Covered'
  BY <1>1, <1>2, <1>3, <1>4, <1>5, NoMoreOwed
<1> QED BY <1>1, <1>2, <1>6 DEF ChainInv

\* The task goes on from place n of its list, as From() and NextFlow() have it.
LEMMA PassesOn ==
    ASSUME AutoInv, ChainInv, NEW s \in Tasks, Busy(task[s]), NEW t, NEW x, NEW n, NEW todo,
           Beyond(t, x, n, todo),
           NEW e \in Inner \cup {"none"}, Goes(s, t, e),
           UNCHANGED <<lists, recent, inputs, changes>>,
           \A f \in Flows : Len(hist'[f]) = Len(hist[f]),
           x.kind = task[s].kind /\ x.event = task[s].event,
           x.kind = "alert" => Passed(task[s], lists) \subseteq Before(x, n),
           \A f \in Flows : f \in todo => Owes(task[s], f)
    PROVE  ChainInv'
<1>1. t \in TaskRec /\ (Busy(t) => Order(t, lists))
  BY DEF Beyond
<1>2. Busy(t) => \A r \in Unpaced : Faces(t, r, lists) => Faces(task[s], r, lists)
  BY DEF Beyond, Faces
<1>3. Busy(t) => \A f \in Flows : Owes(t, f) => Owes(task[s], f)
  BY DEF Beyond
<1> QED BY <1>1, <1>2, <1>3, Passes

\* What is known of the task that makes a step.
LEMMA Stepping ==
    ASSUME AutoInv, ChainInv, NEW s \in Tasks, Busy(task[s])
    PROVE  /\ task[s] \in TaskRec /\ Order(task[s], lists)
           /\ task[s].i + 1 \in Nat \ {0} /\ (task[s].i + 1) - 1 = task[s].i
           /\ task[s].at # "persisting" =>
                Passed(task[s], lists) = Before(task[s], task[s].i + 1)
           /\ task[s].at = "persisting" =>
                /\ Passed(task[s], lists) = Before(task[s], task[s].i)
                /\ task[s].kind = "alert" /\ task[s].gen \in 1..Len(lists)
                /\ task[s].i \in 1..Len(lists[task[s].gen])
                /\ lists[task[s].gen][task[s].i] = task[s].rule
                /\ task[s].event \in Events /\ task[s].rule \in Rules
<1> DEFINE t == task[s]
<1>1. t \in TaskRec /\ Sound(t, hist, lists, enabled) /\ Order(t, lists)
  BY DEF AutoInv, Types, AllSound, ChainInv, InOrder
<1> HIDE DEF t
<1>2. t.i + 1 \in Nat \ {0} /\ (t.i + 1) - 1 = t.i
  BY <1>1 DEF TaskRec
<1>3. t.at # "persisting" => Passed(t, lists) = Before(t, t.i + 1)
  BY <1>2 DEF Passed, Before
<1>4. t.at = "persisting" => Passed(t, lists) = Before(t, t.i)
  BY DEF Passed, Before
<1>5. t.at = "persisting" =>
        /\ t.kind = "alert" /\ t.gen \in 1..Len(lists)
        /\ t.i \in 1..Len(lists[t.gen]) /\ lists[t.gen][t.i] = t.rule
        /\ t.event \in Events /\ t.rule \in Rules
  BY <1>1 DEF Sound, Phase, Hears, Pending, Order
<1> QED BY <1>1, <1>2, <1>3, <1>4, <1>5 DEF t

LEMMA BeginsPays ==
    ASSUME AutoInv, ChainInv, NEW s \in Tasks, Begins(s)
    PROVE  ChainInv'
<1> DEFINE t   == task[s]
           now == Last(lists)
<1>1. t.at = "new" /\ Busy(t)
  BY DEF Begins, Busy
<1>2. t \in TaskRec /\ t.i = 0 /\ t.todo = {} /\ t.kind \in {"alert", "webhook"}
  BY <1>1, Stepping DEF Order
<1>3. UNCHANGED <<lists, recent, inputs, changes, hist>>
  BY DEF Begins, rulesVars, rules, flowVars, alertVars
<1>4. CASE t.kind = "alert"
  <2> DEFINE owed == {r \in Range(now) : Matches(r, t.event)}
             new  == [t EXCEPT !.gen = Len(lists), !.owed = owed]
  <2>1. Len(lists) \in 1..Len(lists) /\ now \in Seq(Rules)
    BY DEF AutoInv, Types, Last
  <2>2. new \in TaskRec /\ new.kind = "alert" /\ new.gen = Len(lists) /\ new.todo = {}
        /\ new.event = t.event
    <3>1. owed \subseteq Rules /\ Len(lists) \in Nat
      BY <2>1 DEF Range
    <3> HIDE DEF owed
    <3> QED BY <1>2, <1>4, <3>1 DEF TaskRec
  <2>3. Goes(s, From(new, 1), "none")
    BY <1>4 DEF Begins
  <2> HIDE DEF new, owed
  <2>4. Beyond(From(new, 1), new, 1, {})
    BY <2>1, <2>2, FromCounted DEF AutoInv
  <2>5. Passed(t, lists) = {}
    BY <1>1, <1>2 DEF Passed
  <2> HIDE DEF t
  <2> QED BY <1>1, <1>2, <1>3, <1>4, <2>2, <2>3, <2>4, <2>5, PassesOn DEF t
<1>5. CASE t.kind = "webhook"
  <2> DEFINE new == [t EXCEPT !.at = "listing"]
  <2>1. new \in TaskRec /\ new.at = "listing" /\ new.kind = "webhook" /\ new.todo = {}
    BY <1>2, <1>5 DEF TaskRec, Points
  <2>2. Goes(s, new, "none")
    BY <1>5 DEF Begins
  <2> HIDE DEF new
  <2>3. Order(new, lists) /\ \A r : ~Faces(new, r, lists)
    BY <2>1 DEF Order, Faces
  <2>4. \A f : Owes(t, f)
    BY <1>1, <1>5 DEF Owes
  <2> HIDE DEF t
  <2> QED BY <1>1, <1>3, <2>1, <2>2, <2>3, <2>4, Passes DEF t
<1> QED BY <1>2, <1>4, <1>5

\* A notification is paid for by its pair, or by the rule that the check leaves behind.
LEMMA PersistsPays ==
    ASSUME AutoInv, ChainInv, NEW s \in Tasks, Persists(s)
    PROVE  ChainInv'
<1> DEFINE t   == task[s]
           rec == Recorded(t)
<1>1. t.at = "persisting" /\ Busy(t)
  BY DEF Persists, Busy
<1>2. /\ t \in TaskRec /\ t.todo = {} /\ EventOf[t.rule] \in {"*", t.event}
      /\ t.i + 1 \in Nat \ {0} /\ (t.i + 1) - 1 = t.i
      /\ Passed(t, lists) = Before(t, t.i)
      /\ t.kind = "alert" /\ t.gen \in 1..Len(lists)
      /\ t.i \in 1..Len(lists[t.gen]) /\ lists[t.gen][t.i] = t.rule
      /\ t.event \in Events /\ t.rule \in Rules
  BY <1>1, Stepping DEF Order
<1>3. UNCHANGED <<lists, inputs, changes, hist>>
  BY DEF Persists, rulesVars, rules, flowVars
<1>4. rec \in TaskRec /\ rec.at = "persisting" /\ rec.kind = "alert" /\ rec.event = t.event
      /\ rec.i = t.i /\ rec.gen = t.gen /\ rec.todo = {} /\ rec.rule = t.rule
  BY <1>1, <1>2 DEF Recorded, TaskRec
<1>5. CASE Suppressed(t)
  <2>1. Goes(s, From(rec, rec.i + 1), "none") /\ recent' = recent
    BY <1>4, <1>5 DEF Persists
  <2> HIDE DEF rec, t
  <2>2. Beyond(From(rec, rec.i + 1), rec, rec.i + 1, {})
    BY <1>2, <1>4, FromCounted DEF AutoInv
  <2>3. Passed(t, lists) \subseteq Before(rec, rec.i + 1)
    <3>1. t.i \in Nat
      BY <1>2 DEF TaskRec
    <3> QED BY <1>2, <1>4, <3>1 DEF Before
  <2> QED BY <1>1, <1>2, <1>3, <1>4, <2>1, <2>2, <2>3, PassesOn DEF t
<1>6. CASE ~Suppressed(t)
  <2> DEFINE new == [rec EXCEPT !.at = "sending"]
  <2>1. new \in TaskRec /\ new.at = "sending" /\ new.kind = "alert" /\ new.event = t.event
        /\ new.i = t.i /\ new.gen = t.gen /\ new.todo = {}
    <3> HIDE DEF rec
    <3> QED BY <1>4 DEF TaskRec, Points
  <2>2. Goes(s, new, "none") /\ recent' = Noted(t)
    BY <1>6 DEF Persists
  <2> HIDE DEF new, rec, t
  <2>3. Order(new, lists) /\ Busy(new)
    BY <1>2, <2>1 DEF Order, Busy
  <2>4. Passed(new, lists) = Before(t, t.i + 1)
    BY <1>2, <2>1 DEF Passed, Before
  <2>5. Before(t, t.i) \subseteq Before(t, t.i + 1) /\ t.rule \in Before(t, t.i + 1)
    <3>1. t.i \in Nat \ {0}
      BY <1>2
    <3> QED BY <1>2, <3>1 DEF Before
  <2>6. \A r \in Unpaced : Faces(new, r, lists) => Faces(t, r, lists) /\ r # t.rule
    BY <1>1, <1>2, <2>1, <2>4, <2>5 DEF Faces
  <2>7. /\ InOrder'
        /\ Ahead' \subseteq Ahead
        /\ \A r \in Unpaced : ~(Busy(new) /\ Faces(new, r, lists)) => <<s, r>> \notin Ahead'
        /\ \A f : Due(f)' \subseteq Due(f) \cup {s}
    <3>1. \A r \in Unpaced : Faces(new, r, lists) => Faces(task[s], r, lists)
      BY <2>6 DEF t
    <3>2. InOrder /\ Busy(task[s])
      BY <1>1 DEF ChainInv, t
    <3> QED BY <1>3, <2>1, <2>2, <2>3, <3>1, <3>2, GoesCounted
  <2> DEFINE k == <<t.rule, t.event>>
  <2>8. t.rule \in Debounced => k \in recent' /\ k \notin recent
    BY <1>2, <1>6, <2>2 DEF Noted, Suppressed, Key, Heard, Namesakes
  <2>9. recent \subseteq recent' /\ recent' \subseteq Heard
    BY <2>2 DEF Noted, ChainInv, Numbers
  <2>10. Distinct' /\ Numbers'
    BY <1>3, <2>9 DEF ChainInv, Distinct, Numbers
  <2>11. ASSUME Tame, NEW f \in Flows
         PROVE  Len(hist'[f]) + Cardinality(Due(f)') + Cardinality(Ahead')
                   <= Cardinality(recent') + inputs' * Own + changes'
    <3> DEFINE h == Len(hist[f])  d == Cardinality(Due(f))  a == Cardinality(Ahead)
               d2 == Cardinality(Due(f)')  a2 == Cardinality(Ahead')
               c == Cardinality(recent)  c2 == Cardinality(recent')  o == inputs * Own
    <3>1. h + d + a <= c + o + changes
      BY <2>11 DEF ChainInv, Covered
    <3>2. h \in Nat /\ changes \in Nat
      BY DEF AutoInv, Types, ChainInv, Numbers
    <3>3. d \in Nat /\ a \in Nat /\ c \in Nat /\ o \in Nat
          /\ IsFiniteSet(Due(f)) /\ IsFiniteSet(Ahead) /\ IsFiniteSet(recent)
      BY Counts DEF ChainInv
    <3>4. d2 \in Nat /\ d2 <= d + 1
      <4>1. IsFiniteSet(Due(f) \cup {s}) /\ Cardinality(Due(f) \cup {s}) <= d + 1
        <5>1. IsFiniteSet(Due(f) \cup {s})
              /\ Cardinality(Due(f) \cup {s}) = IF s \in Due(f) THEN d ELSE d + 1
          BY <3>3, FS_AddElement
        <5> HIDE DEF d
        <5> QED BY <3>3, <5>1
      <4>2. Due(f)' \subseteq Due(f) \cup {s}
        BY <2>7
      <4>3. IsFiniteSet(Due(f)') /\ d2 <= Cardinality(Due(f) \cup {s})
        BY <4>1, <4>2, FS_Subset
      <4>4. d2 \in Nat /\ Cardinality(Due(f) \cup {s}) \in Nat
        BY <4>1, <4>3, FS_CardinalityType
      <4> QED BY <3>3, <4>1, <4>3, <4>4
    <3>5. a2 \in Nat /\ a2 <= a
      BY <2>7, <3>3, FS_Subset, FS_CardinalityType
    <3>8. IsFiniteSet(recent') /\ c2 \in Nat /\ c2 >= c
      <4>1. IsFiniteSet(recent')
        BY <2>9, Finite, FS_Subset
      <4> QED BY <2>9, <4>1, FS_Subset, FS_CardinalityType
    <3>6. CASE t.rule \in Debounced
      <4>1. c2 >= c + 1
        <5>1. recent \cup {k} \subseteq recent' /\ k \notin recent
          BY <2>8, <2>9, <3>6
        <5>2. Cardinality(recent \cup {k}) = c + 1
          BY <3>3, <5>1, FS_AddElement
        <5>3. Cardinality(recent \cup {k}) <= c2
          BY <3>8, <5>1, FS_Subset
        <5> QED BY <5>2, <5>3
      <4> HIDE DEF h, d, a, d2, a2, c, c2, o
      <4>2. h + d2 + a2 <= c2 + o + changes
        BY <3>1, <3>2, <3>3, <3>4, <3>5, <3>8, <4>1
      <4> QED BY <1>3, <4>2 DEF h, d2, a2, c2, o
    <3>7. CASE t.rule \notin Debounced
      <4> DEFINE p == <<s, t.rule>>
      <4>1. t.rule \in Unpaced
        BY <1>2, <3>7 DEF Unpaced
      <4>2. t.event = "adapter_disconnected"
        BY <1>2, <2>11, <3>7 DEF Tame, FeedsItself
      <4>3. t.rule \notin Passed(t, lists)
        <5>1. ASSUME NEW j \in 1..(t.i - 1), lists[t.gen][j] = t.rule PROVE FALSE
          <6>1. Len(lists[t.gen]) \in Nat
            BY <1>2 DEF AutoInv, Types
          <6>2. j \in 1..Len(lists[t.gen]) /\ j # t.i
            BY <1>2, <5>1, <6>1
          <6> QED BY <1>2, <5>1, <6>2 DEF ChainInv, Distinct
        <5> QED BY <1>2, <5>1 DEF Before
      <4>4. p \in Ahead
        BY <1>1, <1>2, <4>1, <4>2, <4>3 DEF Ahead, Faces, t
      <4>5. p \notin Ahead'
        BY <2>6, <2>7, <4>1
      <4>6. a2 <= a - 1
        <5>1. Ahead' \subseteq Ahead \ {p}
          BY <2>7, <4>5
        <5>2. IsFiniteSet(Ahead \ {p}) /\ Cardinality(Ahead \ {p}) = a - 1
          BY <3>3, <4>4, FS_RemoveElement
        <5> QED BY <5>1, <5>2, FS_Subset
      <4> HIDE DEF h, d, a, d2, a2, c, c2, o
      <4>8. h + d2 + a2 <= c2 + o + changes
        BY <3>1, <3>2, <3>3, <3>4, <3>5, <3>8, <4>6
      <4> QED BY <1>3, <4>8 DEF h, d2, a2, c2, o
    <3> QED BY <3>6, <3>7
  <2> QED BY <2>7, <2>10, <2>11 DEF ChainInv, Covered
<1> QED BY <1>5, <1>6

LEMMA SendRaisesPays ==
    ASSUME AutoInv, ChainInv, NEW s \in Tasks, SendRaises(s)
    PROVE  ChainInv'
<1>1. Busy(task[s]) /\ Goes(s, Free, "none")
  BY DEF SendRaises, Busy
<1>2. UNCHANGED <<lists, recent, inputs, changes, hist>>
  BY DEF SendRaises, rulesVars, rules, flowVars, alertVars
<1>3. Free \in TaskRec /\ ~Busy(Free)
  BY NewTasks DEF Free, Busy, Events, Inner
<1> QED BY <1>1, <1>2, <1>3, Passes

LEMMA ListsPays ==
    ASSUME AutoInv, ChainInv, NEW s \in Tasks, Lists(s)
    PROVE  ChainInv'
<1> DEFINE t    == task[s]
           todo == {f \in Flows : flow[f].here /\ flow[f].on /\ TriggerOf[f] = t.kind}
           new  == [t EXCEPT !.todo = todo]
<1>1. t.at \in {"sending", "listing"} /\ Busy(t)
  BY DEF Lists, Busy
<1>2. t \in TaskRec /\ Order(t, lists) /\ (t.i + 1) - 1 = t.i
      /\ Passed(t, lists) = Before(t, t.i + 1)
  BY <1>1, Stepping
<1>3. UNCHANGED <<lists, recent, inputs, changes, hist>>
  BY DEF Lists, rulesVars, rules, flowVars, alertVars
<1>4. new \in TaskRec /\ new.kind = t.kind /\ new.event = t.event /\ new.i = t.i
      /\ new.gen = t.gen
  <2>1. todo \subseteq Flows
    OBVIOUS
  <2> HIDE DEF todo
  <2> QED BY <1>2, <2>1 DEF TaskRec
<1>5. Goes(s, NextFlow(new), "none")
  BY DEF Lists
<1> HIDE DEF new
<1>6. Beyond(NextFlow(new), new, new.i + 1, new.todo)
  BY <1>1, <1>2, <1>4, NextCounted DEF AutoInv, Order
<1>7. Passed(t, lists) = Before(new, new.i + 1)
  BY <1>2, <1>4 DEF Before
<1>8. \A f : Owes(t, f)
  BY <1>1 DEF Owes
<1> HIDE DEF t
<1> QED BY <1>1, <1>3, <1>4, <1>5, <1>6, <1>7, <1>8, PassesOn DEF t

\* A run that begins was owed.
LEMMA StartsPays ==
    ASSUME AutoInv, ChainInv, NEW s \in Tasks, Starts(s)
    PROVE  ChainInv'
<1> DEFINE t == task[s]
<1>1. t.at = "starting" /\ Busy(t)
  BY DEF Starts, Busy
<1>2. /\ t \in TaskRec /\ Order(t, lists)
      /\ t.i + 1 \in Nat \ {0} /\ (t.i + 1) - 1 = t.i
      /\ Passed(t, lists) = Before(t, t.i + 1)
  BY <1>1, Stepping
<1>3. PICK g \in Flows : t.wf = g
  BY <1>1 DEF AutoInv, AllSound, Sound, Phase
<1>4. UNCHANGED <<lists, recent, inputs, changes>>
  BY DEF Starts, rulesVars, rules, alertVars
<1>5. CASE ~flow[g].here
  <2> DEFINE x == [t EXCEPT !.todo = {}]
  <2>1. Goes(s, From(x, t.i + 1), "none") /\ hist' = hist
    BY <1>3, <1>5 DEF Starts
  <2>2. x \in TaskRec /\ x.kind = t.kind /\ x.event = t.event /\ x.i = t.i /\ x.gen = t.gen
        /\ x.todo = {}
    BY <1>2 DEF TaskRec
  <2> HIDE DEF x
  <2>3. Beyond(From(x, t.i + 1), x, t.i + 1, {})
    BY <1>1, <1>2, <2>2, FromCounted DEF AutoInv, Order
  <2>4. Passed(t, lists) = Before(x, t.i + 1)
    BY <1>2, <2>2 DEF Before
  <2> HIDE DEF t
  <2> QED BY <1>1, <1>4, <2>1, <2>2, <2>3, <2>4, PassesOn DEF t
<1>6. CASE flow[g].here
  <2> DEFINE r == [t EXCEPT !.run = Len(hist[g]) + 1]
  <2>1. hist' = [hist EXCEPT ![g] = Append(@, "running")]
        /\ (Goes(s, [r EXCEPT !.at = "stepping"], "none") \/ Goes(s, Skips(r), "none"))
    BY <1>3, <1>6 DEF Starts
  <2>2. hist \in [Flows -> Seq(Statuses)]
    BY DEF AutoInv, Types
  <2>3. r \in TaskRec /\ r.kind = t.kind /\ r.event = t.event /\ r.i = t.i /\ r.gen = t.gen
        /\ r.todo = t.todo
    <3>1. Len(hist[g]) + 1 \in Nat
      BY <1>3, <2>2
    <3> QED BY <1>2, <3>1 DEF TaskRec
  <2> HIDE DEF r
  <2>4. PICK u \in TaskRec :
           /\ Goes(s, u, "none")
           /\ u.at \in {"stepping", "recording"} /\ u.kind = t.kind /\ u.event = t.event
           /\ u.i = t.i /\ u.gen = t.gen /\ u.todo = t.todo
    <3>1. CASE Goes(s, [r EXCEPT !.at = "stepping"], "none")
      <4> DEFINE u == [r EXCEPT !.at = "stepping"]
      <4>1. u \in TaskRec /\ u.at = "stepping" /\ u.kind = r.kind /\ u.event = r.event
            /\ u.i = r.i /\ u.gen = r.gen /\ u.todo = r.todo
        BY <2>3 DEF TaskRec, Points
      <4> QED BY <2>3, <3>1, <4>1
    <3>2. CASE Goes(s, Skips(r), "none")
      <4> DEFINE u == Skips(r)
      <4>1. u \in TaskRec /\ u.at = "recording" /\ u.kind = r.kind /\ u.event = r.event
            /\ u.i = r.i /\ u.gen = r.gen /\ u.todo = r.todo
        BY <2>3 DEF Skips, TaskRec, Points, Results
      <4> QED BY <2>3, <3>2, <4>1
    <3> QED BY <2>1, <3>1, <3>2
  <2>5. Order(u, lists) /\ Busy(u)
    BY <1>1, <1>2, <2>4 DEF Order, Busy
  <2>6. \A q : Faces(u, q, lists) => Faces(t, q, lists)
    BY <1>1, <2>4 DEF Faces, Passed, Busy
  <2>7. \A f : Owes(u, f) => Owes(t, f) /\ f # g
    BY <1>1, <1>2, <1>3, <2>4 DEF Owes, Order
  <2>8. /\ InOrder'
        /\ Ahead' \subseteq Ahead
        /\ \A f : /\ Due(f)' \subseteq Due(f) \cup {s}
                  /\ ~(Busy(u) /\ Owes(u, f)) => s \notin Due(f)'
    <3> HIDE DEF t
    <3>1. InOrder /\ Busy(task[s]) /\ \A q \in Unpaced : Faces(u, q, lists) => Faces(task[s], q, lists)
      BY <1>1, <2>6 DEF ChainInv, t
    <3> QED BY <1>4, <2>4, <2>5, <3>1, GoesCounted
  <2>9. \A f \in Flows : Due(f)' \subseteq Due(f)
    <3>1. ASSUME NEW f \in Flows, s \in Due(f)' PROVE s \in Due(f)
      BY <2>7, <2>8, <3>1 DEF Due
    <3> QED BY <2>8, <3>1
  <2>10. Due(g)' \subseteq Due(g) \ {s} /\ s \in Due(g)
    <3>1. Owes(t, g)
      BY <1>1, <1>3 DEF Owes
    <3> QED BY <1>3, <2>7, <2>8, <2>9, <3>1 DEF Due
  <2>11. \A f \in Flows : /\ Len(hist[f]) \in Nat
                          /\ Len(hist'[f]) = IF f = g THEN Len(hist[f]) + 1 ELSE Len(hist[f])
    <3>1. \A f \in Flows : hist[f] \in Seq(Statuses)
      BY <2>2
    <3>2. Len(Append(hist[g], "running")) = Len(hist[g]) + 1
      BY <1>3, <3>1, AppendProperties DEF Statuses
    <3> QED BY <1>3, <2>1, <2>2, <3>1, <3>2
  <2>12. Distinct' /\ Numbers'
    BY <1>4 DEF ChainInv, Distinct, Numbers
  <2>13. ASSUME Tame, NEW f \in Flows
         PROVE  Len(hist'[f]) + Cardinality(Due(f)') + Cardinality(Ahead')
                   <= Cardinality(recent') + inputs' * Own + changes'
    <3> DEFINE h == Len(hist[f])  d == Cardinality(Due(f))  a == Cardinality(Ahead)
               h2 == Len(hist'[f])  d2 == Cardinality(Due(f)')  a2 == Cardinality(Ahead')
               c == Cardinality(recent)  o == inputs * Own
    <3>1. h + d + a <= c + o + changes
      BY <2>13 DEF ChainInv, Covered
    <3>2. h \in Nat /\ changes \in Nat
      BY <2>11 DEF ChainInv, Numbers
    <3>3. d \in Nat /\ a \in Nat /\ c \in Nat /\ o \in Nat
          /\ IsFiniteSet(Due(f)) /\ IsFiniteSet(Ahead)
      BY Counts DEF ChainInv
    <3>4. a2 \in Nat /\ a2 <= a /\ d2 \in Nat /\ d2 <= d
      BY <2>8, <2>9, <3>3, FS_Subset, FS_CardinalityType
    <3>5. h2 + d2 <= h + d
      <4>1. CASE f = g
        <5>1. h2 = h + 1
          BY <2>11, <4>1
        <5>2. d2 <= d - 1
          <6>1. Due(f)' \subseteq Due(f) \ {s} /\ s \in Due(f)
            BY <2>10, <4>1
          <6>2. IsFiniteSet(Due(f) \ {s}) /\ Cardinality(Due(f) \ {s}) = d - 1
            BY <3>3, <6>1, FS_RemoveElement
          <6>3. d2 <= Cardinality(Due(f) \ {s})
            BY <6>1, <6>2, FS_Subset
          <6> QED BY <6>2, <6>3
        <5> HIDE DEF h, h2, d, d2
        <5> QED BY <3>2, <3>3, <3>4, <5>1, <5>2
      <4>2. CASE f # g
        <5>1. h2 = h
          BY <2>11, <4>2
        <5> HIDE DEF h, h2, d, d2
        <5> QED BY <3>2, <3>3, <3>4, <5>1
      <4> QED BY <4>1, <4>2
    <3>6. h2 \in Nat
      BY <2>11
    <3> HIDE DEF h, d, a, h2, d2, a2, c, o
    <3>7. h2 + d2 + a2 <= c + o + changes
      BY <3>1, <3>2, <3>3, <3>4, <3>5, <3>6
    <3> QED BY <1>4, <3>7 DEF h2, d2, a2, c, o
  <2> QED BY <2>8, <2>12, <2>13 DEF ChainInv, Covered
<1> QED BY <1>5, <1>6

LEMMA StepsEndPays ==
    ASSUME AutoInv, ChainInv, NEW s \in Tasks, StepsEnd(s)
    PROVE  ChainInv'
<1> DEFINE t == task[s]
<1>1. t.at = "stepping" /\ Busy(t)
  BY DEF StepsEnd, Busy
<1>2. t \in TaskRec /\ Order(t, lists)
  BY <1>1, Stepping
<1>3. UNCHANGED <<lists, recent, inputs, changes, hist>>
  BY DEF StepsEnd, rulesVars, rules, flowVars, alertVars
<1>4. PICK u \in TaskRec, e \in Inner \cup {"none"} :
         /\ Goes(s, u, e)
         /\ u.at = "recording" /\ u.kind = t.kind /\ u.event = t.event
         /\ u.i = t.i /\ u.gen = t.gen /\ u.todo = t.todo
  <2> DEFINE ok  == [t EXCEPT !.at = "recording", !.result = "succeeded"]
             bad == [t EXCEPT !.at = "recording", !.result = "failed"]
  <2>1. Goes(s, ok, "none") \/ Goes(s, bad, "workflow.failed")
    BY DEF StepsEnd
  <2>2. ok \in TaskRec /\ ok.at = "recording" /\ ok.kind = t.kind /\ ok.event = t.event
        /\ ok.i = t.i /\ ok.gen = t.gen /\ ok.todo = t.todo
    BY <1>2 DEF TaskRec, Points, Results
  <2>3. bad \in TaskRec /\ bad.at = "recording" /\ bad.kind = t.kind /\ bad.event = t.event
        /\ bad.i = t.i /\ bad.gen = t.gen /\ bad.todo = t.todo
    BY <1>2 DEF TaskRec, Points, Results
  <2>4. "workflow.failed" \in Inner
    BY DEF Inner
  <2> HIDE DEF ok, bad
  <2> QED BY <2>1, <2>2, <2>3, <2>4
<1>5. Order(u, lists)
  BY <1>1, <1>2, <1>4 DEF Order
<1>6. \A q : Faces(u, q, lists) => Faces(t, q, lists)
  BY <1>1, <1>4 DEF Faces, Passed, Busy
<1>7. \A f : Owes(u, f) => Owes(t, f)
  BY <1>4 DEF Owes
<1> HIDE DEF t
<1> QED BY <1>1, <1>3, <1>4, <1>5, <1>6, <1>7, Passes DEF t

\* A run that ends makes room for the next of the trigger; one that is judged is still held.
LEMMA NextPays ==
    ASSUME AutoInv, ChainInv, NEW s \in Tasks,
           task[s].at \in {"recording", "judging", "disabling"},
           NEW e \in Inner \cup {"none"}, Goes(s, NextFlow(task[s]), e),
           UNCHANGED <<lists, recent, inputs, changes>>,
           \A f \in Flows : Len(hist'[f]) = Len(hist[f])
    PROVE  ChainInv'
<1> DEFINE t == task[s]
<1>1. Busy(t) /\ t.at \in {"recording", "judging", "disabling"}
  BY DEF Busy
<1>2. t \in TaskRec /\ Order(t, lists) /\ Passed(t, lists) = Before(t, t.i + 1)
  BY <1>1, Stepping
<1>3. Goes(s, NextFlow(t), e)
  OBVIOUS
<1> HIDE DEF t
<1>4. Beyond(NextFlow(t), t, t.i + 1, t.todo)
  BY <1>1, <1>2, NextCounted DEF AutoInv, Order
<1>5. \A f \in Flows : f \in t.todo => Owes(t, f)
  BY DEF Owes
<1> QED BY <1>1, <1>2, <1>3, <1>4, <1>5, PassesOn DEF t

LEMMA HoldsPays ==
    ASSUME AutoInv, ChainInv, NEW s \in Tasks, task[s].at \in {"recording", "judging"},
           NEW at \in {"judging", "disabling"}, Goes(s, [task[s] EXCEPT !.at = at], "none"),
           UNCHANGED <<lists, recent, inputs, changes>>,
           \A f \in Flows : Len(hist'[f]) = Len(hist[f])
    PROVE  ChainInv'
<1> DEFINE t == task[s]
           u == [t EXCEPT !.at = at]
<1>1. Busy(t) /\ t.at \in {"recording", "judging"}
  BY DEF Busy
<1>2. t \in TaskRec /\ Order(t, lists)
  BY <1>1, Stepping
<1>3. Goes(s, u, "none")
  OBVIOUS
<1>4. u \in TaskRec /\ u.at = at /\ u.kind = t.kind /\ u.event = t.event
      /\ u.i = t.i /\ u.gen = t.gen /\ u.todo = t.todo
  BY <1>2 DEF TaskRec, Points
<1> HIDE DEF u, t
<1>5. Order(u, lists)
  BY <1>1, <1>2, <1>4 DEF Order
<1>6. \A q : Faces(u, q, lists) => Faces(t, q, lists)
  BY <1>1, <1>4 DEF Faces, Passed, Busy
<1>7. \A f : Owes(u, f) => Owes(t, f)
  BY <1>4 DEF Owes
<1> QED BY <1>1, <1>3, <1>4, <1>5, <1>6, <1>7, Passes DEF t

LEMMA RecordsPays ==
    ASSUME AutoInv, ChainInv, NEW s \in Tasks, Records(s)
    PROVE  ChainInv'
<1>1. task[s].at = "recording" /\ UNCHANGED <<lists, recent, inputs, changes>>
  BY DEF Records, rulesVars, rules, alertVars
<1>2. \A f \in Flows : Len(hist'[f]) = Len(hist[f])
  <2> DEFINE t == task[s]
  <2>1. t.wf \in Flows /\ t.run \in 1..Len(hist[t.wf]) /\ t \in TaskRec /\ t.result # "none"
    BY <1>1 DEF AutoInv, Types, AllSound, Sound, Phase, Owning
  <2>2. hist' = [hist EXCEPT ![t.wf][t.run] = t.result]
    BY DEF Records, Written
  <2>3. hist \in [Flows -> Seq(Statuses)]
    BY DEF AutoInv, Types
  <2>4. t.result \in Statuses
    BY <2>1 DEF TaskRec, Results, Statuses
  <2> HIDE DEF t
  <2>5. Len([hist[t.wf] EXCEPT ![t.run] = t.result]) = Len(hist[t.wf])
    <3>1. hist[t.wf] \in Seq(Statuses)
      BY <2>1, <2>3
    <3> QED BY <2>1, <2>4, <3>1, ExceptSeq
  <2> QED BY <2>1, <2>2, <2>3, <2>5
<1>3. \/ Goes(s, [task[s] EXCEPT !.at = "judging"], "none")
      \/ Goes(s, NextFlow(task[s]), "none")
  BY DEF Records
<1> QED BY <1>1, <1>2, <1>3, NextPays, HoldsPays

LEMMA JudgesPays ==
    ASSUME AutoInv, ChainInv, NEW s \in Tasks, Judges(s)
    PROVE  ChainInv'
<1>1. task[s].at = "judging" /\ UNCHANGED <<lists, recent, inputs, changes, hist>>
  BY DEF Judges, rulesVars, rules, alertVars, flowVars
<1>2. \/ Goes(s, [task[s] EXCEPT !.at = "disabling"], "none")
      \/ Goes(s, NextFlow(task[s]), "none")
  BY DEF Judges
<1> QED BY <1>1, <1>2, NextPays, HoldsPays

LEMMA DisablesPays ==
    ASSUME AutoInv, ChainInv, NEW s \in Tasks, Disables(s)
    PROVE  ChainInv'
<1>1. task[s].at = "disabling" /\ UNCHANGED <<lists, recent, inputs, changes, hist>>
  BY DEF Disables, rulesVars, rules, alertVars
<1>2. PICK e \in Inner \cup {"none"} : Goes(s, NextFlow(task[s]), e)
  <2>1. \/ Goes(s, NextFlow(task[s]), "workflow.auto_disabled")
        \/ Goes(s, NextFlow(task[s]), "none")
    BY DEF Disables
  <2> QED BY <2>1 DEF Inner
<1> QED BY <1>1, <1>2, NextPays

(***************************************************************************)
(* What comes from outside: an input or a change pays for what it brings.  *)
(***************************************************************************)
\* Handlers may be cancelled or begin with nothing to count.
LEMMA QuietPays ==
    ASSUME AutoInv, ChainInv, UNCHANGED <<lists, hist, recent, inputs>>,
           changes' \in {changes, changes + 1},
           \A u \in Tasks : /\ Order(task'[u], lists)
                            /\ \A f \in Flows : Owes(task'[u], f) => Owes(task[u], f)
                            /\ \A r \in Unpaced :
                                 Faces(task'[u], r, lists) => Faces(task[u], r, lists)
    PROVE  ChainInv'
<1>1. InOrder' /\ Distinct'
  BY DEF ChainInv, InOrder, Distinct
<1>2. Numbers' /\ changes <= changes'
  BY DEF ChainInv, Numbers
<1>3. Ahead' \subseteq Ahead
  BY DEF Ahead
<1>4. \A f \in Flows : Due(f)' \subseteq Due(f) /\ Len(hist'[f]) = Len(hist[f])
  BY DEF Due
<1>5. \A f \in Flows : Len(hist[f]) \in Nat
  BY DEF AutoInv, Types
<1>6. Tame => Covered'
  BY <1>2, <1>3, <1>4, <1>5, NoMoreOwed
<1> QED BY <1>1, <1>2, <1>6 DEF ChainInv

LEMMA InputPays ==
    ASSUME AutoInv, ChainInv, NEW t \in TaskRec, Input(t), Order(t, lists),
           (\A f \in Flows : ~Owes(t, f)) \/ (\A r \in Unpaced : ~Faces(t, r, lists))
    PROVE  ChainInv'
<1>1. PICK v \in Tasks : ~Busy(task[v]) /\ task' = [task EXCEPT ![v] = t]
  <2>1. PICK u \in Tasks : task[u].at = "free"
    BY DEF Input, Room
  <2>2. AnyFree(task) \in Tasks /\ task[AnyFree(task)].at = "free"
    BY <2>1 DEF AnyFree
  <2> QED BY <2>2 DEF Input, Busy
<1>2. task'[v] = t /\ \A u \in Tasks : u # v => task'[u] = task[u]
  BY <1>1 DEF AutoInv, Types
<1>3. UNCHANGED <<lists, recent, changes, hist>> /\ inputs' = inputs + 1
  BY DEF Input, rulesVars, rules, flowVars, alertVars
<1>4. InOrder' /\ Distinct' /\ Numbers'
  BY <1>2, <1>3 DEF ChainInv, InOrder, Distinct, Numbers
<1>5. ASSUME Tame, NEW f \in Flows
      PROVE  Len(hist'[f]) + Cardinality(Due(f)') + Cardinality(Ahead')
                <= Cardinality(recent') + inputs' * Own + changes'
  <2> DEFINE n  == Cardinality(Unpaced)  h == Len(hist[f])  d == Cardinality(Due(f))
             a == Cardinality(Ahead)  d2 == Cardinality(Due(f)')  a2 == Cardinality(Ahead')
             c == Cardinality(recent)  o == inputs * Own
  <2>1. h + d + a <= c + o + changes
    BY <1>5 DEF ChainInv, Covered
  <2>2. h \in Nat /\ changes \in Nat
    BY DEF AutoInv, Types, ChainInv, Numbers
  <2>3. d \in Nat /\ a \in Nat /\ c \in Nat /\ o \in Nat
        /\ IsFiniteSet(Due(f)) /\ IsFiniteSet(Ahead)
        /\ n \in Nat /\ Own \in Nat \ {0} /\ n <= Own
    BY Counts DEF ChainInv
  <2>4. inputs' * Own = o + Own
    <3>1. inputs \in Nat /\ Own \in Nat
      BY <2>3 DEF ChainInv, Numbers
    <3> HIDE DEF Own
    <3> QED BY <1>3, <3>1
  <2>5. d2 \in Nat /\ a2 \in Nat /\ d2 + a2 <= d + a + Own
    <3>1. CASE \A r \in Unpaced : ~Faces(t, r, lists)
      <4>1. Ahead' \subseteq Ahead
        BY <1>2, <1>3, <3>1 DEF Ahead
      <4>2. Due(f)' \subseteq Due(f) \cup {v}
        BY <1>2 DEF Due
      <4>3. IsFiniteSet(Due(f) \cup {v}) /\ Cardinality(Due(f) \cup {v}) \in {d, d + 1}
        BY <2>3, FS_AddElement
      <4>4. IsFiniteSet(Due(f)') /\ d2 <= Cardinality(Due(f) \cup {v})
        BY <4>2, <4>3, FS_Subset
      <4>5. d2 \in Nat
        BY <4>4, FS_CardinalityType
      <4>6. a2 \in Nat /\ a2 <= a
        BY <2>3, <4>1, FS_Subset, FS_CardinalityType
      <4> DEFINE k == Cardinality(Due(f) \cup {v})
      <4>7. d2 <= k /\ k \in {d, d + 1}
        BY <4>3, <4>4
      <4> HIDE DEF d, a, d2, a2, k, Own
      <4> QED BY <2>3, <4>5, <4>6, <4>7
    <3>2. CASE \A g \in Flows : ~Owes(t, g)
      <4>1. Due(f)' \subseteq Due(f)
        BY <1>2, <3>2 DEF Due
      <4> DEFINE new == {v} \X Unpaced
      <4>2. Ahead' \subseteq Ahead \cup new
        BY <1>2, <1>3 DEF Ahead
      <4>3. IsFiniteSet(new) /\ Cardinality(new) = n
        <5>1. IsFiniteSet({v}) /\ Cardinality({v}) = 1
          BY FS_Singleton
        <5>2. IsFiniteSet(new) /\ Cardinality(new) = Cardinality({v}) * n
          BY <5>1, Finite, FS_Product
        <5> HIDE DEF n, new
        <5> QED BY <2>3, <5>1, <5>2
      <4>4. IsFiniteSet(Ahead \cup new) /\ Cardinality(Ahead \cup new) \in Nat
            /\ Cardinality(Ahead \cup new) <= a + n
        <5>1. IsFiniteSet(Ahead \cup new)
              /\ Cardinality(Ahead \cup new) = a + Cardinality(new) - Cardinality(Ahead \cap new)
          BY <2>3, <4>3, FS_Union
        <5>2. IsFiniteSet(Ahead \cap new)
          BY <2>3, FS_Intersection
        <5>3. Cardinality(Ahead \cap new) \in Nat /\ Cardinality(Ahead \cup new) \in Nat
          BY <5>1, <5>2, FS_CardinalityType
        <5> DEFINE x == Cardinality(Ahead \cap new)  y == Cardinality(Ahead \cup new)
        <5>4. y = a + n - x /\ x \in Nat /\ y \in Nat
          BY <4>3, <5>1, <5>3
        <5>5. y <= a + n
          <6> HIDE DEF x, y, a, n
          <6> QED BY <2>3, <5>4
        <5> QED BY <5>1, <5>3, <5>5
      <4>5. IsFiniteSet(Ahead') /\ a2 <= Cardinality(Ahead \cup new)
        BY <4>2, <4>4, FS_Subset
      <4>6. a2 \in Nat
        BY <4>5, FS_CardinalityType
      <4>7. d2 \in Nat /\ d2 <= d
        BY <2>3, <4>1, FS_Subset, FS_CardinalityType
      <4> DEFINE y == Cardinality(Ahead \cup new)
      <4>8. a2 <= y /\ y <= a + n /\ y \in Nat
        BY <4>4, <4>5
      <4> HIDE DEF d, a, d2, a2, n, y, Own
      <4> QED BY <2>3, <4>6, <4>7, <4>8
    <3> QED BY <3>1, <3>2
  <2> HIDE DEF n, h, d, a, d2, a2, c, o, Own
  <2>6. h + d2 + a2 <= c + (o + Own) + changes
    BY <2>1, <2>2, <2>3, <2>5
  <2> QED BY <1>3, <2>4, <2>6 DEF h, d2, a2, c
<1> QED BY <1>4, <1>5 DEF ChainInv, Covered

LEMMA ComesInPays ==
    ASSUME AutoInv, ChainInv, ConnectionLost \/ WebhookArrives \/ \E f \in Flows : RunNow(f)
    PROVE  ChainInv'
<1>1. CASE ConnectionLost
  <2> DEFINE t == Handler("alert", "adapter_disconnected")
  <2>1. t \in TaskRec /\ t.at = "new" /\ t.kind = "alert" /\ t.i = 0 /\ t.todo = {}
    BY DEF Handler, Free, TaskRec, Points, Kinds, Results, Events
  <2>2. Input(t)
    BY <1>1 DEF ConnectionLost
  <2> HIDE DEF t
  <2>3. Order(t, lists) /\ \A f \in Flows : ~Owes(t, f)
    BY <2>1 DEF Order, Owes
  <2> QED BY <2>1, <2>2, <2>3, InputPays
<1>2. CASE WebhookArrives
  <2> DEFINE t == Handler("webhook", "none")
  <2>1. t \in TaskRec /\ t.at = "new" /\ t.kind = "webhook" /\ t.i = 0 /\ t.todo = {}
    BY DEF Handler, Free, TaskRec, Points, Kinds, Results
  <2>2. Input(t)
    BY <1>2 DEF WebhookArrives
  <2> HIDE DEF t
  <2>3. Order(t, lists) /\ \A r \in Unpaced : ~Faces(t, r, lists)
    BY <2>1 DEF Order, Faces
  <2> QED BY <2>1, <2>2, <2>3, InputPays
<1>3. ASSUME NEW f \in Flows, RunNow(f) PROVE ChainInv'
  <2> DEFINE t == [Handler("direct", "none") EXCEPT !.at = "starting", !.wf = f]
  <2>1. t \in TaskRec /\ t.at = "starting" /\ t.kind = "direct" /\ t.todo = {}
    BY DEF Handler, Free, TaskRec, Points, Kinds, Results
  <2>2. Input(t)
    BY <1>3 DEF RunNow
  <2> HIDE DEF t
  <2>3. Order(t, lists) /\ \A r \in Unpaced : ~Faces(t, r, lists)
    BY <2>1 DEF Order, Faces
  <2> QED BY <2>1, <2>2, <2>3, InputPays
<1> QED BY <1>1, <1>2, <1>3

\* A pair whose interval has run out is paid by the change.
LEMMA IntervalPays ==
    ASSUME AutoInv, ChainInv, NEW k \in Rules \X Events, IntervalPasses(k)
    PROVE  ChainInv'
<1>1. /\ UNCHANGED <<lists, hist, task, inputs>> /\ changes' = changes + 1
      /\ k \in recent /\ recent' = recent \ {k}
  BY DEF IntervalPasses, Changes, rules, flowVars
<1>2. InOrder' /\ Distinct' /\ Numbers'
  BY <1>1 DEF ChainInv, InOrder, Distinct, Numbers
<1>3. ASSUME Tame, NEW f \in Flows
      PROVE  Len(hist'[f]) + Cardinality(Due(f)') + Cardinality(Ahead')
                <= Cardinality(recent') + inputs' * Own + changes'
  <2> DEFINE h == Len(hist[f])  d == Cardinality(Due(f))  a == Cardinality(Ahead)
             c == Cardinality(recent)  c2 == Cardinality(recent')  o == inputs * Own
  <2>1. h + d + a <= c + o + changes
    BY <1>3 DEF ChainInv, Covered
  <2>2. h \in Nat /\ changes \in Nat
    BY DEF AutoInv, Types, ChainInv, Numbers
  <2>3. d \in Nat /\ a \in Nat /\ c \in Nat /\ o \in Nat /\ IsFiniteSet(recent)
    BY Counts DEF ChainInv
  <2>4. c2 = c - 1
    BY <1>1, <2>3, FS_RemoveElement
  <2>5. Due(f)' = Due(f) /\ Ahead' = Ahead
    BY <1>1 DEF Due, Ahead
  <2> HIDE DEF h, d, a, c, c2, o
  <2>6. h + d + a <= c2 + o + (changes + 1)
    BY <2>1, <2>2, <2>3, <2>4
  <2> QED BY <1>1, <2>5, <2>6 DEF h, d, a, c2, o
<1> QED BY <1>2, <1>3 DEF ChainInv, Covered

\* A list that grows at its end leaves each check what it has behind it.
LEMMA ListsGrowPays ==
    ASSUME AutoInv, ChainInv, UNCHANGED <<hist, task, recent, inputs>>, changes' = changes + 1,
           \A g \in 1..Len(lists) :
             /\ g \in 1..Len(lists') /\ Len(lists[g]) <= Len(lists'[g])
             /\ \A p \in 1..Len(lists[g]) : lists'[g][p] = lists[g][p],
           \A g \in 1..Len(lists) : Len(lists[g]) \in Nat /\ Len(lists'[g]) \in Nat,
           Distinct'
    PROVE  ChainInv'
<1>1. ASSUME NEW u \in Tasks
      PROVE  /\ Order(task[u], lists')
             /\ \A r \in Unpaced : Faces(task[u], r, lists') => Faces(task[u], r, lists)
  <2> DEFINE t == task[u]
  <2>1. t \in TaskRec /\ Order(t, lists)
    BY DEF AutoInv, Types, ChainInv, InOrder
  <2> HIDE DEF t
  <2>2. t.i \in Nat
    BY <2>1 DEF TaskRec
  <2>3. Order(t, lists')
    BY <2>1, <2>2 DEF Order
  <2>4. CASE t.at \in {"free", "new"}
    <3>1. Passed(t, lists) = {}
      BY <2>1, <2>4 DEF Order, Passed
    <3> QED BY <2>3, <3>1 DEF Faces, t
  <2>5. CASE t.at \notin {"free", "new"} /\ t.kind = "alert"
    <3>1. t.gen \in 1..Len(lists) /\ t.i <= Len(lists[t.gen])
      BY <2>1, <2>5 DEF Order
    <3> DEFINE n == IF t.at = "persisting" THEN t.i - 1 ELSE t.i
    <3>2. n \in Int /\ n <= t.i
      BY <2>2
    <3>3. Passed(t, lists) = {lists[t.gen][j] : j \in 1..n}
          /\ Passed(t, lists') = {lists'[t.gen][j] : j \in 1..n}
      BY DEF Passed
    <3> HIDE DEF n
    <3>4. \A j \in 1..n : j \in 1..Len(lists[t.gen])
      BY <2>2, <3>1, <3>2
    <3>5. \A j \in 1..n : lists'[t.gen][j] = lists[t.gen][j]
      BY <3>1, <3>4
    <3>6. Passed(t, lists') = Passed(t, lists)
      BY <3>3, <3>5
    <3> QED BY <2>3, <3>6 DEF Faces, t
  <2>6. CASE t.kind # "alert"
    BY <2>3, <2>6 DEF Faces, t
  <2> QED BY <2>4, <2>5, <2>6
<1>2. InOrder'
  BY <1>1 DEF InOrder
<1>3. Numbers' /\ changes <= changes'
  BY DEF ChainInv, Numbers
<1>4. Ahead' \subseteq Ahead
  BY <1>1 DEF Ahead
<1>5. \A f \in Flows : Due(f)' \subseteq Due(f) /\ Len(hist'[f]) = Len(hist[f])
  BY DEF Due
<1>6. \A f \in Flows : Len(hist[f]) \in Nat
  BY DEF AutoInv, Types
<1>7. Tame => Covered'
  BY <1>3, <1>4, <1>5, <1>6, NoMoreOwed
<1> QED BY <1>2, <1>3, <1>7 DEF ChainInv

LEMMA AddRulePays ==
    ASSUME AutoInv, ChainInv, NEW r \in Rules, AddRule(r)
    PROVE  ChainInv'
<1> DEFINE n   == Len(lists)
           old == lists[n]
           new == Append(old, r)
<1>1. lists \in Seq(Seq(Rules)) /\ n \in 1..n /\ old \in Seq(Rules) /\ old = Last(lists)
  BY DEF AutoInv, Types, Last
<1>2. lists' = [lists EXCEPT ![n] = new] /\ r \notin Range(lists[n])
      /\ UNCHANGED <<hist, task, recent, inputs>> /\ changes' = changes + 1
  BY <1>1 DEF AddRule, Changes, flowVars, alertVars
<1>3. new \in Seq(Rules) /\ Len(old) \in Nat /\ Len(new) = Len(old) + 1
      /\ new[Len(old) + 1] = r /\ \A p \in 1..Len(old) : new[p] = old[p]
  BY <1>1, AppendProperties
<1> HIDE DEF new, old
<1>4. Len(lists') = n /\ lists'[n] = new /\ \A g \in 1..n : g # n => lists'[g] = lists[g]
  <2> DEFINE S == Seq(Rules)
  <2>1. lists \in Seq(S) /\ new \in S
    BY <1>1, <1>3
  <2> HIDE DEF S
  <2>2. Len([lists EXCEPT ![n] = new]) = n
        /\ \A g \in 1..n : [lists EXCEPT ![n] = new][g] = IF g = n THEN new ELSE lists[g]
    BY <1>1, <2>1, ExceptSeq
  <2> QED BY <1>1, <1>2, <2>2
<1>5. \A i, j \in 1..Len(new) : new[i] = new[j] => i = j
  <2>1. \A i \in 1..Len(old) : old[i] # r
    BY <1>1, <1>2 DEF Range, old
  <2>2. \A i, j \in 1..Len(old) : old[i] = old[j] => i = j
    BY <1>1 DEF ChainInv, Distinct, old
  <2>3. \A i \in 1..Len(new) : i \in 1..Len(old) \/ i = Len(old) + 1
    BY <1>3
  <2> QED BY <1>3, <2>1, <2>2, <2>3
<1>6. Distinct'
  <2>1. ASSUME NEW g \in 1..n, NEW i \in 1..Len(lists'[g]), NEW j \in 1..Len(lists'[g]),
               lists'[g][i] = lists'[g][j]
        PROVE  i = j
    <3>1. CASE g = n
      BY <1>4, <1>5, <2>1, <3>1
    <3>2. CASE g # n
      BY <1>4, <2>1, <3>2 DEF ChainInv, Distinct
    <3> QED BY <3>1, <3>2
  <2> QED BY <1>4, <2>1 DEF Distinct
<1>7. ASSUME NEW g \in 1..Len(lists)
      PROVE  /\ g \in 1..Len(lists') /\ Len(lists[g]) <= Len(lists'[g])
             /\ \A p \in 1..Len(lists[g]) : lists'[g][p] = lists[g][p]
             /\ Len(lists[g]) \in Nat /\ Len(lists'[g]) \in Nat
  <2>1. CASE g = n
    BY <1>3, <1>4, <2>1 DEF old
  <2>2. CASE g # n
    <3>1. Len(lists[g]) \in Nat
      BY <1>1
    <3> QED BY <1>4, <2>2, <3>1
  <2> QED BY <2>1, <2>2
<1> QED BY <1>2, <1>6, <1>7, ListsGrowPays

LEMMA RemoveRulePays ==
    ASSUME AutoInv, ChainInv, NEW name, RemoveRule(name)
    PROVE  ChainInv'
<1> DEFINE n   == Len(lists)
           old == lists[n]
<1>1. lists \in Seq(Seq(Rules)) /\ n \in 1..n /\ old \in Seq(Rules) /\ old = Last(lists)
  BY DEF AutoInv, Types, Last
<1>2. PICK new \in NamedOtherwise(name, old) : lists' = Append(lists, new)
  BY <1>1 DEF RemoveRule, RemovedFromNew
<1>3. UNCHANGED <<hist, task, recent, inputs>> /\ changes' = changes + 1
  BY DEF RemoveRule, Changes, flowVars, alertVars
<1>4. new \in Seq(Rules) /\ \A i, j \in 1..Len(new) : new[i] = new[j] => i = j
  <2>1. \A i, j \in 1..Len(old) : old[i] = old[j] => i = j
    BY <1>1 DEF ChainInv, Distinct
  <2>2. old \in Seq(Rules)
    BY <1>1
  <2> HIDE DEF old
  <2> QED BY <1>2, <2>1, <2>2, OthersAre
<1>5. Len(lists') = n + 1 /\ lists'[n + 1] = new /\ \A g \in 1..n : lists'[g] = lists[g]
  <2> DEFINE S == Seq(Rules)
  <2>1. lists \in Seq(S) /\ new \in S
    BY <1>1, <1>4
  <2> HIDE DEF S
  <2> QED BY <1>2, <2>1, AppendProperties
<1>6. Distinct'
  <2>1. ASSUME NEW g \in 1..(n + 1), NEW i \in 1..Len(lists'[g]), NEW j \in 1..Len(lists'[g]),
               lists'[g][i] = lists'[g][j]
        PROVE  i = j
    <3>1. CASE g = n + 1
      BY <1>4, <1>5, <2>1, <3>1
    <3>2. CASE g # n + 1
      <4>1. g \in 1..n
        BY <1>1, <3>2
      <4> QED BY <1>5, <2>1, <4>1 DEF ChainInv, Distinct
    <3> QED BY <3>1, <3>2
  <2> QED BY <1>5, <2>1 DEF Distinct
<1>7. ASSUME NEW g \in 1..Len(lists)
      PROVE  /\ g \in 1..Len(lists') /\ Len(lists[g]) <= Len(lists'[g])
             /\ \A q \in 1..Len(lists[g]) : lists'[g][q] = lists[g][q]
             /\ Len(lists[g]) \in Nat /\ Len(lists'[g]) \in Nat
  <2>1. Len(lists[g]) \in Nat
    BY <1>1
  <2> QED BY <1>1, <1>5, <2>1
<1> QED BY <1>3, <1>6, <1>7, ListsGrowPays

\* What changes neither the lists nor the histories, and no task beyond what it owes.
LEMMA StaysPays ==
    ASSUME AutoInv, ChainInv, UNCHANGED <<lists, hist, task, recent, inputs>>,
           changes' \in {changes, changes + 1}
    PROVE  ChainInv'
<1>1. \A u \in Tasks : Order(task'[u], lists)
  BY DEF ChainInv, InOrder
<1> QED BY <1>1, QuietPays

LEMMA ToggleRulePays ==
    ASSUME AutoInv, ChainInv, NEW name, ToggleRule(name)
    PROVE  ChainInv'
<1>0. PICK r \in Rules : task' = [s \in Tasks |-> [task[s] EXCEPT !.owed = @ \ {r}]]
  BY ToggledIs
<1>1. UNCHANGED <<lists, hist, recent, inputs>> /\ changes' = changes + 1
      /\ task' = [s \in Tasks |-> [task[s] EXCEPT !.owed = @ \ {r}]]
  BY <1>0 DEF ToggleRule, Changes, flowVars, alertVars
<1>2. ASSUME NEW u \in Tasks
      PROVE  /\ Order(task'[u], lists)
             /\ \A f \in Flows : Owes(task'[u], f) => Owes(task[u], f)
             /\ \A q \in Unpaced : Faces(task'[u], q, lists) => Faces(task[u], q, lists)
  <2> DEFINE t == task[u]
             w == task'[u]
  <2>1. t \in TaskRec /\ Order(t, lists)
    BY DEF AutoInv, Types, ChainInv, InOrder
  <2>2. w = [t EXCEPT !.owed = @ \ {r}]
    BY <1>1
  <2> HIDE DEF t, w
  <2>3. w.at = t.at /\ w.kind = t.kind /\ w.event = t.event /\ w.gen = t.gen /\ w.i = t.i
        /\ w.rule = t.rule /\ w.wf = t.wf /\ w.todo = t.todo
    BY <2>1, <2>2 DEF TaskRec
  <2>4. Order(w, lists)
    BY <2>1, <2>3 DEF Order
  <2>5. \A f \in Flows : Owes(w, f) => Owes(t, f)
    BY <2>3 DEF Owes
  <2>6. \A q \in Unpaced : Faces(w, q, lists) => Faces(t, q, lists)
    BY <2>3 DEF Faces, Busy, Passed
  <2> QED BY <2>4, <2>5, <2>6 DEF t, w
<1> QED BY <1>1, <1>2, QuietPays

LEMMA PagesPay ==
    ASSUME AutoInv, ChainInv, NEW f \in Flows, Enable(f) \/ Edit(f) \/ Delete(f)
    PROVE  ChainInv'
BY StaysPays DEF Enable, Edit, Delete, Changes, rules, alertVars

LEMMA PatrolWritesPays ==
    ASSUME AutoInv, ChainInv, NEW f \in Flows, PatrolWrites(f)
    PROVE  ChainInv'
<1>1. UNCHANGED <<lists, hist, recent, inputs, changes>>
  BY DEF PatrolWrites, rulesVars, rules, alertVars
<1>2. CASE task' = task
  BY <1>1, <1>2, StaysPays
<1>3. CASE task' # task
  <2> DEFINE h == Handler("alert", "workflow.auto_reenabled")
  <2>1. Room /\ task' = [task EXCEPT ![AnyFree(task)] = h]
    BY <1>3 DEF PatrolWrites, Dispatched
  <2>2. PICK v \in Tasks : task[v].at = "free"
    BY <2>1 DEF Room
  <2>3. AnyFree(task) \in Tasks
    BY <2>2 DEF AnyFree
  <2>4. "workflow.auto_reenabled" \in Inner
    BY DEF Inner
  <2>5. Order(h, lists) /\ (\A g : ~Owes(h, g)) /\ (\A r : ~Faces(h, r, lists))
    BY <2>4, InnerHandlers
  <2>6. task \in [Tasks -> TaskRec] /\ \A u \in Tasks : Order(task[u], lists)
    BY DEF AutoInv, Types, ChainInv, InOrder
  <2> HIDE DEF h
  <2>7. \A u \in Tasks : task'[u] = task[u] \/ task'[u] = h
    BY <2>1, <2>3, <2>6
  <2> QED BY <1>1, <2>5, <2>6, <2>7, QuietPays
<1> QED BY <1>2, <1>3

LEMMA StopTimesOutPays ==
    ASSUME AutoInv, ChainInv, StopTimesOut
    PROVE  ChainInv'
<1>1. UNCHANGED <<lists, hist, recent, inputs, changes>>
  BY DEF StopTimesOut, rulesVars, rules, alertVars
<1>2. \A u \in Tasks : task'[u] = task[u] \/ task'[u] = Free
  BY DEF StopTimesOut
<1>3. \A u \in Tasks : Order(task[u], lists)
  BY DEF ChainInv, InOrder
<1>4. Order(Free, lists) /\ (\A g : ~Owes(Free, g)) /\ (\A r : ~Faces(Free, r, lists))
  BY FreeTask
<1> HIDE DEF Free
<1> QED BY <1>1, <1>2, <1>3, <1>4, QuietPays

LEMMA StepPays ==
    ASSUME AutoInv, ChainInv, NEW s \in Tasks, Step(s)
    PROVE  ChainInv'
BY BeginsPays, PersistsPays, SendRaisesPays, ListsPays, StartsPays, StepsEndPays,
   RecordsPays, JudgesPays, DisablesPays DEF Step

LEMMA OutsidePays ==
    ASSUME AutoInv, ChainInv, Outside
    PROVE  ChainInv'
<1>1. CASE \/ \E r \in Rules : AddRule(r)
           \/ \E name \in {NameOf[r] : r \in Rules} : RemoveRule(name) \/ ToggleRule(name)
  BY <1>1, AddRulePays, RemoveRulePays, ToggleRulePays
<1>2. CASE \E f \in Flows : RunNow(f) \/ Enable(f) \/ Edit(f) \/ Delete(f) \/ PatrolWrites(f)
  BY <1>2, ComesInPays, PagesPay, PatrolWritesPays
<1>3. CASE ConnectionLost \/ WebhookArrives
  BY <1>3, ComesInPays
<1>4. CASE \E k \in Rules \X Events : IntervalPasses(k)
  BY <1>4, IntervalPays
<1>5. CASE PatrolReads \/ Stop
  BY <1>5, StaysPays DEF PatrolReads, Stop, Changes, rules, flowVars, alertVars
<1>6. CASE StopTimesOut
  BY <1>6, StopTimesOutPays
<1> QED BY <1>1, <1>2, <1>3, <1>4, <1>5, <1>6 DEF Outside

LEMMA SetToSeqDistinct ==
    ASSUME NEW S, IsFiniteSet(S)
    PROVE  \A i, j \in 1..Len(SetToSeq(S)) : SetToSeq(S)[i] = SetToSeq(S)[j] => i = j
<1> DEFINE n == Cardinality(S)
           q == SetToSeq(S)
<1>1. n \in Nat /\ ExistsBijection(1..n, S)
  BY FS_CardinalityType
<1>2. PICK f \in [1..n -> S] : IsInjective(f)
  BY <1>1 DEF ExistsBijection, Bijection, Injection
<1>3. q \in [1..n -> S] /\ IsInjective(q)
  BY <1>2 DEF SetToSeq
<1> HIDE DEF q, n
<1>4. Len(q) = n /\ DOMAIN q = 1..n
  BY <1>1, <1>3
<1>5. \A i, j \in 1..Len(q) : q[i] = q[j] => i = j
  BY <1>3, <1>4 DEF IsInjective
<1> QED BY <1>5 DEF q

LEMMA ChainInit == Init => ChainInv
<1> SUFFICES ASSUME Init PROVE ChainInv
  OBVIOUS
<1>1. AutoInv
  BY AutoInit
<1>2. \A s \in Tasks : task[s] = Free
  BY DEF Init
<1>3. InOrder
  BY <1>2, FreeTask DEF InOrder
<1>4. Distinct
  <2> DEFINE q == SetToSeq(Saved)
  <2>1. \A i, j \in 1..Len(q) : q[i] = q[j] => i = j
    BY SetToSeqDistinct, AutomationAssumption, FS_Subset
  <2>2. lists = <<q>>
    BY DEF Init
  <2> HIDE DEF q
  <2>3. Len(lists) = 1 /\ lists[1] = q
    BY <2>2
  <2> QED BY <2>1, <2>3 DEF Distinct
<1>5. Numbers
  BY DEF Init, Numbers
<1>6. ASSUME NEW f \in Flows
      PROVE  Len(hist[f]) + Cardinality(Due(f)) + Cardinality(Ahead)
                <= Cardinality(recent) + inputs * Own + changes
  <2>1. Due(f) = {} /\ Ahead = {} /\ recent = {}
    BY <1>2, FreeTask DEF Due, Ahead, Init
  <2>2. Cardinality(Due(f)) = 0 /\ Cardinality(Ahead) = 0 /\ Cardinality(recent) = 0
    BY <2>1, FS_EmptySet
  <2>3. Len(hist[f]) = 0 /\ changes = 0 /\ inputs * Own \in Nat
    BY <1>5, Counts DEF Init
  <2> DEFINE o == inputs * Own
  <2>4. o \in Nat
    BY <2>3
  <2> HIDE DEF o
  <2>5. 0 + 0 + 0 <= 0 + o + 0
    BY <2>4
  <2> QED BY <2>2, <2>3, <2>5 DEF o
<1> QED BY <1>3, <1>4, <1>5, <1>6 DEF ChainInv, Covered

\* Where every rule that can hear of a workflow has an interval, a run of a workflow is
\* paid for by a notified pair, an input or a change, and the pairs are finitely many: the
\* chain of alerts that start workflows that raise alerts ends (services/alerts.py,
\* services/workflow.py, docs/archive/CHANGELOG_v2.md:292).
THEOREM ChainEnds == Spec => []ChainIsBounded
<1>1. AutoInv /\ ChainInv /\ [Next]_vars => ChainInv'
  <2> SUFFICES ASSUME AutoInv, ChainInv, [Next]_vars PROVE ChainInv'
    OBVIOUS
  <2>1. CASE Next
    BY <2>1, StepPays, OutsidePays DEF Next
  <2>2. CASE UNCHANGED vars
    BY <2>2, StaysPays DEF vars
  <2> QED BY <2>1, <2>2
<1>2. AutoInv /\ ChainInv => ChainIsBounded
  <2> SUFFICES ASSUME AutoInv, ChainInv, Tame
               PROVE  /\ recent \subseteq Heard
                      /\ \A f \in Flows :
                           Len(hist[f]) <= Cardinality(recent) + inputs * Own + changes
    BY DEF ChainIsBounded, Own, Tame, Unpaced
  <2>1. recent \subseteq Heard
    BY DEF ChainInv, Numbers
  <2>2. ASSUME NEW f \in Flows
        PROVE  Len(hist[f]) <= Cardinality(recent) + inputs * Own + changes
    <3> DEFINE h == Len(hist[f])  d == Cardinality(Due(f))  a == Cardinality(Ahead)
               c == Cardinality(recent)  o == inputs * Own
    <3>1. h + d + a <= c + o + changes
      BY DEF ChainInv, Covered
    <3>2. h \in Nat /\ changes \in Nat /\ d \in Nat /\ a \in Nat /\ c \in Nat /\ o \in Nat
      <4>1. h \in Nat /\ changes \in Nat
        BY DEF AutoInv, Types, ChainInv, Numbers
      <4>2. d \in Nat /\ a \in Nat /\ c \in Nat /\ o \in Nat
        BY Counts DEF ChainInv
      <4> QED BY <4>1, <4>2
    <3> HIDE DEF h, d, a, c, o
    <3>3. h <= c + o + changes
      BY <3>1, <3>2
    <3> QED BY <3>3 DEF h, c, o
  <2> QED BY <2>1, <2>2
<1> QED BY <1>1, <1>2, ChainInit, Invariance, PTL DEF Spec

(***************************************************************************)
(* Automation implements WorkflowRuns: what concerns handlers only is a    *)
(* stutter, every other step one of the abstract engine.                   *)
(***************************************************************************)
Disabling(t, f) == t.at = "disabling" /\ t.wf = f

Others(s, f) == \E u \in Tasks \ {s} : Disabling(task[u], f)

LEMMA GoesJudged ==
    ASSUME AutoInv, NEW s \in Tasks, Busy(task[s]), NEW t, NEW e, Goes(s, t, e)
    PROVE  \A f \in Flows : f \in Judged' <=> Disabling(t, f) \/ Others(s, f)
<1> DEFINE own == IF Busy(t) THEN t ELSE Free
           ts  == [task EXCEPT ![s] = own]
<1>1. task \in [Tasks -> TaskRec]
  BY DEF AutoInv, Types
<1>2. ts[s] = own /\ \A u \in Tasks : u # s => ts[u] = task[u]
  BY <1>1
<1>3. DOMAIN ts = Tasks
  BY <1>1
<1>4. \A f : Disabling(own, f) <=> Disabling(t, f)
  BY DEF Disabling, Busy, Free
<1>5. task' = Dispatched(ts, e)
  BY DEF Goes
<1> HIDE DEF own, ts
<1>6. ASSUME NEW f \in Flows, NEW u \in Tasks
      PROVE  Disabling(task'[u], f) <=> Disabling(ts[u], f)
  <2>1. CASE stopped \/ e = "none"
    BY <1>5, <2>1 DEF Dispatched
  <2>2. CASE ~(stopped \/ e = "none")
    <3>1. PICK v \in Tasks : task[v].at = "free"
      BY <2>2 DEF Goes, Room
    <3>2. v # s /\ ts[v].at = "free"
      BY <1>2, <3>1 DEF Busy
    <3>3. AnyFree(ts) \in Tasks /\ ts[AnyFree(ts)].at = "free"
      BY <3>2 DEF AnyFree
    <3> DEFINE w == AnyFree(ts)
    <3>4. task' = [ts EXCEPT ![w] = Handler("alert", e)]
      BY <1>5, <2>2 DEF Dispatched
    <3> HIDE DEF w
    <3>5. task'[u] = IF u = w THEN Handler("alert", e) ELSE ts[u]
      BY <1>3, <3>4
    <3>6. Handler("alert", e).at = "new"
      BY DEF Handler, Free
    <3> QED BY <3>3, <3>5, <3>6 DEF Disabling, w
  <2> QED BY <2>1, <2>2
<1>7. ASSUME NEW f \in Flows PROVE f \in Judged' <=> Disabling(t, f) \/ Others(s, f)
  <2>1. f \in Judged' <=> \E u \in Tasks : Disabling(task'[u], f)
    BY DEF Judged, Disabling
  <2> QED BY <1>2, <1>4, <1>6, <2>1 DEF Others
<1> QED BY <1>7

LEMMA WasJudged ==
    ASSUME NEW s \in Tasks
    PROVE  /\ Judged \subseteq Flows /\ Judged' \subseteq Flows
           /\ \A f \in Flows : f \in Judged <=> Disabling(task[s], f) \/ Others(s, f)
BY DEF Judged, Disabling, Others

\* A task that goes on to other things than disabling leaves what is judged as it is.
LEMMA JudgedStays ==
    ASSUME AutoInv, NEW s \in Tasks, Busy(task[s]), NEW t, NEW e, Goes(s, t, e),
           task[s].at # "disabling", t.at # "disabling"
    PROVE  Judged' = Judged
<1>1. \A f : ~Disabling(t, f) /\ ~Disabling(task[s], f)
  BY DEF Disabling
<1> QED BY <1>1, GoesJudged, WasJudged

LEMMA FromElsewhere ==
    ASSUME NEW t \in TaskRec, NEW n
    PROVE  From(t, n).at \in {"free", "persisting"} /\ NextFlow(t).at # "disabling"
<1>1. \A m : From(t, m).at \in {"free", "persisting"}
  <2> SUFFICES ASSUME NEW m PROVE From(t, m).at \in {"free", "persisting"}
    OBVIOUS
  <2> DEFINE list   == lists[t.gen]
             places == IF t.kind # "alert" THEN {}
                       ELSE {j \in m..Len(list) : Matches(list[j], t.event)}
             next   == Least(places)
  <2>1. From(t, m) = IF places = {} THEN Ended(t)
                     ELSE [t EXCEPT !.at = "persisting", !.i = next, !.rule = list[next],
                                    !.wf = 0, !.run = 0, !.result = "none"]
    BY DEF From
  <2> HIDE DEF places, next, list
  <2>2. Ended(t).at = "free"
    BY DEF Ended, Free
  <2>3. [t EXCEPT !.at = "persisting", !.i = next, !.rule = list[next],
                  !.wf = 0, !.run = 0, !.result = "none"].at = "persisting"
    BY DEF TaskRec
  <2> QED BY <2>1, <2>2, <2>3
<1>2. CASE t.todo # {}
  <2> DEFINE wf == Least(t.todo)
  <2>1. NextFlow(t) = [t EXCEPT !.at = "starting", !.wf = wf, !.todo = @ \ {wf},
                                !.run = 0, !.result = "none"]
    BY <1>2 DEF NextFlow
  <2> HIDE DEF wf
  <2>2. NextFlow(t).at = "starting"
    BY <2>1 DEF TaskRec
  <2> QED BY <1>1, <2>2
<1>3. CASE t.todo = {}
  BY <1>1, <1>3 DEF NextFlow
<1> QED BY <1>2, <1>3

LEMMA ElsewhereStutters ==
    ASSUME AutoInv, NEW s \in Tasks,
           Begins(s) \/ Persists(s) \/ SendRaises(s) \/ Lists(s) \/ StepsEnd(s)
    PROVE  UNCHANGED Runs!vars
<1> DEFINE t == task[s]
<1>1. t \in TaskRec
  BY DEF AutoInv, Types
<1>2. UNCHANGED <<flow, hist>>
  BY DEF Begins, Persists, SendRaises, Lists, StepsEnd, flowVars
<1>3. Busy(t) /\ t.at # "disabling"
  BY DEF Begins, Persists, SendRaises, Lists, StepsEnd, Busy
<1>4. \E u, e : Goes(s, u, e) /\ u.at # "disabling"
  <2>1. CASE Begins(s)
    <3> DEFINE owed == {r \in Range(Last(lists)) : Matches(r, t.event)}
               new  == [t EXCEPT !.gen = Len(lists), !.owed = owed]
               web  == [t EXCEPT !.at = "listing"]
    <3>1. web.at = "listing"
      BY <1>1 DEF TaskRec
    <3>2. new \in TaskRec
      <4>1. Len(lists) \in Nat /\ Last(lists) \in Seq(Rules)
        BY DEF AutoInv, Types, Last
      <4>2. owed \subseteq Rules
        BY <4>1 DEF Range
      <4> HIDE DEF owed
      <4> QED BY <1>1, <4>1, <4>2 DEF TaskRec
    <3>3. Goes(s, From(new, 1), "none") \/ Goes(s, web, "none")
      BY <2>1 DEF Begins
    <3> HIDE DEF new, web
    <3>4. From(new, 1).at # "disabling"
      BY <3>2, FromElsewhere
    <3> QED BY <3>1, <3>3, <3>4
  <2>2. CASE Persists(s)
    <3> DEFINE rec == Recorded(t)
               new == [rec EXCEPT !.at = "sending"]
    <3>1. rec \in TaskRec
      BY <1>1 DEF Recorded, TaskRec
    <3>2. new.at = "sending"
      <4> HIDE DEF rec
      <4> QED BY <3>1 DEF TaskRec
    <3>3. Goes(s, From(rec, t.i + 1), "none") \/ Goes(s, new, "none")
      BY <2>2 DEF Persists
    <3> HIDE DEF rec, new
    <3>4. From(rec, t.i + 1).at # "disabling"
      BY <3>1, FromElsewhere
    <3> QED BY <3>2, <3>3, <3>4
  <2>3. CASE SendRaises(s)
    <3>1. Goes(s, Free, "none") /\ Free.at = "free"
      BY <2>3 DEF SendRaises, Free
    <3> QED BY <3>1
  <2>4. CASE Lists(s)
    <3> DEFINE todo == {f \in Flows : flow[f].here /\ flow[f].on /\ TriggerOf[f] = t.kind}
               new  == [t EXCEPT !.todo = todo]
    <3>1. new \in TaskRec
      <4>1. todo \subseteq Flows
        OBVIOUS
      <4> HIDE DEF todo
      <4> QED BY <1>1, <4>1 DEF TaskRec
    <3>2. Goes(s, NextFlow(new), "none")
      BY <2>4 DEF Lists
    <3> HIDE DEF new
    <3> QED BY <3>1, <3>2, FromElsewhere
  <2>5. CASE StepsEnd(s)
    <3> DEFINE ok  == [t EXCEPT !.at = "recording", !.result = "succeeded"]
               bad == [t EXCEPT !.at = "recording", !.result = "failed"]
    <3>1. ok.at = "recording" /\ bad.at = "recording"
      BY <1>1 DEF TaskRec
    <3>2. Goes(s, ok, "none") \/ Goes(s, bad, "workflow.failed")
      BY <2>5 DEF StepsEnd
    <3> HIDE DEF ok, bad
    <3> QED BY <3>1, <3>2
  <2> QED BY <2>1, <2>2, <2>3, <2>4, <2>5
<1>5. Judged' = Judged
  BY <1>3, <1>4, JudgedStays
<1> QED BY <1>2, <1>5 DEF Runs!vars

LEMMA StartsImplements ==
    ASSUME AutoInv, NEW s \in Tasks, Starts(s)
    PROVE  Runs!Next \/ UNCHANGED Runs!vars
<1> DEFINE t == task[s]
<1>1. t \in TaskRec /\ t.wf \in Flows /\ Busy(t) /\ t.at = "starting"
  BY DEF AutoInv, Types, AllSound, Sound, Phase, Starts, Busy
<1>2. PICK f \in Flows : f = t.wf
  BY <1>1
<1>3. UNCHANGED flow
  BY DEF Starts
<1>4. CASE ~flow[f].here
  <2> DEFINE new == [t EXCEPT !.todo = {}]
  <2>1. new \in TaskRec
    BY <1>1 DEF TaskRec
  <2>2. Goes(s, From(new, t.i + 1), "none") /\ hist' = hist
    BY <1>2, <1>4 DEF Starts
  <2> HIDE DEF new
  <2>3. From(new, t.i + 1).at # "disabling"
    BY <2>1, FromElsewhere
  <2>4. Judged' = Judged
    BY <1>1, <2>2, <2>3, JudgedStays
  <2> QED BY <1>3, <2>2, <2>4 DEF Runs!vars
<1>5. CASE flow[f].here
  <2> DEFINE r    == [t EXCEPT !.run = Len(hist[f]) + 1]
             step == [r EXCEPT !.at = "stepping"]
  <2>1. hist' = [hist EXCEPT ![f] = Append(@, "running")]
        /\ (Goes(s, step, "none") \/ Goes(s, Skips(r), "none"))
    BY <1>2, <1>5 DEF Starts
  <2>2. step.at = "stepping" /\ Skips(r).at = "recording"
    BY <1>1 DEF TaskRec, Skips
  <2> HIDE DEF step, r
  <2>3. Judged' = Judged
    BY <1>1, <2>1, <2>2, JudgedStays
  <2>4. Runs!Begin(f)
    BY <1>3, <1>5, <2>1, <2>3 DEF Runs!Begin
  <2> QED BY <2>4 DEF Runs!Next
<1> QED BY <1>4, <1>5

\* The run that is recorded is still running, since nobody else owns it.
LEMMA RecordsImplements ==
    ASSUME AutoInv, NEW s \in Tasks, Records(s)
    PROVE  Runs!Next
<1> DEFINE t == task[s]
<1>1. t \in TaskRec /\ t.wf \in Flows /\ Busy(t) /\ t.at = "recording" /\ t.result # "none"
      /\ t.run \in 1..Len(hist[t.wf]) /\ hist[t.wf][t.run] = "running"
  BY DEF AutoInv, Types, AllSound, Sound, Phase, Owning, Records, Busy
<1>2. PICK f \in Flows : f = t.wf /\ t.run \in 1..Len(hist[f])
  BY <1>1
<1> DEFINE i == t.run
<1>3. t.result \in {"skipped", "succeeded", "failed"}
  BY <1>1 DEF TaskRec, Results
<1>4. flow' = flow /\ hist' = [hist EXCEPT ![f][i] = t.result]
  BY <1>2 DEF Records, Written
<1>5. Judged' = Judged
  <2> DEFINE judging == [t EXCEPT !.at = "judging"]
  <2>1. judging.at = "judging"
    BY <1>1 DEF TaskRec
  <2>2. Goes(s, judging, "none") \/ Goes(s, NextFlow(t), "none")
    BY DEF Records
  <2> HIDE DEF judging
  <2> QED BY <1>1, <2>1, <2>2, FromElsewhere, JudgedStays
<1>6. Runs!End(f, i)
  BY <1>1, <1>2, <1>3, <1>4, <1>5 DEF Runs!End
<1> HIDE DEF i
<1> QED BY <1>2, <1>6 DEF Runs!Next, i

LEMMA JudgesImplements ==
    ASSUME AutoInv, NEW s \in Tasks, Judges(s)
    PROVE  Runs!Next \/ UNCHANGED Runs!vars
<1> DEFINE t == task[s]
           disabling == [t EXCEPT !.at = "disabling"]
<1>1. t \in TaskRec /\ t.wf \in Flows /\ Busy(t) /\ t.at = "judging" /\ Threshold > 0
  BY DEF AutoInv, Types, AllSound, Sound, Phase, Owning, Judges, Busy
<1>2. PICK f \in Flows : f = t.wf
  BY <1>1
<1>3. UNCHANGED <<flow, hist>>
  BY DEF Judges, flowVars
<1>4. CASE Streak(hist[f])
  <2>1. Goes(s, disabling, "none")
    BY <1>2, <1>4 DEF Judges
  <2>2. disabling.at = "disabling" /\ disabling.wf = f
    BY <1>1, <1>2 DEF TaskRec
  <2>3. \A g \in Flows : ~Disabling(t, g) /\ (Disabling(disabling, g) <=> g = f)
    BY <1>1, <2>2 DEF Disabling
  <2> HIDE DEF disabling, t
  <2>4. Judged' = Judged \cup {f}
    <3>1. \A g \in Flows : g \in Judged' <=> g = f \/ Others(s, g)
      BY <1>1, <2>1, <2>3, GoesJudged DEF t
    <3>2. \A g \in Flows : g \in Judged <=> Others(s, g)
      BY <2>3, WasJudged DEF t
    <3> QED BY <3>1, <3>2, WasJudged
  <2>5. Runs!Failing(f)
    BY <1>1, <1>4 DEF Streak, AllFailed, Runs!Failing
  <2>6. Runs!Judge(f)
    BY <1>3, <2>4, <2>5 DEF Runs!Judge
  <2> QED BY <2>6 DEF Runs!Next
<1>5. CASE ~Streak(hist[f])
  <2>1. Goes(s, NextFlow(t), "none")
    BY <1>2, <1>5 DEF Judges
  <2>2. Judged' = Judged
    BY <1>1, <2>1, FromElsewhere, JudgedStays
  <2> QED BY <1>3, <2>2 DEF Runs!vars
<1> QED BY <1>4, <1>5

LEMMA DisablesImplements ==
    ASSUME AutoInv, NEW s \in Tasks, Disables(s)
    PROVE  Runs!Next
<1> DEFINE t == task[s]
<1>1. t \in TaskRec /\ t.wf \in Flows /\ Busy(t) /\ t.at = "disabling"
  BY DEF AutoInv, Types, AllSound, Sound, Phase, Owning, Disables, Busy
<1>2. PICK f \in Flows : f = t.wf
  BY <1>1
<1>3. \E e : Goes(s, NextFlow(t), e)
  BY DEF Disables
<1>4. \A g \in Flows : ~Disabling(NextFlow(t), g) /\ (Disabling(t, g) <=> g = f)
  BY <1>1, <1>2, FromElsewhere DEF Disabling
<1>5. hist' = hist
  BY DEF Disables
<1>6. CASE flow[f].here /\ flow[f].on
  <2>1. flow' = [flow EXCEPT ![f].on = FALSE, ![f].marked = TRUE]
    BY <1>2, <1>6 DEF Disables
  <2> HIDE DEF t
  <2>2. f \in Judged /\ Judged' \in {Judged, Judged \ {f}}
    <3>1. \A g \in Flows : g \in Judged' <=> Others(s, g)
      BY <1>1, <1>3, <1>4, GoesJudged DEF t
    <3>2. \A g \in Flows : g \in Judged <=> g = f \/ Others(s, g)
      BY <1>4, WasJudged DEF t
    <3>3. CASE Others(s, f)
      <4>1. Judged' = Judged
        BY <3>1, <3>2, <3>3, WasJudged
      <4> QED BY <3>2, <4>1
    <3>4. CASE ~Others(s, f)
      <4>1. Judged' = Judged \ {f}
        BY <3>1, <3>2, <3>4, WasJudged
      <4> QED BY <3>2, <4>1
    <3> QED BY <3>3, <3>4
  <2>3. Runs!SwitchOff(f)
    BY <1>5, <1>6, <2>1, <2>2 DEF Runs!SwitchOff
  <2> QED BY <2>3 DEF Runs!Next
<1>7. CASE ~(flow[f].here /\ flow[f].on)
  <2>1. flow' = flow
    BY <1>2, <1>7 DEF Disables
  <2> HIDE DEF t
  <2>2. Judged' \in SUBSET Judged
    <3>1. \A g \in Flows : g \in Judged' => g \in Judged
      BY <1>1, <1>3, <1>4, GoesJudged, WasJudged DEF t
    <3> QED BY <3>1, WasJudged
  <2>3. Runs!Forget
    BY <1>5, <2>1, <2>2 DEF Runs!Forget
  <2> QED BY <2>3 DEF Runs!Next
<1> QED BY <1>6, <1>7

\* From outside: handlers begin, pages change the rows, the stop cancels who has judged.
LEMMA BeginnersStutter ==
    ASSUME AutoInv, UNCHANGED <<flow, hist>>,
           \A u \in Tasks : \/ task'[u].at = task[u].at /\ task'[u].wf = task[u].wf
                            \/ task[u].at # "disabling" /\ task'[u].at # "disabling"
    PROVE  UNCHANGED Runs!vars
<1>1. Judged' = Judged
  BY DEF Judged
<1> QED BY <1>1 DEF Runs!vars

LEMMA InputStutters ==
    ASSUME AutoInv, ConnectionLost \/ WebhookArrives \/ \E f \in Flows : RunNow(f)
    PROVE  UNCHANGED Runs!vars
<1>1. PICK t : Input(t) /\ t.at \in {"new", "starting"}
  <2>1. \A kind, event : Handler(kind, event).at = "new"
    BY DEF Handler, Free
  <2>2. \A f : [Handler("direct", "none") EXCEPT !.at = "starting", !.wf = f].at = "starting"
    BY DEF Handler, Free
  <2> QED BY <2>1, <2>2 DEF ConnectionLost, WebhookArrives, RunNow
<1>2. PICK v \in Tasks : task[v].at = "free" /\ task' = [task EXCEPT ![v] = t]
  <2>1. PICK u \in Tasks : task[u].at = "free"
    BY <1>1 DEF Input, Room
  <2>2. AnyFree(task) \in Tasks /\ task[AnyFree(task)].at = "free"
    BY <2>1 DEF AnyFree
  <2> QED BY <1>1, <2>2 DEF Input
<1>3. \A u \in Tasks : task'[u] = IF u = v THEN t ELSE task[u]
  BY <1>2 DEF AutoInv, Types
<1>4. UNCHANGED <<flow, hist>>
  BY <1>1 DEF Input, flowVars
<1> QED BY <1>1, <1>2, <1>3, <1>4, BeginnersStutter

LEMMA OutsideImplements ==
    ASSUME AutoInv, Outside
    PROVE  Runs!Next \/ UNCHANGED Runs!vars
<1>1. CASE ConnectionLost \/ WebhookArrives \/ \E f \in Flows : RunNow(f)
  BY <1>1, InputStutters
<1>2. CASE \/ PatrolReads \/ Stop \/ \E k \in Rules \X Events : IntervalPasses(k)
           \/ (\E r \in Rules : AddRule(r)) \/ \E name : RemoveRule(name)
  <2>1. UNCHANGED <<flow, hist, task>>
    BY <1>2 DEF PatrolReads, Stop, IntervalPasses, AddRule, RemoveRule, flowVars
  <2> QED BY <2>1, BeginnersStutter
<1>3. ASSUME NEW name, ToggleRule(name) PROVE UNCHANGED Runs!vars
  <2>0. PICK r \in Rules : task' = [s \in Tasks |-> [task[s] EXCEPT !.owed = @ \ {r}]]
    BY <1>3, ToggledIs
  <2>1. UNCHANGED <<flow, hist>>
    BY <1>3 DEF ToggleRule, flowVars
  <2>2. \A u \in Tasks : task'[u].at = task[u].at /\ task'[u].wf = task[u].wf
    <3>1. \A u \in Tasks : task[u] \in TaskRec
      BY DEF AutoInv, Types
    <3> QED BY <2>0, <3>1 DEF TaskRec
  <2> QED BY <2>1, <2>2, BeginnersStutter
<1>4. ASSUME NEW f \in Flows, Enable(f) \/ Edit(f) \/ Delete(f) PROVE Runs!Next
  <2>1. hist' = hist /\ task' = task
    BY <1>4 DEF Enable, Edit, Delete
  <2>2. Judged' = Judged
    BY <2>1 DEF Judged
  <2>3. Runs!SwitchOn(f) \/ Runs!Redefine(f) \/ Runs!Delete(f)
    BY <1>4, <2>1, <2>2 DEF Enable, Edit, Delete, Runs!SwitchOn, Runs!Redefine, Runs!Delete
  <2> QED BY <2>3 DEF Runs!Next
<1>5. ASSUME NEW f \in Flows, PatrolWrites(f) PROVE Runs!Next \/ UNCHANGED Runs!vars
  <2>1. hist' = hist
    BY <1>5 DEF PatrolWrites
  <2>2. CASE ~flow[f].here
    BY <1>5, <2>1, <2>2, BeginnersStutter DEF PatrolWrites
  <2>3. CASE flow[f].here
    <3> DEFINE h == Handler("alert", "workflow.auto_reenabled")
    <3>1. Room /\ task' = Dispatched(task, "workflow.auto_reenabled")
          /\ flow' = [flow EXCEPT ![f].on = TRUE, ![f].marked = FALSE]
      BY <1>5, <2>3 DEF PatrolWrites
    <3>2. PICK v \in Tasks : task[v].at = "free"
      BY <3>1 DEF Room
    <3>3. AnyFree(task) \in Tasks /\ task[AnyFree(task)].at = "free"
      BY <3>2 DEF AnyFree
    <3>4. h.at = "new"
      BY DEF Handler, Free
    <3> HIDE DEF h
    <3>5. \A u \in Tasks : task'[u] = task[u] \/ (task[u].at = "free" /\ task'[u] = h)
      BY <3>1, <3>3 DEF Dispatched, AutoInv, Types, h
    <3>6. Judged' = Judged
      BY <3>4, <3>5 DEF Judged
    <3>7. Runs!SwitchOn(f)
      BY <2>1, <2>3, <3>1, <3>6 DEF Runs!SwitchOn
    <3> QED BY <3>7 DEF Runs!Next
  <2> QED BY <2>2, <2>3
<1>6. CASE StopTimesOut
  <2>1. UNCHANGED <<flow, hist>> /\ \A u \in Tasks : task'[u] = task[u] \/ task'[u] = Free
    BY <1>6 DEF StopTimesOut
  <2>2. Free.at = "free"
    BY DEF Free
  <2>3. Judged' \in SUBSET Judged
    BY <2>1, <2>2 DEF Judged
  <2>4. Runs!Forget
    BY <2>1, <2>3 DEF Runs!Forget
  <2> QED BY <2>4 DEF Runs!Next
<1> QED BY <1>1, <1>2, <1>3, <1>4, <1>5, <1>6 DEF Outside

\* The engine with its handlers, awaits, patrol and stop implements WorkflowRuns: a run
\* ends once and keeps its result, and only a judgement that the newest runs all failed
\* switches a workflow off (services/workflow.py, runtime.py, core/bus.py).
THEOREM RunsRefinement == Spec => ImplementsRuns
<1>1. Init => Runs!Init
  <2> SUFFICES ASSUME Init PROVE Runs!Init
    OBVIOUS
  <2>1. Judged = {}
    BY DEF Init, Judged, Free
  <2> QED BY <2>1 DEF Init, Runs!Init
<1>2. AutoInv /\ [Next]_vars => [Runs!Next]_(Runs!vars)
  <2> SUFFICES ASSUME AutoInv, [Next]_vars PROVE Runs!Next \/ UNCHANGED Runs!vars
    OBVIOUS
  <2>1. CASE Outside
    BY <2>1, OutsideImplements
  <2>2. ASSUME NEW s \in Tasks, Step(s) PROVE Runs!Next \/ UNCHANGED Runs!vars
    BY <2>2, ElsewhereStutters, StartsImplements, RecordsImplements, JudgesImplements,
       DisablesImplements DEF Step
  <2>3. CASE UNCHANGED vars
    BY <2>3 DEF vars, Runs!vars, Judged
  <2> QED BY <2>1, <2>2, <2>3 DEF Next
<1> QED BY <1>1, <1>2, Invariance, PTL DEF Spec, ImplementsRuns, Runs!Spec
=============================================================================
