------------------------- MODULE TaskHealingProofs -------------------------
(***************************************************************************)
(* Safety of a scheduled task for any executions, requests, threshold and  *)
(* bounds.                                                                 *)
(***************************************************************************)
EXTENDS TaskHealing, FiniteSetTheorems, SequenceTheorems, TLAPS

\* Rows and copies of it keep no more cycles than they should.
Short == {r \in Row : Len(r.params.cycles) <= MaxCycles}

\* Each execution under way may disable the task once more.
Active == {e \in Executions : exec[e].at # "idle"}

ExecRec   == [at : {"idle", "sending", "judging"}, copy : Row]
PatrolRec == [at : {"asleep", "writing", "scheduling"}, copy : Row]
ReqRec    == [at : {"idle", "read", "written", "undoing", "done"},
              kind : Kinds \cup {"none", "add"}, copy : Row, new : Row]
Verdicts  == {"succeeded", "failed"}
Marks     == {"stale", "crossed", "stamp kept", "api"}

\* What a request has read and written.
Carries(q) == /\ q.copy \in Short /\ q.new \in Short
              /\ q.at = "read" => q.kind \in Kinds /\ q.copy.here

\* The types, with what bounds the stamps and the cycles.
Types ==
    /\ row \in Short /\ job \in BOOLEAN
    /\ history \in Seq(Verdicts)
    /\ exec \in [Executions -> ExecRec] /\ \A e \in Executions : exec[e].copy \in Short
    /\ patrol \in PatrolRec /\ patrol.copy \in Short
    /\ req \in [Requests -> ReqRec]
    /\ \A r \in Requests : Carries(req[r])
    /\ disables \in 0..MaxRuns /\ cold \in 0..disables
    /\ edits \in Nat /\ offByHand \in BOOLEAN
    /\ runs \in 0..MaxRuns /\ restarts \in 0..MaxRestarts
    /\ marks \subseteq Marks
    /\ disables + Cardinality(Active) <= runs

\* What executions and the patrol remember of the row they read, and how things are
\* before the task has been made.
Memories ==
    /\ \A e \in Executions : exec[e].at # "idle" => exec[e].copy.on
    /\ patrol.at = "writing" => ~patrol.copy.on /\ patrol.copy.params.stamp # 0

Beginning == edits = 0 =>
    /\ ~row.here /\ ~job /\ ~offByHand /\ patrol.at = "asleep"
    /\ \A r \in Requests : req[r].at \in {"idle", "done"}

\* A task that is on, or was turned off by hand, bears no mark of an automatic disable.
Word ==
    /\ row.here /\ "stale" \notin marks => row.params.text = edits
    /\ marks \cap {"stale", "stamp kept"} = {} =>
         /\ row.on => row.params.stamp = 0
         /\ offByHand => ~row.on /\ row.params.stamp = 0

\* One at a time is between a commit and the scheduler, and knows what the row says.
Half(r) == req[r].at \in {"written", "undoing"}

Alone == \A r \in Requests : Half(r) =>
    patrol.at # "scheduling" /\ \A q \in Requests : Half(q) => q = r

Matches == /\ row.here /\ row.on /\ row.good => job
           /\ ~row.here => ~job

Knows(r) ==
    /\ req[r].kind = "add" => ~job
    /\ req[r].kind # "delete" => row.here
    /\ req[r].kind = "delete" => ~row.here /\ ~req[r].new.on
    /\ row.on => req[r].new.on
    /\ row.here => row.good = req[r].new.good

Scheduling == marks \cap {"api", "stale", "crossed"} = {} =>
    /\ Alone
    /\ Settled => Matches
    /\ patrol.at = "scheduling" => row.here /\ row.good = patrol.copy.good
    /\ \A r \in Requests : req[r].at = "written" => Knows(r)
    /\ \A r \in Requests : req[r].at = "undoing" =>
         row.here /\ req[r].kind # "delete" /\ (req[r].kind = "add" => ~job)

USE HealingAssumption

(***************************************************************************)
(* What the operators on rows return.                                      *)
(***************************************************************************)
CycleRec == [disabled : 1..MaxRuns, closed : BOOLEAN]

LEMMA RecentKeeps ==
    ASSUME NEW s \in Seq(CycleRec), s # <<>>
    PROVE  /\ Recent(s) \in Seq(CycleRec) /\ Len(Recent(s)) <= MaxCycles
           /\ Recent(s) # <<>> /\ Recent(s)[Len(Recent(s))] = s[Len(s)]
<1>1. CASE Len(s) <= MaxCycles
  BY <1>1 DEF Recent
<1>2. CASE ~(Len(s) <= MaxCycles)
  <2> DEFINE m == Len(s) - MaxCycles + 1
             t == SubSeq(s, m, Len(s))
  <2>1. Recent(s) = t
    BY <1>2 DEF Recent
  <2>2. m \in 1..Len(s) /\ Len(s) - m + 1 = MaxCycles /\ m + MaxCycles - 1 = Len(s)
    BY <1>2
  <2>3. t \in Seq(CycleRec) /\ Len(t) = MaxCycles
        /\ \A i \in 1..MaxCycles : t[i] = s[m + i - 1]
    BY <2>2, SubSeqProperties
  <2> HIDE DEF t
  <2>4. t # <<>> /\ t[Len(t)] = s[Len(s)]
    BY <2>2, <2>3
  <2> QED BY <2>1, <2>3, <2>4
<1> QED BY <1>1, <1>2

LEMMA ClosingKeeps ==
    ASSUME NEW s \in Seq(CycleRec)
    PROVE  Closing(s) \in Seq(CycleRec) /\ Len(Closing(s)) = Len(s)
<1>1. CASE s = <<>>
  BY <1>1 DEF Closing
<1>2. CASE s # <<>>
  <2>1. Len(s) \in 1..Len(s) /\ s[Len(s)] \in CycleRec
    BY <1>2
  <2>2. [s[Len(s)] EXCEPT !.closed = TRUE] \in CycleRec
    BY <2>1 DEF CycleRec
  <2>3. Closing(s) = [s EXCEPT ![Len(s)] = [s[Len(s)] EXCEPT !.closed = TRUE]]
    BY <1>2 DEF Closing
  <2> QED BY <2>1, <2>2, <2>3
<1> QED BY <1>1, <1>2

LEMMA ShortRecord ==
    ASSUME NEW x
    PROVE  x \in Short <=>
             /\ x \in [here : BOOLEAN, on : BOOLEAN, good : BOOLEAN, params : Params]
             /\ Len(x.params.cycles) <= MaxCycles
BY DEF Short, Row

LEMMA FreshShort ==
    ASSUME NEW text \in Nat, NEW on \in BOOLEAN, NEW good \in BOOLEAN
    PROVE  /\ Fresh(text) \in Params /\ Fresh(text).cycles = <<>>
           /\ NewRow(on, good, text) \in Short /\ Absent \in Short
<1>1. ASSUME NEW n \in Nat PROVE Fresh(n) \in Params /\ Len(Fresh(n).cycles) = 0
  BY <1>1 DEF Fresh, Params
<1> QED BY <1>1 DEF NewRow, Absent, Short, Row, Fresh

\* What a commit does to each column.
LEMMA CommittedIs ==
    ASSUME row \in Short, NEW copy \in Short, NEW new \in Short
    PROVE  /\ Committed(copy, new) \in Short
           /\ Committed(copy, new).here = row.here
           /\ Committed(copy, new).on = IF new.on = copy.on THEN row.on ELSE new.on
           /\ Committed(copy, new).good = IF new.good = copy.good THEN row.good ELSE new.good
           /\ Committed(copy, new).params =
                IF new.params = copy.params THEN row.params ELSE new.params
           /\ copy = row => /\ Committed(copy, new).on = new.on
                            /\ Committed(copy, new).good = new.good
                            /\ Committed(copy, new).params = new.params
BY DEF Committed, Short, Row

LEMMA SwitchedIs ==
    ASSUME NEW x \in Short, NEW on \in BOOLEAN
    PROVE  /\ Switched(x, on) \in Short
           /\ Switched(x, on).on = on /\ Switched(x, on).here = x.here
           /\ Switched(x, on).good = x.good /\ Switched(x, on).params = x.params
BY DEF Switched, Short, Row

LEMMA UnstampedIs ==
    ASSUME NEW p \in Params
    PROVE  /\ Unstamped(p) \in Params /\ Unstamped(p).stamp = 0
           /\ Unstamped(p).cycles = p.cycles /\ Unstamped(p).text = p.text
BY DEF Unstamped, Params

LEMMA ToggledIs ==
    ASSUME NEW x \in Short
    PROVE  /\ Toggled(x) \in Short /\ Toggled(x).on = ~x.on
           /\ Toggled(x).here = x.here /\ Toggled(x).good = x.good
           /\ Toggled(x).params.text = x.params.text
           /\ x.on => Toggled(x).params = x.params
           /\ ~x.on => Toggled(x).params.stamp = 0
<1>1. x.on \in BOOLEAN /\ x.params \in Params
  BY DEF Short, Row
<1>2. CASE x.on
  BY <1>1, <1>2, SwitchedIs DEF Toggled
<1>3. CASE ~x.on
  <2> DEFINE y == Switched(x, TRUE)
  <2>1. y \in Short /\ y.on = TRUE /\ y.here = x.here /\ y.good = x.good /\ y.params = x.params
    BY SwitchedIs
  <2>2. Toggled(x) = [y EXCEPT !.params = Unstamped(y.params)]
    BY <1>3 DEF Toggled
  <2>3. Unstamped(y.params) \in Params /\ Unstamped(y.params).stamp = 0
        /\ Unstamped(y.params).cycles = x.params.cycles /\ Unstamped(y.params).text = x.params.text
    BY <1>1, <2>1, UnstampedIs
  <2> HIDE DEF y
  <2>4. Toggled(x) \in [here : BOOLEAN, on : BOOLEAN, good : BOOLEAN, params : Params]
        /\ Toggled(x).on = TRUE /\ Toggled(x).here = x.here /\ Toggled(x).good = x.good
        /\ Toggled(x).params = Unstamped(y.params)
    BY <2>1, <2>2, <2>3 DEF Short, Row
  <2>5. Len(x.params.cycles) <= MaxCycles
    BY DEF Short
  <2> QED BY <1>3, <2>3, <2>4, <2>5 DEF Short, Row
<1> QED BY <1>1, <1>2, <1>3

LEMMA HealedIs ==
    ASSUME NEW x \in Short
    PROVE  /\ Healed(x) \in Short /\ Healed(x).on = TRUE
           /\ Healed(x).here = x.here /\ Healed(x).good = x.good
           /\ Healed(x).params.text = x.params.text /\ Healed(x).params.stamp = 0
<1> DEFINE u == Unstamped(x.params)
           p == [u EXCEPT !.cycles = Closing(u.cycles)]
<1>1. x.params \in Params /\ Len(x.params.cycles) <= MaxCycles
  BY DEF Short, Row
<1>2. u \in Params /\ u.stamp = 0 /\ u.cycles = x.params.cycles /\ u.text = x.params.text
  BY <1>1, UnstampedIs
<1>3. Closing(u.cycles) \in Seq(CycleRec) /\ Len(Closing(u.cycles)) = Len(x.params.cycles)
  <2>1. x.params.cycles \in Seq(CycleRec)
    BY <1>1 DEF Params, CycleRec
  <2> QED BY <1>2, <2>1, ClosingKeeps
<1>4. Healed(x) = [x EXCEPT !.on = TRUE, !.params = p]
  BY DEF Healed
<1> HIDE DEF u
<1>5. p \in Params /\ p.stamp = 0 /\ p.text = x.params.text /\ p.cycles = Closing(u.cycles)
  BY <1>2, <1>3 DEF Params, CycleRec
<1> HIDE DEF p
<1> QED BY <1>1, <1>3, <1>4, <1>5 DEF Short, Row

LEMMA StampSet ==
    ASSUME NEW q \in Params, NEW n \in 0..MaxRuns
    PROVE  LET p == [q EXCEPT !.stamp = n]
           IN  p \in Params /\ p.stamp = n /\ p.text = q.text
BY DEF Params

LEMMA CyclesSet ==
    ASSUME NEW q \in Params, NEW t \in Seq(CycleRec)
    PROVE  LET p == [q EXCEPT !.cycles = t]
           IN  p \in Params /\ p.stamp = q.stamp /\ p.text = q.text /\ p.cycles = t
BY DEF Params, CycleRec

LEMMA DisabledIs ==
    ASSUME NEW x \in Short, NEW n \in 1..MaxRuns
    PROVE  /\ Disabled(x, n) \in Short /\ Disabled(x, n).on = FALSE
           /\ Disabled(x, n).here = x.here /\ Disabled(x, n).good = x.good
           /\ Disabled(x, n).params.text = x.params.text
           /\ Disabled(x, n).params.stamp = n
           /\ Disabled(x, n).params.cycles # <<>>
           /\ Disabled(x, n).params.cycles[Len(Disabled(x, n).params.cycles)] = Cycle(n)
<1> DEFINE s == Append(x.params.cycles, Cycle(n))
           p == [x.params EXCEPT !.stamp = n, !.cycles = Recent(s)]
<1>1. x.params \in Params /\ x.params.cycles \in Seq(CycleRec)
  BY DEF Short, Row, Params, CycleRec
<1>2. Cycle(n) \in CycleRec
  BY DEF Cycle, CycleRec
<1>3. s \in Seq(CycleRec) /\ s # <<>> /\ s[Len(s)] = Cycle(n)
  BY <1>1, <1>2
<1>4. /\ Recent(s) \in Seq(CycleRec) /\ Len(Recent(s)) <= MaxCycles
      /\ Recent(s) # <<>> /\ Recent(s)[Len(Recent(s))] = Cycle(n)
  BY <1>3, RecentKeeps
<1>5. Disabled(x, n) = [x EXCEPT !.on = FALSE, !.params = p]
  BY DEF Disabled, Short, Row, Params
<1> HIDE DEF s
<1>6. p \in Params /\ p.stamp = n /\ p.text = x.params.text /\ p.cycles = Recent(s)
  <2> DEFINE q == [x.params EXCEPT !.stamp = n]
  <2>1. q \in Params /\ q.stamp = n /\ q.text = x.params.text
    BY <1>1, StampSet
  <2>2. p = [q EXCEPT !.cycles = Recent(s)]
    OBVIOUS
  <2> HIDE DEF p, q
  <2> QED BY <1>4, <2>1, <2>2, CyclesSet
<1> HIDE DEF p
<1> QED BY <1>1, <1>4, <1>5, <1>6 DEF Short, Row

\* What a request makes of the row it read.
Made(k, copy, new) ==
    /\ new \in Short
    /\ k = "delete" => new = Absent
    /\ k \in {"edit on", "edit off"} =>
         /\ new.here /\ new.on = (k = "edit on")
         /\ new.params.text = edits + 1 /\ new.params.stamp = 0
    /\ k \notin {"delete", "edit on", "edit off"} =>
         /\ new.here = copy.here /\ new.good = copy.good
         /\ new.params.text = copy.params.text
         /\ k = "toggle" /\ ~copy.on => new.params.stamp = 0
         /\ ~(k = "toggle" /\ ~copy.on) => new.params = copy.params
    /\ k \in {"toggle", "api toggle"} => new.on = ~copy.on
    /\ k = "enable" => new.on
    /\ k = "disable" => ~new.on

LEMMA OutcomeIs ==
    ASSUME NEW k \in Kinds, NEW copy \in Short, NEW new \in Outcomes(k, copy), edits \in Nat
    PROVE  Made(k, copy, new)
<1>1. copy.on \in BOOLEAN /\ copy.params \in Params
  BY DEF Short, Row
<1>2. CASE k = "delete"
  <2>1. new = Absent /\ Absent \in Short
    BY <1>2, FreshShort DEF Outcomes
  <2> QED BY <1>2, <2>1 DEF Made
<1>3. ASSUME NEW on \in BOOLEAN, new \in {Edited(on, g) : g \in BOOLEAN}
      PROVE  /\ new \in Short /\ new.here /\ new.on = on
             /\ new.params.text = edits + 1 /\ new.params.stamp = 0
  <2>1. PICK g \in BOOLEAN : new = NewRow(on, g, edits + 1)
    BY <1>3 DEF Edited
  <2>2. NewRow(on, g, edits + 1) \in Short
    BY <1>3, FreshShort
  <2> QED BY <2>1, <2>2 DEF NewRow, Fresh
<1>4. CASE k = "edit on"
  <2>1. new \in {Edited(TRUE, g) : g \in BOOLEAN}
    BY <1>4 DEF Outcomes
  <2> QED BY <1>3, <1>4, <2>1 DEF Made
<1>5. CASE k = "edit off"
  <2>1. new \in {Edited(FALSE, g) : g \in BOOLEAN}
    BY <1>5 DEF Outcomes
  <2> QED BY <1>3, <1>5, <2>1 DEF Made
<1>6. CASE k = "toggle"
  <2>1. new = Toggled(copy)
    BY <1>6 DEF Outcomes
  <2> QED BY <1>1, <1>6, <2>1, ToggledIs DEF Made
<1>7. CASE k \in {"api toggle", "enable", "disable"}
  <2>1. PICK on \in BOOLEAN : /\ new = Switched(copy, on)
                              /\ k = "api toggle" => on = ~copy.on
                              /\ k = "enable" => on = TRUE
                              /\ k = "disable" => on = FALSE
    BY <1>1, <1>7 DEF Outcomes
  <2> QED BY <1>1, <1>7, <2>1, SwitchedIs DEF Made
<1> QED BY <1>2, <1>4, <1>5, <1>6, <1>7 DEF Kinds

(***************************************************************************)
(* Types.                                                                  *)
(***************************************************************************)
LEMMA ActiveIsFinite == IsFiniteSet(Active) /\ Cardinality(Active) \in Nat
<1>1. Active \subseteq Executions
  BY DEF Active
<1> QED BY <1>1, FS_Subset, FS_CardinalityType

\* A step of execution e: the others stay as they are.
LEMMA ExecutionMoves ==
    ASSUME exec \in [Executions -> ExecRec], NEW e \in Executions, NEW w \in ExecRec,
           w.copy \in Short, \A d \in Executions : exec[d].copy \in Short,
           exec' = [exec EXCEPT ![e] = w]
    PROVE  /\ exec' \in [Executions -> ExecRec]
           /\ exec'[e] = w /\ \A d \in Executions \ {e} : exec'[d] = exec[d]
           /\ \A d \in Executions : exec'[d].copy \in Short
           /\ exec[e].at # "idle" => Cardinality(Active') <= Cardinality(Active)
           /\ exec[e].at # "idle" /\ w.at = "idle" =>
                Cardinality(Active') = Cardinality(Active) - 1
           /\ Cardinality(Active') <= Cardinality(Active) + 1
           /\ Cardinality(Active') \in Nat
<1>1. exec' \in [Executions -> ExecRec]
      /\ exec'[e] = w /\ \A d \in Executions \ {e} : exec'[d] = exec[d]
  OBVIOUS
<1>2. Active' \subseteq Active \cup {e}
  BY <1>1 DEF Active
<1>3. IsFiniteSet(Active) /\ Cardinality(Active) \in Nat
  BY ActiveIsFinite
<1>4. /\ IsFiniteSet(Active \cup {e})
      /\ Cardinality(Active \cup {e}) = IF e \in Active THEN Cardinality(Active)
                                                       ELSE Cardinality(Active) + 1
  BY <1>3, FS_AddElement
<1>5. IsFiniteSet(Active') /\ Cardinality(Active') <= Cardinality(Active \cup {e})
  BY <1>2, <1>4, FS_Subset
<1>6. Cardinality(Active') \in Nat
  BY <1>5, FS_CardinalityType
<1>7. ASSUME exec[e].at # "idle" PROVE e \in Active
  BY <1>7 DEF Active
<1>8. ASSUME exec[e].at # "idle", w.at = "idle"
      PROVE  Cardinality(Active') = Cardinality(Active) - 1
  <2>1. Active' = Active \ {e}
    BY <1>1, <1>8 DEF Active
  <2> QED BY <1>3, <1>7, <1>8, <2>1, FS_RemoveElement
<1>9. \A d \in Executions : exec'[d].copy \in Short
  BY <1>1
<1> QED BY <1>1, <1>3, <1>4, <1>5, <1>6, <1>7, <1>8, <1>9

LEMMA StaleIsMark == ASSUME NEW copy PROVE Stale(copy) \subseteq Marks
BY DEF Stale, Marks

LEMMA CrossingIsMark == ASSUME NEW r \in Requests PROVE Crossing(r) \subseteq Marks
BY DEF Crossing, Marks

LEMMA InitTypes == Init => Types
<1> SUFFICES ASSUME Init PROVE Types
  OBVIOUS
<1>1. Absent \in Short /\ NewRow(TRUE, TRUE, 1) \in Short
  BY FreshShort
<1>2. history \in Seq(Verdicts)
  <2>1. ASSUME NEW v \in Verdicts PROVE <<v>> \in Seq(Verdicts) /\ <<>> \in Seq(Verdicts)
    OBVIOUS
  <2>2. "failed" \in Verdicts
    BY DEF Verdicts
  <2>3. <<"failed">> \in Seq(Verdicts) /\ <<>> \in Seq(Verdicts)
    BY <2>1, <2>2, Zenon
  <2>4. history = <<>> \/ history = <<"failed">>
    BY DEF Init
  <2> QED BY <2>3, <2>4, Zenon
<1>3. row \in Short /\ job \in BOOLEAN /\ edits \in Nat
  <2>1. \/ row = NewRow(TRUE, TRUE, 1) /\ job = TRUE /\ edits = 1
        \/ row = Absent /\ job = FALSE /\ edits = 0
    BY Zenon DEF Init
  <2>2. row \in Short /\ job \in BOOLEAN
    BY <1>1, <2>1, Zenon
  <2>3. edits = 1 \/ edits = 0
    BY <2>1, Zenon
  <2>4. edits \in Nat
    BY <2>3
  <2> QED BY <2>2, <2>4, Zenon
<1>4. exec \in [Executions -> ExecRec] /\ \A e \in Executions : exec[e].copy \in Short
  BY <1>1 DEF Init, Idle, ExecRec, Short
<1>5. patrol \in PatrolRec /\ patrol.copy \in Short
  BY <1>1 DEF Init, Asleep, Short, PatrolRec
<1>6. req \in [Requests -> ReqRec]
      /\ \A r \in Requests : Carries(req[r])
  BY <1>1 DEF Init, Unused, ReqRec, Short, Carries
<1>7. Active = {}
  BY DEF Init, Idle, Active
<1>8. Cardinality(Active) = 0
  BY <1>7, FS_EmptySet
<1>9. /\ disables = 0 /\ cold = 0 /\ runs = 0 /\ restarts = 0 /\ offByHand = FALSE
      /\ marks = {}
  BY DEF Init
<1>10. /\ disables \in 0..MaxRuns /\ cold \in 0..disables /\ offByHand \in BOOLEAN
       /\ runs \in 0..MaxRuns /\ restarts \in 0..MaxRestarts
       /\ marks \subseteq Marks /\ disables + Cardinality(Active) <= runs
  <2>1. offByHand \in BOOLEAN /\ marks \subseteq Marks
    BY <1>9, Zenon
  <2>2. disables = 0 /\ cold = 0 /\ runs = 0 /\ restarts = 0
    BY <1>9, Zenon
  <2>3. /\ disables \in 0..MaxRuns /\ cold \in 0..disables
        /\ runs \in 0..MaxRuns /\ restarts \in 0..MaxRestarts
        /\ disables + Cardinality(Active) <= runs
    BY <1>8, <2>2
  <2> QED BY <2>1, <2>3, Zenon
<1> QED BY <1>2, <1>3, <1>4, <1>5, <1>6, <1>10, Zenon DEF Types

LEMMA ExecutionTypes ==
    ASSUME Types, NEW e \in Executions, Execution(e)
    PROVE  Types'
<1>1. row \in Short /\ exec[e].copy \in Short /\ Absent \in Short
  BY FreshShort DEF Types
<1>2. Idle \in ExecRec /\ Idle.copy \in Short /\ Idle.at = "idle"
  BY <1>1 DEF Idle, ExecRec, Short
<1>3. ASSUME NEW at \in {"sending", "judging"}, NEW copy \in Short
      PROVE  LET w == [at |-> at, copy |-> copy] IN w \in ExecRec /\ w.copy = copy
  BY <1>3 DEF ExecRec, Short
<1>4. CASE ExecutionBegins(e)
  <2> DEFINE w == [at |-> "sending", copy |-> row]
  <2>1. exec' = [exec EXCEPT ![e] = w] /\ w \in ExecRec /\ w.copy \in Short
    BY <1>1, <1>3, <1>4 DEF ExecutionBegins
  <2> HIDE DEF w
  <2>2. /\ exec' \in [Executions -> ExecRec] /\ \A d \in Executions : exec'[d].copy \in Short
        /\ Cardinality(Active') <= Cardinality(Active) + 1 /\ Cardinality(Active') \in Nat
    BY <2>1, ExecutionMoves DEF Types
  <2>3. Cardinality(Active) \in Nat
    BY ActiveIsFinite
  <2> QED BY <1>4, <2>2, <2>3 DEF Types, ExecutionBegins, ghosts
<1>5. ASSUME NEW sent \in BOOLEAN, ExecutionRecords(e, sent)
      PROVE  Types'
  <2> DEFINE copy == exec[e].copy
             new(err) == [copy EXCEPT !.params.error = err]
  <2>1. \A err \in BOOLEAN : new(err) \in Short
    BY <1>1 DEF Short, Row, Params
  <2>2. PICK w \in ExecRec : w.copy \in Short /\ exec' = [exec EXCEPT ![e] = w]
    <3>1. CASE ~row.here \/ sent
      BY <1>2, <1>5, <3>1 DEF ExecutionRecords
    <3>2. CASE row.here /\ ~sent
      BY <1>3, <1>5, <2>1, <3>2 DEF ExecutionRecords
    <3> QED BY <3>1, <3>2
  <2>3. /\ exec' \in [Executions -> ExecRec] /\ \A d \in Executions : exec'[d].copy \in Short
        /\ Cardinality(Active') <= Cardinality(Active) /\ Cardinality(Active') \in Nat
    BY <1>5, <2>2, ExecutionMoves DEF Types, ExecutionRecords
  <2>4. row' \in Short
    <3>1. CASE ~row.here
      BY <1>1, <1>5, <3>1 DEF ExecutionRecords
    <3>2. CASE row' = Committed(copy, new(~sent))
      BY <1>1, <2>1, <3>2, CommittedIs
    <3>3. CASE row' = [row EXCEPT !.params = copy.params]
      BY <1>1, <3>3 DEF Short, Row
    <3> QED BY <1>5, <3>1, <3>2, <3>3 DEF ExecutionRecords
  <2>5. history' \in Seq(Verdicts)
    <3>1. history \in Seq(Verdicts) /\ {"succeeded", "failed"} \subseteq Verdicts
      BY DEF Types, Verdicts
    <3>2. \/ history' = history
          \/ history' = Append(history, "succeeded")
          \/ history' = Append(history, "failed")
      BY <1>5 DEF ExecutionRecords
    <3> QED BY <3>1, <3>2
  <2>6. marks' \subseteq Marks
    <3>1. marks' = marks \/ marks' = marks \cup Stale(copy)
      BY <1>5 DEF ExecutionRecords
    <3> QED BY <3>1, StaleIsMark DEF Types
  <2>7. Cardinality(Active) \in Nat
    BY ActiveIsFinite
  <2>8. UNCHANGED <<job, patrol, req, disables, cold, edits, offByHand, counts>>
    BY <1>5 DEF ExecutionRecords
  <2> QED BY <2>3, <2>4, <2>5, <2>6, <2>7, <2>8 DEF Types, counts
<1>6. CASE ExecutionJudges(e)
  <2> DEFINE copy == exec[e].copy
  <2>1. exec' = [exec EXCEPT ![e] = Idle] /\ exec[e].at # "idle"
    BY <1>6 DEF ExecutionJudges
  <2>2. /\ exec' \in [Executions -> ExecRec] /\ \A d \in Executions : exec'[d].copy \in Short
        /\ Cardinality(Active') = Cardinality(Active) - 1 /\ Cardinality(Active') \in Nat
    BY <1>2, <2>1, ExecutionMoves DEF Types
  <2>3. disables + 1 \in 1..MaxRuns
    BY <2>2, ActiveIsFinite DEF Types
  <2>4. Committed(copy, Disabled(copy, disables + 1)) \in Short
    BY <1>1, <2>3, DisabledIs, CommittedIs
  <2>5. \/ row' = Committed(copy, Disabled(copy, disables + 1)) /\ disables' = disables + 1
           /\ marks' = marks \cup Stale(copy)
        \/ UNCHANGED <<row, disables, marks>>
    BY <1>6 DEF ExecutionJudges
  <2>6. row' \in Short /\ marks' \subseteq Marks
    BY <1>1, <2>4, <2>5, StaleIsMark DEF Types
  <2>7. disables' \in 0..MaxRuns /\ cold \in 0..disables'
        /\ disables' + Cardinality(Active') <= runs
    BY <2>2, <2>3, <2>5, ActiveIsFinite DEF Types
  <2>8. UNCHANGED <<job, history, patrol, req, cold, edits, offByHand, counts>>
    BY <1>6 DEF ExecutionJudges
  <2> QED BY <2>2, <2>6, <2>7, <2>8 DEF Types, counts
<1> QED BY <1>4, <1>5, <1>6 DEF Execution

LEMMA PatrolTypes ==
    ASSUME Types, Cools \/ PatrolReads \/ PatrolWrites \/ PatrolSchedules
    PROVE  Types'
<1>1. row \in Short /\ patrol.copy \in Short /\ Absent \in Short
  BY FreshShort DEF Types
<1>2. ASSUME NEW at \in {"asleep", "writing", "scheduling"}, NEW copy \in Short
      PROVE  LET w == [at |-> at, copy |-> copy] IN w \in PatrolRec /\ w.copy = copy
  BY DEF PatrolRec, Short
<1>3. Asleep \in PatrolRec /\ Asleep.copy = Absent
  BY <1>1, <1>2 DEF Asleep
<1>4. UNCHANGED exec => UNCHANGED Active
  BY DEF Active
<1>5. CASE Cools
  <2>1. cold' \in 0..disables
    BY <1>5 DEF Cools, Types
  <2> QED BY <1>4, <1>5, <2>1 DEF Cools, Types, counts, ghosts
<1>6. CASE PatrolReads
  <2>1. patrol' \in PatrolRec /\ patrol'.copy \in Short
    BY <1>1, <1>2, <1>6 DEF PatrolReads
  <2> QED BY <1>4, <1>6, <2>1 DEF PatrolReads, Types, counts, ghosts
<1>7. CASE PatrolWrites
  <2>1. Healed(patrol.copy) \in Short
    BY <1>1, HealedIs
  <2>2. row' \in Short
    BY <1>1, <1>7, <2>1, CommittedIs DEF PatrolWrites
  <2>3. patrol' \in PatrolRec /\ patrol'.copy \in Short
    <3>1. LET w == [patrol EXCEPT !.at = "scheduling"] IN w \in PatrolRec /\ w.copy = patrol.copy
      BY DEF Types, PatrolRec
    <3> QED BY <1>1, <1>3, <1>7, <3>1 DEF PatrolWrites
  <2>4. marks' \subseteq Marks
    <3>1. Stale(patrol.copy) \subseteq Marks
      BY StaleIsMark
    <3>2. \/ marks' = marks
          \/ \E c \in {{"crossed"}, {}} : marks' = marks \cup Stale(patrol.copy) \cup c
      BY <1>7 DEF PatrolWrites
    <3> QED BY <3>1, <3>2 DEF Types, Marks
  <2> QED BY <1>4, <1>7, <2>2, <2>3, <2>4 DEF PatrolWrites, Types, counts
<1>8. CASE PatrolSchedules
  <2>1. patrol' \in PatrolRec /\ patrol'.copy \in Short
    BY <1>1, <1>3, <1>8 DEF PatrolSchedules
  <2>2. job' \in BOOLEAN
    BY <1>8 DEF PatrolSchedules
  <2> QED BY <1>4, <1>8, <2>1, <2>2 DEF PatrolSchedules, Types, counts, ghosts
<1> QED BY <1>5, <1>6, <1>7, <1>8

\* A step of request r: the others stay as they are.
LEMMA RequestMoves ==
    ASSUME Types, NEW r \in Requests, NEW w \in ReqRec, Carries(w),
           req' = [req EXCEPT ![r] = w]
    PROVE  /\ req' \in [Requests -> ReqRec]
           /\ req'[r] = w /\ \A q \in Requests \ {r} : req'[q] = req[q]
           /\ \A q \in Requests : Carries(req'[q])
<1>1. req' \in [Requests -> ReqRec]
      /\ req'[r] = w /\ \A q \in Requests \ {r} : req'[q] = req[q]
  BY DEF Types
<1> QED BY <1>1 DEF Types

\* The records a request becomes.
LEMMA ReqRecs ==
    /\ Unused \in ReqRec /\ Unused.at = "idle" /\ Unused.kind = "none"
    /\ Carries(Unused)
    /\ LET w == [Unused EXCEPT !.at = "done"]
       IN  /\ w \in ReqRec /\ Carries(w)
           /\ w.at = "done" /\ w.kind = "none"
<1>1. Absent \in Short /\ Absent \in Row
  BY FreshShort DEF Short
<1> QED BY <1>1 DEF Unused, ReqRec, Carries

LEMMA AnsweredIs ==
    ASSUME Types, NEW r \in Requests, Answered(r)
    PROVE  /\ req' \in [Requests -> ReqRec]
           /\ req'[r].at = "done" /\ \A q \in Requests \ {r} : req'[q] = req[q]
           /\ \A q \in Requests : Carries(req'[q])
<1> DEFINE w == [Unused EXCEPT !.at = "done"]
<1>1. w \in ReqRec /\ Carries(w) /\ w.at = "done"
  BY ReqRecs
<1>2. req' = [req EXCEPT ![r] = w]
  BY DEF Answered
<1> HIDE DEF w
<1> QED BY <1>1, <1>2, RequestMoves

\* A write of request r that is no error: what is left in the row, and what r is then.
LEMMA WriteIs ==
    ASSUME Types, NEW r \in Requests, RequestWrites(r)
    PROVE  \/ Answered(r) /\ UNCHANGED <<row, edits, offByHand, marks>>
           \/ \E new \in Outcomes(req[r].kind, req[r].copy) :
                LET k == req[r].kind IN
                /\ k \in Kinds /\ new \in Short
                /\ row.here \/ k = "delete" \/ new = req[r].copy
                /\ row' = IF k = "delete" THEN Absent ELSE Committed(req[r].copy, new)
                /\ row' \in Short
                /\ edits' = IF k \in {"edit on", "edit off"} THEN edits + 1 ELSE edits
                /\ offByHand' = IF row'.on = row.on THEN offByHand ELSE row.on
                /\ marks' = Noticed(r, req[r].copy, new)
                /\ req' \in [Requests -> ReqRec]
                /\ \A q \in Requests : Carries(req'[q])
                /\ \A q \in Requests \ {r} : req'[q] = req[q]
                /\ req'[r].at = (IF k = "api toggle" THEN "done" ELSE "written")
                /\ req'[r].kind = k /\ req'[r].new = new
<1> DEFINE k == req[r].kind
           copy == req[r].copy
<1>1. copy \in Short /\ row \in Short /\ edits \in Nat /\ Absent \in Short
      /\ req[r] \in ReqRec /\ k \in Kinds
  BY FreshShort DEF Types, Carries, RequestWrites
<1>2. ASSUME NEW new \in Outcomes(k, copy),
             row.here \/ k = "delete" \/ new = copy,
             row' = IF k = "delete" THEN Absent ELSE Committed(copy, new),
             req' = [req EXCEPT ![r].new = new,
                                ![r].at = IF k = "api toggle" THEN "done" ELSE "written"]
      PROVE  /\ new \in Short /\ row' \in Short
             /\ req' \in [Requests -> ReqRec]
             /\ \A q \in Requests : Carries(req'[q])
             /\ \A q \in Requests \ {r} : req'[q] = req[q]
             /\ req'[r].at = (IF k = "api toggle" THEN "done" ELSE "written")
             /\ req'[r].kind = k /\ req'[r].new = new
  <2>1. new \in Short
    <3> HIDE DEF k, copy
    <3> QED BY <1>1, <1>2, OutcomeIs DEF Made
  <2>2. row' \in Short
    BY <1>1, <1>2, <2>1, CommittedIs
  <2> DEFINE at == IF k = "api toggle" THEN "done" ELSE "written"
             w == [req[r] EXCEPT !.new = new, !.at = at]
  <2>3. at \in {"done", "written"} /\ req[r] \in ReqRec
    BY DEF Types
  <2> HIDE DEF at
  <2>4. w \in ReqRec /\ w.at = at /\ w.kind = k /\ w.new = new /\ w.copy = copy
    BY <2>1, <2>3 DEF ReqRec, Short
  <2>5. req' = [req EXCEPT ![r] = w]
    BY <1>2 DEF Types, at
  <2> HIDE DEF w
  <2>7. Carries(w)
    BY <1>1, <2>1, <2>3, <2>4 DEF Carries
  <2>6. /\ req' \in [Requests -> ReqRec]
        /\ req'[r] = w /\ \A q \in Requests \ {r} : req'[q] = req[q]
        /\ \A q \in Requests : Carries(req'[q])
    BY <2>4, <2>5, <2>7, RequestMoves
  <2> QED BY <2>1, <2>2, <2>4, <2>6 DEF at
<1>3. CASE Answered(r) /\ UNCHANGED <<row, edits, offByHand, marks>>
  BY <1>3
<1>4. ASSUME ~(Answered(r) /\ UNCHANGED <<row, edits, offByHand, marks>>)
      PROVE  \E new \in Outcomes(k, copy) :
                /\ row.here \/ k = "delete" \/ new = copy
                /\ row' = IF k = "delete" THEN Absent ELSE Committed(copy, new)
                /\ edits' = IF k \in {"edit on", "edit off"} THEN edits + 1 ELSE edits
                /\ offByHand' = IF row'.on = row.on THEN offByHand ELSE row.on
                /\ marks' = Noticed(r, copy, new)
                /\ req' = [req EXCEPT ![r].new = new,
                                      ![r].at = IF k = "api toggle" THEN "done" ELSE "written"]
  BY <1>4 DEF RequestWrites
<1>5. CASE ~(Answered(r) /\ UNCHANGED <<row, edits, offByHand, marks>>)
  <2>1. PICK new \in Outcomes(k, copy) :
                /\ row.here \/ k = "delete" \/ new = copy
                /\ row' = IF k = "delete" THEN Absent ELSE Committed(copy, new)
                /\ edits' = IF k \in {"edit on", "edit off"} THEN edits + 1 ELSE edits
                /\ offByHand' = IF row'.on = row.on THEN offByHand ELSE row.on
                /\ marks' = Noticed(r, copy, new)
                /\ req' = [req EXCEPT ![r].new = new,
                                      ![r].at = IF k = "api toggle" THEN "done" ELSE "written"]
    BY <1>4, <1>5
  <2> QED BY <1>1, <1>2, <2>1
<1> QED BY <1>3, <1>5

LEMMA NoticedAreMarks ==
    ASSUME Types, NEW r \in Requests, NEW copy, NEW new
    PROVE  Noticed(r, copy, new) \subseteq Marks
<1>1. Stale(copy) \subseteq Marks /\ Crossing(r) \subseteq Marks
  BY StaleIsMark, CrossingIsMark
<1>2. {"api"} \subseteq Marks /\ {"stamp kept"} \subseteq Marks /\ marks \subseteq Marks
  BY DEF Types, Marks
<1>3. \E a \in {{"api"}, {}} : \E b \in {{"stamp kept"}, {}} :
         Noticed(r, copy, new) = marks \cup Stale(copy) \cup Crossing(r) \cup a \cup b
  BY DEF Noticed
<1> QED BY <1>1, <1>2, <1>3

\* A request that is to be scheduled, or was refused by the scheduler.
LEMMA ScheduleIs ==
    ASSUME Types, NEW r \in Requests, RequestSchedules(r)
    PROVE  /\ req' \in [Requests -> ReqRec] /\ job' \in BOOLEAN
           /\ \A q \in Requests : Carries(req'[q])
           /\ \A q \in Requests \ {r} : req'[q] = req[q]
           /\ req'[r].at \in {"done", "undoing"}
           /\ req'[r].at = "undoing" =>
                /\ req[r].new.on /\ req[r].kind # "edit on" /\ job' = JobRefused(req[r].kind)
                /\ req'[r].kind = req[r].kind
<1>1. CASE Answered(r)
  <2>1. /\ req' \in [Requests -> ReqRec]
        /\ req'[r].at = "done" /\ \A q \in Requests \ {r} : req'[q] = req[q]
        /\ \A q \in Requests : Carries(req'[q])
    BY <1>1, AnsweredIs
  <2>2. job' \in BOOLEAN
    BY DEF RequestSchedules, JobRefused, Types
  <2> QED BY <2>1, <2>2
<1>2. CASE ~Answered(r)
  <2> DEFINE at == IF req[r].kind = "edit on" THEN "done" ELSE "undoing"
             w == [req[r] EXCEPT !.at = at]
  <2>1. req[r] \in ReqRec /\ Carries(req[r])
    BY DEF Types
  <2>2. req' = [req EXCEPT ![r] = w] /\ job' = JobRefused(req[r].kind) /\ req[r].new.on
    BY <1>2 DEF RequestSchedules, Types
  <2>3. w \in ReqRec /\ w.at = at /\ w.kind = req[r].kind
        /\ w.copy = req[r].copy /\ w.new = req[r].new
    BY <2>1 DEF ReqRec
  <2> HIDE DEF w
  <2>4. Carries(w)
    BY <2>1, <2>3 DEF Carries
  <2>5. /\ req' \in [Requests -> ReqRec]
        /\ req'[r] = w /\ \A q \in Requests \ {r} : req'[q] = req[q]
        /\ \A q \in Requests : Carries(req'[q])
    BY <2>2, <2>3, <2>4, RequestMoves
  <2>6. job' \in BOOLEAN
    BY <2>2 DEF JobRefused
  <2> QED BY <2>2, <2>3, <2>5, <2>6
<1> QED BY <1>1, <1>2

LEMMA OnlyIs ==
    ASSUME Types, NEW s \in Verdicts
    PROVE  Only(s) \in Seq(Verdicts)
<1> DEFINE at == {j \in DOMAIN history : history[j] = s}
<1>1. Len(history) \in Nat /\ DOMAIN history = 1..Len(history)
  BY DEF Types
<1>2. IsFiniteSet(1..Len(history))
  BY <1>1, FS_Interval
<1>3. Cardinality(at) \in Nat
  BY <1>1, <1>2, FS_Subset, FS_CardinalityType
<1> QED BY <1>3 DEF Only

LEMMA RequestTypes ==
    ASSUME Types, NEW r \in Requests, Request(r)
    PROVE  Types'
<1>1. row \in Short /\ Absent \in Short
  BY FreshShort DEF Types
<1>2. UNCHANGED exec => UNCHANGED Active
  BY DEF Active
<1>3. ASSUME NEW k \in Kinds, RequestReads(r, k) PROVE Types'
  <2> DEFINE w == [at |-> "read", kind |-> k, copy |-> row, new |-> row]
  <2>1. req' = [req EXCEPT ![r] = w] /\ w \in ReqRec /\ Carries(w)
    BY <1>1, <1>3 DEF RequestReads, ReqRec, Short, Carries
  <2> HIDE DEF w
  <2>2. req' \in [Requests -> ReqRec] /\ \A q \in Requests : Carries(req'[q])
    BY <2>1, RequestMoves
  <2> QED BY <1>2, <1>3, <2>2 DEF RequestReads, Types, counts, ghosts
<1>4. CASE RequestWrites(r)
  <2>1. CASE Answered(r) /\ UNCHANGED <<row, edits, offByHand, marks>>
    <3>1. req' \in [Requests -> ReqRec] /\ \A q \in Requests : Carries(req'[q])
      BY <2>1, AnsweredIs
    <3> QED BY <1>2, <1>4, <2>1, <3>1 DEF RequestWrites, Types, counts
  <2>2. CASE ~(Answered(r) /\ UNCHANGED <<row, edits, offByHand, marks>>)
    <3>1. PICK new \in Outcomes(req[r].kind, req[r].copy) :
            /\ row' \in Short
            /\ edits' = IF req[r].kind \in {"edit on", "edit off"} THEN edits + 1 ELSE edits
            /\ offByHand' = IF row'.on = row.on THEN offByHand ELSE row.on
            /\ marks' = Noticed(r, req[r].copy, new)
            /\ req' \in [Requests -> ReqRec]
            /\ \A q \in Requests : Carries(req'[q])
      BY <1>4, <2>2, WriteIs
    <3>2. edits' \in Nat
      <4>1. edits \in Nat /\ (edits' = edits + 1 \/ edits' = edits)
        BY <3>1 DEF Types
      <4> QED BY <4>1
    <3>3. offByHand' \in BOOLEAN
      BY <1>1, <3>1 DEF Types, Short, Row
    <3>4. marks' \subseteq Marks
      BY <3>1, NoticedAreMarks
    <3> QED BY <1>2, <1>4, <3>1, <3>2, <3>3, <3>4 DEF RequestWrites, Types, counts
  <2> QED BY <2>1, <2>2
<1>5. CASE RequestSchedules(r)
  <2>1. /\ req' \in [Requests -> ReqRec] /\ job' \in BOOLEAN
        /\ \A q \in Requests : Carries(req'[q])
    BY <1>5, ScheduleIs
  <2> QED BY <1>2, <1>5, <2>1 DEF RequestSchedules, Types, counts, ghosts
<1>6. CASE RequestUndoes(r)
  <2>1. req' \in [Requests -> ReqRec] /\ \A q \in Requests : Carries(req'[q])
    BY <1>6, AnsweredIs DEF RequestUndoes
  <2>2. row' \in Short
    BY <1>1, <1>6, SwitchedIs DEF RequestUndoes
  <2>3. offByHand' \in BOOLEAN
    BY <1>1, <1>6 DEF RequestUndoes, Types, Short, Row
  <2>4. marks' \subseteq Marks
    BY <1>6, CrossingIsMark DEF RequestUndoes, Types
  <2> QED BY <1>2, <1>6, <2>1, <2>2, <2>3, <2>4 DEF RequestUndoes, Types, counts
<1>7. CASE RequestAdds(r)
  <2>1. PICK on \in BOOLEAN, good \in BOOLEAN :
          LET new == NewRow(on, good, 1) IN
          /\ row' = new
          /\ req' = [req EXCEPT ![r] = [at |-> "written", kind |-> "add", copy |-> new,
                                        new |-> Switched(new, TRUE)]]
    BY <1>7 DEF RequestAdds
  <2> DEFINE new == NewRow(on, good, 1)
             w == [at |-> "written", kind |-> "add", copy |-> new, new |-> Switched(new, TRUE)]
  <2>2. new \in Short
    BY FreshShort
  <2>3. Switched(new, TRUE) \in Short
    BY <2>2, SwitchedIs
  <2>4. row' = new /\ req' = [req EXCEPT ![r] = w]
    BY <2>1
  <2> HIDE DEF new
  <2>5. w \in ReqRec /\ Carries(w)
    BY <2>2, <2>3 DEF ReqRec, Short, Carries
  <2> HIDE DEF w
  <2>6. req' \in [Requests -> ReqRec] /\ \A q \in Requests : Carries(req'[q])
    BY <2>4, <2>5, RequestMoves
  <2> QED BY <1>2, <1>7, <2>2, <2>4, <2>6 DEF RequestAdds, Types, counts
<1>8. CASE RunsCleared(r)
  <2>1. req' \in [Requests -> ReqRec] /\ \A q \in Requests : Carries(req'[q])
    BY <1>8, AnsweredIs DEF RunsCleared
  <2>2. history' \in Seq(Verdicts)
    <3>1. ASSUME NEW s \in Verdicts PROVE Only(s) \in Seq(Verdicts)
      BY <3>1, OnlyIs
    <3>2. {"succeeded", "failed"} \subseteq Verdicts /\ <<>> \in Seq(Verdicts)
      BY DEF Verdicts
    <3>3. history' = <<>> \/ history' = Only("succeeded") \/ history' = Only("failed")
      BY <1>8 DEF RunsCleared
    <3> QED BY <3>1, <3>2, <3>3
  <2> QED BY <1>2, <1>8, <2>1, <2>2 DEF RunsCleared, Types, counts, ghosts
<1> QED BY <1>3, <1>4, <1>5, <1>6, <1>7, <1>8 DEF Request

LEMMA RestartTypes ==
    ASSUME Types, Restart
    PROVE  Types'
<1>1. Absent \in Short
  BY FreshShort
<1>2. exec' \in [Executions -> ExecRec] /\ (\A e \in Executions : exec'[e].copy \in Short)
      /\ Active' = {}
  BY <1>1 DEF Restart, Idle, ExecRec, Short, Active
<1>3. patrol' \in PatrolRec /\ patrol'.copy \in Short
  BY <1>1 DEF Restart, Asleep, PatrolRec, Short
<1>4. req' \in [Requests -> ReqRec] /\ \A q \in Requests : Carries(req'[q])
  BY ReqRecs DEF Restart
<1>5. job' \in BOOLEAN
  BY DEF Restart
<1>6. disables + Cardinality(Active') <= runs
  BY <1>2, FS_EmptySet, ActiveIsFinite DEF Types
<1>7. restarts' \in 0..MaxRestarts
  BY DEF Restart, Types
<1> QED BY <1>2, <1>3, <1>4, <1>5, <1>6, <1>7 DEF Restart, Types, ghosts

LEMMA TypesKept == Types /\ Next => Types'
BY ExecutionTypes, RequestTypes, PatrolTypes, RestartTypes DEF Next

(***************************************************************************)
(* What a commit leaves of the row, unless it overwrites a change.         *)
(***************************************************************************)
Unstale == "stale" \notin marks'

Same(x, y) == /\ x.here = y.here /\ x.on = y.on /\ x.good = y.good
              /\ x.params.text = y.params.text /\ x.params.stamp = y.params.stamp
              /\ x.params.cycles = y.params.cycles

LEMMA UnstaleCopy ==
    ASSUME Unstale, NEW copy, NEW more, marks' = marks \cup Stale(copy) \cup more
    PROVE  copy = row
BY DEF Unstale, Stale

LEMMA RecordIs ==
    ASSUME Types, NEW e \in Executions, NEW sent \in BOOLEAN, ExecutionRecords(e, sent), Unstale
    PROVE  Same(row', row)
<1> DEFINE copy == exec[e].copy
           new(err) == [copy EXCEPT !.params.error = err]
<1>1. row \in Short /\ copy \in Short
  BY DEF Types
<1>2. CASE ~row.here
  BY <1>2 DEF ExecutionRecords, Same
<1>3. CASE row.here
  <2>1. copy = row
    <3>1. marks' = marks \cup Stale(copy) \cup {}
      BY <1>3 DEF ExecutionRecords
    <3> QED BY <3>1, UnstaleCopy
  <2>2. new(~sent) \in Short /\ new(~sent).on = copy.on /\ new(~sent).good = copy.good
        /\ new(~sent).params.text = copy.params.text
        /\ new(~sent).params.stamp = copy.params.stamp
        /\ new(~sent).params.cycles = copy.params.cycles
    BY <1>1 DEF Short, Row, Params
  <2>3. CASE row' = Committed(copy, new(~sent))
    <3> HIDE DEF new
    <3> QED BY <1>1, <2>1, <2>2, <2>3, CommittedIs DEF Same
  <2>4. CASE row' = [row EXCEPT !.params = copy.params]
    BY <1>1, <2>1, <2>4 DEF Same, Short, Row
  <2> QED BY <1>3, <2>3, <2>4 DEF ExecutionRecords
<1> QED BY <1>2, <1>3

LEMMA JudgeIs ==
    ASSUME Types, NEW e \in Executions, ExecutionJudges(e), Unstale
    PROVE  \/ UNCHANGED <<row, disables, marks>>
           \/ /\ exec[e].copy = row /\ disables' = disables + 1
              /\ row'.here = row.here /\ row'.on = FALSE /\ row'.good = row.good
              /\ row'.params.text = row.params.text /\ row'.params.stamp = disables'
              /\ row'.params.cycles # <<>>
              /\ row'.params.cycles[Len(row'.params.cycles)] = Cycle(disables')
<1> DEFINE copy == exec[e].copy
           new == Disabled(copy, disables + 1)
<1>1. row \in Short /\ copy \in Short
  BY DEF Types
<1>2. CASE UNCHANGED <<row, disables, marks>>
  BY <1>2
<1>3. CASE row' = Committed(copy, new) /\ disables' = disables + 1 /\ marks' = marks \cup Stale(copy)
  <2>1. copy = row
    <3>1. marks' = marks \cup Stale(copy) \cup {}
      BY <1>3
    <3> QED BY <3>1, UnstaleCopy
  <2>2. disables' \in 1..MaxRuns
    <3>1. Types'
      BY ExecutionTypes DEF Execution
    <3> QED BY <1>3, <3>1 DEF Types
  <2>3. /\ new \in Short /\ new.on = FALSE /\ new.good = copy.good
        /\ new.params.text = copy.params.text /\ new.params.stamp = disables'
        /\ new.params.cycles # <<>>
        /\ new.params.cycles[Len(new.params.cycles)] = Cycle(disables')
    BY <1>1, <1>3, <2>2, DisabledIs
  <2> HIDE DEF new
  <2> QED BY <1>1, <1>3, <2>1, <2>3, CommittedIs
<1> QED BY <1>2, <1>3 DEF ExecutionJudges

LEMMA HealIs ==
    ASSUME Types, PatrolWrites, Unstale, row.here
    PROVE  /\ patrol.copy = row
           /\ row'.here = row.here /\ row'.on = TRUE /\ row'.good = row.good
           /\ row'.params.text = row.params.text /\ row'.params.stamp = 0
<1>1. row \in Short /\ patrol.copy \in Short
  BY DEF Types
<1>2. patrol.copy = row
  <2>1. \E c \in {{"crossed"}, {}} : marks' = marks \cup Stale(patrol.copy) \cup c
    BY DEF PatrolWrites
  <2> QED BY <2>1, UnstaleCopy
<1>3. row' = Committed(patrol.copy, Healed(patrol.copy))
  BY DEF PatrolWrites
<1>4. /\ Healed(patrol.copy) \in Short /\ Healed(patrol.copy).on = TRUE
      /\ Healed(patrol.copy).good = patrol.copy.good
      /\ Healed(patrol.copy).params.text = patrol.copy.params.text
      /\ Healed(patrol.copy).params.stamp = 0
  BY <1>1, HealedIs
<1> QED BY <1>1, <1>2, <1>3, <1>4, CommittedIs

LEMMA RequestWriteIs ==
    ASSUME Types, NEW r \in Requests, RequestWrites(r), Unstale,
           ~(Answered(r) /\ UNCHANGED <<row, edits, offByHand, marks>>)
    PROVE  \E new \in Outcomes(req[r].kind, req[r].copy) :
             LET k == req[r].kind IN
             /\ k \in Kinds /\ req[r].copy = row /\ new \in Short /\ row' \in Short
             /\ k = "delete" => row' = Absent /\ new = Absent /\ edits' = edits
             /\ k # "delete" =>
                  /\ row.here \/ new = row
                  /\ row'.here = row.here
                  /\ row'.on = new.on /\ row'.good = new.good /\ row'.params = new.params
             /\ k \in {"edit on", "edit off"} =>
                  /\ edits' = edits + 1 /\ new.here /\ row'.on = (k = "edit on")
                  /\ row'.params.text = edits + 1 /\ row'.params.stamp = 0
             /\ k \notin {"delete", "edit on", "edit off"} =>
                  /\ edits' = edits /\ row'.good = row.good
                  /\ row'.params.text = row.params.text
                  /\ k = "toggle" /\ ~row.on => row'.params.stamp = 0
                  /\ ~(k = "toggle" /\ ~row.on) => row'.params = row.params
             /\ k \in {"toggle", "api toggle"} => row'.on = ~row.on
             /\ k = "enable" => row'.on
             /\ k = "disable" => ~row'.on
             /\ offByHand' = IF row'.on = row.on THEN offByHand ELSE row.on
             /\ marks' = Noticed(r, row, new)
             /\ req'[r].at = (IF k = "api toggle" THEN "done" ELSE "written")
             /\ req'[r].kind = k /\ req'[r].new = new
             /\ \A q \in Requests \ {r} : req'[q] = req[q]
<1> DEFINE k == req[r].kind
           copy == req[r].copy
<1>1. PICK new \in Outcomes(k, copy) :
        /\ k \in Kinds /\ new \in Short
        /\ row.here \/ k = "delete" \/ new = copy
        /\ row' = IF k = "delete" THEN Absent ELSE Committed(copy, new)
        /\ row' \in Short
        /\ edits' = IF k \in {"edit on", "edit off"} THEN edits + 1 ELSE edits
        /\ offByHand' = IF row'.on = row.on THEN offByHand ELSE row.on
        /\ marks' = Noticed(r, copy, new)
        /\ \A q \in Requests \ {r} : req'[q] = req[q]
        /\ req'[r].at = (IF k = "api toggle" THEN "done" ELSE "written")
        /\ req'[r].kind = k /\ req'[r].new = new
  BY WriteIs
<1>2. copy \in Short /\ row \in Short /\ edits \in Nat
  BY DEF Types, Carries
<1>3. copy = row
  BY <1>1 DEF Noticed, Unstale, Stale
<1> HIDE DEF k, copy
<1>4. Made(k, row, new)
  BY <1>1, <1>2, <1>3, OutcomeIs
<1>5. k # "delete" =>
        /\ row'.here = row.here
        /\ row'.on = new.on /\ row'.good = new.good /\ row'.params = new.params
  <2> SUFFICES ASSUME k # "delete"
               PROVE  /\ row'.here = row.here
                      /\ row'.on = new.on /\ row'.good = new.good /\ row'.params = new.params
    OBVIOUS
  <2>1. row' = Committed(row, new) /\ new \in Short
    BY <1>1, <1>3
  <2> QED BY <1>2, <2>1, CommittedIs
<1> QED BY <1>1, <1>3, <1>4, <1>5 DEF k, copy, Made

\* Marks are only added.
LEMMA MarksStay == Next => marks \subseteq marks'
<1> SUFFICES ASSUME Next PROVE marks \subseteq marks'
  OBVIOUS
<1>1. ASSUME NEW e \in Executions, Execution(e) PROVE marks \subseteq marks'
  BY <1>1 DEF Execution, ExecutionBegins, ExecutionRecords, ExecutionJudges, ghosts
<1>2. ASSUME NEW r \in Requests, Request(r) PROVE marks \subseteq marks'
  BY <1>2 DEF Request, RequestReads, RequestWrites, RequestSchedules, RequestUndoes,
              RequestAdds, RunsCleared, ghosts, Noticed
<1>3. CASE Cools \/ PatrolReads \/ PatrolWrites \/ PatrolSchedules \/ Restart
  BY <1>3 DEF Cools, PatrolReads, PatrolWrites, PatrolSchedules, Restart, ghosts
<1> QED BY <1>1, <1>2, <1>3 DEF Next

(***************************************************************************)
(* What executions and the patrol remember, and the beginning.             *)
(***************************************************************************)
LEMMA MemoriesKept == Types /\ Memories /\ Next => Memories'
<1> SUFFICES ASSUME Types, Memories, Next PROVE Memories'
  OBVIOUS
<1>1. \A e \in Executions : exec[e] \in ExecRec
  BY DEF Types
<1>2. ASSUME NEW e \in Executions, Execution(e) PROVE Memories'
  <2>1. UNCHANGED patrol
    BY <1>2 DEF Execution, ExecutionBegins, ExecutionRecords, ExecutionJudges
  <2>2. ASSUME NEW d \in Executions, exec'[d].at # "idle" PROVE exec'[d].copy.on
    <3>1. CASE ExecutionBegins(e)
      BY <2>2, <3>1 DEF ExecutionBegins, Memories, Types
    <3>2. ASSUME NEW sent \in BOOLEAN, ExecutionRecords(e, sent) PROVE exec'[d].copy.on
      <4> DEFINE w == [at |-> "judging", copy |-> [exec[e].copy EXCEPT !.params.error = TRUE]]
      <4>1. exec' = [exec EXCEPT ![e] = Idle] \/ exec' = [exec EXCEPT ![e] = w]
        BY <3>2 DEF ExecutionRecords
      <4>2. exec[e].copy \in Short /\ exec[e].copy.on
        BY <3>2 DEF ExecutionRecords, Types, Memories
      <4>3. w.copy.on
        BY <4>2 DEF Short, Row
      <4>4. Idle.at = "idle"
        BY DEF Idle
      <4> HIDE DEF w
      <4> QED BY <2>2, <4>1, <4>3, <4>4 DEF Memories, Types
    <3>3. CASE ExecutionJudges(e)
      BY <2>2, <3>3 DEF ExecutionJudges, Memories, Types, Idle
    <3> QED BY <1>2, <3>1, <3>2, <3>3 DEF Execution
  <2> QED BY <2>1, <2>2 DEF Memories
<1>3. ASSUME NEW r \in Requests, Request(r) PROVE Memories'
  <2>1. UNCHANGED <<exec, patrol>>
    BY <1>3 DEF Request, RequestReads, RequestWrites, RequestSchedules, RequestUndoes,
                RequestAdds, RunsCleared
  <2> QED BY <2>1 DEF Memories
<1>4. CASE PatrolReads
  BY <1>4 DEF PatrolReads, Memories, Types
<1>5. CASE Cools \/ PatrolWrites \/ PatrolSchedules
  <2>1. UNCHANGED exec /\ (patrol'.at = "writing" => patrol' = patrol)
    BY <1>5 DEF Cools, PatrolWrites, PatrolSchedules, Asleep, Types, PatrolRec
  <2> QED BY <2>1 DEF Memories
<1>6. CASE Restart
  BY <1>6 DEF Restart, Memories, Idle, Asleep
<1> QED BY <1>2, <1>3, <1>4, <1>5, <1>6 DEF Next

LEMMA BeginningKept == Types /\ Beginning /\ Next => Beginning'
<1> SUFFICES ASSUME Types, Beginning, Next, edits' = 0
             PROVE  /\ ~row'.here /\ ~job' /\ ~offByHand' /\ patrol'.at = "asleep"
                    /\ \A r \in Requests : req'[r].at \in {"idle", "done"}
  BY DEF Beginning
<1>1. edits = 0 /\ edits \in Nat
  <2>1. edits' = edits \/ edits' = edits + 1
    <3>1. ASSUME NEW e \in Executions, Execution(e) PROVE edits' = edits
      BY <3>1 DEF Execution, ExecutionBegins, ExecutionRecords, ExecutionJudges, ghosts
    <3>2. ASSUME NEW r \in Requests, Request(r) PROVE edits' = edits \/ edits' = edits + 1
      <4>1. CASE RequestWrites(r)
        BY <4>1 DEF RequestWrites
      <4>2. CASE RequestAdds(r)
        BY <4>2 DEF RequestAdds
      <4> QED BY <3>2, <4>1, <4>2 DEF Request, RequestReads, RequestSchedules, RequestUndoes,
                                      RunsCleared, ghosts
    <3>3. CASE Cools \/ PatrolReads \/ PatrolWrites \/ PatrolSchedules \/ Restart
      BY <3>3 DEF Cools, PatrolReads, PatrolWrites, PatrolSchedules, Restart, ghosts
    <3> QED BY <3>1, <3>2, <3>3 DEF Next
  <2> QED BY <2>1 DEF Types
<1>2. /\ ~row.here /\ ~job /\ ~offByHand /\ patrol.at = "asleep"
      /\ \A r \in Requests : req[r].at \in {"idle", "done"}
  BY <1>1 DEF Beginning
<1>3. ASSUME NEW e \in Executions, Execution(e)
      PROVE  UNCHANGED <<row, job, offByHand, patrol, req>>
  BY <1>2, <1>3 DEF Execution, ExecutionBegins, ExecutionRecords, ExecutionJudges, ghosts
<1>4. ASSUME NEW r \in Requests, Request(r)
      PROVE  UNCHANGED <<row, job, offByHand, patrol>> /\ Answered(r)
  <2>1. \A k \in Kinds : ~RequestReads(r, k)
    BY <1>2 DEF RequestReads
  <2>2. ~RequestWrites(r) /\ ~RequestSchedules(r) /\ ~RequestUndoes(r)
    BY <1>2 DEF RequestWrites, RequestSchedules, RequestUndoes
  <2>3. ~RequestAdds(r)
    BY DEF RequestAdds
  <2>4. CASE RunsCleared(r)
    BY <2>4 DEF RunsCleared, ghosts
  <2> QED BY <1>4, <2>1, <2>2, <2>3, <2>4 DEF Request
<1>5. ASSUME NEW r \in Requests, Answered(r), NEW q \in Requests
      PROVE  req'[q].at \in {"idle", "done"}
  BY <1>2, <1>5, AnsweredIs
<1>6. CASE Cools \/ PatrolReads \/ PatrolWrites \/ PatrolSchedules
  BY <1>2, <1>6 DEF Cools, PatrolReads, PatrolWrites, PatrolSchedules, ghosts
<1>7. CASE Restart
  BY <1>2, <1>7 DEF Restart, ghosts, Asleep, Unused
<1> QED BY <1>2, <1>3, <1>4, <1>5, <1>6, <1>7 DEF Next

(***************************************************************************)
(* The last word, the stamps and their cycles.                             *)
(***************************************************************************)
RowInv == Types /\ Memories /\ Beginning /\ Word /\ StampHasCycle

\* A step that leaves row and edits, and the last switch, as they are.
LEMMA RowStays ==
    ASSUME RowInv, Next, Same(row', row) \/ UNCHANGED row, UNCHANGED <<edits, offByHand>>
    PROVE  Word' /\ StampHasCycle'
<1>1. marks \subseteq marks'
  BY MarksStay
<1> QED BY <1>1 DEF RowInv, Same, Word, StampHasCycle

LEMMA RowKept == RowInv /\ Next => Word' /\ StampHasCycle'
<1> SUFFICES ASSUME RowInv, Next PROVE Word' /\ StampHasCycle'
  OBVIOUS
<1>1. marks \subseteq marks' /\ row \in Short /\ Types /\ edits \in Nat
  BY MarksStay DEF RowInv, Types
<1>2. ASSUME ~Unstale PROVE Word' /\ StampHasCycle'
  BY <1>2 DEF Unstale, Word, StampHasCycle
<1>3. ASSUME Unstale
      PROVE  /\ row.here => row.params.text = edits
             /\ "stamp kept" \notin marks =>
                  /\ row.on => row.params.stamp = 0
                  /\ offByHand => ~row.on /\ row.params.stamp = 0
             /\ row.params.stamp # 0 =>
                  /\ row.params.cycles # <<>>
                  /\ row.params.cycles[Len(row.params.cycles)] = Cycle(row.params.stamp)
  BY <1>1, <1>3 DEF Unstale, RowInv, Word, StampHasCycle
<1>4. ASSUME NEW e \in Executions, Execution(e), Unstale PROVE Word' /\ StampHasCycle'
  <2>1. CASE ExecutionBegins(e)
    BY <2>1, RowStays DEF ExecutionBegins, ghosts
  <2>2. ASSUME NEW sent \in BOOLEAN, ExecutionRecords(e, sent) PROVE Word' /\ StampHasCycle'
    <3>1. UNCHANGED <<edits, offByHand>>
      BY <2>2 DEF ExecutionRecords
    <3> QED BY <1>1, <1>4, <2>2, <3>1, RecordIs, RowStays
  <2>3. CASE ExecutionJudges(e)
    <3>1. UNCHANGED <<edits, offByHand>> /\ exec[e].at # "idle"
      BY <2>3 DEF ExecutionJudges
    <3>2. CASE UNCHANGED row
      BY <3>1, <3>2, RowStays
    <3>3. CASE ~UNCHANGED row
      <4>1. /\ exec[e].copy = row
            /\ row'.here = row.here /\ row'.on = FALSE
            /\ row'.params.text = row.params.text /\ row'.params.stamp = disables'
            /\ row'.params.cycles # <<>>
            /\ row'.params.cycles[Len(row'.params.cycles)] = Cycle(disables')
        BY <1>1, <1>4, <2>3, <3>3, JudgeIs
      <4>2. row.on
        BY <3>1, <4>1 DEF RowInv, Memories
      <4>3. "stamp kept" \notin marks => ~offByHand
        BY <1>3, <1>4, <4>2
      <4>4. Word'
        BY <1>1, <1>3, <1>4, <3>1, <4>1, <4>3 DEF Word
      <4>5. StampHasCycle'
        BY <4>1 DEF StampHasCycle
      <4> QED BY <4>4, <4>5
    <3> QED BY <3>2, <3>3
  <2> QED BY <1>4, <2>1, <2>2, <2>3 DEF Execution
<1>5. CASE PatrolWrites /\ Unstale
  <2>1. UNCHANGED <<edits, offByHand>> /\ patrol.at = "writing"
    BY <1>5 DEF PatrolWrites
  <2>2. CASE ~row.here
    BY <1>5, <2>1, <2>2, RowStays DEF PatrolWrites
  <2>3. CASE row.here
    <3>1. /\ patrol.copy = row
          /\ row'.here = row.here /\ row'.on = TRUE
          /\ row'.params.text = row.params.text /\ row'.params.stamp = 0
      BY <1>1, <1>5, <2>3, HealIs
    <3>2. row.params.stamp # 0
      BY <2>1, <3>1 DEF RowInv, Memories
    <3>3. "stamp kept" \notin marks => ~offByHand
      BY <1>3, <1>5, <3>2
    <3> QED BY <1>1, <1>3, <1>5, <2>1, <3>1, <3>3 DEF Word, StampHasCycle
  <2> QED BY <2>2, <2>3
<1>6. ASSUME NEW r \in Requests, RequestWrites(r), Unstale PROVE Word' /\ StampHasCycle'
  <2>1. CASE Answered(r) /\ UNCHANGED <<row, edits, offByHand, marks>>
    BY <2>1, RowStays
  <2>2. CASE ~(Answered(r) /\ UNCHANGED <<row, edits, offByHand, marks>>)
    <3> DEFINE k == req[r].kind
    <3>1. PICK new \in Outcomes(k, req[r].copy) :
             /\ k \in Kinds /\ row' \in Short
             /\ k = "delete" => row' = Absent /\ edits' = edits
             /\ k # "delete" =>
                  /\ row.here \/ new = row
                  /\ row'.here = row.here
                  /\ row'.on = new.on /\ row'.good = new.good /\ row'.params = new.params
             /\ k \in {"edit on", "edit off"} =>
                  /\ edits' = edits + 1
                  /\ row'.params.text = edits + 1 /\ row'.params.stamp = 0
             /\ k \notin {"delete", "edit on", "edit off"} =>
                  /\ edits' = edits
                  /\ row'.params.text = row.params.text
                  /\ k = "toggle" /\ ~row.on => row'.params.stamp = 0
                  /\ ~(k = "toggle" /\ ~row.on) => row'.params = row.params
             /\ k \in {"toggle", "api toggle"} => row'.on = ~row.on
             /\ k = "disable" => ~row'.on
             /\ offByHand' = IF row'.on = row.on THEN offByHand ELSE row.on
             /\ marks' = Noticed(r, row, new)
      BY <1>1, <1>6, <2>2, RequestWriteIs
    <3> HIDE DEF k
    <3>2. Absent.here = FALSE /\ Absent.on = FALSE /\ Absent.params.stamp = 0
      BY DEF Absent, Fresh
    <3>3. row'.here => row'.params.text = edits'
      BY <1>3, <1>6, <3>1, <3>2
    <3>4. StampHasCycle'
      BY <1>3, <1>6, <3>1, <3>2 DEF StampHasCycle
    <3>5. ASSUME "stamp kept" \notin marks'
          PROVE  /\ row'.on => row'.params.stamp = 0
                 /\ offByHand' => ~row'.on /\ row'.params.stamp = 0
      <4>1. /\ row.on => row.params.stamp = 0
            /\ offByHand => ~row.on /\ row.params.stamp = 0
        BY <1>1, <1>3, <1>6, <3>5
      <4>2. CASE k \in {"delete", "edit on", "edit off"}
        BY <3>1, <3>2, <4>1, <4>2
      <4>3. CASE k = "toggle"
        BY <3>1, <4>1, <4>3
      <4>4. CASE k = "disable"
        BY <3>1, <4>1, <4>4
      <4>5. CASE k \in {"enable", "api toggle"}
        <5>1. ~(new.on /\ new.params.stamp # 0)
          BY <3>1, <3>5, <4>5 DEF Noticed, k
        <5>2. row'.on = new.on /\ row'.params = new.params /\ row'.params = row.params
          BY <3>1, <4>5
        <5> QED BY <3>1, <4>1, <5>1, <5>2
      <4> QED BY <3>1, <4>2, <4>3, <4>4, <4>5 DEF Kinds
    <3> QED BY <3>3, <3>4, <3>5 DEF Word
  <2> QED BY <2>1, <2>2
<1>7. ASSUME NEW r \in Requests, RequestUndoes(r), Unstale PROVE Word' /\ StampHasCycle'
  <2>1. /\ row' = IF req[r].kind = "add" \/ ~row.here THEN Absent ELSE Switched(row, FALSE)
        /\ offByHand' = IF row'.on = row.on THEN offByHand ELSE row.on
        /\ edits' = edits
    BY <1>7 DEF RequestUndoes
  <2>2. Absent.here = FALSE /\ Absent.on = FALSE /\ Absent.params.stamp = 0
    BY DEF Absent, Fresh
  <2>3. /\ Switched(row, FALSE).on = FALSE /\ Switched(row, FALSE).here = row.here
        /\ Switched(row, FALSE).params = row.params
    BY <1>1, SwitchedIs
  <2>4. row.on \in BOOLEAN
    BY <1>1 DEF Short, Row
  <2> QED BY <1>1, <1>3, <1>7, <2>1, <2>2, <2>3, <2>4 DEF Word, StampHasCycle
<1>8. ASSUME NEW r \in Requests, RequestAdds(r), Unstale PROVE Word' /\ StampHasCycle'
  <2>1. PICK on \in BOOLEAN, good \in BOOLEAN : row' = NewRow(on, good, 1)
    BY <1>8 DEF RequestAdds
  <2>2. row'.params.stamp = 0 /\ row'.params.text = 1
    BY <2>1 DEF NewRow, Fresh
  <2>3. edits' = 1 /\ ~offByHand'
    BY <1>8 DEF RequestAdds, RowInv, Beginning
  <2> QED BY <2>2, <2>3 DEF Word, StampHasCycle
<1>9. ASSUME NEW r \in Requests, Request(r), Unstale PROVE Word' /\ StampHasCycle'
  <2>1. CASE RequestSchedules(r) \/ RunsCleared(r) \/ \E k \in Kinds : RequestReads(r, k)
    BY <2>1, RowStays DEF RequestSchedules, RunsCleared, RequestReads, ghosts
  <2> QED BY <1>6, <1>7, <1>8, <1>9, <2>1 DEF Request
<1>10. CASE Cools \/ PatrolReads \/ PatrolSchedules \/ Restart
  BY <1>10, RowStays DEF Cools, PatrolReads, PatrolSchedules, Restart, ghosts
<1> QED BY <1>2, <1>4, <1>5, <1>9, <1>10 DEF Next

(***************************************************************************)
(* The scheduler.                                                          *)
(***************************************************************************)
\* What Scheduling says while it has something to say.
InStep == /\ Alone
          /\ Settled => Matches
          /\ patrol.at = "scheduling" => row.here /\ row.good = patrol.copy.good
          /\ \A r \in Requests : req[r].at = "written" => Knows(r)
          /\ \A r \in Requests : req[r].at = "undoing" =>
               row.here /\ req[r].kind # "delete" /\ (req[r].kind = "add" => ~job)

Clean == marks' \cap {"api", "stale", "crossed"} = {}

LEMMA SettledIs == Settled <=> patrol.at # "scheduling" /\ \A r \in Requests : ~Half(r)
BY DEF Settled, HalfDone, Half

\* A step in which nobody writes what the scheduler should know: a task may be switched
\* off, that is all.
LEMMA NobodyWrites ==
    ASSUME InStep, UNCHANGED job,
           row'.here = row.here, row'.good = row.good, row'.on => row.on,
           patrol'.at = "scheduling" <=> patrol.at = "scheduling",
           patrol.at = "scheduling" => patrol' = patrol,
           \A r \in Requests : Half(r) \/ Half(r)' => req'[r] = req[r]
    PROVE  InStep'
<1>1. \A r \in Requests : Half(r)' <=> Half(r)
  BY DEF Half
<1>2. Alone'
  BY <1>1 DEF InStep, Alone
<1>3. Settled' => Settled
  BY <1>1 DEF Settled, HalfDone, Half
<1>4. Matches => Matches'
  BY DEF Matches
<1>5. patrol'.at = "scheduling" => row'.here /\ row'.good = patrol'.copy.good
  BY DEF InStep
<1>6. ASSUME NEW r \in Requests
      PROVE  /\ req'[r].at = "written" => Knows(r)'
             /\ req'[r].at = "undoing" =>
                  row'.here /\ req'[r].kind # "delete" /\ (req'[r].kind = "add" => ~job')
  <2>1. req'[r].at \in {"written", "undoing"} => req'[r] = req[r]
    BY DEF Half
  <2> QED BY <2>1 DEF InStep, Knows
<1> QED BY <1>2, <1>3, <1>4, <1>5, <1>6 DEF InStep

\* Request r answers, or goes on alone.
LEMMA OneGoesOn ==
    ASSUME NEW r \in Requests, \A q \in Requests \ {r} : req'[q] = req[q] /\ ~Half(q),
           patrol'.at # "scheduling",
           ~Half(r)' => Matches',
           req'[r].at = "written" => Knows(r)',
           req'[r].at = "undoing" =>
             row'.here /\ req'[r].kind # "delete" /\ (req'[r].kind = "add" => ~job')
    PROVE  InStep'
<1>1. \A q \in Requests \ {r} : ~Half(q)' /\ req'[q].at \notin {"written", "undoing"}
  BY DEF Half
<1>2. Alone'
  BY <1>1 DEF Alone
<1>3. Settled' => ~Half(r)'
  BY DEF Settled, HalfDone, Half
<1> QED BY <1>1, <1>2, <1>3 DEF InStep

LEMMA ExecutionInStep ==
    ASSUME Types, InStep, Clean, NEW e \in Executions, Execution(e)
    PROVE  InStep'
<1>1. Unstale /\ UNCHANGED <<patrol, req, job>>
  BY DEF Clean, Unstale, Execution, ExecutionBegins, ExecutionRecords, ExecutionJudges
<1>2. row'.here = row.here /\ row'.good = row.good /\ (row'.on => row.on)
  <2>1. CASE ExecutionBegins(e)
    BY <2>1 DEF ExecutionBegins
  <2>2. ASSUME NEW sent \in BOOLEAN, ExecutionRecords(e, sent) PROVE Same(row', row)
    BY <1>1, <2>2, RecordIs
  <2>3. CASE ExecutionJudges(e)
    BY <1>1, <2>3, JudgeIs
  <2> QED BY <2>1, <2>2, <2>3 DEF Execution, Same
<1> QED BY <1>1, <1>2, NobodyWrites

LEMMA PatrolInStep ==
    ASSUME Types, Memories, InStep, Clean, Cools \/ PatrolReads \/ PatrolWrites \/ PatrolSchedules
    PROVE  InStep'
<1>1. CASE Cools \/ PatrolReads
  <2>1. UNCHANGED <<row, job, req>>
    BY <1>1 DEF Cools, PatrolReads
  <2>2. patrol' = patrol \/ (patrol.at = "asleep" /\ patrol'.at = "writing")
    BY <1>1 DEF Cools, PatrolReads
  <2> QED BY <2>1, <2>2, NobodyWrites
<1>2. CASE PatrolWrites
  <2>1. UNCHANGED <<job, req>> /\ patrol.at = "writing" /\ Unstale
    BY <1>2 DEF PatrolWrites, Clean, Unstale
  <2>2. CASE ~row.here
    <3>1. UNCHANGED row /\ patrol'.at = "asleep"
      BY <1>2, <2>2 DEF PatrolWrites, Asleep
    <3> QED BY <2>1, <3>1, NobodyWrites
  <2>3. CASE row.here
    <3>1. /\ patrol.copy = row /\ row'.here = row.here /\ row'.good = row.good
      BY <1>2, <2>1, <2>3, HealIs
    <3>2. patrol'.at = "scheduling" /\ patrol'.copy = patrol.copy
      BY <1>2, <2>3 DEF PatrolWrites, Types, PatrolRec
    <3>3. ~HalfDone(Requests)
      BY <1>2, <2>3 DEF PatrolWrites, Clean
    <3>4. \A r \in Requests : ~Half(r) /\ ~Half(r)' /\ req'[r].at \notin {"written", "undoing"}
      BY <2>1, <3>3 DEF HalfDone, Half
    <3> QED BY <2>3, <3>1, <3>2, <3>4 DEF InStep, Alone, Settled
  <2> QED BY <2>2, <2>3
<1>3. CASE PatrolSchedules
  <2>1. UNCHANGED <<row, req>> /\ patrol.at = "scheduling" /\ patrol'.at = "asleep"
        /\ job' = (job \/ patrol.copy.good)
    BY <1>3 DEF PatrolSchedules, Asleep
  <2>2. \A r \in Requests : ~Half(r)
    BY <2>1 DEF InStep, Alone
  <2>3. \A r \in Requests : ~Half(r)' /\ req'[r].at \notin {"written", "undoing"}
    BY <2>1, <2>2 DEF Half
  <2>4. Matches'
    BY <2>1 DEF Matches, InStep
  <2> QED BY <2>1, <2>3, <2>4 DEF InStep, Alone
<1> QED BY <1>1, <1>2, <1>3

\* Whoever writes without being noticed is alone.
LEMMA NotCrossing ==
    ASSUME NEW r \in Requests, Crossing(r) = {}
    PROVE  patrol.at # "scheduling" /\ \A q \in Requests \ {r} : ~Half(q)
BY DEF Crossing, HalfDone, Half

LEMMA WriteInStep ==
    ASSUME Types, InStep, Clean, NEW r \in Requests, RequestWrites(r)
    PROVE  InStep'
<1>1. UNCHANGED <<job, patrol>> /\ Unstale /\ req[r].at = "read" /\ row \in Short
  BY DEF RequestWrites, Clean, Unstale, Types
<1>2. CASE Answered(r) /\ UNCHANGED <<row, edits, offByHand, marks>>
  <2>1. req'[r].at = "done" /\ \A q \in Requests \ {r} : req'[q] = req[q]
    BY <1>2, AnsweredIs
  <2> QED BY <1>1, <1>2, <2>1, NobodyWrites DEF Half
<1>3. CASE ~(Answered(r) /\ UNCHANGED <<row, edits, offByHand, marks>>)
  <2> DEFINE k == req[r].kind
  <2>1. PICK new \in Outcomes(k, req[r].copy) :
             /\ k \in Kinds /\ req[r].copy = row
             /\ k = "delete" => row' = Absent /\ new = Absent
             /\ k # "delete" =>
                  /\ row.here \/ new = row
                  /\ row'.here = row.here
                  /\ row'.on = new.on /\ row'.good = new.good /\ row'.params = new.params
             /\ k \in {"edit on", "edit off"} => new.here
             /\ k \notin {"delete", "edit on", "edit off"} => row'.good = row.good
             /\ k \in {"toggle", "api toggle"} => row'.on = ~row.on
             /\ marks' = Noticed(r, row, new)
             /\ req'[r].at = (IF k = "api toggle" THEN "done" ELSE "written")
             /\ req'[r].kind = k /\ req'[r].new = new
             /\ \A q \in Requests \ {r} : req'[q] = req[q]
    BY <1>1, <1>3, RequestWriteIs
  <2>2. Crossing(r) = {} /\ (k = "api toggle" => ~new.on)
    BY <2>1 DEF Clean, Noticed, Crossing
  <2> HIDE DEF k
  <2>3. patrol.at # "scheduling" /\ \A q \in Requests : ~Half(q)
    BY <1>1, <2>2, NotCrossing DEF Half
  <2>4. Matches
    BY <2>3, SettledIs DEF InStep
  <2>5. CASE k = "api toggle"
    <3>1. Matches'
      BY <1>1, <2>1, <2>2, <2>4, <2>5 DEF Matches
    <3> QED BY <1>1, <2>1, <2>3, <2>5, <3>1, OneGoesOn
  <2>6. CASE k = "delete"
    <3>1. Knows(r)'
      BY <2>1, <2>6 DEF Knows, Absent
    <3> QED BY <1>1, <2>1, <2>3, <2>6, <3>1, OneGoesOn DEF Half
  <2>7. CASE k \in Kinds \ {"delete", "api toggle"}
    <3>1. row.here
      BY <1>1, <2>1 DEF Types, Carries
    <3>2. k # "add"
      BY <2>7 DEF Kinds
    <3>3. Knows(r)'
      BY <2>1, <2>7, <3>1, <3>2 DEF Knows
    <3> QED BY <1>1, <2>1, <2>3, <2>7, <3>3, OneGoesOn DEF Half
  <2> QED BY <2>1, <2>5, <2>6, <2>7
<1> QED BY <1>2, <1>3

LEMMA ScheduleInStep ==
    ASSUME Types, InStep, Clean, NEW r \in Requests, RequestSchedules(r)
    PROVE  InStep'
<1>1. UNCHANGED <<row, patrol>> /\ req[r].at = "written" /\ row \in Short
  BY DEF RequestSchedules, Types
<1>2. Knows(r) /\ patrol.at # "scheduling" /\ \A q \in Requests \ {r} : ~Half(q)
  BY <1>1 DEF InStep, Alone, Half
<1>3. /\ \A q \in Requests \ {r} : req'[q] = req[q]
      /\ req'[r].at \in {"done", "undoing"}
      /\ req'[r].at = "undoing" =>
           /\ req[r].new.on /\ job' = JobRefused(req[r].kind)
           /\ req'[r].kind = req[r].kind
  BY ScheduleIs
<1>4. CASE req'[r].at = "undoing"
  <2>1. req[r].kind # "delete"
    BY <1>2, <1>3, <1>4 DEF Knows
  <2>2. req[r].kind = "add" => ~job'
    BY <1>2, <1>3, <1>4 DEF Knows, JobRefused
  <2>3. row'.here
    BY <1>1, <1>2, <2>1 DEF Knows
  <2> QED BY <1>1, <1>2, <1>3, <1>4, <2>1, <2>2, <2>3, OneGoesOn DEF Half
<1>5. CASE req'[r].at = "done"
  <2>1. Matches'
    <3>1. CASE ~req[r].new.on
      <4>1. ~job' /\ ~row.on
        BY <1>2, <3>1 DEF RequestSchedules, Knows
      <4> QED BY <1>1, <4>1 DEF Matches
    <3>2. CASE req[r].new.on
      <4>1. row.here
        BY <1>2, <3>2 DEF Knows
      <4>2. row.good => req[r].new.good
        BY <1>2, <4>1 DEF Knows
      <4>3. req[r].new.good => job'
        BY <3>2, <4>1 DEF RequestSchedules
      <4> QED BY <1>1, <4>1, <4>2, <4>3 DEF Matches
    <3> QED BY <3>1, <3>2
  <2> QED BY <1>1, <1>2, <1>3, <1>5, <2>1, OneGoesOn DEF Half
<1> QED BY <1>3, <1>4, <1>5

LEMMA UndoInStep ==
    ASSUME Types, InStep, Clean, NEW r \in Requests, RequestUndoes(r)
    PROVE  InStep'
<1>1. UNCHANGED <<job, patrol>> /\ req[r].at = "undoing" /\ row \in Short
      /\ row' = IF req[r].kind = "add" \/ ~row.here THEN Absent ELSE Switched(row, FALSE)
  BY DEF RequestUndoes, Types
<1>2. patrol.at # "scheduling" /\ \A q \in Requests \ {r} : ~Half(q)
  BY <1>1 DEF InStep, Alone, Half
<1>3. req'[r].at = "done" /\ \A q \in Requests \ {r} : req'[q] = req[q]
  BY AnsweredIs DEF RequestUndoes
<1>4. row.here /\ (req[r].kind = "add" => ~job)
  BY <1>1 DEF InStep
<1>5. Switched(row, FALSE).on = FALSE /\ Switched(row, FALSE).here = row.here
  BY <1>1, SwitchedIs
<1>6. Matches'
  BY <1>1, <1>4, <1>5 DEF Matches, Absent
<1> QED BY <1>1, <1>2, <1>3, <1>6, OneGoesOn DEF Half

LEMMA AddInStep ==
    ASSUME Types, Beginning, InStep, Clean, NEW r \in Requests, RequestAdds(r)
    PROVE  InStep'
<1>1. /\ ~job /\ patrol.at = "asleep" /\ UNCHANGED <<job, patrol>>
      /\ \A q \in Requests : ~Half(q)
  BY DEF RequestAdds, Beginning, Half
<1>2. PICK on \in BOOLEAN, good \in BOOLEAN :
        LET new == NewRow(on, good, 1) IN
        /\ row' = new
        /\ req' = [req EXCEPT ![r] = [at |-> "written", kind |-> "add", copy |-> new,
                                      new |-> Switched(new, TRUE)]]
  BY DEF RequestAdds
<1>3. NewRow(on, good, 1) \in Short /\ NewRow(on, good, 1).here
  BY FreshShort DEF NewRow
<1>4. /\ row' = NewRow(on, good, 1)
      /\ req'[r].at = "written" /\ req'[r].kind = "add" /\ req'[r].new = Switched(row', TRUE)
      /\ \A q \in Requests \ {r} : req'[q] = req[q]
  BY <1>2 DEF Types
<1>5. req'[r].new.on = TRUE /\ req'[r].new.good = row'.good
  BY <1>3, <1>4, SwitchedIs
<1>6. Knows(r)'
  BY <1>1, <1>3, <1>4, <1>5 DEF Knows
<1> QED BY <1>1, <1>4, <1>6, OneGoesOn DEF Half

HealInv == Types /\ Memories /\ Beginning /\ Word /\ StampHasCycle /\ Scheduling

LEMMA SchedulingKept == HealInv /\ Next => Scheduling'
<1> SUFFICES ASSUME HealInv, Next, Clean PROVE InStep'
  BY DEF Scheduling, Clean, InStep
<1>1. Types /\ Memories /\ Beginning /\ InStep
  <2>1. marks \cap {"api", "stale", "crossed"} = {}
    BY MarksStay DEF Clean
  <2> QED BY <2>1 DEF HealInv, Scheduling, InStep
<1>2. ASSUME NEW r \in Requests, Request(r) PROVE InStep'
  <2>1. ASSUME NEW k \in Kinds, RequestReads(r, k) PROVE InStep'
    <3>1. UNCHANGED <<row, job, patrol>>
      BY <2>1 DEF RequestReads
    <3>2. /\ req'[r].at = "read" /\ req[r].at = "idle"
          /\ \A q \in Requests \ {r} : req'[q] = req[q]
      BY <1>1, <2>1 DEF RequestReads, Types
    <3> QED BY <1>1, <3>1, <3>2, NobodyWrites DEF Half
  <2>2. CASE RunsCleared(r)
    <3>1. UNCHANGED <<row, job, patrol>> /\ req[r].at = "idle"
      BY <2>2 DEF RunsCleared
    <3>2. req'[r].at = "done" /\ \A q \in Requests \ {r} : req'[q] = req[q]
      BY <1>1, <2>2, AnsweredIs DEF RunsCleared
    <3> QED BY <1>1, <3>1, <3>2, NobodyWrites DEF Half
  <2> QED BY <1>1, <1>2, <2>1, <2>2, WriteInStep, ScheduleInStep, UndoInStep, AddInStep
          DEF Request
<1>3. CASE Restart
  <2>1. UNCHANGED row /\ job' = (row.here /\ row.on /\ row.good) /\ patrol'.at = "asleep"
    BY <1>3 DEF Restart, Asleep
  <2>2. \A r \in Requests : req'[r].at \notin {"written", "undoing"} /\ ~Half(r)'
    BY <1>3, ReqRecs DEF Restart, Half
  <2> QED BY <2>1, <2>2 DEF InStep, Alone, Matches
<1> QED BY <1>1, <1>2, <1>3, ExecutionInStep, PatrolInStep DEF Next

(***************************************************************************)
(* Together.                                                               *)
(***************************************************************************)
LEMMA InitHolds == Init => HealInv
<1> SUFFICES ASSUME Init PROVE HealInv
  OBVIOUS
<1>1. Types
  BY InitTypes
<1>2. Memories
  BY DEF Init, Idle, Asleep, Memories
<1>3. /\ \A r \in Requests : req[r].at = "idle" /\ ~Half(r)
      /\ patrol.at = "asleep" /\ offByHand = FALSE
  BY DEF Init, Unused, Asleep, Half
<1>4. \/ /\ row.here /\ row.params.stamp = 0 /\ row.params.text = 1 /\ job /\ edits = 1
      \/ /\ ~row.here /\ ~row.on /\ row.params.stamp = 0 /\ ~job /\ edits = 0
  BY DEF Init, NewRow, Absent, Fresh
<1>5. Beginning
  BY <1>3, <1>4 DEF Beginning
<1>6. Word /\ StampHasCycle
  BY <1>3, <1>4 DEF Word, StampHasCycle
<1>7. Scheduling
  BY <1>3, <1>4 DEF Scheduling, Alone, Matches
<1> QED BY <1>1, <1>2, <1>5, <1>6, <1>7 DEF HealInv

LEMMA Stutters == HealInv /\ UNCHANGED vars => HealInv'
<1> SUFFICES ASSUME HealInv, UNCHANGED vars PROVE HealInv'
  OBVIOUS
<1>1. UNCHANGED <<row, job, history, exec, patrol, req, disables, cold, edits, offByHand,
                  runs, restarts, marks>>
  BY DEF vars
<1>2. Types'
  BY <1>1 DEF HealInv, Types, Active
<1>3. Memories' /\ Beginning' /\ Word' /\ StampHasCycle'
  BY <1>1 DEF HealInv, Memories, Beginning, Word, StampHasCycle
<1>4. Scheduling'
  BY <1>1 DEF HealInv, Scheduling, Alone, Half, Matches, Knows, Settled, HalfDone
<1> QED BY <1>2, <1>3, <1>4 DEF HealInv

(* The invariant holds: copies, marks and the scheduler are as it says.     *)
THEOREM Invariance == Spec => []HealInv
<1>1. Init => HealInv
  BY InitHolds
<1>2. HealInv /\ [Next]_vars => HealInv'
  <2>1. ASSUME HealInv, Next PROVE HealInv'
    <3>1. Types' /\ Memories' /\ Beginning'
      BY <2>1, TypesKept, MemoriesKept, BeginningKept DEF HealInv
    <3>2. Word' /\ StampHasCycle'
      BY <2>1, RowKept DEF HealInv, RowInv
    <3> QED BY <2>1, <3>1, <3>2, SchedulingKept DEF HealInv
  <2> QED BY <2>1, Stutters
<1> QED BY <1>1, <1>2, PTL DEF Spec

(* Every variable keeps its type: no more disables than executions, and no  *)
(* more cycles than are to be kept.                                         *)
THEOREM Typed == Spec => []TypeOK
<1>1. HealInv => TypeOK
  BY DEF HealInv, Types, TypeOK, ExecRec, PatrolRec, ReqRec, Marks, Verdicts, Short
<1> QED BY <1>1, Invariance, PTL

(* What an administrator said last is lost by a stale commit only, or by    *)
(* enabling the task through a route that leaves its mark.                  *)
THEOREM TheLastWordHolds == Spec => []LastWordHolds
<1>1. HealInv => LastWordHolds
  BY DEF HealInv, Word, LastWordHolds
<1> QED BY <1>1, Invariance, PTL

(* The mark of an automatic disable comes with its own open cycle.          *)
THEOREM StampsHaveCycles == Spec => []StampHasCycle
<1>1. HealInv => StampHasCycle
  BY DEF HealInv
<1> QED BY <1>1, Invariance, PTL

(* When nobody is about to tell the scheduler, it holds the jobs of the     *)
(* tasks that are enabled.                                                  *)
THEOREM JobsMatch == Spec => []JobsMatchRows
<1>1. HealInv => JobsMatchRows
  BY DEF HealInv, Scheduling, Matches, JobsMatchRows
<1> QED BY <1>1, Invariance, PTL
=============================================================================
