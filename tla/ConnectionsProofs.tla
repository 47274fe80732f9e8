-------------------------- MODULE ConnectionsProofs --------------------------
(***************************************************************************)
(* Safety of the connections for any connections, clients, admin requests  *)
(* and limit of attempts.  The inductive invariant ConnInv says what the   *)
(* tables hold while requests are half way through them.                   *)
(***************************************************************************)
EXTENDS Connections, FiniteSetTheorems, TLAPS

Stopping == {"stopping", "awaiting", "closing", "sweeping"}

\* Builds never outnumber the requests that have begun.
Issued  == {r \in Requests : req[r].at # "idle"}
Counted == builds <= Cardinality(Issued)

\* The adapters a manager may be given: forward ones, one for a bot.
Manageable(objs) ==
    /\ objs \subseteq Objs
    /\ \A o \in objs : BotOf(o) \notin Reverse
    /\ \A o, p \in objs : BotOf(o) = BotOf(p) => o = p

\* What a request q under way holds, h being what the run has seen.
Proper(q, h) ==
    /\ q.at \in Stopping => q.kind \in {"reconfigure", "shutdown"}
    /\ q.kind = "shutdown" => "down" \in h
    /\ q.at \in {"awaiting", "closing"} => q.bot \in Bots
    /\ q.at = "awaiting" /\ q.obj # NoObj => BotOf(q.obj) = q.bot
    /\ Manageable(q.new)

Sane == \A r \in Requests : Proper(req[r], history)

Reconfigures(r) == req[r].at \in Stopping /\ req[r].kind = "reconfigure"

\* The task table lags behind the adapters only while somebody stops tasks; BotClient's
\* only between the build and the adoption of a reconfiguration.
Books ==
    /\ Manageable(adapters)
    /\ \A b \in Bots : tasks[b] # NoLoop => tasks[b] = StartAll(adapters)[b]
    /\ \A b \in Bots : \A l \in Loops : tasks[b] = l => At(l) # "none"
    /\ (\A r \in Requests : req[r].at \notin Stopping) /\ "down" \notin history =>
         tasks = StartAll(adapters)
    /\ (\A r \in Requests : ~Reconfigures(r)) =>
         \A b \in Bots \ Reverse : registered[b] = ObjFor(b, adapters)

BotsOf(objs) == {BotOf(o) : o \in objs}

\* While requests take turns: the one that stops has the tasks that are left on its list,
\* it builds what is enabled, and a loop of the manager that is alive is in the table or
\* is being awaited.
OneByOne == \A r, s \in Requests : ~Inactive(r) /\ ~Inactive(s) => r = s

Lists == \A r \in Requests :
    /\ req[r].at \in Stopping => WithTask \subseteq req[r].todo
    /\ req[r].at = "sweeping" => req[r].todo = {}
    /\ req[r].at = "awaiting" =>
         \A l \in Loops : req[r].task = l => At(l) \in {"cancelled", "ended"}

Applied ==
    /\ \A r \in Requests : Reconfigures(r) => BotsOf(req[r].new) = enabled \ Reverse
    /\ (\A r \in Requests : ~Reconfigures(r)) => BotsOf(adapters) = enabled \ Reverse

NoStray == \A l \in Loops : At(l) \in Live /\ l[2] = 1 =>
    \/ tasks[BotOf(l[1])] = l
    \/ \E r \in Requests : req[r].at = "awaiting" /\ req[r].task = l

InTurn == "overlap" \notin history => OneByOne /\ Lists /\ Applied /\ NoStray

\* Sockets: which loop a socket belongs to, and what history excludes.
Sockets ==
    /\ \A o \in Objs : ws[o] \in Loops => ws[o][1] = o
    /\ \A l \in Loops : At(l) = "submitted" => l[2] > 1
    /\ "pool" \notin history => \A l \in Loops : l[2] > 1 => At(l) \in {"none", "submitted"}
    /\ "crossed" \notin history => \A c \in Clients : client[c] \notin Objs
    /\ {"pool", "crossed"} \cap history = {} =>
         \A l \in Loops : At(l) = "receiving" => ws[l[1]] = l

\* Why a bot is shown as connected.  A request that awaits a task of a bot without an
\* adapter has cancelled nothing, and is no reason.
Evidence == \A b \in Bots : status[b] = "connected" =>
    \/ Receiving(b) # {} \/ Serving(b) # {}
    \/ \E r \in Requests : req[r].at = "awaiting" /\ req[r].bot = b /\ req[r].obj # NoObj

ConnInv == TypeOK /\ Counted /\ Sane /\ Books /\ InTurn /\ Sockets /\ Evidence

USE ConnectionsAssumption

(***************************************************************************)
(* What a build gives, and where an adapter of a list is found.            *)
(***************************************************************************)
LEMMA ForwardOfBuilt ==
    ASSUME NEW bots \in SUBSET Bots, NEW k \in Builds
    PROVE  /\ Manageable(Forward(Built(bots, k)))
           /\ BotsOf(Forward(Built(bots, k))) = bots \ Reverse
           /\ Built(bots, k) \subseteq Objs
<1>1. Built(bots, k) \subseteq Objs
  BY DEF Built, Objs
<1>2. \A o \in Built(bots, k) : BotOf(o) \in bots /\ o = <<BotOf(o), k>>
  BY DEF Built, BotOf
<1>3. Manageable(Forward(Built(bots, k)))
  BY <1>1, <1>2 DEF Manageable, Forward
<1>4. ASSUME NEW b \in bots \ Reverse PROVE b \in BotsOf(Forward(Built(bots, k)))
  <2>1. <<b, k>> \in Forward(Built(bots, k)) /\ BotOf(<<b, k>>) = b
    BY DEF Built, Forward, BotOf
  <2> QED BY <2>1 DEF BotsOf
<1>5. BotsOf(Forward(Built(bots, k))) \subseteq bots \ Reverse
  BY <1>2 DEF BotsOf, Forward
<1> QED BY <1>1, <1>3, <1>4, <1>5

LEMMA ObjForFinds ==
    ASSUME NEW objs, Manageable(objs), NEW b \in Bots
    PROVE  /\ ObjFor(b, objs) # NoObj => ObjFor(b, objs) \in objs /\ BotOf(ObjFor(b, objs)) = b
           /\ \A o \in objs : BotOf(o) = b => ObjFor(b, objs) = o
           /\ \A o \in objs : o # NoObj
<1>1. \A o \in objs : o # NoObj
  BY DEF Manageable
<1>2. CASE \E o \in objs : BotOf(o) = b
  <2>1. ObjFor(b, objs) = CHOOSE o \in objs : BotOf(o) = b
    BY <1>2 DEF ObjFor
  <2>2. ObjFor(b, objs) \in objs /\ BotOf(ObjFor(b, objs)) = b
    BY <1>2, <2>1
  <2> QED BY <1>1, <2>2 DEF Manageable
<1>3. CASE ~\E o \in objs : BotOf(o) = b
  <2>1. ObjFor(b, objs) = NoObj
    BY <1>3 DEF ObjFor
  <2> QED BY <1>1, <1>3, <2>1
<1> QED BY <1>2, <1>3

LEMMA BuiltIsFound ==
    ASSUME NEW bots \in SUBSET Bots, NEW k \in Builds, NEW b \in bots
    PROVE  ObjFor(b, Built(bots, k)) = <<b, k>>
<1>1. <<b, k>> \in Built(bots, k) /\ BotOf(<<b, k>>) = b
  BY DEF Built, BotOf
<1>2. \A o \in Built(bots, k) : BotOf(o) = b => o = <<b, k>>
  BY DEF Built, BotOf
<1> QED BY <1>1, <1>2 DEF ObjFor

(***************************************************************************)
(* Types.  Builds are counted against the requests, which are finitely     *)
(* many, so that every object a request builds is one of Objs.             *)
(***************************************************************************)
ReqRec == [at : ReqAt, kind : Kinds, new : SUBSET Objs, todo : SUBSET Bots, sweep : SUBSET Objs,
           bot : Bots \cup {"none"}, task : Loops \cup {NoLoop}, obj : Objs \cup {NoObj}]

LEMMA IdleIsRec == Idle \in ReqRec
BY DEF Idle, ReqRec, ReqAt, Kinds

LEMMA Issues ==
    ASSUME Counted, NEW r \in Requests, req[r].at = "idle",
           req' \in [Requests -> ReqRec], req'[r].at # "idle",
           \A q \in Requests \ {r} : req'[q] = req[q], builds \in Builds
    PROVE  /\ builds + 1 <= Cardinality(Issued)'
           /\ builds + 1 \in Builds
<1>1. Issued \subseteq Requests /\ IsFiniteSet(Issued) /\ r \notin Issued
  BY FS_Subset DEF Issued
<1>2. Issued' = Issued \cup {r}
  BY DEF Issued
<1>3. Cardinality(Issued') = Cardinality(Issued) + 1
  BY <1>1, <1>2, FS_AddElement
<1>4. Issued' \subseteq Requests /\ Cardinality(Issued') <= Cardinality(Requests)
  BY <1>2, FS_Subset DEF Issued
<1>5. Cardinality(Issued) \in Nat /\ Cardinality(Requests) \in Nat
  BY <1>1, FS_CardinalityType
<1> QED BY <1>3, <1>4, <1>5 DEF Builds, Counted

LEMMA StepTypes ==
    ASSUME TypeOK, NEW r \in Requests, NEW rec \in ReqRec, Step(r, rec)
    PROVE  /\ req' \in [Requests -> ReqRec] /\ req'[r] = rec
           /\ \A q \in Requests \ {r} : req'[q] = req[q]
BY DEF TypeOK, Step, ReqRec

\* A request that had begun stays begun.
LEMMA CountStays ==
    ASSUME TypeOK, Counted, NEW r \in Requests, NEW rec \in ReqRec, Step(r, rec),
           req[r].at # "idle", rec.at # "idle", UNCHANGED builds
    PROVE  Counted'
<1>1. req'[r] = rec /\ \A q \in Requests \ {r} : req'[q] = req[q]
  BY StepTypes
<1>2. Issued' = Issued
  BY <1>1 DEF Issued
<1> QED BY <1>2 DEF Counted

LEMMA MarksTypes ==
    ASSUME TypeOK, NEW o \in Objs, StopMarks(o, loop)
    PROVE  /\ running' \in [Objs -> BOOLEAN]
           /\ status' \in [Bots -> Statuses] /\ BotOf(o) \in Bots
           /\ \A b \in Bots : status'[b] = IF b = BotOf(o) THEN "disconnected" ELSE status[b]
           /\ loop' \in [Loops -> [at : Points, gen : Nat, tries : 0..MaxAttempts]]
           /\ \A l \in Loops : At(l)' = IF l = ws[o] /\ At(l) = "receiving" THEN "dropped"
                                        ELSE At(l)
<1>1. BotOf(o) \in Bots
  BY DEF Objs, BotOf
<1>2. running' \in [Objs -> BOOLEAN]
  BY DEF TypeOK, StopMarks
<1>3. status' \in [Bots -> Statuses]
      /\ \A b \in Bots : status'[b] = IF b = BotOf(o) THEN "disconnected" ELSE status[b]
  BY <1>1 DEF TypeOK, StopMarks, Statuses
<1>4. loop' = [l \in Loops |-> IF l = ws[o] /\ loop[l].at = "receiving"
                                THEN [loop[l] EXCEPT !.at = "dropped"] ELSE loop[l]]
  BY DEF StopMarks
<1>5. \A l \in Loops : loop[l] \in [at : Points, gen : Nat, tries : 0..MaxAttempts]
  BY DEF TypeOK
<1>6. \A l \in Loops : [loop[l] EXCEPT !.at = "dropped"] \in
                         [at : Points, gen : Nat, tries : 0..MaxAttempts]
                      /\ [loop[l] EXCEPT !.at = "dropped"].at = "dropped"
  BY <1>5 DEF Points
<1>7. loop' \in [Loops -> [at : Points, gen : Nat, tries : 0..MaxAttempts]]
  BY <1>4, <1>5, <1>6
<1>8. \A l \in Loops : At(l)' = IF l = ws[o] /\ At(l) = "receiving" THEN "dropped" ELSE At(l)
  BY <1>4, <1>6 DEF At
<1> QED BY <1>1, <1>2, <1>3, <1>7, <1>8

LoopRec == [at : Points, gen : Nat, tries : 0..MaxAttempts]

\* Steps of a loop or of a client leave the requests alone.
LEMMA LoopTypes ==
    ASSUME ConnInv, halted' \subseteq Objs, NEW l \in Loops,
           LoopBegins(l) \/ Connected(l) \/ LoopFails(l) \/ LoopWakes(l) \/ LoopUnwinds(l)
    PROVE  TypeOK' /\ Counted'
<1> DEFINE o == l[1]
<1>1. o \in Objs /\ BotOf(o) \in Bots /\ loop[l] \in LoopRec /\ loop \in [Loops -> LoopRec]
  BY DEF Loops, Objs, BotOf, ConnInv, TypeOK, LoopRec
<1>2. UNCHANGED <<enabled, builds, adapters, tasks, registered, req, client>>
  BY DEF LoopBegins, Connected, LoopFails, LoopWakes, LoopUnwinds
<1> HIDE DEF LoopRec
<1>3. running' \in [Objs -> BOOLEAN] /\ generation' \in [Objs -> Nat]
  <2>1. running \in [Objs -> BOOLEAN] /\ generation \in [Objs -> Nat]
    BY DEF ConnInv, TypeOK
  <2>2. \/ running' = running \/ running' = [running EXCEPT ![o] = TRUE]
        \/ running' = [running EXCEPT ![o] = FALSE]
    BY DEF LoopBegins, Connected, LoopFails, LoopWakes, LoopUnwinds
  <2>3. generation' = generation \/ generation' = [generation EXCEPT ![o] = @ + 1]
    BY DEF LoopBegins, Connected, LoopFails, LoopWakes, LoopUnwinds
  <2>4. running' \in [Objs -> BOOLEAN]
    BY <2>1, <2>2
  <2>5. generation' \in [Objs -> Nat]
    BY <1>1, <2>1, <2>3
  <2> QED BY <2>4, <2>5
<1>4. ws' \in [Objs -> Loops \cup Clients \cup {NoSock}] /\ status' \in [Bots -> Statuses]
  <2>1. ws \in [Objs -> Loops \cup Clients \cup {NoSock}] /\ status \in [Bots -> Statuses]
    BY DEF ConnInv, TypeOK
  <2>2. ws' = ws \/ ws' = [ws EXCEPT ![o] = l]
    BY DEF LoopBegins, Connected, LoopFails, LoopWakes, LoopUnwinds
  <2>3. status' = status \/ \E x \in Statuses : status' = [status EXCEPT ![BotOf(o)] = x]
    BY DEF LoopBegins, Connected, LoopFails, LoopWakes, LoopUnwinds, Statuses
  <2>4. ws' \in [Objs -> Loops \cup Clients \cup {NoSock}]
    BY <2>1, <2>2
  <2>5. status' \in [Bots -> Statuses]
    BY <2>1, <2>3
  <2> QED BY <2>4, <2>5
<1>5. loop' \in [Loops -> LoopRec]
  <2>1. CASE LoopBegins(l)
    <3>1. generation'[o] \in Nat
      BY <1>1, <1>3
    <3>2. [at |-> "connecting", gen |-> generation'[o], tries |-> 0] \in LoopRec
      BY <3>1 DEF LoopRec, Points
    <3> QED BY <1>1, <2>1, <3>2 DEF LoopBegins
  <2>2. CASE Connected(l)
    <3>1. [loop[l] EXCEPT !.at = "receiving"] \in LoopRec
      BY <1>1 DEF LoopRec, Points
    <3> QED BY <1>1, <2>2, <3>1 DEF Connected
  <2>3. CASE LoopFails(l)
    <3>1. [loop[l] EXCEPT !.at = "ended"] \in LoopRec
      BY <1>1 DEF LoopRec, Points
    <3>2. \A n \in CountedTries(l) : MaxAttempts > 0 => n \in Nat
      BY <1>1 DEF CountedTries, LoopRec
    <3>3. ASSUME NEW n \in CountedTries(l), ~(MaxAttempts > 0 /\ GivesUp(n))
          PROVE  [loop[l] EXCEPT !.at = "backoff", !.tries = IF MaxAttempts = 0 THEN 0 ELSE n]
                   \in LoopRec
      <4>1. (IF MaxAttempts = 0 THEN 0 ELSE n) \in 0..MaxAttempts
        BY <3>2, <3>3 DEF GivesUp
      <4> QED BY <1>1, <4>1 DEF LoopRec, Points
    <3>4. PICK rec \in LoopRec : loop' = [loop EXCEPT ![l] = rec]
      <4>1. CASE loop' = [loop EXCEPT ![l].at = "ended"]
        BY <3>1, <4>1
      <4>2. CASE ~(loop' = [loop EXCEPT ![l].at = "ended"])
        <5>1. PICK n \in CountedTries(l) :
                /\ ~(MaxAttempts > 0 /\ GivesUp(n))
                /\ loop' = [loop EXCEPT ![l].at = "backoff",
                                        ![l].tries = IF MaxAttempts = 0 THEN 0 ELSE n]
          BY <2>3, <4>2 DEF LoopFails
        <5> QED BY <3>3, <5>1
      <4> QED BY <4>1, <4>2
    <3> QED BY <1>1, <3>4
  <2>4. CASE LoopWakes(l)
    <3>1. \A p \in {"connecting", "ended"} : [loop[l] EXCEPT !.at = p] \in LoopRec
      BY <1>1 DEF LoopRec, Points
    <3> QED BY <1>1, <2>4, <3>1 DEF LoopWakes
  <2>5. CASE LoopUnwinds(l)
    <3>1. [loop[l] EXCEPT !.at = "ended"] \in LoopRec
      BY <1>1 DEF LoopRec, Points
    <3> QED BY <1>1, <2>5, <3>1 DEF LoopUnwinds
  <2> QED BY <2>1, <2>2, <2>3, <2>4, <2>5
<1>6. history' \subseteq {"overlap", "pool", "crossed", "down"}
  BY DEF LoopBegins, Connected, LoopFails, LoopWakes, LoopUnwinds, ConnInv, TypeOK
<1>7. Counted'
  BY <1>2 DEF ConnInv, Counted, Issued
<1> QED BY <1>2, <1>3, <1>4, <1>5, <1>6, <1>7 DEF ConnInv, TypeOK, LoopRec

LEMMA ClientTypes ==
    ASSUME ConnInv, halted' \subseteq Objs, NEW c \in Clients, Dial(c) \/ HangUp(c)
    PROVE  TypeOK' /\ Counted'
<1>1. UNCHANGED <<enabled, builds, adapters, tasks, registered, running, generation, loop, req>>
  BY DEF Dial, HangUp
<1>2. Counted'
  BY <1>1 DEF ConnInv, Counted, Issued
<1>3. history' \subseteq {"overlap", "pool", "crossed", "down"}
  BY DEF Dial, HangUp, ConnInv, TypeOK
<1>4. \A o \in Objs : BotOf(o) \in Bots
  BY DEF Objs, BotOf
<1>5. /\ client' \in [Clients -> Objs \cup {NoObj, Refused}]
      /\ ws' \in [Objs -> Loops \cup Clients \cup {NoSock}]
      /\ status' \in [Bots -> Statuses]
  <2>1. CASE Dial(c)
    <3> DEFINE found == RoutedTo(PathOf[DialsFor[c]])
    <3>1. found \subseteq Objs
      BY DEF RoutedTo, ConnInv, TypeOK
    <3>2. CASE /\ client' = [client EXCEPT ![c] = Refused]
               /\ UNCHANGED <<ws, status, history>>
      BY <3>2 DEF ConnInv, TypeOK
    <3>3. ASSUME NEW o \in found, client' = [client EXCEPT ![c] = o],
                 ws' = [ws EXCEPT ![o] = c], status' = [status EXCEPT ![BotOf(o)] = "connected"]
          PROVE  /\ client' \in [Clients -> Objs \cup {NoObj, Refused}]
                 /\ ws' \in [Objs -> Loops \cup Clients \cup {NoSock}]
                 /\ status' \in [Bots -> Statuses]
      BY <1>4, <3>1, <3>3 DEF ConnInv, TypeOK, Statuses
    <3> QED BY <2>1, <3>2, <3>3 DEF Dial
  <2>2. CASE HangUp(c)
    BY <1>4, <2>2 DEF HangUp, ConnInv, TypeOK, Statuses
  <2> QED BY <2>1, <2>2
<1> QED BY <1>1, <1>2, <1>3, <1>5 DEF ConnInv, TypeOK

LEMMA BeginTypes ==
    ASSUME ConnInv, halted' \subseteq Objs, NEW r \in Requests,
           \/ \E b \in Bots : BeginReconfigure(r, b) \/ BeginReconnect(r, b)
           \/ BeginShutdown(r)
    PROVE  TypeOK' /\ Counted'
<1>1. WithTask \subseteq Bots
  BY DEF WithTask
<1>2. ASSUME NEW b \in Bots, BeginReconfigure(r, b) PROVE TypeOK' /\ Counted'
  <2> DEFINE new == Built(enabled', builds')
             rec == [Idle EXCEPT !.at = "stopping", !.kind = "reconfigure",
                                 !.new = Forward(new), !.todo = WithTask]
  <2>1. enabled' \subseteq Bots /\ builds' = builds + 1 /\ builds \in Builds
        /\ req[r].at = "idle" /\ Step(r, rec)
    BY <1>2 DEF BeginReconfigure, Toggled, ConnInv, TypeOK
  <2>2. rec.at = "stopping" /\ req' = [req EXCEPT ![r] = rec]
    BY <2>1 DEF Idle, Step
  <2>3. req'[r].at # "idle" /\ \A q \in Requests \ {r} : req'[q] = req[q]
    BY <2>2 DEF ConnInv, TypeOK
  <2>4. Issued' = Issued \cup {r} /\ r \notin Issued /\ Issued \subseteq Requests
    BY <2>1, <2>3 DEF Issued
  <2>5. /\ Cardinality(Issued') = Cardinality(Issued) + 1
        /\ Cardinality(Issued') <= Cardinality(Requests)
        /\ Cardinality(Issued) \in Nat /\ Cardinality(Requests) \in Nat
    <3>1. IsFiniteSet(Issued) /\ Issued' \subseteq Requests
      BY <2>4, FS_Subset
    <3> QED BY <2>4, <3>1, FS_Subset, FS_AddElement, FS_CardinalityType
  <2>6. builds' <= Cardinality(Issued') /\ builds' \in Builds
    BY <2>1, <2>5 DEF ConnInv, Counted, Builds
  <2>7. new \subseteq Objs
    BY <2>1, <2>6, ForwardOfBuilt
  <2>8. Forward(new) \subseteq Objs
    BY <2>7 DEF Forward
  <2>9. rec \in ReqRec
    BY <1>1, <2>8 DEF Idle, ReqRec, ReqAt, Kinds
  <2>10. req' \in [Requests -> ReqRec]
    BY <2>2, <2>9 DEF ConnInv, TypeOK, ReqRec
  <2>11. registered' \in [Bots -> Objs \cup {NoObj}]
    <3>1. registered' = [x \in Bots |-> IF x \in enabled' THEN ObjFor(x, new) ELSE registered[x]]
      BY <1>2 DEF BeginReconfigure
    <3>2. \A x \in enabled' : ObjFor(x, new) \in Objs
      <4>1. \A x \in enabled' : ObjFor(x, new) = <<x, builds'>> /\ <<x, builds'>> \in new
        BY <2>1, <2>6, BuiltIsFound DEF Built
      <4> QED BY <2>7, <4>1
    <3> HIDE DEF new
    <3> QED BY <3>1, <3>2 DEF ConnInv, TypeOK
  <2>12. status' \in [Bots -> Statuses]
    BY <1>2 DEF BeginReconfigure, ConnInv, TypeOK, Statuses
  <2>13. history' \subseteq {"overlap", "pool", "crossed", "down"}
    BY <1>2 DEF BeginReconfigure, Overlapping, ConnInv, TypeOK
  <2>14. UNCHANGED <<adapters, tasks, running, generation, ws, loop, client>>
    BY <1>2 DEF BeginReconfigure
  <2>15. Counted'
    BY <2>6 DEF Counted
  <2> QED BY <2>1, <2>6, <2>10, <2>11, <2>12, <2>13, <2>14, <2>15 DEF ConnInv, TypeOK, ReqRec
<1>3. ASSUME NEW b \in Bots, BeginReconnect(r, b) PROVE TypeOK' /\ Counted'
  <2> DEFINE o   == ObjFor(b, adapters)
             rec == [Idle EXCEPT !.at = "resubmit", !.kind = "reconnect", !.bot = b, !.obj = o]
  <2>1. o \in Objs
    BY <1>3, ObjForFinds DEF BeginReconnect, ConnInv, Books, Manageable
  <2>2. rec \in ReqRec /\ rec.at # "idle"
    BY <2>1 DEF Idle, ReqRec, ReqAt, Kinds
  <2>3. Step(r, rec) /\ req[r].at = "idle" /\ UNCHANGED builds
    BY <1>3 DEF BeginReconnect
  <2>4. req' \in [Requests -> ReqRec] /\ req'[r] = rec
        /\ \A q \in Requests \ {r} : req'[q] = req[q]
    BY <2>2, <2>3, StepTypes DEF ConnInv
  <2>5. builds + 1 <= Cardinality(Issued)' /\ builds \in Builds
    <3>1. builds \in Builds /\ Counted
      BY DEF ConnInv, TypeOK
    <3> QED BY <2>2, <2>3, <2>4, <3>1, Issues
  <2>6. Counted'
    <3>1. Issued' \subseteq Requests /\ Cardinality(Issued') \in Nat
      BY FS_Subset, FS_CardinalityType DEF Issued
    <3> QED BY <2>3, <2>5, <3>1 DEF Counted, Builds
  <2>7. running' \in [Objs -> BOOLEAN] /\ status' \in [Bots -> Statuses]
        /\ loop' \in [Loops -> [at : Points, gen : Nat, tries : 0..MaxAttempts]]
    BY <1>3, <2>1, MarksTypes DEF BeginReconnect, ConnInv
  <2>8. history' \subseteq {"overlap", "pool", "crossed", "down"}
    BY <1>3 DEF BeginReconnect, Overlapping, ConnInv, TypeOK
  <2>9. UNCHANGED <<enabled, builds, adapters, tasks, registered, generation, ws, client>>
    BY <1>3 DEF BeginReconnect
  <2> QED BY <2>4, <2>6, <2>7, <2>8, <2>9 DEF ConnInv, TypeOK, ReqRec
<1>4. CASE BeginShutdown(r)
  <2> DEFINE rec == [Idle EXCEPT !.at = "stopping", !.kind = "shutdown", !.todo = WithTask]
  <2>1. rec \in ReqRec /\ rec.at # "idle"
    BY <1>1 DEF Idle, ReqRec, ReqAt, Kinds
  <2>2. Step(r, rec) /\ req[r].at = "idle"
        /\ UNCHANGED <<enabled, builds, adapters, tasks, registered, status, running,
                       generation, ws, loop, client>>
    BY <1>4 DEF BeginShutdown
  <2>3. req' \in [Requests -> ReqRec] /\ req'[r] = rec
        /\ \A q \in Requests \ {r} : req'[q] = req[q]
    BY <2>1, <2>2, StepTypes DEF ConnInv
  <2>4. builds + 1 <= Cardinality(Issued)' /\ builds \in Builds
    <3>1. builds \in Builds /\ Counted
      BY DEF ConnInv, TypeOK
    <3> QED BY <2>1, <2>2, <2>3, <3>1, Issues
  <2>5. Counted'
    <3>1. Issued' \subseteq Requests /\ Cardinality(Issued') \in Nat
      BY FS_Subset, FS_CardinalityType DEF Issued
    <3> QED BY <2>2, <2>4, <3>1 DEF Counted, Builds
  <2>6. history' \subseteq {"overlap", "pool", "crossed", "down"}
    BY <1>4 DEF BeginShutdown, ConnInv, TypeOK
  <2> QED BY <2>2, <2>3, <2>5, <2>6 DEF ConnInv, TypeOK, ReqRec
<1> QED BY <1>2, <1>3, <1>4

\* What the steps of a request do to its own record.
LEMMA RequestTypes ==
    ASSUME ConnInv, halted' \subseteq Objs, NEW r \in Requests, RequestStep(r)
    PROVE  TypeOK' /\ Counted'
<1>1. req \in [Requests -> ReqRec] /\ req[r] \in ReqRec /\ req[r].at # "idle"
      /\ adapters \subseteq Objs /\ tasks \in [Bots -> Loops \cup {NoLoop}]
      /\ Manageable(adapters)
  BY DEF ConnInv, TypeOK, ReqRec, Books, RequestStep, StopNext, TaskAwaited, Closed, BeginSweep,
         SweepNext, Adopt, AllStopped, Resubmit, Swept
<1>2. UNCHANGED <<enabled, builds, generation, ws, client, history>>
  BY DEF RequestStep, StopNext, TaskAwaited, Closed, BeginSweep, SweepNext, Adopt, AllStopped,
         Resubmit
<1>3. ASSUME NEW rec \in ReqRec, rec.at # "idle", Step(r, rec) 
      PROVE  Counted' /\ req' \in [Requests -> ReqRec]
  BY <1>1, <1>2, <1>3, CountStays, StepTypes DEF ConnInv
<1>4. \A b \in Bots : ObjFor(b, adapters) \in Objs \cup {NoObj}
  BY <1>1, ObjForFinds
<1>5. loop \in [Loops -> LoopRec] /\ status \in [Bots -> Statuses]
      /\ running \in [Objs -> BOOLEAN] /\ registered \in [Bots -> Objs \cup {NoObj}]
  BY DEF ConnInv, TypeOK, LoopRec
<1> DEFINE Kept == /\ adapters' \subseteq Objs /\ tasks' \in [Bots -> Loops \cup {NoLoop}]
                   /\ registered' \in [Bots -> Objs \cup {NoObj}]
                   /\ status' \in [Bots -> Statuses] /\ running' \in [Objs -> BOOLEAN]
                   /\ loop' \in [Loops -> LoopRec]
<1>6. CASE StopNext(r)
  <2>1. PICK b \in req[r].todo :
          /\ Step(r, [req[r] EXCEPT !.at = "awaiting", !.todo = @ \ {b}, !.bot = b,
                                    !.task = tasks[b], !.obj = ObjFor(b, adapters)])
          /\ loop' = [l \in Loops |-> IF l = tasks[b] /\ At(l) \in Live
                                      THEN [loop[l] EXCEPT !.at = "cancelled"] ELSE loop[l]]
          /\ tasks' = [tasks EXCEPT ![b] = NoLoop]
    BY <1>6 DEF StopNext
  <2>2. b \in Bots
    BY <1>1 DEF ReqRec
  <2> DEFINE rec == [req[r] EXCEPT !.at = "awaiting", !.todo = @ \ {b}, !.bot = b,
                                   !.task = tasks[b], !.obj = ObjFor(b, adapters)]
  <2>3. rec \in ReqRec /\ rec.at = "awaiting"
    BY <1>1, <1>4, <2>2 DEF ReqRec, ReqAt
  <2>4. \A l \in Loops : [loop[l] EXCEPT !.at = "cancelled"] \in LoopRec
    BY <1>5 DEF LoopRec, Points
  <2>5. Kept
    BY <1>1, <1>5, <1>6, <2>1, <2>4 DEF StopNext
  <2>6. Counted' /\ req' \in [Requests -> ReqRec]
    <3> HIDE DEF rec
    <3> QED BY <1>3, <2>1, <2>3 DEF rec
  <2> QED BY <1>2, <2>5, <2>6 DEF ConnInv, TypeOK, ReqRec, LoopRec
<1>7. CASE TaskAwaited(r) \/ Closed(r) \/ BeginSweep(r) \/ AllStopped(r)
  <2>1. ASSUME NEW p \in ReqAt PROVE [req[r] EXCEPT !.at = p] \in ReqRec
    BY <1>1 DEF ReqRec
  <2>2. Idle \in ReqRec /\ [Idle EXCEPT !.at = "done"] \in ReqRec
    BY DEF Idle, ReqRec, ReqAt, Kinds
  <2>3. [req[r] EXCEPT !.at = "sweeping", !.sweep = adapters] \in ReqRec
    BY <1>1 DEF ReqRec, ReqAt
  <2>4. PICK rec \in ReqRec : rec.at # "idle" /\ Step(r, rec)
    <3>1. CASE TaskAwaited(r) \/ Closed(r)
      <4>1. PICK p \in {"closing", "stopping"} : Step(r, [req[r] EXCEPT !.at = p])
        BY <3>1 DEF TaskAwaited, Closed
      <4>2. p \in ReqAt /\ p # "idle"
        BY DEF ReqAt
      <4>3. [req[r] EXCEPT !.at = p].at = p
        BY <1>1 DEF ReqRec
      <4> QED BY <2>1, <4>1, <4>2, <4>3
    <3>2. CASE BeginSweep(r)
      BY <1>1, <2>3, <3>2 DEF BeginSweep, ReqRec
    <3>3. CASE AllStopped(r)
      BY <2>2, <3>3 DEF AllStopped, Idle
    <3> QED BY <1>7, <3>1, <3>2, <3>3
  <2>5. Counted' /\ req' \in [Requests -> ReqRec]
    BY <1>3, <2>4
  <2>6. Kept
    <3>1. CASE TaskAwaited(r)
      <4>1. UNCHANGED <<adapters, tasks, registered>>
        BY <3>1 DEF TaskAwaited
      <4>2. CASE req[r].obj = NoObj
        BY <1>1, <1>5, <3>1, <4>1, <4>2 DEF TaskAwaited
      <4>3. CASE req[r].obj # NoObj
        <5>1. req[r].obj \in Objs /\ StopMarks(req[r].obj, loop)
          BY <1>1, <3>1, <4>3 DEF TaskAwaited, ReqRec
        <5> QED BY <1>1, <1>5, <4>1, <5>1, MarksTypes DEF ConnInv, LoopRec
      <4> QED BY <4>2, <4>3
    <3>2. CASE Closed(r)
      BY <1>1, <1>5, <3>2 DEF Closed, Statuses
    <3>3. CASE BeginSweep(r) \/ AllStopped(r)
      BY <1>1, <1>5, <3>3 DEF BeginSweep, AllStopped
    <3> QED BY <1>7, <3>1, <3>2, <3>3
  <2> QED BY <1>2, <2>5, <2>6 DEF ConnInv, TypeOK, ReqRec, LoopRec
<1>8. CASE SweepNext(r)
  <2>1. PICK o \in req[r].sweep : /\ StopMarks(o, loop)
                                  /\ Step(r, [req[r] EXCEPT !.sweep = @ \ {o}])
    BY <1>8 DEF SweepNext
  <2>2. o \in Objs
    BY <1>1 DEF ReqRec
  <2>3. [req[r] EXCEPT !.sweep = @ \ {o}] \in ReqRec
        /\ [req[r] EXCEPT !.sweep = @ \ {o}].at # "idle"
    BY <1>1 DEF ReqRec
  <2>4. Counted' /\ req' \in [Requests -> ReqRec]
    BY <1>3, <2>1, <2>3
  <2>5. UNCHANGED <<adapters, tasks, registered>>
    BY <1>8 DEF SweepNext
  <2>6. Kept
    BY <1>1, <1>5, <2>1, <2>2, <2>5, MarksTypes DEF ConnInv, LoopRec
  <2> QED BY <1>2, <2>4, <2>6 DEF ConnInv, TypeOK, ReqRec, LoopRec
<1>9. CASE Adopt(r)
  <2> DEFINE new == req[r].new
  <2>1. new \subseteq Objs /\ Manageable(new)
    BY <1>1 DEF ReqRec, ConnInv, Sane, Proper
  <2>2. /\ adapters' = new
        /\ registered' = Adopted(new)
        /\ status' = [b \in Bots |-> IF ObjFor(b, new) # NoObj THEN "registered"
                                     ELSE IF registered[b] # NoObj THEN "absent"
                                     ELSE status[b]]
        /\ tasks' = StartAll(new)
        /\ loop' = [l \in Loops |-> IF l \in StartedBy(new)
                                    THEN [Blank EXCEPT !.at = "created"] ELSE loop[l]]
        /\ Step(r, [Idle EXCEPT !.at = "done"])
        /\ UNCHANGED running
    BY <1>9 DEF Adopt
  <2> HIDE DEF new
  <2>3. \A b \in Bots : ObjFor(b, new) \in Objs \cup {NoObj}
    BY <2>1, ObjForFinds
  <2>4. \A b \in Bots : ObjFor(b, new) # NoObj => <<ObjFor(b, new), 1>> \in Loops
    <3>1. 1 \in Starts
      BY FS_CardinalityType DEF Starts
    <3> QED BY <2>3, <3>1 DEF Loops
  <2>5. tasks' \in [Bots -> Loops \cup {NoLoop}]
    BY <2>2, <2>4 DEF StartAll
  <2>6. registered' \in [Bots -> Objs \cup {NoObj}]
    BY <2>2, <2>3 DEF Adopted
  <2>7. status' \in [Bots -> Statuses]
    BY <1>5, <2>2 DEF Statuses
  <2>8. loop' \in [Loops -> LoopRec]
    <3>1. [Blank EXCEPT !.at = "created"] \in LoopRec
      BY DEF Blank, LoopRec, Points
    <3> QED BY <1>5, <2>2, <3>1
  <2>9. Idle \in ReqRec /\ [Idle EXCEPT !.at = "done"] \in ReqRec /\ [Idle EXCEPT !.at = "done"].at # "idle"
    BY DEF Idle, ReqRec, ReqAt, Kinds
  <2>10. Counted' /\ req' \in [Requests -> ReqRec]
    BY <1>3, <2>2, <2>9
  <2>11. Kept
    BY <1>5, <2>1, <2>2, <2>5, <2>6, <2>7, <2>8
  <2> QED BY <1>2, <2>10, <2>11 DEF ConnInv, TypeOK, ReqRec, LoopRec
<1>10. CASE Resubmit(r)
  <2>1. UNCHANGED <<adapters, tasks, registered, status, running>>
        /\ Step(r, [Idle EXCEPT !.at = "done"])
    BY <1>10 DEF Resubmit
  <2>2. [Idle EXCEPT !.at = "done"] \in ReqRec /\ [Idle EXCEPT !.at = "done"].at # "idle"
    BY DEF Idle, ReqRec, ReqAt, Kinds
  <2>3. loop' = loop \/ \E x : loop' = [loop EXCEPT ![x].at = "submitted"]
    BY <1>10 DEF Resubmit
  <2>4. loop' \in [Loops -> LoopRec]
    <3>1. ASSUME NEW x, loop' = [loop EXCEPT ![x].at = "submitted"] PROVE loop' \in [Loops -> LoopRec]
      <4>1. x \in Loops => [loop[x] EXCEPT !.at = "submitted"] \in LoopRec
        BY <1>5 DEF LoopRec, Points
      <4> QED BY <1>5, <3>1, <4>1
    <3> QED BY <1>5, <2>3, <3>1
  <2>5. Counted' /\ req' \in [Requests -> ReqRec]
    BY <1>3, <2>1, <2>2
  <2>6. Kept
    BY <1>1, <1>5, <2>1, <2>4
  <2> QED BY <1>2, <2>5, <2>6 DEF ConnInv, TypeOK, ReqRec, LoopRec
<1> QED BY <1>6, <1>7, <1>8, <1>9, <1>10 DEF RequestStep

LEMMA HaltedTypes ==
    ASSUME ConnInv, Next
    PROVE  halted' \subseteq Objs
<1>1. halted \subseteq Objs
  BY DEF ConnInv, TypeOK
<1>2. ASSUME NEW r \in Requests, NEW b \in Bots, BeginReconnect(r, b) PROVE halted' \subseteq Objs
  <2>1. ObjFor(b, adapters) \in Objs
    BY <1>2, ObjForFinds DEF BeginReconnect, ConnInv, Books, Manageable
  <2> QED BY <1>1, <1>2, <2>1 DEF BeginReconnect
<1>3. ASSUME NEW l \in Loops, LoopFails(l) PROVE halted' \subseteq Objs
  <2>1. l[1] \in Objs
    BY DEF Loops
  <2> QED BY <1>1, <1>3, <2>1 DEF LoopFails
<1> QED BY <1>1, <1>2, <1>3
        DEF Next, RequestStep, BeginReconfigure, BeginShutdown, StopNext, TaskAwaited, Closed,
            BeginSweep, SweepNext, Adopt, AllStopped, Resubmit, LoopBegins, Connected,
            LoopWakes, LoopUnwinds, Dial, HangUp

LEMMA TypesKept ==
    ASSUME ConnInv, Next
    PROVE  TypeOK' /\ Counted'
BY HaltedTypes, LoopTypes, ClientTypes, BeginTypes, RequestTypes DEF Next

(***************************************************************************)
(* What each step does, field by field.                                    *)
(***************************************************************************)
Others(r) == \A q \in Requests \ {r} : req'[q] = req[q]

\* What OneBotAdapter.stop() does to loops and statuses before its first await.
Drops(o) ==
    /\ \A l \in Loops : \/ At(l)' = At(l)
                        \/ l[1] = o /\ At(l) = "receiving" /\ At(l)' = "dropped"
    /\ \A b \in Bots : status'[b] = IF b = BotOf(o) THEN "disconnected" ELSE status[b]

LEMMA MarksDrop ==
    ASSUME ConnInv, NEW o \in Objs, StopMarks(o, loop)
    PROVE  Drops(o)
BY MarksTypes DEF Drops, ConnInv, Sockets

LEMMA StopNextDoes ==
    ASSUME ConnInv, NEW r \in Requests, StopNext(r)
    PROVE  \E b \in req[r].todo :
             /\ b \in Bots /\ req[r].at = "stopping" /\ req'[r].at = "awaiting"
             /\ req'[r].kind = req[r].kind /\ req'[r].new = req[r].new
             /\ req'[r].todo = req[r].todo \ {b} /\ req'[r].bot = b
             /\ req'[r].task = tasks[b] /\ req'[r].obj = ObjFor(b, adapters)
             /\ Others(r)
             /\ \A l \in Loops : At(l)' = IF l = tasks[b] /\ At(l) \in Live THEN "cancelled"
                                                                         ELSE At(l)
             /\ tasks'[b] = NoLoop /\ \A x \in Bots \ {b} : tasks'[x] = tasks[x]
             /\ UNCHANGED <<enabled, adapters, registered, status, ws, client, history>>
<1>1. PICK b \in req[r].todo :
        /\ Step(r, [req[r] EXCEPT !.at = "awaiting", !.todo = @ \ {b}, !.bot = b,
                                  !.task = tasks[b], !.obj = ObjFor(b, adapters)])
        /\ loop' = [l \in Loops |-> IF l = tasks[b] /\ At(l) \in Live
                                    THEN [loop[l] EXCEPT !.at = "cancelled"] ELSE loop[l]]
        /\ tasks' = [tasks EXCEPT ![b] = NoLoop]
        /\ req[r].at = "stopping"
        /\ UNCHANGED <<enabled, adapters, registered, status, ws, client, history>>
  BY DEF StopNext
<1>2. req \in [Requests -> ReqRec] /\ req[r] \in ReqRec /\ b \in Bots
      /\ loop \in [Loops -> LoopRec] /\ tasks \in [Bots -> Loops \cup {NoLoop}]
  BY DEF ConnInv, TypeOK, ReqRec, LoopRec
<1> DEFINE rec == [req[r] EXCEPT !.at = "awaiting", !.todo = @ \ {b}, !.bot = b,
                                 !.task = tasks[b], !.obj = ObjFor(b, adapters)]
<1>3. /\ rec.at = "awaiting" /\ rec.kind = req[r].kind /\ rec.new = req[r].new
      /\ rec.todo = req[r].todo \ {b} /\ rec.bot = b /\ rec.task = tasks[b]
      /\ rec.obj = ObjFor(b, adapters)
  BY <1>2 DEF ReqRec
<1>4. req'[r] = rec /\ Others(r)
  <2> HIDE DEF rec
  <2> QED BY <1>1, <1>2 DEF rec, Step, Others
<1>5. \A l \in Loops : At(l)' = IF l = tasks[b] /\ At(l) \in Live THEN "cancelled" ELSE At(l)
  <2>1. \A l \in Loops : [loop[l] EXCEPT !.at = "cancelled"].at = "cancelled"
    BY <1>2 DEF LoopRec
  <2> QED BY <1>1, <2>1 DEF At
<1>6. tasks'[b] = NoLoop /\ \A x \in Bots \ {b} : tasks'[x] = tasks[x]
  BY <1>1, <1>2
<1> HIDE DEF rec
<1> QED BY <1>1, <1>2, <1>3, <1>4, <1>5, <1>6

LEMMA AwaitedDoes ==
    ASSUME ConnInv, NEW r \in Requests, TaskAwaited(r)
    PROVE  /\ req[r].at = "awaiting" /\ req'[r].at = "closing"
           /\ req[r].task # NoLoop => At(req[r].task) = "ended"
           /\ req'[r].kind = req[r].kind /\ req'[r].new = req[r].new
           /\ req'[r].todo = req[r].todo /\ req'[r].bot = req[r].bot
           /\ Others(r)
           /\ IF req[r].obj = NoObj THEN UNCHANGED <<status, loop>>
                                    ELSE req[r].obj \in Objs /\ Drops(req[r].obj)
           /\ UNCHANGED <<enabled, adapters, tasks, registered, ws, client, history>>
<1>1. req \in [Requests -> ReqRec] /\ req[r] \in ReqRec
  BY DEF ConnInv, TypeOK, ReqRec
<1>2. req' = [req EXCEPT ![r] = [req[r] EXCEPT !.at = "closing"]]
  BY DEF TaskAwaited, Step
<1>3. Others(r) /\ req'[r] = [req[r] EXCEPT !.at = "closing"]
  BY <1>1, <1>2 DEF Others
<1>4. /\ req'[r].at = "closing" /\ req'[r].kind = req[r].kind /\ req'[r].new = req[r].new
      /\ req'[r].todo = req[r].todo /\ req'[r].bot = req[r].bot
  BY <1>1, <1>3 DEF ReqRec
<1>5. req[r].obj # NoObj => req[r].obj \in Objs /\ Drops(req[r].obj)
  BY <1>1, MarksDrop DEF TaskAwaited, ReqRec
<1>6. req[r].obj = NoObj => UNCHANGED <<status, loop>>
  BY DEF TaskAwaited
<1> QED BY <1>3, <1>4, <1>5, <1>6 DEF TaskAwaited

LEMMA ClosedDoes ==
    ASSUME ConnInv, NEW r \in Requests, Closed(r)
    PROVE  /\ req[r].at = "closing" /\ req'[r].at = "stopping"
           /\ req'[r].kind = req[r].kind /\ req'[r].new = req[r].new
           /\ req'[r].todo = req[r].todo
           /\ Others(r)
           /\ \A b \in Bots : status'[b] = IF b = req[r].bot THEN "disconnected" ELSE status[b]
           /\ UNCHANGED <<enabled, adapters, tasks, registered, ws, loop, client, history>>
<1>1. req \in [Requests -> ReqRec] /\ req[r] \in ReqRec /\ status \in [Bots -> Statuses]
  BY DEF ConnInv, TypeOK, ReqRec
<1>2. req' = [req EXCEPT ![r] = [req[r] EXCEPT !.at = "stopping"]]
  BY DEF Closed, Step
<1>3. Others(r) /\ req'[r] = [req[r] EXCEPT !.at = "stopping"]
  BY <1>1, <1>2 DEF Others
<1>4. /\ req'[r].at = "stopping" /\ req'[r].kind = req[r].kind /\ req'[r].new = req[r].new
      /\ req'[r].todo = req[r].todo
  BY <1>1, <1>3 DEF ReqRec
<1> QED BY <1>1, <1>3, <1>4 DEF Closed

LEMMA SweepDoes ==
    ASSUME ConnInv, NEW r \in Requests, BeginSweep(r) \/ SweepNext(r)
    PROVE  /\ req'[r].at = "sweeping"
           /\ \/ req[r].at = "stopping" /\ req[r].todo = {} /\ UNCHANGED <<status, loop>>
              \/ req[r].at = "sweeping" /\ \E o \in Objs : Drops(o)
           /\ req'[r].kind = req[r].kind /\ req'[r].new = req[r].new
           /\ req'[r].todo = req[r].todo
           /\ Others(r)
           /\ UNCHANGED <<enabled, adapters, tasks, registered, ws, client, history>>
<1>1. req \in [Requests -> ReqRec] /\ req[r] \in ReqRec
  BY DEF ConnInv, TypeOK, ReqRec
<1>2. CASE BeginSweep(r)
  <2>1. Others(r) /\ req'[r] = [req[r] EXCEPT !.at = "sweeping", !.sweep = adapters]
    BY <1>1, <1>2 DEF Others, BeginSweep, Step
  <2>2. /\ req'[r].at = "sweeping" /\ req'[r].kind = req[r].kind /\ req'[r].new = req[r].new
        /\ req'[r].todo = req[r].todo
    BY <1>1, <2>1 DEF ReqRec
  <2> QED BY <1>2, <2>1, <2>2 DEF BeginSweep
<1>3. CASE SweepNext(r)
  <2>1. PICK o \in req[r].sweep : /\ StopMarks(o, loop)
                                  /\ Step(r, [req[r] EXCEPT !.sweep = @ \ {o}])
    BY <1>3 DEF SweepNext
  <2>2. Others(r) /\ req'[r] = [req[r] EXCEPT !.sweep = @ \ {o}]
    BY <1>1, <2>1 DEF Others, Step
  <2>3. /\ req'[r].at = req[r].at /\ req'[r].kind = req[r].kind /\ req'[r].new = req[r].new
        /\ req'[r].todo = req[r].todo
    BY <1>1, <2>2 DEF ReqRec
  <2>4. o \in Objs /\ Drops(o)
    BY <1>1, <2>1, MarksDrop DEF ReqRec
  <2> QED BY <1>3, <2>2, <2>3, <2>4 DEF SweepNext
<1> QED BY <1>2, <1>3

LEMMA AdoptDoes ==
    ASSUME ConnInv, NEW r \in Requests, Adopt(r)
    PROVE  /\ req[r].at = "sweeping" /\ req[r].kind = "reconfigure"
           /\ req'[r].at = "done" /\ req'[r].kind = "none" /\ req'[r].new = {}
           /\ Others(r)
           /\ adapters' = req[r].new /\ Manageable(req[r].new)
           /\ registered' = Adopted(req[r].new) /\ tasks' = StartAll(req[r].new)
           /\ \A l \in Loops : At(l)' = IF l \in StartedBy(req[r].new) THEN "created" ELSE At(l)
           /\ \A b \in Bots : status'[b] = "connected" =>
                 status[b] = "connected" /\ ObjFor(b, req[r].new) = NoObj
           /\ UNCHANGED <<enabled, ws, client, history>>
<1>1. req \in [Requests -> ReqRec] /\ req[r] \in ReqRec /\ loop \in [Loops -> LoopRec]
      /\ Manageable(req[r].new)
  BY DEF ConnInv, TypeOK, ReqRec, LoopRec, Sane, Proper
<1>2. Others(r) /\ req'[r] = [Idle EXCEPT !.at = "done"]
  BY <1>1 DEF Others, Adopt, Step
<1>3. req'[r].at = "done" /\ req'[r].kind = "none" /\ req'[r].new = {}
  BY <1>2 DEF Idle
<1>4. \A l \in Loops : At(l)' = IF l \in StartedBy(req[r].new) THEN "created" ELSE At(l)
  <2>1. [Blank EXCEPT !.at = "created"].at = "created"
    BY DEF Blank
  <2>2. loop' = [l \in Loops |-> IF l \in StartedBy(req[r].new)
                                THEN [Blank EXCEPT !.at = "created"] ELSE loop[l]]
    BY DEF Adopt
  <2> QED BY <2>1, <2>2 DEF At
<1>5. \A b \in Bots : status'[b] = "connected" =>
         status[b] = "connected" /\ ObjFor(b, req[r].new) = NoObj
  BY DEF Adopt
<1> QED BY <1>1, <1>2, <1>3, <1>4, <1>5 DEF Adopt, Swept

LEMMA AllStoppedDoes ==
    ASSUME ConnInv, NEW r \in Requests, AllStopped(r)
    PROVE  /\ req[r].at = "sweeping" /\ req[r].kind = "shutdown"
           /\ req'[r].at = "done" /\ req'[r].kind = "none" /\ req'[r].new = {}
           /\ Others(r)
           /\ UNCHANGED <<enabled, adapters, tasks, registered, status, ws, loop, client, history>>
<1>1. req \in [Requests -> ReqRec]
  BY DEF ConnInv, TypeOK, ReqRec
<1>2. Others(r) /\ req'[r] = [Idle EXCEPT !.at = "done"]
  BY <1>1 DEF Others, AllStopped, Step
<1>3. req'[r].at = "done" /\ req'[r].kind = "none" /\ req'[r].new = {}
  BY <1>2 DEF Idle
<1> QED BY <1>2, <1>3 DEF AllStopped, Swept

LEMMA ResubmitDoes ==
    ASSUME ConnInv, NEW r \in Requests, Resubmit(r)
    PROVE  /\ req[r].at = "resubmit"
           /\ req'[r].at = "done" /\ req'[r].kind = "none" /\ req'[r].new = {}
           /\ Others(r)
           /\ \A l \in Loops : \/ At(l)' = At(l)
                               \/ l[2] > 1 /\ At(l) = "none" /\ At(l)' = "submitted"
           /\ UNCHANGED <<enabled, adapters, tasks, registered, status, ws, client, history>>
<1>1. req \in [Requests -> ReqRec] /\ loop \in [Loops -> LoopRec]
  BY DEF ConnInv, TypeOK, ReqRec, LoopRec
<1>2. Others(r) /\ req'[r] = [Idle EXCEPT !.at = "done"]
  BY <1>1 DEF Others, Resubmit, Step
<1>3. req'[r].at = "done" /\ req'[r].kind = "none" /\ req'[r].new = {}
  BY <1>2 DEF Idle
<1>4. \A l \in Loops : \/ At(l)' = At(l)
                       \/ l[2] > 1 /\ At(l) = "none" /\ At(l)' = "submitted"
  <2>1. CASE UNCHANGED loop
    BY <2>1 DEF At
  <2>2. ASSUME NEW i \in Starts, i > 1, At(<<req[r].obj, i>>) = "none",
               loop' = [loop EXCEPT ![<<req[r].obj, i>>].at = "submitted"],
               NEW l \in Loops
        PROVE  \/ At(l)' = At(l)
               \/ l[2] > 1 /\ At(l) = "none" /\ At(l)' = "submitted"
    <3>1. CASE l = <<req[r].obj, i>>
      <4>1. loop'[l] = [loop[l] EXCEPT !.at = "submitted"] /\ loop[l] \in LoopRec
        BY <1>1, <2>2, <3>1
      <4>2. loop'[l].at = "submitted"
        BY <4>1 DEF LoopRec
      <4>3. l[2] = i
        BY <3>1
      <4> QED BY <2>2, <3>1, <4>2, <4>3 DEF At
    <3>2. CASE l # <<req[r].obj, i>>
      BY <1>1, <2>2, <3>2 DEF At
    <3> QED BY <3>1, <3>2
  <2> QED BY <2>1, <2>2 DEF Resubmit
<1> QED BY <1>2, <1>3, <1>4 DEF Resubmit

LEMMA ReconfigureDoes ==
    ASSUME ConnInv, NEW r \in Requests, NEW b \in Bots, BeginReconfigure(r, b), TypeOK'
    PROVE  /\ req[r].at = "idle" /\ req'[r].at = "stopping" /\ req'[r].kind = "reconfigure"
           /\ Manageable(req'[r].new) /\ BotsOf(req'[r].new) = enabled' \ Reverse
           /\ req'[r].todo = WithTask
           /\ Others(r)
           /\ \A x \in Bots : status'[x] = "connected" => status[x] = "connected"
           /\ history' = history \cup Overlapping
           /\ UNCHANGED <<adapters, tasks, ws, loop, client>>
<1>1. req \in [Requests -> ReqRec] /\ enabled' \in SUBSET Bots /\ builds' \in Builds
      /\ status \in [Bots -> Statuses]
  BY DEF ConnInv, TypeOK, ReqRec
<1> DEFINE new == Built(enabled', builds')
           rec == [Idle EXCEPT !.at = "stopping", !.kind = "reconfigure",
                               !.new = Forward(new), !.todo = WithTask]
<1>2. Manageable(Forward(new)) /\ BotsOf(Forward(new)) = enabled' \ Reverse
  BY <1>1, ForwardOfBuilt
<1>3. rec.at = "stopping" /\ rec.kind = "reconfigure" /\ rec.new = Forward(new)
      /\ rec.todo = WithTask
  BY DEF Idle
<1>4. Step(r, rec) /\ req[r].at = "idle"
  BY DEF BeginReconfigure
<1>5. req'[r] = rec /\ Others(r)
  <2> HIDE DEF rec
  <2> QED BY <1>1, <1>4 DEF Step, Others
<1>6. \A x \in Bots : status'[x] = "connected" => status[x] = "connected"
  BY DEF BeginReconfigure
<1>7. history' = history \cup Overlapping /\ UNCHANGED <<adapters, tasks, ws, loop, client>>
  BY DEF BeginReconfigure
<1> HIDE DEF rec, new
<1> QED BY <1>2, <1>3, <1>4, <1>5, <1>6, <1>7

LEMMA ReconnectDoes ==
    ASSUME ConnInv, NEW r \in Requests, NEW b \in Bots, BeginReconnect(r, b)
    PROVE  /\ req[r].at = "idle" /\ req'[r].at = "resubmit" /\ req'[r].kind = "reconnect"
           /\ req'[r].new = {} /\ req'[r].obj = ObjFor(b, adapters)
           /\ Others(r)
           /\ \E o \in Objs : Drops(o)
           /\ history' = history \cup Overlapping
           /\ UNCHANGED <<enabled, adapters, tasks, registered, ws, client>>
<1>1. req \in [Requests -> ReqRec]
  BY DEF ConnInv, TypeOK, ReqRec
<1> DEFINE o   == ObjFor(b, adapters)
           rec == [Idle EXCEPT !.at = "resubmit", !.kind = "reconnect", !.bot = b, !.obj = o]
<1>2. o \in Objs /\ StopMarks(o, loop)
  BY ObjForFinds DEF BeginReconnect, ConnInv, Books, Manageable
<1>3. rec.obj = o /\ rec.at = "resubmit" /\ rec.kind = "reconnect" /\ rec.new = {}
  BY DEF Idle
<1>4. Step(r, rec) /\ req[r].at = "idle"
  BY DEF BeginReconnect
<1>5. req'[r] = rec /\ Others(r)
  <2> HIDE DEF rec
  <2> QED BY <1>1, <1>4 DEF Step, Others
<1>6. req'[r].obj = ObjFor(b, adapters)
  BY <1>3, <1>5
<1>7. Drops(o)
  BY <1>2, MarksDrop
<1>8. /\ history' = history \cup Overlapping
      /\ UNCHANGED <<enabled, adapters, tasks, registered, ws, client>>
  BY DEF BeginReconnect
<1> HIDE DEF rec, o
<1> QED BY <1>2, <1>3, <1>4, <1>5, <1>6, <1>7, <1>8

LEMMA ShutdownDoes ==
    ASSUME ConnInv, NEW r \in Requests, BeginShutdown(r)
    PROVE  /\ req[r].at = "idle" /\ req'[r].at = "stopping" /\ req'[r].kind = "shutdown"
           /\ req'[r].new = {} /\ req'[r].todo = WithTask
           /\ Others(r) /\ Quiet
           /\ history' = history \cup {"down"}
           /\ UNCHANGED <<enabled, adapters, tasks, registered, status, ws, loop, client>>
<1>1. req \in [Requests -> ReqRec]
  BY DEF ConnInv, TypeOK, ReqRec
<1> DEFINE rec == [Idle EXCEPT !.at = "stopping", !.kind = "shutdown", !.todo = WithTask]
<1>2. rec.at = "stopping" /\ rec.kind = "shutdown" /\ rec.new = {} /\ rec.todo = WithTask
  BY DEF Idle
<1>3. Step(r, rec) /\ req[r].at = "idle"
  BY DEF BeginShutdown
<1>4. req'[r] = rec /\ Others(r)
  <2> HIDE DEF rec
  <2> QED BY <1>1, <1>3 DEF Step, Others
<1> HIDE DEF rec
<1> QED BY <1>2, <1>3, <1>4 DEF BeginShutdown

LoopStep(l) == LoopBegins(l) \/ Connected(l) \/ LoopFails(l) \/ LoopWakes(l) \/ LoopUnwinds(l)

\* A loop goes its own way: it does not return to where it was not begun.
LEMMA LoopDoes ==
    ASSUME ConnInv, NEW l \in Loops, LoopStep(l)
    PROVE  /\ BotOf(l[1]) \in Bots /\ l[1] \in Objs
           /\ \A k \in Loops \ {l} : At(k)' = At(k)
           /\ At(l) \in Live \cup {"submitted"} /\ At(l)' \in Live \cup {"ended"}
           /\ At(l) = "submitted" => "pool" \in history'
           /\ At(l) = "cancelled" => At(l)' = "ended"
           /\ At(l) = "receiving" => status'[BotOf(l[1])] # "connected"
           /\ \A b \in Bots \ {BotOf(l[1])} : status'[b] = status[b]
           /\ status'[BotOf(l[1])] = "connected" =>
                 status[BotOf(l[1])] = "connected" \/ At(l)' = "receiving"
           /\ IF At(l)' = "receiving"
                THEN ws'[l[1]] = l /\ \A o \in Objs \ {l[1]} : ws'[o] = ws[o]
                ELSE ws' = ws
           /\ history \subseteq history' /\ history' \subseteq history \cup {"pool"}
           /\ UNCHANGED <<enabled, adapters, tasks, registered, req, client>>
<1>1. l[1] \in Objs /\ BotOf(l[1]) \in Bots /\ loop[l] \in LoopRec /\ loop \in [Loops -> LoopRec]
      /\ status \in [Bots -> Statuses] /\ ws \in [Objs -> Loops \cup Clients \cup {NoSock}]
  BY DEF Loops, Objs, BotOf, ConnInv, TypeOK, LoopRec
<1>2. UNCHANGED <<enabled, adapters, tasks, registered, req, client>>
      /\ history \subseteq history' /\ history' \subseteq history \cup {"pool"}
  BY DEF LoopStep, LoopBegins, Connected, LoopFails, LoopWakes, LoopUnwinds
<1>3. CASE LoopBegins(l)
  <2> DEFINE rec == [at |-> "connecting", gen |-> generation'[l[1]], tries |-> 0]
  <2>1. rec.at = "connecting"
    OBVIOUS
  <2>2. loop' = [loop EXCEPT ![l] = rec]
    BY <1>3 DEF LoopBegins
  <2> HIDE DEF rec
  <2>3. At(l)' = "connecting" /\ \A k \in Loops \ {l} : At(k)' = At(k)
    BY <1>1, <2>1, <2>2 DEF At
  <2> QED BY <1>1, <1>2, <1>3, <2>3 DEF LoopBegins, Live
<1>4. CASE Connected(l)
  <2>1. loop' = [loop EXCEPT ![l] = [loop[l] EXCEPT !.at = "receiving"]]
        /\ [loop[l] EXCEPT !.at = "receiving"].at = "receiving"
    BY <1>1, <1>4 DEF Connected, LoopRec
  <2>2. At(l)' = "receiving" /\ \A k \in Loops \ {l} : At(k)' = At(k)
    BY <1>1, <2>1 DEF At
  <2>3. ws'[l[1]] = l /\ \A o \in Objs \ {l[1]} : ws'[o] = ws[o]
    BY <1>1, <1>4 DEF Connected
  <2>4. At(l) = "connecting" /\ \A b \in Bots \ {BotOf(l[1])} : status'[b] = status[b]
    BY <1>1, <1>4 DEF Connected
  <2> QED BY <1>1, <1>2, <2>2, <2>3, <2>4 DEF Live
<1>5. CASE LoopFails(l)
  <2>1. PICK p \in {"ended", "backoff"}, n \in CountedTries(l) :
            \/ loop' = [loop EXCEPT ![l].at = p]
            \/ loop' = [loop EXCEPT ![l].at = p, ![l].tries = IF MaxAttempts = 0 THEN 0 ELSE n]
    BY <1>5 DEF LoopFails, CountedTries
  <2>2. PICK rec : loop' = [loop EXCEPT ![l] = rec] /\ rec.at = p
    <3>1. [loop[l] EXCEPT !.at = p].at = p
          /\ [loop[l] EXCEPT !.at = p, !.tries = IF MaxAttempts = 0 THEN 0 ELSE n].at = p
      BY <1>1 DEF LoopRec
    <3>2. \/ loop' = [loop EXCEPT ![l] = [loop[l] EXCEPT !.at = p]]
          \/ loop' = [loop EXCEPT ![l] = [loop[l] EXCEPT !.at = p,
                                             !.tries = IF MaxAttempts = 0 THEN 0 ELSE n]]
      BY <2>1
    <3> QED BY <3>1, <3>2
  <2>3. At(l)' = p /\ \A k \in Loops \ {l} : At(k)' = At(k)
    BY <1>1, <2>2 DEF At
  <2>4. At(l) \in {"connecting", "receiving", "dropped"} /\ ws' = ws
        /\ \E x \in {"disconnected", "disabled"} : status' = [status EXCEPT ![BotOf(l[1])] = x]
    BY <1>5 DEF LoopFails
  <2>5. status'[BotOf(l[1])] # "connected" /\ \A b \in Bots \ {BotOf(l[1])} : status'[b] = status[b]
    BY <1>1, <2>4
  <2> QED BY <1>1, <1>2, <2>3, <2>4, <2>5 DEF Live
<1>6. CASE LoopWakes(l) \/ LoopUnwinds(l)
  <2>1. PICK p \in {"ended", "connecting"} : loop' = [loop EXCEPT ![l].at = p]
                                         /\ (LoopUnwinds(l) => p = "ended")
    BY <1>6 DEF LoopWakes, LoopUnwinds
  <2>2. loop' = [loop EXCEPT ![l] = [loop[l] EXCEPT !.at = p]] /\ [loop[l] EXCEPT !.at = p].at = p
    BY <1>1, <2>1 DEF LoopRec
  <2>3. At(l)' = p /\ \A k \in Loops \ {l} : At(k)' = At(k)
    BY <1>1, <2>2 DEF At
  <2> QED BY <1>1, <1>2, <1>6, <2>1, <2>3 DEF LoopWakes, LoopUnwinds, Live
<1> QED BY <1>3, <1>4, <1>5, <1>6 DEF LoopStep

LEMMA ClientDoes ==
    ASSUME ConnInv, NEW c \in Clients, Dial(c) \/ HangUp(c)
    PROVE  /\ history \subseteq history' /\ history' \subseteq history \cup {"crossed"}
           /\ UNCHANGED <<enabled, adapters, tasks, registered, loop, req>>
           /\ \A o \in Objs : ws'[o] = ws[o] \/ ws'[o] \notin Loops
           /\ \A d \in Clients \ {c} : client'[d] = client[d]
           /\ \/ /\ ws' = ws /\ status' = status
                 /\ client[c] \notin Objs /\ client'[c] \notin Objs
              \/ /\ client[c] \notin Objs /\ client'[c] \in Objs /\ "crossed" \in history'
                 /\ \A b \in Bots \ {BotOf(client'[c])} : status'[b] = status[b]
              \/ /\ client[c] \in Objs /\ client'[c] \notin Objs
                 /\ status'[BotOf(client[c])] = "disconnected"
                 /\ \A b \in Bots \ {BotOf(client[c])} : status'[b] = status[b]
<1>1. /\ client \in [Clients -> Objs \cup {NoObj, Refused}]
      /\ ws \in [Objs -> Loops \cup Clients \cup {NoSock}] /\ status \in [Bots -> Statuses]
      /\ Manageable(adapters) /\ c \notin Loops /\ NoSock \notin Loops
      /\ NoObj \notin Objs /\ Refused \notin Objs
  BY DEF ConnInv, TypeOK, Books
<1>2. \A o \in Objs : BotOf(o) \in Bots
  BY DEF Objs, BotOf
<1>3. UNCHANGED <<enabled, adapters, tasks, registered, loop, req>>
  BY DEF Dial, HangUp
<1>4. CASE Dial(c)
  <2> DEFINE found == RoutedTo(PathOf[DialsFor[c]])
  <2>1. found \subseteq adapters /\ client[c] \notin Objs
    BY <1>1, <1>4 DEF RoutedTo, Dial
  <2>2. CASE client' = [client EXCEPT ![c] = Refused] /\ UNCHANGED <<ws, status, history>>
    BY <1>1, <1>3, <2>1, <2>2
  <2>3. ASSUME NEW o \in found, client' = [client EXCEPT ![c] = o], ws' = [ws EXCEPT ![o] = c],
               status' = [status EXCEPT ![BotOf(o)] = "connected"],
               history' = history \cup (IF BotOf(o) = DialsFor[c] THEN {} ELSE {"crossed"})
        PROVE  /\ history \subseteq history' /\ history' \subseteq history \cup {"crossed"}
               /\ \A p \in Objs : ws'[p] = ws[p] \/ ws'[p] \notin Loops
               /\ \A d \in Clients \ {c} : client'[d] = client[d]
               /\ client'[c] \in Objs /\ "crossed" \in history'
               /\ \A b \in Bots \ {BotOf(client'[c])} : status'[b] = status[b]
    <3>1. o \in Objs /\ BotOf(o) \in Bots /\ BotOf(o) # DialsFor[c]
      BY <1>1, <1>2, <2>1 DEF Manageable
    <3>2. client'[c] = o /\ \A d \in Clients \ {c} : client'[d] = client[d]
      BY <1>1, <2>3
    <3> QED BY <1>1, <2>3, <3>1, <3>2
  <2> HIDE DEF found
  <2> QED BY <1>3, <1>4, <2>1, <2>2, <2>3 DEF Dial, found
<1>5. CASE HangUp(c)
  <2>1. client[c] \in Objs /\ BotOf(client[c]) \in Bots /\ history' = history
    BY <1>2, <1>5 DEF HangUp
  <2>2. client'[c] = NoObj /\ \A d \in Clients \ {c} : client'[d] = client[d]
    BY <1>1, <1>5 DEF HangUp
  <2>3. \A o \in Objs : ws'[o] = ws[o] \/ ws'[o] \notin Loops
    BY <1>1, <1>5 DEF HangUp
  <2>4. status'[BotOf(client[c])] = "disconnected"
        /\ \A b \in Bots \ {BotOf(client[c])} : status'[b] = status[b]
    BY <1>1, <1>5, <2>1 DEF HangUp
  <2> QED BY <1>1, <1>3, <2>1, <2>2, <2>3, <2>4
<1> QED BY <1>4, <1>5

(***************************************************************************)
(* Every step keeps each part of the invariant.                            *)
(***************************************************************************)
LEMMA SaneKept ==
    ASSUME ConnInv, TypeOK', Next
    PROVE  Sane'
<1>1. \A r \in Requests : Proper(req[r], history)
  BY DEF ConnInv, Sane
<1>2. Manageable({}) /\ Manageable(adapters)
  BY DEF Manageable, ConnInv, Books
<1>3. ASSUME UNCHANGED req, history \subseteq history' PROVE Sane'
  BY <1>1, <1>3 DEF Sane, Proper
<1>4. ASSUME NEW r \in Requests, Others(r), history \subseteq history', Proper(req'[r], history')
      PROVE  Sane'
  BY <1>1, <1>4 DEF Sane, Proper, Others
<1>5. ASSUME NEW r \in Requests, NEW b \in Bots, BeginReconfigure(r, b) PROVE Sane'
  BY <1>4, <1>5, ReconfigureDoes DEF Proper, Overlapping
<1>6. ASSUME NEW r \in Requests, NEW b \in Bots, BeginReconnect(r, b) PROVE Sane'
  BY <1>2, <1>4, <1>6, ReconnectDoes DEF Proper, Stopping
<1>7. ASSUME NEW r \in Requests, BeginShutdown(r) PROVE Sane'
  BY <1>2, <1>4, <1>7, ShutdownDoes DEF Proper
<1>8. ASSUME NEW r \in Requests, StopNext(r) PROVE Sane'
  <2>1. PICK b \in req[r].todo :
             /\ b \in Bots /\ req[r].at = "stopping" /\ req'[r].at = "awaiting"
             /\ req'[r].kind = req[r].kind /\ req'[r].new = req[r].new
             /\ req'[r].bot = b /\ req'[r].obj = ObjFor(b, adapters)
             /\ Others(r) /\ history' = history
    BY <1>8, StopNextDoes
  <2>2. ObjFor(b, adapters) # NoObj => BotOf(ObjFor(b, adapters)) = b
    BY <1>2, <2>1, ObjForFinds
  <2> QED BY <1>1, <1>4, <2>1, <2>2 DEF Proper, Stopping
<1>9. ASSUME NEW r \in Requests, TaskAwaited(r) PROVE Sane'
  BY <1>1, <1>4, <1>9, AwaitedDoes DEF Proper, Stopping
<1>10. ASSUME NEW r \in Requests, Closed(r) PROVE Sane'
  BY <1>1, <1>4, <1>10, ClosedDoes DEF Proper, Stopping
<1>11. ASSUME NEW r \in Requests, BeginSweep(r) \/ SweepNext(r) PROVE Sane'
  BY <1>1, <1>4, <1>11, SweepDoes DEF Proper, Stopping
<1>12. ASSUME NEW r \in Requests, Adopt(r) PROVE Sane'
  BY <1>2, <1>4, <1>12, AdoptDoes DEF Proper, Stopping
<1>13. ASSUME NEW r \in Requests, AllStopped(r) PROVE Sane'
  BY <1>2, <1>4, <1>13, AllStoppedDoes DEF Proper, Stopping
<1>14. ASSUME NEW r \in Requests, Resubmit(r) PROVE Sane'
  BY <1>2, <1>4, <1>14, ResubmitDoes DEF Proper, Stopping
<1>15. ASSUME NEW l \in Loops, LoopStep(l) PROVE Sane'
  BY <1>3, <1>15, LoopDoes
<1>16. ASSUME NEW c \in Clients, Dial(c) \/ HangUp(c) PROVE Sane'
  BY <1>3, <1>16, ClientDoes
<1> QED BY <1>5, <1>6, <1>7, <1>8, <1>9, <1>10, <1>11, <1>12, <1>13, <1>14, <1>15, <1>16
        DEF Next, RequestStep, LoopStep

\* A loop that was begun stays so.
LEMMA BegunStays ==
    ASSUME ConnInv, TypeOK', Next, NEW l \in Loops, At(l) # "none"
    PROVE  At(l)' # "none"
<1>1. ASSUME NEW o \in Objs, Drops(o) PROVE At(l)' # "none"
  BY <1>1 DEF Drops
<1>2. UNCHANGED loop => At(l)' # "none"
  BY DEF At
<1>3. ASSUME NEW r \in Requests, NEW b \in Bots, BeginReconfigure(r, b) PROVE At(l)' # "none"
  BY <1>2, <1>3, ReconfigureDoes
<1>4. ASSUME NEW r \in Requests, NEW b \in Bots, BeginReconnect(r, b) PROVE At(l)' # "none"
  BY <1>1, <1>4, ReconnectDoes
<1>5. ASSUME NEW r \in Requests, BeginShutdown(r) PROVE At(l)' # "none"
  BY <1>2, <1>5, ShutdownDoes
<1>6. ASSUME NEW r \in Requests, StopNext(r) PROVE At(l)' # "none"
  BY <1>6, StopNextDoes
<1>7. ASSUME NEW r \in Requests, TaskAwaited(r) PROVE At(l)' # "none"
  BY <1>1, <1>2, <1>7, AwaitedDoes
<1>8. ASSUME NEW r \in Requests, Closed(r) \/ AllStopped(r) PROVE At(l)' # "none"
  BY <1>2, <1>8, ClosedDoes, AllStoppedDoes
<1>9. ASSUME NEW r \in Requests, BeginSweep(r) \/ SweepNext(r) PROVE At(l)' # "none"
  BY <1>1, <1>2, <1>9, SweepDoes
<1>10. ASSUME NEW r \in Requests, Adopt(r) PROVE At(l)' # "none"
  BY <1>10, AdoptDoes
<1>11. ASSUME NEW r \in Requests, Resubmit(r) PROVE At(l)' # "none"
  BY <1>11, ResubmitDoes
<1>12. ASSUME NEW k \in Loops, LoopStep(k) PROVE At(l)' # "none"
  <2>1. At(k)' \in Live \cup {"ended"} /\ (k # l => At(l)' = At(l))
    BY <1>12, LoopDoes
  <2> QED BY <2>1 DEF Live
<1>13. ASSUME NEW c \in Clients, Dial(c) \/ HangUp(c) PROVE At(l)' # "none"
  BY <1>2, <1>13, ClientDoes
<1> QED BY <1>3, <1>4, <1>5, <1>6, <1>7, <1>8, <1>9, <1>10, <1>11, <1>12, <1>13
        DEF Next, RequestStep, LoopStep

LEMMA BooksKept ==
    ASSUME ConnInv, TypeOK', Next
    PROVE  Books'
<1> DEFINE Lag == (\A r \in Requests : req[r].at \notin Stopping) /\ "down" \notin history
           None == \A r \in Requests : ~Reconfigures(r)
           Begun == \A b \in Bots : \A l \in Loops : tasks[b] = l => At(l) # "none"
           Listed == \A b \in Bots : tasks[b] # NoLoop => tasks[b] = StartAll(adapters)[b]
           Known == \A b \in Bots \ Reverse : registered[b] = ObjFor(b, adapters)
<1>1. Manageable(adapters) /\ Listed /\ Begun /\ (Lag => tasks = StartAll(adapters))
      /\ (None => Known)
  BY DEF ConnInv, Books
<1>2. tasks \in [Bots -> Loops \cup {NoLoop}] /\ tasks' \in [Bots -> Loops \cup {NoLoop}]
      /\ req \in [Requests -> ReqRec]
  BY DEF ConnInv, TypeOK, ReqRec
<1>3. ASSUME Manageable(adapters'), Listed', Begun', Lag' => tasks' = StartAll(adapters'),
             None' => Known'
      PROVE  Books'
  BY <1>3 DEF Books
<1>4. ASSUME \A b \in Bots : tasks'[b] = tasks[b] \/ tasks'[b] = NoLoop
      PROVE  Begun'
  <2> SUFFICES ASSUME NEW b \in Bots, NEW l \in Loops, tasks'[b] = l PROVE At(l)' # "none"
    OBVIOUS
  <2>1. tasks[b] = l
    BY <1>4
  <2>2. At(l) # "none"
    BY <1>1, <2>1
  <2> QED BY <2>2, BegunStays
<1>5. ASSUME UNCHANGED <<adapters, tasks>> PROVE Manageable(adapters') /\ Listed' /\ Begun'
  BY <1>1, <1>4, <1>5 DEF StartAll
<1> HIDE DEF Listed, Begun
<1>6. ASSUME UNCHANGED <<adapters, tasks, registered, req>>, history \subseteq history'
      PROVE  Books'
  BY <1>1, <1>3, <1>5, <1>6 DEF Reconfigures
\* A request that goes on stopping, or that was not stopping and does not begin to.
<1>7. ASSUME NEW r \in Requests, Others(r), UNCHANGED <<adapters, tasks, registered>>,
             history \subseteq history',
             \/ req[r].at \in Stopping /\ req'[r].at \in Stopping /\ req'[r].kind = req[r].kind
             \/ req[r].at \notin Stopping /\ req'[r].at \notin Stopping
      PROVE  Books'
  BY <1>1, <1>3, <1>5, <1>7 DEF Reconfigures, Others
<1>8. ASSUME NEW r \in Requests, NEW b \in Bots, BeginReconfigure(r, b) PROVE Books'
  <2>1. ~Lag' /\ ~None'
    BY <1>8, ReconfigureDoes DEF Reconfigures, Stopping
  <2>2. UNCHANGED <<adapters, tasks>>
    BY <1>8, ReconfigureDoes
  <2> QED BY <1>3, <1>5, <2>1, <2>2
<1>9. ASSUME NEW r \in Requests, NEW b \in Bots, BeginReconnect(r, b) PROVE Books'
  BY <1>7, <1>9, ReconnectDoes DEF Stopping, Overlapping
<1>10. ASSUME NEW r \in Requests, BeginShutdown(r) PROVE Books'
  <2>1. Others(r) /\ req'[r].kind = "shutdown" /\ req[r].at = "idle" /\ "down" \in history'
        /\ UNCHANGED <<adapters, tasks, registered>>
    BY <1>10, ShutdownDoes
  <2>2. None' => None
    BY <2>1 DEF Others, Reconfigures, Stopping
  <2>3. Known' <=> Known
    BY <2>1
  <2>4. ~Lag'
    BY <2>1
  <2> HIDE DEF Lag, None, Known
  <2> QED BY <1>1, <1>3, <1>5, <2>1, <2>2, <2>3, <2>4
<1>11. ASSUME NEW r \in Requests, StopNext(r) PROVE Books'
  <2>1. PICK b \in req[r].todo :
             /\ b \in Bots /\ req[r].at = "stopping" /\ req'[r].at = "awaiting"
             /\ req'[r].kind = req[r].kind /\ Others(r)
             /\ tasks'[b] = NoLoop /\ \A x \in Bots \ {b} : tasks'[x] = tasks[x]
             /\ UNCHANGED <<adapters, registered, history>>
    BY <1>11, StopNextDoes
  <2>2. Begun'
    BY <1>4, <2>1
  <2>3. Listed'
    BY <1>1, <2>1 DEF Listed, StartAll
  <2>4. ~Lag'
    BY <2>1 DEF Stopping
  <2>5. None' => None
    BY <2>1 DEF Others, Reconfigures, Stopping
  <2>6. Known' <=> Known
    BY <2>1
  <2> HIDE DEF Lag, None, Known
  <2> QED BY <1>1, <1>3, <2>1, <2>2, <2>3, <2>4, <2>5, <2>6
<1>12. ASSUME NEW r \in Requests, TaskAwaited(r) PROVE Books'
  BY <1>7, <1>12, AwaitedDoes DEF Stopping
<1>13. ASSUME NEW r \in Requests, Closed(r) PROVE Books'
  BY <1>7, <1>13, ClosedDoes DEF Stopping
<1>14. ASSUME NEW r \in Requests, BeginSweep(r) \/ SweepNext(r) PROVE Books'
  BY <1>7, <1>14, SweepDoes DEF Stopping
<1>15. ASSUME NEW r \in Requests, Adopt(r) PROVE Books'
  <2> DEFINE new == req[r].new
  <2>1. /\ adapters' = new /\ Manageable(new) /\ registered' = Adopted(new)
        /\ tasks' = StartAll(new)
        /\ \A l \in Loops : At(l)' = IF l \in StartedBy(new) THEN "created" ELSE At(l)
    BY <1>15, AdoptDoes
  <2> HIDE DEF new
  <2>2. Listed'
    BY <2>1 DEF Listed, StartAll
  <2>3. Begun'
    <3> SUFFICES ASSUME NEW b \in Bots, NEW l \in Loops, tasks'[b] = l PROVE At(l)' # "none"
      BY DEF Begun
    <3>1. tasks'[b] = <<ObjFor(b, new), 1>> /\ ObjFor(b, new) # NoObj
      BY <2>1 DEF StartAll
    <3>2. l \in StartedBy(new)
      BY <2>1, <3>1, ObjForFinds DEF StartedBy
    <3> QED BY <2>1, <3>2
  <2>4. Known' /\ tasks' = StartAll(adapters')
    BY <2>1 DEF Adopted, StartAll
  <2> QED BY <1>3, <2>1, <2>2, <2>3, <2>4
<1>16. ASSUME NEW r \in Requests, AllStopped(r) PROVE Books'
  <2>1. Others(r) /\ req[r].kind = "shutdown" /\ history' = history
        /\ UNCHANGED <<adapters, tasks, registered>>
    BY <1>16, AllStoppedDoes
  <2>2. "down" \in history
    BY <2>1 DEF ConnInv, Sane, Proper
  <2>3. None' => None
    BY <2>1 DEF Others, Reconfigures
  <2>4. Known' <=> Known
    BY <2>1
  <2>5. ~Lag'
    BY <2>1, <2>2
  <2> HIDE DEF Lag, None, Known
  <2> QED BY <1>1, <1>3, <1>5, <2>1, <2>3, <2>4, <2>5
<1>17. ASSUME NEW r \in Requests, Resubmit(r) PROVE Books'
  BY <1>7, <1>17, ResubmitDoes DEF Stopping
<1>18. ASSUME NEW l \in Loops, LoopStep(l) PROVE Books'
  BY <1>6, <1>18, LoopDoes
<1>19. ASSUME NEW c \in Clients, Dial(c) \/ HangUp(c) PROVE Books'
  BY <1>6, <1>19, ClientDoes
<1> QED BY <1>8, <1>9, <1>10, <1>11, <1>12, <1>13, <1>14, <1>15, <1>16, <1>17, <1>18, <1>19
        DEF Next, RequestStep, LoopStep

LEMMA InTurnKept ==
    ASSUME ConnInv, TypeOK', Next
    PROVE  InTurn'
<1> SUFFICES ASSUME "overlap" \notin history' PROVE OneByOne' /\ Lists' /\ Applied' /\ NoStray'
  BY DEF InTurn
<1>1. history \subseteq history'
  BY DEF Next, RequestStep, BeginReconfigure, BeginReconnect, BeginShutdown, StopNext, TaskAwaited,
         Closed, BeginSweep, SweepNext, Adopt, AllStopped, Resubmit, LoopBegins, Connected,
         LoopFails, LoopWakes, LoopUnwinds, Dial, HangUp
<1>2. OneByOne /\ Lists /\ Applied /\ NoStray
  BY <1>1 DEF ConnInv, InTurn
<1>3. req \in [Requests -> ReqRec] /\ tasks \in [Bots -> Loops \cup {NoLoop}]
      /\ \A l \in Loops : l[1] \in Objs /\ BotOf(l[1]) \in Bots
  BY DEF ConnInv, TypeOK, ReqRec, Loops, Objs, BotOf
\* What has to be shown of a step of request r: only r is active.
<1>4. ASSUME NEW r \in Requests, Others(r), \A q \in Requests \ {r} : Inactive(q),
             req'[r].at \in Stopping => WithTask' \subseteq req'[r].todo,
             req'[r].at = "sweeping" => req'[r].todo = {},
             req'[r].at = "awaiting" =>
               \A l \in Loops : req'[r].task = l => At(l)' \in {"cancelled", "ended"},
             Reconfigures(r)' => BotsOf(req'[r].new) = enabled' \ Reverse,
             ~Reconfigures(r)' => BotsOf(adapters') = enabled' \ Reverse,
             NoStray'
      PROVE  OneByOne' /\ Lists' /\ Applied' /\ NoStray'
  <2>1. \A q \in Requests \ {r} : req'[q].at \in {"idle", "done"} /\ req'[q] = req[q]
    BY <1>4 DEF Others, Inactive
  <2>2. OneByOne'
    BY <2>1 DEF OneByOne, Inactive
  <2>3. Lists'
    BY <1>4, <2>1 DEF Lists, Stopping
  <2>4. Applied'
    BY <1>4, <2>1 DEF Applied, Reconfigures, Stopping
  <2> QED BY <1>4, <2>2, <2>3, <2>4
<1>5. ASSUME \A l \in Loops : At(l)' \in Live /\ l[2] = 1 => At(l) \in Live, UNCHANGED tasks,
             \A q \in Requests : req[q].at = "awaiting" =>
                 req'[q].at = "awaiting" /\ req'[q].task = req[q].task
      PROVE  NoStray'
  BY <1>2, <1>5 DEF NoStray
<1>6. ASSUME NEW o, Drops(o), NEW l \in Loops, At(l)' \in Live PROVE At(l) \in Live
  BY <1>6 DEF Drops, Live
<1>7. UNCHANGED loop => \A l \in Loops : At(l)' = At(l)
  BY DEF At
\* A request under way is the only one.
<1>8. ASSUME NEW r \in Requests, req[r].at \notin {"idle", "done"}
      PROVE  \A q \in Requests \ {r} : Inactive(q) /\ req[q].at # "awaiting" /\ ~Reconfigures(q)
  BY <1>2, <1>8 DEF OneByOne, Inactive, Reconfigures, Stopping
<1>9. ASSUME Quiet
      PROVE  \A q \in Requests : Inactive(q) /\ req[q].at # "awaiting" /\ ~Reconfigures(q)
  BY <1>9 DEF Quiet, Inactive, Reconfigures, Stopping
<1>10. history' = history \cup Overlapping => Quiet
  BY DEF Overlapping
<1>11. ASSUME NEW r \in Requests, NEW b \in Bots, BeginReconfigure(r, b)
       PROVE  OneByOne' /\ Lists' /\ Applied' /\ NoStray'
  <2>1. /\ req'[r].at = "stopping" /\ req'[r].kind = "reconfigure"
        /\ BotsOf(req'[r].new) = enabled' \ Reverse /\ req'[r].todo = WithTask
        /\ Others(r) /\ Quiet /\ UNCHANGED <<tasks, loop>>
    BY <1>10, <1>11, ReconfigureDoes
  <2>2. NoStray'
    BY <1>5, <1>7, <1>9, <2>1
  <2>3. WithTask' = WithTask /\ Reconfigures(r)'
    BY <2>1 DEF WithTask, Reconfigures, Stopping
  <2> QED BY <1>4, <1>9, <2>1, <2>2, <2>3
<1>12. ASSUME NEW r \in Requests, NEW b \in Bots, BeginReconnect(r, b)
       PROVE  OneByOne' /\ Lists' /\ Applied' /\ NoStray'
  <2>1. /\ req'[r].at = "resubmit" /\ req[r].at = "idle" /\ (\E o \in Objs : Drops(o))
        /\ Others(r) /\ Quiet /\ UNCHANGED <<enabled, adapters, tasks>>
    BY <1>10, <1>12, ReconnectDoes
  <2>2. NoStray'
    BY <1>5, <1>6, <1>9, <2>1
  <2>3. ~Reconfigures(r)' /\ req'[r].at \notin Stopping
    BY <2>1 DEF Reconfigures, Stopping
  <2>4. BotsOf(adapters') = enabled' \ Reverse
    BY <1>2, <1>9, <2>1 DEF Applied
  <2> QED BY <1>4, <1>9, <2>1, <2>2, <2>3, <2>4 DEF Stopping
<1>13. ASSUME NEW r \in Requests, BeginShutdown(r)
       PROVE  OneByOne' /\ Lists' /\ Applied' /\ NoStray'
  <2>1. /\ req'[r].at = "stopping" /\ req'[r].kind = "shutdown" /\ req'[r].todo = WithTask
        /\ Others(r) /\ Quiet /\ UNCHANGED <<enabled, adapters, tasks, loop>>
    BY <1>13, ShutdownDoes
  <2>2. NoStray'
    BY <1>5, <1>7, <1>9, <2>1
  <2>3. WithTask' = WithTask /\ ~Reconfigures(r)'
    BY <2>1 DEF WithTask, Reconfigures
  <2>4. BotsOf(adapters') = enabled' \ Reverse
    BY <1>2, <1>9, <2>1 DEF Applied
  <2> QED BY <1>4, <1>9, <2>1, <2>2, <2>3, <2>4
<1>14. ASSUME NEW r \in Requests, StopNext(r)
       PROVE  OneByOne' /\ Lists' /\ Applied' /\ NoStray'
  <2>1. PICK b \in req[r].todo :
             /\ b \in Bots /\ req[r].at = "stopping" /\ req'[r].at = "awaiting"
             /\ req'[r].kind = req[r].kind /\ req'[r].new = req[r].new
             /\ req'[r].todo = req[r].todo \ {b} /\ req'[r].task = tasks[b]
             /\ Others(r)
             /\ \A l \in Loops : At(l)' = IF l = tasks[b] /\ At(l) \in Live THEN "cancelled"
                                                                         ELSE At(l)
             /\ tasks'[b] = NoLoop /\ \A x \in Bots \ {b} : tasks'[x] = tasks[x]
             /\ UNCHANGED <<enabled, adapters>>
    BY <1>14, StopNextDoes
  <2>2. \A q \in Requests \ {r} : Inactive(q) /\ req[q].at # "awaiting" /\ ~Reconfigures(q)
    BY <1>8, <2>1
  <2>3. WithTask' \subseteq req'[r].todo
    <3>1. WithTask \subseteq req[r].todo
      BY <1>2, <2>1 DEF Lists, Stopping
    <3> QED BY <2>1, <3>1 DEF WithTask
  <2>4. \A l \in Loops : req'[r].task = l => At(l)' \in {"cancelled", "ended"}
    <3> SUFFICES ASSUME NEW l \in Loops, tasks[b] = l PROVE At(l)' \in {"cancelled", "ended"}
      BY <2>1
    <3>1. At(l) # "none"
      BY <2>1 DEF ConnInv, Books
    <3>2. l[2] = 1
      <4>1. tasks[b] = StartAll(adapters)[b] /\ NoLoop \notin Loops
        BY <2>1 DEF ConnInv, Books
      <4> QED BY <2>1, <4>1 DEF StartAll
    <3>3. At(l) # "submitted"
      BY <3>2 DEF ConnInv, Sockets
    <3>4. At(l) \in Points
      BY DEF ConnInv, TypeOK, At
    <3> QED BY <2>1, <3>1, <3>3, <3>4 DEF Points, Live
  <2>5. NoStray'
    <3> SUFFICES ASSUME NEW l \in Loops, At(l)' \in Live, l[2] = 1
                 PROVE  \/ tasks'[BotOf(l[1])] = l
                        \/ \E q \in Requests : req'[q].at = "awaiting" /\ req'[q].task = l
      BY DEF NoStray
    <3>1. At(l) \in Live
      BY <2>1 DEF Live
    <3>2. tasks[BotOf(l[1])] = l
      BY <1>2, <2>1, <2>2, <3>1 DEF NoStray
    <3> QED BY <1>3, <2>1, <3>2
  <2>6. Reconfigures(r)' <=> Reconfigures(r)
    BY <2>1 DEF Reconfigures, Stopping
  <2>7. /\ Reconfigures(r) => BotsOf(req[r].new) = enabled \ Reverse
        /\ ~Reconfigures(r) => BotsOf(adapters) = enabled \ Reverse
    BY <1>2, <2>2 DEF Applied
  <2> QED BY <1>4, <2>1, <2>2, <2>3, <2>4, <2>5, <2>6, <2>7
\* A stopping request that goes on without a new task.
<1>15. ASSUME NEW r \in Requests, Others(r), req[r].at \in Stopping,
              req'[r].at \in Stopping \ {"awaiting"},
              req'[r].kind = req[r].kind, req'[r].new = req[r].new, req'[r].todo = req[r].todo,
              req'[r].at = "sweeping" => req[r].todo = {},
              UNCHANGED <<enabled, adapters, tasks>>, NoStray'
       PROVE  OneByOne' /\ Lists' /\ Applied' /\ NoStray'
  <2>1. \A q \in Requests \ {r} : Inactive(q) /\ req[q].at # "awaiting" /\ ~Reconfigures(q)
    BY <1>8, <1>15 DEF Stopping
  <2>2. Reconfigures(r)' <=> Reconfigures(r)
    BY <1>15 DEF Reconfigures
  <2>3. /\ Reconfigures(r) => BotsOf(req[r].new) = enabled \ Reverse
        /\ ~Reconfigures(r) => BotsOf(adapters) = enabled \ Reverse
    BY <1>2, <2>1 DEF Applied
  <2>4. WithTask' = WithTask /\ WithTask \subseteq req[r].todo
    BY <1>2, <1>15 DEF WithTask, Lists
  <2> QED BY <1>4, <1>15, <2>1, <2>2, <2>3, <2>4
<1>16. ASSUME NEW r \in Requests, TaskAwaited(r)
       PROVE  OneByOne' /\ Lists' /\ Applied' /\ NoStray'
  <2>1. /\ req[r].at = "awaiting" /\ req'[r].at = "closing"
        /\ req[r].task # NoLoop => At(req[r].task) = "ended"
        /\ req'[r].kind = req[r].kind /\ req'[r].new = req[r].new
        /\ req'[r].todo = req[r].todo /\ Others(r)
        /\ IF req[r].obj = NoObj THEN UNCHANGED <<status, loop>>
                                 ELSE req[r].obj \in Objs /\ Drops(req[r].obj)
        /\ UNCHANGED <<enabled, adapters, tasks>>
    BY <1>16, AwaitedDoes
  <2>2. NoStray'
    <3> SUFFICES ASSUME NEW l \in Loops, At(l)' \in Live, l[2] = 1
                 PROVE  tasks'[BotOf(l[1])] = l
      BY DEF NoStray
    <3>1. At(l) \in Live
      BY <1>6, <1>7, <2>1
    <3>2. l # NoLoop /\ At(l) # "ended"
      BY <3>1 DEF Live
    <3>3. \A q \in Requests : req[q].at = "awaiting" => req[q].task # l
      BY <1>8, <2>1, <3>2
    <3> QED BY <1>2, <2>1, <3>1, <3>3 DEF NoStray
  <2> QED BY <1>15, <2>1, <2>2 DEF Stopping
<1>17. ASSUME NEW r \in Requests, Closed(r) \/ BeginSweep(r) \/ SweepNext(r)
       PROVE  OneByOne' /\ Lists' /\ Applied' /\ NoStray'
  <2>1. /\ req[r].at \in Stopping \ {"awaiting"} /\ req'[r].at \in Stopping \ {"awaiting"}
        /\ req'[r].kind = req[r].kind /\ req'[r].new = req[r].new
        /\ req'[r].todo = req[r].todo /\ Others(r)
        /\ req'[r].at = "sweeping" => req[r].todo = {} \/ req[r].at = "sweeping"
        /\ UNCHANGED loop \/ (\E o \in Objs : Drops(o))
        /\ UNCHANGED <<enabled, adapters, tasks>>
    BY <1>17, ClosedDoes, SweepDoes DEF Stopping
  <2>2. NoStray'
    BY <1>5, <1>6, <1>7, <2>1 DEF Others
  <2>3. req'[r].at = "sweeping" => req[r].todo = {}
    BY <1>2, <2>1 DEF Lists
  <2> QED BY <1>15, <2>1, <2>2, <2>3
<1>18. ASSUME NEW r \in Requests, Adopt(r)
       PROVE  OneByOne' /\ Lists' /\ Applied' /\ NoStray'
  <2> DEFINE new == req[r].new
  <2>1. /\ req[r].at = "sweeping" /\ req[r].kind = "reconfigure"
        /\ req'[r].at = "done" /\ Others(r)
        /\ adapters' = new /\ Manageable(new) /\ tasks' = StartAll(new)
        /\ \A l \in Loops : At(l)' = IF l \in StartedBy(new) THEN "created" ELSE At(l)
        /\ UNCHANGED enabled
    BY <1>18, AdoptDoes
  <2> HIDE DEF new
  <2>2. \A q \in Requests \ {r} : Inactive(q) /\ req[q].at # "awaiting" /\ ~Reconfigures(q)
    BY <1>8, <2>1
  <2>3. WithTask = {}
    BY <1>2, <2>1 DEF Lists, Stopping
  <2>4. \A l \in Loops : l[2] = 1 => At(l) \notin Live
    BY <1>2, <1>3, <2>1, <2>2, <2>3 DEF NoStray, WithTask
  <2>5. NoStray'
    <3> SUFFICES ASSUME NEW l \in Loops, At(l)' \in Live, l[2] = 1
                 PROVE  tasks'[BotOf(l[1])] = l
      BY DEF NoStray
    <3>1. l \in StartedBy(new)
      BY <2>1, <2>4
    <3>2. PICK o \in new : l = <<o, 1>>
      BY <3>1 DEF StartedBy
    <3>3. BotOf(o) \in Bots /\ l[1] = o
      BY <1>3, <3>2
    <3>4. ObjFor(BotOf(o), new) = o /\ o # NoObj
      BY <2>1, <3>3, ObjForFinds
    <3> QED BY <2>1, <3>2, <3>3, <3>4 DEF StartAll
  <2>6. Reconfigures(r) /\ ~Reconfigures(r)'
    BY <2>1 DEF Reconfigures, Stopping
  <2>7. BotsOf(adapters') = enabled' \ Reverse
    BY <1>2, <2>1, <2>6 DEF Applied, new
  <2> QED BY <1>4, <2>1, <2>2, <2>5, <2>6, <2>7 DEF Stopping
<1>19. ASSUME NEW r \in Requests, AllStopped(r) \/ Resubmit(r)
       PROVE  OneByOne' /\ Lists' /\ Applied' /\ NoStray'
  <2>1. /\ req[r].at \in {"sweeping", "resubmit"} /\ ~Reconfigures(r)
        /\ req'[r].at = "done" /\ Others(r) /\ UNCHANGED <<enabled, adapters, tasks>>
        /\ \A l \in Loops : At(l)' = At(l) \/ l[2] > 1
    BY <1>7, <1>19, AllStoppedDoes, ResubmitDoes DEF Reconfigures, Stopping
  <2>2. \A q \in Requests \ {r} : Inactive(q) /\ req[q].at # "awaiting" /\ ~Reconfigures(q)
    BY <1>8, <2>1
  <2>3. NoStray'
    BY <1>5, <2>1 DEF Others
  <2>4. BotsOf(adapters') = enabled' \ Reverse
    BY <1>2, <2>1, <2>2 DEF Applied
  <2> QED BY <1>4, <2>1, <2>2, <2>3, <2>4 DEF Stopping, Reconfigures
<1>20. ASSUME UNCHANGED <<enabled, adapters, tasks, req>>,
              \A l \in Loops : /\ At(l)' \in Live /\ l[2] = 1 => At(l) \in Live
                               /\ At(l) \in {"cancelled", "ended"} => At(l)' \in {"cancelled", "ended"}
       PROVE  OneByOne' /\ Lists' /\ Applied' /\ NoStray'
  <2>1. NoStray'
    BY <1>5, <1>20
  <2>2. OneByOne'
    <3>1. \A q \in Requests : Inactive(q)' <=> Inactive(q)
      BY <1>20 DEF Inactive
    <3> QED BY <1>2, <3>1 DEF OneByOne
  <2>3. Lists'
    <3>1. WithTask' = WithTask /\ \A q \in Requests : req'[q] = req[q]
      BY <1>20 DEF WithTask
    <3> SUFFICES ASSUME NEW q \in Requests
                 PROVE  /\ req[q].at \in Stopping => WithTask \subseteq req[q].todo
                        /\ req[q].at = "sweeping" => req[q].todo = {}
                        /\ req[q].at = "awaiting" =>
                             \A l \in Loops : req[q].task = l => At(l)' \in {"cancelled", "ended"}
      BY <3>1 DEF Lists
    <3> QED BY <1>2, <1>20 DEF Lists
  <2>4. Applied'
    BY <1>2, <1>20 DEF Applied, Reconfigures
  <2> QED BY <2>1, <2>2, <2>3, <2>4
<1>21. ASSUME NEW l \in Loops, LoopStep(l)
       PROVE  OneByOne' /\ Lists' /\ Applied' /\ NoStray'
  <2>1. /\ \A k \in Loops \ {l} : At(k)' = At(k)
        /\ At(l) \in Live \cup {"submitted"} /\ At(l)' \in Live \cup {"ended"}
        /\ At(l) = "cancelled" => At(l)' = "ended"
        /\ UNCHANGED <<enabled, adapters, tasks, req>>
    BY <1>21, LoopDoes
  <2>2. At(l) = "submitted" => l[2] > 1
    BY DEF ConnInv, Sockets
  <2>3. At(l) # "ended"
    BY <2>1 DEF Live
  <2> QED BY <1>20, <2>1, <2>2, <2>3
<1>22. ASSUME NEW c \in Clients, Dial(c) \/ HangUp(c)
       PROVE  OneByOne' /\ Lists' /\ Applied' /\ NoStray'
  BY <1>7, <1>20, <1>22, ClientDoes
<1> QED BY <1>11, <1>12, <1>13, <1>14, <1>16, <1>17, <1>18, <1>19, <1>21, <1>22
        DEF Next, RequestStep, LoopStep

LEMMA SocketsKept ==
    ASSUME ConnInv, TypeOK', Next
    PROVE  Sockets'
<1>1. Sockets /\ ws \in [Objs -> Loops \cup Clients \cup {NoSock}]
  BY DEF ConnInv, TypeOK
<1>2. \A l \in Loops : l[1] \in Objs /\ l[2] \in Starts /\ l = <<l[1], l[2]>>
  BY DEF Loops
<1>3. \A i \in Starts : i \in Nat /\ i >= 1
  BY FS_CardinalityType DEF Starts
\* Requests touch no socket and receive nothing.
<1>4. ASSUME UNCHANGED <<ws, client>>, history \subseteq history',
             \A l \in Loops : \/ At(l)' = At(l)
                              \/ At(l) \in Live /\ At(l)' \in {"cancelled", "dropped"}
                              \/ At(l)' = "created" /\ l[2] = 1
                              \/ At(l)' = "submitted" /\ l[2] > 1
      PROVE  Sockets'
  <2>1. \A l \in Loops : At(l)' = "submitted" => l[2] > 1
    BY <1>1, <1>4 DEF Sockets
  <2>2. "pool" \notin history' => \A l \in Loops : l[2] > 1 => At(l)' \in {"none", "submitted"}
    BY <1>1, <1>2, <1>3, <1>4 DEF Sockets, Live
  <2>3. \A l \in Loops : At(l)' = "receiving" => At(l) = "receiving"
    BY <1>4
  <2> QED BY <1>1, <1>4, <2>1, <2>2, <2>3 DEF Sockets
<1>5. ASSUME NEW o \in Objs, Drops(o), UNCHANGED <<ws, client>>, history \subseteq history'
      PROVE  Sockets'
  BY <1>4, <1>5 DEF Drops, Live
<1>6. ASSUME UNCHANGED <<ws, client, loop>>, history \subseteq history' PROVE Sockets'
  BY <1>4, <1>6 DEF At
<1>7. ASSUME NEW r \in Requests, NEW b \in Bots, BeginReconfigure(r, b) PROVE Sockets'
  BY <1>6, <1>7, ReconfigureDoes
<1>8. ASSUME NEW r \in Requests, NEW b \in Bots, BeginReconnect(r, b) PROVE Sockets'
  BY <1>5, <1>8, ReconnectDoes
<1>9. ASSUME NEW r \in Requests, BeginShutdown(r) PROVE Sockets'
  BY <1>6, <1>9, ShutdownDoes
<1>10. ASSUME NEW r \in Requests, StopNext(r) PROVE Sockets'
  BY <1>4, <1>10, StopNextDoes
<1>11. ASSUME NEW r \in Requests, TaskAwaited(r) PROVE Sockets'
  BY <1>5, <1>6, <1>11, AwaitedDoes
<1>12. ASSUME NEW r \in Requests, Closed(r) \/ AllStopped(r) PROVE Sockets'
  BY <1>6, <1>12, ClosedDoes, AllStoppedDoes
<1>13. ASSUME NEW r \in Requests, BeginSweep(r) \/ SweepNext(r) PROVE Sockets'
  BY <1>5, <1>6, <1>13, SweepDoes
<1>14. ASSUME NEW r \in Requests, Adopt(r) PROVE Sockets'
  <2>1. \A l \in Loops : l \in StartedBy(req[r].new) => l[2] = 1
    BY DEF StartedBy
  <2> QED BY <1>4, <1>14, <2>1, AdoptDoes
<1>15. ASSUME NEW r \in Requests, Resubmit(r) PROVE Sockets'
  BY <1>4, <1>15, ResubmitDoes
<1>16. ASSUME NEW l \in Loops, LoopStep(l) PROVE Sockets'
  <2>1. /\ l[1] \in Objs
        /\ \A k \in Loops \ {l} : At(k)' = At(k)
        /\ At(l) \in Live \cup {"submitted"} /\ At(l)' \in Live \cup {"ended"}
        /\ At(l) = "submitted" => "pool" \in history'
        /\ IF At(l)' = "receiving"
             THEN ws'[l[1]] = l /\ \A o \in Objs \ {l[1]} : ws'[o] = ws[o]
             ELSE ws' = ws
        /\ history \subseteq history' /\ client' = client
    BY <1>16, LoopDoes
  <2>2. \A o \in Objs : ws'[o] \in Loops => ws'[o][1] = o
    BY <1>1, <2>1 DEF Sockets
  <2>3. \A k \in Loops : At(k)' = "submitted" => k[2] > 1
    BY <1>1, <2>1 DEF Sockets, Live
  <2>4. "pool" \notin history' => \A k \in Loops : k[2] > 1 => At(k)' \in {"none", "submitted"}
    BY <1>1, <2>1 DEF Sockets, Live
  <2>5. "crossed" \notin history' => \A c \in Clients : client'[c] \notin Objs
    BY <1>1, <2>1 DEF Sockets
  <2>6. ASSUME {"pool", "crossed"} \cap history' = {}, NEW k \in Loops, At(k)' = "receiving"
        PROVE  ws'[k[1]] = k
    <3>1. CASE k = l
      BY <2>1, <2>6, <3>1
    <3>2. CASE k # l /\ k[1] # l[1]
      <4>1. ws[k[1]] = k
        BY <1>1, <2>1, <2>6, <3>2 DEF Sockets
      <4> QED BY <1>2, <2>1, <3>2, <4>1
    <3>3. CASE k # l /\ k[1] = l[1]
      <4>1. ~(k[2] > 1) /\ At(k) = "receiving"
        BY <2>1, <2>4, <2>6, <3>3
      <4>2. ~(l[2] > 1)
        BY <2>1, <2>4, <2>6 DEF Live
      <4>3. k[2] = 1 /\ l[2] = 1
        BY <1>2, <1>3, <4>1, <4>2
      <4> QED BY <1>2, <3>3, <4>3
    <3> QED BY <3>1, <3>2, <3>3
  <2> QED BY <2>2, <2>3, <2>4, <2>5, <2>6 DEF Sockets
<1>17. ASSUME NEW c \in Clients, Dial(c) \/ HangUp(c) PROVE Sockets'
  <2>1. /\ history \subseteq history' /\ UNCHANGED loop
        /\ \A o \in Objs : ws'[o] = ws[o] \/ ws'[o] \notin Loops
        /\ \A d \in Clients \ {c} : client'[d] = client[d]
    BY <1>17, ClientDoes
  <2>2. \/ ws' = ws /\ client[c] \notin Objs /\ client'[c] \notin Objs
        \/ "crossed" \in history'
        \/ client[c] \in Objs /\ client'[c] \notin Objs
    BY <1>17, ClientDoes
  <2>3. \A l \in Loops : At(l)' = At(l)
    BY <2>1 DEF At
  <2>4. \A o \in Objs : ws'[o] \in Loops => ws'[o][1] = o
    BY <1>1, <2>1 DEF Sockets
  <2>5. /\ \A l \in Loops : At(l)' = "submitted" => l[2] > 1
        /\ "pool" \notin history' => \A l \in Loops : l[2] > 1 => At(l)' \in {"none", "submitted"}
    BY <1>1, <2>1, <2>3 DEF Sockets
  <2>6. "crossed" \notin history' => \A d \in Clients : client'[d] \notin Objs
    BY <1>1, <2>1, <2>2 DEF Sockets
  <2>7. {"pool", "crossed"} \cap history' = {} =>
           \A l \in Loops : At(l)' = "receiving" => ws'[l[1]] = l
    <3>1. "crossed" \notin history' => client[c] \notin Objs
      BY <1>1, <2>1 DEF Sockets
    <3> QED BY <1>1, <2>1, <2>2, <2>3, <3>1 DEF Sockets
  <2> QED BY <2>4, <2>5, <2>6, <2>7 DEF Sockets
<1> QED BY <1>7, <1>8, <1>9, <1>10, <1>11, <1>12, <1>13, <1>14, <1>15, <1>16, <1>17
        DEF Next, RequestStep, LoopStep

LEMMA EvidenceKept ==
    ASSUME ConnInv, TypeOK', Next
    PROVE  Evidence'
<1> DEFINE Shown(b) == \/ \E l \in Loops : BotOf(l[1]) = b /\ At(l) = "receiving"
                       \/ \E c \in Clients : client[c] \in Objs /\ BotOf(client[c]) = b
                       \/ \E r \in Requests : req[r].at = "awaiting" /\ req[r].bot = b
                                               /\ req[r].obj # NoObj
<1>1. \A b \in Bots : status[b] = "connected" => Shown(b)
  BY DEF ConnInv, Evidence, Receiving, Serving
<1>2. ASSUME \A b \in Bots : status'[b] = "connected" => Shown(b)'
      PROVE  Evidence'
  <2> SUFFICES ASSUME NEW b \in Bots, Shown(b)'
               PROVE  \/ Receiving(b)' # {} \/ Serving(b)' # {}
                      \/ \E r \in Requests : req'[r].at = "awaiting" /\ req'[r].bot = b
                                             /\ req'[r].obj # NoObj
    BY <1>2 DEF Evidence
  <2> QED BY DEF Receiving, Serving
<1>3. \A l \in Loops : l[1] \in Objs /\ BotOf(l[1]) \in Bots
  BY DEF Loops, Objs, BotOf
\* Requests: a bot stays connected only if none of its loops stops receiving, and no
\* request stops awaiting its task.
<1>4. ASSUME NEW r \in Requests, Others(r), UNCHANGED client, req[r].at # "awaiting",
             \A b \in Bots : status'[b] = "connected" =>
               /\ status[b] = "connected"
               /\ \/ Shown(b)'
                  \/ \A l \in Loops : BotOf(l[1]) = b /\ At(l) = "receiving" => At(l)' = "receiving"
      PROVE  Evidence'
  <2> SUFFICES ASSUME NEW b \in Bots, status'[b] = "connected", ~Shown(b)'
               PROVE  FALSE
    BY <1>2
  <2>1. \A l \in Loops : BotOf(l[1]) = b /\ At(l) = "receiving" => At(l)' = "receiving"
    BY <1>4
  <2>2. Shown(b)
    BY <1>1, <1>4
  <2>3. \A q \in Requests : req[q].at = "awaiting" => q # r /\ req'[q] = req[q]
    BY <1>4 DEF Others
  <2> QED BY <1>4, <2>1, <2>2, <2>3
<1>5. UNCHANGED loop => \A l \in Loops : At(l)' = At(l)
  BY DEF At
<1>6. ASSUME NEW o, Drops(o), NEW b \in Bots, status'[b] = "connected"
      PROVE  /\ status[b] = "connected"
             /\ \A l \in Loops : BotOf(l[1]) = b /\ At(l) = "receiving" => At(l)' = "receiving"
  BY <1>6 DEF Drops
<1>7. ASSUME NEW r \in Requests, NEW b \in Bots, BeginReconfigure(r, b) PROVE Evidence'
  BY <1>4, <1>5, <1>7, ReconfigureDoes
<1>8. ASSUME NEW r \in Requests, NEW b \in Bots, BeginReconnect(r, b) PROVE Evidence'
  BY <1>4, <1>6, <1>8, ReconnectDoes
<1>9. ASSUME NEW r \in Requests, BeginShutdown(r) PROVE Evidence'
  BY <1>4, <1>5, <1>9, ShutdownDoes
<1>10. ASSUME NEW r \in Requests, StopNext(r) PROVE Evidence'
  <2>1. PICK b \in req[r].todo :
             /\ b \in Bots /\ req[r].at = "stopping" /\ req'[r].at = "awaiting"
             /\ req'[r].bot = b /\ req'[r].obj = ObjFor(b, adapters) /\ Others(r)
             /\ \A l \in Loops : At(l)' = IF l = tasks[b] /\ At(l) \in Live THEN "cancelled"
                                                                         ELSE At(l)
             /\ UNCHANGED <<status, client>>
    BY <1>10, StopNextDoes
  <2>2. ASSUME NEW x \in Bots, ~Shown(x)'
        PROVE  \A l \in Loops : BotOf(l[1]) = x /\ At(l) = "receiving" => At(l)' = "receiving"
    <3> SUFFICES ASSUME NEW l \in Loops, BotOf(l[1]) = x, l = tasks[b] PROVE FALSE
      BY <2>1
    <3>1. tasks[b] = StartAll(adapters)[b] /\ l # NoLoop /\ Manageable(adapters)
      BY <2>1 DEF ConnInv, Books
    <3>2. l = <<ObjFor(b, adapters), 1>> /\ ObjFor(b, adapters) # NoObj
      BY <2>1, <3>1 DEF StartAll
    <3>3. BotOf(l[1]) = b
      BY <2>1, <3>1, <3>2, ObjForFinds
    <3> QED BY <2>1, <2>2, <3>2, <3>3
  <2> HIDE DEF Shown
  <2> QED BY <1>4, <2>1, <2>2
<1>11. ASSUME NEW r \in Requests, TaskAwaited(r) PROVE Evidence'
  <2>1. /\ req[r].at = "awaiting" /\ Others(r) /\ client' = client
        /\ IF req[r].obj = NoObj THEN UNCHANGED <<status, loop>>
                                 ELSE req[r].obj \in Objs /\ Drops(req[r].obj)
    BY <1>11, AwaitedDoes
  <2> SUFFICES ASSUME NEW b \in Bots, status'[b] = "connected" PROVE Shown(b)'
    BY <1>2
  <2>2. /\ status[b] = "connected"
        /\ \A l \in Loops : BotOf(l[1]) = b /\ At(l) = "receiving" => At(l)' = "receiving"
    BY <1>5, <1>6, <2>1
  <2>3. req[r].obj # NoObj => req[r].bot # b
    <3>1. req[r].obj # NoObj => BotOf(req[r].obj) = req[r].bot
      BY <2>1 DEF ConnInv, Sane, Proper
    <3>2. req[r].obj # NoObj => BotOf(req[r].obj) # b
      BY <2>1 DEF Drops
    <3> QED BY <3>1, <3>2
  <2>4. \A q \in Requests : req[q].at = "awaiting" /\ req[q].bot = b /\ req[q].obj # NoObj =>
           req'[q] = req[q]
    BY <2>1, <2>3 DEF Others
  <2> QED BY <1>1, <2>1, <2>2, <2>4
<1>12. ASSUME NEW r \in Requests, Closed(r) \/ AllStopped(r) PROVE Evidence'
  <2>1. /\ req[r].at # "awaiting" /\ Others(r) /\ UNCHANGED <<loop, client>>
        /\ \A b \in Bots : status'[b] = "connected" => status[b] = "connected"
    BY <1>12, ClosedDoes, AllStoppedDoes
  <2> QED BY <1>4, <1>5, <2>1
<1>13. ASSUME NEW r \in Requests, BeginSweep(r) \/ SweepNext(r) PROVE Evidence'
  <2>1. /\ req[r].at # "awaiting" /\ Others(r) /\ UNCHANGED client
        /\ UNCHANGED <<status, loop>> \/ (\E o \in Objs : Drops(o))
    BY <1>13, SweepDoes
  <2> QED BY <1>4, <1>5, <1>6, <2>1
<1>14. ASSUME NEW r \in Requests, Adopt(r) PROVE Evidence'
  <2> DEFINE new == req[r].new
  <2>1. /\ req[r].at # "awaiting" /\ Others(r) /\ UNCHANGED client /\ Manageable(new)
        /\ \A l \in Loops : At(l)' = IF l \in StartedBy(new) THEN "created" ELSE At(l)
        /\ \A b \in Bots : status'[b] = "connected" =>
              status[b] = "connected" /\ ObjFor(b, new) = NoObj
    BY <1>14, AdoptDoes
  <2> HIDE DEF new
  <2>2. ASSUME NEW b \in Bots, ObjFor(b, new) = NoObj, NEW l \in Loops, BotOf(l[1]) = b
        PROVE  l \notin StartedBy(new)
    <3> SUFFICES ASSUME NEW o \in new, l = <<o, 1>> PROVE FALSE
      BY DEF StartedBy
    <3>1. BotOf(o) = b
      BY <2>2
    <3> QED BY <2>1, <2>2, <3>1, ObjForFinds
  <2> HIDE DEF Shown
  <2>3. ASSUME NEW b \in Bots, status'[b] = "connected"
        PROVE  /\ status[b] = "connected"
               /\ \A l \in Loops : BotOf(l[1]) = b /\ At(l) = "receiving" => At(l)' = "receiving"
    BY <2>1, <2>2, <2>3
  <2> QED BY <1>4, <2>1, <2>3
<1>15. ASSUME NEW r \in Requests, Resubmit(r) PROVE Evidence'
  <2>1. /\ req[r].at # "awaiting" /\ Others(r) /\ UNCHANGED <<status, client>>
        /\ \A l \in Loops : At(l) = "receiving" => At(l)' = "receiving"
    BY <1>15, ResubmitDoes
  <2> QED BY <1>4, <2>1
<1>16. ASSUME NEW l \in Loops, LoopStep(l) PROVE Evidence'
  <2>1. /\ \A k \in Loops \ {l} : At(k)' = At(k)
        /\ At(l) = "receiving" => status'[BotOf(l[1])] # "connected"
        /\ \A b \in Bots \ {BotOf(l[1])} : status'[b] = status[b]
        /\ status'[BotOf(l[1])] = "connected" =>
              status[BotOf(l[1])] = "connected" \/ At(l)' = "receiving"
        /\ UNCHANGED <<req, client>>
    BY <1>16, LoopDoes
  <2> SUFFICES ASSUME NEW b \in Bots, status'[b] = "connected" PROVE Shown(b)'
    BY <1>2
  <2>2. CASE b = BotOf(l[1]) /\ At(l)' = "receiving"
    BY <2>2
  <2>3. CASE ~(b = BotOf(l[1]) /\ At(l)' = "receiving")
    <3>1. status[b] = "connected"
      BY <2>1, <2>3
    <3>2. \A k \in Loops : BotOf(k[1]) = b /\ At(k) = "receiving" => At(k)' = "receiving"
      BY <2>1
    <3>3. Shown(b)
      BY <1>1, <3>1
    <3> QED BY <2>1, <3>2, <3>3
  <2> QED BY <2>2, <2>3
<1>17. ASSUME NEW c \in Clients, Dial(c) \/ HangUp(c) PROVE Evidence'
  <2>1. /\ UNCHANGED <<loop, req>>
        /\ \A d \in Clients \ {c} : client'[d] = client[d]
        /\ \/ status' = status /\ client[c] \notin Objs /\ client'[c] \notin Objs
           \/ /\ client[c] \notin Objs /\ client'[c] \in Objs
              /\ \A b \in Bots \ {BotOf(client'[c])} : status'[b] = status[b]
           \/ /\ client[c] \in Objs /\ client'[c] \notin Objs
              /\ status'[BotOf(client[c])] = "disconnected"
              /\ \A b \in Bots \ {BotOf(client[c])} : status'[b] = status[b]
    BY <1>17, ClientDoes
  <2> SUFFICES ASSUME NEW b \in Bots, status'[b] = "connected" PROVE Shown(b)'
    BY <1>2
  <2>2. CASE client'[c] \in Objs /\ b = BotOf(client'[c])
    BY <2>2
  <2>3. CASE ~(client'[c] \in Objs /\ b = BotOf(client'[c]))
    <3>1. status[b] = "connected"
      BY <2>1, <2>3
    <3>2. Shown(b)
      BY <1>1, <3>1
    <3>3. \A d \in Clients : client[d] \in Objs /\ BotOf(client[d]) = b => client'[d] = client[d]
      BY <2>1
    <3> QED BY <1>5, <2>1, <3>2, <3>3
  <2> QED BY <2>2, <2>3
<1> QED BY <1>7, <1>8, <1>9, <1>10, <1>11, <1>12, <1>13, <1>14, <1>15, <1>16, <1>17
        DEF Next, RequestStep, LoopStep

(***************************************************************************)
(* The beginning, and the invariant.                                       *)
(***************************************************************************)
LEMMA InitHolds ==
    ASSUME Init
    PROVE  ConnInv
<1>1. /\ enabled = Bots /\ builds = 0 /\ adapters = Forward(Built(Bots, 0))
      /\ tasks = StartAll(adapters)
      /\ registered = [b \in Bots |-> <<b, 0>>] /\ status = [b \in Bots |-> "registered"]
      /\ req = [r \in Requests |-> Idle] /\ client = [c \in Clients |-> NoObj]
      /\ ws = [o \in Objs |-> NoSock] /\ halted = {} /\ history = {}
      /\ running = [o \in Objs |-> FALSE] /\ generation = [o \in Objs |-> 0]
  BY DEF Init
<1>2. 0 \in Builds /\ 1 \in Starts
  BY FS_CardinalityType DEF Builds, Starts
<1>3. Manageable(adapters) /\ BotsOf(adapters) = Bots \ Reverse
  BY <1>1, <1>2, ForwardOfBuilt
<1>4. \A l \in Loops : At(l) = IF l \in StartedBy(adapters) THEN "created" ELSE "none"
  <2>1. [Blank EXCEPT !.at = "created"].at = "created" /\ Blank.at = "none"
    BY DEF Blank
  <2> QED BY <2>1 DEF Init, At
<1>5. \A l \in StartedBy(adapters) : l[2] = 1 /\ l[1] \in adapters /\ l = <<l[1], 1>>
  BY DEF StartedBy
<1>6. ASSUME NEW b \in Bots
      PROVE  /\ ObjFor(b, adapters) \in Objs \cup {NoObj}
             /\ b \notin Reverse => ObjFor(b, adapters) = <<b, 0>>
             /\ ObjFor(b, adapters) # NoObj => ObjFor(b, adapters) \in adapters
             /\ ObjFor(b, adapters) # NoObj => <<ObjFor(b, adapters), 1>> \in Loops
  <2>1. b \notin Reverse => <<b, 0>> \in adapters /\ BotOf(<<b, 0>>) = b
    BY <1>1 DEF Forward, Built, BotOf
  <2>2. ObjFor(b, adapters) # NoObj => ObjFor(b, adapters) \in adapters
    BY <1>3, ObjForFinds
  <2>3. adapters \subseteq Objs
    BY <1>3 DEF Manageable
  <2> QED BY <1>2, <1>3, <2>1, <2>2, <2>3, ObjForFinds DEF Loops
<1>7. \A r \in Requests : /\ req[r] = Idle /\ req[r].at = "idle" /\ req[r].kind = "none"
                           /\ req[r].new = {}
  BY <1>1 DEF Idle
<1>8. TypeOK
  <2>1. tasks \in [Bots -> Loops \cup {NoLoop}]
    BY <1>1, <1>6 DEF StartAll
  <2>2. registered \in [Bots -> Objs \cup {NoObj}] /\ status \in [Bots -> Statuses]
    BY <1>1, <1>2 DEF Objs, Statuses
  <2>3. loop \in [Loops -> [at : Points, gen : Nat, tries : 0..MaxAttempts]]
    <3>1. {Blank, [Blank EXCEPT !.at = "created"]} \subseteq
            [at : Points, gen : Nat, tries : 0..MaxAttempts]
      BY DEF Blank, Points
    <3> QED BY <3>1 DEF Init
  <2>4. req \in [Requests -> ReqRec]
    BY <1>1, IdleIsRec
  <2>5. adapters \subseteq Objs
    BY <1>3 DEF Manageable
  <2> QED BY <1>1, <1>2, <2>1, <2>2, <2>3, <2>4, <2>5 DEF TypeOK, ReqRec
<1>9. Counted
  <2>1. Issued = {}
    BY <1>7 DEF Issued
  <2> QED BY <1>1, <2>1, FS_EmptySet DEF Counted
<1>10. Sane
  <2>1. Manageable({})
    BY DEF Manageable
  <2> QED BY <1>7, <2>1 DEF Sane, Proper, Stopping
<1>11. Books
  <2>1. \A b \in Bots : \A l \in Loops : tasks[b] = l => At(l) # "none"
    <3> SUFFICES ASSUME NEW b \in Bots, NEW l \in Loops, tasks[b] = l PROVE At(l) # "none"
      OBVIOUS
    <3>1. l = <<ObjFor(b, adapters), 1>> /\ ObjFor(b, adapters) # NoObj
      BY <1>1 DEF StartAll
    <3>2. l \in StartedBy(adapters)
      BY <1>6, <3>1 DEF StartedBy
    <3> QED BY <1>4, <3>2
  <2>2. \A b \in Bots \ Reverse : registered[b] = ObjFor(b, adapters)
    BY <1>1, <1>6
  <2> QED BY <1>1, <1>3, <2>1, <2>2 DEF Books
<1>12. InTurn
  <2>1. OneByOne
    BY <1>7 DEF OneByOne, Inactive
  <2>2. Lists
    BY <1>7 DEF Lists, Stopping
  <2>3. Applied
    BY <1>1, <1>3, <1>7 DEF Applied, Reconfigures, Stopping
  <2>4. NoStray
    <3> SUFFICES ASSUME NEW l \in Loops, At(l) \in Live PROVE tasks[BotOf(l[1])] = l
      BY DEF NoStray
    <3>1. l \in StartedBy(adapters)
      BY <1>4 DEF Live
    <3>2. l[1] \in adapters /\ l = <<l[1], 1>> /\ BotOf(l[1]) \in Bots
      BY <1>5, <3>1 DEF Loops, Objs, BotOf
    <3>3. ObjFor(BotOf(l[1]), adapters) = l[1] /\ l[1] # NoObj
      BY <1>3, <3>2, ObjForFinds
    <3> QED BY <1>1, <3>2, <3>3 DEF StartAll
  <2> QED BY <2>1, <2>2, <2>3, <2>4 DEF InTurn
<1>13. Sockets
  <2>1. \A o \in Objs : ws[o] \notin Loops
    BY <1>1
  <2>2. \A c \in Clients : client[c] \notin Objs
    BY <1>1
  <2>3. \A l \in Loops : At(l) \in {"created", "none"} /\ (l[2] > 1 => At(l) = "none")
    BY <1>4, <1>5
  <2> QED BY <2>1, <2>2, <2>3 DEF Sockets
<1>14. Evidence
  BY <1>1 DEF Evidence
<1> QED BY <1>8, <1>9, <1>10, <1>11, <1>12, <1>13, <1>14 DEF ConnInv

\* Everything that ConnInv says of a step that changes nothing.
LEMMA Stutters ==
    ASSUME ConnInv, UNCHANGED vars
    PROVE  ConnInv'
<1>1. /\ enabled' = enabled /\ builds' = builds /\ adapters' = adapters /\ tasks' = tasks
      /\ registered' = registered /\ status' = status /\ running' = running
      /\ generation' = generation /\ ws' = ws /\ loop' = loop /\ req' = req
      /\ client' = client /\ halted' = halted /\ history' = history
  BY DEF vars
<1>2. TypeOK'
  BY <1>1 DEF ConnInv, TypeOK
<1>3. Counted'
  BY <1>1 DEF ConnInv, Counted, Issued
<1>4. Sane'
  BY <1>1 DEF ConnInv, Sane
<1>5. Books'
  BY <1>1 DEF ConnInv, Books, At, Reconfigures
<1>6. InTurn'
  BY <1>1 DEF ConnInv, InTurn, OneByOne, Lists, Applied, NoStray, Inactive, WithTask, At,
              Reconfigures
<1>7. Sockets'
  BY <1>1 DEF ConnInv, Sockets, At
<1>8. Evidence'
  BY <1>1 DEF ConnInv, Evidence, Receiving, Serving, At
<1> QED BY <1>2, <1>3, <1>4, <1>5, <1>6, <1>7, <1>8 DEF ConnInv

(* The invariant holds: tables, requests, loops and sockets stay as it says. *)
THEOREM Invariance == Spec => []ConnInv
<1>1. Init => ConnInv
  BY InitHolds
<1>2. ConnInv /\ [Next]_vars => ConnInv'
  <2>1. ASSUME ConnInv, Next PROVE ConnInv'
    <3>1. TypeOK' /\ Counted'
      BY <2>1, TypesKept
    <3> QED BY <2>1, <3>1, SaneKept, BooksKept, InTurnKept, SocketsKept, EvidenceKept DEF ConnInv
  <2> QED BY <2>1, Stutters
<1> QED BY <1>1, <1>2, PTL DEF Spec

(* Every variable keeps its type; in particular a request's build is one of *)
(* the builds there are requests for.                                       *)
THEOREM Typed == Spec => []TypeOK
<1>1. ConnInv => TypeOK
  BY DEF ConnInv
<1> QED BY <1>1, Invariance, PTL

(* No interleaving leaves a bot shown as connected behind a dead link.      *)
THEOREM StatusIsTrue == Spec => []ConnectedIsTrue
<1>1. ConnInv => ConnectedIsTrue
  BY DEF ConnInv, Evidence, ConnectedIsTrue
<1> QED BY <1>1, Invariance, PTL

(* Between requests the manager, the task table and BotClient agree, however *)
(* the requests overlapped.                                                  *)
THEOREM TablesAgree == Spec => []BooksAgree
<1>1. ConnInv => BooksAgree
  <2> SUFFICES ASSUME ConnInv, Quiet, "down" \notin history
               PROVE  /\ tasks = StartAll(adapters)
                      /\ \A b \in Bots \ Reverse : registered[b] = ObjFor(b, adapters)
    BY DEF BooksAgree
  <2>1. \A r \in Requests : req[r].at \notin Stopping
    BY DEF Quiet, Inactive, Stopping
  <2> QED BY <2>1 DEF ConnInv, Books, Reconfigures
<1> QED BY <1>1, Invariance, PTL

(* Requests that take turns leave no loop that nobody can stop.             *)
THEOREM TurnsLeaveNoOrphan == Spec => []NoOrphanInTurn
<1>1. ConnInv => NoOrphanInTurn
  <2> SUFFICES ASSUME ConnInv, "overlap" \notin history, Quiet,
                      NEW l \in Loops, At(l) \in Live, l[2] = 1
               PROVE  tasks[BotOf(l[1])] = l
    BY DEF NoOrphanInTurn, NoOrphan, LiveLoops
  <2>1. \A r \in Requests : req[r].at # "awaiting"
    BY DEF Quiet, Inactive
  <2> QED BY <2>1 DEF ConnInv, InTurn, NoStray
<1> QED BY <1>1, Invariance, PTL

\* A loop that receives while requests take turns and the pool starts nothing.
LEMMA ReceiverIsListed ==
    ASSUME ConnInv, history \cap {"overlap", "pool"} = {}, NEW b \in Bots, NEW l \in Receiving(b)
    PROVE  l = tasks[b] /\ BotOf(l[1]) = b /\ l[1] \in Objs /\ At(l) = "receiving" /\ l \in Loops
<1>1. l \in Loops /\ BotOf(l[1]) = b /\ At(l) = "receiving" /\ At(l) \in Live
  BY DEF Receiving, Live
<1>2. l[1] \in Objs /\ l[2] \in Starts
  BY <1>1 DEF Loops
<1>3. l[2] = 1
  <2>1. ~(l[2] > 1)
    BY <1>1 DEF ConnInv, Sockets
  <2> QED BY <1>2, <2>1, FS_CardinalityType DEF Starts
<1>4. \A r \in Requests : req[r].at = "awaiting" => req[r].task # l
  BY <1>1 DEF ConnInv, InTurn, Lists
<1> QED BY <1>1, <1>2, <1>3, <1>4 DEF ConnInv, InTurn, NoStray

(* A bot has one receive loop at most, and one it is shown connected by is  *)
(* one it can send through, while requests take turns, the pool starts      *)
(* nothing and no reverse client is handed to another bot's adapter.        *)
THEOREM LinkIsOne == Spec => []OneLink
<1>1. ConnInv => OneReceiver
  <2> SUFFICES ASSUME ConnInv, history \cap {"overlap", "pool"} = {}, NEW b \in Bots
               PROVE  Cardinality(Receiving(b)) <= 1
    BY DEF OneReceiver
  <2>1. Receiving(b) \subseteq {tasks[b]}
    BY ReceiverIsListed
  <2>2. IsFiniteSet({tasks[b]}) /\ Cardinality({tasks[b]}) = 1
    BY FS_Singleton
  <2>3. Cardinality(Receiving(b)) <= Cardinality({tasks[b]})
    BY <2>1, <2>2, FS_Subset
  <2> QED BY <2>2, <2>3
<1>2. ConnInv => ConnectedCanSend
  <2> SUFFICES ASSUME ConnInv, Quiet, history \cap {"overlap", "pool", "crossed"} = {},
                      NEW b \in Bots, status[b] = "connected"
               PROVE  \E o \in Objs : registered[b] = o /\ ws[o] \in Receiving(b)
    BY DEF ConnectedCanSend
  <2>1. \A r \in Requests : req[r].at \notin Stopping
    BY DEF Quiet, Inactive, Stopping
  <2>2. Serving(b) = {}
    BY DEF ConnInv, Sockets, Serving
  <2>3. PICK l \in Receiving(b) : TRUE
    BY <2>1, <2>2 DEF ConnInv, Evidence, Stopping
  <2>4. l = tasks[b] /\ BotOf(l[1]) = b /\ l[1] \in Objs /\ At(l) = "receiving" /\ l \in Loops
    <3>1. history \cap {"overlap", "pool"} = {}
      OBVIOUS
    <3> QED BY <2>3, <3>1, ReceiverIsListed
  <2>5. ws[l[1]] = l
    <3>1. {"pool", "crossed"} \cap history = {}
      OBVIOUS
    <3> QED BY <2>4, <3>1 DEF ConnInv, Sockets
  <2>6. tasks[b] = StartAll(adapters)[b] /\ Manageable(adapters)
    BY <2>4 DEF ConnInv, Books
  <2>7. l = <<ObjFor(b, adapters), 1>> /\ ObjFor(b, adapters) # NoObj
    BY <2>4, <2>6 DEF StartAll
  <2>8. ObjFor(b, adapters) \in adapters /\ b \notin Reverse
    BY <2>6, <2>7, ObjForFinds DEF Manageable
  <2>9. registered[b] = l[1]
    BY <2>1, <2>7, <2>8 DEF ConnInv, Books, Reconfigures
  <2> QED BY <2>3, <2>4, <2>5, <2>9
<1>3. ConnInv => OneLink
  BY <1>1, <1>2 DEF OneLink
<1> QED BY <1>3, Invariance, PTL

(***************************************************************************)
(* What runs.  A loop that the pool has is one of an object that was       *)
(* halted; the manager's own loop of any other adapter goes on, whenever   *)
(* nobody stops the adapters; and once the shutdown is over no task is     *)
(* left.                                                                   *)
(***************************************************************************)
Handed ==
    /\ \A l \in Loops : l[2] > 1 /\ At(l) # "none" => l[1] \in halted
    /\ \A r \in Requests : req[r].at = "resubmit" => req[r].obj \in halted

GoesOn(l) == \/ At(l) = "created"
             \/ At(l) \in {"connecting", "receiving", "backoff"} /\ Current(l)

NobodyStops == \A r \in Requests : req[r].at \notin Stopping

Driven == NobodyStops /\ "down" \notin history => \A o \in adapters \ halted : GoesOn(<<o, 1>>)

Ending == "down" \in history =>
    /\ \A r \in Requests : Inactive(r) \/ req[r].kind = "shutdown"
    /\ "overlap" \notin history /\ NobodyStops => WithTask = {}

Grows == halted \subseteq halted' /\ history \subseteq history'

LEMMA StepGrows == ASSUME Next PROVE Grows
BY DEF Next, RequestStep, BeginReconfigure, BeginReconnect, BeginShutdown, StopNext, TaskAwaited,
       Closed, BeginSweep, SweepNext, Adopt, AllStopped, Resubmit, LoopBegins, Connected,
       LoopFails, LoopWakes, LoopUnwinds, Dial, HangUp, Grows

LEMMA HandedKept ==
    ASSUME ConnInv, Handed, TypeOK', Next
    PROVE  Handed'
<1>1. Grows
  BY StepGrows
<1>2. ASSUME \A l \in Loops : l[2] > 1 /\ At(l)' # "none" => At(l) # "none" \/ l[1] \in halted,
             \A r \in Requests : req'[r].at = "resubmit" =>
                req'[r] = req[r] \/ req'[r].obj \in halted'
      PROVE  Handed'
  BY <1>1, <1>2 DEF Handed, Grows
<1>3. UNCHANGED loop => \A l \in Loops : At(l)' = At(l)
  BY DEF At
<1>4. ASSUME NEW o, Drops(o), NEW l \in Loops, At(l)' # "none" PROVE At(l) # "none"
  BY <1>4 DEF Drops
\* A step of request r that leaves the pool's loops alone and does not await as "resubmit".
<1>5. ASSUME NEW r \in Requests, Others(r), req'[r].at # "resubmit",
             \A l \in Loops : l[2] > 1 /\ At(l)' # "none" => At(l) # "none" \/ l[1] \in halted
      PROVE  Handed'
  BY <1>2, <1>5 DEF Others
<1>6. ASSUME NEW r \in Requests, NEW b \in Bots, BeginReconfigure(r, b) PROVE Handed'
  BY <1>3, <1>5, <1>6, ReconfigureDoes
<1>7. ASSUME NEW r \in Requests, NEW b \in Bots, BeginReconnect(r, b) PROVE Handed'
  <2>1. req'[r].obj \in halted'
    BY <1>7, ReconnectDoes DEF BeginReconnect
  <2>2. \A l \in Loops : At(l)' # "none" => At(l) # "none"
    BY <1>4, <1>7, ReconnectDoes
  <2>3. Others(r)
    BY <1>7, ReconnectDoes
  <2> QED BY <1>2, <2>1, <2>2, <2>3 DEF Others
<1>8. ASSUME NEW r \in Requests, BeginShutdown(r) PROVE Handed'
  BY <1>3, <1>5, <1>8, ShutdownDoes
<1>9. ASSUME NEW r \in Requests, StopNext(r) PROVE Handed'
  BY <1>5, <1>9, StopNextDoes DEF Live
<1>10. ASSUME NEW r \in Requests, TaskAwaited(r) PROVE Handed'
  BY <1>3, <1>4, <1>5, <1>10, AwaitedDoes
<1>11. ASSUME NEW r \in Requests, Closed(r) \/ AllStopped(r) PROVE Handed'
  BY <1>3, <1>5, <1>11, ClosedDoes, AllStoppedDoes
<1>12. ASSUME NEW r \in Requests, BeginSweep(r) \/ SweepNext(r) PROVE Handed'
  BY <1>3, <1>4, <1>5, <1>12, SweepDoes
<1>13. ASSUME NEW r \in Requests, Adopt(r) PROVE Handed'
  <2>1. \A l \in StartedBy(req[r].new) : l[2] = 1
    BY DEF StartedBy
  <2> QED BY <1>5, <1>13, <2>1, AdoptDoes
<1>14. ASSUME NEW r \in Requests, Resubmit(r) PROVE Handed'
  <2>1. req[r].obj \in halted
    BY <1>14, ResubmitDoes DEF Handed
  <2>2. ASSUME NEW l \in Loops, At(l)' # "none" PROVE At(l) # "none" \/ l[1] = req[r].obj
    <3>1. \/ loop' = loop
          \/ \E i \in Starts : loop' = [loop EXCEPT ![<<req[r].obj, i>>].at = "submitted"]
      BY <1>14 DEF Resubmit
    <3>2. ASSUME l[1] # req[r].obj PROVE loop'[l] = loop[l]
      <4>1. \A i \in Starts : <<req[r].obj, i>> # l
        BY <3>2
      <4>2. loop \in [Loops -> LoopRec]
        BY DEF ConnInv, TypeOK, LoopRec
      <4> QED BY <3>1, <4>1, <4>2
    <3> QED BY <2>2, <3>2 DEF At
  <2> QED BY <1>5, <1>14, <2>1, <2>2, ResubmitDoes
<1>15. ASSUME NEW l \in Loops, LoopStep(l) PROVE Handed'
  BY <1>2, <1>15, LoopDoes DEF Live
<1>16. ASSUME NEW c \in Clients, Dial(c) \/ HangUp(c) PROVE Handed'
  BY <1>2, <1>3, <1>16, ClientDoes
<1> QED BY <1>6, <1>7, <1>8, <1>9, <1>10, <1>11, <1>12, <1>13, <1>14, <1>15, <1>16
        DEF Next, RequestStep, LoopStep

\* The loop l and its object are as they were.
Alone(l) == /\ loop'[l] = loop[l] /\ running'[l[1]] = running[l[1]]
            /\ generation'[l[1]] = generation[l[1]]

LEMMA AloneGoesOn == ASSUME NEW l, GoesOn(l), Alone(l) PROVE GoesOn(l)'
BY DEF GoesOn, Alone, At, Current

LEMMA LoopLeavesAlone ==
    ASSUME ConnInv, NEW l \in Loops, LoopStep(l), NEW k \in Loops, k[1] # l[1]
    PROVE  Alone(k)
<1>1. k # l /\ l[1] \in Objs /\ k[1] \in Objs
  BY DEF Loops
<1>2. /\ loop \in [Loops -> LoopRec]
      /\ running \in [Objs -> BOOLEAN] /\ generation \in [Objs -> Nat]
  BY DEF ConnInv, TypeOK, LoopRec
<1>3. running'[k[1]] = running[k[1]] /\ generation'[k[1]] = generation[k[1]]
  BY <1>1, <1>2 DEF LoopStep, LoopBegins, Connected, LoopFails, LoopWakes, LoopUnwinds
<1>4. loop'[k] = loop[k]
  BY <1>1, <1>2 DEF LoopStep, LoopBegins, Connected, LoopFails, LoopWakes, LoopUnwinds
<1> QED BY <1>3, <1>4 DEF Alone

\* A loop that goes on only ends by giving up.
LEMMA GoesOnOrHalts ==
    ASSUME ConnInv, NEW l \in Loops, LoopStep(l), GoesOn(l), l[1] \notin halted'
    PROVE  GoesOn(l)'
<1>1. /\ loop[l] \in LoopRec /\ loop \in [Loops -> LoopRec] /\ l[1] \in Objs
      /\ running \in [Objs -> BOOLEAN] /\ generation \in [Objs -> Nat]
  BY DEF Loops, ConnInv, TypeOK, LoopRec
<1>2. CASE LoopBegins(l)
  <2> DEFINE rec == [at |-> "connecting", gen |-> generation'[l[1]], tries |-> 0]
  <2>1. rec.at = "connecting" /\ rec.gen = generation'[l[1]]
    OBVIOUS
  <2>2. loop' = [loop EXCEPT ![l] = rec] /\ running' = [running EXCEPT ![l[1]] = TRUE]
    BY <1>2 DEF LoopBegins
  <2> HIDE DEF rec
  <2>3. loop'[l] = rec /\ running'[l[1]] = TRUE
    BY <1>1, <2>2
  <2> QED BY <2>1, <2>3 DEF GoesOn, At, Current
<1>3. CASE Connected(l) \/ LoopWakes(l)
  <2>1. Current(l) /\ running' = running /\ generation' = generation
    BY <1>3 DEF Connected, LoopWakes, GoesOn
  <2>2. PICK p \in {"receiving", "connecting"} : loop' = [loop EXCEPT ![l].at = p]
    BY <1>3, <2>1 DEF Connected, LoopWakes
  <2>3. loop'[l].at = p /\ loop'[l].gen = loop[l].gen
    BY <1>1, <2>2 DEF LoopRec
  <2> QED BY <2>1, <2>3 DEF GoesOn, At, Current
<1>4. CASE LoopFails(l)
  <2>1. Current(l)
    BY <1>4 DEF LoopFails, GoesOn
  <2>2. PICK n \in CountedTries(l) :
            /\ loop' = [loop EXCEPT ![l].at = "backoff",
                                    ![l].tries = IF MaxAttempts = 0 THEN 0 ELSE n]
            /\ running' = running /\ generation' = generation
    BY <1>4, <2>1 DEF LoopFails
  <2>3. loop'[l].at = "backoff" /\ loop'[l].gen = loop[l].gen
    BY <1>1, <2>2 DEF LoopRec
  <2> QED BY <2>1, <2>2, <2>3 DEF GoesOn, At, Current
<1>5. CASE LoopUnwinds(l)
  BY <1>5 DEF LoopUnwinds, GoesOn
<1> QED BY <1>2, <1>3, <1>4, <1>5 DEF LoopStep

LEMMA DrivenKept ==
    ASSUME ConnInv, Handed, Driven, TypeOK', Next
    PROVE  Driven'
<1> SUFFICES ASSUME NobodyStops', "down" \notin history', NEW o \in adapters', o \notin halted'
             PROVE  GoesOn(<<o, 1>>)'
  BY DEF Driven
<1>1. Grows /\ "down" \notin history /\ o \notin halted
  BY StepGrows DEF Grows
<1>2. adapters' \subseteq Objs /\ o \in Objs /\ 1 \in Starts /\ <<o, 1>> \in Loops
  BY FS_CardinalityType DEF TypeOK, Starts, Loops
<1>3. ASSUME NobodyStops, adapters' = adapters, Alone(<<o, 1>>) PROVE GoesOn(<<o, 1>>)'
  BY <1>1, <1>3, AloneGoesOn DEF Driven
\* Whoever begins to stop adapters, or is still at it, has not to be looked at.
<1>4. ASSUME NEW r \in Requests, req'[r].at \in Stopping PROVE FALSE
  BY <1>4 DEF NobodyStops
<1>5. ASSUME NEW r \in Requests, Others(r), req[r].at \notin Stopping PROVE NobodyStops
  BY <1>5 DEF NobodyStops, Others
<1>6. ASSUME NEW r \in Requests, NEW b \in Bots, BeginReconfigure(r, b) PROVE FALSE
  BY <1>4, <1>6, ReconfigureDoes DEF Stopping
<1>7. ASSUME NEW r \in Requests, NEW b \in Bots, BeginReconnect(r, b) PROVE GoesOn(<<o, 1>>)'
  <2> DEFINE p == ObjFor(b, adapters)
  <2>1. NobodyStops /\ adapters' = adapters
    BY <1>5, <1>7, ReconnectDoes DEF Stopping
  <2>2. StopMarks(p, loop) /\ generation' = generation /\ p # o
    BY <1>7 DEF BeginReconnect
  <2>3. p \in Objs
    BY <1>7, ObjForFinds DEF BeginReconnect, ConnInv, Books, Manageable
  <2>4. running' = [running EXCEPT ![p] = FALSE] /\ running \in [Objs -> BOOLEAN]
    BY <2>2 DEF StopMarks, ConnInv, TypeOK
  <2>5. ws[p] # <<o, 1>>
    <3>1. ws[p] \in Loops => ws[p][1] = p
      BY <2>3 DEF ConnInv, Sockets
    <3> QED BY <1>2, <2>2, <3>1
  <2>6. loop'[<<o, 1>>] = loop[<<o, 1>>]
    BY <1>2, <2>2, <2>5 DEF StopMarks
  <2> QED BY <1>2, <1>3, <2>1, <2>2, <2>4, <2>6 DEF Alone
<1>8. ASSUME NEW r \in Requests, BeginShutdown(r) PROVE FALSE
  BY <1>4, <1>8, ShutdownDoes DEF Stopping
<1>9. ASSUME NEW r \in Requests,
             \/ StopNext(r) \/ TaskAwaited(r) \/ Closed(r) \/ BeginSweep(r) \/ SweepNext(r)
      PROVE  FALSE
  BY <1>4, <1>9, StopNextDoes, AwaitedDoes, ClosedDoes, SweepDoes DEF Stopping
<1>10. ASSUME NEW r \in Requests, Adopt(r) PROVE GoesOn(<<o, 1>>)'
  BY <1>2, <1>10, AdoptDoes DEF StartedBy, GoesOn
<1>11. ASSUME NEW r \in Requests, AllStopped(r) PROVE FALSE
  BY <1>1, <1>11, AllStoppedDoes DEF ConnInv, Sane, Proper
<1>12. ASSUME NEW r \in Requests, Resubmit(r) PROVE GoesOn(<<o, 1>>)'
  <2>1. NobodyStops /\ adapters' = adapters
    BY <1>5, <1>12, ResubmitDoes DEF Stopping
  <2>2. \/ loop' = loop
        \/ \E i \in Starts :
              i > 1 /\ loop' = [loop EXCEPT ![<<req[r].obj, i>>].at = "submitted"]
    BY <1>12 DEF Resubmit
  <2>3. \A i \in Starts : i > 1 => <<req[r].obj, i>> # <<o, 1>>
    OBVIOUS
  <2>4. loop'[<<o, 1>>] = loop[<<o, 1>>]
    <3>1. loop \in [Loops -> LoopRec]
      BY DEF ConnInv, TypeOK, LoopRec
    <3> QED BY <1>2, <2>2, <2>3, <3>1
  <2> QED BY <1>3, <1>12, <2>1, <2>4 DEF Alone, Resubmit
<1>13. ASSUME NEW l \in Loops, LoopStep(l) PROVE GoesOn(<<o, 1>>)'
  <2>1. UNCHANGED <<adapters, req>>
    BY <1>13, LoopDoes
  <2>2. GoesOn(<<o, 1>>) /\ NobodyStops
    BY <1>1, <2>1 DEF Driven, NobodyStops
  <2>3. CASE l = <<o, 1>>
    BY <1>13, <2>2, <2>3, GoesOnOrHalts
  <2>4. CASE l[1] # o
    <3>1. Alone(<<o, 1>>)
      BY <1>2, <1>13, <2>4, LoopLeavesAlone
    <3> QED BY <1>3, <2>1, <2>2, <3>1
  <2>5. CASE l # <<o, 1>> /\ l[1] = o
    <3>1. l = <<l[1], l[2]>> /\ l[2] \in Starts /\ l[2] # 1
      BY <2>5 DEF Loops
    <3>2. l[2] > 1
      BY <3>1, FS_CardinalityType DEF Starts
    <3>3. At(l) # "none"
      BY <1>13, LoopDoes DEF Live
    <3> QED BY <1>1, <2>5, <3>2, <3>3 DEF Handed
  <2> QED BY <2>3, <2>4, <2>5
<1>14. ASSUME NEW c \in Clients, Dial(c) \/ HangUp(c) PROVE GoesOn(<<o, 1>>)'
  <2>1. UNCHANGED <<adapters, req, loop, running, generation>>
    BY <1>14 DEF Dial, HangUp
  <2> QED BY <1>3, <2>1 DEF NobodyStops, Alone
<1> QED BY <1>6, <1>7, <1>8, <1>9, <1>10, <1>11, <1>12, <1>13, <1>14
        DEF Next, RequestStep, LoopStep

LEMMA EndingKept ==
    ASSUME ConnInv, Ending, TypeOK', Next
    PROVE  Ending'
<1>1. Grows
  BY StepGrows
<1>2. UNCHANGED tasks => WithTask' = WithTask
  BY DEF WithTask
\* A step of a request that goes on with what it does.
<1>3. ASSUME NEW r \in Requests, Others(r), req[r].at \in Stopping, req'[r].at \in Stopping,
             req'[r].kind = req[r].kind, history' = history
      PROVE  Ending'
  BY <1>3 DEF Ending, Others, Inactive, Stopping, NobodyStops
<1>4. ASSUME NEW r \in Requests, NEW b \in Bots, BeginReconfigure(r, b) \/ BeginReconnect(r, b)
      PROVE  Ending'
  <2>1. "down" \notin history /\ history' = history \cup Overlapping
    BY <1>4 DEF BeginReconfigure, BeginReconnect
  <2> QED BY <2>1 DEF Ending, Overlapping
<1>5. ASSUME NEW r \in Requests, BeginShutdown(r) PROVE Ending'
  BY <1>5, ShutdownDoes DEF Ending, Others, Inactive, Quiet, NobodyStops, Stopping
<1>6. ASSUME NEW r \in Requests, StopNext(r) PROVE Ending'
  BY <1>3, <1>6, StopNextDoes DEF Stopping
<1>7. ASSUME NEW r \in Requests, TaskAwaited(r) PROVE Ending'
  BY <1>3, <1>7, AwaitedDoes DEF Stopping
<1>8. ASSUME NEW r \in Requests, Closed(r) PROVE Ending'
  BY <1>3, <1>8, ClosedDoes DEF Stopping
<1>9. ASSUME NEW r \in Requests, BeginSweep(r) \/ SweepNext(r) PROVE Ending'
  BY <1>3, <1>9, SweepDoes DEF Stopping
<1>10. ASSUME NEW r \in Requests, Adopt(r) PROVE Ending'
  BY <1>10, AdoptDoes DEF Ending, Inactive
<1>11. ASSUME NEW r \in Requests, AllStopped(r) PROVE Ending'
  <2>1. /\ req[r].at = "sweeping" /\ req'[r].at = "done" /\ Others(r)
        /\ UNCHANGED <<tasks, history>>
    BY <1>11, AllStoppedDoes
  <2>2. "overlap" \notin history => WithTask = {}
    BY <2>1 DEF ConnInv, InTurn, Lists, Stopping
  <2> QED BY <1>2, <2>1, <2>2 DEF Ending, Others, Inactive
<1>12. ASSUME NEW r \in Requests, Resubmit(r) PROVE Ending'
  <2>1. /\ req[r].at = "resubmit" /\ req'[r].at = "done" /\ Others(r)
        /\ UNCHANGED <<tasks, history>>
    BY <1>12, ResubmitDoes
  <2> QED BY <1>2, <2>1 DEF Ending, Others, Inactive, NobodyStops, Stopping
<1>13. ASSUME UNCHANGED <<tasks, req>>, history' \subseteq history \cup {"pool", "crossed"}
       PROVE  Ending'
  BY <1>1, <1>2, <1>13 DEF Ending, Inactive, NobodyStops, Grows
<1>14. ASSUME NEW l \in Loops, LoopStep(l) PROVE Ending'
  BY <1>13, <1>14, LoopDoes
<1>15. ASSUME NEW c \in Clients, Dial(c) \/ HangUp(c) PROVE Ending'
  BY <1>13, <1>15, ClientDoes
<1> QED BY <1>4, <1>5, <1>6, <1>7, <1>8, <1>9, <1>10, <1>11, <1>12, <1>14, <1>15
        DEF Next, RequestStep, LoopStep

LEMMA RunsInvariance == Spec => [](Handed /\ Driven /\ Ending)
<1>1. Init => Handed /\ Driven /\ Ending
  <2> SUFFICES ASSUME Init PROVE Handed /\ Driven /\ Ending
    OBVIOUS
  <2>1. [Blank EXCEPT !.at = "created"].at = "created" /\ Blank.at = "none"
    BY DEF Blank
  <2>2. \A l \in Loops : At(l) = IF l \in StartedBy(adapters) THEN "created" ELSE "none"
    BY <2>1 DEF Init, At
  <2>3. \A o \in adapters : <<o, 1>> \in StartedBy(adapters) /\ <<o, 1>> \in Loops
    <3>1. 0 \in Builds /\ 1 \in Starts
      BY FS_CardinalityType DEF Builds, Starts
    <3>2. adapters \subseteq Objs
      BY <3>1, ForwardOfBuilt DEF Init, Manageable
    <3> QED BY <3>1, <3>2 DEF StartedBy, Loops
  <2>4. \A r \in Requests : req[r].at = "idle"
    BY DEF Init, Idle
  <2>5. \A l \in StartedBy(adapters) : l[2] = 1
    BY DEF StartedBy
  <2> QED BY <2>2, <2>3, <2>4, <2>5 DEF Init, Handed, Driven, Ending, GoesOn
<1>2. ASSUME ConnInv, ConnInv', Handed /\ Driven /\ Ending, [Next]_vars
      PROVE  (Handed /\ Driven /\ Ending)'
  <2>1. CASE Next
    <3>1. TypeOK'
      BY <1>2 DEF ConnInv
    <3> QED BY <1>2, <2>1, <3>1, HandedKept, DrivenKept, EndingKept
  <2>2. CASE UNCHANGED vars
    <3>1. /\ UNCHANGED <<adapters, tasks, running, generation, loop, req, halted, history>>
      BY <2>2 DEF vars
    <3> QED BY <1>2, <3>1 DEF Handed, Driven, Ending, GoesOn, At, Current, NobodyStops, Inactive,
                              WithTask
  <2> QED BY <1>2, <2>1, <2>2
<1> QED BY <1>1, <1>2, Invariance, PTL DEF Spec

(* Between requests the manager runs every adapter it has that has not     *)
(* given up and was not handed to the pool by the reconnect button; if     *)
(* requests took turns, it runs nothing else, its adapters are the enabled *)
(* forward connections, and after the shutdown nothing runs.               *)
THEOREM SettingsAreApplied == Spec => []SettingsApplied
<1>1. ASSUME ConnInv, Handed /\ Driven /\ Ending PROVE SettingsApplied
  <2> SUFFICES ASSUME Quiet PROVE
           /\ "down" \notin history => adapters \ Managed \subseteq halted
           /\ "overlap" \notin history =>
                IF "down" \in history
                  THEN Managed = {}
                  ELSE /\ Managed \subseteq adapters
                       /\ {BotOf(o) : o \in adapters} = enabled \ Reverse
    BY DEF SettingsApplied
  <2>1. NobodyStops /\ \A r \in Requests : ~Reconfigures(r) /\ req[r].at # "awaiting"
    BY DEF Quiet, Inactive, Stopping, NobodyStops, Reconfigures
  <2>2. ASSUME "down" \notin history, NEW o \in adapters \ halted PROVE o \in Managed
    <3>1. GoesOn(<<o, 1>>)
      BY <1>1, <2>1, <2>2 DEF Driven
    <3>2. <<o, 1>> \in Loops /\ At(<<o, 1>>) \in Live
      BY <1>1, <3>1, FS_CardinalityType DEF ConnInv, TypeOK, Loops, Starts, GoesOn, Live
    <3> QED BY <3>2 DEF Managed, LiveLoops
  <2>3. ASSUME "overlap" \notin history, NEW o \in Managed
        PROVE  o \in adapters /\ WithTask # {}
    <3>1. PICK l \in Loops : At(l) \in Live /\ l[2] = 1 /\ l[1] = o
      BY DEF Managed, LiveLoops
    <3>2. BotOf(o) \in Bots /\ tasks[BotOf(o)] = l /\ l # NoLoop
      BY <1>1, <2>1, <2>3, <3>1 DEF ConnInv, InTurn, NoStray, Loops, Objs, BotOf
    <3>3. l = StartAll(adapters)[BotOf(o)] /\ Manageable(adapters)
      BY <1>1, <3>2 DEF ConnInv, Books
    <3>4. l = <<ObjFor(BotOf(o), adapters), 1>> /\ ObjFor(BotOf(o), adapters) # NoObj
      BY <3>2, <3>3 DEF StartAll
    <3>5. o = ObjFor(BotOf(o), adapters)
      BY <3>1, <3>4
    <3> QED BY <3>2, <3>3, <3>4, <3>5, ObjForFinds DEF WithTask
  <2>4. "overlap" \notin history /\ "down" \notin history =>
           {BotOf(o) : o \in adapters} = enabled \ Reverse
    BY <1>1, <2>1 DEF ConnInv, InTurn, Applied, BotsOf
  <2>5. "overlap" \notin history /\ "down" \in history => WithTask = {}
    BY <1>1, <2>1 DEF Ending
  <2> QED BY <2>2, <2>3, <2>4, <2>5
<1> QED BY <1>1, RunsInvariance, Invariance, PTL
=============================================================================
