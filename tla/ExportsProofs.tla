---------------------------- MODULE ExportsProofs ----------------------------
(***************************************************************************)
(* Safety of an export for any coroutines, requests, dictionaries, number  *)
(* of retries and bounds.                                                  *)
(***************************************************************************)
EXTENDS Exports, TLAPS

Busy(r) == runner[r].at # "unborn"
Clean(excuses) == marks \cap excuses = {}

\* A coroutine that has set its dictionary back to pending.
Waiting(r) == \/ runner[r].at \in {"recording", "committing"} /\ runner[r].then = "sleep"
              \/ runner[r].at = "sleeping"

RunRec == [at : {"unborn", "queued", "exporting", "recording", "committing", "sleeping"},
           dict : Dicts \cup {NoDict}, attempt : 0..Retries,
           then : {"none", "judge", "sleep", "end"},
           found : Statuses \cup {"none"}, wrote : Statuses \cup {"none"}]
ReqRec == [at : {"idle", "creating", "committing", "looking", "restoring", "turning", "listing",
                 "using", "deleting", "deleting done"},
           dict : Dicts \cup {NoDict},
           found : Statuses \cup {"none"}, wrote : Statuses \cup {"none"}]
Marks  == {"lost", "crossed", "ghost", "cut", "stale"}

Types ==
    /\ audit \in BOOLEAN
    /\ row \in Statuses \cup {"none"}
    /\ live \in Dicts \cup {NoDict}
    /\ status \in [Dicts -> Statuses \cup {"unmade"}]
    /\ runner \in [Runners -> RunRec]
    /\ active \in Runners \cup {NoRunner}
    /\ req \in [Requests -> ReqRec]
    /\ acts \in 0..MaxActs /\ restarts \in 0..MaxRestarts
    /\ marks \subseteq Marks

\* What belongs to whom: coroutines and requests hold dictionaries that were made, and a
\* coroutine that waits has an attempt left.
Holdings ==
    /\ \A r \in Runners :
         /\ Busy(r) => runner[r].dict \in Dicts /\ status[runner[r].dict] # "unmade"
         /\ Waiting(r) => runner[r].attempt < Retries
    /\ \A q \in Requests : req[q].at = "turning" =>
         req[q].dict \in Dicts /\ status[req[q].dict] # "unmade"
    /\ live # NoDict => status[live] # "unmade"
    /\ active # NoRunner => Busy(active) /\ runner[active].at # "queued"

\* A request that found no dictionary in memory.
Restorer(w) == w.at \in {"looking", "restoring"}

\* Until the new export is submitted nothing else happens to it.
Creation == \A q \in Requests : Creating(q) =>
    /\ \A p \in Requests : (Creating(p) => p = q) /\ ~Restorer(req[p])
    /\ \A r \in Runners : ~Busy(r)
    /\ req[q].dict = First /\ live = First /\ status[First] = "pending" /\ row = "none"
    /\ \A d \in Dicts \ {First} : status[d] = "unmade"
    /\ req[q].at = "committing" => req[q].found = "none" /\ req[q].wrote = "pending"

\* A dictionary that is not finished is somebody's work.
Worked == "ghost" \notin marks => \A d \in Dicts :
    /\ status[d] = "running" =>
         \E r \in Runners : runner[r].dict = d /\ runner[r].at = "exporting"
    /\ status[d] = "pending" =>
         \/ d = First /\ \E q \in Requests : Creating(q)
         \/ \E r \in Runners : runner[r].dict = d /\ (runner[r].at = "queued" \/ Waiting(r))

\* While retries do not cross there is one coroutine, and nobody else writes what it does.
Alone == \A r, s \in Runners : Busy(r) /\ Busy(s) => r = s

Recorded(w) ==
    LET s == status[w.dict] IN
    /\ w.at \in {"recording", "committing"} =>
         \/ w.then = "judge" /\ s \in Finished
         \/ w.then = "sleep" /\ s = "pending"
    /\ w.at = "committing" => w.wrote = s /\ row \in {w.found, "none"}

Uncrossed == "crossed" \notin marks => Alone /\ \A r \in Runners : Recorded(runner[r])

\* The row of an export nobody works on is finished.
RowSettles == Clean({"lost", "cut", "crossed"}) /\ (\A r \in Runners : ~Busy(r)) =>
    row \in Finished \cup {"none"}

\* The dictionary in memory is the one that is worked on, or agrees with the row.
Agree == Clean({"lost", "ghost", "crossed", "stale"}) /\ live # NoDict =>
    /\ \A r \in Runners : Busy(r) => runner[r].dict = live
    /\ (\A r \in Runners : ~Busy(r)) /\ row # "none" => row = status[live]

\* An export that is done is not worked on, and nothing invites to retry it.
Invites == ~audit /\ live # NoDict /\ status[live] = "failed"

DoneKept == Clean({"crossed", "stale"}) =>
    /\ row = "done" => ~Invites /\ \A r \in Runners : ~Busy(r)
    /\ \A r \in Runners : Busy(r) /\ runner[r].dict # live => ~Invites

ExpInv == /\ Types /\ Holdings /\ Creation /\ Worked /\ Uncrossed
          /\ RowSettles /\ Agree /\ DoneKept

USE ExportsAssumption

(***************************************************************************)
(* The shapes of steps.                                                    *)
(***************************************************************************)
\* Requests look around, and drop what is finished from memory or from the table.
Tidies ==
    /\ UNCHANGED <<audit, status, runner, active, marks, restarts>>
    /\ row' \in {row, "none"}
    /\ live' = live \/ (live' = NoDict /\ status[live] \in Finished)
    /\ acts' \in 0..MaxActs
    /\ req' \in [Requests -> ReqRec]
    /\ \A p \in Requests : Creating(p) \/ Creating(p)' => req'[p] = req[p]
    /\ \A p \in Requests : req'[p].at = "turning" =>
         req'[p] = req[p] \/ (live # NoDict /\ req'[p].dict = live)
    /\ \A p \in Requests : Restorer(req'[p]) => Restorer(req[p]) \/ live = NoDict

\* A new dictionary is made from the row and takes its place in memory.
Makes(d, s) == /\ d \in Dicts \ {First} /\ status[d] = "unmade"
               /\ status' = [status EXCEPT ![d] = s] /\ live' = d

\* A request, if any, is answered.
Settles == /\ acts' \in 0..MaxActs
           /\ req' \in [Requests -> ReqRec]
           /\ \A p \in Requests : req'[p] = req[p] \/ (req'[p].at = "idle" /\ ~Creating(p))
           /\ UNCHANGED <<audit, row, active, restarts>>

\* A retry: of a dictionary that failed, or of one made from the row.
Retrying(d) ==
    /\ Settles /\ Submit(d) /\ d \in Dicts /\ status'[d] = "failed"
    /\ marks \cup Crossing \subseteq marks' /\ marks' \subseteq Marks
    /\ \/ live' = live /\ status' = status /\ ((d = live /\ ~audit) \/ "stale" \in marks')
       \/ live = NoDict /\ Makes(d, "failed") /\ (row = "failed" \/ "stale" \in marks')
       \/ Makes(d, "failed") /\ (row = "failed" \/ "stale" \in marks')
            /\ \A q \in Requests : ~Creating(q)

LEMMA UnusedIs == Unused \in ReqRec /\ Unused.at = "idle"
BY DEF Unused, ReqRec

LEMMA RequestMoves ==
    ASSUME Types, NEW q \in Requests, NEW w \in ReqRec, req' = [req EXCEPT ![q] = w]
    PROVE  /\ req' \in [Requests -> ReqRec] /\ req'[q] = w
           /\ \A p \in Requests \ {q} : req'[p] = req[p]
BY DEF Types

LEMMA ReqAt ==
    ASSUME NEW w \in ReqRec, NEW at \in {"looking", "restoring", "listing", "using", "deleting",
                                        "deleting done"}
    PROVE  [w EXCEPT !.at = at] \in ReqRec /\ [w EXCEPT !.at = at].at = at
BY DEF ReqRec

LEMMA CrossingIsMark == Crossing \subseteq Marks
BY DEF Crossing, Marks

LEMMA MadeIs == ASSUME Unmade # {} PROVE Made \in Dicts \ {First} /\ status[Made] = "unmade"
BY DEF Unmade, Made

LEMMA AnsweredIs ==
    ASSUME Types, NEW q \in Requests, Answered(q), ~Creating(q),
           UNCHANGED <<audit, row, active, acts, restarts>>
    PROVE  Settles
<1>1. req' \in [Requests -> ReqRec] /\ req'[q].at = "idle"
      /\ \A p \in Requests \ {q} : req'[p] = req[p]
  BY UnusedIs, RequestMoves DEF Answered
<1> QED BY <1>1 DEF Settles, Types

\* A request moves to another place of its own.
LEMMA Tidying ==
    ASSUME Types, NEW q \in Requests, NEW w \in ReqRec, req' = [req EXCEPT ![q] = w],
           ~Creating(q), w.at \notin {"creating", "committing"},
           w.at = "turning" => live # NoDict /\ w.dict = live,
           Restorer(w) => Restorer(req[q]) \/ live = NoDict,
           UNCHANGED <<audit, status, runner, active, marks, restarts>>,
           row' \in {row, "none"},
           live' = live \/ (live' = NoDict /\ status[live] \in Finished),
           acts' \in 0..MaxActs
    PROVE  Tidies
<1>1. req' \in [Requests -> ReqRec] /\ req'[q] = w
      /\ \A p \in Requests \ {q} : req'[p] = req[p]
  BY RequestMoves
<1> QED BY <1>1 DEF Tidies, Creating

LEMMA ActsIs == ASSUME Types, Acts PROVE acts' \in 0..MaxActs
BY DEF Types, Acts

\* Every step of a request that does not create is of one of three shapes.
Restoring == /\ Settles /\ UNCHANGED runner
             /\ \A q \in Requests : ~Creating(q)
             /\ \E d \in Dicts, s \in Statuses :
                  /\ Makes(d, s) /\ ~Retriable(s)
                  /\ marks' = marks \cup OldRow(s)
                                    \cup (IF s \in Finished /\ Crossing = {}
                                            THEN {} ELSE {"ghost"})

LEMMA RequestShapes ==
    ASSUME Types, Holdings, Creation, NEW q \in Requests,
           RetryLooks(q) \/ RetryFinds(q) \/ RetryUses(q) \/ RetryAll(q) \/ RetryTurns(q)
             \/ RowsListed(q) \/ RowUsed(q) \/ Clear(q) \/ Deletes(q)
    PROVE  Tidies \/ Restoring \/ \E d \in Dicts : Retrying(d)
<1>1. req[q] \in ReqRec /\ acts \in 0..MaxActs
  BY DEF Types
<1>2. CASE RetryLooks(q)
  <2> DEFINE w == [req[q] EXCEPT !.at = "looking"]
  <2>1. w \in ReqRec /\ w.at = "looking" /\ req' = [req EXCEPT ![q] = w]
    BY <1>1, <1>2, ReqAt DEF RetryLooks
  <2> HIDE DEF w
  <2>2. ~Creating(q) /\ acts' \in 0..MaxActs
    BY <1>2, ActsIs DEF RetryLooks, Creating
  <2>3. live = NoDict
    BY <1>2 DEF RetryLooks
  <2> QED BY <1>2, <2>1, <2>2, <2>3, Tidying DEF RetryLooks
<1>3. CASE RetryFinds(q)
  <2> DEFINE w == [req[q] EXCEPT !.at = "restoring", !.found = row]
  <2>1. w \in ReqRec /\ w.at = "restoring"
    BY <1>1 DEF ReqRec, Types
  <2>2. req' = [req EXCEPT ![q] = w]
    BY <1>3 DEF RetryFinds, Types
  <2> HIDE DEF w
  <2>3. ~Creating(q) /\ Restorer(req[q])
        /\ UNCHANGED <<audit, row, live, status, runner, active, acts, restarts, marks>>
    BY <1>3 DEF RetryFinds, Creating, Restorer
  <2> QED BY <1>1, <2>1, <2>2, <2>3, Tidying
<1>10. CASE RetryUses(q)
  <2> DEFINE found == req[q].found
  <2>1. ~Creating(q) /\ Answered(q) /\ UNCHANGED <<audit, row, active, acts, restarts>>
        /\ \A p \in Requests : ~Creating(p)
    BY <1>10 DEF RetryUses, Creating, Creation, Restorer
  <2>2. Settles
    BY <2>1, AnsweredIs
  <2>3. CASE found = "none"
    <3>1. UNCHANGED <<live, status, runner, marks>>
      BY <1>10, <2>3 DEF RetryUses
    <3>2. ~Restorer(Unused)
      BY DEF Unused, Restorer
    <3> QED BY <1>1, <2>1, <3>1, <3>2, UnusedIs, Tidying DEF Answered
  <2>4. CASE found # "none"
    <3>1. Unmade # {} /\ Makes(Made, found) /\ Made \in Dicts
      BY <1>10, <2>4, MadeIs DEF RetryUses, Restores, Makes
    <3>2. CASE Retriable(found)
      <4>1. found = "failed" /\ Submit(Made)
            /\ marks' = marks \cup OldRow(found) \cup Crossing
        BY <1>10, <2>4, <3>2 DEF RetryUses, Retriable
      <4>2. status'[Made] = "failed"
        BY <3>1, <4>1 DEF Makes, Types
      <4>3. OldRow(found) \subseteq Marks /\ (row = "failed" \/ OldRow(found) = {"stale"})
        BY <4>1 DEF OldRow, Marks
      <4>4. marks \cup Crossing \subseteq marks' /\ marks' \subseteq Marks
        BY <4>1, <4>3, CrossingIsMark DEF Types
      <4>5. Retrying(Made)
        <5>1. row = "failed" \/ "stale" \in marks'
          BY <4>1, <4>3
        <5>2. Makes(Made, "failed")
          BY <3>1, <4>1
        <5> HIDE DEF found
        <5> QED BY <2>1, <2>2, <3>1, <4>1, <4>2, <4>4, <5>1, <5>2 DEF Retrying
      <4> QED BY <3>1, <4>5
    <3>3. CASE ~Retriable(found)
      <4>1. found \in Statuses
        BY <1>1, <2>4 DEF ReqRec
      <4>2. /\ runner' = runner
            /\ marks' = marks \cup OldRow(found)
                              \cup (IF found \in Finished /\ Crossing = {} THEN {} ELSE {"ghost"})
        BY <1>10, <2>4, <3>3 DEF RetryUses
      <4> HIDE DEF found
      <4> QED BY <2>1, <2>2, <3>1, <3>3, <4>1, <4>2 DEF Restoring
    <3> QED BY <3>2, <3>3
  <2> QED BY <2>3, <2>4
<1>4. CASE RetryAll(q)
  <2> DEFINE at == IF live = NoDict THEN "listing" ELSE "turning"
             w == [req[q] EXCEPT !.at = at, !.dict = live]
  <2>1. w \in ReqRec /\ w.at = at /\ w.dict = live
    BY <1>1 DEF ReqRec, Types
  <2>2. req' = [req EXCEPT ![q] = w]
    BY <1>4 DEF RetryAll, Types
  <2> HIDE DEF w
  <2>3. ~Creating(q) /\ acts' \in 0..MaxActs
    BY <1>4, ActsIs DEF RetryAll, Creating
  <2> QED BY <1>4, <2>1, <2>2, <2>3, Tidying DEF RetryAll, Restorer
<1>5. CASE RetryTurns(q)
  <2>1. ~Creating(q) /\ UNCHANGED <<audit, row, active, acts, restarts, live, status>>
        /\ req[q].dict \in Dicts
    BY <1>5 DEF RetryTurns, Creating, Holdings
  <2>2. CASE Retriable(status[req[q].dict])
    <3>1. /\ Submit(req[q].dict) /\ Answered(q)
          /\ marks' = marks \cup Crossing \cup OldList(req[q].dict)
      BY <1>5, <2>2 DEF RetryTurns
    <3>2. Settles
      BY <2>1, <3>1, AnsweredIs
    <3>3. OldList(req[q].dict) \subseteq Marks
      BY DEF OldList, Marks
    <3>4. (req[q].dict = live /\ ~audit) \/ "stale" \in marks'
      BY <2>2, <3>1 DEF OldList, Retriable
    <3>5. status'[req[q].dict] = "failed"
      BY <2>1, <2>2 DEF Retriable
    <3>6. marks \cup Crossing \subseteq marks' /\ marks' \subseteq Marks
      BY <3>1, <3>3, CrossingIsMark DEF Types
    <3>7. Retrying(req[q].dict)
      BY <2>1, <3>1, <3>2, <3>4, <3>5, <3>6 DEF Retrying
    <3> QED BY <2>1, <3>7
  <2>3. CASE ~Retriable(status[req[q].dict])
    <3> DEFINE w == [Unused EXCEPT !.at = "listing"]
    <3>1. w \in ReqRec /\ w.at = "listing"
      BY UnusedIs, ReqAt
    <3>2. req' = [req EXCEPT ![q] = w] /\ UNCHANGED <<runner, marks>>
      BY <1>5, <2>3 DEF RetryTurns
    <3> HIDE DEF w
    <3> QED BY <1>1, <2>1, <3>1, <3>2, Tidying DEF Restorer
  <2> QED BY <2>2, <2>3
<1>6. CASE RowsListed(q)
  <2>1. ~Creating(q) /\ UNCHANGED <<audit, row, live, status, runner, active, acts, restarts, marks>>
    BY <1>6 DEF RowsListed, Creating
  <2>2. PICK w \in ReqRec : w.at \in {"using", "idle"} /\ req' = [req EXCEPT ![q] = w]
    BY <1>1, <1>6, ReqAt, UnusedIs DEF RowsListed, Answered
  <2> QED BY <1>1, <2>1, <2>2, Tidying DEF Restorer
<1>7. CASE RowUsed(q)
  <2>1. ~Creating(q) /\ Answered(q) /\ UNCHANGED <<audit, row, active, acts, restarts>>
    BY <1>7 DEF RowUsed, Creating
  <2>2. Settles
    BY <2>1, AnsweredIs
  <2>3. CASE live = NoDict
    <3>1. Unmade # {} /\ Makes(Made, "failed") /\ Made \in Dicts /\ Submit(Made)
          /\ marks' = marks \cup Crossing \cup OldList(NoDict)
      BY <1>7, <2>3, MadeIs DEF RowUsed, Restores, Makes
    <3>2. OldList(NoDict) \subseteq Marks /\ (row = "failed" \/ OldList(NoDict) = {"stale"})
      BY DEF OldList, Marks
    <3>3. status'[Made] = "failed"
      BY <3>1 DEF Makes, Types
    <3>4. marks \cup Crossing \subseteq marks' /\ marks' \subseteq Marks
      BY <3>1, <3>2, CrossingIsMark DEF Types
    <3>5. Retrying(Made)
      BY <2>2, <2>3, <3>1, <3>2, <3>3, <3>4 DEF Retrying
    <3> QED BY <3>1, <3>5
  <2>4. CASE live # NoDict
    <3>1. UNCHANGED <<live, status, runner, marks>>
      BY <1>7, <2>4 DEF RowUsed
    <3> QED BY <1>1, <2>1, <3>1, UnusedIs, Tidying DEF Answered, Restorer
  <2> QED BY <2>3, <2>4
<1>8. CASE Clear(q)
  <2>1. ~Creating(q) /\ acts' \in 0..MaxActs
    BY <1>8, ActsIs DEF Clear, Creating
  <2>2. PICK w \in ReqRec : /\ w.at \in {"deleting", "deleting done"}
                            /\ req' = [req EXCEPT ![q] = w]
    BY <1>1, <1>8, ReqAt DEF Clear
  <2>3. live' = live \/ (live' = NoDict /\ status[live] \in Finished)
    BY <1>8 DEF Clear, Finished
  <2> QED BY <1>8, <2>1, <2>2, <2>3, Tidying DEF Clear, Restorer
<1>9. CASE Deletes(q)
  <2>1. ~Creating(q) /\ row' \in {row, "none"}
        /\ UNCHANGED <<audit, live, status, runner, active, acts, restarts, marks>>
    BY <1>9 DEF Deletes, Creating
  <2> QED BY <1>1, <1>9, <2>1, UnusedIs, Tidying DEF Deletes, Answered, Restorer
<1> QED BY <1>2, <1>3, <1>4, <1>5, <1>6, <1>7, <1>8, <1>9, <1>10

LEMMA OtherShapes ==
    ASSUME Types, Crowded \/ Retry
    PROVE  Tidies \/ \E d \in Dicts : Retrying(d)
<1>1. acts' \in 0..MaxActs
  BY ActsIs DEF Crowded, Retry
<1>2. CASE Crowded
  BY <1>1, <1>2 DEF Crowded, Tidies, Types
<1>3. CASE Retry
  <2>1. live \in Dicts /\ ~audit /\ status[live] = "failed"
    BY <1>3 DEF Retry, Types, Retriable
  <2>2. Settles
    BY <1>1, <1>3 DEF Retry, Settles, Types
  <2>3. Retrying(live)
    BY <1>3, <2>1, <2>2, CrossingIsMark DEF Retry, Retrying, Types
  <2> QED BY <2>1, <2>3
<1> QED BY <1>2, <1>3

LEMMA UnbornIs == /\ Unborn \in RunRec /\ Unborn.then = "none"
                  /\ Unborn.at = "unborn" /\ Unborn.attempt = 0
BY DEF Unborn, RunRec

LEMMA QueuedIs ==
    ASSUME NEW u \in RunRec, NEW d \in Dicts
    PROVE  /\ [u EXCEPT !.at = "queued", !.dict = d] \in RunRec
           /\ [u EXCEPT !.at = "queued", !.dict = d].at = "queued"
           /\ [u EXCEPT !.at = "queued", !.dict = d].dict = d
           /\ [u EXCEPT !.at = "queued", !.dict = d].then = u.then
BY DEF RunRec

LEMMA SubmitIs ==
    ASSUME Types, NEW d \in Dicts, Submit(d)
    PROVE  /\ runner' \in [Runners -> RunRec]
           /\ \/ active # NoRunner /\ runner' = runner
              \/ /\ active = NoRunner
                 /\ \E r \in Runners :
                      /\ ~Busy(r) /\ runner'[r].at = "queued" /\ runner'[r].dict = d
                      /\ runner'[r].then = "none"
                      /\ \A s \in Runners \ {r} : runner'[s] = runner[s]
<1>1. CASE active # NoRunner
  BY <1>1 DEF Submit, Types
<1>2. CASE active = NoRunner
  <2> DEFINE w == [Unborn EXCEPT !.at = "queued", !.dict = d]
  <2>1. PICK r \in Runners : runner[r].at = "unborn" /\ runner' = [runner EXCEPT ![r] = w]
    BY <1>2 DEF Submit
  <2>2. Unborn \in RunRec /\ Unborn.then = "none"
    BY UnbornIs
  <2>3. w \in RunRec /\ w.at = "queued" /\ w.dict = d /\ w.then = "none"
    BY <2>2, QueuedIs
  <2> HIDE DEF w
  <2> QED BY <1>2, <2>1, <2>3 DEF Types, Busy
<1> QED BY <1>1, <1>2

(***************************************************************************)
(* Steps of requests.                                                      *)
(***************************************************************************)
LEMMA TidiesKeep == ASSUME ExpInv, Tidies PROVE ExpInv'
<1>1. \A r \in Runners : (Busy(r)' <=> Busy(r)) /\ (Waiting(r)' <=> Waiting(r))
  BY DEF Tidies, Busy, Waiting
<1>2. Types'
  BY DEF ExpInv, Types, Tidies
<1>3. Holdings'
  BY <1>1 DEF ExpInv, Types, Holdings, Tidies
<1>4. \A q \in Requests : Creating(q) <=> Creating(q)'
  BY DEF Tidies, Creating
<1>5. Creation'
  <2> SUFFICES ASSUME NEW q \in Requests, Creating(q)'
               PROVE  /\ \A p \in Requests : (Creating(p)' => p = q) /\ ~Restorer(req'[p])
                      /\ \A r \in Runners : ~Busy(r)'
                      /\ req'[q].dict = First /\ live' = First /\ status'[First] = "pending"
                      /\ row' = "none"
                      /\ \A d \in Dicts \ {First} : status'[d] = "unmade"
                      /\ req'[q].at = "committing" => req'[q].found = "none" /\ req'[q].wrote = "pending"
    BY DEF Creation, Restorer
  <2>1. Creating(q) /\ req'[q] = req[q]
    BY <1>4 DEF Tidies
  <2>2. live # NoDict /\ \A p \in Requests : ~Restorer(req[p])
    BY <2>1 DEF ExpInv, Creation
  <2>3. \A p \in Requests : ~Restorer(req'[p])
    BY <2>2 DEF Tidies
  <2> QED BY <1>1, <1>4, <2>1, <2>3 DEF ExpInv, Creation, Tidies, Finished
<1>6. Worked'
  BY <1>1, <1>4 DEF ExpInv, Worked, Tidies
<1>7. Uncrossed'
  BY <1>1 DEF ExpInv, Uncrossed, Alone, Recorded, Tidies
<1>8. RowSettles'
  BY <1>1 DEF ExpInv, RowSettles, Clean, Tidies
<1>9. Agree'
  BY <1>1 DEF ExpInv, Agree, Clean, Tidies
<1>10. DoneKept'
  BY <1>1 DEF ExpInv, DoneKept, Clean, Tidies, Invites
<1> QED BY <1>2, <1>3, <1>5, <1>6, <1>7, <1>8, <1>9, <1>10 DEF ExpInv

\* A request that is answered does not create.
LEMMA SettledKeeps ==
    ASSUME Settles
    PROVE  /\ \A q \in Requests : Creating(q) <=> Creating(q)'
           /\ \A q \in Requests : Creating(q) => req'[q] = req[q]
           /\ \A q \in Requests : req'[q].at = "turning" => req'[q] = req[q]
BY DEF Settles, Creating

\* A dictionary is made only when no export is being created.
LEMMA MakesKeeps ==
    ASSUME Types, NEW d, NEW s \in Statuses, Makes(d, s)
    PROVE  /\ d \in Dicts /\ d # First /\ live' = d /\ status'[d] = s /\ s # "unmade"
           /\ status' \in [Dicts -> Statuses \cup {"unmade"}]
           /\ \A e \in Dicts \ {d} : status'[e] = status[e]
           /\ status[d] = "unmade" /\ status'[First] = status[First]
BY DEF Makes, Types, Statuses

LEMMA RestoringKeeps == ASSUME ExpInv, Restoring PROVE ExpInv'
<1>1. Types /\ Settles /\ runner' = runner
  BY DEF ExpInv, Restoring
<1>2. PICK d \in Dicts, found \in Statuses :
        /\ Makes(d, found) /\ ~Retriable(found)
        /\ marks' = marks \cup OldRow(found)
                          \cup (IF found \in Finished /\ Crossing = {} THEN {} ELSE {"ghost"})
  BY DEF Restoring
<1>3. /\ d \in Dicts /\ d # First /\ live' = d /\ status'[d] = found /\ found # "unmade"
      /\ status' \in [Dicts -> Statuses \cup {"unmade"}]
      /\ \A e \in Dicts \ {d} : status'[e] = status[e]
      /\ status[d] = "unmade" /\ status'[First] = status[First]
  BY <1>1, <1>2, MakesKeeps
<1>4. \A r \in Runners : (Busy(r)' <=> Busy(r)) /\ (Waiting(r)' <=> Waiting(r))
  BY <1>1 DEF Busy, Waiting
<1>5. \A r \in Runners : Busy(r) => runner[r].dict \in Dicts \ {d}
  BY <1>3 DEF ExpInv, Holdings
<1>6. marks \subseteq marks' /\ marks' \subseteq Marks
      /\ ("ghost" \notin marks' => found \in Finished /\ Crossing = {})
      /\ ("stale" \notin marks' => row = found)
      /\ \A x \in {"lost", "crossed", "cut"} : x \in marks <=> x \in marks'
  BY <1>1, <1>2 DEF OldRow, Types, Marks
<1>7. \A q \in Requests : ~Creating(q) /\ ~Creating(q)'
  BY <1>1, SettledKeeps DEF Restoring
<1>8. Types'
  BY <1>1, <1>3, <1>6 DEF Types, Settles
<1>9. Holdings'
  <2>1. ASSUME NEW q \in Requests, req'[q].at = "turning"
        PROVE  req'[q].dict \in Dicts /\ status'[req'[q].dict] # "unmade"
    <3>1. req'[q] = req[q]
      BY <1>1, <2>1, SettledKeeps
    <3> QED BY <1>3, <2>1, <3>1 DEF ExpInv, Holdings
  <2>2. ASSUME NEW r \in Runners
        PROVE  /\ Busy(r)' => runner'[r].dict \in Dicts /\ status'[runner'[r].dict] # "unmade"
               /\ Waiting(r)' => runner'[r].attempt < Retries
    BY <1>1, <1>3, <1>4, <1>5 DEF ExpInv, Holdings
  <2>3. live' # NoDict => status'[live'] # "unmade"
    BY <1>3
  <2>4. active' # NoRunner => Busy(active)' /\ runner'[active'].at # "queued"
    BY <1>1 DEF ExpInv, Holdings, Settles, Busy
  <2> QED BY <2>1, <2>2, <2>3, <2>4 DEF Holdings
<1>10. Creation'
  BY <1>7 DEF Creation
<1>11. Worked'
  <2> SUFFICES ASSUME "ghost" \notin marks', NEW e \in Dicts
               PROVE  /\ status'[e] = "running" =>
                           \E r \in Runners : runner[r].dict = e /\ runner[r].at = "exporting"
                      /\ status'[e] = "pending" =>
                           \E r \in Runners : runner[r].dict = e
                                             /\ (runner[r].at = "queued" \/ Waiting(r))
    BY <1>1, <1>4 DEF Worked
  <2>1. CASE e = d
    BY <1>3, <1>6, <2>1 DEF Finished
  <2>2. CASE e # d
    BY <1>3, <1>6, <1>7, <2>2 DEF ExpInv, Worked
  <2> QED BY <2>1, <2>2
<1>12. Uncrossed'
  <2>1. ASSUME NEW r \in Runners, Recorded(runner[r]) PROVE Recorded(runner[r])'
    <3>1. CASE Busy(r)
      <4>1. status'[runner[r].dict] = status[runner[r].dict]
        BY <1>3, <1>5, <3>1
      <4> QED BY <1>1, <2>1, <4>1 DEF Recorded, Settles
    <3>2. CASE ~Busy(r)
      BY <1>1, <3>2 DEF Recorded, Busy
    <3> QED BY <3>1, <3>2
  <2>2. "crossed" \notin marks' => "crossed" \notin marks
    BY <1>6
  <2> QED BY <1>4, <2>1, <2>2 DEF ExpInv, Uncrossed, Alone
<1>13. RowSettles'
  <2>1. row' = row /\ (Clean({"lost", "cut", "crossed"})' => Clean({"lost", "cut", "crossed"}))
    BY <1>1, <1>6 DEF Settles, Clean
  <2> QED BY <1>4, <2>1 DEF ExpInv, RowSettles
<1>14. Agree'
  <2> SUFFICES ASSUME Clean({"lost", "ghost", "crossed", "stale"})'
               PROVE  /\ \A r \in Runners : ~Busy(r)'
                      /\ row' = status'[live']
    BY DEF Agree
  <2>1. Crossing = {}
    BY <1>6 DEF Clean
  <2>2. \A r \in Runners : ~Busy(r)'
    BY <1>4, <2>1 DEF Crossing, Busy
  <2>3. row = found
    BY <1>6 DEF Clean
  <2> QED BY <1>1, <1>3, <2>2, <2>3 DEF Settles
<1>15. DoneKept'
  <2>1. ~Invites'
    BY <1>1, <1>2, <1>3 DEF Invites, Retriable, Settles
  <2>2. Clean({"crossed", "stale"})' => Clean({"crossed", "stale"})
    BY <1>6 DEF Clean
  <2> QED BY <1>1, <1>4, <2>1, <2>2 DEF ExpInv, DoneKept, Settles
<1> QED BY <1>8, <1>9, <1>10, <1>11, <1>12, <1>13, <1>14, <1>15 DEF ExpInv

LEMMA RetryingKeeps == ASSUME ExpInv, NEW d \in Dicts, Retrying(d) PROVE ExpInv'
<1>1. Types /\ Settles /\ Submit(d) /\ status'[d] = "failed"
  BY DEF ExpInv, Retrying
<1>2. marks \subseteq marks' /\ marks' \subseteq Marks
      /\ ("crossed" \notin marks' => Crossing = {})
  BY DEF Retrying, Crossing
<1>3. /\ \/ live' = live /\ status' = status
         \/ live' = d /\ Makes(d, "failed")
      /\ "stale" \in marks' \/ row = "failed" \/ (d = live /\ live' = live /\ ~audit)
      /\ "stale" \in marks' \/ live' = d
  BY DEF Retrying, Makes
<1>4. /\ live' \in Dicts \cup {NoDict} /\ (live' = live \/ live' = d)
      /\ status' \in [Dicts -> Statuses \cup {"unmade"}]
      /\ \A e \in Dicts : status[e] # "unmade" => status'[e] = status[e]
      /\ \A e \in Dicts \ {d} : status'[e] = status[e]
  BY <1>1, <1>3, MakesKeeps DEF Types, Statuses
<1>5. /\ runner' \in [Runners -> RunRec]
      /\ \/ active # NoRunner /\ runner' = runner
         \/ /\ active = NoRunner
            /\ \E r \in Runners :
                 /\ ~Busy(r) /\ runner'[r].at = "queued" /\ runner'[r].dict = d
                 /\ runner'[r].then = "none"
                 /\ \A s \in Runners \ {r} : runner'[s] = runner[s]
  BY <1>1, SubmitIs
<1>6. \A q \in Requests : ~Creating(q) /\ ~Creating(q)'
  <2>1. ASSUME NEW q \in Requests, Creating(q) PROVE FALSE
    <3>1. /\ live = First /\ status[First] = "pending" /\ row = "none" /\ First # NoDict
          /\ \A e \in Dicts \ {First} : status[e] = "unmade"
      BY <2>1 DEF ExpInv, Creation
    <3>2. status' = status
      BY <2>1, <3>1 DEF Retrying
    <3> QED BY <1>1, <3>1, <3>2
  <2> QED BY <1>1, <2>1, SettledKeeps
<1>7. \A r \in Runners : Busy(r) => runner'[r] = runner[r]
  BY <1>5
<1>8. \A r \in Runners : Busy(r)' => Busy(r) \/ (runner'[r].at = "queued" /\ runner'[r].dict = d)
  BY <1>5 DEF Busy
<1>9. "crossed" \notin marks' =>
        /\ \A r \in Runners : ~Busy(r)
        /\ \E r \in Runners : Busy(r)' /\ \A s \in Runners : Busy(s)' => s = r
  <2> SUFFICES ASSUME "crossed" \notin marks' PROVE
        /\ \A r \in Runners : ~Busy(r)
        /\ \E r \in Runners : Busy(r)' /\ \A s \in Runners : Busy(s)' => s = r
    OBVIOUS
  <2>1. \A r \in Runners : ~Busy(r)
    BY <1>2 DEF Crossing, Busy
  <2>2. active = NoRunner
    BY <1>1, <2>1 DEF ExpInv, Holdings, Types
  <2> QED BY <1>5, <2>1, <2>2 DEF Busy
<1>10. Types'
  BY <1>1, <1>2, <1>4, <1>5 DEF Types, Settles
<1>11. Holdings'
  <2>1. ASSUME NEW q \in Requests, req'[q].at = "turning"
        PROVE  req'[q].dict \in Dicts /\ status'[req'[q].dict] # "unmade"
    <3>1. req'[q] = req[q]
      BY <1>1, <2>1, SettledKeeps
    <3> QED BY <1>4, <2>1, <3>1 DEF ExpInv, Holdings
  <2>2. ASSUME NEW r \in Runners
        PROVE  /\ Busy(r)' => runner'[r].dict \in Dicts /\ status'[runner'[r].dict] # "unmade"
               /\ Waiting(r)' => runner'[r].attempt < Retries
    <3>1. CASE Busy(r)
      BY <1>4, <1>7, <3>1 DEF ExpInv, Holdings, Busy, Waiting
    <3>2. CASE ~Busy(r)
      BY <1>1, <1>8, <3>2 DEF Busy, Waiting
    <3> QED BY <3>1, <3>2
  <2>3. live' # NoDict => status'[live'] # "unmade"
    BY <1>1, <1>4 DEF ExpInv, Holdings, Types
  <2>4. active' # NoRunner => Busy(active)' /\ runner'[active'].at # "queued"
    BY <1>1, <1>5 DEF ExpInv, Holdings, Settles, Busy
  <2> QED BY <2>1, <2>2, <2>3, <2>4 DEF Holdings
<1>12. Creation'
  BY <1>6 DEF Creation
<1>13. Worked'
  <2> SUFFICES ASSUME "ghost" \notin marks', NEW e \in Dicts
               PROVE  /\ status'[e] = "running" =>
                           \E r \in Runners : runner'[r].dict = e /\ runner'[r].at = "exporting"
                      /\ status'[e] = "pending" =>
                           \E r \in Runners : runner'[r].dict = e
                                             /\ (runner'[r].at = "queued" \/ Waiting(r)')
    BY DEF Worked
  <2>1. CASE e = d
    BY <1>1, <2>1
  <2>2. CASE e # d
    <3>1. status'[e] = status[e] /\ "ghost" \notin marks
      BY <1>2, <1>4, <2>2
    <3>2. \A r \in Runners : Busy(r) => (Waiting(r)' <=> Waiting(r))
      BY <1>7 DEF Waiting
    <3>3. \A r \in Runners : runner[r].at = "exporting" \/ runner[r].at = "queued" \/ Waiting(r)
            => Busy(r)
      BY DEF Busy, Waiting
    <3> QED BY <1>6, <1>7, <3>1, <3>2, <3>3 DEF ExpInv, Worked
  <2> QED BY <2>1, <2>2
<1>14. Uncrossed'
  <2>1. ASSUME NEW r \in Runners, "crossed" \notin marks' PROVE Recorded(runner[r])'
    <3>1. runner'[r].at \in {"unborn", "queued"}
      BY <1>8, <1>9, <2>1 DEF Busy
    <3> QED BY <3>1 DEF Recorded
  <2> QED BY <1>9, <2>1 DEF Uncrossed, Alone
<1>15. RowSettles'
  BY <1>9 DEF RowSettles, Clean
<1>16. Agree'
  BY <1>3, <1>8, <1>9 DEF Agree, Clean
<1>17. DoneKept'
  <2> SUFFICES ASSUME Clean({"crossed", "stale"})'
               PROVE  /\ row' # "done"
                      /\ \A r \in Runners : Busy(r)' => runner'[r].dict = live'
    BY DEF DoneKept
  <2>1. "crossed" \notin marks' /\ "stale" \notin marks' /\ Clean({"crossed", "stale"})
    BY <1>2 DEF Clean
  <2>2. row # "done"
    <3>1. CASE row = "failed"
      BY <3>1
    <3>2. CASE d = live /\ live' = live /\ ~audit
      <4>1. status[live] = "failed" /\ live # NoDict
        BY <1>1, <1>3, <3>2, MakesKeeps DEF ExpInv, Types, Makes, Holdings
      <4> QED BY <2>1, <3>2, <4>1 DEF ExpInv, DoneKept, Invites
    <3> QED BY <1>3, <2>1, <3>1, <3>2
  <2> QED BY <1>1, <1>3, <1>8, <1>9, <2>1, <2>2 DEF Settles
<1> QED BY <1>10, <1>11, <1>12, <1>13, <1>14, <1>15, <1>16, <1>17 DEF ExpInv

LEMMA CreateSelectsKeeps ==
    ASSUME ExpInv, NEW q \in Requests, CreateSelects(q) PROVE ExpInv'
<1> DEFINE w == Selected(req[q])
<1>1. /\ req[q].at = "creating" /\ Creating(q) /\ Types
      /\ UNCHANGED <<audit, row, live, status, runner, active, acts, restarts, marks>>
  BY DEF ExpInv, CreateSelects, Creating
<1>2. /\ \A p \in Requests : Creating(p) => p = q
      /\ \A r \in Runners : ~Busy(r)
      /\ req[q].dict = First /\ live = First /\ status[First] = "pending" /\ row = "none"
      /\ \A d \in Dicts \ {First} : status[d] = "unmade"
  BY <1>1 DEF ExpInv, Creation
<1>3. /\ w \in ReqRec /\ w.at = "committing" /\ w.dict = First
      /\ w.found = "none" /\ w.wrote = "pending"
  BY <1>1, <1>2 DEF Selected, Types, ReqRec, Statuses
<1>4. req' = [req EXCEPT ![q] = w]
  BY DEF CreateSelects
<1> HIDE DEF w
<1>5. req' \in [Requests -> ReqRec] /\ req'[q] = w /\ \A p \in Requests \ {q} : req'[p] = req[p]
  BY <1>1, <1>3, <1>4, RequestMoves
<1>6. \A p \in Requests : Creating(p)' <=> Creating(p)
  BY <1>1, <1>3, <1>5 DEF Creating
<1>7. \A r \in Runners : (Busy(r)' <=> Busy(r)) /\ (Waiting(r)' <=> Waiting(r))
  BY <1>1 DEF Busy, Waiting
<1>8. Types'
  BY <1>1, <1>5 DEF Types
<1>9. Holdings'
  <2>1. \A p \in Requests : req'[p].at = "turning" => req'[p] = req[p]
    BY <1>3, <1>5
  <2>2. Holdings
    BY DEF ExpInv
  <2>3. \A p \in Requests : req'[p].at = "turning" =>
          req'[p].dict \in Dicts /\ status'[req'[p].dict] # "unmade"
    BY <1>1, <2>1, <2>2 DEF Holdings
  <2>4. \A r \in Runners :
          /\ Busy(r)' => runner'[r].dict \in Dicts /\ status'[runner'[r].dict] # "unmade"
          /\ Waiting(r)' => runner'[r].attempt < Retries
    BY <1>1, <1>7, <2>2 DEF Holdings
  <2>5. active' # NoRunner => Busy(active)' /\ runner'[active'].at # "queued"
    BY <1>1, <2>2 DEF Holdings, Busy
  <2>6. live' # NoDict => status'[live'] # "unmade"
    BY <1>1, <2>2 DEF Holdings
  <2> QED BY <2>3, <2>4, <2>5, <2>6 DEF Holdings
<1>10. Creation'
  <2>1. \A p \in Requests : ~Restorer(req'[p])
    BY <1>1, <1>3, <1>5 DEF ExpInv, Creation, Restorer
  <2> QED BY <1>1, <1>2, <1>3, <1>5, <1>6, <1>7, <2>1 DEF Creation, Restorer
<1>11. Worked'
  BY <1>1, <1>6, <1>7 DEF ExpInv, Worked
<1>12. Uncrossed'
  BY <1>1, <1>7 DEF ExpInv, Uncrossed, Alone, Recorded
<1>13. RowSettles' /\ Agree' /\ DoneKept'
  BY <1>1, <1>7 DEF ExpInv, RowSettles, Agree, DoneKept, Clean, Invites
<1> QED BY <1>8, <1>9, <1>10, <1>11, <1>12, <1>13 DEF ExpInv

\* Whatever it finds, a record leaves the row, or makes it what was assigned.
LEMMA CommitsIs ==
    ASSUME NEW w, Commits(w), marks \subseteq Marks
    PROVE  /\ row' = row \/ row' = w.wrote
           /\ marks \subseteq marks' /\ marks' \subseteq Marks /\ marks' \subseteq marks \cup {"lost"}
           /\ "lost" \notin marks' /\ row \in {w.found, "none"} => row' \in {w.wrote, "none"}
BY DEF Commits, Marks

LEMMA CreateSubmitsKeeps ==
    ASSUME ExpInv, NEW q \in Requests, CreateSubmits(q) PROVE ExpInv'
<1>1. /\ Creating(q) /\ Types /\ req[q].at = "committing"
      /\ Commits(req[q]) /\ Submit(req[q].dict) /\ Answered(q)
      /\ UNCHANGED <<audit, live, status, active, acts, restarts>>
  BY DEF ExpInv, CreateSubmits, Creating
<1>2. /\ \A p \in Requests : Creating(p) => p = q
      /\ \A r \in Runners : ~Busy(r)
      /\ req[q].dict = First /\ live = First /\ status[First] = "pending" /\ row = "none"
      /\ \A d \in Dicts \ {First} : status[d] = "unmade"
      /\ req[q].found = "none" /\ req[q].wrote = "pending"
  BY <1>1 DEF ExpInv, Creation
<1>3. row' \in {"none", "pending"} /\ marks \subseteq marks' /\ marks' \subseteq Marks
      /\ marks' \subseteq marks \cup {"lost"}
  BY <1>1, <1>2, CommitsIs DEF Types
<1>4. active = NoRunner
  BY <1>1, <1>2 DEF ExpInv, Holdings, Types
<1>5. /\ runner' \in [Runners -> RunRec]
      /\ \E r \in Runners :
           /\ runner'[r].at = "queued" /\ runner'[r].dict = First /\ runner'[r].then = "none"
           /\ \A s \in Runners \ {r} : runner'[s] = runner[s]
  BY <1>1, <1>2, <1>4, SubmitIs
<1>6. PICK r \in Runners :
           /\ runner'[r].at = "queued" /\ runner'[r].dict = First /\ runner'[r].then = "none"
           /\ \A s \in Runners \ {r} : runner'[s] = runner[s]
  BY <1>5
<1>7. req' \in [Requests -> ReqRec] /\ req'[q].at = "idle"
      /\ \A p \in Requests \ {q} : req'[p] = req[p]
  BY <1>1, UnusedIs, RequestMoves DEF Answered
<1>8. \A s \in Runners : runner'[s].at = "unborn" \/ s = r
  BY <1>2, <1>6 DEF Busy
<1>9. \A p \in Requests : ~Creating(p)'
  BY <1>2, <1>7 DEF Creating
<1>10. Types'
  BY <1>1, <1>3, <1>5, <1>7 DEF Types, Statuses
<1>11. Holdings'
  <2>1. \A p \in Requests : req'[p].at = "turning" => req'[p] = req[p]
    BY <1>7
  <2>2. \A s \in Runners : Busy(s)' => runner'[s].dict \in Dicts /\ status'[runner'[s].dict] # "unmade"
    BY <1>1, <1>2, <1>6, <1>8 DEF Busy
  <2>3. \A s \in Runners : ~Waiting(s)'
    BY <1>6, <1>8 DEF Waiting
  <2> QED BY <1>1, <1>2, <1>4, <2>1, <2>2, <2>3 DEF ExpInv, Holdings
<1>12. Creation'
  BY <1>9 DEF Creation
<1>13. Worked'
  BY <1>1, <1>2, <1>6 DEF Worked
<1>14. Uncrossed'
  BY <1>6, <1>8 DEF Uncrossed, Alone, Recorded, Busy
<1>15. RowSettles'
  BY <1>6 DEF RowSettles, Busy
<1>16. Agree'
  BY <1>1, <1>2, <1>6, <1>8 DEF Agree, Busy
<1>17. DoneKept'
  BY <1>1, <1>2, <1>3, <1>6, <1>8 DEF DoneKept, Busy
<1> QED BY <1>10, <1>11, <1>12, <1>13, <1>14, <1>15, <1>16, <1>17 DEF ExpInv

(***************************************************************************)
(* Steps of coroutines.                                                    *)
(***************************************************************************)
\* Waiting, of a coroutine's record.
Waits(w) == \/ w.at \in {"recording", "committing"} /\ w.then = "sleep"
            \/ w.at = "sleeping"

\* A coroutine goes on as w, and its dictionary gets status s.
Works(r, w, s) ==
    /\ Busy(r) /\ w \in RunRec /\ s \in Statuses
    /\ runner' = [runner EXCEPT ![r] = w]
    /\ status' = [status EXCEPT ![runner[r].dict] = s]
    /\ UNCHANGED <<audit, live, req, acts, restarts>>
    /\ row' \in Statuses \cup {"none"}
    /\ marks \subseteq marks' /\ marks' \subseteq Marks /\ marks' \subseteq marks \cup {"lost"}
    /\ w.at # "unborn" => w.dict = runner[r].dict
    /\ Waits(w) => w.attempt < Retries
    /\ \/ active' = active /\ (active = r => w.at \notin {"unborn", "queued"})
       \/ active' = r /\ w.at \notin {"unborn", "queued"}
       \/ active' = NoRunner
    /\ s = "running" => \/ w.at = "exporting"
                        \/ status[runner[r].dict] = "running" /\ runner[r].at # "exporting"
    /\ s = "pending" => \/ Waits(w)
                        \/ /\ status[runner[r].dict] = "pending"
                           /\ runner[r].at # "queued" /\ ~Waits(runner[r])

LEMMA WorksIs ==
    ASSUME ExpInv, NEW r \in Runners, NEW w, NEW s, Works(r, w, s)
    PROVE  /\ runner[r].dict \in Dicts /\ status[runner[r].dict] # "unmade"
           /\ runner' \in [Runners -> RunRec] /\ runner'[r] = w
           /\ \A x \in Runners \ {r} : runner'[x] = runner[x]
           /\ status' \in [Dicts -> Statuses \cup {"unmade"}]
           /\ status'[runner[r].dict] = s
           /\ \A e \in Dicts \ {runner[r].dict} : status'[e] = status[e]
           /\ \A q \in Requests : ~Creating(q)
<1>1. runner[r].dict \in Dicts /\ status[runner[r].dict] # "unmade"
  BY DEF ExpInv, Holdings, Works
<1>2. \A q \in Requests : ~Creating(q)
  BY DEF ExpInv, Creation, Works
<1> QED BY <1>1, <1>2 DEF ExpInv, Types, Works

LEMMA WorksKeep ==
    ASSUME ExpInv, NEW r \in Runners, NEW w, NEW s, Works(r, w, s)
    PROVE  Types' /\ Holdings' /\ Creation' /\ Worked'
<1> DEFINE d == runner[r].dict
<1>1. /\ d \in Dicts /\ status[d] # "unmade"
      /\ runner' \in [Runners -> RunRec] /\ runner'[r] = w
      /\ \A x \in Runners \ {r} : runner'[x] = runner[x]
      /\ status' \in [Dicts -> Statuses \cup {"unmade"}]
      /\ status'[d] = s
      /\ \A e \in Dicts \ {d} : status'[e] = status[e]
      /\ \A q \in Requests : ~Creating(q)
  BY WorksIs
<1>2. s \in Statuses /\ s # "unmade"
  BY DEF Works, Statuses
<1> HIDE DEF d
<1>3. Types'
  BY <1>1 DEF ExpInv, Types, Works
<1>4. \A e \in Dicts : status[e] # "unmade" => status'[e] # "unmade"
  BY <1>1, <1>2
<1>5. Holdings'
  <2>1. Types /\ Holdings
    BY DEF ExpInv
  <2>2. ASSUME NEW x \in Runners
        PROVE  /\ Busy(x)' => runner'[x].dict \in Dicts /\ status'[runner'[x].dict] # "unmade"
               /\ Waiting(x)' => runner'[x].attempt < Retries
    <3>1. CASE x = r
      BY <1>1, <1>2, <3>1 DEF Works, Busy, Waiting, Waits, d
    <3>2. CASE x # r
      BY <1>1, <1>4, <2>1, <3>2 DEF Holdings, Busy, Waiting
    <3> QED BY <3>1, <3>2
  <2>3. \A q \in Requests : req'[q].at = "turning" =>
          req'[q].dict \in Dicts /\ status'[req'[q].dict] # "unmade"
    BY <1>4, <2>1 DEF Holdings, Works
  <2>4. live' # NoDict => status'[live'] # "unmade"
    BY <1>4, <2>1 DEF Holdings, Types, Works
  <2>5. active' # NoRunner => Busy(active)' /\ runner'[active'].at # "queued"
    <3> SUFFICES ASSUME active' # NoRunner PROVE runner'[active'].at \notin {"unborn", "queued"}
      BY DEF Busy
    <3>1. CASE active' = r
      BY <1>1, <3>1 DEF Works
    <3>2. CASE active' # r
      <4>1. active' = active /\ active \in Runners \ {r}
        BY <2>1, <3>2 DEF Works, Types
      <4> QED BY <1>1, <2>1, <4>1 DEF Holdings, Busy
    <3> QED BY <3>1, <3>2
  <2> QED BY <2>2, <2>3, <2>4, <2>5 DEF Holdings
<1>6. \A q \in Requests : ~Creating(q)'
  BY <1>1 DEF Creating, Works
<1>7. Creation'
  BY <1>6 DEF Creation
<1>8. Worked'
  <2> SUFFICES ASSUME "ghost" \notin marks', NEW e \in Dicts
               PROVE  /\ status'[e] = "running" =>
                           \E x \in Runners : runner'[x].dict = e /\ runner'[x].at = "exporting"
                      /\ status'[e] = "pending" =>
                           \E x \in Runners : runner'[x].dict = e
                                             /\ (runner'[x].at = "queued" \/ Waiting(x)')
    BY DEF Worked
  <2>1. "ghost" \notin marks
    BY DEF Works
  <2>2. /\ status[e] = "running" =>
              \E x \in Runners : runner[x].dict = e /\ runner[x].at = "exporting"
        /\ status[e] = "pending" =>
              \E x \in Runners : runner[x].dict = e
                                 /\ (runner[x].at = "queued" \/ Waits(runner[x]))
    BY <1>1, <2>1 DEF ExpInv, Worked, Waiting, Waits
  <2>3. \A x \in Runners : Waiting(x)' <=> Waits(runner'[x])
    BY DEF Waiting, Waits
  <2>4. CASE e # d
    <3>1. status'[e] = status[e] /\ \A x \in Runners : runner[x].dict = e => runner'[x] = runner[x]
      BY <1>1, <2>4 DEF d
    <3> QED BY <2>2, <2>3, <3>1
  <2>5. CASE e = d
    <3>1. ASSUME s = "running"
          PROVE  \E x \in Runners : runner'[x].dict = d /\ runner'[x].at = "exporting"
      <4>1. CASE w.at = "exporting"
        BY <1>1, <4>1 DEF Works, d
      <4>2. CASE w.at # "exporting"
        <5>1. status[d] = "running" /\ runner[r].at # "exporting"
          BY <3>1, <4>2 DEF Works, d
        <5> QED BY <1>1, <2>2, <2>5, <5>1
      <4> QED BY <4>1, <4>2
    <3>2. ASSUME s = "pending"
          PROVE  \E x \in Runners : runner'[x].dict = d
                                    /\ (runner'[x].at = "queued" \/ Waits(runner'[x]))
      <4>1. CASE Waits(w)
        <5>1. w.at # "unborn"
          BY <4>1 DEF Waits
        <5> QED BY <1>1, <4>1, <5>1 DEF Works, d
      <4>2. CASE ~Waits(w)
        <5>1. status[d] = "pending" /\ runner[r].at # "queued" /\ ~Waits(runner[r])
          BY <3>2, <4>2 DEF Works, d
        <5> QED BY <1>1, <2>2, <2>5, <5>1
      <4> QED BY <4>1, <4>2
    <3> QED BY <1>1, <2>3, <2>5, <3>1, <3>2
  <2> QED BY <2>4, <2>5
<1> QED BY <1>3, <1>5, <1>7, <1>8

\* A step that leaves the row alone, after which the coroutine is still there.
LEMMA GoesOn ==
    ASSUME ExpInv, NEW r \in Runners, NEW w, NEW s, Works(r, w, s),
           row' = row, marks' = marks, w.at # "unborn",
           "crossed" \notin marks =>
             /\ w.at \in {"recording", "committing"} =>
                  \/ w.then = "judge" /\ s \in Finished
                  \/ w.then = "sleep" /\ s = "pending"
             /\ w.at = "committing" => w.wrote = s /\ row \in {w.found, "none"}
    PROVE  ExpInv'
<1>1. /\ runner[r].dict \in Dicts /\ status[runner[r].dict] # "unmade"
      /\ runner' \in [Runners -> RunRec] /\ runner'[r] = w
      /\ \A x \in Runners \ {r} : runner'[x] = runner[x]
      /\ status' \in [Dicts -> Statuses \cup {"unmade"}]
      /\ status'[runner[r].dict] = s
      /\ \A e \in Dicts \ {runner[r].dict} : status'[e] = status[e]
      /\ \A q \in Requests : ~Creating(q)
  BY WorksIs
<1>2. w.dict = runner[r].dict /\ live' = live /\ audit' = audit /\ Busy(r)
  BY DEF Works
<1>3. \A x \in Runners : (Busy(x)' <=> Busy(x)) /\ runner'[x].dict = runner[x].dict
  BY <1>1, <1>2 DEF Busy
<1>4. "crossed" \notin marks => \A x \in Runners : Busy(x) => x = r
  BY <1>2 DEF ExpInv, Uncrossed, Alone
<1>5. Uncrossed'
  <2>1. ASSUME NEW x \in Runners, "crossed" \notin marks PROVE Recorded(runner[x])'
    <3>1. CASE x = r
      BY <1>1, <1>2, <2>1, <3>1 DEF Recorded
    <3>2. CASE x # r
      <4>1. runner'[x].at = "unborn"
        BY <1>1, <1>4, <2>1, <3>2 DEF Busy
      <4> QED BY <4>1 DEF Recorded
    <3> QED BY <3>1, <3>2
  <2> QED BY <1>3, <1>4, <2>1 DEF Uncrossed, Alone
<1>6. RowSettles'
  BY <1>2, <1>3 DEF RowSettles
<1>7. Agree'
  BY <1>2, <1>3 DEF ExpInv, Agree, Clean
<1>8. DoneKept'
  <2> SUFFICES ASSUME Clean({"crossed", "stale"})
               PROVE  /\ row # "done"
                      /\ \A x \in Runners : Busy(x) /\ runner[x].dict # live => ~Invites'
    BY <1>2, <1>3 DEF DoneKept, Clean
  <2>1. row # "done"
    BY <1>2 DEF ExpInv, DoneKept
  <2>2. ASSUME NEW x \in Runners, Busy(x), runner[x].dict # live PROVE ~Invites'
    <3>1. x = r
      BY <1>4, <2>2 DEF Clean
    <3>2. ~Invites
      BY <2>2 DEF ExpInv, DoneKept
    <3>3. live # NoDict => status'[live] = status[live]
      BY <1>1, <2>2, <3>1 DEF ExpInv, Types
    <3> QED BY <1>2, <3>2, <3>3 DEF Invites
  <2> QED BY <2>1, <2>2
<1> QED BY <1>5, <1>6, <1>7, <1>8, WorksKeep DEF ExpInv

LEMMA AtIs ==
    ASSUME NEW u \in RunRec,
           NEW at \in {"unborn", "queued", "exporting", "recording", "committing", "sleeping"}
    PROVE  /\ [u EXCEPT !.at = at] \in RunRec
           /\ [u EXCEPT !.at = at].at = at /\ [u EXCEPT !.at = at].dict = u.dict
           /\ [u EXCEPT !.at = at].then = u.then /\ [u EXCEPT !.at = at].attempt = u.attempt
BY DEF RunRec

LEMMA ThenIs ==
    ASSUME NEW u \in RunRec, NEW then \in {"none", "judge", "sleep", "end"}
    PROVE  /\ [u EXCEPT !.then = then] \in RunRec
           /\ [u EXCEPT !.then = then].at = u.at /\ [u EXCEPT !.then = then].dict = u.dict
           /\ [u EXCEPT !.then = then].then = then /\ [u EXCEPT !.then = then].attempt = u.attempt
BY DEF RunRec

LEMMA RestIs ==
    ASSUME NEW u \in RunRec, NEW d \in Dicts, NEW a \in 0..Retries
    PROVE  /\ [u EXCEPT !.dict = d, !.attempt = a] \in RunRec
           /\ [u EXCEPT !.dict = d, !.attempt = a].at = u.at
           /\ [u EXCEPT !.dict = d, !.attempt = a].dict = d
           /\ [u EXCEPT !.dict = d, !.attempt = a].then = u.then
           /\ [u EXCEPT !.dict = d, !.attempt = a].attempt = a
BY DEF RunRec

LEMMA TakeKeeps == ASSUME ExpInv, NEW r \in Runners, Take(r) PROVE ExpInv'
<1> DEFINE w == [runner[r] EXCEPT !.at = "exporting"]
<1>1. /\ runner[r].at = "queued" /\ Busy(r) /\ runner[r] \in RunRec /\ Types
      /\ status' = [status EXCEPT ![runner[r].dict] = "running"]
      /\ active' = r
      /\ UNCHANGED <<audit, row, live, req, acts, restarts, marks>>
  BY DEF ExpInv, Types, Take, Busy
<1>2. runner' = [runner EXCEPT ![r] = w]
  BY DEF Take
<1>3. w \in RunRec /\ w.at = "exporting" /\ w.dict = runner[r].dict
  BY <1>1, AtIs
<1> HIDE DEF w
<1>4. ~Waits(w)
  BY <1>3 DEF Waits
<1>5. Works(r, w, "running")
  BY <1>1, <1>2, <1>3, <1>4 DEF Works, Types, Statuses
<1> QED BY <1>1, <1>3, <1>5, GoesOn

LEMMA AttemptEndsKeeps == ASSUME ExpInv, NEW r \in Runners, AttemptEnds(r) PROVE ExpInv'
<1> DEFINE u == [runner[r] EXCEPT !.at = "recording"]
           w == [u EXCEPT !.then = "judge"]
<1>1. /\ runner[r].at = "exporting" /\ Busy(r) /\ runner[r] \in RunRec /\ Types
      /\ UNCHANGED <<audit, row, live, active, req, acts, restarts, marks>>
  BY DEF ExpInv, Types, AttemptEnds, Busy
<1>2. PICK end \in Finished : status' = [status EXCEPT ![runner[r].dict] = end]
  BY DEF AttemptEnds
<1>3. runner' = [runner EXCEPT ![r] = w]
  BY <1>1 DEF AttemptEnds, RunRec, Types
<1>4. w \in RunRec /\ w.at = "recording" /\ w.then = "judge" /\ w.dict = runner[r].dict
  <2>1. u \in RunRec /\ u.at = "recording" /\ u.dict = runner[r].dict
    BY <1>1, AtIs
  <2> HIDE DEF u
  <2> QED BY <2>1, ThenIs
<1> HIDE DEF w
<1>5. ~Waits(w)
  BY <1>4 DEF Waits
<1>6. Works(r, w, end)
  BY <1>1, <1>2, <1>3, <1>4, <1>5 DEF Works, Types, Statuses, Finished
<1> QED BY <1>1, <1>4, <1>6, GoesOn

LEMMA SelectsKeeps == ASSUME ExpInv, NEW r \in Runners, Selects(r) PROVE ExpInv'
<1> DEFINE w == Selected(runner[r])
           s == status[runner[r].dict]
<1>1. /\ runner[r].at = "recording" /\ Busy(r) /\ runner[r] \in RunRec /\ Types
      /\ runner[r].dict \in Dicts /\ s # "unmade"
      /\ UNCHANGED <<audit, row, live, active, req, acts, restarts, marks, status>>
  BY DEF ExpInv, Types, Selects, Busy, Holdings
<1>2. runner' = [runner EXCEPT ![r] = w]
  BY DEF Selects
<1>3. s \in Statuses
  BY <1>1 DEF Types
<1>4. /\ w \in RunRec /\ w.at = "committing" /\ w.then = runner[r].then
      /\ w.dict = runner[r].dict /\ w.found = row /\ w.wrote = s /\ w.attempt = runner[r].attempt
  BY <1>1, <1>3 DEF Selected, RunRec, Types
<1>5. status' = [status EXCEPT ![runner[r].dict] = s]
  BY <1>1 DEF Types
<1> HIDE DEF w
<1>6. Waits(w) <=> Waits(runner[r])
  BY <1>1, <1>4 DEF Waits
<1>7. Waits(runner[r]) => runner[r].attempt < Retries
  BY DEF ExpInv, Holdings, Waits, Waiting
<1>8. active = r => w.at \notin {"unborn", "queued"}
  BY <1>4
<1>9. Works(r, w, s)
  BY <1>1, <1>2, <1>3, <1>4, <1>5, <1>6, <1>7, <1>8 DEF Works, Types
<1>10. "crossed" \notin marks => \/ w.then = "judge" /\ s \in Finished
                                 \/ w.then = "sleep" /\ s = "pending"
  BY <1>1, <1>4 DEF ExpInv, Uncrossed, Recorded
<1> QED BY <1>1, <1>4, <1>9, <1>10, GoesOn

LEMMA WakesKeeps == ASSUME ExpInv, NEW r \in Runners, Wakes(r) PROVE ExpInv'
<1> DEFINE w == [runner[r] EXCEPT !.at = "exporting", !.attempt = runner[r].attempt + 1]
<1>1. /\ runner[r].at = "sleeping" /\ Busy(r) /\ runner[r] \in RunRec /\ Types
      /\ status' = [status EXCEPT ![runner[r].dict] = "running"]
      /\ UNCHANGED <<audit, row, live, active, req, acts, restarts, marks>>
  BY DEF ExpInv, Types, Wakes, Busy
<1>2. runner' = [runner EXCEPT ![r] = w]
  BY <1>1 DEF Wakes, RunRec, Types
<1>3. runner[r].attempt < Retries /\ runner[r].attempt \in 0..Retries
  BY <1>1 DEF ExpInv, Holdings, Waiting, RunRec
<1>4. runner[r].attempt + 1 \in 0..Retries
  BY <1>3
<1>5. w \in RunRec /\ w.at = "exporting" /\ w.dict = runner[r].dict
  BY <1>1, <1>4 DEF RunRec
<1> HIDE DEF w
<1>6. ~Waits(w)
  BY <1>5 DEF Waits
<1>7. Works(r, w, "running")
  BY <1>1, <1>2, <1>5, <1>6 DEF Works, Types, Statuses
<1> QED BY <1>1, <1>5, <1>7, GoesOn

\* What a coroutine does when its record is written.
LEMMA JudgedIs ==
    ASSUME Types, NEW r \in Runners, runner[r].dict \in Dicts, status[runner[r].dict] # "unmade"
    PROVE  LET d == runner[r].dict
               w == Judged(r).runner
               s == Judged(r).status
           IN  /\ w \in RunRec /\ s \in Statuses
               /\ \/ /\ runner[r].then = "judge" /\ status[d] = "failed" /\ s = "pending"
                     /\ w.at = "recording" /\ w.then = "sleep" /\ w.dict = d
                     /\ w.attempt < Retries
                  \/ /\ runner[r].then = "judge" /\ status[d] = "pending" /\ s = "failed"
                     /\ w.at = "recording" /\ w.then = "end" /\ w.dict = d
                  \/ /\ runner[r].then = "sleep" /\ s = status[d]
                     /\ w.at = "sleeping" /\ w.dict = d /\ w.attempt = runner[r].attempt
                  \/ /\ runner[r].then # "sleep" /\ s = status[d] /\ w = Unborn
                     /\ ~(runner[r].then = "judge" /\ status[d] = "pending")
<1> DEFINE d == runner[r].dict
           rest == [Unborn EXCEPT !.dict = d, !.attempt = runner[r].attempt]
           again == [rest EXCEPT !.at = "recording"]
           sleep == [again EXCEPT !.then = "sleep"]
           end == [again EXCEPT !.then = "end"]
           asleep == [rest EXCEPT !.at = "sleeping"]
<1>1. runner[r] \in RunRec /\ status[d] \in Statuses
      /\ runner[r].attempt \in 0..Retries
  BY DEF Types, RunRec
<1>2. rest \in RunRec /\ rest.dict = d /\ rest.attempt = runner[r].attempt
  <2>1. ASSUME NEW e \in Dicts, NEW a \in 0..Retries
        PROVE  LET u == [Unborn EXCEPT !.dict = e, !.attempt = a]
               IN  u \in RunRec /\ u.dict = e /\ u.attempt = a
    BY UnbornIs DEF RunRec
  <2> QED BY <1>1, <2>1
<1>3. Judged(r) =
        CASE runner[r].then = "judge" /\ status[d] = "failed" /\ MayRetry(r) ->
               [status |-> "pending", runner |-> sleep]
          [] runner[r].then = "judge" /\ status[d] = "pending" ->
               [status |-> "failed", runner |-> end]
          [] runner[r].then = "sleep" -> [status |-> status[d], runner |-> asleep]
          [] OTHER -> [status |-> status[d], runner |-> Unborn]
  BY DEF Judged
<1> HIDE DEF rest
<1>4. /\ again \in RunRec /\ again.at = "recording" /\ again.dict = d
      /\ again.attempt = runner[r].attempt
      /\ asleep \in RunRec /\ asleep.at = "sleeping" /\ asleep.dict = d
      /\ asleep.attempt = runner[r].attempt
  BY <1>2, AtIs
<1> HIDE DEF again, asleep
<1>5. /\ sleep \in RunRec /\ sleep.at = "recording" /\ sleep.then = "sleep" /\ sleep.dict = d
      /\ sleep.attempt = runner[r].attempt
      /\ end \in RunRec /\ end.at = "recording" /\ end.then = "end" /\ end.dict = d
  BY <1>4, ThenIs
<1>6. MayRetry(r) => runner[r].attempt < Retries
  BY <1>1 DEF MayRetry, Allowed
<1> HIDE DEF sleep, end
<1>7. CASE runner[r].then = "judge" /\ status[d] = "failed" /\ MayRetry(r)
  <2>1. Judged(r) = [status |-> "pending", runner |-> sleep]
    BY <1>3, <1>7
  <2> QED BY <1>5, <1>6, <1>7, <2>1 DEF Statuses
<1>8. CASE runner[r].then = "judge" /\ status[d] = "pending"
  <2>1. Judged(r) = [status |-> "failed", runner |-> end]
    BY <1>3, <1>8
  <2> QED BY <1>5, <1>8, <2>1 DEF Statuses
<1>9. CASE runner[r].then = "sleep"
  <2>1. Judged(r) = [status |-> status[d], runner |-> asleep]
    BY <1>3, <1>9
  <2> QED BY <1>1, <1>4, <1>9, <2>1
<1>10. CASE /\ runner[r].then # "sleep"
            /\ ~(runner[r].then = "judge" /\ status[d] = "failed" /\ MayRetry(r))
            /\ ~(runner[r].then = "judge" /\ status[d] = "pending")
  <2>1. Judged(r) = [status |-> status[d], runner |-> Unborn]
    BY <1>3, <1>10
  <2> QED BY <1>1, <1>10, <2>1, UnbornIs
<1> QED BY <1>7, <1>8, <1>9, <1>10

LEMMA RecordsKeeps == ASSUME ExpInv, NEW r \in Runners, Records(r) PROVE ExpInv'
<1> DEFINE d == runner[r].dict
           w == Judged(r).runner
           s == Judged(r).status
<1>1. /\ runner[r].at = "committing" /\ Busy(r) /\ runner[r] \in RunRec /\ Types
      /\ d \in Dicts /\ status[d] # "unmade"
      /\ UNCHANGED <<audit, live, req, acts, restarts>>
      /\ Commits(runner[r])
      /\ runner' = [runner EXCEPT ![r] = w] /\ status' = [status EXCEPT ![d] = s]
  BY DEF ExpInv, Types, Records, Busy, Holdings
<1>2. /\ w \in RunRec /\ s \in Statuses
      /\ \/ /\ runner[r].then = "judge" /\ status[d] = "failed" /\ s = "pending"
            /\ w.at = "recording" /\ w.then = "sleep" /\ w.dict = d /\ w.attempt < Retries
         \/ /\ runner[r].then = "judge" /\ status[d] = "pending" /\ s = "failed"
            /\ w.at = "recording" /\ w.then = "end" /\ w.dict = d
         \/ /\ runner[r].then = "sleep" /\ s = status[d]
            /\ w.at = "sleeping" /\ w.dict = d /\ w.attempt = runner[r].attempt
         \/ /\ runner[r].then # "sleep" /\ s = status[d] /\ w = Unborn
            /\ ~(runner[r].then = "judge" /\ status[d] = "pending")
  BY <1>1, JudgedIs
<1>3. active' = IF w = Unborn /\ active = r THEN NoRunner ELSE active
  BY <1>1 DEF Records, Types
<1>4. /\ row' = row \/ row' = runner[r].wrote
      /\ marks \subseteq marks' /\ marks' \subseteq Marks /\ marks' \subseteq marks \cup {"lost"}
      /\ "lost" \notin marks' /\ row \in {runner[r].found, "none"} =>
           row' \in {runner[r].wrote, "none"}
  BY <1>1, CommitsIs DEF Types
<1> HIDE DEF w, s
<1>5. Works(r, w, s)
  <2>1. w.at # "unborn" => w.dict = d
    BY <1>2, UnbornIs
  <2>2. Waits(w) => w.attempt < Retries
    <3>1. Waits(runner[r]) => runner[r].attempt < Retries
      BY DEF ExpInv, Holdings, Waits, Waiting
    <3> QED BY <1>1, <1>2, <3>1, UnbornIs DEF Waits
  <2>3. \/ active' = active /\ (active = r => w.at \notin {"unborn", "queued"})
        \/ active' = NoRunner
    BY <1>2, <1>3
  <2>4. s = "running" => status[d] = "running" /\ runner[r].at # "exporting"
    BY <1>1, <1>2
  <2>5. s = "pending" => \/ Waits(w)
                         \/ /\ status[d] = "pending"
                            /\ runner[r].at # "queued" /\ ~Waits(runner[r])
    BY <1>1, <1>2 DEF Waits
  <2>6. row' \in Statuses \cup {"none"}
    BY <1>1, <1>4 DEF Types, RunRec
  <2> QED BY <1>1, <1>2, <1>4, <2>1, <2>2, <2>3, <2>4, <2>5, <2>6 DEF Works
<1>6. /\ runner' \in [Runners -> RunRec] /\ runner'[r] = w
      /\ \A x \in Runners \ {r} : runner'[x] = runner[x]
      /\ status' \in [Dicts -> Statuses \cup {"unmade"}]
      /\ status'[d] = s
      /\ \A e \in Dicts \ {d} : status'[e] = status[e]
      /\ \A q \in Requests : ~Creating(q)
  BY <1>5, WorksIs
<1> HIDE DEF d
<1>7. /\ live' = live /\ audit' = audit
      /\ \A x \in Runners : Busy(x)' => Busy(x) /\ runner'[x].dict = runner[x].dict
  BY <1>1, <1>2, <1>6, UnbornIs DEF Busy, d
<1>8. ASSUME "crossed" \notin marks'
      PROVE  /\ "crossed" \notin marks /\ \A x \in Runners : Busy(x) => x = r
             /\ \/ runner[r].then = "judge" /\ status[d] \in Finished
                \/ runner[r].then = "sleep" /\ status[d] = "pending"
             /\ "lost" \notin marks' => row' \in {status[d], "none"}
             /\ row' = row \/ row' = status[d]
  <2>1. "crossed" \notin marks
    BY <1>4, <1>8
  <2>2. Alone /\ Recorded(runner[r])
    BY <2>1 DEF ExpInv, Uncrossed
  <2> QED BY <1>1, <1>4, <2>1, <2>2 DEF Alone, Recorded, d
<1>9. ASSUME "crossed" \notin marks', \A x \in Runners : ~Busy(x)'
      PROVE  status[d] \in Finished /\ status' = status
  <2>1. w.at = "unborn"
    BY <1>6, <1>9 DEF Busy
  <2>2. runner[r].then # "sleep" /\ s = status[d]
    BY <1>2, <2>1 DEF d
  <2> QED BY <1>1, <1>8, <1>9, <2>2 DEF Types, d
<1>10. Uncrossed'
  <2>1. ASSUME NEW x \in Runners, "crossed" \notin marks' PROVE Recorded(runner[x])'
    <3>1. CASE x = r
      <4>1. \/ w.at = "recording" /\ w.then = "sleep" /\ w.dict = d /\ s = "pending"
            \/ w.at \in {"sleeping", "unborn"}
        BY <1>2, <1>8, <2>1, UnbornIs DEF Finished, d
      <4> QED BY <1>6, <3>1, <4>1 DEF Recorded
    <3>2. CASE x # r
      <4>1. runner'[x].at = "unborn"
        BY <1>6, <1>8, <2>1, <3>2 DEF Busy
      <4> QED BY <4>1 DEF Recorded
    <3> QED BY <3>1, <3>2
  <2> QED BY <1>7, <1>8, <2>1 DEF Uncrossed, Alone
<1>11. RowSettles'
  BY <1>8, <1>9 DEF RowSettles, Clean
<1>12. Agree'
  <2> SUFFICES ASSUME Clean({"lost", "ghost", "crossed", "stale"})', live # NoDict
               PROVE  /\ \A x \in Runners : Busy(x)' => runner'[x].dict = live
                      /\ (\A x \in Runners : ~Busy(x)') /\ row' # "none" => row' = status'[live]
    BY <1>7 DEF Agree
  <2>1. Clean({"lost", "ghost", "crossed", "stale"})
    BY <1>4 DEF Clean
  <2>2. \A x \in Runners : Busy(x) => runner[x].dict = live
    BY <2>1 DEF ExpInv, Agree
  <2>3. d = live
    BY <1>1, <2>2 DEF d
  <2> QED BY <1>7, <1>8, <1>9, <2>2, <2>3 DEF Clean
<1>13. DoneKept'
  <2> SUFFICES ASSUME Clean({"crossed", "stale"})'
               PROVE  /\ row' = "done" => ~Invites' /\ \A x \in Runners : ~Busy(x)'
                      /\ \A x \in Runners : Busy(x)' /\ runner'[x].dict # live' => ~Invites'
    BY DEF DoneKept
  <2>1. "crossed" \notin marks' /\ Clean({"crossed", "stale"})
    BY <1>4 DEF Clean
  <2>2. row # "done" /\ \A x \in Runners : Busy(x) /\ runner[x].dict # live => ~Invites
    BY <1>1, <2>1 DEF ExpInv, DoneKept
  <2>3. d # live => ~Invites'
    <3> SUFFICES ASSUME d # live PROVE ~Invites'
      OBVIOUS
    <3>1. ~Invites /\ (live # NoDict => status'[live] = status[live])
      BY <1>1, <1>6, <2>2 DEF d, Types
    <3> QED BY <1>7, <3>1 DEF Invites
  <2>4. ASSUME row' = "done" PROVE ~Invites' /\ \A x \in Runners : ~Busy(x)'
    <3>1. status[d] = "done"
      BY <1>8, <2>1, <2>2, <2>4
    <3>2. s = "done" /\ w = Unborn
      BY <1>2, <1>8, <2>1, <3>1 DEF d
    <3>3. \A x \in Runners : ~Busy(x)'
      BY <1>6, <1>7, <1>8, <2>1, <3>2, UnbornIs DEF Busy
    <3>4. d = live => ~Invites'
      BY <1>6, <1>7, <3>2 DEF Invites
    <3> QED BY <2>3, <3>3, <3>4
  <2>5. ASSUME NEW x \in Runners, Busy(x)', runner'[x].dict # live' PROVE ~Invites'
    <3>1. d # live
      BY <1>7, <1>8, <2>1, <2>5 DEF d
    <3> QED BY <2>3, <3>1
  <2> QED BY <2>4, <2>5
<1> QED BY <1>5, <1>10, <1>11, <1>12, <1>13, WorksKeep DEF ExpInv

(***************************************************************************)
(* The ends and the beginnings.                                            *)
(***************************************************************************)
LEMMA RestartKeeps == ASSUME ExpInv, Restart PROVE ExpInv'
<1>1. /\ restarts' \in 0..MaxRestarts /\ live' = NoDict /\ active' = NoRunner
      /\ status' = [d \in Dicts |-> "unmade"]
      /\ runner' = [r \in Runners |-> Unborn]
      /\ req' = [q \in Requests |-> Unused]
      /\ UNCHANGED <<audit, row, acts>>
      /\ marks \subseteq marks' /\ marks' \subseteq Marks
      /\ "cut" \in marks' \/ \A r \in Runners : ~Busy(r)
  BY DEF ExpInv, Types, Restart, Busy, Marks
<1>2. \A r \in Runners : runner'[r] = Unborn /\ ~Busy(r)' /\ ~Waiting(r)'
  BY <1>1, UnbornIs DEF Busy, Waiting
<1>3. \A q \in Requests : req'[q] = Unused /\ ~Creating(q)'
  BY <1>1, UnusedIs DEF Creating
<1>4. Types'
  BY <1>1, UnbornIs, UnusedIs DEF ExpInv, Types
<1>5. Holdings'
  BY <1>1, <1>2, <1>3, UnusedIs DEF Holdings
<1>6. Creation'
  BY <1>3 DEF Creation
<1>7. Worked'
  BY <1>1 DEF Worked
<1>8. Uncrossed'
  BY <1>2, UnbornIs DEF Uncrossed, Alone, Recorded
<1>9. RowSettles'
  BY <1>1 DEF ExpInv, RowSettles, Clean
<1>10. Agree' /\ DoneKept'
  BY <1>1, <1>2 DEF Agree, DoneKept, Invites
<1> QED BY <1>4, <1>5, <1>6, <1>7, <1>8, <1>9, <1>10 DEF ExpInv

LEMMA InitHolds == ASSUME Init PROVE ExpInv
<1> DEFINE w == [Unused EXCEPT !.at = "creating", !.dict = First]
<1>1. /\ audit \in BOOLEAN /\ row = "none" /\ live = First /\ active = NoRunner
      /\ status = [d \in Dicts |-> IF d = First THEN "pending" ELSE "unmade"]
      /\ runner = [r \in Runners |-> Unborn]
      /\ acts = 0 /\ restarts = 0 /\ marks = {}
  BY DEF Init
<1>2. PICK q \in Requests : req = [p \in Requests |-> IF p = q THEN w ELSE Unused]
  BY DEF Init
<1>3. w \in ReqRec /\ w.at = "creating" /\ w.dict = First
  <2>1. ASSUME NEW u \in ReqRec
        PROVE  LET x == [u EXCEPT !.at = "creating", !.dict = First]
               IN  x \in ReqRec /\ x.at = "creating" /\ x.dict = First
    BY DEF ReqRec
  <2> QED BY <2>1, UnusedIs
<1> HIDE DEF w
<1>4. /\ req \in [Requests -> ReqRec] /\ req[q] = w
      /\ \A p \in Requests \ {q} : req[p] = Unused
  BY <1>2, <1>3, UnusedIs
<1>5. \A r \in Runners : runner[r] = Unborn /\ ~Busy(r) /\ ~Waiting(r)
  BY <1>1, UnbornIs DEF Busy, Waiting
<1>6. \A p \in Requests : Creating(p) <=> p = q
  BY <1>3, <1>4, UnusedIs DEF Creating
<1>7. Types
  BY <1>1, <1>4, UnbornIs DEF Types, Statuses
<1>8. Holdings
  BY <1>1, <1>3, <1>4, <1>5, UnusedIs DEF Holdings
<1>9. Creation
  <2>1. \A p \in Requests : ~Restorer(req[p])
    BY <1>3, <1>4, UnusedIs DEF Restorer
  <2> QED BY <1>1, <1>3, <1>4, <1>5, <1>6, <2>1 DEF Creation
<1>10. Worked
  BY <1>1, <1>6 DEF Worked
<1>11. Uncrossed
  BY <1>5, UnbornIs DEF Uncrossed, Alone, Recorded
<1>12. RowSettles /\ Agree /\ DoneKept
  BY <1>1, <1>5 DEF RowSettles, Agree, DoneKept
<1> QED BY <1>7, <1>8, <1>9, <1>10, <1>11, <1>12 DEF ExpInv

LEMMA NextKeeps == ASSUME ExpInv, [Next]_vars PROVE ExpInv'
<1>1. CASE UNCHANGED vars
  BY <1>1 DEF ExpInv, Types, Holdings, Creation, Worked, Uncrossed, RowSettles, Agree, DoneKept,
              Busy, Waiting, Creating, Alone, Recorded, Clean, Invites, vars
<1>2. ASSUME NEW r \in Runners, Take(r) \/ Running(r) PROVE ExpInv'
  BY <1>2, TakeKeeps, AttemptEndsKeeps, SelectsKeeps, RecordsKeeps, WakesKeeps DEF Running
<1>3. ASSUME NEW q \in Requests, Request(q) PROVE ExpInv'
  <2>1. CASE CreateSelects(q) \/ CreateSubmits(q)
    BY <2>1, CreateSelectsKeeps, CreateSubmitsKeeps
  <2>2. CASE ~(CreateSelects(q) \/ CreateSubmits(q))
    <3>1. Tidies \/ Restoring \/ \E d \in Dicts : Retrying(d)
      BY <1>3, <2>2, RequestShapes DEF Request, ExpInv
    <3> QED BY <3>1, TidiesKeep, RestoringKeeps, RetryingKeeps
  <2> QED BY <2>1, <2>2
<1>4. CASE Crowded \/ Retry
  <2>1. Tidies \/ \E d \in Dicts : Retrying(d)
    BY <1>4, OtherShapes DEF ExpInv
  <2> QED BY <2>1, TidiesKeep, RetryingKeeps
<1>5. CASE Restart
  BY <1>5, RestartKeeps
<1> QED BY <1>1, <1>2, <1>3, <1>4, <1>5 DEF Next

(***************************************************************************)
(* Theorems.                                                               *)
(***************************************************************************)
\* The invariant: see README.
THEOREM Invariance == Spec => []ExpInv
<1>1. Init => ExpInv
  BY InitHolds
<1>2. ExpInv /\ [Next]_vars => ExpInv'
  BY NextKeeps
<1> QED BY <1>1, <1>2, PTL DEF Spec

\* Every variable has its type.
THEOREM Typed == Spec => []TypeOK
<1>1. ExpInv => TypeOK
  BY DEF ExpInv, Types, TypeOK, RunRec, ReqRec, Marks
<1> QED BY <1>1, Invariance, PTL

\* When nothing is under way an export is shown as finished, by its dictionary and by its
\* row alike (web/export_jobs.py), apart from the excuses the property names.
THEOREM Settle == Spec => []ExportsSettle
<1>1. ExpInv => ExportsSettle
  <2> SUFFICES ASSUME ExpInv PROVE ExportsSettle
    OBVIOUS
  <2>1. ASSUME Unless({"ghost"}), live # NoDict PROVE status[live] \in Finished
    <3>1. /\ \A r \in Runners : runner[r].at = "unborn"
          /\ \A q \in Requests : ~Creating(q)
          /\ "ghost" \notin marks
      BY <2>1 DEF Unless, Quiet
    <3>2. live \in Dicts /\ status[live] \in Statuses
      BY <2>1 DEF ExpInv, Types, Holdings
    <3>3. status[live] # "running" /\ status[live] # "pending"
      BY <3>1, <3>2 DEF ExpInv, Worked, Waiting
    <3> QED BY <3>2, <3>3 DEF Statuses, Finished
  <2>2. Unless({"lost", "cut", "crossed"}) /\ row # "none" => row \in Finished
    BY DEF ExpInv, RowSettles, Unless, Quiet, Clean, Busy
  <2>3. Unless({"lost", "ghost", "crossed", "stale"}) /\ row # "none" /\ live # NoDict =>
          row = status[live]
    BY DEF ExpInv, Agree, Unless, Quiet, Clean, Busy
  <2> QED BY <2>1, <2>2, <2>3 DEF ExportsSettle
<1> QED BY <1>1, Invariance, PTL

\* Nothing makes an export again that is recorded as done: neither the coroutine that
\* made it, nor a retry that goes by its dictionary, or by a row that still tells what it
\* told when it was read (web/routers/exports.py).
THEOREM Done == Spec => DoneStays
<1> DEFINE Kept == row = "done" /\ marks' \cap {"crossed", "stale"} = {} =>
                     row' \in {"done", "none"}
<1>1. ExpInv /\ [Next]_vars => [Kept]_vars
  <2> SUFFICES ASSUME ExpInv, Next, row = "done", marks' \cap {"crossed", "stale"} = {}
               PROVE  row' \in {"done", "none"}
    BY DEF vars
  <2>1. ASSUME marks \subseteq marks' PROVE \A r \in Runners : ~Busy(r)
    BY <2>1 DEF ExpInv, DoneKept, Clean
  <2>2. ASSUME NEW r \in Runners, Take(r) \/ Running(r) PROVE row' = row
    <3>1. CASE Take(r) \/ AttemptEnds(r) \/ Selects(r) \/ Wakes(r)
      BY <3>1 DEF Take, AttemptEnds, Selects, Wakes
    <3>2. CASE Records(r)
      <4>1. Busy(r) /\ Commits(runner[r]) /\ marks \subseteq Marks
        BY <3>2 DEF ExpInv, Types, Records, Busy
      <4> QED BY <2>1, <4>1, CommitsIs
    <3> QED BY <2>2, <3>1, <3>2 DEF Running
  <2>3. ASSUME NEW q \in Requests, Request(q) PROVE row' \in {row, "none"}
    <3>1. CASE CreateSelects(q) \/ CreateSubmits(q)
      BY <3>1 DEF ExpInv, Creation, CreateSelects, CreateSubmits, Creating
    <3>2. CASE ~(CreateSelects(q) \/ CreateSubmits(q))
      <4>1. Tidies \/ Restoring \/ \E d \in Dicts : Retrying(d)
        BY <2>3, <3>2, RequestShapes DEF Request, ExpInv
      <4> QED BY <4>1 DEF Tidies, Restoring, Retrying, Settles
    <3> QED BY <3>1, <3>2
  <2>4. CASE Crowded \/ Retry \/ Restart
    BY <2>4 DEF Crowded, Retry, Restart
  <2> QED BY <2>2, <2>3, <2>4 DEF Next
<1>2. DoneStays <=> [][Kept]_vars
  BY PTL DEF DoneStays
<1> QED BY <1>1, <1>2, Invariance, PTL DEF Spec
=============================================================================
