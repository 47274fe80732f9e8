------------------------ MODULE MessagePipelineProofs ------------------------
(***************************************************************************)
(* Proofs about MessagePipeline: the pipeline only ever does to the bridge *)
(* what the bridge allows, so the safety of the bridge carries over; and   *)
(* what is recorded of a message is consistent and agrees with its call;   *)
(* the registry leads only to plugins that are there.                      *)
(***************************************************************************)
EXTENDS MessagePipeline, PluginIpcProofs, SequenceTheorems

USE PipelineAssumption

(* Seen from the bridge, a step of the pipeline is a step of its own or no *)
(* step at all.                                                            *)
LEMMA BridgeStepped == [Next]_vars => [BridgeNext]_bridge
<1> SUFFICES ASSUME Next \/ UNCHANGED vars PROVE BridgeNext \/ UNCHANGED bridge
  BY DEF bridge
<1>1. ASSUME NEW m \in Messages, MessageStep(m) PROVE BridgeNext \/ UNCHANGED bridge
  <2>1. ASSUME NEW raises \in BOOLEAN, Handles(m, raises)
        PROVE  BridgeNext \/ UNCHANGED bridge
    BY <2>1 DEF Handles, Begins, BridgeNext
  <2>2. CASE Handling(m)
    BY <2>2 DEF Handling, Settles, RemoteRaises, BridgeNext, CallStep
  <2>3. CASE (Ignored(m) /\ UNCHANGED bridge) \/ Ends(m)
    BY <2>3 DEF Ends
  <2>4. CASE CutShort(m)
    BY <2>4 DEF CutShort, BridgeNext
  <2> QED BY <1>1, <2>1, <2>2, <2>3, <2>4 DEF MessageStep
<1>2. CASE LoadRemote \/ UnloadRemote \/ RemoteGone
  BY <1>2 DEF LoadRemote, UnloadRemote, RemoteGone, BridgeNext
<1>3. ASSUME NEW p \in Plugins, Inline(p) PROVE UNCHANGED bridge
  BY <1>3 DEF Inline
<1>4. CASE BridgeStep \/ (BootPlugin /\ UNCHANGED bridge)
  BY <1>4 DEF BridgeNext
<1>5. CASE UNCHANGED vars
  BY <1>5 DEF vars
<1> QED BY <1>1, <1>2, <1>3, <1>4, <1>5 DEF Next

(* The pipeline implements the bridge by itself. *)
THEOREM PipelineKeepsBridge == Spec => BridgeSpec
<1>1. Init => BridgeInit
  BY DEF Init
<1> QED BY <1>1, BridgeStepped, PTL DEF Spec, BridgeSpec

(* No call of a remote handler, ping or shutdown is left waiting that      *)
(* nobody will ever answer, but for those written after the read loop.     *)
THEOREM PipelineForgetsNone == Spec => []NoneForgotten
BY PipelineKeepsBridge, BridgeIsSafe, PTL

(* Commands, their cancellation and the loading of plugins around the      *)
(* bridge leave it what its callers rely on.                               *)
THEOREM PipelineImplementsCalls == Spec => ImplementsCalls
BY PipelineKeepsBridge, CallsRefinement, PTL

(* Once the unloading of a remote plugin has stopped its bridge, nothing   *)
(* runs for it and its worker is dead, but for capabilities that slipped   *)
(* in and a worker spawned under a closed bridge.                          *)
THEOREM PipelineStops == Spec => []StopLeavesNothing
<1>1. NoneForgotten /\ StopQuiets /\ WorkerGone => StopLeavesNothing
  BY DEF StopLeavesNothing
<1> QED BY <1>1, PipelineKeepsBridge, BridgeIsSafe, PTL

(***************************************************************************)
(* BooksBalance.  A log is seen as the set of its records, none of which   *)
(* occurs twice; at every place of a message only a few sets are possible. *)
(***************************************************************************)
Seen(l) == {l[i] : i \in DOMAIN l}
Once(l) == \A i, j \in DOMAIN l : l[i] = l[j] => i = j
Clean(l, S) == l \in Seq(Record) /\ Once(l) /\ Seen(l) = S

LEMMA Nothing == Clean(<< >>, {})
BY DEF Clean, Once, Seen

LEMMA Single == ASSUME NEW e \in Record PROVE Clean(<<e>>, {e})
<1> DEFINE s == <<e>>
<1>1. s \in Seq(Record) /\ DOMAIN s = {1} /\ s[1] = e
  OBVIOUS
<1> QED BY <1>1 DEF Clean, Once, Seen

LEMMA Pair == ASSUME NEW a \in Record, NEW b \in Record, a # b PROVE Clean(<<a, b>>, {a, b})
<1> DEFINE s == <<a, b>>
<1>1. s \in Seq(Record) /\ Len(s) = 2 /\ s[1] = a /\ s[2] = b
  OBVIOUS
<1>2. DOMAIN s = 1..2
  BY <1>1
<1>3. DOMAIN s = {1, 2}
  BY <1>2
<1> QED BY <1>1, <1>3 DEF Clean, Once, Seen

(* Two logs without a record in common, one after the other. *)
LEMMA Glue == ASSUME NEW s, NEW t, NEW S, NEW T, Clean(s, S), Clean(t, T), S \cap T = {}
              PROVE  Clean(s \o t, S \cup T)
<1> DEFINE u == s \o t
<1>1. s \in Seq(Record) /\ t \in Seq(Record)
  BY DEF Clean
<1>2. /\ u \in Seq(Record) /\ Len(u) = Len(s) + Len(t)
      /\ DOMAIN s = 1..Len(s) /\ DOMAIN t = 1..Len(t) /\ DOMAIN u = 1..(Len(s) + Len(t))
      /\ Len(s) \in Nat /\ Len(t) \in Nat
      /\ \A i \in 1..Len(s) : u[i] = s[i]
      /\ \A i \in 1..Len(t) : u[i + Len(s)] = t[i]
  BY <1>1
<1>3. \A i \in DOMAIN u : (i \in DOMAIN s /\ u[i] = s[i])
        \/ (i - Len(s) \in DOMAIN t /\ u[i] = t[i - Len(s)] /\ i \notin DOMAIN s)
  BY <1>2
<1>4. (\A i \in DOMAIN s : s[i] \in S) /\ \A i \in DOMAIN t : t[i] \in T
  BY DEF Clean, Seen
<1>5. Once(u)
  <2> SUFFICES ASSUME NEW i \in DOMAIN u, NEW j \in DOMAIN u, u[i] = u[j] PROVE i = j
    BY DEF Once
  <2>1. CASE i \in DOMAIN s /\ j \in DOMAIN s
    BY <1>2, <2>1 DEF Clean, Once
  <2>2. CASE i \notin DOMAIN s /\ j \notin DOMAIN s
    <3>1. i - Len(s) = j - Len(s)
      BY <1>3, <2>2 DEF Clean, Once
    <3> QED BY <3>1, <1>2
  <2>3. CASE (i \in DOMAIN s) # (j \in DOMAIN s)
    BY <1>3, <1>4, <2>3
  <2> QED BY <2>1, <2>2, <2>3
<1>6. Seen(u) = S \cup T
  <2>1. \A i \in DOMAIN u : u[i] \in S \cup T
    BY <1>3, <1>4
  <2>2. ASSUME NEW x \in S PROVE x \in Seen(u)
    <3>1. PICK i \in DOMAIN s : s[i] = x
      BY DEF Clean, Seen
    <3> QED BY <3>1, <1>2 DEF Seen
  <2>3. ASSUME NEW x \in T PROVE x \in Seen(u)
    <3>1. PICK i \in DOMAIN t : t[i] = x
      BY DEF Clean, Seen
    <3>2. i + Len(s) \in DOMAIN u /\ u[i + Len(s)] = x
      BY <3>1, <1>2
    <3> QED BY <3>2 DEF Seen
  <2> QED BY <2>1, <2>2, <2>3 DEF Seen
<1> QED BY <1>2, <1>5, <1>6 DEF Clean

\* What was recorded of a message at its places.
Told   == {"parsed", "invoked"}
Failed == Told \cup {"failed", "audit_failed"}
Turned == {{}, {"parsed", "rejected"}, {"parsed", "rejected", "audit_rejected"}}
Excuse == {Failed, Failed \cup {"row_failure"}}
Success == {Told \cup {"audit_invoked"}, Told \cup {"row_success", "audit_invoked"}}

Fits(at, S) ==
    /\ at \in Place
    /\ at = "new" => S = {}
    /\ at = "ruling" => S = {"parsed"}
    /\ at = "replying" => S \in Turned
    /\ at \in {"handling", "counting"} => S = Told
    /\ at = "failing" => S = Failed
    /\ at = "excusing" => S \in Excuse
    /\ at = "done" => S \in Turned \cup Excuse \cup Success

(* A message that was cut short has the records of the place it was at. *)
Short == Turned \cup Excuse \cup {{"parsed"}, Told, Told \cup {"row_success"}}

(* The records of a message fit its place. *)
Right(t) ==
    /\ Clean(t.log, Seen(t.log))
    /\ t.cut \in BOOLEAN
    /\ ~t.cut => Fits(t.at, Seen(t.log))
    /\ t.cut => t.at = "done" /\ Seen(t.log) \in Short

Tidy == message = [x \in Messages |-> message[x]]

(* The records of a remote command fit its call. *)
Paired(m) ==
    IsRemote(message[m].cmd) =>
       /\ message[m].at = "counting" \/ "audit_invoked" \in Seen(message[m].log) => call[m] = "answered"
       /\ "failed" \in Seen(message[m].log) => call[m] \in {"failed", "refused"}

(* The inductive invariant of the books. *)
BookInv == Tidy /\ (\A m \in Messages : Right(message[m])) /\ \A m \in Messages : Paired(m)

LEMMA BookImplies == BookInv => BooksBalance
<1> SUFFICES ASSUME BookInv, NEW m \in Messages
             PROVE  /\ BooksOf(m)
                    /\ IsRemote(message[m].cmd) =>
                          /\ In(m, "audit_invoked") => call[m] = "answered"
                          /\ In(m, "failed") => call[m] \in {"failed", "refused"}
  BY DEF BooksBalance
<1> DEFINE S == Seen(message[m].log)
<1>1. \A e : In(m, e) <=> e \in S
  BY DEF In, Seen
<1>2. ~Twice(m)
  BY DEF BookInv, Right, Clean, Once, Twice
<1>3. Right(message[m]) /\ Paired(m)
  BY DEF BookInv
<1>4. S \in Short \cup Success /\ (message[m].at = "done" /\ ~message[m].cut =>
                                     S \in Turned \cup Excuse \cup Success)
  <2>1. CASE message[m].cut
    BY <1>3, <2>1 DEF Right
  <2>2. CASE ~message[m].cut
    BY <1>3, <2>2 DEF Right, Fits, Place, Short, Turned, Excuse
  <2> QED BY <2>1, <2>2
<1>5. BooksOf(m)
  <2> HIDE DEF S
  <2>1. /\ "rejected" \in S => "parsed" \in S /\ "invoked" \notin S
        /\ "audit_invoked" \in S => "invoked" \in S /\ "failed" \notin S
        /\ "failed" \in S <=> "audit_failed" \in S
        /\ "row_success" \in S => "failed" \notin S
        /\ "row_failure" \in S => "failed" \in S
    BY <1>4 DEF Short, Turned, Excuse, Told, Failed, Success
  <2>2. ASSUME S \in Turned \cup Excuse \cup Success
        PROVE  /\ "parsed" \in S => "rejected" \in S \/ "invoked" \in S
               /\ "invoked" \in S => "audit_invoked" \in S \/ "failed" \in S
    BY <2>2 DEF Turned, Excuse, Told, Failed, Success
  <2> QED BY <1>1, <1>2, <1>4, <2>1, <2>2 DEF BooksOf
<1> QED BY <1>1, <1>3, <1>5 DEF Paired

(* A step that takes m, with command c, to a place with the records S. *)
Lands(m, place, c, S) ==
    /\ Tidy'
    /\ \A x \in Messages \ {m} : message'[x] = message[x]
    /\ message'[m].at = place /\ message'[m].cmd = c /\ message'[m].cut = FALSE
    /\ Clean(message'[m].log, S)

(* Moves adds records that the log does not have. *)
LEMMA MovesLand ==
  ASSUME BookInv, NEW m \in Messages, ~message[m].cut, NEW place, NEW c, NEW events, NEW E, NEW S,
         Moves(m, place, c, events), Clean(events, E),
         Seen(message[m].log) \cap E = {}, S = Seen(message[m].log) \cup E
  PROVE  Lands(m, place, c, S)
<1> DEFINE t == message[m]
<1> DEFINE u == [at |-> place, cmd |-> c, log |-> t.log \o events, cut |-> t.cut]
<1>1. message' = [message EXCEPT ![m] = u]
  BY DEF Moves
<1>2. message' = [x \in Messages |-> IF x = m THEN u ELSE message[x]]
  BY <1>1 DEF BookInv, Tidy
<1>3. Tidy'
  BY <1>2 DEF Tidy
<1>4. message'[m] = u /\ \A x \in Messages \ {m} : message'[x] = message[x]
  BY <1>2
<1>5. Clean(t.log, Seen(t.log)) /\ t.cut = FALSE
  BY DEF BookInv, Right
<1>6. Clean(t.log \o events, S)
  BY <1>5, Glue
<1> QED BY <1>3, <1>4, <1>5, <1>6 DEF Lands

LEMMA Landed ==
  ASSUME BookInv, NEW m \in Messages, NEW place, NEW c, NEW S, Lands(m, place, c, S), Fits(place, S)
  PROVE  /\ Tidy' /\ \A x \in Messages : Right(message[x])'
         /\ Seen(message[m].log)' = S
<1>1. Seen(message'[m].log) = S
  BY DEF Lands, Clean
<1>2. Right(message'[m])
  BY <1>1 DEF Lands, Right
<1>3. \A x \in Messages \ {m} : Right(message'[x])
  BY DEF Lands, BookInv
<1> QED BY <1>1, <1>2, <1>3 DEF Lands

(* A gate that refuses a message ends it or has it answered. *)
LEMMA RejectsLand ==
  ASSUME BookInv, NEW m \in Messages, ~message[m].cut, NEW c, NEW gate, NEW before, NEW B,
         Rejects(m, c, gate, before), Clean(before, B),
         Seen(message[m].log) \cap (B \cup {"rejected", "audit_rejected"}) = {},
         "rejected" \notin B, "audit_rejected" \notin B,
         Seen(message[m].log) \cup B = {"parsed"}
  PROVE  \E place \in {"done", "replying"}, S \in Turned : Lands(m, place, c, S)
<1> DEFINE tail == IF gate \in Audits THEN <<"audit_rejected">> ELSE << >>
<1> DEFINE T == IF gate \in Audits THEN {"audit_rejected"} ELSE {}
<1> DEFINE events == before \o <<"rejected">> \o tail
<1> DEFINE E == B \cup {"rejected"} \cup T
<1>1. PICK place \in {"done", "replying"} : Moves(m, place, c, events)
  BY DEF Rejects
<1>2. Clean(tail, T)
  BY Nothing, Single DEF Record
<1>3. Clean(before \o <<"rejected">>, B \cup {"rejected"})
  BY Single, Glue DEF Record
<1>4. Clean(events, E)
  <2> HIDE DEF tail
  <2>1. (B \cup {"rejected"}) \cap T = {}
    OBVIOUS
  <2> HIDE DEF T
  <2> QED BY <1>2, <1>3, <2>1, Glue
<1>5. Seen(message[m].log) \cap E = {}
  OBVIOUS
<1>6. Seen(message[m].log) \cup E \in Turned
  BY DEF Turned
<1> HIDE DEF events, E
<1>7. Lands(m, place, c, Seen(message[m].log) \cup E)
  BY <1>1, <1>4, <1>5, MovesLand
<1> QED BY <1>6, <1>7

(* A handler that starts is told of, and fails if it raises at once. *)
LEMMA InvokesLand ==
  ASSUME BookInv, NEW m \in Messages, ~message[m].cut, NEW c, NEW raises \in BOOLEAN, NEW before, NEW B,
         Invokes(m, c, before, raises), Clean(before, B),
         Seen(message[m].log) \cap B = {},
         Seen(message[m].log) \cup B = {"parsed"}
  PROVE  \/ raises /\ Lands(m, "failing", c, Failed)
         \/ ~raises /\ Lands(m, "handling", c, Told)
<1>1. Clean(before \o <<"invoked">>, B \cup {"invoked"})
  <2>1. B \cap {"invoked"} = {}
    OBVIOUS
  <2> QED BY <2>1, Single, Glue DEF Record
<1>2. CASE ~raises
  <2>1. Moves(m, "handling", c, before \o <<"invoked">>)
    BY <1>2 DEF Invokes
  <2>2. Seen(message[m].log) \cap (B \cup {"invoked"}) = {}
        /\ Told = Seen(message[m].log) \cup (B \cup {"invoked"})
    BY DEF Told
  <2> QED BY <1>1, <1>2, <2>1, <2>2, MovesLand
<1>3. CASE raises
  <2> DEFINE E == B \cup {"invoked"} \cup {"failed", "audit_failed"}
  <2>1. Moves(m, "failing", c, before \o <<"invoked">> \o FailsWith)
    BY <1>3 DEF Invokes
  <2>2. Clean(FailsWith, {"failed", "audit_failed"})
    BY Pair DEF FailsWith, Record
  <2>3. (B \cup {"invoked"}) \cap {"failed", "audit_failed"} = {}
    OBVIOUS
  <2>4. Clean(before \o <<"invoked">> \o FailsWith, E)
    BY <1>1, <2>2, <2>3, Glue
  <2>5. Failed = Seen(message[m].log) \cup E
    BY DEF Failed, Told
  <2>6. Seen(message[m].log) \cap E = {}
    <3> DEFINE old == Seen(message[m].log)
    <3> HIDE DEF old
    <3>1. old \subseteq {"parsed"} /\ old \cap B = {}
      BY DEF old
    <3>2. old \cap E = {}
      BY <3>1
    <3> QED BY <3>2 DEF old
  <2> HIDE DEF E
  <2> QED BY <1>3, <2>1, <2>4, <2>5, <2>6, MovesLand
<1> QED BY <1>2, <1>3

(* What handle_message may come to when it is called or its rules are done. *)
Settled(m, c) == \E place \in {"done", "replying"}, S \in Turned : Lands(m, place, c, S)

Outcome(m, c, raises) ==
    \/ Settled(m, c)
    \/ Lands(m, "ruling", c, {"parsed"})
    \/ raises /\ Lands(m, "failing", c, Failed)
    \/ ~raises /\ Lands(m, "handling", c, Told)

LEMMA OpenMessage ==
  ASSUME BookInv, NEW m \in Messages, message[m].at # "done"
  PROVE  ~message[m].cut /\ Fits(message[m].at, Seen(message[m].log))
BY DEF BookInv, Right

LEMMA HandlesLands ==
  ASSUME BookInv, NEW m \in Messages, NEW raises \in BOOLEAN,
         (\E n \in Names : Arrives(m, n, raises)) \/ Ruled(m, raises)
  PROVE  Seen(message[m].log) \subseteq {"parsed"} /\ \E c : Outcome(m, c, raises)
<1>1. ASSUME NEW n \in Names, Arrives(m, n, raises)
      PROVE  Seen(message[m].log) = {} /\ Outcome(m, commands[n], raises)
  <2>1. ~message[m].cut /\ Seen(message[m].log) = {}
    BY <1>1, OpenMessage DEF Arrives, Fits
  <2>2. Clean(<<"parsed">>, {"parsed"})
    BY Single DEF Record
  <2>3. ASSUME NEW gate, Rejects(m, commands[n], gate, <<"parsed">>)
        PROVE  Settled(m, commands[n])
    BY <2>1, <2>2, <2>3, RejectsLand DEF Settled
  <2>4. CASE Moves(m, "ruling", commands[n], <<"parsed">>)
    BY <2>1, <2>2, <2>4, MovesLand DEF Outcome
  <2>5. CASE Invokes(m, commands[n], <<"parsed">>, raises)
    BY <2>1, <2>2, <2>5, InvokesLand DEF Outcome
  <2> QED BY <1>1, <2>1, <2>3, <2>4, <2>5 DEF Arrives, Outcome
<1>2. ASSUME Ruled(m, raises)
      PROVE  Seen(message[m].log) = {"parsed"} /\ Outcome(m, message[m].cmd, raises)
  <2>1. ~message[m].cut /\ Seen(message[m].log) = {"parsed"}
    BY <1>2, OpenMessage DEF Ruled, Fits
  <2>2. ASSUME NEW gate, Rejects(m, message[m].cmd, gate, << >>)
        PROVE  Settled(m, message[m].cmd)
    BY <2>1, <2>2, Nothing, RejectsLand DEF Settled
  <2>3. CASE Invokes(m, message[m].cmd, << >>, raises)
    BY <2>1, <2>3, Nothing, InvokesLand DEF Outcome
  <2> QED BY <1>2, <2>1, <2>2, <2>3 DEF Ruled, Outcome
<1> QED BY <1>1, <1>2

LEMMA StepLands ==
  ASSUME BookInv, NEW m \in Messages, message[m].at # "done", NEW place, NEW events, NEW E, NEW S,
         Moves(m, place, message[m].cmd, events), Clean(events, E),
         Seen(message[m].log) \cap E = {}, S = Seen(message[m].log) \cup E
  PROVE  Lands(m, place, message[m].cmd, S)
BY OpenMessage, MovesLand

(* The last steps of a message add nothing that its call would deny. *)
LEMMA EndsLands ==
  ASSUME BookInv, NEW m \in Messages, Counted(m) \/ FailureCounted(m) \/ Replied(m)
  PROVE  \E place, S : /\ Lands(m, place, message[m].cmd, S) /\ Fits(place, S) /\ place # "counting"
                       /\ "audit_invoked" \in S => message[m].at = "counting"
                       /\ "failed" \in S => "failed" \in Seen(message[m].log)
<1> DEFINE old == Seen(message[m].log)
<1> DEFINE c == message[m].cmd
<1>0. Fits(message[m].at, old) /\ message[m].at # "done"
  BY OpenMessage DEF Counted, FailureCounted, Replied
<1>1. CASE Counted(m)
  <2>0. \A R \in {{}, {"row_success"}} : "failed" \notin R
    OBVIOUS
  <2>1. old = Told /\ message[m].at = "counting"
    BY <1>0, <1>1 DEF Counted, Fits
  <2>2. PICK row \in {<< >>, <<"row_success">>} : Moves(m, "done", c, row \o <<"audit_invoked">>)
    BY <1>1 DEF Counted
  <2>3. PICK R \in {{}, {"row_success"}} : Clean(row, R)
    BY Nothing, Single DEF Record
  <2>4. Clean(<<"audit_invoked">>, {"audit_invoked"})
    BY Single DEF Record
  <2>5. Clean(row \o <<"audit_invoked">>, R \cup {"audit_invoked"})
    BY <2>3, <2>4, Glue
  <2>6. old \cap (R \cup {"audit_invoked"}) = {}
    BY <2>1, <2>3 DEF Told
  <2>7. Lands(m, "done", c, old \cup (R \cup {"audit_invoked"}))
    <3> HIDE DEF old, c
    <3>1. Seen(message[m].log) = old /\ message[m].cmd = c
      BY DEF old, c
    <3> QED BY <1>0, <2>2, <2>5, <2>6, <3>1, StepLands
  <2>8. Fits("done", old \cup (R \cup {"audit_invoked"}))
    BY <2>1, <2>3 DEF Fits, Place, Success, Told
  <2>9. "failed" \notin old \cup (R \cup {"audit_invoked"})
    <3> HIDE DEF old
    <3>1. "failed" \notin R
      BY <2>0
    <3>2. "failed" \notin Told
      BY DEF Told
    <3> QED BY <2>1, <3>1, <3>2
  <2> QED BY <2>1, <2>7, <2>8, <2>9
<1>2. CASE FailureCounted(m)
  <2>0. \A R \in {{}, {"row_failure"}} : "audit_invoked" \notin R
    OBVIOUS
  <2>1. old = Failed
    BY <1>0, <1>2 DEF FailureCounted, Fits
  <2>2. PICK row \in {<< >>, <<"row_failure">>} : Moves(m, "excusing", c, row)
    BY <1>2 DEF FailureCounted
  <2>3. PICK R \in {{}, {"row_failure"}} : Clean(row, R)
    BY Nothing, Single DEF Record
  <2>4. old \cap R = {}
    BY <2>1, <2>3 DEF Failed, Told
  <2>5. Lands(m, "excusing", c, old \cup R)
    BY <1>0, <2>2, <2>3, <2>4, StepLands
  <2>6. Fits("excusing", old \cup R)
    BY <2>1, <2>3 DEF Fits, Place, Excuse, Failed, Told
  <2>7. "audit_invoked" \notin old \cup R
    <3> HIDE DEF old
    <3>1. "audit_invoked" \notin R
      BY <2>0
    <3>2. "audit_invoked" \notin Failed
      BY DEF Failed, Told
    <3> QED BY <2>1, <3>1, <3>2
  <2> QED BY <2>1, <2>5, <2>6, <2>7 DEF Failed
<1>3. CASE Replied(m)
  <2>0. \A S \in Turned \cup Excuse : "audit_invoked" \notin S
    BY DEF Turned, Excuse, Failed, Told
  <2>1. old \in Turned \cup Excuse
    BY <1>0, <1>3 DEF Replied, Fits
  <2>2. Moves(m, "done", c, << >>)
    BY <1>3 DEF Replied
  <2>3. Lands(m, "done", c, old)
    BY <1>0, <2>2, Nothing, StepLands
  <2>4. Fits("done", old)
    BY <2>1 DEF Fits, Place
  <2>5. "audit_invoked" \notin old
    <3> HIDE DEF old
    <3> QED BY <2>0, <2>1
  <2> QED BY <2>3, <2>4, <2>5
<1> QED BY <1>1, <1>2, <1>3

(* A message that is cut short keeps what was recorded. *)
LEMMA CutLands ==
  ASSUME BookInv, NEW m \in Messages, Cut(m)
  PROVE  /\ Tidy' /\ \A x \in Messages : Right(message[x])'
         /\ \A x \in Messages \ {m} : message'[x] = message[x]
         /\ message'[m].cmd = message[m].cmd /\ message'[m].at = "done"
         /\ "audit_invoked" \notin Seen(message'[m].log)
         /\ "failed" \in Seen(message'[m].log) => "failed" \in Seen(message[m].log)
<1> DEFINE t == message[m]
<1> DEFINE old == Seen(t.log)
<1>1. ~t.cut /\ Fits(t.at, old) /\ t.at \notin {"new", "done"} /\ Clean(t.log, old)
  BY OpenMessage DEF Cut, BookInv, Right
<1>2. PICK row \in {<< >>} \cup (IF t.at = "counting" THEN {<<"row_success">>}
                                ELSE IF t.at = "failing" THEN {<<"row_failure">>} ELSE {}) :
         message' = [message EXCEPT ![m] = [at |-> "done", cmd |-> t.cmd,
                                            log |-> t.log \o row, cut |-> TRUE]]
  BY DEF Cut
<1> DEFINE u == [at |-> "done", cmd |-> t.cmd, log |-> t.log \o row, cut |-> TRUE]
<1>3. message' = [x \in Messages |-> IF x = m THEN u ELSE message[x]]
  BY <1>2 DEF BookInv, Tidy
<1>4. message'[m] = u /\ \A x \in Messages \ {m} : message'[x] = message[x]
  BY <1>3
<1>5. Tidy'
  BY <1>3 DEF Tidy
<1>6. \E R : /\ Clean(row, R) /\ old \cap R = {} /\ old \cup R \in Short
             /\ "audit_invoked" \notin old \cup R
             /\ "failed" \notin R
  <2>0. old \in Turned \cup Excuse \cup {{"parsed"}, Told}
    BY <1>1 DEF Fits, Place, Excuse
  <2>00. \A S \in Short : "audit_invoked" \notin S
    BY DEF Short, Turned, Excuse, Failed, Told
  <2>01. Turned \cup Excuse \cup {{"parsed"}, Told} \subseteq Short
    BY DEF Short
  <2>1. CASE row = << >>
    <3>1. old \cup {} \in Short
      BY <2>0, <2>01
    <3> QED BY <2>1, <3>1, <2>00, Nothing
  <2>2. CASE row = <<"row_success">> /\ t.at = "counting"
    <3>1. old = Told
      BY <1>1, <2>2 DEF Fits
    <3>2. Told \cup {"row_success"} \in Short /\ Told \cap {"row_success"} = {}
      BY DEF Told, Short
    <3>3. Clean(row, {"row_success"})
      BY <2>2, Single DEF Record
    <3>4. "failed" \notin {"row_success"}
      OBVIOUS
    <3> HIDE DEF old, t
    <3> QED BY <3>1, <3>2, <3>3, <3>4, <2>00
  <2>3. CASE row = <<"row_failure">> /\ t.at = "failing"
    <3>1. old = Failed
      BY <1>1, <2>3 DEF Fits
    <3>2. Failed \cup {"row_failure"} \in Short /\ Failed \cap {"row_failure"} = {}
      BY DEF Failed, Told, Short, Excuse
    <3>3. Clean(row, {"row_failure"})
      BY <2>3, Single DEF Record
    <3>4. "failed" \notin {"row_failure"}
      OBVIOUS
    <3> HIDE DEF old, t
    <3> QED BY <3>1, <3>2, <3>3, <3>4, <2>00
  <2> QED BY <1>2, <2>1, <2>2, <2>3
<1>7. PICK R : /\ Clean(row, R) /\ old \cap R = {} /\ old \cup R \in Short
               /\ "audit_invoked" \notin old \cup R /\ "failed" \notin R
  BY <1>6
<1>8. Clean(u.log, old \cup R)
  BY <1>1, <1>7, Glue
<1>9. Seen(u.log) = old \cup R
  BY <1>8 DEF Clean
<1>10. Right(u)
  BY <1>7, <1>8, <1>9 DEF Right
<1>11. \A x \in Messages : Right(message'[x])
  BY <1>4, <1>10 DEF BookInv
<1> HIDE DEF old
<1>12. "audit_invoked" \notin Seen(u.log) /\ ("failed" \in Seen(u.log) => "failed" \in old)
  BY <1>7, <1>9
<1> QED BY <1>4, <1>5, <1>11, <1>12 DEF old

(* What the bridge does to calls: only the message that makes one moves it. *)
LEMMA RequestCall ==
  ASSUME BridgeTypeOK, NEW m \in Messages, Request(m)
  PROVE  /\ call[m] = "new"
         /\ call'[m] \in {"refused", "failed", "waiting", "draining"}
         /\ \A x \in Messages \ {m} : call'[x] = call[x]
BY PipelineAssumption DEF AllCalls, Request, Writes, Unwritten, LineLost, LineWritten, BridgeTypeOK

LEMMA LeavesCall ==
  ASSUME BridgeTypeOK, NEW m \in Messages, NEW how, Leaves(m, how)
  PROVE  call'[m] = how /\ \A x \in Messages \ {m} : call'[x] = call[x]
BY PipelineAssumption DEF AllCalls, Leaves, BridgeTypeOK

LEMMA OwnCalls ==
  ASSUME BridgeTypeOK, BridgeStep \/ BeginStart \/ BeginStop
  PROVE  \A x \in Messages : call'[x] = call[x]
<1> USE PipelineAssumption DEF AllCalls, BridgeTypeOK
<1>0. \A x \in Messages : x \in AllCalls /\ x # Ping /\ x # Shutdown
  BY IpcAssumption
<1>1. CASE SpawnFails \/ Spawned \/ Started \/ BeginStart
  BY <1>0, <1>1 DEF SpawnFails, Spawned, Started, BeginStart, books
<1>2. CASE WorkerStep
  BY <1>2 DEF WorkerStep, WorkerReads, WorkerAnswers, WorkerCalls, WorkerHangs, WorkerDies,
              WorkerReaped, WorkerKeeps, books
<1>3. CASE ReaderStep
  BY <1>3 DEF ReaderStep, ReaderReads, ReaderEnds, ReaderFails
<1>4. CASE StopStep
  BY <1>4 DEF StopStep, Terminates, StopCloses, StopEnds, books
<1>5. CASE BeginStop
  BY <1>0, <1>5 DEF BeginStop, Writes, Unwritten, LineLost, LineWritten
<1>6. ASSUME NEW k \in Caps, CapabilityEnds(k) PROVE UNCHANGED call
  BY <1>6 DEF CapabilityEnds, books
<1>7. ASSUME NEW r \in {Ping, Shutdown}, CallStep(r) PROVE \A x \in Messages : call'[x] = call[x]
  BY <1>0, <1>7 DEF CallStep, Drains, DrainFails, Answered, Fails, TimesOut, Leaves
<1> QED BY <1>1, <1>2, <1>3, <1>4, <1>5, <1>6, <1>7 DEF BridgeStep

(* Steps that leave the messages alone, and other messages than the moving one. *)
LEMMA Kept ==
  ASSUME BookInv, UNCHANGED message, \A x \in Messages : call'[x] = call[x]
  PROVE  BookInv'
BY DEF BookInv, Tidy, Paired, IsRemote

LEMMA PairKept ==
  ASSUME BookInv, NEW x \in Messages, message'[x] = message[x], call'[x] = call[x]
  PROVE  Paired(x)'
BY DEF BookInv, Paired, IsRemote

LEMMA Invoked == ASSUME NEW m PROVE (In(m, "invoked") <=> "invoked" \in Seen(message[m].log))
                                    /\ (In(m, "invoked")' <=> "invoked" \in Seen(message'[m].log))
BY DEF In, Seen

LEMMA HandlesKeeps ==
  ASSUME BookInv, BridgeTypeOK, NEW m \in Messages, NEW raises \in BOOLEAN, Handles(m, raises)
  PROVE  BookInv'
<1>1. (\E n \in Names : Arrives(m, n, raises)) \/ Ruled(m, raises)
  BY DEF Handles
<1>2. Seen(message[m].log) \subseteq {"parsed"}
  BY <1>1, HandlesLands
<1>3. PICK c : Outcome(m, c, raises)
  BY <1>1, HandlesLands
<1>4. ~In(m, "invoked")
  BY <1>2, Invoked
<1>5. ASSUME NEW place, NEW S, Lands(m, place, c, S), Fits(place, S),
             place # "counting", "invoked" \notin S
      PROVE  BookInv'
  <2>1. Seen(message'[m].log) = S
    BY <1>5, Landed
  <2>2. ~Invoking(m)
    BY <1>5, <2>1, Invoked DEF Invoking
  <2>3. UNCHANGED call
    BY <2>2 DEF Handles, bridge, books
  <2>4. "audit_invoked" \notin S /\ "failed" \notin S
    BY <1>5 DEF Fits, Turned, Excuse, Success, Failed, Told, Place
  <2>5. Paired(m)'
    BY <1>5, <2>1, <2>4 DEF Paired, Lands
  <2>6. \A x \in Messages \ {m} : Paired(x)'
    BY <1>5, <2>3, PairKept DEF Lands
  <2> QED BY <1>5, <2>5, <2>6, Landed DEF BookInv
<1>6. ASSUME NEW place, NEW S, Lands(m, place, c, S), Fits(place, S),
             (raises /\ place = "failing") \/ (~raises /\ place = "handling")
      PROVE  BookInv'
  <2>1. Seen(message'[m].log) = S /\ message'[m].cmd = c /\ message'[m].at = place
    BY <1>6, Landed DEF Lands
  <2>2. "invoked" \in S /\ "audit_invoked" \notin S /\ (place = "handling" => "failed" \notin S)
    BY <1>6 DEF Fits, Failed, Told
  <2>3. Invoking(m)
    BY <1>4, <2>1, <2>2, Invoked DEF Invoking
  <2>4. Begins(m, c, raises)
    BY <2>1, <2>3 DEF Handles
  <2>5. CASE IsRemote(c)
    <3>1. Request(m) /\ (raises <=> call'[m] \in Over)
      BY <2>4, <2>5 DEF Begins
    <3>2. raises => call'[m] \in {"refused", "failed"}
      BY <3>1, RequestCall DEF Over
    <3>3. Paired(m)'
      BY <1>6, <2>1, <2>2, <3>2 DEF Paired
    <3>4. \A x \in Messages \ {m} : Paired(x)'
      BY <1>6, <3>1, RequestCall, PairKept DEF Lands
    <3> QED BY <1>6, <3>3, <3>4, Landed DEF BookInv
  <2>6. CASE ~IsRemote(c)
    <3>1. UNCHANGED call
      BY <2>4, <2>6 DEF Begins, bridge, books
    <3>2. Paired(m)'
      BY <2>1, <2>6 DEF Paired, IsRemote
    <3>3. \A x \in Messages \ {m} : Paired(x)'
      BY <1>6, <3>1, PairKept DEF Lands
    <3> QED BY <1>6, <3>2, <3>3, Landed DEF BookInv
  <2> QED BY <2>5, <2>6
<1>7. CASE Settled(m, c)
  <2>1. PICK place \in {"done", "replying"}, S \in Turned : Lands(m, place, c, S)
    BY <1>7 DEF Settled
  <2>2. Fits(place, S) /\ place # "counting"
    BY DEF Fits, Place
  <2>3. "invoked" \notin S
    BY DEF Turned
  <2> QED BY <1>5, <2>1, <2>2, <2>3
<1>8. CASE Lands(m, "ruling", c, {"parsed"})
  <2>1. Fits("ruling", {"parsed"})
    BY DEF Fits, Place
  <2> QED BY <1>5, <1>8, <2>1
<1>9. Fits("failing", Failed) /\ Fits("handling", Told)
  BY DEF Fits, Place
<1> QED BY <1>3, <1>6, <1>7, <1>8, <1>9 DEF Outcome

LEMMA HandlerLands ==
  ASSUME BookInv, NEW m \in Messages
  PROVE  /\ HandlerReturns(m) => Lands(m, "counting", message[m].cmd, Told)
         /\ HandlerRaises(m) => Lands(m, "failing", message[m].cmd, Failed)
<1>1. message[m].at = "handling" => message[m].at # "done" /\ Seen(message[m].log) = Told
  BY OpenMessage DEF Fits
<1>2. ASSUME HandlerReturns(m) PROVE Lands(m, "counting", message[m].cmd, Told)
  BY <1>1, <1>2, Nothing, StepLands DEF HandlerReturns
<1>3. ASSUME HandlerRaises(m) PROVE Lands(m, "failing", message[m].cmd, Failed)
  <2>1. Clean(FailsWith, {"failed", "audit_failed"})
    BY Pair DEF FailsWith, Record
  <2>2. Told \cap {"failed", "audit_failed"} = {} /\ Failed = Told \cup {"failed", "audit_failed"}
    BY DEF Told, Failed
  <2> QED BY <1>1, <1>3, <2>1, <2>2, StepLands DEF HandlerRaises
<1> QED BY <1>2, <1>3

LEMMA HandlingKeeps ==
  ASSUME BookInv, BridgeTypeOK, NEW m \in Messages, Handling(m)
  PROVE  BookInv'
<1>1. CASE Settles(m)
  <2>1. call[m] = "waiting" /\ Leaves(m, "answered") /\ UNCHANGED message
    BY <1>1 DEF Settles, Answered, commandVars
  <2>2. \A x \in Messages \ {m} : Paired(x)'
    BY <2>1, LeavesCall, PairKept
  <2>3. Paired(m)'
    BY <2>1, LeavesCall DEF BookInv, Paired, IsRemote
  <2> QED BY <2>1, <2>2, <2>3 DEF BookInv, Tidy
<1>2. CASE RemoteRaises(m)
  <2>1. Leaves(m, "failed") /\ HandlerRaises(m)
    BY <1>2 DEF RemoteRaises, DrainFails, Fails, TimesOut
  <2>2. Lands(m, "failing", message[m].cmd, Failed)
    BY <2>1, HandlerLands
  <2>3. Fits("failing", Failed)
    BY DEF Fits, Place
  <2>4. Paired(m)'
    <3>1. Seen(message'[m].log) = Failed /\ message'[m].at = "failing"
      BY <2>2, <2>3, Landed DEF Lands
    <3>2. "audit_invoked" \notin Failed
      BY DEF Failed, Told
    <3> QED BY <2>1, <3>1, <3>2, LeavesCall DEF Paired
  <2>5. \A x \in Messages \ {m} : Paired(x)'
    BY <2>1, <2>2, LeavesCall, PairKept DEF Lands
  <2> QED BY <2>2, <2>3, <2>4, <2>5, Landed DEF BookInv
<1>3. CASE Drains(m) /\ UNCHANGED commandVars
  <2>1. UNCHANGED message /\ call[m] = "draining" /\ call'[m] = "waiting"
        /\ \A x \in Messages \ {m} : call'[x] = call[x]
    BY <1>3, PipelineAssumption DEF Drains, commandVars, BridgeTypeOK, AllCalls
  <2>2. \A x \in Messages \ {m} : Paired(x)'
    BY <2>1, PairKept
  <2>3. Paired(m)'
    BY <2>1 DEF BookInv, Paired, IsRemote
  <2> QED BY <2>1, <2>2, <2>3 DEF BookInv, Tidy
<1>4. ASSUME NEW place, NEW S, Lands(m, place, message[m].cmd, S), Fits(place, S), UNCHANGED bridge,
             IsRemote(message[m].cmd) => call[m] = "answered" /\ S = Told
      PROVE  BookInv'
  <2>1. UNCHANGED call /\ Seen(message'[m].log) = S /\ message'[m].cmd = message[m].cmd
    BY <1>4, Landed DEF bridge, books, Lands
  <2>2. "failed" \notin Told
    BY DEF Told
  <2>3. Paired(m)'
    BY <1>4, <2>1, <2>2 DEF Paired, IsRemote
  <2>4. \A x \in Messages \ {m} : Paired(x)'
    BY <1>4, <2>1, PairKept DEF Lands
  <2> QED BY <1>4, <2>3, <2>4, Landed DEF BookInv
<1>5. CASE Served(m) /\ HandlerReturns(m) /\ UNCHANGED bridge
  <2>1. Lands(m, "counting", message[m].cmd, Told)
    BY <1>5, HandlerLands
  <2>2. Fits("counting", Told)
    BY DEF Fits, Place
  <2> QED BY <1>4, <1>5, <2>1, <2>2 DEF Served
<1>6. CASE ~IsRemote(message[m].cmd) /\ HandlerRaises(m) /\ UNCHANGED bridge
  <2>1. Lands(m, "failing", message[m].cmd, Failed)
    BY <1>6, HandlerLands
  <2>2. Fits("failing", Failed)
    BY DEF Fits, Place
  <2> QED BY <1>4, <1>6, <2>1, <2>2
<1> QED BY <1>1, <1>2, <1>3, <1>5, <1>6 DEF Handling

LEMMA MessageKeeps ==
  ASSUME BookInv, BridgeTypeOK, NEW m \in Messages, MessageStep(m)
  PROVE  BookInv'
<1>1. CASE Ignored(m) /\ UNCHANGED bridge
  <2>1. PICK place \in {"done", "replying"} : Moves(m, place, NoCommand, << >>)
    BY <1>1 DEF Ignored
  <2>2. ~message[m].cut /\ Seen(message[m].log) = {}
    BY <1>1, OpenMessage DEF Ignored, Fits
  <2>3. Lands(m, place, NoCommand, {})
    BY <2>1, <2>2, Nothing, MovesLand
  <2>4. Fits(place, {})
    BY DEF Fits, Place, Turned
  <2>5. UNCHANGED call
    BY <1>1 DEF bridge, books
  <2>6. Paired(m)'
    <3>1. Seen(message'[m].log) = {} /\ message'[m].at = place
      BY <2>3, <2>4, Landed DEF Lands
    <3> QED BY <3>1 DEF Paired
  <2>7. \A x \in Messages \ {m} : Paired(x)'
    BY <2>3, <2>5, PairKept DEF Lands
  <2> QED BY <2>3, <2>4, <2>6, <2>7, Landed DEF BookInv
<1>2. CASE Ends(m)
  <2>1. PICK place, S : /\ Lands(m, place, message[m].cmd, S) /\ Fits(place, S) /\ place # "counting"
                        /\ "audit_invoked" \in S => message[m].at = "counting"
                        /\ "failed" \in S => "failed" \in Seen(message[m].log)
    BY <1>2, EndsLands DEF Ends
  <2>2. UNCHANGED call
    BY <1>2 DEF Ends, bridge, books
  <2>3. Paired(m)'
    <3>1. Seen(message'[m].log) = S /\ message'[m].at = place /\ message'[m].cmd = message[m].cmd
      BY <2>1, Landed DEF Lands
    <3>2. Paired(m)
      BY DEF BookInv
    <3> QED BY <2>1, <2>2, <3>1, <3>2 DEF Paired, IsRemote
  <2>4. \A x \in Messages \ {m} : Paired(x)'
    BY <2>1, <2>2, PairKept DEF Lands
  <2> QED BY <2>1, <2>3, <2>4, Landed DEF BookInv
<1>3. CASE CutShort(m)
  <2>1. Cut(m)
    BY <1>3 DEF CutShort
  <2>2. /\ call[m] \notin InFlight => call'[m] = call[m]
        /\ \A x \in Messages \ {m} : call'[x] = call[x]
    BY <1>3, LeavesCall DEF CutShort, Abandons, bridge, books
  <2>3. Paired(m)'
    <3>1. Paired(m)
      BY DEF BookInv
    <3> QED BY <2>1, <2>2, <3>1, CutLands DEF Paired, IsRemote, InFlight
  <2>4. \A x \in Messages \ {m} : Paired(x)'
    BY <2>1, <2>2, CutLands, PairKept
  <2> QED BY <2>1, <2>3, <2>4, CutLands DEF BookInv
<1> QED BY <1>1, <1>2, <1>3, HandlesKeeps, HandlingKeeps DEF MessageStep

(* Every step of the pipeline keeps the books. *)
LEMMA BookStep == BookInv /\ BridgeTypeOK /\ [Next]_vars => BookInv'
<1> SUFFICES ASSUME BookInv, BridgeTypeOK, Next \/ UNCHANGED vars PROVE BookInv'
  OBVIOUS
<1>1. CASE \E m \in Messages : MessageStep(m)
  BY <1>1, MessageKeeps
<1>2. CASE LoadRemote \/ UnloadRemote \/ (BridgeStep /\ UNCHANGED commandVars)
  <2>1. UNCHANGED message /\ \A x \in Messages : call'[x] = call[x]
    BY <1>2, OwnCalls DEF LoadRemote, UnloadRemote, Load, BeginUnload, commandVars
  <2> QED BY <2>1, Kept
<1>3. CASE \/ BootPlugin /\ UNCHANGED bridge
           \/ RemoteGone \/ (\E p \in Plugins : Inline(p)) \/ UNCHANGED vars
  <2>1. UNCHANGED <<message, call>>
    BY <1>3 DEF BootPlugin, RemoteGone, Inline, Load, BeginUnload, EndUnload, vars, commandVars, bridge, books
  <2> QED BY <2>1, Kept
<1> QED BY <1>1, <1>2, <1>3 DEF Next

LEMMA BookStart == Init => BookInv
<1> SUFFICES ASSUME Init PROVE BookInv
  OBVIOUS
<1>1. message = [m \in Messages |-> [at |-> "new", cmd |-> NoCommand, log |-> << >>, cut |-> FALSE]]
  BY DEF Init, CommandsInit
<1>2. Tidy
  BY <1>1 DEF Tidy
<1>3. Seen(<< >>) = {}
  BY Nothing DEF Clean
<1>4. Fits("new", {})
  BY DEF Fits, Place
<1>5. ASSUME NEW m \in Messages PROVE Right(message[m]) /\ Paired(m)
  BY <1>1, <1>3, <1>4, Nothing DEF Right, Paired
<1> QED BY <1>2, <1>5 DEF BookInv

(***************************************************************************)
(* RegistryTrue.  The registry is described by the names a plugin has been *)
(* given and the table they are in, so that what holds of one registry can *)
(* be shown of what registering and unregistering make of it.              *)
(***************************************************************************)
\* A command as _register_declarative makes it: its names are words of one
\* declared command, plain or dotted with the plugin's name.
WellMade(c) ==
    /\ \E d \in Declared[c.plugin] : \A x \in Claimed(c) : x[2] \in Claimed(d)
    /\ \A x \in c.aliases : x[1] = NoPlugin
    /\ c.name[1] \in {NoPlugin, c.plugin}

\* Where a name leads, its command is one of its plugin and has it, and the
\* plugin has all names of that command in its books.
Shaped(reg) ==
    /\ reg.table \in [Names -> Command \cup {NoCommand}]
    /\ reg.owned \in [Plugins -> SUBSET Names]

Entered(reg) ==
    \A n \in Names : reg.table[n] # NoCommand =>
       /\ n \in Claimed(reg.table[n])
       /\ Claimed(reg.table[n]) \subseteq reg.owned[reg.table[n].plugin]
       /\ WellMade(reg.table[n])

\* The books of a plugin hold words it declares, plain or dotted with it.
Booked(reg) ==
    \A p \in Plugins : \A n \in reg.owned[p] :
       n[1] \in {NoPlugin, p} /\ Says(p, n[2])

\* A plugin has the names of its books, but for contested words.
Lost(n) == n[1] = NoPlugin /\ n[2] \in Contested

Spared(reg) == \A p \in Plugins : \A n \in reg.owned[p] : reg.table[n].plugin = p \/ Lost(n)

RegInv(reg) == Shaped(reg) /\ Entered(reg) /\ Booked(reg) /\ Spared(reg)

(* The words of one command are contested together. *)
LEMMA Spreads ==
  /\ \A p \in Plugins : \A c \in Declared[p] : \A v, w \in Claimed(c) :
        v \in Contested => w \in Contested
  /\ \A w \in Words : System \in Range(BootOrder) /\ Says(System, w) => w \in Contested
<1>1. ASSUME NEW p \in Plugins, NEW c \in Declared[p], NEW v \in Claimed(c), NEW w \in Claimed(c),
             v \in Contested
      PROVE  w \in Contested
  <2>1. w \in Words
    BY CommandsAssumption DEF Claimed
  <2> SUFFICES ASSUME NEW T \in SUBSET Words,
                      System \in Range(BootOrder) => \A u \in Words : Says(System, u) => u \in T,
                      \A q \in Plugins : \A d \in Declared[q] :
                         ({d.name} \cup d.aliases) \cap T # {} => ({d.name} \cup d.aliases) \subseteq T
               PROVE  w \in T
    BY <2>1 DEF Contested
  <2>2. v \in T
    BY <1>1 DEF Contested
  <2> QED BY <2>2 DEF Claimed
<1>2. ASSUME NEW w \in Words, System \in Range(BootOrder), Says(System, w) PROVE w \in Contested
  BY <1>2 DEF Contested
<1> QED BY <1>1, <1>2

LEMMA NotACommand == NoCommand \notin Command /\ NoCommand.plugin = NoPlugin /\ NoPlugin \notin Plugins
BY CommandsAssumption DEF Command, NoCommand

(* Registering commands that take no name from another plugin, or only     *)
(* contested ones.                                                         *)
LEMMA Registers ==
  ASSUME NEW reg, RegInv(reg), NEW q \in Plugins, reg.owned[q] = {},
         NEW new \in SUBSET Command,
         \A c \in new : c.plugin = q /\ WellMade(c),
         \A c \in new : \A n \in Claimed(c) : \A p \in Plugins \ {q} :
            n \in reg.owned[p] => reg.table[n].plugin # p \/ Lost(n)
  PROVE  RegInv(Registered(reg, q, new))
<1> DEFINE r == Registered(reg, q, new)
<1> DEFINE fresh == UNION {Claimed(c) : c \in new}
<1>1. \A n \in fresh : \E c \in new : n \in Claimed(c)
  OBVIOUS
<1>2. /\ \A n \in Names : n \in fresh => r.table[n] \in new /\ n \in Claimed(r.table[n])
      /\ \A n \in Names : n \notin fresh => r.table[n] = reg.table[n]
      /\ r.table = [n \in Names |-> r.table[n]]
  BY DEF Registered
<1>3. fresh \subseteq Names
  BY DEF Claimed, Command
<1>4. /\ r.owned[q] = fresh
      /\ \A p \in Plugins \ {q} : r.owned[p] = reg.owned[p]
      /\ r.owned \in [Plugins -> SUBSET Names]
  BY <1>3 DEF Registered, RegInv, Shaped
<1> HIDE DEF r
<1>5. Shaped(r)
  BY <1>2, <1>4 DEF RegInv, Shaped
<1>6. Entered(r)
  <2> SUFFICES ASSUME NEW n \in Names, r.table[n] # NoCommand
               PROVE  /\ n \in Claimed(r.table[n])
                      /\ Claimed(r.table[n]) \subseteq r.owned[r.table[n].plugin]
                      /\ WellMade(r.table[n])
    BY DEF Entered
  <2>1. CASE n \in fresh
    BY <1>2, <1>4, <2>1
  <2>2. CASE n \notin fresh
    <3>1. r.table[n] = reg.table[n] /\ reg.table[n] \in Command
      BY <1>2, <2>2 DEF RegInv, Shaped
    <3>2. reg.table[n].plugin \in Plugins
      BY <3>1 DEF Command
    <3>3. /\ n \in Claimed(reg.table[n]) /\ WellMade(reg.table[n])
          /\ Claimed(reg.table[n]) \subseteq reg.owned[reg.table[n].plugin]
      BY <3>1 DEF RegInv, Entered
    <3>4. reg.table[n].plugin # q
      BY <3>3
    <3> QED BY <1>4, <3>1, <3>2, <3>3, <3>4
  <2> QED BY <2>1, <2>2
<1>7. Booked(r)
  <2> SUFFICES ASSUME NEW p \in Plugins, NEW n \in r.owned[p]
               PROVE  n[1] \in {NoPlugin, p} /\ Says(p, n[2])
    BY DEF Booked
  <2>1. CASE p # q
    BY <1>4, <2>1 DEF RegInv, Booked
  <2>2. CASE p = q
    <3>1. PICK c \in new : n \in Claimed(c)
      BY <1>4, <2>2
    <3>2. PICK d \in Declared[q] : \A x \in Claimed(c) : x[2] \in Claimed(d)
      BY <3>1 DEF WellMade
    <3>3. n[2] \in {d.name} \cup d.aliases
      BY <3>1, <3>2 DEF Claimed
    <3>4. n[1] \in {NoPlugin, q}
      BY <3>1 DEF WellMade, Claimed
    <3> QED BY <2>2, <3>3, <3>4 DEF Says
  <2> QED BY <2>1, <2>2
<1>8. Spared(r)
  <2> SUFFICES ASSUME NEW p \in Plugins, NEW n \in r.owned[p] PROVE r.table[n].plugin = p \/ Lost(n)
    BY DEF Spared
  <2>0. n \in Names
    BY <1>4
  <2>1. CASE p = q
    BY <1>2, <1>4, <2>0, <2>1
  <2>2. CASE p # q /\ n \notin fresh
    BY <1>2, <1>4, <2>0, <2>2 DEF RegInv, Spared
  <2>3. CASE p # q /\ n \in fresh
    <3>1. PICK c \in new : n \in Claimed(c)
      BY <2>3
    <3>2. n \in reg.owned[p] /\ (reg.table[n].plugin = p \/ Lost(n))
      BY <1>4, <2>3 DEF RegInv, Spared
    <3> QED BY <2>3, <3>1, <3>2
  <2> QED BY <2>1, <2>2, <2>3
<1> QED BY <1>5, <1>6, <1>7, <1>8 DEF RegInv, r

(* Unregistering takes from others only what is contested. *)
LEMMA Unregisters ==
  ASSUME NEW reg, RegInv(reg), NEW q \in Plugins, NEW first \in SUBSET Foreign(reg, q)
  PROVE  RegInv(Unregistered(reg, q, first)) /\ Unregistered(reg, q, first).owned[q] = {}
<1> DEFINE r == Unregistered(reg, q, first)
<1> DEFINE walked == (reg.owned[q] \ Foreign(reg, q)) \cup first
<1> DEFINE gone == reg.owned[q] \cup UNION {reg.table[n].aliases : n \in walked}
<1>1. /\ \A n \in Names : n \in gone => r.table[n] = NoCommand
      /\ \A n \in Names : n \notin gone => r.table[n] = reg.table[n]
      /\ r.table = [n \in Names |-> r.table[n]]
  BY DEF Unregistered
<1>2. /\ r.owned[q] = {}
      /\ \A p \in Plugins \ {q} : r.owned[p] = reg.owned[p]
      /\ r.owned \in [Plugins -> SUBSET Names]
  BY DEF Unregistered, RegInv, Shaped
<1>3. walked \subseteq reg.owned[q] /\ reg.owned[q] \subseteq Names
  BY DEF Foreign, RegInv, Shaped
<1> HIDE DEF r
<1>4. Shaped(r)
  BY <1>1, <1>2 DEF RegInv, Shaped
<1>5. \A n \in Names : r.table[n] # NoCommand =>
         r.table[n] = reg.table[n] /\ reg.table[n].plugin \in Plugins \ {q}
  <2> SUFFICES ASSUME NEW n \in Names, r.table[n] # NoCommand
               PROVE  r.table[n] = reg.table[n] /\ reg.table[n].plugin \in Plugins \ {q}
    OBVIOUS
  <2>1. n \notin gone /\ r.table[n] = reg.table[n]
    BY <1>1
  <2>2. reg.table[n] \in Command
    BY <2>1 DEF RegInv, Shaped
  <2>3. n \in reg.owned[reg.table[n].plugin]
    BY <2>1 DEF RegInv, Entered
  <2> QED BY <2>1, <2>2, <2>3 DEF Command
<1>6. Entered(r)
  BY <1>2, <1>5 DEF Entered, RegInv
<1>7. Booked(r)
  BY <1>2 DEF Booked, RegInv
<1>8. Spared(r)
  <2> SUFFICES ASSUME NEW p \in Plugins, NEW n \in r.owned[p] PROVE r.table[n].plugin = p \/ Lost(n)
    BY DEF Spared
  <2>1. p # q /\ n \in reg.owned[p] /\ n \in Names
    BY <1>2
  <2>2. reg.table[n].plugin = p \/ Lost(n)
    BY <2>1 DEF RegInv, Spared
  <2>3. CASE n \notin gone
    BY <1>1, <2>1, <2>2, <2>3
  <2>4. CASE n \in reg.owned[q]
    BY <2>1, <2>2, <2>4 DEF RegInv, Spared
  <2>5. ASSUME NEW x \in walked, n \in reg.table[x].aliases, n \notin reg.owned[q] PROVE Lost(n)
    <3>1. x \in reg.owned[q] /\ x \in Names
      BY <1>3
    <3>2. reg.table[x] # NoCommand
      BY <2>5 DEF NoCommand
    <3>3. /\ x \in Claimed(reg.table[x]) /\ WellMade(reg.table[x])
          /\ Claimed(reg.table[x]) \subseteq reg.owned[reg.table[x].plugin]
          /\ reg.table[x].plugin \in Plugins
      BY <3>1, <3>2 DEF RegInv, Entered, Shaped, Command
    <3>4. n \in Claimed(reg.table[x])
      BY <2>5 DEF Claimed
    <3>5. reg.table[x].plugin # q
      BY <2>5, <3>3, <3>4
    <3>6. Lost(x)
      BY <3>1, <3>5 DEF RegInv, Spared
    <3>7. n[1] = NoPlugin
      BY <2>5, <3>3 DEF WellMade
    <3>8. n[2] \in Contested
      <4>1. PICK d \in Declared[reg.table[x].plugin] :
               \A y \in Claimed(reg.table[x]) : y[2] \in Claimed(d)
        BY <3>3 DEF WellMade
      <4>2. x[2] \in Claimed(d) /\ n[2] \in Claimed(d)
        BY <3>3, <3>4, <4>1
      <4> QED BY <3>3, <3>6, <4>2, Spreads DEF Lost
    <3> QED BY <3>7, <3>8 DEF Lost
  <2> QED BY <2>3, <2>4, <2>5
<1> QED BY <1>2, <1>4, <1>6, <1>7, <1>8 DEF RegInv, r

(* What _register_declarative makes of the declared commands. *)
LEMMA MadeRight ==
  ASSUME NEW reg, NEW p \in Plugins, NEW kept \in SUBSET Declared[p]
  PROVE  /\ Resolved(reg, p, kept) \subseteq Command
         /\ \A c \in Resolved(reg, p, kept) :
              /\ c.plugin = p /\ WellMade(c)
              /\ \E d \in Declared[p] :
                    /\ (c.name = Plain(d.name) /\ d \in kept) \/ c.name = Dotted(p, d.name)
                    /\ \A n \in c.aliases : Free(reg, p, n)
<1> SUFFICES ASSUME NEW d \in Declared[p],
                    NEW c, c = [plugin  |-> p,
                                name    |-> IF d \in kept THEN Plain(d.name) ELSE Dotted(p, d.name),
                                aliases |-> KeptAliases(reg, p, d)]
             PROVE  /\ c \in Command /\ c.plugin = p /\ WellMade(c)
                    /\ (c.name = Plain(d.name) /\ d \in kept) \/ c.name = Dotted(p, d.name)
                    /\ \A n \in c.aliases : Free(reg, p, n)
  BY DEF Resolved
<1>1. d.name \in Words /\ d.aliases \subseteq Words
  BY CommandsAssumption
<1>2. /\ c.name \in Names /\ c.name[2] = d.name /\ c.name[1] \in {NoPlugin, p}
      /\ (c.name = Plain(d.name) /\ d \in kept) \/ c.name = Dotted(p, d.name)
  BY <1>1 DEF Plain, Dotted, Names
<1>3. /\ c.aliases \subseteq Names
      /\ \A n \in c.aliases : n[1] = NoPlugin /\ n[2] \in d.aliases /\ Free(reg, p, n)
  <2> SUFFICES ASSUME NEW n \in c.aliases
               PROVE  n \in Names /\ n[1] = NoPlugin /\ n[2] \in d.aliases /\ Free(reg, p, n)
    OBVIOUS
  <2>1. PICK a \in d.aliases : n = Plain(a) /\ Free(reg, p, Plain(a))
    BY DEF KeptAliases
  <2> QED BY <1>1, <2>1 DEF Plain, Names
<1>4. c \in Command /\ c.plugin = p
  BY <1>2, <1>3 DEF Command
<1>5. WellMade(c)
  <2>1. \A x \in Claimed(c) : x[2] \in Claimed(d)
    BY <1>2, <1>3 DEF Claimed
  <2> QED BY <1>2, <1>3, <1>4, <2>1 DEF WellMade
<1> QED BY <1>2, <1>3, <1>4, <1>5

LEMMA FreeYields ==
  ASSUME NEW reg, RegInv(reg), NEW q \in Plugins, NEW n \in Names, Free(reg, q, n),
         NEW p \in Plugins \ {q}
  PROVE  reg.table[n].plugin # p
<1> SUFFICES ASSUME reg.table[n].plugin = p PROVE FALSE
  OBVIOUS
<1>1. reg.table[n] # NoCommand
  BY NotACommand
<1>2. n \in Claimed(reg.table[n])
  BY <1>1 DEF RegInv, Entered
<1> QED BY <1>1, <1>2 DEF Free, Holders

LEMMA DottedYields ==
  ASSUME NEW reg, RegInv(reg), NEW q \in Plugins, NEW w, NEW p \in Plugins \ {q},
         Dotted(q, w) \in reg.owned[p]
  PROVE  FALSE
BY NotACommand DEF RegInv, Booked, Dotted

(* It suffices to look at the plain names: dotted ones are the plugin's own *)
(* and aliases are only kept if they are free.                             *)
LEMMA NamesYield ==
  ASSUME NEW reg, RegInv(reg), NEW q \in Plugins, NEW kept \in SUBSET Declared[q],
         \A d \in kept : \A p \in Plugins \ {q} :
            Plain(d.name) \in reg.owned[p] =>
               reg.table[Plain(d.name)].plugin # p \/ Lost(Plain(d.name)),
         NEW new \in SUBSET Resolved(reg, q, kept), reg.owned[q] = {}
  PROVE  RegInv(Registered(reg, q, new))
<1>0. /\ new \subseteq Command
      /\ \A c \in new :
           /\ c.plugin = q /\ WellMade(c)
           /\ \E d \in Declared[q] :
                 /\ (c.name = Plain(d.name) /\ d \in kept) \/ c.name = Dotted(q, d.name)
                 /\ \A n \in c.aliases : Free(reg, q, n)
  <2>1. Resolved(reg, q, kept) \subseteq Command
    BY MadeRight
  <2>2. \A c \in Resolved(reg, q, kept) :
           /\ c.plugin = q /\ WellMade(c)
           /\ \E d \in Declared[q] :
                 /\ (c.name = Plain(d.name) /\ d \in kept) \/ c.name = Dotted(q, d.name)
                 /\ \A n \in c.aliases : Free(reg, q, n)
    BY MadeRight
  <2> QED BY <2>1, <2>2
<1>1. ASSUME NEW c \in new, NEW n \in Claimed(c), NEW p \in Plugins \ {q}, n \in reg.owned[p]
      PROVE  reg.table[n].plugin # p \/ Lost(n)
  <2>0. n \in Names
    BY <1>1 DEF RegInv, Shaped
  <2>1. CASE n \in c.aliases
    BY <2>0, <2>1, <1>0, <1>1, FreeYields
  <2>2. CASE n = c.name
    BY <2>2, <1>0, <1>1, DottedYields
  <2> QED BY <2>1, <2>2, <1>1 DEF Claimed
<1> QED BY <1>0, <1>1, Registers

LEMMA AloneYields ==
  ASSUME NEW reg, RegInv(reg), NEW q \in Plugins, reg.owned[q] = {}
  PROVE  RegInv(Registered(reg, q, Alone(reg, q)))
<1> DEFINE kept == {c \in Declared[q] : Free(reg, q, Plain(c.name))}
<1>1. ASSUME NEW d \in kept, NEW p \in Plugins \ {q} PROVE reg.table[Plain(d.name)].plugin # p
  <2>1. Plain(d.name) \in Names
    BY CommandsAssumption DEF Plain, Names
  <2> QED BY <2>1, FreeYields
<1> QED BY <1>1, NamesYield DEF Alone

\* While load_enabled() runs only plugins it has come to are loaded; a plugin
\* that is out has nothing in its books.
Ranked == \A p \in Plugins : standing[p] # "out" /\ ~Up => \E i \in 1..booting : BootOrder[i] = p

Emptied == \A p \in Plugins : standing[p] = "out" => byPlugin[p] = {}

RegistryInv ==
    /\ RegInv(Reg)
    /\ standing \in [Plugins -> {"loaded", "closing", "out"}]
    /\ booting \in 0..Len(BootOrder)
    /\ Ranked /\ Emptied

LEMMA Order == Len(BootOrder) \in Nat /\ DOMAIN BootOrder = 1..Len(BootOrder)
               /\ (\A i \in 1..Len(BootOrder) : BootOrder[i] \in Plugins)
               /\ \A i, j \in 1..Len(BootOrder) : BootOrder[i] = BootOrder[j] => i = j
BY CommandsAssumption DEF IsInjective

(* At boot a name is taken from a plugin loaded before only if the system  *)
(* plugin claims it.                                                       *)
LEMMA BootYields ==
  ASSUME RegistryInv, ~Up, NEW q, q = BootOrder[booting + 1], NEW new \in SUBSET AtBoot(Reg, q)
  PROVE  RegInv(Registered(Reg, q, new)) /\ q \in Plugins /\ byPlugin[q] = {}
<1>0. booting + 1 \in 1..Len(BootOrder) /\ q \in Plugins /\ booting \in Nat
  <2>1. Len(BootOrder) \in Nat /\ booting \in 0..Len(BootOrder) /\ booting # Len(BootOrder)
    BY Order DEF RegistryInv, Up
  <2>2. booting + 1 \in 1..Len(BootOrder) /\ booting \in Nat
    BY <2>1
  <2> QED BY <2>2, Order
<1>1. standing[q] = "out" /\ byPlugin[q] = {}
  <2>1. \A i \in 1..booting : i \in 1..Len(BootOrder) /\ i # booting + 1
    BY <1>0, Order
  <2>2. \A i \in 1..booting : BootOrder[i] # q
    BY <1>0, <2>1, Order
  <2> QED BY <1>0, <2>2 DEF RegistryInv, Ranked, Emptied
<1> DEFINE kept == {c \in Declared[q] : Claims(q, c.name)}
<1>2. ASSUME NEW d \in kept, NEW p \in Plugins \ {q}, Plain(d.name) \in Reg.owned[p]
      PROVE  Lost(Plain(d.name))
  <2>0. d.name \in Words /\ Plain(d.name)[1] = NoPlugin /\ Plain(d.name)[2] = d.name
    BY CommandsAssumption, <1>0 DEF Plain
  <2>1. Says(p, d.name)
    BY <1>2, <2>0 DEF RegistryInv, RegInv, Booked
  <2>2. CASE System \in Range(BootOrder) /\ Says(System, d.name)
    BY <2>0, <2>2, Spreads DEF Lost
  <2>3. CASE ~(System \in Range(BootOrder) /\ Says(System, d.name))
    <3>1. PICK i \in DOMAIN BootOrder : BootOrder[i] = q /\ \A j \in 1..(i - 1) : ~Says(BootOrder[j], d.name)
      BY <2>3 DEF Claims
    <3>2. i = booting + 1
      BY <1>0, <3>1, Order
    <3>3. standing[p] # "out"
      BY <1>2 DEF RegistryInv, Emptied, Reg
    <3>4. PICK k \in 1..booting : BootOrder[k] = p
      BY <3>3 DEF RegistryInv, Ranked
    <3>5. k \in 1..(i - 1)
      BY <1>0, <3>2
    <3> QED BY <2>1, <3>1, <3>4, <3>5
  <2> QED BY <2>2, <2>3
<1>3. Reg.owned[q] = {}
  BY <1>1 DEF Reg
<1>4. kept \in SUBSET Declared[q] /\ RegInv(Reg)
  BY DEF RegistryInv
<1>5. new \in SUBSET Resolved(Reg, q, kept)
  BY DEF AtBoot
<1> HIDE DEF kept
<1> QED BY <1>0, <1>1, <1>2, <1>3, <1>4, <1>5, NamesYield

LEMMA BecomesKeeps == ASSUME NEW reg, RegInv(reg), Becomes(reg) PROVE RegInv(Reg)'
BY DEF Becomes, Reg, RegInv, Shaped, Entered, Booked, Spared

LEMMA OthersOwned ==
  ASSUME NEW reg, NEW p \in Plugins, NEW new, NEW first, reg.owned \in [Plugins -> SUBSET Names]
  PROVE  \A x \in Plugins \ {p} : /\ Registered(reg, p, new).owned[x] = reg.owned[x]
                                 /\ Unregistered(reg, p, first).owned[x] = reg.owned[x]
BY DEF Registered, Unregistered

LEMMA BootKeeps == ASSUME RegistryInv, BootPlugin PROVE RegistryInv'
<1> DEFINE q == BootOrder[booting + 1]
<1>1. ~Up /\ booting' = booting + 1
  BY DEF BootPlugin
<1>2. booting + 1 \in 1..Len(BootOrder) /\ booting \in Nat
  <2>1. Len(BootOrder) \in Nat /\ booting \in 0..Len(BootOrder) /\ booting # Len(BootOrder)
    BY <1>1, Order DEF RegistryInv, Up
  <2> QED BY <2>1
<1>3. q \in Plugins /\ byPlugin[q] = {} /\ RegInv(Reg)
  BY <1>1, BootYields DEF RegistryInv
<1>4. Ranked'
  <2> SUFFICES ASSUME NEW p \in Plugins, standing'[p] # "out"
               PROVE  \E i \in 1..(booting + 1) : BootOrder[i] = p
    BY <1>1 DEF Ranked
  <2>1. CASE p = q
    BY <1>2, <2>1
  <2>2. CASE p # q
    <3>1. standing'[p] = standing[p]
      BY <2>2 DEF BootPlugin, RegistryInv
    <3>2. PICK i \in 1..booting : BootOrder[i] = p
      BY <1>1, <3>1 DEF RegistryInv, Ranked
    <3> QED BY <1>2, <3>2
  <2> QED BY <2>1, <2>2
<1>5. booting' \in 0..Len(BootOrder)
  BY <1>1, <1>2
<1>6. Reg.owned \in [Plugins -> SUBSET Names] /\ Reg.owned = byPlugin
  BY <1>3 DEF RegInv, Shaped, Reg
<1>7. CASE Becomes(LoadedAtBoot(Reg, q)) /\ standing' = [standing EXCEPT ![q] = "loaded"]
  <2>1. RegInv(Registered(Reg, q, AtBoot(Reg, q)))
    BY <1>1, BootYields
  <2>2. RegInv(Reg)'
    BY <1>7, <2>1, BecomesKeeps DEF LoadedAtBoot
  <2>3. \A x \in Plugins \ {q} : byPlugin'[x] = byPlugin[x]
    BY <1>3, <1>6, <1>7, OthersOwned DEF Becomes, LoadedAtBoot
  <2>4. standing' \in [Plugins -> {"loaded", "closing", "out"}] /\ standing'[q] = "loaded"
    BY <1>3, <1>7 DEF RegistryInv
  <2>5. Emptied'
    BY <1>7, <2>3, <2>4 DEF Emptied, RegistryInv
  <2> QED BY <1>4, <1>5, <2>2, <2>4, <2>5 DEF RegistryInv
<1>8. ASSUME NEW tried \in SUBSET AtBoot(Reg, q),
             Becomes(Unregistered(Registered(Reg, q, tried), q, {})), UNCHANGED standing
      PROVE  RegistryInv'
  <2> DEFINE full == Registered(Reg, q, tried)
  <2> DEFINE back == Unregistered(full, q, {})
  <2>1. RegInv(full)
    BY <1>1, BootYields
  <2> HIDE DEF full
  <2>2. RegInv(back) /\ back.owned[q] = {}
    BY <1>3, <2>1, Unregisters
  <2>3. full.owned \in [Plugins -> SUBSET Names]
    BY <2>1 DEF RegInv, Shaped
  <2>4. \A x \in Plugins \ {q} : full.owned[x] = byPlugin[x]
    BY <1>3, <1>6, OthersOwned DEF full
  <2>5. \A x \in Plugins \ {q} : back.owned[x] = full.owned[x]
    BY <1>3, <2>3, OthersOwned
  <2>6. Becomes(back)
    BY <1>8 DEF full
  <2> HIDE DEF back
  <2>7. RegInv(Reg)'
    BY <2>2, <2>6, BecomesKeeps
  <2>8. Emptied'
    BY <1>8, <2>2, <2>4, <2>5, <2>6 DEF Emptied, RegistryInv, Becomes
  <2> QED BY <1>4, <1>5, <1>8, <2>7, <2>8 DEF RegistryInv
<1> QED BY <1>7, <1>8 DEF BootPlugin

LEMMA LoadKeeps == ASSUME RegistryInv, Up, NEW p \in Plugins, Load(p) PROVE RegistryInv'
<1>1. byPlugin[p] = {} /\ RegInv(Reg) /\ Reg.owned = byPlugin
  BY DEF RegistryInv, Emptied, Load, Reg
<1>2. RegInv(Registered(Reg, p, Alone(Reg, p)))
  BY <1>1, AloneYields
<1>3. RegInv(Reg)'
  BY <1>2, BecomesKeeps DEF Load
<1>4. \A x \in Plugins \ {p} : byPlugin'[x] = byPlugin[x]
  BY <1>1, OthersOwned DEF Load, Becomes, RegInv, Shaped
<1>5. Ranked' /\ UNCHANGED booting
  BY DEF Ranked, Up, Load
<1>6. standing' \in [Plugins -> {"loaded", "closing", "out"}] /\ Emptied'
  BY <1>4 DEF Emptied, RegistryInv, Load
<1> QED BY <1>3, <1>5, <1>6 DEF RegistryInv

LEMMA UnloadKeeps ==
  ASSUME RegistryInv, Up, NEW p \in Plugins, BeginUnload(p) \/ EndUnload(p) PROVE RegistryInv'
<1>1. Ranked' /\ UNCHANGED booting
  BY DEF Ranked, Up, BeginUnload, EndUnload
<1>2. standing' \in [Plugins -> {"loaded", "closing", "out"}]
  BY DEF RegistryInv, BeginUnload, EndUnload
<1>3. CASE BeginUnload(p)
  <2>1. RegInv(Reg)' /\ Emptied'
    BY <1>3 DEF BeginUnload, RegistryInv, Emptied, Reg, RegInv, Shaped, Entered, Booked, Spared
  <2> QED BY <1>1, <1>2, <2>1 DEF RegistryInv
<1>4. CASE EndUnload(p)
  <2>1. PICK first \in SUBSET Foreign(Reg, p) : Becomes(Unregistered(Reg, p, first))
    BY <1>4 DEF EndUnload
  <2>2. RegInv(Reg) /\ Reg.owned = byPlugin
    BY DEF RegistryInv, Reg
  <2>3. RegInv(Unregistered(Reg, p, first)) /\ Unregistered(Reg, p, first).owned[p] = {}
    BY <2>2, Unregisters
  <2>4. \A x \in Plugins \ {p} : Unregistered(Reg, p, first).owned[x] = byPlugin[x]
    <3>1. Reg.owned \in [Plugins -> SUBSET Names]
      BY <2>2 DEF RegInv, Shaped
    <3>2. \A x \in Plugins \ {p} : Unregistered(Reg, p, first).owned[x] = Reg.owned[x]
      BY <3>1, OthersOwned
    <3> QED BY <2>2, <3>2
  <2>5. RegInv(Reg)'
    BY <2>1, <2>3, BecomesKeeps
  <2>6. Emptied'
    BY <1>4, <2>1, <2>3, <2>4 DEF Emptied, RegistryInv, Becomes, EndUnload
  <2> QED BY <1>1, <1>2, <2>5, <2>6 DEF RegistryInv
<1> QED BY <1>3, <1>4

LEMMA RegistryStands == RegistryInv /\ UNCHANGED registry => RegistryInv'
BY DEF registry, RegistryInv, RegInv, Shaped, Entered, Booked, Spared, Reg, Ranked, Up, Emptied

LEMMA MessageLeavesRegistry == ASSUME NEW m \in Messages, MessageStep(m) PROVE UNCHANGED registry
<1>1. ASSUME NEW raises \in BOOLEAN, Handles(m, raises) PROVE UNCHANGED registry
  BY <1>1 DEF Handles, Arrives, Ruled
<1>2. CASE Handling(m)
  BY <1>2 DEF Handling, Settles, RemoteRaises, HandlerRaises, HandlerReturns, commandVars
<1>3. CASE Ignored(m) \/ Ends(m) \/ CutShort(m)
  BY <1>3 DEF Ignored, Ends, Counted, FailureCounted, Replied, CutShort, Cut
<1> QED BY <1>1, <1>2, <1>3 DEF MessageStep

LEMMA RegistryStep == RegistryInv /\ [Next]_vars => RegistryInv'
<1> SUFFICES ASSUME RegistryInv, Next \/ UNCHANGED vars PROVE RegistryInv'
  OBVIOUS
<1>1. CASE BootPlugin
  BY <1>1, BootKeeps
<1>2. CASE Up /\ (LoadRemote \/ UnloadRemote \/ RemoteGone)
  BY <1>2, PipelineAssumption, LoadKeeps, UnloadKeeps DEF LoadRemote, UnloadRemote, RemoteGone
<1>3. ASSUME Up, NEW p \in Plugins, Inline(p) PROVE RegistryInv'
  BY <1>3, LoadKeeps, UnloadKeeps DEF Inline
<1>4. CASE UNCHANGED registry
  BY <1>4, RegistryStands
<1>5. UNCHANGED commandVars => UNCHANGED registry
  BY DEF commandVars
<1> QED BY <1>1, <1>2, <1>3, <1>4, <1>5, MessageLeavesRegistry DEF Next, vars

LEMMA RegistryStart == Init => RegistryInv
<1> SUFFICES ASSUME Init PROVE RegistryInv
  OBVIOUS
<1>1. /\ Reg.table = [n \in Names |-> NoCommand] /\ Reg.owned = [p \in Plugins |-> {}]
      /\ byPlugin = [p \in Plugins |-> {}]
      /\ standing = [p \in Plugins |-> "out"] /\ booting = 0
  BY DEF Init, CommandsInit, Bare, Reg
<1>2. RegInv(Reg)
  BY <1>1 DEF RegInv, Shaped, Entered, Booked, Spared
<1> QED BY <1>1, <1>2, Order DEF RegistryInv, Ranked, Emptied

LEMMA RegistryImplies == RegistryInv => RegistryTrue
<1> SUFFICES ASSUME RegistryInv PROVE NoStranger /\ NamesKept
  BY DEF RegistryTrue
<1>1. NoStranger
  <2> SUFFICES ASSUME NEW n \in Names, commands[n] # NoCommand
               PROVE  standing[commands[n].plugin] # "out"
    BY DEF NoStranger
  <2>1. commands[n].plugin \in Plugins /\ n \in byPlugin[commands[n].plugin]
    BY DEF RegistryInv, RegInv, Shaped, Entered, Reg, Command
  <2> QED BY <2>1 DEF RegistryInv, Emptied
<1>2. NamesKept
  BY DEF NamesKept, RegistryInv, RegInv, Spared, Reg, Lost
<1> QED BY <1>1, <1>2

(* Whatever plugins there are, whatever they declare and in which order    *)
(* they boot, fail, load and unload: no command of a plugin that is out    *)
(* can be reached, and only contested words are ever lost.                 *)
THEOREM RegistryHolds == Spec => []RegistryTrue
BY RegistryStart, RegistryStep, RegistryImplies, PTL DEF Spec

(***************************************************************************)
(* Types of the messages, which need the registry for their commands and   *)
(* the books for their logs.                                               *)
(***************************************************************************)
Typed == message \in [Messages -> [at : Place, cmd : Command \cup {NoCommand},
                                   log : Seq(Record), cut : BOOLEAN]]

LEMMA SetsTyped ==
  ASSUME Typed, BookInv', NEW m \in Messages, NEW place \in Place,
         NEW c \in Command \cup {NoCommand}, NEW log, NEW cut \in BOOLEAN,
         message' = [message EXCEPT ![m] = [at |-> place, cmd |-> c, log |-> log, cut |-> cut]]
  PROVE  Typed'
<1>1. message'[m].log = log
  BY DEF Typed
<1>2. log \in Seq(Record)
  BY <1>1 DEF BookInv, Right, Clean
<1> QED BY <1>2 DEF Typed

LEMMA MovesTyped ==
  ASSUME Typed, BookInv', NEW m \in Messages, NEW place \in Place,
         NEW c \in Command \cup {NoCommand}, NEW events, Moves(m, place, c, events)
  PROVE  Typed'
<1>1. message[m].cut \in BOOLEAN
  BY DEF Typed
<1> QED BY <1>1, SetsTyped DEF Moves

LEMMA MessageTyped ==
  ASSUME Typed, RegistryInv, BookInv', NEW m \in Messages, MessageStep(m) PROVE Typed'
<1> DEFINE C == Command \cup {NoCommand}
<1>0. message[m].cmd \in C /\ NoCommand \in C /\ \A n \in Names : commands[n] \in C
  BY DEF Typed, RegistryInv, RegInv, Shaped, Reg
<1>1. ASSUME NEW c \in C, NEW gate, NEW before, Rejects(m, c, gate, before) PROVE Typed'
  BY <1>1, MovesTyped DEF Rejects, Place
<1>2. ASSUME NEW c \in C, NEW raises, NEW before, Invokes(m, c, before, raises) PROVE Typed'
  BY <1>2, MovesTyped DEF Invokes, Place
<1>3. ASSUME NEW n \in Names, NEW raises, Arrives(m, n, raises) PROVE Typed'
  <2>1. CASE Moves(m, "ruling", commands[n], <<"parsed">>)
    BY <1>0, <2>1, MovesTyped DEF Place
  <2> QED BY <1>0, <1>1, <1>2, <1>3, <2>1 DEF Arrives
<1>4. ASSUME NEW raises, Ruled(m, raises) PROVE Typed'
  BY <1>0, <1>1, <1>2, <1>4 DEF Ruled
<1>5. CASE Ignored(m) \/ HandlerReturns(m) \/ HandlerRaises(m) \/ Counted(m) \/ FailureCounted(m) \/ Replied(m)
  BY <1>0, <1>5, MovesTyped
     DEF Ignored, HandlerReturns, HandlerRaises, Counted, FailureCounted, Replied, Place
<1>6. CASE Cut(m)
  BY <1>0, <1>6, SetsTyped DEF Cut, Place
<1>7. CASE UNCHANGED message
  BY <1>7 DEF Typed
<1>8. CASE Handling(m)
  BY <1>5, <1>7, <1>8 DEF Handling, Settles, RemoteRaises, commandVars
<1> QED BY <1>3, <1>4, <1>5, <1>6, <1>8 DEF MessageStep, Handles, Ends, CutShort

LEMMA TypedStep == Typed /\ RegistryInv /\ BookInv' /\ [Next]_vars => Typed'
<1> SUFFICES ASSUME Typed, RegistryInv, BookInv', Next \/ UNCHANGED vars PROVE Typed'
  OBVIOUS
<1>1. ASSUME ~\E m \in Messages : MessageStep(m) PROVE UNCHANGED message
  BY <1>1 DEF Next, vars, BootPlugin, LoadRemote, UnloadRemote, RemoteGone, Inline,
              Load, BeginUnload, EndUnload, commandVars
<1>2. CASE UNCHANGED message
  BY <1>2 DEF Typed
<1> QED BY <1>1, <1>2, MessageTyped

LEMMA TypedStart == Init => Typed
BY DEF Init, CommandsInit, Typed, Place

(* Commands, names, messages, calls and capabilities keep their types. *)
THEOREM PipelineTypeCorrect == Spec => []TypeOK
<1>1. Spec => []BridgeTypeOK
  BY PipelineKeepsBridge, BridgeTypeCorrect, PTL
<1>2. RegistryInv /\ Typed /\ BridgeTypeOK => TypeOK
  BY DEF TypeOK, CommandsTypeOK, RegistryInv, RegInv, Shaped, Reg, Typed
<1> QED BY <1>1, <1>2, BookStart, BookStep, RegistryStart, RegistryStep, TypedStart, TypedStep,
           PTL DEF Spec

(* Whatever plugins are declared, loaded and unloaded and whatever the     *)
(* worker does, no message has two verdicts or two outcomes, and success   *)
(* of a remote command is recorded only if its worker answered.            *)
THEOREM PipelineBalances == Spec => []BooksBalance
<1>1. Spec => []BridgeTypeOK
  BY PipelineKeepsBridge, BridgeTypeCorrect, PTL
<1> QED BY <1>1, BookStart, BookStep, BookImplies, PTL DEF Spec
=============================================================================
