--------------------------- MODULE PluginIpcProofs ---------------------------
(***************************************************************************)
(* Proofs about PluginIpc: for any set of calls, any number of capability  *)
(* calls and any backlog, the books of the bridge are right, stop() is     *)
(* final, with the exceptions its properties name, and the bridge with its *)
(* worker implements RemoteCalls.                                          *)
(***************************************************************************)
EXTENDS PluginIpc, TLAPS

(* Where the bridge stands in its life decides what there can be: no       *)
(* worker and no read loop before it is spawned, and no open bridge after  *)
(* stop() has closed it.                                                   *)
Stages ==
    /\ proc = "none" <=> reader = "none"
    /\ starting \in {"no", "spawning"} => proc = "none" /\ call[Ping] = "new"
    /\ stopping \in {"asking", "exiting"} => proc # "none"
    /\ reaped => proc = "dead"
    /\ closed <=> stopping \in {"gathering", "stopped"}

(* A worker that lives on under a closed bridge was spawned too late.      *)
Stray == closed /\ proc \in {"running", "hung"} => call[Ping] = "refused"

(* A capability that runs under a closed bridge is waited for or slipped   *)
(* in; only stop() cancels one.                                            *)
Accounted ==
    \A k \in Caps :
       /\ ~closed => cap[k] # "cancelling"
       /\ closed /\ cap[k] \in {"serving", "cancelling"} =>
             k \in slipped \/ (stopping = "gathering" /\ k \in gathered)

IpcInv == BridgeTypeOK /\ Stages /\ Stray /\ Accounted /\ NoneForgotten

USE IpcAssumption DEF AllCalls, InFlight, Over

LEMMA IpcInit == BridgeInit => IpcInv
<1> SUFFICES ASSUME BridgeInit PROVE IpcInv
  OBVIOUS
<1>1. BridgeTypeOK
  <2>1. stdout \in Seq(Line)
    BY DEF BridgeInit
  <2>5. reaped \in BOOLEAN /\ closed \in BOOLEAN
    BY DEF BridgeInit
  <2>2. cap \in [Caps -> {"new", "sent", "serving", "cancelling", "over"}]
    BY DEF BridgeInit
  <2>3. call \in [AllCalls -> {"new"} \cup InFlight \cup Over]
    BY DEF BridgeInit
  <2>4. future \in [AllCalls -> {"open", "result", "error"}]
    BY DEF BridgeInit
  <2> QED BY <2>1, <2>2, <2>3, <2>4, <2>5 DEF BridgeInit, BridgeTypeOK
<1>2. Stages /\ Stray /\ Accounted
  BY DEF BridgeInit, Stages, Stray, Accounted
<1>3. NoneForgotten
  BY DEF BridgeInit, NoneForgotten
<1> QED BY <1>1, <1>2, <1>3 DEF IpcInv

(* The invariants imply the three properties. *)
LEMMA IpcImplies == IpcInv => NoneForgotten /\ StopQuiets /\ WorkerGone
BY DEF IpcInv, BridgeTypeOK, Stages, Stray, Accounted, StopQuiets, WorkerGone

(* request() keeps the invariant, whoever calls it but start(). *)
LEMMA WritesKeeps ==
    ASSUME IpcInv, NEW r \in AllCalls, r # Ping, Writes(r), UNCHANGED <<served>>,
           UNCHANGED <<starting, gathered, closed>>,
           \/ stopping' = stopping
           \/ stopping = "no" /\ proc # "none" /\ stopping' = "asking"
    PROVE  IpcInv'
<1> USE DEF IpcInv, Writes, Unwritten, LineLost, LineWritten, Belated, served
<1>1. BridgeTypeOK' /\ Stages'
  BY DEF BridgeTypeOK, Stages, Available
<1>2. Stray' /\ Accounted'
  BY DEF BridgeTypeOK, Stages, Stray, Accounted, Available
<1>3. NoneForgotten'
  BY DEF BridgeTypeOK, Stages, NoneForgotten, Available
<1> QED BY <1>1, <1>2, <1>3

(* The end of a call. *)
LEMMA LeavesKeeps ==
    ASSUME IpcInv, NEW r \in AllCalls, NEW how \in Over,
           call[r] \in InFlight, Leaves(r, how)
    PROVE  IpcInv'
<1> USE DEF IpcInv, Leaves, worker, served, life
<1>1. BridgeTypeOK' /\ Stages'
  BY DEF BridgeTypeOK, Stages
<1>2. Stray' /\ Accounted'
  BY DEF BridgeTypeOK, Stray, Accounted
<1>3. NoneForgotten'
  BY DEF BridgeTypeOK, NoneForgotten
<1> QED BY <1>1, <1>2, <1>3

LEMMA CallKeeps ==
    ASSUME IpcInv, NEW r \in AllCalls, CallStep(r) \/ Abandons(r)
    PROVE  IpcInv'
<1>1. CASE Drains(r)
  <2> USE <1>1 DEF IpcInv, Drains, worker, served, life
  <2>1. BridgeTypeOK' /\ Stages'
    BY DEF BridgeTypeOK, Stages
  <2>2. Stray' /\ Accounted' /\ NoneForgotten'
    BY DEF BridgeTypeOK, Stray, Accounted, NoneForgotten
  <2> QED BY <2>1, <2>2
<1>2. CASE DrainFails(r) \/ Answered(r) \/ Fails(r) \/ TimesOut(r) \/ Abandons(r)
  BY <1>2, LeavesKeeps DEF DrainFails, Answered, Fails, TimesOut, Abandons
<1> QED BY <1>1, <1>2 DEF CallStep

(* start(). *)
LEMMA StartKeeps ==
    ASSUME IpcInv, BeginStart \/ SpawnFails \/ Spawned \/ Started
    PROVE  IpcInv'
<1> USE DEF IpcInv, worker, books, served, life
<1>1. CASE BeginStart \/ SpawnFails \/ Started
  BY <1>1 DEF BeginStart, SpawnFails, Started, BridgeTypeOK, Stages, Stray, Accounted,
              NoneForgotten
<1>2. CASE Spawned
  <2> USE <1>2 DEF Spawned
  <2>5. call' \in [AllCalls -> {"new"} \cup InFlight \cup Over]
    BY DEF BridgeTypeOK
  <2>6. pending' \subseteq {r \in AllCalls : call'[r] \in InFlight}
    <3>1. CASE closed
      BY <3>1 DEF BridgeTypeOK, Stages
    <3>2. CASE ~closed
      BY <3>2 DEF BridgeTypeOK
    <3> QED BY <3>1, <3>2
  <2>7. stdin' \subseteq AllCalls
    BY DEF BridgeTypeOK
  <2>8. proc' = "running" /\ reader' = "reading" /\ starting' \in {"pinging", "raised"}
    OBVIOUS
  <2>1. BridgeTypeOK'
    BY <2>5, <2>6, <2>7, <2>8 DEF BridgeTypeOK
  <2>4. Stages'
    BY DEF BridgeTypeOK, Stages
  <2>2. Stray' /\ Accounted'
    BY DEF BridgeTypeOK, Stages, Stray, Accounted
  <2>3. NoneForgotten'
    BY DEF BridgeTypeOK, Stages, NoneForgotten
  <2> QED BY <2>1, <2>2, <2>3, <2>4
<1> QED BY <1>1, <1>2

(* The worker: what it writes are lines. *)
LEMMA LineAppended ==
    ASSUME NEW s \in Seq(Line), NEW x \in Line
    PROVE  Append(s, x) \in Seq(Line)
OBVIOUS

LEMMA PrintedLine ==
    ASSUME NEW kind, NEW x, stdout \in Seq(Line), <<kind, x>> \in Line
    PROVE  /\ Prints(kind, x) \in Seq(Line)
           /\ reader = "ended" => Prints(kind, x) = stdout
           /\ reader # "ended" => Prints(kind, x) = Append(stdout, <<kind, x>>)
BY LineAppended DEF Prints

LEMMA WorkerKeepsInv ==
    ASSUME IpcInv, WorkerStep
    PROVE  IpcInv'
<1> USE DEF IpcInv, WorkerKeeps, worker, books, served, life
<1>1. CASE WorkerReads
  <2> USE <1>1 DEF WorkerReads
  <2>1. PICK r \in stdin : /\ stdin' = stdin \ {r}
                           /\ IF r \in Calls
                                THEN working' = working \cup {r} /\ UNCHANGED stdout
                                ELSE stdout' = Prints("answer", r) /\ UNCHANGED working
    OBVIOUS
  <2>2. <<"answer", r>> \in Line
    BY DEF Line, BridgeTypeOK
  <2>6. Prints("answer", r) \in Seq(Line)
    BY <2>2, PrintedLine DEF BridgeTypeOK
  <2>3. stdout' \in Seq(Line)
    BY <2>1, <2>6 DEF BridgeTypeOK
  <2>4. BridgeTypeOK' /\ Stages'
    BY <2>1, <2>3 DEF BridgeTypeOK, Stages
  <2>5. Stray' /\ Accounted' /\ NoneForgotten'
    BY DEF Stray, Accounted, NoneForgotten
  <2> QED BY <2>4, <2>5
<1>2. CASE WorkerAnswers
  <2> USE <1>2 DEF WorkerAnswers
  <2>1. PICK r \in working, kind \in {"answer", "error"} :
             working' = working \ {r} /\ stdout' = Prints(kind, r)
    OBVIOUS
  <2>2. <<kind, r>> \in Line
    BY DEF Line, BridgeTypeOK
  <2>3. stdout' \in Seq(Line)
    BY <2>1, <2>2, PrintedLine DEF BridgeTypeOK
  <2>4. BridgeTypeOK' /\ Stages'
    BY <2>1, <2>3 DEF BridgeTypeOK, Stages
  <2>5. Stray' /\ Accounted' /\ NoneForgotten'
    BY DEF Stray, Accounted, NoneForgotten
  <2> QED BY <2>4, <2>5
<1>3. CASE WorkerCalls
  <2> USE <1>3 DEF WorkerCalls
  <2>1. PICK k \in Caps : /\ cap[k] = "new"
                          /\ cap' = [cap EXCEPT ![k] = "sent"]
                          /\ stdout' = Prints("capability", k)
    OBVIOUS
  <2>2. <<"capability", k>> \in Line
    BY DEF Line
  <2>3. stdout' \in Seq(Line)
    BY <2>1, <2>2, PrintedLine DEF BridgeTypeOK
  <2>4. BridgeTypeOK' /\ Stages'
    BY <2>1, <2>3 DEF BridgeTypeOK, Stages
  <2>5. Stray' /\ Accounted' /\ NoneForgotten'
    BY <2>1 DEF BridgeTypeOK, Stray, Accounted, NoneForgotten
  <2> QED BY <2>4, <2>5
<1>4. CASE WorkerHangs \/ WorkerDies \/ WorkerReaped
  <2>1. BridgeTypeOK'
    <3>1. CASE WorkerHangs
      BY <3>1 DEF WorkerHangs, BridgeTypeOK
    <3>2. CASE WorkerDies
      BY <3>2 DEF WorkerDies, BridgeTypeOK
    <3>3. CASE WorkerReaped
      BY <3>3 DEF WorkerReaped, BridgeTypeOK
    <3> QED BY <1>4, <3>1, <3>2, <3>3
  <2>3. Stages'
    BY <1>4 DEF WorkerHangs, WorkerDies, WorkerReaped, BridgeTypeOK, Stages
  <2>2. Stray' /\ Accounted' /\ NoneForgotten'
    BY <1>4 DEF WorkerHangs, WorkerDies, WorkerReaped, Stray, Accounted, NoneForgotten
  <2> QED BY <2>1, <2>2, <2>3
<1> QED BY <1>1, <1>2, <1>3, <1>4 DEF WorkerStep

(* The read loop and the end of it. *)
LEMMA ReaderKeeps ==
    ASSUME IpcInv, ReaderStep
    PROVE  IpcInv'
<1> USE DEF IpcInv, worker, served, life
<1>1. CASE ReaderEnds
  <2> USE <1>1 DEF ReaderEnds, TellsPending
  <2>1. BridgeTypeOK'
    BY DEF BridgeTypeOK
  <2>2. Stages'
    BY DEF BridgeTypeOK, Stages
  <2>3. Stray' /\ Accounted' /\ NoneForgotten'
    BY DEF BridgeTypeOK, Stray, Accounted, NoneForgotten
  <2> QED BY <2>1, <2>2, <2>3
<1>2. CASE ReaderReads
  <2> USE <1>2 DEF ReaderReads
  <2> DEFINE kind == Head(stdout)[1]  x == Head(stdout)[2]
  <2>1. Head(stdout) \in Line /\ stdout' \in Seq(Line)
    BY DEF BridgeTypeOK
  <2>2. CASE kind = "capability"
    <3>1. x \in Caps
      BY <2>1, <2>2 DEF Line
    <3>2. /\ cap' = [cap EXCEPT ![x] = "serving"]
          /\ slipped' = IF stopping = "gathering" \/ closed THEN slipped \cup {x} ELSE slipped
          /\ UNCHANGED <<future, pending>>
      BY <2>2
    <3> HIDE DEF kind, x
    <3>3. BridgeTypeOK'
      BY <2>1, <3>1, <3>2 DEF BridgeTypeOK
    <3>4. Stages'
      BY DEF BridgeTypeOK, Stages
    <3>5. Stray' /\ Accounted' /\ NoneForgotten'
      BY <3>1, <3>2 DEF BridgeTypeOK, Stages, Stray, Accounted, NoneForgotten
    <3> QED BY <3>3, <3>4, <3>5
  <2>3. CASE kind # "capability"
    <3>1. x \in AllCalls
      BY <2>1, <2>3 DEF Line
    <3>2. Delivers(kind, x) /\ UNCHANGED served
      BY <2>3
    <3> HIDE DEF kind, x
    <3>3. BridgeTypeOK'
      BY <2>1, <3>1, <3>2 DEF BridgeTypeOK, Delivers
    <3>4. Stages' /\ Stray' /\ Accounted'
      BY <3>2 DEF BridgeTypeOK, Stages, Stray, Accounted
    <3>5. NoneForgotten'
      BY <3>1, <3>2 DEF BridgeTypeOK, Delivers, NoneForgotten
    <3> QED BY <3>3, <3>4, <3>5
  <2> QED BY <2>2, <2>3
<1>3. CASE ReaderFails
  <2> USE <1>3 DEF ReaderFails, TellsPending
  <2>1. BridgeTypeOK'
    <3>1. stdout' \in Seq(Line)
      BY DEF BridgeTypeOK
    <3> QED BY <3>1 DEF BridgeTypeOK
  <2>2. Stages'
    BY DEF BridgeTypeOK, Stages
  <2>3. Stray' /\ Accounted' /\ NoneForgotten'
    BY DEF BridgeTypeOK, Stray, Accounted, NoneForgotten
  <2> QED BY <2>1, <2>2, <2>3
<1> QED BY <1>1, <1>2, <1>3 DEF ReaderStep

(* stop(), and the capability tasks it waits for. *)
LEMMA ClosesKeeps ==
    ASSUME IpcInv, Closes, stopping \in {"no", "exiting"},
           \/ proc' = proc /\ proc \in {"none", "dead"}
           \/ proc' = "dead" /\ proc # "none",
           stdin' \subseteq stdin, working' \subseteq working, reaped' = reaped,
           UNCHANGED <<call, late, slipped, starting>>
    PROVE  IpcInv'
<1> USE DEF IpcInv, Closes, JoinsReader, Serving, TellsPending
<1>1. stdout' \in Seq(Line)
  <2>1. << >> \in Seq(Line) /\ stdout \in Seq(Line)
    BY DEF BridgeTypeOK
  <2>2. stdout' = << >> \/ stdout' = stdout
    OBVIOUS
  <2> QED BY <2>1, <2>2
<1>9. gathered' \subseteq Caps
  BY DEF BridgeTypeOK
<1>2. /\ future' \in [AllCalls -> {"open", "result", "error"}]
      /\ pending' \subseteq {r \in AllCalls : call[r] \in InFlight}
      /\ reader' \in {"none", "reading", "ended"}
      /\ stopping' \in {"gathering", "stopped"}
  BY DEF BridgeTypeOK
<1>3. cap' \in [Caps -> {"new", "sent", "serving", "cancelling", "over"}]
  BY DEF BridgeTypeOK
<1>4. BridgeTypeOK'
  BY <1>1, <1>2, <1>3, <1>9 DEF BridgeTypeOK
<1>5. Stages'
  BY DEF BridgeTypeOK, Stages
<1>6. Stray'
  BY DEF Stray
<1>7. Accounted'
  BY DEF BridgeTypeOK, Stages, Accounted
<1>8. NoneForgotten'
  BY DEF BridgeTypeOK, NoneForgotten
<1> QED BY <1>4, <1>5, <1>6, <1>7, <1>8

LEMMA StopKeeps ==
    ASSUME IpcInv, BeginStop \/ StopStep
    PROVE  IpcInv'
<1>1. CASE BeginStop
  <2>1. CASE proc # "none" /\ ~reaped
    BY <1>1, <2>1, WritesKeeps DEF BeginStop, served
  <2>2. CASE ~(proc # "none" /\ ~reaped)
    BY <1>1, <2>2, ClosesKeeps DEF BeginStop, IpcInv, BridgeTypeOK, Stages
  <2> QED BY <2>1, <2>2
<1>2. CASE Terminates
  BY <1>2 DEF Terminates, IpcInv, BridgeTypeOK, Stages, Stray, Accounted, NoneForgotten,
              worker, books, served
<1>3. CASE StopCloses
  <2>1. proc # "none"
    BY <1>3 DEF StopCloses, IpcInv, Stages, BridgeTypeOK
  <2> QED BY <1>3, <2>1, ClosesKeeps DEF StopCloses, WorkerKilled
<1>4. CASE StopEnds
  <2> USE <1>4 DEF StopEnds, IpcInv, JoinsReader, TellsPending, served
  <2>1. BridgeTypeOK'
    BY DEF BridgeTypeOK
  <2>2. Stages' /\ Stray'
    BY DEF BridgeTypeOK, Stages, Stray
  <2>3. Accounted' /\ NoneForgotten'
    BY DEF BridgeTypeOK, Stages, Accounted, NoneForgotten
  <2> QED BY <2>1, <2>2, <2>3
<1> QED BY <1>1, <1>2, <1>3, <1>4 DEF StopStep

LEMMA CapabilityKeeps ==
    ASSUME IpcInv, NEW k \in Caps, CapabilityEnds(k)
    PROVE  IpcInv'
<1> USE DEF IpcInv, CapabilityEnds, worker, books, life
<1>1. BridgeTypeOK' /\ Stages'
  BY DEF BridgeTypeOK, Stages
<1>2. Stray' /\ Accounted' /\ NoneForgotten'
  BY DEF BridgeTypeOK, Stray, Accounted, NoneForgotten
<1> QED BY <1>1, <1>2

(* Every step of the bridge keeps the invariant. *)
LEMMA IpcStep == IpcInv /\ [BridgeNext]_bridge => IpcInv'
<1> SUFFICES ASSUME IpcInv, [BridgeNext]_bridge PROVE IpcInv'
  OBVIOUS
<1>1. CASE BeginStart \/ SpawnFails \/ Spawned \/ Started
  BY <1>1, StartKeeps
<1>2. CASE WorkerStep
  BY <1>2, WorkerKeepsInv
<1>3. CASE ReaderStep
  BY <1>3, ReaderKeeps
<1>4. CASE BeginStop \/ StopStep
  BY <1>4, StopKeeps
<1>5. ASSUME NEW k \in Caps, CapabilityEnds(k) PROVE IpcInv'
  BY <1>5, CapabilityKeeps
<1>6. ASSUME NEW r \in AllCalls, CallStep(r) \/ Abandons(r) PROVE IpcInv'
  BY <1>6, CallKeeps
<1>7. ASSUME NEW r \in Calls, Request(r) PROVE IpcInv'
  BY <1>7, WritesKeeps DEF Request, served, life
<1>8. CASE UNCHANGED bridge
  BY <1>8 DEF bridge, worker, books, served, life, IpcInv, BridgeTypeOK, Stages, Stray,
              Accounted, NoneForgotten
<1> QED BY <1>1, <1>2, <1>3, <1>4, <1>5, <1>6, <1>7, <1>8 DEF BridgeNext, BridgeStep

LEMMA IpcInvariance == BridgeSpec => []IpcInv
<1> QED BY IpcInit, IpcStep, PTL DEF BridgeSpec

(* The books of the bridge and its worker hold what they should. *)
THEOREM BridgeTypeCorrect == BridgeSpec => []BridgeTypeOK
<1>1. IpcInv => BridgeTypeOK
  BY DEF IpcInv
<1> QED BY <1>1, IpcInvariance, PTL

(* Left to itself the bridge forgets no call, is silent once stopped and   *)
(* leaves no worker behind, with the exceptions the properties name.       *)
THEOREM BridgeIsSafe == BridgeSpec => [](NoneForgotten /\ StopQuiets /\ WorkerGone)
BY IpcInvariance, IpcImplies, PTL

(***************************************************************************)
(* The refinement of RemoteCalls.  What has become of a call is told by    *)
(* the place it is in: unread by the worker, being carried out, on its way *)
(* back, or in the future of the caller.  Placed says that it is in one of *)
(* these at most, that a call that was not made is in none, and that the   *)
(* worker has nothing left when it is dead or its bridge closed.           *)
(***************************************************************************)
Reply(r)      == {<<"answer", r>>, <<"error", r>>}
Lined(s, r)   == \E i \in 1..Len(s) : s[i] \in Reply(r)
Spoken(s, r)  == \E i \in 1..Len(s) : s[i] = <<"answer", r>>
Unrepeated(s) == \A r \in AllCalls : \A i, j \in 1..Len(s) :
                    s[i] \in Reply(r) /\ s[j] \in Reply(r) => i = j

Whereabouts(r) ==
    /\ r \in stdin => r \notin working
    /\ r \in stdin \cup working => ~Lined(stdout, r) /\ future[r] # "result"
    /\ Lined(stdout, r) => future[r] # "result"
    /\ call[r] = "new" => /\ r \notin stdin \cup working
                          /\ ~Lined(stdout, r) /\ future[r] # "result"

Placed ==
    /\ \A r \in AllCalls : Whereabouts(r)
    /\ Unrepeated(stdout)
    /\ working \subseteq Calls
    /\ proc \in {"none", "dead"} \/ closed => stdin = {} /\ working = {}

LEMMA Appended ==
    ASSUME NEW s \in Seq(Line), NEW x \in Line
    PROVE  /\ Len(Append(s, x)) = Len(s) + 1 /\ Len(s) \in Nat
           /\ \A i \in 1..Len(s) : Append(s, x)[i] = s[i]
           /\ Append(s, x)[Len(s) + 1] = x
OBVIOUS

LEMMA Tailed ==
    ASSUME NEW s \in Seq(Line), s # << >>
    PROVE  /\ Len(Tail(s)) = Len(s) - 1 /\ Len(s) \in Nat \ {0}
           /\ \A i \in 1..Len(s) - 1 : Tail(s)[i] = s[i + 1]
           /\ Head(s) = s[1]
OBVIOUS

(* Another line at the end. *)
LEMMA AppendTells ==
    ASSUME NEW s \in Seq(Line), NEW x \in Line, NEW r
    PROVE  /\ Lined(Append(s, x), r) <=> Lined(s, r) \/ x \in Reply(r)
           /\ Spoken(Append(s, x), r) <=> Spoken(s, r) \/ x = <<"answer", r>>
<1> DEFINE t == Append(s, x)
<1>1. /\ Len(t) = Len(s) + 1 /\ Len(s) \in Nat
      /\ \A i \in 1..Len(s) : t[i] = s[i]
      /\ t[Len(s) + 1] = x
  BY Appended
<1> HIDE DEF t
<1>2. 1..Len(t) = (1..Len(s)) \cup {Len(s) + 1}
  BY <1>1
<1>3. Lined(t, r) <=> Lined(s, r) \/ x \in Reply(r)
  BY <1>1, <1>2 DEF Lined
<1>4. Spoken(t, r) <=> Spoken(s, r) \/ x = <<"answer", r>>
  BY <1>1, <1>2 DEF Spoken
<1> QED BY <1>3, <1>4 DEF t

LEMMA AppendUnrepeated ==
    ASSUME NEW s \in Seq(Line), NEW x \in Line, Unrepeated(s),
           \A r \in AllCalls : x \in Reply(r) => ~Lined(s, r)
    PROVE  Unrepeated(Append(s, x))
<1> DEFINE t == Append(s, x)
<1>1. /\ Len(t) = Len(s) + 1 /\ Len(s) \in Nat
      /\ \A i \in 1..Len(s) : t[i] = s[i]
      /\ t[Len(s) + 1] = x
  BY Appended
<1> HIDE DEF t
<1> SUFFICES ASSUME NEW r \in AllCalls, NEW i \in 1..Len(t), NEW j \in 1..Len(t),
                    t[i] \in Reply(r), t[j] \in Reply(r)
             PROVE  i = j
  BY DEF Unrepeated, t
<1>2. i \in 1..Len(s) \/ i = Len(s) + 1
  BY <1>1
<1>3. j \in 1..Len(s) \/ j = Len(s) + 1
  BY <1>1
<1> QED BY <1>1, <1>2, <1>3 DEF Unrepeated, Lined

(* The first line is gone. *)
LEMMA TailTells ==
    ASSUME NEW s \in Seq(Line), s # << >>, NEW r
    PROVE  /\ Lined(Tail(s), r) => Lined(s, r)
           /\ Spoken(Tail(s), r) => Spoken(s, r)
           /\ Head(s) = <<"answer", r>> => Spoken(s, r)
           /\ Head(s) \in Reply(r) => Lined(s, r)
<1> DEFINE t == Tail(s)
<1>1. /\ Len(t) = Len(s) - 1 /\ Len(s) \in Nat \ {0}
      /\ \A i \in 1..Len(s) - 1 : t[i] = s[i + 1]
      /\ Head(s) = s[1]
  BY Tailed
<1> HIDE DEF t
<1>2. \A i \in 1..Len(t) : i + 1 \in 1..Len(s) /\ t[i] = s[i + 1]
  BY <1>1
<1>3. Lined(t, r) => Lined(s, r)
  BY <1>2 DEF Lined
<1>4. Spoken(t, r) => Spoken(s, r)
  BY <1>2 DEF Spoken
<1>5. 1 \in 1..Len(s)
  BY <1>1
<1> QED BY <1>1, <1>3, <1>4, <1>5 DEF Lined, Spoken, t

LEMMA TailUnrepeated ==
    ASSUME NEW s \in Seq(Line), s # << >>, Unrepeated(s)
    PROVE  /\ Unrepeated(Tail(s))
           /\ \A r \in AllCalls : Head(s) \in Reply(r) => ~Lined(Tail(s), r)
<1> DEFINE t == Tail(s)
<1>1. /\ Len(t) = Len(s) - 1 /\ Len(s) \in Nat \ {0}
      /\ \A i \in 1..Len(s) - 1 : t[i] = s[i + 1]
      /\ Head(s) = s[1]
  BY Tailed
<1> HIDE DEF t
<1>2. \A i \in 1..Len(t) : i \in Nat \ {0} /\ i + 1 \in 1..Len(s) /\ t[i] = s[i + 1]
  BY <1>1
<1>3. ASSUME NEW r \in AllCalls, NEW i \in 1..Len(t), NEW j \in 1..Len(t),
             t[i] \in Reply(r), t[j] \in Reply(r)
      PROVE  i = j
  <2>1. i + 1 = j + 1
    BY <1>2, <1>3 DEF Unrepeated
  <2> QED BY <1>2, <2>1
<1>4. ASSUME NEW r \in AllCalls, Head(s) \in Reply(r), Lined(t, r) PROVE FALSE
  <2>1. PICK i \in 1..Len(t) : t[i] \in Reply(r)
    BY <1>4 DEF Lined
  <2>2. 1 \in 1..Len(s) /\ s[1] \in Reply(r)
    BY <1>1, <1>4
  <2>3. i + 1 = 1
    BY <1>2, <2>1, <2>2 DEF Unrepeated
  <2> QED BY <1>2, <2>3
<1> QED BY <1>3, <1>4 DEF Unrepeated, t

LEMMA EmptyTells ==
    /\ Unrepeated(<< >>) /\ \A r : ~Lined(<< >>, r)
    /\ \A r : ~Spoken(<< >>, r)
BY DEF Unrepeated, Lined, Spoken

LEMMA PlacedInit == BridgeInit => Placed
BY EmptyTells DEF BridgeInit, Placed, Whereabouts

(***************************************************************************)
(* Every step keeps it.  Most steps bring no call to a new place.          *)
(***************************************************************************)
LEMMA PlacedKept ==
    ASSUME IpcInv, Placed, stdin' \subseteq stdin, working' \subseteq working,
           \/ stdout' = stdout
           \/ stdout' = << >>
           \/ stdout # << >> /\ stdout' = Tail(stdout),
           \A r \in AllCalls : future'[r] = "result" => future[r] = "result",
           \A r \in AllCalls : call'[r] = "new" => call[r] = "new",
           proc' \in {"none", "dead"} \/ closed' => stdin' = {} /\ working' = {}
    PROVE  Placed'
<1>1. stdout \in Seq(Line)
  BY DEF IpcInv, BridgeTypeOK
<1>2. /\ Unrepeated(stdout)'
      /\ \A r \in AllCalls : Lined(stdout, r)' => Lined(stdout, r)
  BY <1>1, TailTells, TailUnrepeated, EmptyTells DEF Placed, Unrepeated, Lined
<1>3. \A r \in AllCalls : Whereabouts(r)'
  BY <1>2 DEF Placed, Whereabouts
<1> QED BY <1>2, <1>3 DEF Placed

LEMMA PlacedWrites ==
    ASSUME IpcInv, Placed, NEW r \in AllCalls, Writes(r), closed' = closed
    PROVE  Placed'
<1> USE DEF Writes
<1>1. CASE Unwritten(r, "refused") \/ Unwritten(r, "failed") \/ LineLost(r)
  <2>1. stdin' = stdin /\ working' = working /\ stdout' = stdout /\ future' = future /\ proc' = proc
    BY <1>1 DEF Unwritten, LineLost
  <2>2. \A q \in AllCalls : call'[q] = "new" => call[q] = "new"
    BY <1>1 DEF Unwritten, LineLost, IpcInv, BridgeTypeOK
  <2>3. proc' \in {"none", "dead"} \/ closed' => stdin' = {} /\ working' = {}
    BY <2>1 DEF Placed
  <2> QED BY <2>1, <2>2, <2>3, PlacedKept
<1>2. CASE Available /\ proc # "dead" /\ LineWritten(r)
  <2>1. /\ stdin' = stdin \cup {r} /\ working' = working /\ stdout' = stdout
        /\ future' = future /\ proc' = proc /\ proc \notin {"none", "dead"} /\ ~closed
        /\ call[r] = "new" /\ call'[r] # "new"
        /\ \A q \in AllCalls : q # r => call'[q] = call[q]
    BY <1>2 DEF LineWritten, Available, IpcInv, BridgeTypeOK
  <2>2. \A q \in AllCalls : Lined(stdout, q)' <=> Lined(stdout, q)
    BY <2>1 DEF Lined
  <2>3. \A q \in AllCalls : Whereabouts(q)'
    BY <2>1, <2>2 DEF Placed, Whereabouts
  <2>4. Unrepeated(stdout)'
    BY <2>1 DEF Placed, Unrepeated
  <2> QED BY <2>1, <2>3, <2>4 DEF Placed
<1> QED BY <1>1, <1>2

(* The worker reads its lines and answers them. *)
LEMMA PlacedReads ==
    ASSUME IpcInv, Placed, WorkerReads
    PROVE  Placed'
<1> USE DEF WorkerReads, WorkerKeeps, books, life
<1>1. PICK r \in stdin : /\ stdin' = stdin \ {r}
                         /\ IF r \in Calls
                              THEN working' = working \cup {r} /\ UNCHANGED stdout
                              ELSE stdout' = Prints("answer", r) /\ UNCHANGED working
  OBVIOUS
<1>2. /\ r \in AllCalls /\ stdout \in Seq(Line) /\ <<"answer", r>> \in Line
      /\ future' = future /\ call' = call /\ proc' = proc /\ closed' = closed
      /\ proc \notin {"none", "dead"}
  BY DEF IpcInv, BridgeTypeOK, Line
<1>3. r \notin working /\ ~Lined(stdout, r) /\ future[r] # "result" /\ call[r] # "new" /\ ~closed
  BY <1>1, <1>2 DEF Placed, Whereabouts
<1>4. CASE r \in Calls
  <2>1. stdout' = stdout /\ working' = working \cup {r}
    BY <1>1, <1>4
  <2>2. \A q \in AllCalls : Lined(stdout, q)' <=> Lined(stdout, q)
    BY <2>1 DEF Lined
  <2>3. \A q \in AllCalls : Whereabouts(q)'
    BY <1>1, <1>2, <1>3, <2>1, <2>2 DEF Placed, Whereabouts
  <2> QED BY <1>2, <1>3, <1>4, <2>1, <2>3 DEF Placed, Unrepeated
<1>5. CASE r \notin Calls /\ reader = "ended"
  <2>1. stdout' = stdout /\ working' = working
    BY <1>1, <1>2, <1>5, PrintedLine
  <2> QED BY <1>1, <1>2, <2>1, PlacedKept DEF Placed
<1>6. CASE r \notin Calls /\ reader # "ended"
  <2>1. stdout' = Append(stdout, <<"answer", r>>) /\ working' = working
    BY <1>1, <1>2, <1>6, PrintedLine
  <2>2. \A q \in AllCalls : Lined(stdout, q)' <=> Lined(stdout, q) \/ q = r
    BY <1>2, <2>1, AppendTells DEF Reply, Lined
  <2>3. \A q \in AllCalls : Whereabouts(q)'
    BY <1>1, <1>2, <1>3, <2>1, <2>2 DEF Placed, Whereabouts
  <2>4. Unrepeated(stdout)'
    BY <1>2, <1>3, <2>1, AppendUnrepeated DEF Placed, Reply, Unrepeated
  <2> QED BY <1>2, <1>3, <2>1, <2>3, <2>4 DEF Placed
<1> QED BY <1>4, <1>5, <1>6

LEMMA PlacedAnswers ==
    ASSUME IpcInv, Placed, WorkerAnswers
    PROVE  Placed'
<1> USE DEF WorkerAnswers, WorkerKeeps, books, life
<1>1. PICK r \in working, kind \in {"answer", "error"} :
           working' = working \ {r} /\ stdout' = Prints(kind, r)
  OBVIOUS
<1>2. /\ r \in AllCalls /\ stdout \in Seq(Line) /\ <<kind, r>> \in Line
      /\ future' = future /\ call' = call /\ proc' = proc /\ closed' = closed /\ stdin' = stdin
      /\ proc \notin {"none", "dead"}
  BY DEF IpcInv, BridgeTypeOK, Line
<1>3. r \notin stdin /\ ~Lined(stdout, r) /\ future[r] # "result" /\ call[r] # "new" /\ ~closed
  BY <1>1, <1>2 DEF Placed, Whereabouts
<1>4. CASE reader = "ended"
  <2>1. stdout' = stdout
    BY <1>1, <1>2, <1>4, PrintedLine
  <2> QED BY <1>1, <1>2, <2>1, PlacedKept DEF Placed
<1>5. CASE reader # "ended"
  <2>1. stdout' = Append(stdout, <<kind, r>>)
    BY <1>1, <1>2, <1>5, PrintedLine
  <2>2. \A q \in AllCalls : Lined(stdout, q)' <=> Lined(stdout, q) \/ q = r
    BY <1>1, <1>2, <2>1, AppendTells DEF Reply, Lined
  <2>3. \A q \in AllCalls : Whereabouts(q)'
    BY <1>1, <1>2, <1>3, <2>1, <2>2 DEF Placed, Whereabouts
  <2>4. Unrepeated(stdout)'
    BY <1>1, <1>2, <1>3, <2>1, AppendUnrepeated DEF Placed, Reply, Unrepeated
  <2> QED BY <1>1, <1>2, <1>3, <2>3, <2>4 DEF Placed
<1> QED BY <1>4, <1>5

(* A capability call is no answer. *)
LEMMA CapabilityIsNone ==
    ASSUME IpcInv, NEW k \in Caps, stdout' = Prints("capability", k)
    PROVE  /\ \A q \in AllCalls : Lined(stdout, q)' <=> Lined(stdout, q)
           /\ \A q \in AllCalls : Spoken(stdout, q)' <=> Spoken(stdout, q)
           /\ Unrepeated(stdout) => Unrepeated(stdout)'
<1>1. stdout \in Seq(Line) /\ <<"capability", k>> \in Line
  BY DEF IpcInv, BridgeTypeOK, Line
<1>2. \A q \in AllCalls : /\ <<"capability", k>> \notin Reply(q)
                          /\ <<"capability", k>> # <<"answer", q>>
  BY DEF Reply
<1>6. \A q \in AllCalls : /\ Lined(stdout', q) <=> Lined(stdout, q)
                          /\ Spoken(stdout', q) <=> Spoken(stdout, q)
  <2>1. CASE reader = "ended"
    <3>1. stdout' = stdout
      BY <1>1, <2>1, PrintedLine
    <3> QED BY <3>1
  <2>2. CASE reader # "ended"
    <3> DEFINE s == Append(stdout, <<"capability", k>>)
    <3>1. stdout' = s
      BY <1>1, <2>2, PrintedLine
    <3>2. \A q \in AllCalls : /\ Lined(s, q) <=> Lined(stdout, q)
                              /\ Spoken(s, q) <=> Spoken(stdout, q)
      BY <1>1, <1>2, AppendTells
    <3> HIDE DEF s
    <3> QED BY <3>1, <3>2
  <2> QED BY <2>1, <2>2
<1>3. \A q \in AllCalls : Lined(stdout, q)' <=> Lined(stdout, q)
  BY <1>6 DEF Lined
<1>4. \A q \in AllCalls : Spoken(stdout, q)' <=> Spoken(stdout, q)
  BY <1>6 DEF Spoken
<1>5. Unrepeated(stdout) => Unrepeated(stdout)'
  <2>1. CASE reader = "ended"
    BY <1>1, <2>1, PrintedLine DEF Unrepeated
  <2>2. CASE reader # "ended"
    <3>1. stdout' = Append(stdout, <<"capability", k>>)
      BY <1>1, <2>2, PrintedLine
    <3> QED BY <1>1, <1>2, <3>1, AppendUnrepeated DEF Unrepeated
  <2> QED BY <2>1, <2>2
<1> QED BY <1>3, <1>4, <1>5

LEMMA PlacedWorker ==
    ASSUME IpcInv, Placed, WorkerStep
    PROVE  Placed'
<1> USE DEF WorkerKeeps, books, life, served
<1>1. CASE WorkerCalls
  <2>1. PICK k \in Caps : stdout' = Prints("capability", k)
    BY <1>1 DEF WorkerCalls
  <2>2. /\ stdin' = stdin /\ working' = working /\ future' = future /\ call' = call
        /\ proc' = proc /\ closed' = closed
    BY <1>1 DEF WorkerCalls
  <2>3. \A q \in AllCalls : Whereabouts(q)'
    BY <2>1, <2>2, CapabilityIsNone DEF Placed, Whereabouts
  <2> QED BY <2>1, <2>2, <2>3, CapabilityIsNone DEF Placed
<1>2. CASE WorkerHangs \/ WorkerReaped
  <2>1. /\ stdin' = stdin /\ working' = working /\ stdout' = stdout /\ future' = future
        /\ call' = call /\ closed' = closed
        /\ proc' \in {"none", "dead"} => proc \in {"none", "dead"}
    BY <1>2 DEF WorkerHangs, WorkerReaped
  <2> QED BY <2>1, PlacedKept DEF Placed
<1>3. CASE WorkerDies
  <2>1. /\ stdin' = {} /\ working' = {} /\ stdout' = stdout /\ future' = future /\ call' = call
    BY <1>3 DEF WorkerDies
  <2> QED BY <2>1, PlacedKept
<1> QED BY <1>1, <1>2, <1>3, PlacedReads, PlacedAnswers DEF WorkerStep

(* The read loop. *)
LEMMA PlacedReader ==
    ASSUME IpcInv, Placed, ReaderStep
    PROVE  Placed'
<1> USE DEF worker, life
<1>1. CASE ReaderEnds
  <2>1. /\ stdin' = stdin /\ working' = working /\ stdout' = stdout /\ call' = call
        /\ proc' = proc /\ closed' = closed
    BY <1>1 DEF ReaderEnds
  <2>2. \A r \in AllCalls : future'[r] = "result" => future[r] = "result"
    BY <1>1 DEF ReaderEnds, TellsPending
  <2> QED BY <2>1, <2>2, PlacedKept DEF Placed
<1>2. CASE ReaderReads
  <2>1. /\ stdout \in Seq(Line) /\ stdout # << >> /\ stdout' = Tail(stdout)
        /\ Head(stdout) \in Line
        /\ stdin' = stdin /\ working' = working /\ call' = call /\ proc' = proc /\ closed' = closed
    BY <1>2 DEF ReaderReads, IpcInv, BridgeTypeOK
  <2>2. CASE Head(stdout)[1] = "capability"
    <3>1. future' = future
      BY <1>2, <2>2 DEF ReaderReads
    <3> QED BY <2>1, <3>1, PlacedKept DEF Placed
  <2>3. CASE Head(stdout)[1] # "capability"
    <3>1. PICK kind \in {"answer", "error"}, x \in AllCalls : Head(stdout) = <<kind, x>>
      BY <2>1, <2>3 DEF Line
    <3>2. Delivers(kind, x)
      BY <1>2, <2>3, <3>1 DEF ReaderReads
    <3>3. Lined(stdout, x) /\ ~Lined(stdout, x)' /\ Unrepeated(stdout)'
      <4>1. Head(stdout) \in Reply(x)
        BY <3>1 DEF Reply
      <4>2. Unrepeated(stdout)
        BY DEF Placed
      <4>3. Lined(stdout, x)
        BY <2>1, <4>1, TailTells
      <4>4. ~Lined(Tail(stdout), x) /\ Unrepeated(Tail(stdout))
        BY <2>1, <3>1, <4>1, <4>2, TailUnrepeated
      <4>5. ~Lined(stdout, x)' /\ Unrepeated(stdout)'
        BY <2>1, <4>4 DEF Lined, Unrepeated
      <4> QED BY <4>3, <4>5
    <3>4. \A q \in AllCalls : Lined(stdout, q)' => Lined(stdout, q)
      BY <2>1, TailTells DEF Lined
    <3>5. call[x] # "new" /\ x \notin stdin \cup working
      BY <3>1, <3>3 DEF Placed, Whereabouts
    <3>6. \A q \in AllCalls : q # x => future'[q] = future[q]
      BY <3>2 DEF Delivers, IpcInv, BridgeTypeOK
    <3>7. \A q \in AllCalls : Whereabouts(q)'
      <4>1. Whereabouts(x)'
        BY <2>1, <3>1, <3>3, <3>5 DEF Whereabouts
      <4>2. ASSUME NEW q \in AllCalls, q # x PROVE Whereabouts(q)'
        <5>1. Whereabouts(q) /\ future'[q] = future[q] /\ (Lined(stdout, q)' => Lined(stdout, q))
          BY <3>4, <3>6, <4>2 DEF Placed
        <5> QED BY <2>1, <5>1 DEF Whereabouts
      <4> QED BY <4>1, <4>2
    <3> QED BY <2>1, <3>3, <3>7 DEF Placed
  <2> QED BY <2>2, <2>3
<1>3. CASE ReaderFails
  <2>1. /\ stdin' = stdin /\ working' = working /\ stdout' = << >> /\ call' = call
        /\ proc' = proc /\ closed' = closed
    BY <1>3 DEF ReaderFails
  <2>2. \A r \in AllCalls : future'[r] = "result" => future[r] = "result"
    BY <1>3 DEF ReaderFails, TellsPending
  <2> QED BY <2>1, <2>2, PlacedKept DEF Placed
<1> QED BY <1>1, <1>2, <1>3 DEF ReaderStep

(* The end of a bridge, and everything else. *)
LEMMA PlacedCloses ==
    ASSUME IpcInv, Placed, Closes, UNCHANGED call,
           stdin' = {}, working' = {}
    PROVE  Placed'
<1>1. stdout' = stdout \/ stdout' = << >>
  BY DEF Closes, JoinsReader
<1>2. \A r \in AllCalls : future'[r] = "result" => future[r] = "result"
  BY DEF Closes, JoinsReader, TellsPending
<1> QED BY <1>1, <1>2, PlacedKept

LEMMA PlacedStops ==
    ASSUME IpcInv, Placed, BeginStop \/ StopStep
    PROVE  Placed'
<1>1. CASE BeginStop /\ proc # "none" /\ ~reaped
  BY <1>1, PlacedWrites DEF BeginStop
<1>2. CASE BeginStop /\ ~(proc # "none" /\ ~reaped)
  <2>1. stdin = {} /\ working = {}
    BY <1>2 DEF IpcInv, Stages, Placed
  <2> QED BY <1>2, <2>1, PlacedCloses DEF BeginStop
<1>3. CASE Terminates
  <2>1. /\ stdin' = stdin /\ working' = working /\ stdout' = stdout /\ future' = future
        /\ call' = call /\ closed' = closed /\ proc' = proc
    BY <1>3 DEF Terminates, worker, books
  <2> QED BY <2>1, PlacedKept DEF Placed
<1>4. CASE StopCloses
  BY <1>4, PlacedCloses DEF StopCloses, WorkerKilled
<1>5. CASE StopEnds
  <2>1. /\ stdin' = stdin /\ working' = working /\ stdout' = << >> /\ proc' = proc
        /\ call' = call /\ closed' = closed
    BY <1>5 DEF StopEnds, JoinsReader
  <2>2. \A r \in AllCalls : future'[r] = "result" => future[r] = "result"
    BY <1>5 DEF StopEnds, JoinsReader, TellsPending
  <2> QED BY <2>1, <2>2, PlacedKept DEF Placed
<1> QED BY <1>1, <1>2, <1>3, <1>4, <1>5 DEF StopStep

LEMMA PlacedLeaves ==
    ASSUME IpcInv, Placed, NEW r \in AllCalls, NEW how \in Over, Leaves(r, how)
    PROVE  Placed'
<1>1. /\ stdin' = stdin /\ working' = working /\ stdout' = stdout /\ proc' = proc
      /\ closed' = closed
  BY DEF Leaves, worker, life
<1>2. /\ \A q \in AllCalls : future'[q] = "result" => future[q] = "result"
      /\ \A q \in AllCalls : call'[q] = "new" => call[q] = "new"
  BY DEF Leaves, IpcInv, BridgeTypeOK
<1> QED BY <1>1, <1>2, PlacedKept DEF Placed

LEMMA PlacedStarts ==
    ASSUME IpcInv, Placed, BeginStart \/ SpawnFails \/ Started \/ Spawned
    PROVE  Placed'
<1> USE DEF worker, books, served
<1>1. CASE BeginStart \/ SpawnFails \/ Started
  <2>1. /\ stdin' = stdin /\ working' = working /\ stdout' = stdout /\ future' = future
        /\ call' = call /\ closed' = closed /\ proc' = proc
    BY <1>1 DEF BeginStart, SpawnFails, Started
  <2> QED BY <2>1, PlacedKept DEF Placed
<1>2. CASE Spawned /\ closed
  <2>1. /\ stdin' = stdin /\ working' = working /\ stdout' = stdout /\ future' = future
        /\ closed' = closed
    BY <1>2 DEF Spawned
  <2>2. \A q \in AllCalls : call'[q] = "new" => call[q] = "new"
    BY <1>2 DEF Spawned, IpcInv, BridgeTypeOK
  <2>3. stdin = {} /\ working = {}
    BY <1>2 DEF Placed
  <2> QED BY <2>1, <2>2, <2>3, PlacedKept
<1>3. CASE Spawned /\ ~closed
  <2>1. /\ stdin' = stdin \cup {Ping} /\ working' = working /\ stdout' = stdout
        /\ future' = future /\ proc' = "running" /\ ~closed'
        /\ call[Ping] = "new" /\ call'[Ping] = "waiting" /\ proc = "none"
        /\ \A q \in AllCalls : q # Ping => call'[q] = call[q]
    BY <1>3 DEF Spawned, IpcInv, BridgeTypeOK, Stages
  <2>2. \A q \in AllCalls : Lined(stdout, q)' <=> Lined(stdout, q)
    BY <2>1 DEF Lined
  <2>3. \A q \in AllCalls : Whereabouts(q)'
    BY <2>1, <2>2 DEF Placed, Whereabouts
  <2> QED BY <2>1, <2>3 DEF Placed, Unrepeated
<1> QED BY <1>1, <1>2, <1>3

LEMMA PlacedCalls ==
    ASSUME IpcInv, Placed, NEW r \in AllCalls, CallStep(r) \/ Abandons(r)
    PROVE  Placed'
<1>1. CASE Drains(r)
  <2>1. /\ stdin' = stdin /\ working' = working /\ stdout' = stdout /\ future' = future
        /\ closed' = closed /\ proc' = proc
    BY <1>1 DEF Drains, worker, life
  <2>2. \A q \in AllCalls : call'[q] = "new" => call[q] = "new"
    BY <1>1 DEF Drains, IpcInv, BridgeTypeOK
  <2> QED BY <2>1, <2>2, PlacedKept DEF Placed
<1>2. CASE DrainFails(r) \/ Answered(r) \/ Fails(r) \/ TimesOut(r) \/ Abandons(r)
  BY <1>2, PlacedLeaves DEF DrainFails, Answered, Fails, TimesOut, Abandons
<1> QED BY <1>1, <1>2 DEF CallStep

LEMMA PlacedStep == IpcInv /\ Placed /\ [BridgeNext]_bridge => Placed'
<1> SUFFICES ASSUME IpcInv, Placed, [BridgeNext]_bridge PROVE Placed'
  OBVIOUS
<1>1. CASE BeginStart \/ SpawnFails \/ Spawned \/ Started
  BY <1>1, PlacedStarts
<1>2. CASE WorkerStep
  BY <1>2, PlacedWorker
<1>3. CASE ReaderStep
  BY <1>3, PlacedReader
<1>4. CASE BeginStop \/ StopStep
  BY <1>4, PlacedStops
<1>5. ASSUME (\E k \in Caps : CapabilityEnds(k)) \/ UNCHANGED bridge PROVE Placed'
  <2>1. /\ stdin' = stdin /\ working' = working /\ stdout' = stdout /\ future' = future
        /\ call' = call /\ closed' = closed /\ proc' = proc
    BY <1>5 DEF CapabilityEnds, bridge, worker, books, life
  <2> QED BY <2>1, PlacedKept DEF Placed
<1>6. ASSUME NEW r \in AllCalls, CallStep(r) \/ Abandons(r) PROVE Placed'
  BY <1>6, PlacedCalls
<1>7. ASSUME NEW r \in Calls, Request(r) PROVE Placed'
  BY <1>7, PlacedWrites DEF Request, life
<1> QED BY <1>1, <1>2, <1>3, <1>4, <1>5, <1>6, <1>7 DEF BridgeNext, BridgeStep

(***************************************************************************)
(* The steps of RemoteCalls, as changes of Known and Work.                 *)
(***************************************************************************)
LEMMA WorkIs ==
    ASSUME NEW r
    PROVE  /\ HasAnswer(r) <=> future[r] = "result" \/ Spoken(stdout, r)
           /\ r \in stdin => Work(r) = "sent"
           /\ r \notin stdin /\ r \in working => Work(r) = "running"
           /\ r \notin stdin \cup working /\ HasAnswer(r) => Work(r) = "done"
           /\ r \notin stdin \cup working /\ ~HasAnswer(r) => Work(r) = "none"
<1>1. HasAnswer(r) <=> future[r] = "result" \/ Spoken(stdout, r)
  BY DEF HasAnswer, Spoken
<1>2. /\ r \in stdin => Work(r) = "sent"
      /\ r \notin stdin /\ r \in working => Work(r) = "running"
  BY DEF Work
<1>3. r \notin stdin \cup working => Work(r) = IF HasAnswer(r) THEN "done" ELSE "none"
  BY DEF Work
<1> QED BY <1>1, <1>2, <1>3

LEMMA WorkOf ==
    ASSUME NEW r, r \in stdin' <=> r \in stdin, r \in working' <=> r \in working,
           HasAnswer(r)' => HasAnswer(r)
    PROVE  Work(r)' \in {Work(r), "none"}
BY DEF Work

LEMMA MapsLose ==
    ASSUME \A r \in AllCalls : Known(r)' = Known(r), closed' = closed,
           \A r \in AllCalls : Work(r)' \in {Work(r), "none"}
    PROVE  Promise!Lose
<1> DEFINE S == {r \in AllCalls : Work(r)' = "none"}
<1>1. [r \in AllCalls |-> Known(r)]' = [r \in AllCalls |-> Known(r)]
  OBVIOUS
<1>2. [r \in AllCalls |-> Work(r)]'
         = [r \in AllCalls |-> IF r \in S THEN "none" ELSE [q \in AllCalls |-> Work(q)][r]]
  OBVIOUS
<1>3. S \in SUBSET AllCalls
  OBVIOUS
<1> HIDE DEF S
<1> QED BY <1>1, <1>2, <1>3 DEF Promise!Lose, Promise!Without, Promise!AllCalls

LEMMA MapsClose ==
    ASSUME \A r \in AllCalls : Known(r)' = Known(r), ~closed, closed' = TRUE,
           \A r \in AllCalls : Work(r)' \in {Work(r), "none"},
           \A r \in AllCalls : Work(r)' \notin {"sent", "running"}
    PROVE  Promise!Close
<1> DEFINE S == {r \in AllCalls : Work(r)' = "none"}
<1>1. [r \in AllCalls |-> Known(r)]' = [r \in AllCalls |-> Known(r)]
  OBVIOUS
<1>2. [r \in AllCalls |-> Work(r)]'
         = [r \in AllCalls |-> IF r \in S THEN "none" ELSE [q \in AllCalls |-> Work(q)][r]]
  OBVIOUS
<1>3. S \in SUBSET AllCalls
  OBVIOUS
<1>4. {r \in AllCalls : [q \in AllCalls |-> Work(q)][r] \in {"sent", "running"}} \subseteq S
  OBVIOUS
<1> HIDE DEF S
<1> QED BY <1>1, <1>2, <1>3, <1>4 DEF Promise!Close, Promise!Without, Promise!AllCalls

\* One call moves, the others stay where they are.
OnlyMoves(r) == \A q \in AllCalls : q # r => Known(q)' = Known(q) /\ Work(q)' = Work(q)

LEMMA MapsOne ==
    ASSUME NEW r \in AllCalls, OnlyMoves(r), NEW k, NEW w, Known(r)' = k, Work(r)' = w
    PROVE  /\ [q \in AllCalls |-> Known(q)]' = [[q \in AllCalls |-> Known(q)] EXCEPT ![r] = k]
           /\ [q \in AllCalls |-> Work(q)]' = [[q \in AllCalls |-> Work(q)] EXCEPT ![r] = w]
           /\ k = Known(r) => [q \in AllCalls |-> Known(q)]' = [q \in AllCalls |-> Known(q)]
           /\ w = Work(r) => [q \in AllCalls |-> Work(q)]' = [q \in AllCalls |-> Work(q)]
BY DEF OnlyMoves

LEMMA MapsAsk ==
    ASSUME NEW r \in AllCalls, OnlyMoves(r), Known(r) = "new", Known(r)' = "asked",
           Work(r)' \in {Work(r), "sent"}, ~closed, closed' = closed
    PROVE  Promise!Ask(r)
BY MapsOne DEF Promise!Ask, Promise!AllCalls

LEMMA MapsRefuse ==
    ASSUME NEW r \in AllCalls, OnlyMoves(r), Known(r) = "new",
           Known(r)' \in {"refused", "failed"}, Work(r)' = Work(r), closed' = closed
    PROVE  Promise!Refuse(r)
BY MapsOne DEF Promise!Refuse, Promise!AllCalls

LEMMA MapsCarryOut ==
    ASSUME NEW r \in Calls, OnlyMoves(r), Known(r)' = Known(r), Work(r) = "sent",
           Work(r)' = "running", closed' = closed
    PROVE  Promise!CarryOut(r)
BY MapsOne DEF Promise!CarryOut, Promise!AllCalls

LEMMA MapsFinish ==
    ASSUME NEW r \in AllCalls, OnlyMoves(r), Known(r)' = Known(r),
           Work(r) = IF r \in {Ping, Shutdown} THEN "sent" ELSE "running",
           Work(r)' = "done", closed' = closed
    PROVE  Promise!Finish(r)
BY MapsOne DEF Promise!Finish, Promise!AllCalls

LEMMA MapsAnswer ==
    ASSUME NEW r \in AllCalls, OnlyMoves(r), Known(r) = "asked", Known(r)' = "answered",
           Work(r) = "done", Work(r)' = "none", closed' = closed
    PROVE  Promise!Answer(r)
BY MapsOne DEF Promise!Answer, Promise!AllCalls

LEMMA MapsGiveUp ==
    ASSUME NEW r \in AllCalls, OnlyMoves(r), Known(r) = "asked",
           Known(r)' \in {"failed", "cancelled"}, Work(r)' \in {Work(r), "none"},
           closed' = closed
    PROVE  Promise!GiveUp(r)
BY MapsOne DEF Promise!GiveUp, Promise!AllCalls

(***************************************************************************)
(* Every step of the bridge is one of these.                               *)
(***************************************************************************)
\* What reaches no caller and leaves the worker's work alone, or ends all of it.
LEMMA LosesAnswers ==
    ASSUME closed' = closed, \A r \in AllCalls : Known(r)' = Known(r),
           stdin' = stdin, working' = working,
           \A r \in AllCalls : HasAnswer(r)' => HasAnswer(r)
    PROVE  Promise!Lose
<1>1. \A r \in AllCalls : Work(r)' \in {Work(r), "none"}
  BY WorkOf
<1> QED BY <1>1, MapsLose

LEMMA WorkEnds ==
    ASSUME Placed, stdin' = {}, working' = {},
           \A r \in AllCalls : HasAnswer(r)' => HasAnswer(r)
    PROVE  \A r \in AllCalls : Work(r)' \in {Work(r), "none"} /\ Work(r)' \notin {"sent", "running"}
<1> SUFFICES ASSUME NEW r \in AllCalls
             PROVE  Work(r)' \in {Work(r), "none"} /\ Work(r)' \notin {"sent", "running"}
  OBVIOUS
<1>1. Work(r)' = IF HasAnswer(r)' THEN "done" ELSE "none"
  BY DEF Work
<1>2. CASE r \in stdin \cup working
  <2>1. ~HasAnswer(r)
    BY <1>2 DEF Placed, Whereabouts, HasAnswer, Lined, Reply
  <2> QED BY <1>1, <2>1
<1>3. CASE r \notin stdin \cup working
  BY <1>1, <1>3, WorkOf
<1> QED BY <1>2, <1>3

LEMMA MapsWrites ==
    ASSUME IpcInv, Placed, NEW r \in AllCalls, Writes(r), closed' = closed
    PROVE  Promise!Ask(r) \/ Promise!Refuse(r)
<1>1. /\ call[r] = "new" /\ Known(r) = "new" /\ Work(r) = "none"
      /\ r \notin stdin \cup working /\ ~HasAnswer(r)
  <2>1. /\ call[r] = "new" /\ r \notin stdin \cup working
        /\ ~Lined(stdout, r) /\ future[r] # "result"
    BY DEF Writes, Placed, Whereabouts
  <2>2. ~HasAnswer(r)
    BY <2>1 DEF HasAnswer, Lined, Reply
  <2> QED BY <2>1, <2>2, WorkIs DEF Known
<1>2. /\ working' = working /\ stdout' = stdout /\ future' = future
      /\ \A q \in AllCalls : HasAnswer(q)' <=> HasAnswer(q)
  BY DEF Writes, HasAnswer
<1>3. \A q \in AllCalls : q # r => Known(q)' = Known(q)
  BY DEF Writes, Unwritten, LineLost, LineWritten, Known, IpcInv, BridgeTypeOK
<1>4. CASE Unwritten(r, "refused") \/ Unwritten(r, "failed")
  <2>1. Known(r)' \in {"refused", "failed"}
    BY <1>4 DEF Unwritten, Known, IpcInv, BridgeTypeOK
  <2>2. stdin' = stdin
    BY <1>4 DEF Unwritten
  <2>3. \A q \in AllCalls : Work(q)' = Work(q)
    BY <1>2, <2>2 DEF Work
  <2> QED BY <1>1, <1>3, <2>1, <2>3, MapsRefuse DEF OnlyMoves
<1>5. CASE Available /\ LineLost(r)
  <2>1. Known(r)' = "asked" /\ stdin' = stdin /\ ~closed
    BY <1>5 DEF LineLost, Known, Available, IpcInv, BridgeTypeOK
  <2>2. \A q \in AllCalls : Work(q)' = Work(q)
    BY <1>2, <2>1 DEF Work
  <2> QED BY <1>1, <1>3, <2>1, <2>2, MapsAsk DEF OnlyMoves
<1>6. CASE Available /\ LineWritten(r)
  <2>1. Known(r)' = "asked" /\ stdin' = stdin \cup {r} /\ ~closed
    BY <1>6 DEF LineWritten, Known, Available, IpcInv, BridgeTypeOK
  <2>2. \A q \in AllCalls : q # r => Work(q)' = Work(q)
    BY <1>2, <2>1 DEF Work
  <2>3. Work(r)' = "sent"
    BY <2>1 DEF Work
  <2> QED BY <1>1, <1>3, <2>1, <2>2, <2>3, MapsAsk DEF OnlyMoves
<1> QED BY <1>4, <1>5, <1>6 DEF Writes

(* A caller leaves. *)
LEMMA MapsLeaves ==
    ASSUME IpcInv, Placed, NEW r \in AllCalls, NEW how \in Over, call[r] \in InFlight,
           Leaves(r, how)
    PROVE  /\ OnlyMoves(r) /\ Known(r) = "asked" /\ Known(r)' = how /\ closed' = closed
           /\ Work(r)' \in {Work(r), "none"}
           /\ future[r] = "result" => Work(r) = "done" /\ Work(r)' = "none"
<1>1. /\ stdin' = stdin /\ working' = working /\ stdout' = stdout /\ closed' = closed
      /\ future'[r] = "open" /\ \A q \in AllCalls : q # r => future'[q] = future[q]
      /\ call'[r] = how /\ \A q \in AllCalls : q # r => call'[q] = call[q]
  BY DEF Leaves, worker, life, IpcInv, BridgeTypeOK
<1>2. \A q \in AllCalls : q # r => (HasAnswer(q)' <=> HasAnswer(q))
  BY <1>1 DEF HasAnswer
<1>3. HasAnswer(r)' => HasAnswer(r)
  BY <1>1 DEF HasAnswer
<1>4. OnlyMoves(r)
  <2>1. ASSUME NEW q \in AllCalls, q # r PROVE Known(q)' = Known(q) /\ Work(q)' = Work(q)
    BY <1>1, <1>2, <2>1 DEF Known, Work
  <2> QED BY <2>1 DEF OnlyMoves
<1>5. Known(r) = "asked" /\ Known(r)' = how
  BY <1>1 DEF Known
<1>6. Work(r)' \in {Work(r), "none"}
  BY <1>1, <1>3, WorkOf
<1>7. ASSUME future[r] = "result" PROVE Work(r) = "done" /\ Work(r)' = "none"
  <2>1. r \notin stdin \cup working /\ ~Lined(stdout, r)
    BY <1>7 DEF Placed, Whereabouts
  <2>2. HasAnswer(r) /\ ~HasAnswer(r)'
    BY <1>1, <1>7, <2>1 DEF HasAnswer, Lined, Reply
  <2>3. Work(r) = "done"
    BY <2>1, <2>2 DEF Work
  <2>4. Work(r)' = "none"
    BY <1>1, <2>1, <2>2 DEF Work
  <2> QED BY <2>3, <2>4
<1> QED BY <1>1, <1>4, <1>5, <1>6, <1>7

LEMMA MapsCall ==
    ASSUME IpcInv, Placed, NEW r \in AllCalls, CallStep(r) \/ Abandons(r)
    PROVE  Promise!Lose \/ Promise!Answer(r) \/ Promise!GiveUp(r)
<1>1. CASE Drains(r)
  <2>1. /\ stdin' = stdin /\ working' = working /\ stdout' = stdout /\ future' = future
        /\ closed' = closed
    BY <1>1 DEF Drains, worker, life
  <2>2. \A q \in AllCalls : Known(q)' = Known(q)
    BY <1>1 DEF Drains, Known, IpcInv, BridgeTypeOK
  <2>3. \A q \in AllCalls : HasAnswer(q)' => HasAnswer(q)
    BY <2>1 DEF HasAnswer
  <2> QED BY <2>1, <2>2, <2>3, LosesAnswers
<1>2. CASE Answered(r)
  BY <1>2, MapsLeaves, MapsAnswer DEF Answered
<1>3. CASE DrainFails(r) \/ Fails(r) \/ TimesOut(r)
  BY <1>3, MapsLeaves, MapsGiveUp DEF DrainFails, Fails, TimesOut
<1>4. CASE Abandons(r)
  BY <1>4, MapsLeaves, MapsGiveUp DEF Abandons
<1> QED BY <1>1, <1>2, <1>3, <1>4 DEF CallStep

(* The worker. *)
LEMMA MapsReads ==
    ASSUME IpcInv, Placed, WorkerReads
    PROVE  Promise!Lose \/ \E r \in AllCalls : Promise!CarryOut(r) \/ Promise!Finish(r)
<1> USE DEF WorkerReads, WorkerKeeps, books, life
<1>1. PICK r \in stdin : /\ stdin' = stdin \ {r}
                         /\ IF r \in Calls
                              THEN working' = working \cup {r} /\ UNCHANGED stdout
                              ELSE stdout' = Prints("answer", r) /\ UNCHANGED working
  OBVIOUS
<1>2. /\ r \in AllCalls /\ stdout \in Seq(Line) /\ <<"answer", r>> \in Line
      /\ future' = future /\ call' = call /\ closed' = closed
  BY DEF IpcInv, BridgeTypeOK, Line
<1>3. Work(r) = "sent" /\ r \notin working
  BY <1>1, <1>2 DEF Work, Placed, Whereabouts
<1>4. \A q \in AllCalls : Known(q)' = Known(q)
  BY <1>2 DEF Known
<1>5. CASE r \in Calls
  <2>1. stdout' = stdout /\ working' = working \cup {r}
    BY <1>1, <1>5
  <2>2. \A q \in AllCalls : q # r => Work(q)' = Work(q)
    BY <1>1, <1>2, <2>1 DEF Work, HasAnswer
  <2>3. Work(r)' = "running"
    BY <1>1, <2>1 DEF Work
  <2> QED BY <1>2, <1>3, <1>4, <1>5, <2>2, <2>3, MapsCarryOut DEF OnlyMoves
<1>6. CASE r \notin Calls /\ reader = "ended"
  <2>1. stdout' = stdout /\ working' = working
    BY <1>1, <1>2, <1>6, PrintedLine
  <2>2. ~HasAnswer(r) /\ \A q \in AllCalls : HasAnswer(q)' <=> HasAnswer(q)
    BY <1>1, <1>2, <2>1 DEF HasAnswer, Placed, Whereabouts, Lined, Reply
  <2>3. \A q \in AllCalls : q # r => Work(q)' = Work(q)
    BY <1>1, <2>1, <2>2 DEF Work
  <2>4. Work(r)' = "none"
    BY <1>1, <1>2, <1>3, <2>1, <2>2 DEF Work
  <2> QED BY <1>2, <1>4, <2>3, <2>4, MapsLose
<1>7. CASE r \notin Calls /\ reader # "ended"
  <2>1. stdout' = Append(stdout, <<"answer", r>>) /\ working' = working
    BY <1>1, <1>2, <1>7, PrintedLine
  <2>2. \A q \in AllCalls : HasAnswer(q)' <=> HasAnswer(q) \/ q = r
    <3>1. \A q \in AllCalls : Spoken(stdout', q) <=> Spoken(stdout, q) \/ q = r
      BY <1>2, <2>1, AppendTells
    <3>2. \A q \in AllCalls : /\ HasAnswer(q) <=> future[q] = "result" \/ Spoken(stdout, q)
                              /\ HasAnswer(q)' <=> future'[q] = "result" \/ Spoken(stdout', q)
      BY DEF HasAnswer, Spoken
    <3> QED BY <1>2, <3>1, <3>2
  <2>3. \A q \in AllCalls : q # r => Work(q)' = Work(q)
    BY <1>1, <1>2, <2>1, <2>2 DEF Work
  <2>4. Work(r)' = "done"
    BY <1>1, <1>2, <1>3, <2>1, <2>2 DEF Work
  <2>5. Work(r) = IF r \in {Ping, Shutdown} THEN "sent" ELSE "running"
    BY <1>2, <1>3, <1>7
  <2> QED BY <1>2, <1>4, <2>3, <2>4, <2>5, MapsFinish DEF OnlyMoves
<1> QED BY <1>5, <1>6, <1>7

LEMMA MapsAnswers ==
    ASSUME IpcInv, Placed, WorkerAnswers
    PROVE  Promise!Lose \/ \E r \in AllCalls : Promise!Finish(r)
<1> USE DEF WorkerAnswers, WorkerKeeps, books, life
<1>1. PICK r \in working, kind \in {"answer", "error"} :
           working' = working \ {r} /\ stdout' = Prints(kind, r)
  OBVIOUS
<1>2. /\ r \in AllCalls /\ stdout \in Seq(Line) /\ <<kind, r>> \in Line
      /\ future' = future /\ call' = call /\ closed' = closed /\ stdin' = stdin
  BY DEF IpcInv, BridgeTypeOK, Line
<1>3. Work(r) = "running" /\ r \notin stdin /\ ~HasAnswer(r) /\ r \notin {Ping, Shutdown}
  <2>1. r \notin stdin /\ ~Lined(stdout, r) /\ future[r] # "result" /\ r \in Calls
    BY <1>1, <1>2 DEF Placed, Whereabouts
  <2>2. ~HasAnswer(r)
    BY <2>1 DEF HasAnswer, Lined, Reply
  <2>3. Work(r) = "running"
    BY <1>1, <2>1 DEF Work
  <2> QED BY <2>1, <2>2, <2>3
<1>4. \A q \in AllCalls : Known(q)' = Known(q)
  BY <1>2 DEF Known
<1>5. CASE reader = "ended"
  <2>1. stdout' = stdout
    BY <1>1, <1>2, <1>5, PrintedLine
  <2>2. \A q \in AllCalls : HasAnswer(q)' <=> HasAnswer(q)
    BY <1>2, <2>1 DEF HasAnswer
  <2>3. \A q \in AllCalls : q # r => Work(q)' = Work(q)
    BY <1>1, <1>2, <2>2 DEF Work
  <2>4. Work(r)' = "none"
    BY <1>1, <1>2, <1>3, <2>2 DEF Work
  <2> QED BY <1>2, <1>4, <2>3, <2>4, MapsLose
<1>6. CASE reader # "ended"
  <2>1. stdout' = Append(stdout, <<kind, r>>)
    BY <1>1, <1>2, <1>6, PrintedLine
  <2>2. \A q \in AllCalls : HasAnswer(q)' <=> HasAnswer(q) \/ <<kind, r>> = <<"answer", q>>
    <3>1. \A q \in AllCalls :
             Spoken(stdout', q) <=> Spoken(stdout, q) \/ <<kind, r>> = <<"answer", q>>
      BY <1>2, <2>1, AppendTells
    <3>2. \A q \in AllCalls : /\ HasAnswer(q) <=> future[q] = "result" \/ Spoken(stdout, q)
                              /\ HasAnswer(q)' <=> future'[q] = "result" \/ Spoken(stdout', q)
      BY DEF HasAnswer, Spoken
    <3> QED BY <1>2, <3>1, <3>2
  <2>3. \A q \in AllCalls : q # r => Work(q)' = Work(q)
    BY <1>1, <1>2, <2>2 DEF Work
  <2>4. CASE kind = "answer"
    <3>1. Work(r)' = "done"
      BY <1>1, <1>2, <1>3, <2>2, <2>4 DEF Work
    <3>2. Work(r) = IF r \in {Ping, Shutdown} THEN "sent" ELSE "running"
      BY <1>3
    <3> QED BY <1>2, <1>4, <2>3, <3>1, <3>2, MapsFinish DEF OnlyMoves
  <2>5. CASE kind = "error"
    <3>1. ~HasAnswer(r)'
      BY <1>2, <1>3, <2>2, <2>5
    <3>2. Work(r)' = "none"
      BY <1>1, <1>2, <1>3, <3>1 DEF Work
    <3> QED BY <1>2, <1>4, <2>3, <3>2, MapsLose
  <2> QED BY <2>4, <2>5
<1> QED BY <1>5, <1>6

LEMMA MapsWorker ==
    ASSUME IpcInv, Placed, WorkerStep
    PROVE  Promise!Next
<1> USE DEF WorkerKeeps, books, life, served
<1>1. CASE WorkerCalls
  <2>1. PICK k \in Caps : stdout' = Prints("capability", k)
    BY <1>1 DEF WorkerCalls
  <2>2. stdin' = stdin /\ working' = working /\ future' = future /\ call' = call /\ closed' = closed
    BY <1>1 DEF WorkerCalls
  <2>3. \A q \in AllCalls : HasAnswer(q)' => HasAnswer(q)
    BY <2>1, <2>2, CapabilityIsNone DEF HasAnswer, Spoken
  <2>4. \A q \in AllCalls : Known(q)' = Known(q)
    BY <2>2 DEF Known
  <2> QED BY <2>2, <2>3, <2>4, LosesAnswers DEF Promise!Next
<1>2. CASE WorkerHangs \/ WorkerReaped
  <2>1. /\ stdin' = stdin /\ working' = working /\ stdout' = stdout /\ future' = future
        /\ call' = call /\ closed' = closed
    BY <1>2 DEF WorkerHangs, WorkerReaped
  <2>2. \A q \in AllCalls : Known(q)' = Known(q) /\ (HasAnswer(q)' => HasAnswer(q))
    BY <2>1 DEF Known, HasAnswer
  <2> QED BY <2>1, <2>2, LosesAnswers DEF Promise!Next
<1>3. CASE WorkerDies
  <2>1. /\ stdin' = {} /\ working' = {} /\ stdout' = stdout /\ future' = future /\ call' = call
        /\ closed' = closed
    BY <1>3 DEF WorkerDies
  <2>2. \A q \in AllCalls : Known(q)' = Known(q) /\ (HasAnswer(q)' => HasAnswer(q))
    BY <2>1 DEF Known, HasAnswer
  <2> QED BY <2>1, <2>2, WorkEnds, MapsLose DEF Promise!Next
<1>4. CASE WorkerReads
  BY <1>4, MapsReads DEF Promise!Next, Promise!AllCalls
<1>5. CASE WorkerAnswers
  BY <1>5, MapsAnswers DEF Promise!Next, Promise!AllCalls
<1> QED BY <1>1, <1>2, <1>3, <1>4, <1>5 DEF WorkerStep

(* The read loop: what it reads was said, and what was said is not repeated. *)
LEMMA MapsReader ==
    ASSUME IpcInv, Placed, ReaderStep
    PROVE  Promise!Lose
<1> USE DEF worker, life
<1>1. CASE ReaderEnds
  <2>1. /\ stdin' = stdin /\ working' = working /\ stdout' = stdout /\ call' = call
        /\ closed' = closed
    BY <1>1 DEF ReaderEnds
  <2>2. \A r \in AllCalls : future'[r] = "result" => future[r] = "result"
    BY <1>1 DEF ReaderEnds, TellsPending
  <2>3. \A r \in AllCalls : Known(r)' = Known(r) /\ (HasAnswer(r)' => HasAnswer(r))
    BY <2>1, <2>2 DEF Known, HasAnswer
  <2> QED BY <2>1, <2>3, LosesAnswers
<1>2. CASE ReaderReads
  <2>1. /\ stdout \in Seq(Line) /\ stdout # << >> /\ stdout' = Tail(stdout)
        /\ Head(stdout) \in Line
        /\ stdin' = stdin /\ working' = working /\ call' = call /\ closed' = closed
    BY <1>2 DEF ReaderReads, IpcInv, BridgeTypeOK
  <2>2. ASSUME NEW r \in AllCalls, future'[r] = "result"
        PROVE  future[r] = "result" \/ Head(stdout) = <<"answer", r>>
    <3>1. CASE Head(stdout)[1] = "capability"
      BY <1>2, <2>2, <3>1 DEF ReaderReads
    <3>2. CASE Head(stdout)[1] # "capability"
      <4>1. PICK kind \in {"answer", "error"}, x \in AllCalls : Head(stdout) = <<kind, x>>
        BY <2>1, <3>2 DEF Line
      <4>2. Delivers(kind, x)
        BY <1>2, <3>2, <4>1 DEF ReaderReads
      <4> QED BY <2>2, <4>1, <4>2 DEF Delivers, IpcInv, BridgeTypeOK
    <3> QED BY <3>1, <3>2
  <2>3. \A r \in AllCalls : HasAnswer(r)' => HasAnswer(r)
    BY <2>1, <2>2, TailTells DEF HasAnswer, Spoken
  <2>4. \A r \in AllCalls : Known(r)' = Known(r)
    BY <2>1 DEF Known
  <2> QED BY <2>1, <2>3, <2>4, LosesAnswers
<1>3. CASE ReaderFails
  <2>1. /\ stdin' = stdin /\ working' = working /\ stdout' = << >> /\ call' = call
        /\ closed' = closed
    BY <1>3 DEF ReaderFails
  <2>2. \A r \in AllCalls : future'[r] = "result" => future[r] = "result"
    BY <1>3 DEF ReaderFails, TellsPending
  <2>3. \A r \in AllCalls : Known(r)' = Known(r) /\ (HasAnswer(r)' => HasAnswer(r))
    BY <2>1, <2>2, EmptyTells DEF Known, HasAnswer, Spoken
  <2> QED BY <2>1, <2>3, LosesAnswers
<1> QED BY <1>1, <1>2, <1>3 DEF ReaderStep

(* stop() and start(). *)
LEMMA MapsCloses ==
    ASSUME IpcInv, Placed, Closes, ~closed, call' = call, stdin' = {}, working' = {}
    PROVE  Promise!Close
<1>1. stdout' = stdout \/ stdout' = << >>
  BY DEF Closes, JoinsReader
<1>2. \A r \in AllCalls : future'[r] = "result" => future[r] = "result"
  BY DEF Closes, JoinsReader, TellsPending
<1>3. \A r \in AllCalls : HasAnswer(r)' => HasAnswer(r)
  BY <1>1, <1>2, EmptyTells DEF HasAnswer, Spoken
<1>4. \A r \in AllCalls : Known(r)' = Known(r)
  BY DEF Known
<1>5. closed' = TRUE
  BY DEF Closes
<1> QED BY <1>3, <1>4, <1>5, WorkEnds, MapsClose

LEMMA MapsStops ==
    ASSUME IpcInv, Placed, BeginStop \/ StopStep
    PROVE  Promise!Next
<1> USE DEF Promise!Next, Promise!AllCalls
<1>1. CASE BeginStop /\ proc # "none" /\ ~reaped
  BY <1>1, MapsWrites DEF BeginStop
<1>2. CASE BeginStop /\ ~(proc # "none" /\ ~reaped)
  <2>1. stdin = {} /\ working = {} /\ ~closed
    BY <1>2 DEF IpcInv, Stages, Placed, BeginStop
  <2> QED BY <1>2, <2>1, MapsCloses DEF BeginStop
<1>3. CASE Terminates
  <2>1. /\ stdin' = stdin /\ working' = working /\ stdout' = stdout /\ future' = future
        /\ call' = call /\ closed' = closed
    BY <1>3 DEF Terminates, worker, books
  <2>2. \A q \in AllCalls : Known(q)' = Known(q) /\ (HasAnswer(q)' => HasAnswer(q))
    BY <2>1 DEF Known, HasAnswer
  <2> QED BY <2>1, <2>2, LosesAnswers
<1>4. CASE StopCloses
  <2>1. ~closed
    BY <1>4 DEF StopCloses, IpcInv, Stages
  <2> QED BY <1>4, <2>1, MapsCloses DEF StopCloses, WorkerKilled
<1>5. CASE StopEnds
  <2>1. /\ stdin' = stdin /\ working' = working /\ stdout' = << >>
        /\ call' = call /\ closed' = closed
    BY <1>5 DEF StopEnds, JoinsReader
  <2>2. \A r \in AllCalls : future'[r] = "result" => future[r] = "result"
    BY <1>5 DEF StopEnds, JoinsReader, TellsPending
  <2>3. \A r \in AllCalls : Known(r)' = Known(r) /\ (HasAnswer(r)' => HasAnswer(r))
    BY <2>1, <2>2, EmptyTells DEF Known, HasAnswer, Spoken
  <2> QED BY <2>1, <2>3, LosesAnswers
<1> QED BY <1>1, <1>2, <1>3, <1>4, <1>5 DEF StopStep

LEMMA MapsStarts ==
    ASSUME IpcInv, Placed, BeginStart \/ SpawnFails \/ Started \/ Spawned
    PROVE  Promise!Next
<1> USE DEF worker, books, served, Promise!Next, Promise!AllCalls
<1>1. CASE BeginStart \/ SpawnFails \/ Started
  <2>1. /\ stdin' = stdin /\ working' = working /\ stdout' = stdout /\ future' = future
        /\ call' = call /\ closed' = closed
    BY <1>1 DEF BeginStart, SpawnFails, Started
  <2>2. \A q \in AllCalls : Known(q)' = Known(q) /\ (HasAnswer(q)' => HasAnswer(q))
    BY <2>1 DEF Known, HasAnswer
  <2> QED BY <2>1, <2>2, LosesAnswers
<1>2. CASE Spawned
  <2>1. /\ working' = working /\ stdout' = stdout /\ future' = future /\ closed' = closed
        /\ call[Ping] = "new"
        /\ call' = [call EXCEPT ![Ping] = IF closed THEN "refused" ELSE "waiting"]
        /\ stdin' = IF closed THEN stdin ELSE stdin \cup {Ping}
    BY <1>2 DEF Spawned, IpcInv, Stages
  <2>2. \A q \in AllCalls : HasAnswer(q)' <=> HasAnswer(q)
    BY <2>1 DEF HasAnswer
  <2>3. \A q \in AllCalls : q # Ping => Known(q)' = Known(q) /\ Work(q)' = Work(q)
    BY <2>1, <2>2 DEF Known, Work, IpcInv, BridgeTypeOK
  <2>4. /\ Known(Ping) = "new" /\ Known(Ping)' = IF closed THEN "refused" ELSE "asked"
        /\ Work(Ping)' = IF closed THEN Work(Ping) ELSE "sent"
    BY <2>1, <2>2 DEF Known, Work, IpcInv, BridgeTypeOK
  <2>5. CASE closed
    BY <2>1, <2>3, <2>4, <2>5, MapsRefuse DEF OnlyMoves
  <2>6. CASE ~closed
    BY <2>1, <2>3, <2>4, <2>6, MapsAsk DEF OnlyMoves
  <2> QED BY <2>5, <2>6
<1> QED BY <1>1, <1>2

LEMMA BridgeSimulates ==
    ASSUME IpcInv, Placed, BridgeNext
    PROVE  Promise!Next
<1>1. CASE BeginStart \/ SpawnFails \/ Spawned \/ Started
  BY <1>1, MapsStarts
<1>2. CASE WorkerStep
  BY <1>2, MapsWorker
<1>3. CASE ReaderStep
  BY <1>3, MapsReader DEF Promise!Next
<1>4. CASE BeginStop \/ StopStep
  BY <1>4, MapsStops
<1>5. ASSUME NEW k \in Caps, CapabilityEnds(k) PROVE Promise!Next
  <2>1. /\ stdin' = stdin /\ working' = working /\ stdout' = stdout /\ future' = future
        /\ call' = call /\ closed' = closed
    BY <1>5 DEF CapabilityEnds, worker, books, life
  <2>2. \A q \in AllCalls : Known(q)' = Known(q) /\ (HasAnswer(q)' => HasAnswer(q))
    BY <2>1 DEF Known, HasAnswer
  <2> QED BY <2>1, <2>2, LosesAnswers DEF Promise!Next
<1>6. ASSUME NEW r \in AllCalls, CallStep(r) \/ Abandons(r) PROVE Promise!Next
  BY <1>6, MapsCall DEF Promise!Next, Promise!AllCalls
<1>7. ASSUME NEW r \in Calls, Request(r) PROVE Promise!Next
  BY <1>7, MapsWrites DEF Request, life, Promise!Next, Promise!AllCalls
<1> QED BY <1>1, <1>2, <1>3, <1>4, <1>5, <1>6, <1>7 DEF BridgeNext, BridgeStep

(* For any calls, any backlog and whatever the worker does: a handler is   *)
(* carried out at most once for each call and never after the bridge was   *)
(* closed, and no caller is given another's answer.                        *)
THEOREM CallsRefinement == BridgeSpec => ImplementsCalls
<1>1. BridgeInit => Promise!Init
  <2> SUFFICES ASSUME BridgeInit PROVE Promise!Init
    OBVIOUS
  <2>1. \A r \in AllCalls : Known(r) = "new"
    BY DEF BridgeInit, Known
  <2>2. \A r \in AllCalls : ~HasAnswer(r)
    BY EmptyTells DEF BridgeInit, HasAnswer, Spoken
  <2>3. \A r \in AllCalls : Work(r) = "none"
    BY <2>2 DEF BridgeInit, Work
  <2> QED BY <2>1, <2>3 DEF BridgeInit, Promise!Init, Promise!AllCalls
<1>2. IpcInv /\ Placed /\ [BridgeNext]_bridge => [Promise!Next]_(Promise!vars)
  <2>1. ASSUME UNCHANGED bridge PROVE UNCHANGED Promise!vars
    <3>1. /\ stdin' = stdin /\ working' = working /\ stdout' = stdout /\ future' = future
          /\ call' = call /\ closed' = closed
      BY <2>1 DEF bridge, worker, books, life
    <3>2. \A q \in AllCalls : Known(q)' = Known(q) /\ (HasAnswer(q)' <=> HasAnswer(q))
      BY <3>1 DEF Known, HasAnswer
    <3>3. \A q \in AllCalls : Work(q)' = Work(q)
      BY <3>1, <3>2 DEF Work
    <3> QED BY <3>1, <3>2, <3>3 DEF Promise!vars
  <2> QED BY <2>1, BridgeSimulates
<1> QED BY <1>1, <1>2, PlacedInit, PlacedStep, IpcInvariance, PTL
     DEF BridgeSpec, ImplementsCalls, Promise!Spec
=============================================================================
