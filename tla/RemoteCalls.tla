---------------------------- MODULE RemoteCalls ----------------------------
(***************************************************************************)
(* What the bridge to a plugin's process promises those who call through   *)
(* it, without pipes, futures, the read loop or the worker's life: a call  *)
(* is asked once, carried out once at most, and answered only with what    *)
(* came of it; the answer to a call that was given up goes to nobody; and  *)
(* nothing is asked or carried out after the bridge was closed.            *)
(***************************************************************************)
CONSTANTS Handlers,  \* calls of the plugin's handlers
          Own        \* calls that the worker answers by itself

VARIABLES call,      \* what the caller knows of each call
          work,      \* what has become of it on the other side
          closed     \* the plugin is being unloaded
vars == <<call, work, closed>>

AllCalls == Handlers \cup Own

Init == /\ call = [r \in AllCalls |-> "new"]
        /\ work = [r \in AllCalls |-> "none"]
        /\ closed = FALSE

\* The line may be lost on its way to a worker that has died.
Ask(r) == /\ call[r] = "new" /\ ~closed
          /\ call' = [call EXCEPT ![r] = "asked"]
          /\ work' \in {work, [work EXCEPT ![r] = "sent"]}
          /\ UNCHANGED closed

Refuse(r) == /\ call[r] = "new"
             /\ \E how \in {"refused", "failed"} : call' = [call EXCEPT ![r] = how]
             /\ UNCHANGED <<work, closed>>

CarryOut(r) == /\ work[r] = "sent" /\ r \in Handlers
               /\ work' = [work EXCEPT ![r] = "running"]
               /\ UNCHANGED <<call, closed>>

Finish(r) == /\ work[r] = IF r \in Own THEN "sent" ELSE "running"
             /\ work' = [work EXCEPT ![r] = "done"]
             /\ UNCHANGED <<call, closed>>

Answer(r) == /\ call[r] = "asked" /\ work[r] = "done"
             /\ call' = [call EXCEPT ![r] = "answered"]
             /\ work' = [work EXCEPT ![r] = "none"]
             /\ UNCHANGED closed

\* The caller waits no longer; the other side may not know it.
GiveUp(r) == /\ call[r] = "asked"
             /\ \E how \in {"failed", "cancelled"} : call' = [call EXCEPT ![r] = how]
             /\ work' \in {work, [work EXCEPT ![r] = "none"]}
             /\ UNCHANGED closed

Without(S) == [r \in AllCalls |-> IF r \in S THEN "none" ELSE work[r]]

\* A handler raises, the worker dies, or an answer finds nobody waiting.
Lose == /\ \E S \in SUBSET AllCalls : work' = Without(S)
        /\ UNCHANGED <<call, closed>>

\* Answers that are there already may still arrive.
Close == /\ ~closed /\ closed' = TRUE
         /\ \E S \in SUBSET AllCalls :
               /\ {r \in AllCalls : work[r] \in {"sent", "running"}} \subseteq S
               /\ work' = Without(S)
         /\ UNCHANGED call

Next == \/ Lose \/ Close
        \/ \E r \in AllCalls : \/ Ask(r) \/ Refuse(r) \/ CarryOut(r) \/ Finish(r)
                               \/ Answer(r) \/ GiveUp(r)

Spec == Init /\ [][Next]_vars
=============================================================================
