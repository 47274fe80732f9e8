------------------------------ MODULE JobPool ------------------------------
(***************************************************************************)
(* What BackgroundWorker promises its callers, without the queue, the      *)
(* blocked submitters or the _active table: an accepted job waits, runs at *)
(* most once in one of a fixed number of slots, and is over; a job is      *)
(* refused only while another job of the same name occupies a slot.  Once  *)
(* stopped, the pool has nothing running, and will never run anything.     *)
(***************************************************************************)
CONSTANTS Jobs,      \* the coroutines handed to submit()
          NameOf,    \* NameOf[j]: the name submit() is given for j
          Slots,     \* one per worker
          NoJob

VARIABLES state, slot, stopped
vars == <<state, slot, stopped>>

Occupied(name) == \E s \in Slots : slot[s] # NoJob /\ NameOf[slot[s]] = name

Init == /\ state = [j \in Jobs |-> "new"]
        /\ slot = [s \in Slots |-> NoJob]
        /\ stopped = FALSE

Accept(j) == /\ state[j] = "new"
             /\ state' = [state EXCEPT ![j] = "accepted"]
             /\ UNCHANGED <<slot, stopped>>

Refuse(j) == /\ state[j] = "new"
             /\ Occupied(NameOf[j])
             /\ state' = [state EXCEPT ![j] = "refused"]
             /\ UNCHANGED <<slot, stopped>>

Run(s, j) == /\ state[j] = "accepted"
             /\ slot[s] = NoJob /\ ~stopped
             /\ state' = [state EXCEPT ![j] = "running"]
             /\ slot' = [slot EXCEPT ![s] = j]
             /\ UNCHANGED stopped

Finish(s) == /\ slot[s] # NoJob
             /\ state' = [state EXCEPT ![slot[s]] = "over"]
             /\ slot' = [slot EXCEPT ![s] = NoJob]
             /\ UNCHANGED stopped

\* What was accepted and has not run will not be run.
Stop == /\ ~stopped /\ \A s \in Slots : slot[s] = NoJob
        /\ stopped' = TRUE
        /\ UNCHANGED <<state, slot>>

Next == \/ \E j \in Jobs : Accept(j) \/ Refuse(j)
        \/ \E s \in Slots, j \in Jobs : Run(s, j)
        \/ \E s \in Slots : Finish(s)
        \/ Stop

Spec == Init /\ [][Next]_vars
=============================================================================
