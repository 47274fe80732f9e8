---------------------------- MODULE WorkflowRuns ----------------------------
(***************************************************************************)
(* What the workflow engine promises of its rows, without the events, the  *)
(* handlers and their awaits: a run is begun by a workflow that is there,  *)
(* ends once, and its result is final; the engine switches a workflow off  *)
(* only on a judgement that its newest runs all failed, and marks exactly  *)
(* what it switches off itself.                                            *)
(***************************************************************************)
EXTENDS Naturals, Sequences

CONSTANTS Flows, Threshold

VARIABLES flow,    \* rows of the workflows table
          hist,    \* the statuses of each workflow's runs, oldest first
          judged   \* workflows found failing, and about to be switched off
vars == <<flow, hist, judged>>

Init == /\ flow = [f \in Flows |-> [here |-> TRUE, on |-> TRUE, marked |-> FALSE]]
        /\ hist = [f \in Flows |-> <<>>]
        /\ judged = {}

Begin(f) == /\ flow[f].here
            /\ hist' = [hist EXCEPT ![f] = Append(@, "running")]
            /\ UNCHANGED <<flow, judged>>

End(f, i) == /\ hist[f][i] = "running"
             /\ \E result \in {"skipped", "succeeded", "failed"} :
                    hist' = [hist EXCEPT ![f][i] = result]
             /\ UNCHANGED <<flow, judged>>

Failing(f) == /\ Threshold > 0 /\ Len(hist[f]) >= Threshold
              /\ \A i \in Len(hist[f]) - Threshold + 1..Len(hist[f]) : hist[f][i] = "failed"

Judge(f) == /\ Failing(f)
            /\ judged' = judged \cup {f}
            /\ UNCHANGED <<flow, hist>>

\* Several may have judged at the same time.
SwitchOff(f) == /\ f \in judged /\ flow[f].here /\ flow[f].on
                /\ flow' = [flow EXCEPT ![f].on = FALSE, ![f].marked = TRUE]
                /\ judged' \in {judged, judged \ {f}}
                /\ UNCHANGED hist

\* The workflow is off already, or whoever judged is cancelled.
Forget == judged' \in SUBSET judged /\ UNCHANGED <<flow, hist>>

SwitchOn(f) == /\ flow[f].here
               /\ flow' = [flow EXCEPT ![f].on = TRUE, ![f].marked = FALSE]
               /\ UNCHANGED <<hist, judged>>

Redefine(f) == /\ flow[f].here
               /\ flow' = [flow EXCEPT ![f].marked = FALSE]
               /\ UNCHANGED <<hist, judged>>

Delete(f) == /\ flow[f].here
             /\ flow' = [flow EXCEPT ![f] = [here |-> FALSE, on |-> FALSE, marked |-> FALSE]]
             /\ UNCHANGED <<hist, judged>>

Next == \/ Forget
        \/ \E f \in Flows : \/ Begin(f) \/ \E i \in 1..Len(hist[f]) : End(f, i)
                            \/ Judge(f) \/ SwitchOff(f)
                            \/ SwitchOn(f) \/ Redefine(f) \/ Delete(f)

Spec == Init /\ [][Next]_vars
=============================================================================
