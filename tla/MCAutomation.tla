---------------------------- MODULE MCAutomation ----------------------------
(* A rule for every event with an interval, so that it feeds itself; two    *)
(* rules for lost connections without one, of which the second is yet to be *)
(* added and takes the name of the first of all.                            *)
EXTENDS Automation

MCRules     == {"any", "lost", "again"}
MCNameOf    == [any |-> "alarm", lost |-> "lost", again |-> "alarm"]
MCSaved     == {"any", "lost"}
MCEventOf   == [any |-> "*", lost |-> "adapter_disconnected", again |-> "adapter_disconnected"]
MCDebounced == {"any"}
MCTriggerOf == <<"alert", "webhook">>
=============================================================================
