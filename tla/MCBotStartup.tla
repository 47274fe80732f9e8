---------------------------- MODULE MCBotStartup ----------------------------
(* The loops and the number of workers of main.py, one plugin task that   *)
(* ends, and one export; the queue has room for all of them, as 256 has.   *)
EXTENDS BotStartup

CONSTANTS plugin, backup, metrics, reenable, prune, export

MCBoot == <<plugin, backup, metrics, reenable, prune>>
MCJobs == {plugin, backup, metrics, reenable, prune, export}
MCNameOf == [j \in MCJobs |-> j]
MCEndless == {backup, metrics, reenable, prune}
=============================================================================
