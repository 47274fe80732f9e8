------------------------ MODULE MCBackgroundWorker ------------------------
(* The pool with two workers and a queue of one place; the jobs are two    *)
(* start() calls of one adapter, an export, a plugin job that may be       *)
(* cancelled from outside, and a loop.                                     *)
EXTENDS BackgroundWorker

CONSTANTS s1, s2, export, plugin, loop, adapterName, exportName, pluginName, loopName

MCJobs == {s1, s2, export, plugin, loop}
MCNames == {adapterName, exportName, pluginName, loopName}
MCNameOf == [j \in MCJobs |-> CASE j \in {s1, s2} -> adapterName
                                [] j = export -> exportName
                                [] j = plugin -> pluginName
                                [] j = loop -> loopName]
MCEndless == {loop}
MCFragile == {plugin}
=============================================================================
