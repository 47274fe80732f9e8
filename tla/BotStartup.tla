----------------------------- MODULE BotStartup -----------------------------
(***************************************************************************)
(* main.py: run() starts the pool, submits the plugins' background tasks   *)
(* and its own four maintenance loops one after the other, serves the web  *)
(* application, whose routers submit exports and adapter restarts, and     *)
(* stops the pool on the way out.                                          *)
(***************************************************************************)
EXTENDS BackgroundWorker

CONSTANTS BootJobs,   \* what run() submits before it serves, in its order
          Requests    \* what the routers may submit while it serves

VARIABLE booted       \* how many of BootJobs run() has submitted

bootVars == <<vars, booted>>

BootInit == Init /\ booted = 0

\* run() awaits each submit() before it makes the next one.
Boot == LET j == BootJobs[booted + 1] IN
        /\ booted < Len(BootJobs)
        /\ \/ (SkipDuplicate(j) \/ Enqueue(j) \/ Unblock(j)) /\ booted' = booted + 1
           \/ Block(j) /\ UNCHANGED booted

Serving == booted = Len(BootJobs)

Request == /\ Serving
           /\ \E j \in Requests : Submit(j)
           /\ UNCHANGED booted

Shutdown == /\ Serving
            /\ StopBegin
            /\ UNCHANGED booted

PoolStep == /\ \/ Start
               \/ \E w \in Workers : WorkerStep(w)
               \/ StopEnd
            /\ UNCHANGED booted

BootNext == Boot \/ Request \/ Shutdown \/ PoolStep

BootSpec == /\ BootInit
            /\ [][BootNext]_bootVars
            /\ Fairness
            /\ WF_bootVars(Boot)
-----------------------------------------------------------------------------
\* A background export that was accepted ends while the bot stays up (docs/FAQ.md:112:
\* the job runs and its file can be downloaded from the export centre).
ExportEnds == \A j \in Requests :
    stage[j] = "queued" ~> (stage[j] = "over" \/ phase # "up")
=============================================================================
