--------------------------- MODULE MCConsoleState ---------------------------
(***************************************************************************)
(* What the console keeps besides its jobs, for TLC: the scheduler, the    *)
(* file of the schedules, the probe cache and the hub of a running job.    *)
(* They do not share state here, so a behaviour is about one of them: part *)
(* says which.                                                             *)
(***************************************************************************)
EXTENDS Scheduler, ScheduleFile, ProbeCache, SseHub, TLC

CONSTANTS r1, r2

VARIABLE part

\* Every minute, and every other minute.
TwoExprs == {0..MaxTime, {t \in 0..MaxTime : t % 2 = 0}}

TwoEditors == {r1, r2}

\* Requests have their numbers in the order in which they begin.
InOrder == \A r, s \in Requests : r < s /\ pc[s] # "new" => pc[r] # "new"

\* At most one request is dropped.
OneGone == Cardinality({r \in Requests : pc[r] = "gone"}) <= 1

StateInit ==
    /\ part \in {"scheduler", "schedules", "probes", "hub"}
    /\ SchedInit /\ FileInit /\ ProbeInit /\ HubInit

\* Only the console of the first minute is stopped.
OneRestart == boot' = Never => boot \in {0, Never}

StateNext ==
    \/ part = "scheduler" /\ SchedNext /\ OneRestart /\ UNCHANGED <<fileVars, probeVars, hubVars>>
    \/ part = "schedules" /\ FileNext /\ UNCHANGED <<schedVars, probeVars, hubVars>>
    \/ /\ part = "probes" /\ ProbeNext /\ InOrder' /\ OneGone'
       /\ UNCHANGED <<schedVars, fileVars, hubVars>>
    \/ part = "hub" /\ HubNext /\ UNCHANGED <<schedVars, fileVars, probeVars>>

stateVars == <<schedVars, fileVars, probeVars, hubVars, part>>

StateSpec == StateInit /\ [][StateNext /\ UNCHANGED part]_stateVars
=============================================================================
