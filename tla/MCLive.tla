------------------------------- MODULE MCLive --------------------------------
(***************************************************************************)
(* What must happen in the end, for TLC: the jobs of the console are       *)
(* closed, and the live monitor serves its viewers and ends its child. The *)
(* two do not share state, so a behaviour is about one of them: part says  *)
(* which, and fairness is asked of that one.                               *)
(***************************************************************************)
EXTENDS WebJobs, LiveMonitor, TLC

CONSTANTS j1, j2, p1, p2, v1, v2

VARIABLE part

MCJobs == {j1, j2}
MCPids == {p1, p2}
MCViewers == {v1, v2}
NoFaults == {}
MonitorFaults == {"spawn", "exit", "long", "broken"}

LiveInit ==
    /\ part \in {"jobs", "monitor"}
    /\ JobsInit /\ Init

LiveNext ==
    \/ part = "jobs" /\ JobsNext /\ UNCHANGED vars
    \/ part = "monitor" /\ Next /\ UNCHANGED jobsVars

liveVars == <<jobsVars, vars, part>>

\* The conjuncts of JobsFairness and Fairness.
LiveFairness ==
    /\ WF_jobsVars(part = "jobs" /\ Restart)
    /\ \A j \in Jobs : /\ WF_jobsVars(part = "jobs" /\ JobHandler(j))
                       /\ WF_jobsVars(part = "jobs" /\ Canceller(j))
                       /\ WF_jobsVars(part = "jobs" /\ Reattacher(j))
    /\ \A v \in Viewers : WF_vars(part = "monitor" /\ Handler(v))
    /\ \A g \in Children : /\ WF_vars(part = "monitor" /\ Reader(g))
                           /\ WF_vars(part = "monitor" /\ Watcher(g))
                           /\ SF_vars(part = "monitor" /\ Publish(g))

LiveSpec == LiveInit /\ [][LiveNext /\ UNCHANGED part]_liveVars /\ LiveFairness
=============================================================================
