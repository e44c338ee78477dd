------------------------------- MODULE WebJobs -------------------------------
(***************************************************************************)
(* The jobs of the web console: how a child process is started, recorded,  *)
(* waited for, cancelled and, after a restart of the console, reattached   *)
(* (src/web/routes/backup.rs, src/web/job/lifecycle.rs,                    *)
(* src/web/job/runner.rs, src/web/reattach.rs, src/web/state/jobs.rs).     *)
(*                                                                         *)
(* All jobs are of one profile.  The history index is one entry per job,   *)
(* folded as JobStore::list folds it; log files, live event streams and    *)
(* the audit log are left out.  A pid is free again as soon as its process *)
(* has been waited for: by the console, if it is the parent, or by init.   *)
(***************************************************************************)
EXTENDS Naturals, FiniteSets

CONSTANTS
    Jobs,        \* job ids
    Pids,        \* process ids
    Nobody,      \* owner of a pid that names no process
    Other,       \* owner of a pid that names an unrelated process
    JobFaults,      \* which of "write", "probe", "scan", "reuse" may happen
    MaxCrashes   \* bound: crashes of the console

ASSUME FaultsAssumption ==
    JobFaults \subseteq {"write", "probe", "scan", "reuse"} /\ MaxCrashes \in Nat
ASSUME OwnersAssumption == Nobody \notin Jobs \cup Pids /\ Other \notin Jobs /\ Nobody # Other

VARIABLES
    os,       \* the process each pid names, and the strongest signal sent to it
    exit,     \* how each job's process really ended
    pid,      \* the pid in each job's start record (or handle, before that)
    index,    \* the folded history: is there a start record, and the last end
    up,       \* is the console running?
    scan,     \* entries the reattach scan has still to look at
    task,     \* the request handler and then the waiter of each job
    cancel,   \* the cancellation of each job
    watch,    \* the orphan watcher of each job
    crashes,  \* crashes so far
    hit,      \* history: jobs for which another process was signalled, and
    reused,   \* jobs whose pid changed hands once verified, by the last cancel
    blind     \* history: jobs closed by a scan that could not ask the OS

jobsVars == <<os, exit, pid, index, up, scan, task, cancel, watch, crashes, hit, reused, blind>>

Owners == Jobs \cup {Nobody, Other}
JobFree == [owner |-> Nobody, state |-> "none", sig |-> "none"]

JobsTypeOK ==
    /\ os \in [Pids -> [owner : Owners, state : {"none", "run", "zombie"},
                        sig : {"none", "term", "kill"}]]
    /\ exit \in [Jobs -> {"none", "ok", "failed", "signaled"}]
    /\ pid \in [Jobs -> Pids \cup {Nobody}]
    /\ index \in [Jobs -> [start : BOOLEAN,
                           end : {"none", "ok", "failed", "signaled", "unknown"}]]
    /\ up \in BOOLEAN
    /\ scan \in SUBSET Jobs
    /\ task \in [Jobs -> {"none", "spawn", "start", "abandon", "reap", "wait",
                          "finish", "done"}]
    /\ cancel \in [Jobs -> {"none", "verify", "term", "grace", "kill", "confirm",
                            "settle-term", "settle-kill", "settle-exited",
                            "end-signaled", "end-unknown"}]
    /\ watch \in [Jobs -> {"none", "poll", "finish"}]
    /\ crashes \in 0..MaxCrashes
    /\ hit \in SUBSET Jobs
    /\ reused \in SUBSET Jobs
    /\ blind \in SUBSET Jobs

JobsInit ==
    /\ os = [p \in Pids |-> JobFree]
    /\ exit = [j \in Jobs |-> "none"]
    /\ pid = [j \in Jobs |-> Nobody]
    /\ index = [j \in Jobs |-> [start |-> FALSE, end |-> "none"]]
    /\ up = TRUE
    /\ scan = {}
    /\ task = [j \in Jobs |-> "none"]
    /\ cancel = [j \in Jobs |-> "none"]
    /\ watch = [j \in Jobs |-> "none"]
    /\ crashes = 0
    /\ hit = {}
    /\ reused = {}
    /\ blind = {}

--------------------------------------------------------------------------------
(* Processes.                                                              *)

\* The jobs whose process is a child of the running console and not yet waited for.
JobChildren == {j \in Jobs : task[j] \in {"start", "abandon", "reap", "wait"}}

\* pid_finished: an unreaped child that ended, or a pid that names no process.
pid_finished(p) == os[p].state # "run"

is_running(j) == index[j].start /\ index[j].end = "none"

Running(j) == \E p \in Pids : os[p].owner = j /\ os[p].state = "run"

Verified(j) == cancel[j] \in {"term", "grace", "kill"}

\* A process starts under a free pid, be it one that an entry still records.
Occupy(p, owner) ==
    /\ os[p] = JobFree
    /\ "reuse" \in JobFaults \/ \A k \in Jobs : pid[k] # p
    /\ os' = [os EXCEPT ![p] = [owner |-> owner, state |-> "run", sig |-> "none"]]
    /\ reused' = reused \cup {k \in Jobs : pid[k] = p /\ Verified(k)}

OtherStarts(p) ==
    /\ "reuse" \in JobFaults
    /\ Occupy(p, Other)
    /\ UNCHANGED <<exit, pid, index, up, scan, task, cancel, watch, crashes, hit, blind>>

\* A process ends.  A child of the console stays a zombie until it is waited for.
ProcessEnds(p) ==
    /\ os[p].state = "run"
    /\ LET j == os[p].owner IN
         IF j \in Jobs
         THEN /\ \E r \in {"ok", "failed"}
                          \cup (IF os[p].sig = "none" THEN {} ELSE {"signaled"}) :
                   exit' = [exit EXCEPT ![j] = r]
              /\ os' = [os EXCEPT ![p] = IF j \in JobChildren
                                         THEN [@ EXCEPT !.state = "zombie"] ELSE JobFree]
         ELSE os' = [os EXCEPT ![p] = JobFree] /\ UNCHANGED exit
    /\ UNCHANGED <<pid, index, up, scan, task, cancel, watch, crashes, hit, reused, blind>>

\* send_group_signal for job j: nothing to do when the pid names no process.
SendSignal(j, sig) ==
    LET p == pid[j] IN
    /\ os' = IF os[p].state = "run"
             THEN [os EXCEPT ![p].sig = IF @ = "kill" THEN @ ELSE sig] ELSE os
    /\ hit' = IF os[p].state = "run" /\ os[p].owner # j THEN hit \cup {j} ELSE hit

--------------------------------------------------------------------------------
(* Submitting a job (handle_submit, spawn_tracked_job).                    *)

Serving == up /\ scan = {}

\* Refused with 409 while the index has a running entry for the profile.
SubmitJob(j) ==
    /\ Serving
    /\ task[j] = "none" /\ pid[j] = Nobody
    /\ \A k \in Jobs : ~ is_running(k)
    /\ task' = [task EXCEPT ![j] = "spawn"]
    /\ UNCHANGED <<os, exit, pid, index, up, scan, cancel, watch, crashes, hit, reused, blind>>

SpawnJob(j, p) ==
    /\ task[j] = "spawn"
    /\ Occupy(p, j)
    /\ pid' = [pid EXCEPT ![j] = p]
    /\ task' = [task EXCEPT ![j] = "start"]
    /\ UNCHANGED <<exit, index, up, scan, cancel, watch, crashes, hit, blind>>

\* JobStore::start; a child that could not be recorded is stopped.
RecordStart(j) ==
    /\ task[j] = "start"
    /\ \/ /\ index' = [index EXCEPT ![j].start = TRUE]
          /\ task' = [task EXCEPT ![j] = "wait"]
       \/ /\ "write" \in JobFaults
          /\ task' = [task EXCEPT ![j] = "abandon"]
          /\ UNCHANGED index
    /\ UNCHANGED <<os, exit, pid, up, scan, cancel, watch, crashes, hit, reused, blind>>

\* terminate_just_spawned: SIGTERM, then SIGKILL, no identity check, and wait.
AbandonTerm(j) ==
    /\ task[j] = "abandon"
    /\ SendSignal(j, "term")
    /\ task' = [task EXCEPT ![j] = "reap"]
    /\ UNCHANGED <<exit, pid, index, up, scan, cancel, watch, crashes, reused, blind>>

AbandonKill(j) ==
    /\ task[j] = "reap"
    /\ ~ pid_finished(pid[j])
    /\ SendSignal(j, "kill")
    /\ UNCHANGED <<exit, pid, index, up, scan, task, cancel, watch, crashes, reused, blind>>

\* Bug: a child that could not be recorded is dropped without waiting for it.
AbandonReapForgets(j) ==
    /\ task[j] = "reap"
    /\ task' = [task EXCEPT ![j] = "done"]
    /\ UNCHANGED <<os, exit, pid, index, up, scan, cancel, watch, crashes, hit, reused, blind>>

AbandonReap(j) ==
    /\ task[j] = "reap"
    /\ os[pid[j]].state = "zombie"
    /\ os' = [os EXCEPT ![pid[j]] = JobFree]
    /\ task' = [task EXCEPT ![j] = "done"]
    /\ UNCHANGED <<exit, pid, index, up, scan, cancel, watch, crashes, hit, reused, blind>>

\* RunningJob::wait: the status is learnt and the pid given back.
Wait(j) ==
    /\ task[j] = "wait"
    /\ os[pid[j]].state = "zombie"
    /\ os' = [os EXCEPT ![pid[j]] = JobFree]
    /\ task' = [task EXCEPT ![j] = "finish"]
    /\ UNCHANGED <<exit, pid, index, up, scan, cancel, watch, crashes, hit, reused, blind>>

\* finish_persistent: an end record, unless every attempt fails.  The fold
\* keeps the last one.
RecordEnd(j, outcome) ==
    \/ index' = [index EXCEPT ![j].end = outcome]
    \/ "write" \in JobFaults /\ UNCHANGED index

FinishJob(j) ==
    /\ task[j] = "finish"
    /\ RecordEnd(j, exit[j])
    /\ task' = [task EXCEPT ![j] = "done"]
    /\ UNCHANGED <<os, exit, pid, up, scan, cancel, watch, crashes, hit, reused, blind>>

--------------------------------------------------------------------------------
(* Cancelling a job (routes::backup::cancel, lifecycle::cancel).           *)

SetCancel(j, step) == cancel' = [cancel EXCEPT ![j] = step]

CancelRequest(j) ==
    /\ Serving
    /\ is_running(j)
    /\ cancel[j] = "none"
    /\ SetCancel(j, "verify")
    /\ reused' = reused \ {j}
    /\ hit' = hit \ {j}
    /\ UNCHANGED <<os, exit, pid, index, up, scan, task, watch, crashes, blind>>

\* Bug: the start time of the process is not compared with the recorded one.
VerdictTwoAxes(j, probed) ==
    IF pid_finished(pid[j]) THEN "exited"
    ELSE IF probed /\ os[pid[j]].owner \in Jobs THEN "matches" ELSE "refused"

\* verify_identity: does the pid still name the process that was recorded?
\* The start time tells processes apart, the command line only profiles; what
\* the OS does not answer is refused.
Verdict(j, probed) ==
    IF pid_finished(pid[j]) THEN "exited"
    ELSE IF probed /\ os[pid[j]].owner = j THEN "matches" ELSE "refused"

Probes == IF "probe" \in JobFaults THEN BOOLEAN ELSE {TRUE}

\* Bug: a refused cancellation is settled like one of a process that ended.
CancelVerifySettles(j) ==
    /\ cancel[j] = "verify"
    /\ \E probed \in Probes :
         SetCancel(j, IF Verdict(j, probed) = "matches" THEN "term" ELSE "settle-exited")
    /\ UNCHANGED <<os, exit, pid, index, up, scan, task, watch, crashes, hit, reused, blind>>

CancelVerify(j) ==
    /\ cancel[j] = "verify"
    /\ \E probed \in Probes :
         SetCancel(j, CASE Verdict(j, probed) = "exited"  -> "settle-exited"
                        [] Verdict(j, probed) = "matches" -> "term"
                        [] Verdict(j, probed) = "refused" -> "none")
    /\ UNCHANGED <<os, exit, pid, index, up, scan, task, watch, crashes, hit, reused, blind>>

CancelTerm(j) ==
    /\ cancel[j] = "term"
    /\ SendSignal(j, "term")
    /\ SetCancel(j, "grace")
    /\ UNCHANGED <<exit, pid, index, up, scan, task, watch, crashes, reused, blind>>

\* wait_for_exit: polled until the pid is finished or the grace is over.
CancelGrace(j) ==
    /\ cancel[j] = "grace"
    /\ SetCancel(j, IF pid_finished(pid[j]) THEN "settle-term" ELSE "kill")
    /\ UNCHANGED <<os, exit, pid, index, up, scan, task, watch, crashes, hit, reused, blind>>

CancelKill(j) ==
    /\ cancel[j] = "kill"
    /\ SendSignal(j, "kill")
    /\ SetCancel(j, "confirm")
    /\ UNCHANGED <<exit, pid, index, up, scan, task, watch, crashes, reused, blind>>

\* Whether the process is gone by then is not looked at.
CancelConfirm(j) ==
    /\ cancel[j] = "confirm"
    /\ SetCancel(j, "settle-kill")
    /\ UNCHANGED <<os, exit, pid, index, up, scan, task, watch, crashes, hit, reused, blind>>

\* settle_cancelled_job: leave the end to whoever waits for the process; if
\* none is there after the last poll, record the signal that was sent.
CancelSettle(j) ==
    /\ cancel[j] \in {"settle-term", "settle-kill", "settle-exited"}
    /\ SetCancel(j, IF ~ is_running(j) THEN "none"
                    ELSE IF cancel[j] = "settle-exited" THEN "end-unknown" ELSE "end-signaled")
    /\ UNCHANGED <<os, exit, pid, index, up, scan, task, watch, crashes, hit, reused, blind>>

CancelEnd(j) ==
    /\ cancel[j] \in {"end-signaled", "end-unknown"}
    /\ RecordEnd(j, IF cancel[j] = "end-signaled" THEN "signaled" ELSE "unknown")
    /\ SetCancel(j, "none")
    /\ UNCHANGED <<os, exit, pid, up, scan, task, watch, crashes, hit, reused, blind>>

--------------------------------------------------------------------------------
(* Crash and restart of the console (reattach::run_at_startup).            *)

\* The tasks are gone; the children go on as orphans of init, which waits for
\* those that have ended.
Crash ==
    /\ up /\ crashes < MaxCrashes
    /\ up' = FALSE
    /\ crashes' = crashes + 1
    /\ os' = [p \in Pids |-> IF os[p].state = "zombie" THEN JobFree ELSE os[p]]
    /\ scan' = {}
    /\ task' = [j \in Jobs |-> IF task[j] \in {"none", "spawn"} THEN "none" ELSE "done"]
    /\ cancel' = [j \in Jobs |-> "none"]
    /\ watch' = [j \in Jobs |-> "none"]
    /\ UNCHANGED <<exit, pid, index, hit, reused, blind>>

\* The scan comes before the first request is accepted.
Restart ==
    /\ ~ up
    /\ up' = TRUE
    /\ scan' = {j \in Jobs : is_running(j)}
    /\ UNCHANGED <<os, exit, pid, index, task, cancel, watch, crashes, hit, reused, blind>>

\* Bug: an entry whose process is gone is left as it is.
ScanEntryNoClose(j) ==
    /\ j \in scan
    /\ scan' = scan \ {j}
    /\ \E probed \in Probes :
         watch' = [watch EXCEPT ![j] = IF Verdict(j, probed) = "matches" THEN "poll" ELSE @]
    /\ UNCHANGED <<os, exit, pid, index, up, task, cancel, crashes, hit, reused, blind>>

\* classify_for_reattach: the recorded process gets a watcher; otherwise the
\* entry is closed as "unknown".
ScanEntry(j) ==
    /\ j \in scan
    /\ scan' = scan \ {j}
    /\ \E probed \in Probes :
         IF Verdict(j, probed) = "matches"
         THEN watch' = [watch EXCEPT ![j] = "poll"] /\ UNCHANGED <<index, blind>>
         ELSE /\ RecordEnd(j, "unknown")
              /\ blind' = IF probed THEN blind ELSE blind \cup {j}
              /\ UNCHANGED watch
    /\ UNCHANGED <<os, exit, pid, up, task, cancel, crashes, hit, reused>>

\* REATTACH_SCAN_BUDGET is over: the rest is left as it is.
ScanTimeout ==
    /\ "scan" \in JobFaults
    /\ scan # {}
    /\ scan' = {}
    /\ UNCHANGED <<os, exit, pid, index, up, task, cancel, watch, crashes, hit, reused, blind>>

\* wait_for_orphan_exit
WatchPoll(j) ==
    /\ watch[j] = "poll"
    /\ pid_finished(pid[j])
    /\ watch' = [watch EXCEPT ![j] = "finish"]
    /\ UNCHANGED <<os, exit, pid, index, up, scan, task, cancel, crashes, hit, reused, blind>>

WatchFinish(j) ==
    /\ watch[j] = "finish"
    /\ RecordEnd(j, "unknown")
    /\ watch' = [watch EXCEPT ![j] = "none"]
    /\ UNCHANGED <<os, exit, pid, up, scan, task, cancel, crashes, hit, reused, blind>>

--------------------------------------------------------------------------------

JobHandler(j) ==
    \/ \E p \in Pids : SpawnJob(j, p)
    \/ RecordStart(j) \/ AbandonTerm(j) \/ AbandonKill(j) \/ AbandonReap(j)
    \/ Wait(j) \/ FinishJob(j)

Canceller(j) ==
    \/ CancelVerify(j) \/ CancelTerm(j) \/ CancelGrace(j) \/ CancelKill(j)
    \/ CancelConfirm(j) \/ CancelSettle(j) \/ CancelEnd(j)

Reattacher(j) == ScanEntry(j) \/ WatchPoll(j) \/ WatchFinish(j)

JobsNext ==
    \/ \E j \in Jobs : SubmitJob(j) \/ CancelRequest(j)
    \/ \E j \in Jobs : JobHandler(j) \/ Canceller(j) \/ Reattacher(j)
    \/ \E p \in Pids : OtherStarts(p) \/ ProcessEnds(p)
    \/ Crash \/ Restart \/ ScanTimeout

JobsSpec == JobsInit /\ [][JobsNext]_jobsVars

\* The console's tasks keep running, and whoever started it starts it again.
JobsFairness ==
    /\ WF_jobsVars(Restart)
    /\ \A j \in Jobs : WF_jobsVars(JobHandler(j)) /\ WF_jobsVars(Canceller(j)) /\ WF_jobsVars(Reattacher(j))

JobsFairSpec == JobsSpec /\ JobsFairness

--------------------------------------------------------------------------------
(* Properties.                                                             *)

\* Every job's process has exactly one party that waits for it: a child that
\* has ended keeps its pid until the console's own waiter or the cleanup of an
\* unrecorded child collects it, so the pid cannot change hands under them,
\* and no zombie is left behind.
ChildrenAreCollected ==
    /\ \A j \in JobChildren : os[pid[j]].owner = j
    /\ \A p \in Pids : os[p].state = "zombie" => os[p].owner \in JobChildren

\* A signal reaches a process that is not the job's only if the pid changed
\* hands after the identity check of this cancellation passed: neither a stale
\* record, a restart of the console nor the cleanup of a child that could not
\* be recorded ever directs a signal at another process.
ForeignOnlyAfterReuse == hit \subseteq reused

\* An entry is closed only when its process is gone, or a SIGKILL is on its
\* way to it, or the OS could not be asked: a closed entry is what lets the
\* next job of the profile start.
ClosedMeansGone ==
    \A j \in Jobs \ blind :
        (index[j].end # "none" /\ Running(j)) =>
            \E p \in Pids : os[p].owner = j /\ os[p].sig = "kill"

\* An entry is never left running for good once its process is gone: the
\* profile would answer 409 forever.
EventuallyClosed ==
    \A j \in Jobs : (is_running(j) /\ ~ Running(j)) ~> index[j].end # "none"

=============================================================================
