--------------------------- MODULE WebJobsProofs ----------------------------
(***************************************************************************)
(* Theorems about the jobs of the console, for any jobs and pids, any      *)
(* number of crashes of the console and any faults: who waits for a child, *)
(* whom a signal reaches, and when the entry of a job is closed; and, for  *)
(* any number of jobs and mishaps, what the history keeps of them.         *)
(***************************************************************************)
EXTENDS WebJobs, JobHistory, SequenceTheorems, WellFoundedInduction, TLAPS

\* A pid names nobody or a process that has not been waited for; a job has one
\* process in its life, under the pid of its record.
OneProcess ==
    /\ \A p \in Pids : os[p].state = "none" <=> os[p].owner = Nobody
    /\ \A p \in Pids : os[p].owner \in Jobs => pid[os[p].owner] = p
    /\ \A j \in Jobs : pid[j] = Nobody <=> task[j] \in {"none", "spawn"}
    /\ \A j \in Jobs : index[j].start => pid[j] # Nobody

\* Who acts on a job knows of its start.
ActOnRecorded ==
    /\ \A j \in Jobs : cancel[j] # "none" => index[j].start
    /\ \A j \in Jobs : watch[j] # "none" => index[j].start
    /\ \A j \in scan : index[j].start

\* Between the identity check of a cancellation and its signals, the pid names
\* the job's process or nobody, unless it changed hands.
VerifiedOrReused ==
    \A j \in Jobs : Verified(j) => j \in reused \/ os[pid[j]].owner \in {j, Nobody}

\* The job's process is gone, or on its way.
Settled(j) == \A p \in Pids : os[p].owner = j /\ os[p].state = "run" => os[p].sig = "kill"

Settling == {"confirm", "settle-term", "settle-kill", "settle-exited", "end-signaled", "end-unknown"}

\* Whoever is about to close an entry has seen that, and whoever closed it, too,
\* unless it could not ask.
Closing(j) ==
    \/ task[j] = "finish" \/ cancel[j] \in Settling \/ watch[j] = "finish"
    \/ index[j].end # "none" /\ j \notin blind

SettledBeforeClosed == \A j \in Jobs : Closing(j) => pid[j] # Nobody /\ Settled(j)

JobsInv ==
    /\ JobsTypeOK
    /\ OneProcess /\ ChildrenAreCollected
    /\ ActOnRecorded /\ VerifiedOrReused /\ ForeignOnlyAfterReuse
    /\ SettledBeforeClosed

\* The values of the variables, by name.
Process == [owner : Owners, state : {"none", "run", "zombie"}, sig : {"none", "term", "kill"}]

Ends == {"none", "ok", "failed", "signaled", "unknown"}
Entry == [start : BOOLEAN, end : Ends]

JobSteps == {"none", "spawn", "start", "abandon", "reap", "wait", "finish", "done"}

CancelSteps == {"none", "verify", "term", "grace", "kill", "confirm", "settle-term",
                "settle-kill", "settle-exited", "end-signaled", "end-unknown"}
WatchSteps == {"none", "poll", "finish"}

\* A free pid is a process nobody owns.
LEMMA FreeIsProcess == JobFree \in Process /\ Nobody \in Owners
BY DEF JobFree, Process, Owners

\* A signal changes nothing but the strongest signal of the process that the pid
\* of the job names, and never takes a SIGKILL back.
LEMMA SignalMarks ==
    ASSUME JobsTypeOK, NEW j \in Jobs, pid[j] \in Pids, NEW sig \in {"term", "kill"},
           SendSignal(j, sig)
    PROVE  /\ os' \in [Pids -> Process]
           /\ \A p \in Pids : /\ os'[p].owner = os[p].owner
                              /\ os'[p].state = os[p].state
                              /\ os[p].sig = "kill" => os'[p].sig = "kill"
           /\ sig = "kill" /\ os[pid[j]].state = "run" => os'[pid[j]].sig = "kill"
           /\ hit' \in SUBSET Jobs
           /\ os[pid[j]].owner \in {j, Nobody} /\ OneProcess => hit' = hit
           /\ hit' \subseteq hit \cup {j}
BY DEF JobsTypeOK, SendSignal, Process, OneProcess

\* A process that starts takes a free pid.
LEMMA OccupyTakes ==
    ASSUME JobsTypeOK, NEW p \in Pids, NEW owner \in Jobs \cup {Other}, Occupy(p, owner)
    PROVE  /\ os[p] = JobFree
           /\ os' = [os EXCEPT ![p] = [owner |-> owner, state |-> "run", sig |-> "none"]]
           /\ os' \in [Pids -> Process]
           /\ reused' = reused \cup {k \in Jobs : pid[k] = p /\ Verified(k)}
           /\ reused' \in SUBSET Jobs
BY DEF JobsTypeOK, Occupy, Process, Owners

\* The types are kept.
LEMMA JobsTypeStep == JobsTypeOK /\ OneProcess /\ ActOnRecorded /\ [JobsNext]_jobsVars => JobsTypeOK'
<1>. SUFFICES ASSUME JobsTypeOK, OneProcess, ActOnRecorded, [JobsNext]_jobsVars
              PROVE  JobsTypeOK'
  OBVIOUS
<1>p. \A j \in Jobs : task[j] \notin {"none", "spawn"} \/ cancel[j] # "none" => pid[j] \in Pids
  BY OwnersAssumption DEF JobsTypeOK, OneProcess, ActOnRecorded
<1>i. index \in [Jobs -> Entry]
  BY DEF JobsTypeOK, Entry, Ends
<1>e. ASSUME NEW j \in Jobs, NEW e \in Ends, RecordEnd(j, e)
      PROVE  index' \in [Jobs -> Entry]
  <2>1. [index[j] EXCEPT !.end = e] \in Entry
    BY <1>i DEF Entry
  <2>2. [index EXCEPT ![j].end = e] \in [Jobs -> Entry]
    BY <2>1, <1>i
  <2>. QED
    BY <1>e, <1>i, <2>2 DEF RecordEnd
<1>s. ASSUME NEW j \in Jobs PROVE [index EXCEPT ![j].start = TRUE] \in [Jobs -> Entry]
  <2>1. [index[j] EXCEPT !.start = TRUE] \in Entry
    BY <1>i DEF Entry
  <2>. QED
    BY <2>1, <1>i
<1>. USE DEF JobsTypeOK
<1>1. ASSUME NEW j \in Jobs, SubmitJob(j) \/ CancelRequest(j)
      PROVE  JobsTypeOK'
  BY <1>1 DEF SubmitJob, CancelRequest, SetCancel
<1>2. ASSUME NEW j \in Jobs, JobHandler(j)
      PROVE  JobsTypeOK'
  <2>1. ASSUME NEW p \in Pids, SpawnJob(j, p)
        PROVE  JobsTypeOK'
    BY <2>1, OccupyTakes DEF SpawnJob, Process
  <2>2. CASE RecordStart(j)
    <3>1. index' \in [Jobs -> Entry]
      BY <1>i, <1>s, <2>2 DEF RecordStart
    <3>. QED
      BY <3>1, <2>2 DEF RecordStart, Entry, Ends
  <2>3. CASE AbandonTerm(j)
    BY <2>3, <1>p, SignalMarks DEF AbandonTerm, Process
  <2>4. CASE AbandonKill(j)
    BY <2>4, <1>p, SignalMarks DEF AbandonKill, Process
  <2>5. CASE AbandonReap(j)
    BY <2>5, FreeIsProcess DEF AbandonReap, Process
  <2>6. CASE Wait(j)
    BY <2>6, FreeIsProcess DEF Wait, Process
  <2>7. CASE FinishJob(j)
    <3>1. index' \in [Jobs -> Entry]
      BY <1>e, <2>7 DEF FinishJob, Ends
    <3>. QED
      BY <3>1, <2>7 DEF FinishJob, Entry, Ends
  <2>. QED
    BY <1>2, <2>1, <2>2, <2>3, <2>4, <2>5, <2>6, <2>7 DEF JobHandler
<1>3. ASSUME NEW j \in Jobs, Canceller(j)
      PROVE  JobsTypeOK'
  <2>1. CASE CancelVerify(j)
    BY <2>1 DEF CancelVerify, SetCancel, Verdict
  <2>2. CASE CancelTerm(j)
    BY <2>2, <1>p, SignalMarks DEF CancelTerm, SetCancel, Process
  <2>3. CASE CancelKill(j)
    BY <2>3, <1>p, SignalMarks DEF CancelKill, SetCancel, Process
  <2>4. CASE CancelGrace(j) \/ CancelConfirm(j) \/ CancelSettle(j)
    BY <2>4 DEF CancelGrace, CancelConfirm, CancelSettle, SetCancel
  <2>5. CASE CancelEnd(j)
    <3>1. index' \in [Jobs -> Entry]
      BY <1>e, <2>5 DEF CancelEnd, Ends
    <3>. QED
      BY <3>1, <2>5 DEF CancelEnd, SetCancel, Entry, Ends
  <2>. QED
    BY <1>3, <2>1, <2>2, <2>3, <2>4, <2>5 DEF Canceller
<1>4. ASSUME NEW j \in Jobs, Reattacher(j)
      PROVE  JobsTypeOK'
  <2>1. CASE ScanEntry(j)
    <3>1. index' \in [Jobs -> Entry]
      BY <1>e, <1>i, <2>1 DEF ScanEntry, Ends
    <3>. QED
      BY <3>1, <2>1 DEF ScanEntry, Entry, Ends
  <2>2. CASE WatchPoll(j)
    BY <2>2 DEF WatchPoll
  <2>3. CASE WatchFinish(j)
    <3>1. index' \in [Jobs -> Entry]
      BY <1>e, <2>3 DEF WatchFinish, Ends
    <3>. QED
      BY <3>1, <2>3 DEF WatchFinish, Entry, Ends
  <2>. QED
    BY <1>4, <2>1, <2>2, <2>3 DEF Reattacher
<1>5. ASSUME NEW p \in Pids, OtherStarts(p)
      PROVE  JobsTypeOK'
  BY <1>5, OccupyTakes DEF OtherStarts, Process
<1>6. ASSUME NEW p \in Pids, ProcessEnds(p)
      PROVE  JobsTypeOK'
  BY <1>6, FreeIsProcess DEF ProcessEnds, Process
<1>7. CASE Crash
  <2>1. os' \in [Pids -> Process]
    BY <1>7, FreeIsProcess DEF Crash, Process
  <2>2. crashes' \in 0..MaxCrashes
    BY <1>7, FaultsAssumption DEF Crash
  <2>. QED
    BY <1>7, <2>1, <2>2 DEF Crash, Process
<1>8. CASE Restart \/ ScanTimeout
  BY <1>8 DEF Restart, ScanTimeout
<1>9. CASE UNCHANGED jobsVars
  BY <1>9 DEF jobsVars
<1>. QED
  BY <1>1, <1>2, <1>3, <1>4, <1>5, <1>6, <1>7, <1>8, <1>9 DEF JobsNext

\* A pid is taken when it is free and given back by who waited for it.
LEMMA OneProcessStep ==
    JobsTypeOK /\ OneProcess /\ ChildrenAreCollected /\ ActOnRecorded /\ [JobsNext]_jobsVars
        => OneProcess' /\ ChildrenAreCollected'
<1>. SUFFICES ASSUME JobsTypeOK, OneProcess, ChildrenAreCollected, ActOnRecorded,
                     [JobsNext]_jobsVars
              PROVE  OneProcess' /\ ChildrenAreCollected'
  OBVIOUS
<1>t. /\ os \in [Pids -> Process] /\ pid \in [Jobs -> Pids \cup {Nobody}]
      /\ index \in [Jobs -> Entry] /\ task \in [Jobs -> JobSteps]
  BY DEF JobsTypeOK, Process, Entry, Ends, JobSteps
<1>p. \A j \in Jobs : task[j] \notin {"none", "spawn"} \/ cancel[j] # "none" => pid[j] \in Pids
  BY OwnersAssumption DEF JobsTypeOK, OneProcess, ActOnRecorded
<1>q. \A j \in Jobs, p \in Pids : os[p].owner = j => pid[j] = p
  BY DEF OneProcess
<1>c. \A j \in Jobs : task[j] \in {"start", "abandon", "reap", "wait"} => os[pid[j]].owner = j
  BY DEF ChildrenAreCollected, JobChildren
<1>e. ASSUME NEW j \in Jobs, NEW e, RecordEnd(j, e)
      PROVE  \A k \in Jobs : index'[k].start = index[k].start
  BY <1>t, <1>e DEF RecordEnd, Entry
<1>. USE DEF OneProcess, ChildrenAreCollected, JobChildren
<1>1. ASSUME NEW j \in Jobs, SubmitJob(j) \/ CancelRequest(j)
      PROVE  OneProcess' /\ ChildrenAreCollected'
  BY <1>t, <1>1 DEF SubmitJob, CancelRequest, is_running
<1>2. ASSUME NEW j \in Jobs, JobHandler(j)
      PROVE  OneProcess' /\ ChildrenAreCollected'
  <2>1. ASSUME NEW p \in Pids, SpawnJob(j, p)
        PROVE  OneProcess' /\ ChildrenAreCollected'
    BY <1>t, <2>1, OccupyTakes, OwnersAssumption DEF SpawnJob, Process, JobFree
  <2>2. CASE RecordStart(j)
    BY <1>t, <2>2 DEF RecordStart
  <2>3. CASE AbandonTerm(j)
    BY <1>t, <2>3, <1>p, SignalMarks DEF AbandonTerm, Process
  <2>4. CASE AbandonKill(j)
    BY <1>t, <2>4, <1>p, SignalMarks DEF AbandonKill, Process
  <2>5. CASE AbandonReap(j)
    BY <1>t, <2>5, <1>c, <1>q, <1>p, OwnersAssumption DEF AbandonReap, JobFree
  <2>6. CASE Wait(j)
    BY <1>t, <2>6, <1>c, <1>q, <1>p, OwnersAssumption DEF Wait, JobFree
  <2>7. CASE FinishJob(j)
    BY <1>t, <1>e, <2>7 DEF FinishJob
  <2>. QED
    BY <1>2, <2>1, <2>2, <2>3, <2>4, <2>5, <2>6, <2>7 DEF JobHandler
<1>3. ASSUME NEW j \in Jobs, Canceller(j)
      PROVE  OneProcess' /\ ChildrenAreCollected'
  <2>1. CASE CancelVerify(j) \/ CancelGrace(j) \/ CancelConfirm(j) \/ CancelSettle(j)
    BY <1>t, <2>1 DEF CancelVerify, CancelGrace, CancelConfirm, CancelSettle
  <2>2. CASE CancelTerm(j)
    BY <1>t, <2>2, <1>p, SignalMarks DEF CancelTerm, Process
  <2>3. CASE CancelKill(j)
    BY <1>t, <2>3, <1>p, SignalMarks DEF CancelKill, Process
  <2>4. CASE CancelEnd(j)
    BY <1>t, <1>e, <2>4 DEF CancelEnd
  <2>. QED
    BY <1>3, <2>1, <2>2, <2>3, <2>4 DEF Canceller
<1>4. ASSUME NEW j \in Jobs, Reattacher(j)
      PROVE  OneProcess' /\ ChildrenAreCollected'
  <2>1. CASE ScanEntry(j)
    BY <1>t, <1>e, <2>1 DEF ScanEntry
  <2>2. CASE WatchPoll(j)
    BY <1>t, <2>2 DEF WatchPoll
  <2>3. CASE WatchFinish(j)
    BY <1>t, <1>e, <2>3 DEF WatchFinish
  <2>. QED
    BY <1>4, <2>1, <2>2, <2>3 DEF Reattacher
<1>5. ASSUME NEW p \in Pids, OtherStarts(p)
      PROVE  OneProcess' /\ ChildrenAreCollected'
  BY <1>t, <1>5, OccupyTakes, OwnersAssumption DEF OtherStarts, Process, JobFree
<1>6. ASSUME NEW p \in Pids, ProcessEnds(p)
      PROVE  OneProcess' /\ ChildrenAreCollected'
  <2>1. CASE os[p].owner \in JobChildren
    <3>1. /\ os' = [os EXCEPT ![p] = [os[p] EXCEPT !.state = "zombie"]]
          /\ UNCHANGED <<pid, index, task>>
      BY <1>6, <2>1 DEF ProcessEnds
    <3>2. \A r \in Pids : os'[r].owner = os[r].owner
      BY <1>t, <3>1 DEF Process
    <3>3. \A r \in Pids : os'[r].state = IF r = p THEN "zombie" ELSE os[r].state
      BY <1>t, <3>1 DEF Process
    <3>4. os[p].state # "none"
      BY <1>6 DEF ProcessEnds
    <3>. QED
      BY <2>1, <3>1, <3>2, <3>3, <3>4, <1>p
  <2>2. CASE os[p].owner \notin JobChildren
    BY <1>t, <1>6, <2>2, <1>q, OwnersAssumption DEF ProcessEnds, JobFree
  <2>. QED
    BY <2>1, <2>2
<1>7. CASE Crash
  BY <1>t, <1>7, OwnersAssumption DEF Crash, JobFree
<1>8. CASE Restart \/ ScanTimeout
  BY <1>t, <1>8 DEF Restart, ScanTimeout
<1>9. CASE UNCHANGED jobsVars
  BY <1>t, <1>9 DEF jobsVars
<1>. QED
  BY <1>1, <1>2, <1>3, <1>4, <1>5, <1>6, <1>7, <1>8, <1>9 DEF JobsNext

\* Who acts on a job has its start record before it.
LEMMA ActStep == JobsTypeOK /\ ActOnRecorded /\ [JobsNext]_jobsVars => ActOnRecorded'
<1>. SUFFICES ASSUME JobsTypeOK, ActOnRecorded, [JobsNext]_jobsVars
              PROVE  ActOnRecorded'
  OBVIOUS
<1>t. /\ cancel \in [Jobs -> CancelSteps] /\ watch \in [Jobs -> WatchSteps]
      /\ index \in [Jobs -> Entry] /\ scan \in SUBSET Jobs
  BY DEF JobsTypeOK, CancelSteps, WatchSteps, Entry, Ends
<1>e. ASSUME NEW j \in Jobs, NEW e, RecordEnd(j, e)
      PROVE  \A k \in Jobs : index'[k].start = index[k].start
  BY <1>t, <1>e DEF RecordEnd, Entry
<1>. USE DEF ActOnRecorded
<1>1. ASSUME NEW j \in Jobs, SubmitJob(j) \/ CancelRequest(j)
      PROVE  ActOnRecorded'
  BY <1>t, <1>1 DEF SubmitJob, CancelRequest, SetCancel, is_running
<1>2. ASSUME NEW j \in Jobs, JobHandler(j)
      PROVE  ActOnRecorded'
  <2>1. CASE RecordStart(j)
    <3>1. \A k \in Jobs : index[k].start => index'[k].start
      BY <1>t, <2>1 DEF RecordStart, Entry
    <3>. QED
      BY <1>t, <2>1, <3>1 DEF RecordStart
  <2>2. CASE FinishJob(j)
    BY <1>t, <1>e, <2>2 DEF FinishJob
  <2>. QED
    BY <1>2, <2>1, <2>2 DEF JobHandler, SpawnJob, AbandonTerm, AbandonKill, AbandonReap, Wait
<1>3. ASSUME NEW j \in Jobs, Canceller(j)
      PROVE  ActOnRecorded'
  <2>1. CASE CancelEnd(j)
    BY <1>t, <1>e, <2>1 DEF CancelEnd, SetCancel
  <2>2. CASE CancelVerify(j)
    BY <1>t, <2>2 DEF CancelVerify, SetCancel
  <2>. QED
    BY <1>3, <1>t, <2>1, <2>2 DEF Canceller, CancelTerm, CancelGrace, CancelKill, CancelConfirm,
                            CancelSettle, SetCancel
<1>4. ASSUME NEW j \in Jobs, Reattacher(j)
      PROVE  ActOnRecorded'
  <2>1. CASE ScanEntry(j)
    BY <1>t, <1>e, <2>1 DEF ScanEntry
  <2>2. CASE WatchPoll(j)
    BY <1>t, <2>2 DEF WatchPoll
  <2>3. CASE WatchFinish(j)
    BY <1>t, <1>e, <2>3 DEF WatchFinish
  <2>. QED
    BY <1>4, <2>1, <2>2, <2>3 DEF Reattacher
<1>5. ASSUME NEW p \in Pids, OtherStarts(p) \/ ProcessEnds(p)
      PROVE  ActOnRecorded'
  BY <1>5 DEF OtherStarts, ProcessEnds
<1>6. CASE Crash \/ Restart \/ ScanTimeout
  BY <1>6 DEF Crash, Restart, ScanTimeout, is_running
<1>7. CASE UNCHANGED jobsVars
  BY <1>7 DEF jobsVars
<1>. QED
  BY <1>1, <1>2, <1>3, <1>4, <1>5, <1>6, <1>7 DEF JobsNext

\* A pid that was verified is still the job's or nobody's, unless it was taken
\* since; the cleanup of an unrecorded child signals a child of its own.
LEMMA VerifiedStep ==
    JobsInv /\ [JobsNext]_jobsVars => VerifiedOrReused' /\ ForeignOnlyAfterReuse'
<1>. SUFFICES ASSUME JobsInv, [JobsNext]_jobsVars
              PROVE  VerifiedOrReused' /\ ForeignOnlyAfterReuse'
  OBVIOUS
<1>0. JobsTypeOK /\ OneProcess
  BY DEF JobsInv
<1>t. /\ os \in [Pids -> Process] /\ pid \in [Jobs -> Pids \cup {Nobody}]
      /\ cancel \in [Jobs -> CancelSteps] /\ reused \in SUBSET Jobs /\ hit \in SUBSET Jobs
  BY <1>0 DEF JobsTypeOK, Process, CancelSteps
<1>p. \A j \in Jobs : task[j] \notin {"none", "spawn"} \/ cancel[j] # "none" => pid[j] \in Pids
  BY OwnersAssumption DEF JobsInv, JobsTypeOK, OneProcess, ActOnRecorded
<1>n. \A j \in Jobs : task[j] = "spawn" => pid[j] \notin Pids
  BY <1>0, OwnersAssumption DEF OneProcess
<1>c. \A j \in Jobs : task[j] \in {"start", "abandon", "reap", "wait"} => os[pid[j]].owner = j
  BY DEF JobsInv, ChildrenAreCollected, JobChildren
<1>v. \A j \in Jobs : Verified(j) => j \in reused \/ os[pid[j]].owner \in {j, Nobody}
  BY DEF JobsInv, VerifiedOrReused
<1>h. hit \subseteq reused
  BY DEF JobsInv, ForeignOnlyAfterReuse
<1>. USE DEF VerifiedOrReused, ForeignOnlyAfterReuse, Verified
<1>k. ASSUME UNCHANGED <<cancel, reused, hit, pid>>, 
             \A p \in Pids : os'[p].owner \in {os[p].owner, Nobody}
      PROVE  VerifiedOrReused' /\ ForeignOnlyAfterReuse'
  BY <1>k, <1>t, <1>p, <1>v, <1>h
<1>1. ASSUME NEW j \in Jobs, SubmitJob(j) \/ CancelRequest(j)
      PROVE  VerifiedOrReused' /\ ForeignOnlyAfterReuse'
  BY <1>1, <1>t, <1>v, <1>h DEF SubmitJob, CancelRequest, SetCancel
<1>2. ASSUME NEW j \in Jobs, JobHandler(j)
      PROVE  VerifiedOrReused' /\ ForeignOnlyAfterReuse'
  <2>1. ASSUME NEW p \in Pids, SpawnJob(j, p)
        PROVE  VerifiedOrReused' /\ ForeignOnlyAfterReuse'
    <3>1. /\ os' = [os EXCEPT ![p] = [owner |-> j, state |-> "run", sig |-> "none"]]
          /\ reused' = reused \cup {k \in Jobs : pid[k] = p /\ Verified(k)}
          /\ pid' = [pid EXCEPT ![j] = p] /\ task[j] = "spawn"
          /\ UNCHANGED <<cancel, hit>>
      BY <1>0, <2>1, OccupyTakes DEF SpawnJob
    <3>2. cancel[j] = "none"
      BY <1>n, <1>p, <3>1
    <3>. QED
      BY <1>t, <1>p, <1>v, <1>h, <3>1, <3>2
  <2>2. CASE AbandonTerm(j)
    <3>1. UNCHANGED <<cancel, reused, pid>> /\ SendSignal(j, "term") /\ task[j] = "abandon"
      BY <2>2 DEF AbandonTerm
    <3>2. UNCHANGED hit /\ \A p \in Pids : os'[p].owner = os[p].owner
      BY <1>0, <1>p, <1>c, <3>1, SignalMarks
    <3>. QED
      BY <1>k, <3>1, <3>2
  <2>3. CASE AbandonKill(j)
    <3>1. UNCHANGED <<cancel, reused, pid>> /\ SendSignal(j, "kill") /\ task[j] = "reap"
      BY <2>3 DEF AbandonKill
    <3>2. UNCHANGED hit /\ \A p \in Pids : os'[p].owner = os[p].owner
      BY <1>0, <1>p, <1>c, <3>1, SignalMarks
    <3>. QED
      BY <1>k, <3>1, <3>2
  <2>4. CASE AbandonReap(j) \/ Wait(j)
    <3>1. UNCHANGED <<cancel, reused, hit, pid>> /\ os' = [os EXCEPT ![pid[j]] = JobFree]
      BY <2>4 DEF AbandonReap, Wait
    <3>. QED
      BY <1>k, <1>t, <3>1 DEF JobFree
  <2>5. CASE RecordStart(j) \/ FinishJob(j)
    BY <1>k, <2>5 DEF RecordStart, FinishJob
  <2>. QED
    BY <1>2, <2>1, <2>2, <2>3, <2>4, <2>5 DEF JobHandler
<1>3. ASSUME NEW j \in Jobs, Canceller(j)
      PROVE  VerifiedOrReused' /\ ForeignOnlyAfterReuse'
  <2>1. CASE CancelVerify(j)
    BY <1>t, <1>v, <1>h, <2>1 DEF CancelVerify, SetCancel, Verdict
  <2>2. ASSUME NEW sig \in {"term", "kill"}, SendSignal(j, sig), Verified(j),
               \A k \in Jobs \ {j} : cancel'[k] = cancel[k], UNCHANGED <<pid, reused>>
        PROVE  VerifiedOrReused' /\ ForeignOnlyAfterReuse'
    <3>1. /\ \A p \in Pids : os'[p].owner = os[p].owner
          /\ hit' \subseteq hit \cup {j}
          /\ os[pid[j]].owner \in {j, Nobody} => hit' = hit
      BY <1>0, <1>p, <2>2, SignalMarks
    <3>2. hit' \subseteq reused'
      BY <1>h, <1>v, <2>2, <3>1
    <3>3. \A k \in Jobs : Verified(k)' => Verified(k)
      BY <2>2
    <3>. QED
      BY <1>v, <1>p, <2>2, <3>1, <3>2, <3>3
  <2>3. CASE CancelTerm(j)
    BY <1>t, <2>2, <2>3 DEF CancelTerm, SetCancel
  <2>4. CASE CancelKill(j)
    BY <1>t, <2>2, <2>4 DEF CancelKill, SetCancel
  <2>5. CASE CancelGrace(j)
    BY <1>t, <1>v, <1>h, <2>5 DEF CancelGrace, SetCancel
  <2>6. CASE CancelConfirm(j) \/ CancelSettle(j) \/ CancelEnd(j)
    BY <1>t, <1>v, <1>h, <2>6 DEF CancelConfirm, CancelSettle, CancelEnd, SetCancel
  <2>. QED
    BY <1>3, <2>1, <2>3, <2>4, <2>5, <2>6 DEF Canceller
<1>4. ASSUME NEW j \in Jobs, Reattacher(j)
      PROVE  VerifiedOrReused' /\ ForeignOnlyAfterReuse'
  BY <1>k, <1>4 DEF Reattacher, ScanEntry, WatchPoll, WatchFinish
<1>5. ASSUME NEW p \in Pids, OtherStarts(p)
      PROVE  VerifiedOrReused' /\ ForeignOnlyAfterReuse'
  <2>1. /\ os' = [os EXCEPT ![p] = [owner |-> Other, state |-> "run", sig |-> "none"]]
        /\ reused' = reused \cup {k \in Jobs : pid[k] = p /\ Verified(k)}
        /\ UNCHANGED <<cancel, hit, pid>>
    BY <1>0, <1>5, OccupyTakes DEF OtherStarts
  <2>. QED
    BY <1>t, <1>p, <1>v, <1>h, <2>1
<1>6. ASSUME NEW p \in Pids, ProcessEnds(p)
      PROVE  VerifiedOrReused' /\ ForeignOnlyAfterReuse'
  <2>1. UNCHANGED <<cancel, reused, hit, pid>>
    BY <1>6 DEF ProcessEnds
  <2>2. \/ os' = [os EXCEPT ![p] = [os[p] EXCEPT !.state = "zombie"]]
        \/ os' = [os EXCEPT ![p] = JobFree]
    BY <1>6 DEF ProcessEnds
  <2>3. \A r \in Pids : os'[r].owner \in {os[r].owner, Nobody}
    BY <1>t, <2>2 DEF Process, JobFree
  <2>. QED
    BY <1>k, <2>1, <2>3
<1>7. CASE Crash
  BY <1>7, <1>h DEF Crash
<1>8. CASE Restart \/ ScanTimeout
  BY <1>8, <1>k DEF Restart, ScanTimeout
<1>9. CASE UNCHANGED jobsVars
  BY <1>9, <1>k DEF jobsVars
<1>. QED
  BY <1>1, <1>2, <1>3, <1>4, <1>5, <1>6, <1>7, <1>8, <1>9 DEF JobsNext

\* Every way to close an entry begins with a look at the process.
LEMMA SettledStep == JobsInv /\ [JobsNext]_jobsVars => SettledBeforeClosed'
<1>. SUFFICES ASSUME JobsInv, [JobsNext]_jobsVars
              PROVE  SettledBeforeClosed'
  OBVIOUS
<1>0. JobsTypeOK /\ OneProcess
  BY DEF JobsInv
<1>t. /\ os \in [Pids -> Process] /\ pid \in [Jobs -> Pids \cup {Nobody}]
      /\ cancel \in [Jobs -> CancelSteps] /\ watch \in [Jobs -> WatchSteps]
      /\ task \in [Jobs -> JobSteps] /\ index \in [Jobs -> Entry] /\ blind \in SUBSET Jobs
  BY <1>0 DEF JobsTypeOK, Process, CancelSteps, WatchSteps, JobSteps, Entry, Ends
<1>p. \A j \in Jobs : \/ task[j] \notin {"none", "spawn"} \/ cancel[j] # "none"
                     \/ watch[j] # "none" \/ j \in scan
                     => pid[j] \in Pids
  BY OwnersAssumption DEF JobsInv, JobsTypeOK, OneProcess, ActOnRecorded
<1>n. \A j \in Jobs : task[j] = "spawn" => pid[j] = Nobody
  BY <1>0 DEF OneProcess
<1>q. \A j \in Jobs, p \in Pids : os[p].owner = j => pid[j] = p
  BY <1>0 DEF OneProcess
<1>s. \A j \in Jobs : Closing(j) => pid[j] # Nobody /\ Settled(j)
  BY DEF JobsInv, SettledBeforeClosed
<1>g. \A j \in Jobs : pid[j] \in Pids /\ (os[pid[j]].state # "run" \/ os[pid[j]].owner # j) => Settled(j)
  BY <1>q DEF Settled
<1>. USE DEF SettledBeforeClosed
\* Whatever starts no process and forgets no SIGKILL leaves the settled jobs so.
<1>k. ASSUME pid' = pid,
             \A p \in Pids : os'[p].state = "run" =>
                 /\ os[p].state = "run" /\ os[p].owner = os'[p].owner
                 /\ os[p].sig = "kill" => os'[p].sig = "kill",
             \A k \in Jobs : Closing(k)' => Closing(k) \/ (pid[k] \in Pids /\ Settled(k)')
      PROVE  SettledBeforeClosed'
  <2>1. \A k \in Jobs : Settled(k) => Settled(k)'
    BY <1>k DEF Settled
  <2>. QED
    BY <1>k, <1>s, <2>1, OwnersAssumption
<1>e. ASSUME NEW j \in Jobs, NEW e, RecordEnd(j, e)
      PROVE  \A k \in Jobs \ {j} : index'[k].end = index[k].end
  BY <1>t, <1>e DEF RecordEnd, Entry
<1>1. ASSUME NEW j \in Jobs, SubmitJob(j) \/ CancelRequest(j)
      PROVE  SettledBeforeClosed'
  BY <1>1, <1>t, <1>k DEF SubmitJob, CancelRequest, SetCancel, Closing, Settling
<1>2. ASSUME NEW j \in Jobs, JobHandler(j)
      PROVE  SettledBeforeClosed'
  <2>1. ASSUME NEW p \in Pids, SpawnJob(j, p)
        PROVE  SettledBeforeClosed'
    <3>1. /\ os' = [os EXCEPT ![p] = [owner |-> j, state |-> "run", sig |-> "none"]]
          /\ pid' = [pid EXCEPT ![j] = p] /\ task[j] = "spawn"
          /\ task' = [task EXCEPT ![j] = "start"]
          /\ UNCHANGED <<cancel, watch, index, blind>>
      BY <1>0, <2>1, OccupyTakes DEF SpawnJob
    <3>2. ~ Closing(j)'
      BY <1>n, <1>s, <1>t, <3>1 DEF Closing
    <3>3. \A k \in Jobs \ {j} : Closing(k)' => Closing(k)
      BY <1>t, <3>1 DEF Closing
    <3>4. \A k \in Jobs \ {j} : Settled(k) => Settled(k)'
      BY <1>t, <3>1 DEF Settled
    <3>5. \A k \in Jobs \ {j} : pid'[k] = pid[k]
      BY <1>t, <3>1
    <3>. QED
      BY <1>s, <3>2, <3>3, <3>4, <3>5
  <2>2. CASE RecordStart(j)
    <3>1. \A k \in Jobs : Closing(k)' => Closing(k)
      BY <1>t, <2>2 DEF RecordStart, Closing, Entry
    <3>. QED
      BY <1>k, <2>2, <3>1 DEF RecordStart
  <2>3. ASSUME SendSignal(j, "term") \/ SendSignal(j, "kill"), pid[j] \in Pids, pid' = pid,
               \A k \in Jobs : Closing(k)' => Closing(k)
        PROVE  SettledBeforeClosed'
    BY <1>0, <1>k, <2>3, SignalMarks
  <2>4. CASE AbandonTerm(j)
    BY <1>p, <1>t, <2>3, <2>4 DEF AbandonTerm, Closing
  <2>5. CASE AbandonKill(j)
    BY <1>p, <1>t, <2>3, <2>5 DEF AbandonKill, Closing
  <2>6. CASE AbandonReap(j) \/ Wait(j)
    <3>1. /\ os' = [os EXCEPT ![pid[j]] = JobFree] /\ os[pid[j]].state = "zombie"
          /\ UNCHANGED <<pid, cancel, watch, index, blind>>
          /\ pid[j] \in Pids
          /\ \A k \in Jobs \ {j} : task'[k] = task[k]
      BY <1>p, <1>t, <2>6 DEF AbandonReap, Wait
    <3>2. \A p \in Pids : os'[p].state = "run" => os'[p] = os[p]
      BY <1>t, <3>1 DEF JobFree
    <3>3. Settled(j)'
      BY <1>g, <3>1, <3>2 DEF Settled
    <3>4. \A k \in Jobs \ {j} : Closing(k)' => Closing(k)
      BY <3>1 DEF Closing
    <3>. QED
      BY <1>k, <3>1, <3>2, <3>3, <3>4
  <2>7. CASE FinishJob(j)
    <3>1. /\ task[j] = "finish" /\ \A k \in Jobs \ {j} : task'[k] = task[k]
          /\ UNCHANGED <<os, pid, cancel, watch, blind>>
          /\ \A k \in Jobs \ {j} : index'[k].end = index[k].end
      BY <1>e, <1>t, <2>7 DEF FinishJob
    <3>2. \A k \in Jobs : Closing(k)' => Closing(k)
      BY <3>1 DEF Closing
    <3>. QED
      BY <1>k, <3>1, <3>2
  <2>. QED
    BY <1>2, <2>1, <2>2, <2>4, <2>5, <2>6, <2>7 DEF JobHandler
<1>3. ASSUME NEW j \in Jobs, Canceller(j)
      PROVE  SettledBeforeClosed'
  <2>p. pid[j] \in Pids
    BY <1>3, <1>p DEF Canceller, CancelVerify, CancelTerm, CancelGrace, CancelKill,
                      CancelConfirm, CancelSettle, CancelEnd
  <2>k. ASSUME UNCHANGED <<os, pid, task, watch, index, blind>>, NEW step,
               cancel' = [cancel EXCEPT ![j] = step],
               step \in Settling => Closing(j) \/ Settled(j)
        PROVE  SettledBeforeClosed'
    <3>1. \A k \in Jobs \ {j} : Closing(k)' => Closing(k)
      BY <2>k, <1>t DEF Closing
    <3>2. Closing(j)' => Closing(j) \/ Settled(j)
      BY <2>k, <1>t DEF Closing
    <3>. QED
      BY <1>k, <2>k, <2>p, <3>1, <3>2, <1>s DEF Settled
  <2>1. CASE CancelVerify(j)
    <3>1. PICK step : /\ cancel' = [cancel EXCEPT ![j] = step]
                      /\ \/ step = "settle-exited" /\ pid_finished(pid[j])
                         \/ step \in {"term", "none"}
      BY <2>1 DEF CancelVerify, SetCancel, Verdict
    <3>2. UNCHANGED <<os, pid, task, watch, index, blind>>
      BY <2>1 DEF CancelVerify
    <3>. QED
      BY <1>g, <2>k, <2>p, <3>1, <3>2 DEF Settling, pid_finished
  <2>2. CASE CancelTerm(j)
    <3>1. \A k \in Jobs : Closing(k)' => Closing(k)
      BY <1>t, <2>2 DEF CancelTerm, SetCancel, Closing, Settling
    <3>. QED
      BY <1>0, <1>k, <2>2, <2>p, <3>1, SignalMarks DEF CancelTerm
  <2>3. CASE CancelKill(j)
    <3>1. \A k \in Jobs \ {j} : Closing(k)' => Closing(k)
      BY <1>t, <2>3 DEF CancelKill, SetCancel, Closing
    <3>2. Settled(j)'
      BY <1>0, <1>q, <2>3, <2>p, SignalMarks DEF CancelKill, Settled
    <3>. QED
      BY <1>0, <1>k, <2>3, <2>p, <3>1, <3>2, SignalMarks DEF CancelKill
  <2>4. CASE CancelGrace(j)
    <3>1. PICK step : /\ cancel' = [cancel EXCEPT ![j] = step]
                      /\ \/ step = "settle-term" /\ pid_finished(pid[j])
                         \/ step = "kill"
      BY <2>4 DEF CancelGrace, SetCancel
    <3>2. UNCHANGED <<os, pid, task, watch, index, blind>>
      BY <2>4 DEF CancelGrace
    <3>. QED
      BY <1>g, <2>k, <2>p, <3>1, <3>2 DEF Settling, pid_finished
  <2>5. CASE CancelConfirm(j) \/ CancelSettle(j)
    <3>1. PICK step : cancel' = [cancel EXCEPT ![j] = step]
      BY <2>5 DEF CancelConfirm, CancelSettle, SetCancel
    <3>2. UNCHANGED <<os, pid, task, watch, index, blind>> /\ Closing(j)
      BY <2>5 DEF CancelConfirm, CancelSettle, Closing, Settling
    <3>. QED
      BY <2>k, <3>1, <3>2
  <2>6. CASE CancelEnd(j)
    <3>1. /\ cancel[j] \in Settling /\ \A k \in Jobs \ {j} : cancel'[k] = cancel[k]
          /\ UNCHANGED <<os, pid, task, watch, blind>>
          /\ \A k \in Jobs \ {j} : index'[k].end = index[k].end
      BY <1>e, <1>t, <2>6 DEF CancelEnd, SetCancel, Settling
    <3>2. \A k \in Jobs : Closing(k)' => Closing(k)
      BY <3>1 DEF Closing
    <3>. QED
      BY <1>k, <3>1, <3>2
  <2>. QED
    BY <1>3, <2>1, <2>2, <2>3, <2>4, <2>5, <2>6 DEF Canceller
<1>4. ASSUME NEW j \in Jobs, Reattacher(j)
      PROVE  SettledBeforeClosed'
  <2>1. CASE ScanEntry(j)
    <3>1. PICK probed \in Probes :
             IF Verdict(j, probed) = "matches"
             THEN watch' = [watch EXCEPT ![j] = "poll"] /\ UNCHANGED <<index, blind>>
             ELSE /\ RecordEnd(j, "unknown")
                  /\ blind' = IF probed THEN blind ELSE blind \cup {j}
                  /\ UNCHANGED watch
      BY <2>1 DEF ScanEntry
    <3>2. UNCHANGED <<os, pid, task, cancel>> /\ pid[j] \in Pids
      BY <1>p, <2>1 DEF ScanEntry
    <3>3. CASE Verdict(j, probed) = "matches"
      <4>1. \A k \in Jobs : Closing(k)' => Closing(k)
        BY <1>t, <3>1, <3>2, <3>3 DEF Closing
      <4>. QED
        BY <1>k, <3>2, <4>1
    <3>4. CASE Verdict(j, probed) # "matches" /\ probed
      <4>1. Settled(j)
        BY <1>g, <3>2, <3>4 DEF Verdict, pid_finished
      <4>2. \A k \in Jobs \ {j} : Closing(k)' => Closing(k)
        BY <1>e, <3>1, <3>2, <3>4 DEF Closing
      <4>. QED
        BY <1>k, <3>2, <4>1, <4>2 DEF Settled
    <3>5. CASE Verdict(j, probed) # "matches" /\ ~ probed
      <4>1. \A k \in Jobs \ {j} : Closing(k)' => Closing(k)
        BY <1>e, <3>1, <3>2, <3>5 DEF Closing
      <4>2. Closing(j)' => Closing(j)
        BY <3>1, <3>2, <3>5 DEF Closing
      <4>. QED
        BY <1>k, <3>2, <4>1, <4>2
    <3>. QED
      BY <3>3, <3>4, <3>5
  <2>2. CASE WatchPoll(j)
    <3>1. /\ watch[j] # "none" /\ pid_finished(pid[j])
          /\ \A k \in Jobs \ {j} : watch'[k] = watch[k]
          /\ UNCHANGED <<os, pid, task, cancel, index, blind>>
      BY <1>t, <2>2 DEF WatchPoll
    <3>2. Settled(j)' /\ pid[j] \in Pids
      BY <1>g, <1>p, <3>1 DEF pid_finished, Settled
    <3>3. \A k \in Jobs \ {j} : Closing(k)' => Closing(k)
      BY <3>1 DEF Closing
    <3>. QED
      BY <1>k, <3>1, <3>2, <3>3
  <2>3. CASE WatchFinish(j)
    <3>1. /\ watch[j] = "finish" /\ \A k \in Jobs \ {j} : watch'[k] = watch[k]
          /\ UNCHANGED <<os, pid, task, cancel, blind>>
          /\ \A k \in Jobs \ {j} : index'[k].end = index[k].end
      BY <1>e, <1>t, <2>3 DEF WatchFinish
    <3>2. \A k \in Jobs : Closing(k)' => Closing(k)
      BY <3>1 DEF Closing
    <3>. QED
      BY <1>k, <3>1, <3>2
  <2>. QED
    BY <1>4, <2>1, <2>2, <2>3 DEF Reattacher
<1>5. ASSUME NEW p \in Pids, OtherStarts(p)
      PROVE  SettledBeforeClosed'
  <2>1. /\ os' = [os EXCEPT ![p] = [owner |-> Other, state |-> "run", sig |-> "none"]]
        /\ UNCHANGED <<pid, task, cancel, watch, index, blind>>
    BY <1>0, <1>5, OccupyTakes DEF OtherStarts
  <2>2. \A k \in Jobs : Settled(k) => Settled(k)'
    BY <1>t, <2>1, OwnersAssumption DEF Settled
  <2>. QED
    BY <1>s, <2>1, <2>2 DEF Closing
<1>6. ASSUME NEW p \in Pids, ProcessEnds(p)
      PROVE  SettledBeforeClosed'
  <2>1. \/ os' = [os EXCEPT ![p] = [os[p] EXCEPT !.state = "zombie"]]
        \/ os' = [os EXCEPT ![p] = JobFree]
    BY <1>6 DEF ProcessEnds
  <2>2. \A r \in Pids : os'[r].state = "run" => os'[r] = os[r]
    BY <1>t, <2>1 DEF Process, JobFree
  <2>3. UNCHANGED <<pid, task, cancel, watch, index, blind>>
    BY <1>6 DEF ProcessEnds
  <2>. QED
    BY <1>k, <2>2, <2>3 DEF Closing
<1>7. CASE Crash
  <2>1. \A r \in Pids : os'[r].state = "run" => os'[r] = os[r]
    BY <1>7 DEF Crash, JobFree
  <2>2. \A k \in Jobs : Closing(k)' => Closing(k)
    BY <1>7 DEF Crash, Closing, Settling
  <2>. QED
    BY <1>7, <1>k, <2>1, <2>2 DEF Crash
<1>8. CASE Restart \/ ScanTimeout
  BY <1>8, <1>k DEF Restart, ScanTimeout, Closing
<1>9. CASE UNCHANGED jobsVars
  BY <1>9, <1>k DEF jobsVars, Closing
<1>. QED
  BY <1>1, <1>2, <1>3, <1>4, <1>5, <1>6, <1>7, <1>8, <1>9 DEF JobsNext

\* Before the first submission there are no processes and no entries.
LEMMA InitJobsInv == JobsInit => JobsInv
<1>. SUFFICES ASSUME JobsInit PROVE JobsInv
  OBVIOUS
<1>1. JobsTypeOK
  BY FreeIsProcess, FaultsAssumption, OwnersAssumption DEF JobsInit, JobsTypeOK, Process
<1>2. OneProcess /\ ChildrenAreCollected
  BY OwnersAssumption DEF JobsInit, OneProcess, ChildrenAreCollected, JobChildren, JobFree
<1>3. ActOnRecorded /\ VerifiedOrReused /\ ForeignOnlyAfterReuse
  BY DEF JobsInit, ActOnRecorded, VerifiedOrReused, Verified, ForeignOnlyAfterReuse
<1>4. SettledBeforeClosed
  BY DEF JobsInit, SettledBeforeClosed, Closing, Settling
<1>. QED
  BY <1>1, <1>2, <1>3, <1>4 DEF JobsInv

\* JobsInv is an invariant of the console's jobs.
THEOREM JobsInvariance == JobsSpec => []JobsInv
<1>1. JobsInv /\ [JobsNext]_jobsVars => JobsInv'
  BY JobsTypeStep, OneProcessStep, ActStep, VerifiedStep, SettledStep DEF JobsInv
<1>. QED
  BY InitJobsInv, <1>1, PTL DEF JobsSpec

\* A child keeps its pid until the party that waits for it collects it, whatever
\* is cancelled, fails or crashes meanwhile.
THEOREM ChildrenKeepTheirPids == JobsSpec => []ChildrenAreCollected
BY JobsInvariance, PTL DEF JobsInv

\* No signal of a cancellation or of a cleanup reaches a foreign process, unless
\* the pid changed hands after the identity check of that cancellation.
THEOREM SignalsFindTheirJob == JobsSpec => []ForeignOnlyAfterReuse
BY JobsInvariance, PTL DEF JobsInv

\* A closed entry, which lets the next job of the profile start, means that the
\* process of the job is gone or has been sent a SIGKILL, unless the OS could not
\* be asked by the scan after a restart.
THEOREM ClosedIsGone == JobsSpec => []ClosedMeansGone
<1>1. JobsInv => ClosedMeansGone
  <2>. SUFFICES ASSUME JobsInv, NEW j \in Jobs \ blind, index[j].end # "none", Running(j)
                PROVE  \E p \in Pids : os[p].owner = j /\ os[p].sig = "kill"
    BY DEF ClosedMeansGone
  <2>1. Settled(j)
    BY DEF JobsInv, SettledBeforeClosed, Closing
  <2>. QED
    BY <2>1 DEF Settled, Running
<1>. QED
  BY JobsInvariance, <1>1, PTL

--------------------------------------------------------------------------------
(* The files of the history. *)

Files == Seq(Lines) \cup {NoFile}

\* The start of a job is among the lines; its end is, after its start.
HasStart(s, j) == \E m \in DOMAIN s : s[m] = Line("start", j)
HasEnd(s, j) ==
    \E m, n \in DOMAIN s : m < n /\ s[m] = Line("start", j) /\ s[n] = Line("end", j)

\* A set of natural numbers that is not empty has a least one.
LEMMA LeastOfNaturals ==
    ASSUME NEW S \in SUBSET Nat, S # {}
    PROVE  \E m \in S : \A k \in S : m <= k
<1>1. PICK m \in S : \A k \in S : <<k, m>> \notin OpToRel(<, Nat)
  BY NatLessThanWellFounded, WFMin
<1>2. \A k \in S : ~ (k < m)
  BY <1>1 DEF OpToRel
<1>. QED
  BY <1>2

\* The kinds of the lines, and whose they are.
LEMMA LineFacts ==
    /\ Torn \in Lines
    /\ \A j \in History : Line("start", j) \in Lines /\ Line("log", j) \in Lines /\ Line("end", j) \in Lines
    /\ \A j, k \in History : Line("start", j) = Line("start", k) => j = k
    /\ \A j, k \in History : Line("end", j) = Line("end", k) => j = k
    /\ \A j, k \in History : Line("start", j) \notin {Torn, Line("log", k), Line("end", k)}
    /\ \A j, k \in History : Line("end", j) \notin {Torn, Line("log", k)}
    /\ \A j \in History : Line("start", j)[1] = "start" /\ Line("end", j)[1] = "end"
    /\ \A l \in Lines : l[1] \in {"torn", "start", "log", "end"}
  BY DEF Torn, Line, Lines

\* A file that is not there is none of lines.
LEMMA ContentFacts ==
    ASSUME NEW f \in Files
    PROVE  /\ Content(f) \in Seq(Lines)
           /\ Present(f) <=> f \in Seq(Lines)
           /\ Present(f) => Content(f) = f
           /\ ~ Present(f) => Content(f) = <<>>
<1>1. NoFile \notin Seq(Lines)
  <2>1. SUFFICES ASSUME NoFile \in Seq(Lines) PROVE FALSE
    OBVIOUS
  <2>2. 1 \in 1 .. Len(NoFile) /\ NoFile[1] = <<"absent", 0>>
    BY DEF NoFile
  <2>3. NoFile[1] \in Lines
    <3>1. \A t \in Seq(Lines) : 1 \in 1 .. Len(t) => t[1] \in Lines
      BY ElementOfSeq
    <3>. QED
      BY <2>1, <2>2, <3>1
  <2>4. NoFile[1][1] = "absent"
    <3>1. \A w : w = <<"absent", 0>> => w[1] = "absent"
      OBVIOUS
    <3>. QED
      BY <2>2, <3>1
  <2>. QED
    BY <2>3, <2>4, LineFacts
<1>2. <<>> \in Seq(Lines)
  OBVIOUS
<1>. QED
  BY <1>1, <1>2 DEF Files, Content, Present

\* Nothing is in an empty file.
LEMMA EmptyHasNothing == \A j \in History : ~ HasStart(<<>>, j) /\ ~ HasEnd(<<>>, j)
  BY DEF HasStart, HasEnd

\* An end has a start.
LEMMA EndHasStart == \A s : \A j \in History : HasEnd(s, j) => HasStart(s, j)
  BY DEF HasStart, HasEnd

\* One line more.
LEMMA OneLineMore ==
    ASSUME NEW s \in Seq(Lines), NEW l \in Lines, NEW k \in History
    PROVE  /\ Append(s, l) \in Seq(Lines)
           /\ HasStart(Append(s, l), k) <=> HasStart(s, k) \/ l = Line("start", k)
           /\ HasEnd(s, k) => HasEnd(Append(s, l), k)
           /\ HasStart(s, k) /\ l = Line("end", k) => HasEnd(Append(s, l), k)
<1>. DEFINE t == Append(s, l)
<1>1. /\ t \in Seq(Lines) /\ Len(s) \in Nat /\ DOMAIN s = 1 .. Len(s) /\ DOMAIN t = 1 .. Len(s) + 1
      /\ \A m \in 1 .. Len(s) : t[m] = s[m]
      /\ t[Len(s) + 1] = l
  BY AppendProperties, LenProperties
<1>. HIDE DEF t
<1>2. HasStart(t, k) <=> HasStart(s, k) \/ l = Line("start", k)
  BY <1>1 DEF HasStart
<1>3. HasEnd(s, k) => HasEnd(t, k)
  BY <1>1 DEF HasEnd
<1>4. HasStart(s, k) /\ l = Line("end", k) => HasEnd(t, k)
  BY <1>1 DEF HasStart, HasEnd
<1>. QED
  BY <1>1, <1>2, <1>3, <1>4 DEF t

\* One file behind the other.
LEMMA OneBehindTheOther ==
    ASSUME NEW s \in Seq(Lines), NEW t \in Seq(Lines), NEW k \in History
    PROVE  /\ s \o t \in Seq(Lines)
           /\ HasStart(s \o t, k) <=> HasStart(s, k) \/ HasStart(t, k)
           /\ HasEnd(s, k) \/ HasEnd(t, k) => HasEnd(s \o t, k)
<1>. DEFINE u == s \o t
<1>1. /\ u \in Seq(Lines) /\ Len(s) \in Nat /\ Len(t) \in Nat
      /\ DOMAIN s = 1 .. Len(s) /\ DOMAIN t = 1 .. Len(t) /\ DOMAIN u = 1 .. Len(s) + Len(t)
      /\ \A m \in 1 .. Len(s) : u[m] = s[m]
      /\ \A m \in 1 .. Len(t) : u[Len(s) + m] = t[m]
      /\ \A m \in 1 .. Len(s) + Len(t) : m > Len(s) => m - Len(s) \in 1 .. Len(t) /\ u[m] = t[m - Len(s)]
  BY ConcatProperties, LenProperties
<1>. HIDE DEF u
<1>2. HasStart(s, k) => HasStart(u, k)
  BY <1>1 DEF HasStart
<1>3. HasStart(t, k) => HasStart(u, k)
  BY <1>1 DEF HasStart
<1>4. HasStart(u, k) => HasStart(s, k) \/ HasStart(t, k)
  <2>1. SUFFICES ASSUME NEW m \in 1 .. Len(s) + Len(t), u[m] = Line("start", k)
                 PROVE  HasStart(s, k) \/ HasStart(t, k)
    BY <1>1 DEF HasStart
  <2>2. CASE m > Len(s)
    BY <1>1, <2>1, <2>2 DEF HasStart
  <2>3. CASE ~ (m > Len(s))
    <3>1. m \in 1 .. Len(s)
      BY <1>1, <2>3
    <3>. QED
      BY <1>1, <2>1, <3>1 DEF HasStart
  <2>. QED
    BY <2>2, <2>3
<1>5. HasEnd(s, k) => HasEnd(u, k)
  BY <1>1 DEF HasEnd
<1>6. HasEnd(t, k) => HasEnd(u, k)
  <2>1. SUFFICES ASSUME NEW m \in 1 .. Len(t), NEW n \in 1 .. Len(t), m < n,
                        t[m] = Line("start", k), t[n] = Line("end", k)
                 PROVE  HasEnd(u, k)
    BY <1>1 DEF HasEnd
  <2>2. /\ Len(s) + m \in DOMAIN u /\ Len(s) + n \in DOMAIN u /\ Len(s) + m < Len(s) + n
        /\ u[Len(s) + m] = Line("start", k) /\ u[Len(s) + n] = Line("end", k)
    BY <1>1, <2>1
  <2>. QED
    BY <2>2 DEF HasEnd
<1>. QED
  BY <1>1, <1>2, <1>3, <1>4, <1>5, <1>6 DEF u

\* The records of the first n lines of a file, from those of the first n - 1.
NextRecord(s, before, n) ==
    IF s[n][1] \in {"start", "end"} THEN Append(before, s[n]) ELSE before
RecordsOf(s, f) ==
    f = [n \in 0 .. Len(s) |-> IF n = 0 THEN <<>> ELSE NextRecord(s, f[n - 1], n)]

\* They are defined for every file.
LEMMA RecordsExist ==
    ASSUME NEW s \in Seq(Lines)
    PROVE  \E f : RecordsOf(s, f)
<1>. DEFINE Upto(n, f) == f = [i \in 0 .. n |-> IF i = 0 THEN <<>> ELSE NextRecord(s, f[i - 1], i)]
            Fails == {n \in Nat : ~ \E f : Upto(n, f)}
<1>1. \A n \in Nat : \E f : Upto(n, f)
  <2>1. SUFFICES ASSUME Fails # {} PROVE FALSE
    OBVIOUS
  <2>2. PICK n \in Fails : \A k \in Fails : n <= k
    BY <2>1, LeastOfNaturals
  <2>3. \E f : Upto(0, f)
    <3>1. Upto(0, [i \in 0 .. 0 |-> <<>>])
      OBVIOUS
    <3>. QED
      BY <3>1
  <2>4. n # 0 /\ n - 1 \in Nat /\ n - 1 \notin Fails
    <3>. HIDE DEF Upto
    <3>. QED
      BY <2>2, <2>3
  <2>5. PICK f : Upto(n - 1, f)
    BY <2>4
  <2>. DEFINE g == [i \in 0 .. n |-> IF i = n THEN NextRecord(s, f[n - 1], n) ELSE f[i]]
  <2>6. n \in Nat /\ n - 1 \in 0 .. n
    BY <2>2, <2>4
  <2>7. \A i \in 0 .. n : g[i] = IF i = 0 THEN <<>> ELSE NextRecord(s, g[i - 1], i)
    <3>1. SUFFICES ASSUME NEW i \in 0 .. n
                   PROVE  g[i] = IF i = 0 THEN <<>> ELSE NextRecord(s, g[i - 1], i)
      OBVIOUS
    <3>2. CASE i = n
      <4>1. g[i] = NextRecord(s, f[n - 1], n)
        BY <3>2, <2>6
      <4>2. g[n - 1] = f[n - 1]
        BY <2>6
      <4>3. g[i] = NextRecord(s, g[i - 1], i) /\ i # 0
        BY <4>1, <4>2, <3>2, <2>4
      <4>. HIDE DEF g
      <4>. QED
        BY <4>3
    <3>3. CASE i # n
      <4>1. i \in 0 .. n - 1
        BY <3>3, <2>6
      <4>2. g[i] = f[i]
        BY <3>3
      <4>3. f[i] = IF i = 0 THEN <<>> ELSE NextRecord(s, f[i - 1], i)
        BY <2>5, <4>1
      <4>4. i # 0 => g[i - 1] = f[i - 1]
        BY <4>1, <2>6
      <4>. HIDE DEF g
      <4>. QED
        BY <4>2, <4>3, <4>4
    <3>. QED
      BY <3>2, <3>3
  <2>8. Upto(n, g)
    BY <2>7
  <2>. QED
    BY <2>2, <2>8
<1>2. Len(s) \in Nat
  BY LenProperties
<1>. QED
  BY <1>1, <1>2 DEF RecordsOf

\* Leaving out the lines of output leaves in the starts, and the ends behind them.
LEMMA RecordsKeep ==
    ASSUME NEW s \in Seq(Lines), NEW k \in History
    PROVE  /\ Records(s) \in Seq(Lines)
           /\ HasStart(Records(s), k) <=> HasStart(s, k)
           /\ HasEnd(s, k) => HasEnd(Records(s), k)
<1>. DEFINE F == CHOOSE f : RecordsOf(s, f)
<1>1. RecordsOf(s, F)
  BY RecordsExist
<1>2. Records(s) = F[Len(s)]
  BY DEF Records, RecordsOf, NextRecord
<1>. HIDE DEF F
<1>3. Len(s) \in Nat /\ DOMAIN s = 1 .. Len(s)
  BY LenProperties
<1>. DEFINE StartTo(n) == \E m \in 1 .. n : s[m] = Line("start", k)
            EndTo(n) == \E m, p \in 1 .. n : m < p /\ s[m] = Line("start", k) /\ s[p] = Line("end", k)
            Good(n) == /\ F[n] \in Seq(Lines)
                       /\ HasStart(F[n], k) <=> StartTo(n)
                       /\ EndTo(n) => HasEnd(F[n], k)
            Bad == {n \in 0 .. Len(s) : ~ Good(n)}
<1>4. Good(0)
  <2>1. F[0] = <<>>
    BY <1>1, <1>3 DEF RecordsOf
  <2>2. ~ StartTo(0) /\ ~ EndTo(0)
    OBVIOUS
  <2>. HIDE DEF StartTo, EndTo
  <2>. QED
    BY <2>1, <2>2, EmptyHasNothing
<1>5. ASSUME NEW n \in 1 .. Len(s), Good(n - 1)
      PROVE  Good(n)
  <2>1. F[n] = NextRecord(s, F[n - 1], n)
    BY <1>1, <1>3 DEF RecordsOf
  <2>2. s[n] \in Lines
    BY <1>3, ElementOfSeq
  <2>3. /\ StartTo(n) <=> StartTo(n - 1) \/ s[n] = Line("start", k)
        /\ EndTo(n) => EndTo(n - 1) \/ (StartTo(n - 1) /\ s[n] = Line("end", k))
    <3>1. \A m \in 1 .. n : m = n \/ m \in 1 .. n - 1
      OBVIOUS
    <3>2. \A m \in 1 .. n - 1 : m \in 1 .. n
      OBVIOUS
    <3>3. n \in 1 .. n /\ \A m \in 1 .. n : ~ (n < m)
      OBVIOUS
    <3>. QED
      BY <3>1, <3>2, <3>3
  <2>. HIDE DEF StartTo, EndTo
  <2>4. CASE s[n][1] \in {"start", "end"}
    <3>1. F[n] = Append(F[n - 1], s[n])
      BY <2>1, <2>4 DEF NextRecord
    <3>. QED
      BY <1>5, <2>2, <2>3, <3>1, OneLineMore
  <2>5. CASE s[n][1] \notin {"start", "end"}
    <3>1. F[n] = F[n - 1]
      BY <2>1, <2>5 DEF NextRecord
    <3>2. s[n] # Line("start", k) /\ s[n] # Line("end", k)
      BY <2>5, LineFacts
    <3>. QED
      BY <1>5, <2>3, <3>1, <3>2
  <2>. QED
    BY <2>4, <2>5
<1>. HIDE DEF Good
<1>6. Bad = {}
  <2>1. SUFFICES ASSUME Bad # {} PROVE FALSE
    OBVIOUS
  <2>2. Bad \in SUBSET Nat
    BY <1>3
  <2>3. PICK n \in Bad : \A m \in Bad : n <= m
    BY <2>1, <2>2, LeastOfNaturals
  <2>4. n # 0
    BY <1>4, <2>3
  <2>5. n \in 1 .. Len(s) /\ n - 1 \in 0 .. Len(s) /\ n - 1 \notin Bad
    BY <1>3, <2>3, <2>4
  <2>. QED
    BY <1>5, <2>3, <2>5
<1>7. Good(Len(s))
  BY <1>3, <1>6
<1>8. /\ StartTo(Len(s)) <=> HasStart(s, k)
      /\ HasEnd(s, k) => EndTo(Len(s))
  BY <1>3 DEF HasStart, HasEnd
<1>. HIDE DEF StartTo, EndTo
<1>. QED
  BY <1>2, <1>7, <1>8 DEF Good

--------------------------------------------------------------------------------
(* What an append leaves in a file, whether it failed or not. *)

\* A file after an append: it has what it had, and no other start than j's.
Follows(f, g, j) ==
    /\ g \in Files
    /\ Present(f) => Present(g)
    /\ \A k \in History :
         /\ HasStart(Content(f), k) => HasStart(Content(g), k)
         /\ HasEnd(Content(f), k) => HasEnd(Content(g), k)
         /\ HasStart(Content(g), k) => HasStart(Content(f), k) \/ k = j

\* The same, and not even that one.
FollowsPlain(f, g) ==
    /\ g \in Files
    /\ Present(f) => Present(g)
    /\ \A k \in History :
         /\ HasStart(Content(f), k) <=> HasStart(Content(g), k)
         /\ HasEnd(Content(f), k) => HasEnd(Content(g), k)

\* An append that succeeded.
LEMMA Appended ==
    ASSUME NEW f \in Files, NEW j \in History, NEW l \in Lines,
           l \in {Line("start", j), Line("log", j), Line("end", j), Torn}
    PROVE  /\ Follows(f, AppendLine(f, l), j) /\ Present(AppendLine(f, l))
           /\ l # Line("start", j) => FollowsPlain(f, AppendLine(f, l))
           /\ l = Line("start", j) => HasStart(Content(AppendLine(f, l)), j)
           /\ l = Line("end", j) /\ HasStart(Content(f), j) => HasEnd(Content(AppendLine(f, l)), j)
<1>. DEFINE g == Append(Content(f), l)
<1>1. Content(f) \in Seq(Lines)
  BY ContentFacts
<1>2. g \in Seq(Lines) /\ g \in Files /\ AppendLine(f, l) = g
  BY <1>1, OneLineMore DEF Files, AppendLine
<1>3. Content(g) = g /\ Present(g)
  BY <1>2, ContentFacts
<1>4. \A k \in History :
         /\ HasStart(g, k) <=> HasStart(Content(f), k) \/ l = Line("start", k)
         /\ HasEnd(Content(f), k) => HasEnd(g, k)
         /\ HasStart(Content(f), k) /\ l = Line("end", k) => HasEnd(g, k)
  BY <1>1, OneLineMore
<1>5. \A k \in History : l = Line("start", k) => k = j /\ l = Line("start", j)
  BY LineFacts
<1>. HIDE DEF g
<1>. QED
  BY <1>2, <1>3, <1>4, <1>5 DEF Follows, FollowsPlain

\* An append that failed.
LEMMA FailedAppend ==
    ASSUME NEW f \in Files, NEW j \in History, NEW g \in FailedAppends(f)
    PROVE  FollowsPlain(f, g)
<1>1. CASE g = f
  BY <1>1 DEF FollowsPlain
<1>2. CASE g = Content(f)
  <2>1. g \in Seq(Lines) /\ g \in Files
    BY <1>2, ContentFacts DEF Files
  <2>2. Content(g) = g /\ Present(g)
    BY <2>1, ContentFacts
  <2>. QED
    BY <1>2, <2>1, <2>2 DEF FollowsPlain
<1>3. CASE g = AppendLine(f, Torn)
  BY <1>3, Appended, LineFacts
<1>. QED
  BY <1>1, <1>2, <1>3 DEF FailedAppends

LEMMA PlainFollows ==
    ASSUME NEW f, NEW g, NEW j \in History, FollowsPlain(f, g)
    PROVE  Follows(f, g, j)
  BY DEF Follows, FollowsPlain

\* As far as a start and an end go, the first n lines hold no more.
LEMMA PrefixHasNoOther ==
    ASSUME NEW s \in Seq(Lines), NEW n \in 0 .. Len(s), NEW k \in History
    PROVE  SubSeq(s, 1, n) \in Seq(Lines) /\ (HasStart(SubSeq(s, 1, n), k) => HasStart(s, k))
<1>. DEFINE t == SubSeq(s, 1, n)
<1>1. Len(s) \in Nat /\ DOMAIN s = 1 .. Len(s) /\ \A m \in 1 .. Len(s) : s[m] \in Lines
  BY LenProperties, ElementOfSeq
<1>2. /\ t \in Seq(Lines) /\ DOMAIN t = 1 .. n
      /\ \A m \in 1 .. n : t[m] = s[m]
  <2>1. t = [m \in 1 .. n |-> s[m]]
    BY <1>1
  <2>2. n \in Nat /\ \A m \in 1 .. n : s[m] \in Lines
    BY <1>1
  <2>. HIDE DEF t
  <2>. QED
    BY <2>1, <2>2, IsASeq
<1>. HIDE DEF t
<1>3. HasStart(t, k) => HasStart(s, k)
  BY <1>1, <1>2 DEF HasStart
<1>. QED
  BY <1>2, <1>3 DEF t

--------------------------------------------------------------------------------
(* The inductive invariant. *)

WriterSteps == {"none", "start_index", "rotate", "run", "end_log", "end_index", "note", "over"}
Rebuilds == [step : {"none", "read", "rename"}, todo : SUBSET History, body : Seq(Lines)]
Confirmations == {"none", "start", "end"}
Attempts == 1 .. FinishAttempts

HistoryTypes ==
    /\ logFile \in [History -> Files]
    /\ jobIndex \in Files
    /\ writer \in [History -> WriterSteps]
    /\ attempt \in [History -> Attempts]
    /\ serving \in {"down", "list", "rebuild", "up"}
    /\ rebuild \in Rebuilds
    /\ mishaps \in [HistoryFaults -> Nat]
    /\ confirmed \in [History -> Confirmations]
    /\ shortened \in SUBSET History /\ passedBy \in SUBSET History

\* A job whose start is in the index, and whoever was told so.
Begun == {"rotate", "run", "end_log", "end_index"}
Owed(j) == confirmed[j] # "none" \/ writer[j] \in Begun

\* What the lines must hold of a job.
Kept(s, j) == (Owed(j) => HasStart(s, j)) /\ (confirmed[j] = "end" => HasEnd(s, j))

\* What is in the index is in the log file first, unless lines of it were lost.
StartInLog(j) ==
    (/\ j \notin shortened
     /\ \/ writer[j] = "start_index" \/ Owed(j)
        \/ HasStart(Content(jobIndex), j) \/ HasStart(rebuild.body, j))
    => HasStart(Content(logFile[j]), j)
EndInLog(j) ==
    (j \notin shortened /\ (writer[j] = "end_index" \/ confirmed[j] = "end"))
    => HasEnd(Content(logFile[j]), j)

\* A log file has the start of no other job.
OwnStarts(j) == \A k \in History : HasStart(Content(logFile[j]), k) => k = j

\* The index shows what was confirmed.
InIndex(j) == (Present(jobIndex) /\ ~ IndexGivesUp(j)) => Kept(Content(jobIndex), j)

NotYet(j) == writer[j] \in {"none", "start_index"} => confirmed[j] = "none"

\* So will the one that is being made, for the log files that were read.
InRebuild(j) ==
    (rebuild.step # "none" /\ j \notin passedBy \cup shortened \cup rebuild.todo)
    => Kept(rebuild.body, j)

\* Before an index was there that nobody removed, no job began.
TooEarly(j) ==
    ((~ Present(jobIndex) \/ rebuild.step # "none") /\ ~ IndexWasRemoved /\ j \notin passedBy)
    => ~ Owed(j)

RebuildSteps ==
    /\ serving \in {"down", "list"} => rebuild.step = "none"
    /\ rebuild.step = "rename" => rebuild.todo = {}

HistoryInv ==
    /\ HistoryTypes /\ RebuildSteps
    /\ \A j \in History :
         /\ StartInLog(j) /\ EndInLog(j) /\ OwnStarts(j)
         /\ InIndex(j) /\ NotYet(j) /\ InRebuild(j) /\ TooEarly(j)

\* What a fault counts; an index that was removed stays removed.
LEMMA HappensCounts ==
    ASSUME HistoryTypes, NEW w, Happens(w)
    PROVE  mishaps' \in [HistoryFaults -> Nat] /\ (IndexWasRemoved => IndexWasRemoved')
<1>1. mishaps \in [HistoryFaults -> Nat] /\ w \in HistoryFaults
  BY DEF HistoryTypes, Happens
<1>2. mishaps' = [mishaps EXCEPT ![w] = mishaps[w] + 1]
  BY DEF Happens
<1>3. PICK n \in Nat : n = mishaps[w] + 1 /\ n > 0
  BY <1>1
<1>4. mishaps' = [mishaps EXCEPT ![w] = n]
  BY <1>2, <1>3
<1>5. mishaps' \in [HistoryFaults -> Nat] /\ \A v \in HistoryFaults : mishaps'[v] = mishaps[v] \/ mishaps'[v] = n
  BY <1>1, <1>4
<1>6. "remove" \in HistoryFaults /\ mishaps["remove"] > 0 => mishaps'["remove"] > 0
  BY <1>3, <1>5
<1>. QED
  BY <1>5, <1>6 DEF IndexWasRemoved

LEMMA SameMishaps ==
    ASSUME UNCHANGED mishaps
    PROVE  IndexWasRemoved' <=> IndexWasRemoved
  BY DEF IndexWasRemoved

--------------------------------------------------------------------------------
(* The steps. *)

\* The parts of the invariant for one job, without its types.
Good(k) ==
    /\ StartInLog(k) /\ EndInLog(k) /\ OwnStarts(k)
    /\ InIndex(k) /\ NotYet(k) /\ InRebuild(k) /\ TooEarly(k)

\* A line for the log file of a job.
LEMMA LogStep ==
    ASSUME HistoryInv, NEW j \in History, NEW g, NEW w \in WriterSteps,
           Follows(logFile[j], g, j),
           ToLog(j, g), writer' = [writer EXCEPT ![j] = w],
           mishaps' \in [HistoryFaults -> Nat], IndexWasRemoved => IndexWasRemoved',
           attempt' \in [History -> Attempts],
           UNCHANGED <<jobIndex, serving, rebuild, confirmed, shortened, passedBy>>,
           w \in Begun => writer[j] \in Begun,
           w \in {"none", "start_index"} => writer[j] = "none",
           w = "start_index" => HasStart(Content(g), j),
           w = "end_index" => j \in shortened \/ HasEnd(Content(g), j)
    PROVE  HistoryInv'
<1>t. /\ logFile \in [History -> Files] /\ writer \in [History -> WriterSteps] /\ g \in Files
      /\ logFile' = [logFile EXCEPT ![j] = g]
  BY DEF HistoryInv, HistoryTypes, ToLog, Follows
<1>1. HistoryTypes'
  <2>1. logFile' \in [History -> Files] /\ writer' \in [History -> WriterSteps]
    BY <1>t
  <2>. QED
    BY <2>1 DEF HistoryInv, HistoryTypes
<1>2. RebuildSteps'
  BY DEF HistoryInv, RebuildSteps
<1>3. ASSUME NEW k \in History PROVE Good(k)'
  <2>1. Good(k)
    BY DEF HistoryInv, Good
  <2>2. /\ \A i \in History : HasStart(Content(logFile[k]), i) => HasStart(Content(logFile'[k]), i)
        /\ \A i \in History : HasEnd(Content(logFile[k]), i) => HasEnd(Content(logFile'[k]), i)
        /\ \A i \in History : HasStart(Content(logFile'[k]), i) => HasStart(Content(logFile[k]), i) \/ i = k
    <3>1. CASE k = j
      BY <1>t, <3>1 DEF Follows
    <3>2. CASE k # j
      <4>1. logFile'[k] = logFile[k]
        BY <1>t, <3>2
      <4>. QED
        BY <4>1
    <3>. QED
      BY <3>1, <3>2
  <2>3. (k = j /\ writer'[k] = w) \/ (k # j /\ writer'[k] = writer[k])
    BY <1>t
  <2>4. k = j => logFile'[k] = g
    BY <1>t
  <2>5. /\ confirmed' = confirmed /\ jobIndex' = jobIndex /\ rebuild' = rebuild
        /\ shortened' = shortened /\ passedBy' = passedBy
    OBVIOUS
  <2>6. Owed(k)' => Owed(k)
    BY <2>3, <2>5 DEF Owed
  <2>7. StartInLog(k)'
    BY <2>1, <2>2, <2>3, <2>4, <2>5, <2>6 DEF Good, StartInLog
  <2>8. EndInLog(k)'
    BY <2>1, <2>2, <2>3, <2>4, <2>5 DEF Good, EndInLog
  <2>9. OwnStarts(k)'
    BY <2>1, <2>2 DEF Good, OwnStarts
  <2>10. InIndex(k)' /\ InRebuild(k)'
    BY <2>1, <2>5, <2>6 DEF Good, InIndex, InRebuild, Kept, IndexGivesUp
  <2>11. NotYet(k)'
    BY <2>1, <2>3, <2>5 DEF Good, NotYet
  <2>12. TooEarly(k)'
    BY <2>1, <2>5, <2>6 DEF Good, TooEarly
  <2>. QED
    BY <2>7, <2>8, <2>9, <2>10, <2>11, <2>12 DEF Good
<1>. QED
  BY <1>1, <1>2, <1>3 DEF HistoryInv, Good

\* A line for the index.
LEMMA IndexStep ==
    ASSUME HistoryInv, NEW j \in History, NEW g,
           NEW w \in {"rotate", "over", "end_log", "note"}, NEW c \in Confirmations,
           writer[j] \in {"start_index", "end_index"},
           Follows(jobIndex, g, j),
           ToIndex(j, g), writer' = [writer EXCEPT ![j] = w],
           confirmed' = [confirmed EXCEPT ![j] = c],
           mishaps' \in [HistoryFaults -> Nat], IndexWasRemoved => IndexWasRemoved',
           attempt' \in [History -> Attempts],
           UNCHANGED <<logFile, serving, rebuild, shortened>>,
           w = "end_log" => writer[j] = "end_index",
           w = "rotate" => Present(g) /\ HasStart(Content(g), j),
           c # confirmed[j] => /\ c = "end" /\ writer[j] = "end_index" /\ Present(g)
                               /\ HasStart(Content(jobIndex), j) => HasEnd(Content(g), j)
    PROVE  HistoryInv'
<1>t. /\ writer \in [History -> WriterSteps] /\ confirmed \in [History -> Confirmations]
      /\ jobIndex \in Files /\ g \in Files /\ passedBy \in SUBSET History
      /\ jobIndex' = g
  BY DEF HistoryInv, HistoryTypes, ToIndex, Follows
<1>p. /\ passedBy' \in SUBSET History /\ passedBy \subseteq passedBy'
      /\ rebuild.step # "none" => j \in passedBy'
      /\ ~ Present(jobIndex) /\ Present(g) =>
           \A k \in History : writer[k] \notin {"none", "start_index"} => k \in passedBy'
  BY <1>t DEF ToIndex, Indexed
<1>1. HistoryTypes'
  <2>1. writer' \in [History -> WriterSteps] /\ confirmed' \in [History -> Confirmations]
    BY <1>t DEF WriterSteps
  <2>. QED
    BY <2>1, <1>t, <1>p DEF HistoryInv, HistoryTypes
<1>2. RebuildSteps'
  BY DEF HistoryInv, RebuildSteps
<1>3. ASSUME NEW k \in History PROVE Good(k)'
  <2>1. Good(k)
    BY DEF HistoryInv, Good
  <2>2. /\ HasStart(Content(jobIndex), k) => HasStart(Content(g), k)
        /\ HasEnd(Content(jobIndex), k) => HasEnd(Content(g), k)
        /\ HasStart(Content(g), k) => HasStart(Content(jobIndex), k) \/ k = j
        /\ Present(jobIndex) => Present(g)
    BY DEF Follows
  <2>3. \/ k = j /\ writer'[k] = w /\ confirmed'[k] = c
        \/ k # j /\ writer'[k] = writer[k] /\ confirmed'[k] = confirmed[k]
    BY <1>t
  <2>5. logFile' = logFile /\ jobIndex' = g /\ rebuild' = rebuild /\ shortened' = shortened
    BY <1>t
  <2>6. Owed(k)' => Owed(k) \/ (k = j /\ w = "rotate" /\ writer[j] = "start_index")
    <3>1. k = j /\ writer[j] = "end_index" => Owed(k)
      BY DEF Owed, Begun
    <3>2. k = j /\ writer[j] = "start_index" /\ Owed(k)' => w = "rotate" \/ Owed(k)
      BY <2>3 DEF Owed, Begun
    <3>3. k # j => (Owed(k)' <=> Owed(k))
      BY <2>3 DEF Owed
    <3>4. writer[j] = "end_index" \/ writer[j] = "start_index"
      OBVIOUS
    <3>. QED
      BY <3>1, <3>2, <3>3, <3>4
  <2>7. StartInLog(k)'
    <3>1. k = j => writer[k] = "start_index" \/ Owed(k)
      BY DEF Owed, Begun
    <3>2. writer'[k] = "start_index" => writer[k] = "start_index"
      BY <2>3
    <3>. QED
      BY <2>1, <2>2, <2>5, <2>6, <3>1, <3>2 DEF Good, StartInLog
  <2>8. EndInLog(k)'
    <3>1. writer'[k] = "end_index" \/ confirmed'[k] = "end" => writer[k] = "end_index" \/ confirmed[k] = "end"
      BY <2>3
    <3>. QED
      BY <2>1, <2>5, <3>1 DEF Good, EndInLog
  <2>9. OwnStarts(k)'
    BY <2>1, <2>5 DEF Good, OwnStarts
  <2>10. InIndex(k)'
    <3>1. SUFFICES ASSUME Present(g), ~ (k \in passedBy'), ~ (k \in shortened /\ IndexWasRemoved')
                   PROVE  Kept(Content(g), k)'
      BY <2>5 DEF InIndex, IndexGivesUp
    <3>2. CASE Present(jobIndex)
      <4>1. (Owed(k) => HasStart(Content(jobIndex), k)) /\ (confirmed[k] = "end" => HasEnd(Content(jobIndex), k))
        BY <2>1, <3>1, <3>2, <1>p DEF Good, InIndex, IndexGivesUp, Kept
      <4>2. Owed(k)' => HasStart(Content(g), k)
        BY <4>1, <2>2, <2>6
      <4>3. confirmed'[k] = "end" => HasEnd(Content(g), k)
        <5>1. CASE k = j /\ c # confirmed[j]
          <6>1. Owed(k)
            BY <5>1 DEF Owed, Begun
          <6>. QED
            BY <6>1, <5>1, <4>1
        <5>2. CASE ~ (k = j /\ c # confirmed[j])
          BY <5>2, <4>1, <2>2, <2>3
        <5>. QED
          BY <5>1, <5>2
      <4>. QED
        BY <4>2, <4>3, <2>5 DEF Kept
    <3>3. CASE ~ Present(jobIndex)
      <4>1. writer[k] \in {"none", "start_index"}
        BY <3>1, <3>3, <1>p
      <4>2. confirmed[k] = "none"
        BY <4>1, <2>1 DEF Good, NotYet
      <4>3. confirmed'[k] = "none" /\ ~ Owed(k)
        BY <4>1, <4>2, <2>3 DEF Owed, Begun
      <4>. QED
        BY <4>3, <2>5, <2>6 DEF Kept
    <3>. QED
      BY <3>2, <3>3
  <2>11. NotYet(k)'
    BY <2>1, <2>3 DEF Good, NotYet
  <2>12. InRebuild(k)'
    <3>1. k = j /\ rebuild.step # "none" => k \in passedBy'
      BY <1>p
    <3>2. k # j => (Owed(k)' => Owed(k)) /\ confirmed'[k] = confirmed[k]
      BY <2>3, <2>6
    <3>. QED
      BY <2>1, <2>5, <1>p, <3>1, <3>2 DEF Good, InRebuild, Kept
  <2>13. TooEarly(k)'
    <3>1. SUFFICES ASSUME ~ Present(g) \/ rebuild.step # "none", ~ IndexWasRemoved', ~ (k \in passedBy')
                   PROVE  ~ Owed(k)'
      BY <2>5 DEF TooEarly
    <3>2. ~ Owed(k)
      BY <2>1, <2>2, <3>1, <1>p DEF Good, TooEarly
    <3>3. ~ (k = j /\ w = "rotate")
      BY <3>1, <1>p
    <3>. QED
      BY <3>2, <3>3, <2>6
  <2>. QED
    BY <2>7, <2>8, <2>9, <2>10, <2>11, <2>12, <2>13 DEF Good
<1>. QED
  BY <1>1, <1>2, <1>3 DEF HistoryInv, Good

\* The console goes down.
LEMMA DownStep ==
    ASSUME HistoryInv, NoTasks, UNCHANGED confirmed,
           logFile' \in [History -> Files],
           shortened' \in SUBSET History, shortened \subseteq shortened',
           passedBy' \in SUBSET History, passedBy \subseteq passedBy',
           \A k \in History :
              /\ k \notin shortened' =>
                   /\ HasStart(Content(logFile[k]), k) => HasStart(Content(logFile'[k]), k)
                   /\ HasEnd(Content(logFile[k]), k) => HasEnd(Content(logFile'[k]), k)
              /\ \A i \in History : HasStart(Content(logFile'[k]), i) => HasStart(Content(logFile[k]), i),
           FollowsPlain(jobIndex, jobIndex'),
           ~ Present(jobIndex) /\ Present(jobIndex') =>
              \A k \in History : writer[k] \notin {"none", "start_index"} => k \in passedBy',
           mishaps' \in [HistoryFaults -> Nat], IndexWasRemoved => IndexWasRemoved'
    PROVE  HistoryInv'
<1>t. /\ writer \in [History -> WriterSteps]
      /\ writer' = [k \in History |-> IF writer[k] = "none" THEN "none" ELSE "over"]
      /\ attempt' = [k \in History |-> 1] /\ serving' = "down" /\ rebuild' = NoRebuild
      /\ jobIndex' \in Files
  BY DEF HistoryInv, HistoryTypes, NoTasks, FollowsPlain
<1>1. HistoryTypes'
  <2>1. writer' \in [History -> WriterSteps]
    BY <1>t DEF WriterSteps
  <2>2. attempt' \in [History -> Attempts]
    BY <1>t, HistoryAssumption DEF Attempts
  <2>3. rebuild' \in Rebuilds
    BY <1>t DEF Rebuilds, NoRebuild
  <2>. QED
    BY <2>1, <2>2, <2>3, <1>t DEF HistoryInv, HistoryTypes
<1>2. RebuildSteps'
  BY <1>t DEF RebuildSteps, NoRebuild
<1>3. ASSUME NEW k \in History PROVE Good(k)'
  <2>1. Good(k)
    BY DEF HistoryInv, Good
  <2>2. /\ HasStart(Content(jobIndex), k) <=> HasStart(Content(jobIndex'), k)
        /\ HasEnd(Content(jobIndex), k) => HasEnd(Content(jobIndex'), k)
        /\ Present(jobIndex) => Present(jobIndex')
    BY DEF FollowsPlain
  <2>3. writer'[k] \in {"none", "over"} /\ (writer'[k] = "none" <=> writer[k] = "none")
    BY <1>t
  <2>4. rebuild'.step = "none" /\ ~ HasStart(rebuild'.body, k)
    BY <1>t, EmptyHasNothing DEF NoRebuild
  <2>5. confirmed' = confirmed
    OBVIOUS
  <2>6. Owed(k)' => confirmed[k] # "none" /\ Owed(k)
    BY <2>3, <2>5 DEF Owed, Begun
  <2>7. StartInLog(k)'
    BY <2>1, <2>2, <2>3, <2>4, <2>6 DEF Good, StartInLog
  <2>8. EndInLog(k)'
    BY <2>1, <2>3, <2>5 DEF Good, EndInLog
  <2>9. OwnStarts(k)'
    BY <2>1 DEF Good, OwnStarts
  <2>10. InIndex(k)'
    <3>1. SUFFICES ASSUME Present(jobIndex'), ~ (k \in passedBy'), ~ (k \in shortened' /\ IndexWasRemoved')
                   PROVE  Kept(Content(jobIndex), k)'
      BY DEF InIndex, IndexGivesUp
    <3>2. CASE Present(jobIndex)
      BY <2>1, <2>2, <2>5, <2>6, <3>1, <3>2 DEF Good, InIndex, IndexGivesUp, Kept
    <3>3. CASE ~ Present(jobIndex)
      <4>1. writer[k] \in {"none", "start_index"}
        BY <3>1, <3>3
      <4>2. confirmed[k] = "none"
        BY <4>1, <2>1 DEF Good, NotYet
      <4>. QED
        BY <4>2, <2>5, <2>6 DEF Kept
    <3>. QED
      BY <3>2, <3>3
  <2>11. NotYet(k)'
    BY <2>1, <2>3, <2>5 DEF Good, NotYet
  <2>12. InRebuild(k)'
    BY <2>4 DEF InRebuild
  <2>13. TooEarly(k)'
    BY <2>1, <2>2, <2>4, <2>6 DEF Good, TooEarly
  <2>. QED
    BY <2>7, <2>8, <2>9, <2>10, <2>11, <2>12, <2>13 DEF Good
<1>. QED
  BY <1>1, <1>2, <1>3 DEF HistoryInv, Good

LEMMA InvTypes ==
    ASSUME HistoryInv
    PROVE  /\ HistoryTypes
           /\ logFile \in [History -> Files] /\ jobIndex \in Files
           /\ writer \in [History -> WriterSteps] /\ attempt \in [History -> Attempts]
           /\ mishaps \in [HistoryFaults -> Nat] /\ confirmed \in [History -> Confirmations]
           /\ \A j \in History : logFile[j] \in Files /\ Good(j)
<1>1. /\ HistoryTypes
      /\ logFile \in [History -> Files] /\ jobIndex \in Files
      /\ writer \in [History -> WriterSteps] /\ attempt \in [History -> Attempts]
      /\ mishaps \in [HistoryFaults -> Nat] /\ confirmed \in [History -> Confirmations]
  BY DEF HistoryInv, HistoryTypes
<1>. QED
  BY <1>1 DEF HistoryInv, Good

\* What of mishaps an append does, failed or not.
LEMMA MishapsAfter ==
    ASSUME HistoryInv, NEW w, Happens(w) \/ UNCHANGED mishaps
    PROVE  mishaps' \in [HistoryFaults -> Nat] /\ (IndexWasRemoved => IndexWasRemoved')
<1>1. CASE Happens(w)
  BY <1>1, InvTypes, HappensCounts
<1>2. CASE UNCHANGED mishaps
  BY <1>2, InvTypes, SameMishaps
<1>. QED
  BY <1>1, <1>2

LEMMA StepStartLog ==
    ASSUME HistoryInv, NEW j \in History, StartLog(j)
    PROVE  HistoryInv'
<1>t. /\ logFile[j] \in Files /\ writer[j] = "none" /\ attempt' = attempt
      /\ attempt \in [History -> Attempts] /\ Line("start", j) \in Lines
      /\ UNCHANGED <<jobIndex, serving, rebuild, confirmed, shortened, passedBy>>
  BY InvTypes, LineFacts DEF StartLog
<1>m. mishaps' \in [HistoryFaults -> Nat] /\ (IndexWasRemoved => IndexWasRemoved')
  BY MishapsAfter DEF StartLog
<1>1. CASE /\ ToLog(j, AppendLine(logFile[j], Line("start", j))) /\ Goes(j, "start_index")
  <2>1. writer' = [writer EXCEPT ![j] = "start_index"] /\ "start_index" \in WriterSteps
    BY <1>1 DEF Goes, WriterSteps
  <2>2. /\ Follows(logFile[j], AppendLine(logFile[j], Line("start", j)), j)
        /\ HasStart(Content(AppendLine(logFile[j], Line("start", j))), j)
    BY <1>t, Appended
  <2>. QED
    BY <1>t, <1>m, <1>1, <2>1, <2>2, LogStep DEF Begun
<1>2. CASE /\ \E file \in FailedAppends(logFile[j]) : ToLog(j, file)
           /\ Goes(j, "over")
  <2>1. writer' = [writer EXCEPT ![j] = "over"] /\ "over" \in WriterSteps
    BY <1>2 DEF Goes, WriterSteps
  <2>2. PICK file \in FailedAppends(logFile[j]) : ToLog(j, file)
    BY <1>2
  <2>3. Follows(logFile[j], file, j)
    BY <1>t, FailedAppend, PlainFollows
  <2>. QED
    BY <1>t, <1>m, <2>1, <2>2, <2>3, LogStep DEF Begun
<1>. QED
  BY <1>1, <1>2 DEF StartLog

LEMMA StepLogLine ==
    ASSUME HistoryInv, NEW j \in History, LogLine(j)
    PROVE  HistoryInv'
<1>t. /\ logFile[j] \in Files /\ writer[j] = "run" /\ attempt' = attempt /\ writer' = writer
      /\ attempt \in [History -> Attempts] /\ Line("log", j) \in Lines
      /\ writer \in [History -> WriterSteps] /\ "run" \in WriterSteps
      /\ UNCHANGED <<jobIndex, serving, rebuild, confirmed, shortened, passedBy>>
  BY InvTypes, LineFacts DEF LogLine, WriterSteps
<1>m. mishaps' \in [HistoryFaults -> Nat] /\ (IndexWasRemoved => IndexWasRemoved')
  BY MishapsAfter DEF LogLine
<1>w. writer' = [writer EXCEPT ![j] = "run"]
  BY <1>t
<1>1. CASE ToLog(j, AppendLine(logFile[j], Line("log", j)))
  <2>1. Follows(logFile[j], AppendLine(logFile[j], Line("log", j)), j)
    BY <1>t, Appended
  <2>. QED
    BY <1>t, <1>m, <1>w, <1>1, <2>1, LogStep DEF Begun
<1>2. CASE \E file \in FailedAppends(logFile[j]) : ToLog(j, file)
  <2>1. PICK file \in FailedAppends(logFile[j]) : ToLog(j, file)
    BY <1>2
  <2>2. Follows(logFile[j], file, j)
    BY <1>t, FailedAppend, PlainFollows
  <2>. QED
    BY <1>t, <1>m, <1>w, <2>1, <2>2, LogStep DEF Begun
<1>. QED
  BY <1>1, <1>2 DEF LogLine

\* finish_persistent tries again or gives up.
LEMMA RetryFacts ==
    ASSUME HistoryInv, NEW j \in History, Retry(j)
    PROVE  /\ attempt' \in [History -> Attempts]
           /\ \E w \in {"end_log", "note"} : writer' = [writer EXCEPT ![j] = w]
<1>1. attempt \in [History -> Attempts]
  BY InvTypes
<1>2. CASE attempt[j] < FinishAttempts
  <2>1. PICK n \in Attempts : n = attempt[j] + 1
    BY <1>1, <1>2, HistoryAssumption DEF Attempts
  <2>2. attempt' = [attempt EXCEPT ![j] = n]
    BY <1>2, <2>1 DEF Retry
  <2>. QED
    BY <1>1, <1>2, <2>2 DEF Retry, Goes
<1>3. CASE ~ (attempt[j] < FinishAttempts)
  BY <1>1, <1>3 DEF Retry, Goes
<1>. QED
  BY <1>2, <1>3

LEMMA StepEndLog ==
    ASSUME HistoryInv, NEW j \in History, EndLog(j)
    PROVE  HistoryInv'
<1>t. /\ logFile[j] \in Files /\ writer[j] \in {"run", "end_log"}
      /\ attempt \in [History -> Attempts] /\ Line("end", j) \in Lines /\ Good(j)
      /\ UNCHANGED <<jobIndex, serving, rebuild, confirmed, shortened, passedBy>>
  BY InvTypes, LineFacts DEF EndLog
<1>m. mishaps' \in [HistoryFaults -> Nat] /\ (IndexWasRemoved => IndexWasRemoved')
  BY MishapsAfter DEF EndLog
<1>1. CASE /\ ToLog(j, AppendLine(logFile[j], Line("end", j))) /\ Goes(j, "end_index")
           /\ UNCHANGED attempt
  <2>1. writer' = [writer EXCEPT ![j] = "end_index"] /\ "end_index" \in WriterSteps
    BY <1>1 DEF Goes, WriterSteps
  <2>2. Owed(j)
    BY <1>t DEF Owed, Begun
  <2>3. j \in shortened \/ HasStart(Content(logFile[j]), j)
    BY <1>t, <2>2 DEF Good, StartInLog
  <2>4. /\ Follows(logFile[j], AppendLine(logFile[j], Line("end", j)), j)
        /\ j \in shortened \/ HasEnd(Content(AppendLine(logFile[j], Line("end", j))), j)
    BY <1>t, <2>3, Appended
  <2>. QED
    BY <1>t, <1>m, <1>1, <2>1, <2>4, LogStep DEF Begun
<1>2. CASE /\ \E file \in FailedAppends(logFile[j]) : ToLog(j, file)
           /\ Retry(j)
  <2>1. PICK w \in {"end_log", "note"} : writer' = [writer EXCEPT ![j] = w]
    BY <1>2, RetryFacts
  <2>2. PICK file \in FailedAppends(logFile[j]) : ToLog(j, file)
    BY <1>2
  <2>3. Follows(logFile[j], file, j) /\ attempt' \in [History -> Attempts] /\ w \in WriterSteps
    BY <1>t, <1>2, FailedAppend, PlainFollows, RetryFacts DEF WriterSteps
  <2>. QED
    BY <1>t, <1>m, <2>1, <2>2, <2>3, LogStep DEF Begun
<1>. QED
  BY <1>1, <1>2 DEF EndLog

LEMMA StepEndNote ==
    ASSUME HistoryInv, NEW j \in History, EndNote(j)
    PROVE  HistoryInv'
<1>t. /\ logFile[j] \in Files /\ attempt' = attempt /\ attempt \in [History -> Attempts]
      /\ Line("log", j) \in Lines /\ "over" \in WriterSteps
      /\ writer' = [writer EXCEPT ![j] = "over"]
      /\ ToLog(j, AppendLine(logFile[j], Line("log", j)))
      /\ UNCHANGED <<jobIndex, serving, rebuild, confirmed, shortened, passedBy>>
  BY InvTypes, LineFacts DEF EndNote, WriterSteps, Goes
<1>m. mishaps' \in [HistoryFaults -> Nat] /\ (IndexWasRemoved => IndexWasRemoved')
  BY MishapsAfter DEF EndNote
<1>1. Follows(logFile[j], AppendLine(logFile[j], Line("log", j)), j)
  BY <1>t, Appended
<1>. QED
  BY <1>t, <1>m, <1>1, LogStep DEF Begun

\* What ToIndex is given, when the append failed or only its sync did.
LEMMA IndexAppends ==
    ASSUME NEW f \in Files, NEW j \in History, NEW l \in {Line("start", j), Line("end", j)},
           NEW g \in FailedAppends(f) \cup {AppendLine(f, l)}
    PROVE  Follows(f, g, j)
<1>1. l \in Lines /\ l \in {Line("start", j), Line("log", j), Line("end", j), Torn}
  BY LineFacts
<1>2. CASE g \in FailedAppends(f)
  BY <1>2, FailedAppend, PlainFollows
<1>3. CASE g = AppendLine(f, l)
  BY <1>1, <1>3, Appended
<1>. QED
  BY <1>2, <1>3

LEMMA StepStartIndex ==
    ASSUME HistoryInv, NEW j \in History, StartIndex(j)
    PROVE  HistoryInv'
<1>t. /\ jobIndex \in Files /\ writer[j] = "start_index" /\ attempt' = attempt
      /\ attempt \in [History -> Attempts] /\ Line("start", j) \in Lines
      /\ confirmed \in [History -> Confirmations]
      /\ UNCHANGED <<logFile, serving, rebuild, shortened>> /\ confirmed' = confirmed
  BY InvTypes, LineFacts DEF StartIndex
<1>m. mishaps' \in [HistoryFaults -> Nat] /\ (IndexWasRemoved => IndexWasRemoved')
  BY MishapsAfter DEF StartIndex
<1>c. confirmed[j] \in Confirmations /\ confirmed' = [confirmed EXCEPT ![j] = confirmed[j]]
  BY <1>t
<1>1. CASE ToIndex(j, AppendLine(jobIndex, Line("start", j))) /\ Goes(j, "rotate")
  <2>1. writer' = [writer EXCEPT ![j] = "rotate"]
    BY <1>1 DEF Goes
  <2>2. /\ Follows(jobIndex, AppendLine(jobIndex, Line("start", j)), j)
        /\ Present(AppendLine(jobIndex, Line("start", j)))
        /\ HasStart(Content(AppendLine(jobIndex, Line("start", j))), j)
    BY <1>t, Appended
  <2>. QED
    BY <1>t, <1>m, <1>c, <1>1, <2>1, <2>2, IndexStep
<1>2. CASE /\ \E file \in FailedAppends(jobIndex) \cup {AppendLine(jobIndex, Line("start", j))} : ToIndex(j, file)
           /\ Goes(j, "over")
  <2>1. writer' = [writer EXCEPT ![j] = "over"]
    BY <1>2 DEF Goes
  <2>2. PICK file \in FailedAppends(jobIndex) \cup {AppendLine(jobIndex, Line("start", j))} : ToIndex(j, file)
    BY <1>2
  <2>3. Follows(jobIndex, file, j)
    BY <1>t, IndexAppends
  <2>. QED
    BY <1>t, <1>m, <1>c, <2>1, <2>2, <2>3, IndexStep
<1>. QED
  BY <1>1, <1>2 DEF StartIndex

LEMMA StepEndIndex ==
    ASSUME HistoryInv, NEW j \in History, EndIndex(j)
    PROVE  HistoryInv'
<1>t. /\ jobIndex \in Files /\ writer[j] = "end_index"
      /\ attempt \in [History -> Attempts] /\ Line("end", j) \in Lines
      /\ confirmed \in [History -> Confirmations]
      /\ UNCHANGED <<logFile, serving, rebuild, shortened>>
  BY InvTypes, LineFacts DEF EndIndex
<1>m. mishaps' \in [HistoryFaults -> Nat] /\ (IndexWasRemoved => IndexWasRemoved')
  BY MishapsAfter DEF EndIndex
<1>1. CASE /\ ToIndex(j, AppendLine(jobIndex, Line("end", j))) /\ Goes(j, "note")
           /\ confirmed' = [confirmed EXCEPT ![j] = "end"] /\ UNCHANGED attempt
  <2>1. writer' = [writer EXCEPT ![j] = "note"] /\ "end" \in Confirmations
    BY <1>1 DEF Goes, Confirmations
  <2>2. /\ Follows(jobIndex, AppendLine(jobIndex, Line("end", j)), j)
        /\ Present(AppendLine(jobIndex, Line("end", j)))
        /\ HasStart(Content(jobIndex), j) => HasEnd(Content(AppendLine(jobIndex, Line("end", j))), j)
    BY <1>t, Appended
  <2>. QED
    BY <1>t, <1>m, <1>1, <2>1, <2>2, IndexStep
<1>2. CASE /\ \E file \in FailedAppends(jobIndex) \cup {AppendLine(jobIndex, Line("end", j))} : ToIndex(j, file)
           /\ Retry(j) /\ UNCHANGED confirmed
  <2>1. PICK w \in {"end_log", "note"} : writer' = [writer EXCEPT ![j] = w]
    BY <1>2, RetryFacts
  <2>2. PICK file \in FailedAppends(jobIndex) \cup {AppendLine(jobIndex, Line("end", j))} : ToIndex(j, file)
    BY <1>2
  <2>3. Follows(jobIndex, file, j) /\ attempt' \in [History -> Attempts]
    BY <1>t, <1>2, IndexAppends, RetryFacts
  <2>4. confirmed[j] \in Confirmations /\ confirmed' = [confirmed EXCEPT ![j] = confirmed[j]]
    BY <1>t, <1>2
  <2>. QED
    BY <1>t, <1>m, <2>1, <2>2, <2>3, <2>4, IndexStep
<1>. QED
  BY <1>1, <1>2 DEF EndIndex

\* Rotation deletes log files, and says so.
LEMMA StepRotate ==
    ASSUME HistoryInv, NEW j \in History, Rotate(j)
    PROVE  HistoryInv'
<1>t. /\ logFile \in [History -> Files] /\ writer \in [History -> WriterSteps]
      /\ confirmed \in [History -> Confirmations] /\ HistoryTypes /\ RebuildSteps
      /\ shortened \in SUBSET History /\ NoFile \in Files /\ Rotated \in SUBSET History
      /\ ~ Present(NoFile) /\ writer[j] = "rotate"
  BY InvTypes DEF HistoryInv, HistoryTypes, Files, Rotated, LogIds, Present, Rotate
<1>s. /\ logFile' = [k \in History |-> IF k \in Rotated THEN NoFile ELSE logFile[k]]
      /\ shortened' = shortened \cup Rotated
      /\ confirmed' = [confirmed EXCEPT ![j] = "start"]
      /\ writer' = [writer EXCEPT ![j] = "run"]
      /\ UNCHANGED <<jobIndex, attempt, serving, rebuild, mishaps, passedBy>>
  BY DEF Rotate, Goes
<1>1. HistoryTypes'
  <2>1. logFile' \in [History -> Files] /\ writer' \in [History -> WriterSteps]
        /\ confirmed' \in [History -> Confirmations] /\ shortened' \in SUBSET History
    BY <1>t, <1>s DEF WriterSteps, Confirmations
  <2>. QED
    BY <2>1, <1>t, <1>s DEF HistoryTypes
<1>2. RebuildSteps'
  BY <1>t, <1>s DEF RebuildSteps
<1>3. ASSUME NEW k \in History PROVE Good(k)'
  <2>1. Good(k)
    BY InvTypes
  <2>2. \/ k \in Rotated /\ k \in shortened' /\ \A i \in History : ~ HasStart(Content(logFile'[k]), i)
        \/ k \notin Rotated /\ (k \in shortened' <=> k \in shortened) /\ logFile'[k] = logFile[k]
    <3>1. CASE k \in Rotated
      <4>1. Content(logFile'[k]) = <<>>
        BY <1>t, <1>s, <3>1, ContentFacts
      <4>. QED
        BY <1>s, <3>1, <4>1, EmptyHasNothing
    <3>2. CASE k \notin Rotated
      BY <1>s, <3>2
    <3>. QED
      BY <3>1, <3>2
  <2>3. \/ k = j /\ writer'[k] = "run" /\ writer[k] = "rotate" /\ confirmed'[k] = "start"
        \/ k # j /\ writer'[k] = writer[k] /\ confirmed'[k] = confirmed[k]
    BY <1>t, <1>s
  <2>4. Owed(k)' <=> Owed(k)
    BY <2>3 DEF Owed, Begun
  <2>5. confirmed'[k] = "end" => confirmed[k] = "end"
    BY <2>3
  <2>6. IndexWasRemoved' <=> IndexWasRemoved
    BY <1>s, SameMishaps
  <2>7. jobIndex' = jobIndex /\ rebuild' = rebuild /\ passedBy' = passedBy /\ shortened \subseteq shortened'
    BY <1>s
  <2>8. StartInLog(k)' /\ EndInLog(k)'
    <3>1. writer'[k] = "start_index" => writer[k] = "start_index"
      BY <2>3
    <3>2. writer'[k] = "end_index" => writer[k] = "end_index"
      BY <2>3
    <3>. QED
      BY <2>1, <2>2, <2>4, <2>5, <2>7, <3>1, <3>2 DEF Good, StartInLog, EndInLog
  <2>9. OwnStarts(k)'
    BY <2>1, <2>2 DEF Good, OwnStarts
  <2>10. InIndex(k)' /\ InRebuild(k)'
    BY <2>1, <2>4, <2>5, <2>6, <2>7 DEF Good, InIndex, InRebuild, Kept, IndexGivesUp
  <2>11. NotYet(k)'
    BY <2>1, <2>3 DEF Good, NotYet
  <2>12. TooEarly(k)'
    BY <2>1, <2>4, <2>6, <2>7 DEF Good, TooEarly
  <2>. QED
    BY <2>8, <2>9, <2>10, <2>11, <2>12 DEF Good
<1>. QED
  BY <1>1, <1>2, <1>3 DEF HistoryInv, Good

LEMMA SameIsFollowed == \A f \in Files : FollowsPlain(f, f)
  BY DEF FollowsPlain

LEMMA StepConsoleDies ==
    ASSUME HistoryInv, ConsoleDies
    PROVE  HistoryInv'
<1>t. /\ logFile \in [History -> Files] /\ jobIndex \in Files
      /\ shortened \in SUBSET History /\ passedBy \in SUBSET History
      /\ FollowsPlain(jobIndex, jobIndex) /\ Torn \in Lines
  BY InvTypes, SameIsFollowed, LineFacts DEF HistoryInv, HistoryTypes
<1>s. NoTasks /\ UNCHANGED <<confirmed, shortened>> /\ Happens("crash")
  BY DEF ConsoleDies
<1>m. mishaps' \in [HistoryFaults -> Nat] /\ (IndexWasRemoved => IndexWasRemoved')
  BY <1>s, MishapsAfter
<1>1. CASE UNCHANGED <<logFile, jobIndex, passedBy>>
  BY <1>t, <1>s, <1>m, <1>1, DownStep
<1>2. CASE /\ UNCHANGED <<jobIndex, passedBy>>
           /\ \E j \in History : ToLog(j, AppendLine(logFile[j], Torn))
  <2>1. PICK j \in History : ToLog(j, AppendLine(logFile[j], Torn))
    BY <1>2
  <2>2. FollowsPlain(logFile[j], AppendLine(logFile[j], Torn))
    BY <1>t, Appended, LineFacts
  <2>3. PICK g : g = AppendLine(logFile[j], Torn)
    OBVIOUS
  <2>4. g \in Files /\ logFile' = [logFile EXCEPT ![j] = g]
    BY <2>1, <2>2, <2>3 DEF ToLog, FollowsPlain
  <2>5. logFile' \in [History -> Files]
    BY <1>t, <2>4
  <2>6. \A k \in History : \A i \in History :
          /\ HasStart(Content(logFile[k]), i) => HasStart(Content(logFile'[k]), i)
          /\ HasEnd(Content(logFile[k]), i) => HasEnd(Content(logFile'[k]), i)
          /\ HasStart(Content(logFile'[k]), i) => HasStart(Content(logFile[k]), i)
    <3>1. TAKE k \in History
    <3>2. CASE k = j
      <4>1. logFile'[k] = g
        BY <1>t, <2>4, <3>2
      <4>. QED
        BY <4>1, <3>2, <2>2, <2>3 DEF FollowsPlain
    <3>3. CASE k # j
      <4>1. logFile'[k] = logFile[k]
        BY <1>t, <2>4, <3>3
      <4>. QED
        BY <4>1
    <3>. QED
      BY <3>2, <3>3
  <2>. QED
    BY <1>t, <1>s, <1>m, <1>2, <2>5, <2>6, DownStep
<1>3. CASE /\ UNCHANGED logFile
           /\ \E j \in History : ToIndex(j, AppendLine(jobIndex, Torn))
  <2>1. PICK j \in History : ToIndex(j, AppendLine(jobIndex, Torn))
    BY <1>3
  <2>2. FollowsPlain(jobIndex, AppendLine(jobIndex, Torn))
    BY <1>t, Appended, LineFacts, <2>1
  <2>3. /\ jobIndex' = AppendLine(jobIndex, Torn)
        /\ passedBy' \in SUBSET History /\ passedBy \subseteq passedBy'
        /\ ~ Present(jobIndex) /\ Present(jobIndex') =>
             \A k \in History : writer[k] \notin {"none", "start_index"} => k \in passedBy'
    BY <1>t, <2>1 DEF ToIndex, Indexed
  <2>. QED
    BY <1>t, <1>s, <1>m, <1>3, <2>2, <2>3, DownStep
<1>. QED
  BY <1>1, <1>2, <1>3 DEF ConsoleDies

LEMMA StepPowerLoss ==
    ASSUME HistoryInv, PowerLoss
    PROVE  HistoryInv'
<1>t. /\ logFile \in [History -> Files] /\ jobIndex \in Files
      /\ shortened \in SUBSET History /\ passedBy \in SUBSET History
      /\ FollowsPlain(jobIndex, jobIndex)
  BY InvTypes, SameIsFollowed DEF HistoryInv, HistoryTypes
<1>s. NoTasks /\ UNCHANGED <<jobIndex, confirmed, passedBy>> /\ Happens("power")
  BY DEF PowerLoss
<1>m. mishaps' \in [HistoryFaults -> Nat] /\ (IndexWasRemoved => IndexWasRemoved')
  BY <1>s, MishapsAfter
<1>1. PICK j \in History : /\ Present(logFile[j])
        /\ \E n \in 0 .. Len(logFile[j]) : ToLog(j, SubSeq(logFile[j], 1, n))
        /\ shortened' = shortened \cup {j}
  BY DEF PowerLoss
<1>2. PICK n \in 0 .. Len(logFile[j]) : ToLog(j, SubSeq(logFile[j], 1, n))
  BY <1>1
<1>3. logFile[j] \in Seq(Lines) /\ Content(logFile[j]) = logFile[j]
  BY <1>t, <1>1, ContentFacts
<1>4. PICK g : g = SubSeq(logFile[j], 1, n)
  OBVIOUS
<1>5. g \in Seq(Lines) /\ \A i \in History : HasStart(g, i) => HasStart(Content(logFile[j]), i)
  BY <1>3, <1>4, PrefixHasNoOther
<1>6. g \in Files /\ Content(g) = g
  <2>1. g \in Files
    BY <1>5 DEF Files
  <2>. QED
    BY <1>5, <2>1, ContentFacts
<1>7. logFile' = [logFile EXCEPT ![j] = g]
  BY <1>2, <1>4 DEF ToLog
<1>8. logFile' \in [History -> Files] /\ shortened' \in SUBSET History /\ shortened \subseteq shortened'
  BY <1>t, <1>1, <1>6, <1>7
<1>9. \A k \in History :
        /\ k \notin shortened' =>
             /\ HasStart(Content(logFile[k]), k) => HasStart(Content(logFile'[k]), k)
             /\ HasEnd(Content(logFile[k]), k) => HasEnd(Content(logFile'[k]), k)
        /\ \A i \in History : HasStart(Content(logFile'[k]), i) => HasStart(Content(logFile[k]), i)
  <2>1. TAKE k \in History
  <2>2. CASE k = j
    <3>1. logFile'[k] = g /\ k \in shortened'
      BY <1>t, <1>1, <1>7, <2>2
    <3>. QED
      BY <3>1, <2>2, <1>5, <1>6
  <2>3. CASE k # j
    <3>1. logFile'[k] = logFile[k]
      BY <1>t, <1>7, <2>3
    <3>. QED
      BY <3>1
  <2>. QED
    BY <2>2, <2>3
<1>. QED
  BY <1>t, <1>s, <1>m, <1>8, <1>9, DownStep

\* The index goes, and the other parts of the invariant give it up.
LEMMA StepIndexRemoved ==
    ASSUME HistoryInv, IndexRemoved
    PROVE  HistoryInv'
<1>t. HistoryTypes /\ RebuildSteps /\ mishaps \in [HistoryFaults -> Nat]
  BY InvTypes DEF HistoryInv
<1>s. /\ jobIndex' = NoFile /\ Happens("remove")
      /\ UNCHANGED <<logFile, writer, attempt, serving, rebuild, confirmed, shortened, passedBy>>
  BY DEF IndexRemoved
<1>m. mishaps' \in [HistoryFaults -> Nat]
  BY <1>s, MishapsAfter
<1>r. IndexWasRemoved'
  <2>0. mishaps["remove"] \in Nat
    BY <1>t, <1>s DEF Happens
  <2>1. PICK n \in Nat : n = mishaps["remove"] + 1 /\ n > 0
    BY <2>0
  <2>2. "remove" \in HistoryFaults /\ mishaps' = [mishaps EXCEPT !["remove"] = n]
    BY <1>s, <2>1 DEF Happens
  <2>3. mishaps'["remove"] = n
    BY <1>t, <2>2
  <2>. QED
    BY <2>1, <2>2, <2>3 DEF IndexWasRemoved
<1>1. HistoryTypes'
  BY <1>t, <1>s, <1>m DEF HistoryTypes, Files
<1>2. RebuildSteps'
  BY <1>t, <1>s DEF RebuildSteps
<1>3. ASSUME NEW k \in History PROVE Good(k)'
  <2>1. Good(k)
    BY InvTypes
  <2>2. ~ Present(jobIndex') /\ ~ HasStart(Content(jobIndex'), k)
    <3>1. jobIndex' \in Files /\ ~ Present(jobIndex')
      BY <1>s DEF Files, Present
    <3>2. Content(jobIndex') = <<>>
      BY <3>1, ContentFacts
    <3>. QED
      BY <3>1, <3>2, EmptyHasNothing
  <2>3. Owed(k)' <=> Owed(k)
    BY <1>s DEF Owed
  <2>. QED
    BY <2>1, <2>2, <2>3, <1>s, <1>r DEF Good, StartInLog, EndInLog, OwnStarts, InIndex, NotYet,
       InRebuild, TooEarly, Kept
<1>. QED
  BY <1>1, <1>2, <1>3 DEF HistoryInv, Good

\* Steps that change nothing the parts for a job read.
LEMMA ServingStep ==
    ASSUME HistoryInv, NEW s \in {"down", "list", "rebuild", "up"}, serving' = s,
           s \in {"down", "list"} => rebuild.step = "none",
           UNCHANGED <<logFile, jobIndex, writer, attempt, rebuild, mishaps, confirmed,
                       shortened, passedBy>>
    PROVE  HistoryInv'
<1>1. HistoryTypes'
  BY DEF HistoryInv, HistoryTypes
<1>2. RebuildSteps'
  BY DEF HistoryInv, RebuildSteps
<1>3. ASSUME NEW k \in History PROVE Good(k)'
  <2>1. Good(k)
    BY InvTypes
  <2>. QED
    BY <2>1 DEF Good, StartInLog, EndInLog, OwnStarts, InIndex, NotYet,
       InRebuild, TooEarly, Kept, Owed, IndexGivesUp, IndexWasRemoved
<1>. QED
  BY <1>1, <1>2, <1>3 DEF HistoryInv, Good

LEMMA StepConsoleStarts ==
    ASSUME HistoryInv, ConsoleStarts
    PROVE  HistoryInv'
  BY ServingStep DEF ConsoleStarts, HistoryInv, RebuildSteps

LEMMA StepScanBudgetOver ==
    ASSUME HistoryInv, ScanBudgetOver
    PROVE  HistoryInv'
  BY ServingStep DEF ScanBudgetOver

\* What the index shows of starts and ends.
LEMMA ShownFacts ==
    ASSUME NEW f \in Files, NEW j \in History
    PROVE  /\ j \in Started(f) <=> HasStart(Content(f), j)
           /\ j \in Ended(f) <=> HasEnd(Content(f), j)
<1>1. CASE Present(f)
  <2>1. Content(f) = f
    BY <1>1, ContentFacts
  <2>. QED
    BY <2>1 DEF Started, Ended, HasStart, HasEnd, ToSet
<1>2. CASE ~ Present(f)
  <2>1. Content(f) = <<>>
    BY <1>2, ContentFacts
  <2>. QED
    BY <2>1 DEF Started, Ended, HasStart, HasEnd, ToSet
<1>. QED
  BY <1>1, <1>2

\* The scan is over, or a rebuild is: the new index has what the old one had, or
\* what the log files had, and jobs it shows as running get a task.
LEMMA ScanEnds ==
    ASSUME HistoryInv, NEW S \in SUBSET History, NEW s \in {"down", "list", "rebuild", "up"},
           serving' = s, rebuild' \in Rebuilds, rebuild'.step = "none",
           rebuild' = rebuild \/ rebuild' = NoRebuild,
           jobIndex' = jobIndex \/ (rebuild.step = "rename" /\ jobIndex' = rebuild.body),
           \A k \in S : HasStart(Content(jobIndex'), k),
           writer' = [k \in History |-> IF k \in S THEN "run" ELSE writer[k]],
           mishaps' \in [HistoryFaults -> Nat], IndexWasRemoved => IndexWasRemoved',
           UNCHANGED <<logFile, attempt, confirmed, shortened, passedBy>>
    PROVE  HistoryInv'
<1>t. /\ HistoryTypes /\ RebuildSteps /\ writer \in [History -> WriterSteps]
      /\ jobIndex \in Files /\ rebuild.body \in Seq(Lines) /\ rebuild.body \in Files
  BY InvTypes DEF HistoryInv, HistoryTypes, Rebuilds, Files
<1>b. Content(rebuild.body) = rebuild.body /\ Present(rebuild.body)
  BY <1>t, ContentFacts
<1>1. HistoryTypes'
  <2>1. writer' \in [History -> WriterSteps]
    BY <1>t DEF WriterSteps
  <2>2. jobIndex' \in Files
    BY <1>t
  <2>. QED
    BY <1>t, <2>1, <2>2 DEF HistoryTypes
<1>2. RebuildSteps'
  BY DEF RebuildSteps
<1>3. ASSUME NEW k \in History PROVE Good(k)'
  <2>1. Good(k)
    BY InvTypes
  <2>2. HasStart(Content(jobIndex'), k) => HasStart(Content(jobIndex), k) \/ HasStart(rebuild.body, k)
    BY <1>b
  <2>3. \/ k \in S /\ writer'[k] = "run" /\ HasStart(Content(jobIndex'), k)
        \/ k \notin S /\ writer'[k] = writer[k]
    BY <1>t
  <2>4. HasStart(rebuild'.body, k) => HasStart(rebuild.body, k)
    BY EmptyHasNothing DEF NoRebuild
  <2>5. logFile' = logFile /\ confirmed' = confirmed /\ shortened' = shortened /\ passedBy' = passedBy
    OBVIOUS
  <2>6. Owed(k)' => Owed(k) \/ HasStart(Content(jobIndex'), k)
    BY <2>3, <2>5 DEF Owed
  <2>7. StartInLog(k)'
    BY <2>1, <2>2, <2>3, <2>4, <2>5, <2>6 DEF Good, StartInLog
  <2>8. EndInLog(k)' /\ OwnStarts(k)' /\ NotYet(k)'
    BY <2>1, <2>3, <2>5 DEF Good, EndInLog, OwnStarts, NotYet
  <2>9. InIndex(k)'
    <3>1. SUFFICES ASSUME Present(jobIndex'), ~ (k \in passedBy), ~ (k \in shortened /\ IndexWasRemoved')
                   PROVE  Kept(Content(jobIndex), k)'
      BY <2>5 DEF InIndex, IndexGivesUp
    <3>2. CASE jobIndex' = jobIndex
      <4>1. Kept(Content(jobIndex), k)
        BY <2>1, <3>1, <3>2 DEF Good, InIndex, IndexGivesUp
      <4>. QED
        BY <4>1, <2>5, <2>6, <3>2 DEF Kept
    <3>3. CASE rebuild.step = "rename" /\ jobIndex' = rebuild.body
      <4>1. CASE k \notin shortened
        <5>1. Kept(rebuild.body, k)
          BY <1>t, <2>1, <3>1, <3>3, <4>1 DEF Good, InRebuild, RebuildSteps
        <5>. QED
          BY <5>1, <1>b, <2>5, <2>6, <3>3 DEF Kept
      <4>2. CASE k \in shortened
        <5>1. ~ Owed(k)
          BY <2>1, <3>1, <3>3, <4>2 DEF Good, TooEarly
        <5>2. confirmed[k] = "none"
          BY <5>1 DEF Owed
        <5>. QED
          BY <5>1, <5>2, <2>5, <2>6 DEF Kept
      <4>. QED
        BY <4>1, <4>2
    <3>. QED
      BY <3>2, <3>3
  <2>10. InRebuild(k)'
    BY DEF InRebuild
  <2>11. TooEarly(k)'
    <3>1. SUFFICES ASSUME ~ Present(jobIndex'), ~ IndexWasRemoved', ~ (k \in passedBy)
                   PROVE  ~ Owed(k)'
      BY <2>5 DEF TooEarly
    <3>2. jobIndex' = jobIndex
      BY <3>1, <1>b
    <3>3. ~ Owed(k)
      BY <2>1, <3>1, <3>2 DEF Good, TooEarly
    <3>4. Content(jobIndex') = <<>>
      BY <1>t, <3>1, <3>2, ContentFacts
    <3>. QED
      BY <3>3, <3>4, <2>6, EmptyHasNothing
  <2>. QED
    BY <2>7, <2>8, <2>9, <2>10, <2>11 DEF Good
<1>. QED
  BY <1>1, <1>2, <1>3 DEF HistoryInv, Good

LEMMA StepScanHistory ==
    ASSUME HistoryInv, ScanHistory
    PROVE  HistoryInv'
<1>t. /\ HistoryTypes /\ rebuild.step = "none" /\ logFile \in [History -> Files]
      /\ jobIndex \in Files /\ mishaps \in [HistoryFaults -> Nat] /\ rebuild \in Rebuilds
      /\ writer \in [History -> WriterSteps]
  BY InvTypes DEF HistoryInv, HistoryTypes, RebuildSteps, ScanHistory
<1>s. UNCHANGED <<logFile, jobIndex, attempt, mishaps, confirmed, shortened, passedBy>>
  BY DEF ScanHistory
<1>r. IndexWasRemoved' <=> IndexWasRemoved
  BY <1>s, SameMishaps
<1>1. CASE /\ ~ Present(jobIndex)
           /\ serving' = "rebuild"
           /\ rebuild' = [step |-> "read", todo |-> LogIds, body |-> <<>>]
           /\ UNCHANGED writer
  <2>1. /\ LogIds \in SUBSET History /\ <<>> \in Seq(Lines)
        /\ rebuild'.step = "read" /\ rebuild'.todo = LogIds /\ rebuild'.body = <<>>
    BY <1>1 DEF LogIds
  <2>2. rebuild' \in Rebuilds
    BY <1>1, <2>1 DEF Rebuilds
  <2>3. HistoryTypes'
    BY <1>t, <1>s, <1>1, <2>2 DEF HistoryTypes
  <2>4. RebuildSteps'
    BY <1>1, <2>1 DEF RebuildSteps
  <2>5. ASSUME NEW k \in History PROVE Good(k)'
    <3>1. Good(k)
      BY InvTypes
    <3>2. Owed(k)' <=> Owed(k)
      BY <1>s, <1>1 DEF Owed
    <3>3. k \notin LogIds => ~ HasStart(Content(logFile[k]), k)
      <4>1. k \notin LogIds => Content(logFile[k]) = <<>>
        BY <1>t, ContentFacts DEF LogIds
      <4>. QED
        BY <4>1, EmptyHasNothing
    <3>4. ~ HasStart(rebuild'.body, k)
      BY <2>1, EmptyHasNothing
    <3>5. StartInLog(k)' /\ EndInLog(k)' /\ OwnStarts(k)' /\ InIndex(k)' /\ NotYet(k)'
      BY <3>1, <3>2, <3>4, <1>s, <1>r, <1>1 DEF Good, StartInLog, EndInLog, OwnStarts, InIndex, NotYet,
         Kept, IndexGivesUp
    <3>6. InRebuild(k)'
      <4>1. SUFFICES ASSUME k \notin shortened, k \notin LogIds
                     PROVE  Kept(rebuild.body, k)'
        BY <1>s, <2>1 DEF InRebuild
      <4>2. ~ Owed(k)
        BY <3>1, <3>3, <4>1 DEF Good, StartInLog
      <4>3. confirmed[k] = "none"
        BY <4>2 DEF Owed
      <4>. QED
        BY <4>2, <4>3, <3>2, <1>s DEF Kept
    <3>7. TooEarly(k)'
      BY <3>1, <3>2, <1>s, <1>r, <1>1 DEF Good, TooEarly
    <3>. QED
      BY <3>5, <3>6, <3>7 DEF Good
  <2>. QED
    BY <2>3, <2>4, <2>5 DEF HistoryInv, Good
<1>2. CASE serving' = "up" /\ Watched /\ UNCHANGED rebuild
  <2>1. ShownRunning \in SUBSET History
    BY DEF ShownRunning, Started
  <2>2. \A k \in ShownRunning : HasStart(Content(jobIndex'), k)
    BY <1>t, <1>s, <2>1, ShownFacts DEF ShownRunning
  <2>3. writer' = [k \in History |-> IF k \in ShownRunning THEN "run" ELSE writer[k]]
    BY <1>2 DEF Watched
  <2>. QED
    BY <1>t, <1>s, <1>r, <1>2, <2>1, <2>2, <2>3, ScanEnds
<1>. QED
  BY <1>1, <1>2 DEF ScanHistory

\* A rebuild takes in the records of one log file.
LEMMA StepRebuildRead ==
    ASSUME HistoryInv, RebuildRead
    PROVE  HistoryInv'
<1>t. /\ HistoryTypes /\ RebuildSteps /\ logFile \in [History -> Files]
      /\ rebuild.todo \in SUBSET History /\ rebuild.body \in Seq(Lines) /\ rebuild.step = "read"
  BY InvTypes DEF HistoryInv, HistoryTypes, Rebuilds, RebuildRead
<1>s. UNCHANGED <<logFile, jobIndex, writer, attempt, serving, mishaps, confirmed, shortened, passedBy>>
  BY DEF RebuildRead
<1>r. IndexWasRemoved' <=> IndexWasRemoved
  BY <1>s, SameMishaps
<1>1. PICK j \in rebuild.todo :
        rebuild' = [step |-> IF rebuild.todo = {j} THEN "rename" ELSE "read",
                    todo |-> rebuild.todo \ {j},
                    body |-> rebuild.body \o Records(Content(logFile[j]))]
  BY DEF RebuildRead
<1>2. j \in History /\ Content(logFile[j]) \in Seq(Lines)
  BY <1>t, ContentFacts
<1>3. PICK more \in Seq(Lines) : more = Records(Content(logFile[j]))
  BY <1>2, RecordsKeep
<1>4. /\ rebuild'.step \in {"read", "rename"} /\ rebuild'.step = "rename" => rebuild'.todo = {}
      /\ rebuild'.todo = rebuild.todo \ {j} /\ rebuild'.body = rebuild.body \o more
  BY <1>1, <1>3
<1>5. \A k \in History :
        /\ HasStart(more, k) <=> HasStart(Content(logFile[j]), k)
        /\ HasEnd(Content(logFile[j]), k) => HasEnd(more, k)
        /\ HasStart(rebuild'.body, k) <=> HasStart(rebuild.body, k) \/ HasStart(more, k)
        /\ HasEnd(rebuild.body, k) \/ HasEnd(more, k) => HasEnd(rebuild'.body, k)
  <2>1. TAKE k \in History
  <2>2. /\ HasStart(more, k) <=> HasStart(Content(logFile[j]), k)
        /\ HasEnd(Content(logFile[j]), k) => HasEnd(more, k)
    BY <1>2, <1>3, RecordsKeep
  <2>3. /\ HasStart(rebuild'.body, k) <=> HasStart(rebuild.body, k) \/ HasStart(more, k)
        /\ HasEnd(rebuild.body, k) \/ HasEnd(more, k) => HasEnd(rebuild'.body, k)
    BY <1>t, <1>4, OneBehindTheOther
  <2>. QED
    BY <2>2, <2>3
<1>6. HistoryTypes'
  <2>1. rebuild.body \o more \in Seq(Lines)
    BY <1>t, OneBehindTheOther, <1>2
  <2>2. rebuild' \in Rebuilds
    BY <1>t, <1>1, <1>3, <2>1 DEF Rebuilds
  <2>. QED
    BY <1>t, <1>s, <2>2 DEF HistoryTypes
<1>7. RebuildSteps'
  BY <1>t, <1>s, <1>4 DEF RebuildSteps
<1>8. ASSUME NEW k \in History PROVE Good(k)'
  <2>1. Good(k) /\ Good(j)
    BY <1>2, InvTypes
  <2>2. Owed(k)' <=> Owed(k)
    BY <1>s DEF Owed
  <2>3. HasStart(rebuild'.body, k) => HasStart(rebuild.body, k) \/ HasStart(Content(logFile[k]), k)
    BY <1>5, <2>1 DEF Good, OwnStarts
  <2>4. StartInLog(k)' /\ EndInLog(k)' /\ OwnStarts(k)' /\ InIndex(k)' /\ NotYet(k)'
    BY <2>1, <2>2, <2>3, <1>s, <1>r DEF Good, StartInLog, EndInLog, OwnStarts, InIndex, NotYet,
       Kept, IndexGivesUp
  <2>5. InRebuild(k)'
    <3>1. SUFFICES ASSUME k \notin passedBy \cup shortened, k \notin rebuild.todo \ {j}
                   PROVE  Kept(rebuild.body, k)'
      BY <1>s, <1>4 DEF InRebuild
    <3>2. CASE k \notin rebuild.todo
      <4>1. Kept(rebuild.body, k)
        BY <1>t, <2>1, <3>1, <3>2 DEF Good, InRebuild
      <4>. QED
        BY <4>1, <2>2, <1>5, <1>s DEF Kept
    <3>3. CASE k = j
      <4>1. /\ Owed(k) => HasStart(Content(logFile[j]), k)
            /\ confirmed[k] = "end" => HasEnd(Content(logFile[j]), k)
        BY <2>1, <3>1, <3>3 DEF Good, StartInLog, EndInLog
      <4>. QED
        BY <4>1, <2>2, <1>5, <1>s DEF Kept
    <3>. QED
      BY <3>1, <3>2, <3>3
  <2>6. TooEarly(k)'
    BY <2>1, <2>2, <1>s, <1>r, <1>t DEF Good, TooEarly
  <2>. QED
    BY <2>4, <2>5, <2>6 DEF Good
<1>. QED
  BY <1>6, <1>7, <1>8 DEF HistoryInv, Good

LEMMA StepRebuildRename ==
    ASSUME HistoryInv, RebuildRename
    PROVE  HistoryInv'
<1>t. /\ HistoryTypes /\ jobIndex \in Files /\ mishaps \in [HistoryFaults -> Nat]
      /\ rebuild.step = "rename" /\ rebuild.body \in Seq(Lines) /\ rebuild.body \in Files
      /\ serving \in {"down", "list", "rebuild", "up"}
  BY InvTypes DEF HistoryInv, HistoryTypes, RebuildRename, Rebuilds, Files
<1>s. /\ rebuild' = NoRebuild
      /\ serving' = IF serving = "rebuild" THEN "up" ELSE serving
      /\ UNCHANGED <<logFile, attempt, confirmed, shortened, passedBy>>
      /\ jobIndex' = rebuild.body \/ jobIndex' = jobIndex
  BY DEF RebuildRename
<1>m. mishaps' \in [HistoryFaults -> Nat] /\ (IndexWasRemoved => IndexWasRemoved')
  BY MishapsAfter DEF RebuildRename
<1>. DEFINE S == {k \in History : serving = "rebuild" /\ k \in Started(jobIndex') \ Ended(jobIndex')}
<1>1. writer' = [k \in History |-> IF k \in S THEN "run" ELSE writer[k]]
  BY DEF RebuildRename
<1>2. S \in SUBSET History /\ \A k \in S : HasStart(Content(jobIndex'), k)
  <2>1. jobIndex' \in Files
    BY <1>t, <1>s
  <2>. QED
    BY <2>1, ShownFacts
<1>3. NoRebuild \in Rebuilds /\ NoRebuild.step = "none"
  BY DEF NoRebuild, Rebuilds
<1>. HIDE DEF S
<1>4. PICK s \in {"down", "list", "rebuild", "up"} : serving' = s
  BY <1>t, <1>s
<1>. QED
  BY <1>t, <1>s, <1>m, <1>1, <1>2, <1>3, <1>4, ScanEnds

--------------------------------------------------------------------------------
(* Theorems. *)

LEMMA HistoryStarts == HistoryInit => HistoryInv
<1>1. SUFFICES ASSUME HistoryInit PROVE HistoryInv
  OBVIOUS
<1>2. NoFile \in Files /\ Content(NoFile) = <<>> /\ ~ Present(NoFile)
  BY DEF Files, Content, Present
<1>3. HistoryTypes
  BY <1>1, <1>2, HistoryAssumption DEF HistoryInit, HistoryTypes, WriterSteps, Attempts,
     Confirmations, Rebuilds, NoRebuild
<1>4. RebuildSteps
  BY <1>1 DEF HistoryInit, RebuildSteps, NoRebuild
<1>5. ASSUME NEW k \in History PROVE Good(k)
  <2>1. /\ logFile[k] = NoFile /\ jobIndex = NoFile /\ writer[k] = "none" /\ confirmed[k] = "none"
        /\ rebuild.step = "none" /\ rebuild.body = <<>>
    BY <1>1 DEF HistoryInit, NoRebuild
  <2>2. ~ Owed(k)
    BY <2>1 DEF Owed, Begun
  <2>. QED
    BY <2>1, <2>2, <1>2, EmptyHasNothing DEF Good, StartInLog, EndInLog, OwnStarts, InIndex, NotYet,
       InRebuild, TooEarly, Kept
<1>. QED
  BY <1>3, <1>4, <1>5 DEF HistoryInv, Good

LEMMA HistorySteps ==
    ASSUME HistoryInv, [HistoryNext]_historyVars
    PROVE  HistoryInv'
<1>1. CASE \E j \in History : StartLog(j) \/ StartIndex(j) \/ Rotate(j) \/ LogLine(j)
  BY <1>1, StepStartLog, StepStartIndex, StepRotate, StepLogLine
<1>2. CASE \E j \in History : EndLog(j) \/ EndIndex(j) \/ EndNote(j)
  BY <1>2, StepEndLog, StepEndIndex, StepEndNote
<1>3. CASE ConsoleDies \/ PowerLoss \/ IndexRemoved \/ ConsoleStarts
  BY <1>3, StepConsoleDies, StepPowerLoss, StepIndexRemoved, StepConsoleStarts
<1>4. CASE ScanHistory \/ RebuildRead \/ RebuildRename \/ ScanBudgetOver
  BY <1>4, StepScanHistory, StepRebuildRead, StepRebuildRename, StepScanBudgetOver
<1>5. CASE UNCHANGED historyVars
  <2>1. PICK s \in {"down", "list", "rebuild", "up"} : s = serving
    BY DEF HistoryInv, HistoryTypes
  <2>2. s \in {"down", "list"} => rebuild.step = "none"
    BY <2>1 DEF HistoryInv, RebuildSteps
  <2>. QED
    BY <1>5, <2>1, <2>2, ServingStep DEF historyVars
<1>. QED
  BY <1>1, <1>2, <1>3, <1>4, <1>5 DEF HistoryNext

\* A log file and the index hold what they should, throughout.
THEOREM HistoryInvariance == HistorySpec => []HistoryInv
<1>. QED
  BY HistoryStarts, HistorySteps, PTL DEF HistorySpec

\* A job whose start was confirmed stays in the history, and one whose end was
\* confirmed is not shown as running again.
THEOREM HistoryIsKept == HistorySpec => []HistoryKeepsJobs
<1>1. HistoryInv => HistoryKeepsJobs
  <2>1. SUFFICES ASSUME HistoryInv, serving = "up", Present(jobIndex), rebuild.step = "none",
                        NEW j \in History, confirmed[j] # "none", ~ IndexGivesUp(j)
                 PROVE  /\ DetailKnown(j) /\ j \in Started(jobIndex)
                        /\ confirmed[j] = "end" => DetailEnded(j)
    BY DEF HistoryKeepsJobs
  <2>2. jobIndex \in Files /\ Good(j)
    BY <2>1, InvTypes
  <2>3. Kept(Content(jobIndex), j)
    BY <2>1, <2>2 DEF Good, InIndex
  <2>4. j \in Started(jobIndex) /\ (confirmed[j] = "end" => j \in Ended(jobIndex))
    BY <2>1, <2>2, <2>3, ShownFacts DEF Kept, Owed
  <2>. QED
    BY <2>4 DEF DetailKnown, DetailEnded
<1>. QED
  BY <1>1, HistoryInvariance, PTL

=============================================================================
