------------------------------- MODULE FileLock -------------------------------
(***************************************************************************)
(* The per-profile lock file of src/lock/file_lock.rs.                     *)
(*                                                                         *)
(* Every backup, restore, prune and migrate of a profile first calls       *)
(* `acquire`, which creates <profile>.lock with O_CREAT|O_EXCL, writes the *)
(* holder's pid and host name into it and removes it when the guard is     *)
(* dropped.  A file left by a process that no longer exists is reclaimed:  *)
(* removed, and the creation tried once more.  Each file system call is a  *)
(* step of its own; processes may crash between any two of them, and a     *)
(* pid may be given to an unrelated process.  The age of a lock only       *)
(* changes the wording of the refusal (lines 273-284) and is left out.     *)
(***************************************************************************)
EXTENDS Naturals, FiniteSets

CONSTANTS
    Hosts,   \* the hosts that share the lock directory
    Pids,    \* process ids
    Procs    \* the processes: pairs <<host, pid>>

ASSUME ProcsAssumption == Procs \subseteq Hosts \X Pids

VARIABLES
    pc,      \* where each process is in `acquire`, or "dead": the pid is free
    file,    \* the lock file: NoFile, or who created it and whether its JSON is there
    seen,    \* the holder each process read from the file
    stale,   \* history: the processes whose file was removed since they read it
    evicted  \* history: a reclaim has removed a file other than the one it judged

vars == <<pc, file, seen, stale, evicted>>

PcStates == {"dead", "other", "open", "write", "undo", "hold",
             "read", "classify", "reclaim", "reopen"}

NoFile == [by |-> <<>>, full |-> FALSE]

\* `read_holder`'s None: the file is missing or its JSON is not all there.
NoHolder == <<>>

Files == {NoFile} \cup [by : Procs, full : BOOLEAN]

TypeOK ==
    /\ pc \in [Procs -> PcStates]
    /\ file \in Files
    /\ seen \in [Procs -> Procs \cup {NoHolder}]
    /\ stale \in SUBSET Procs
    /\ evicted \in BOOLEAN

Init ==
    /\ pc = [p \in Procs |-> "dead"]
    /\ file = NoFile
    /\ seen = [p \in Procs |-> NoHolder]
    /\ stale = {}
    /\ evicted = FALSE

--------------------------------------------------------------------------------
Goto(p, l) == pc' = [pc EXCEPT ![p] = l]

\* kill(pid, 0) on host `h`: some process of that host has the pid.
pid_alive(h, pid) == <<h, pid>> \in Procs /\ pc[<<h, pid>>] # "dead"

\* remove_file: whoever has read the file without acting yet is now stale.
RemoveFile ==
    /\ file' = NoFile
    /\ stale' = IF file = NoFile THEN stale
                ELSE stale \cup {q \in Procs : pc[q] \in {"classify", "reclaim"}}

\* A command starts under this pid and calls `acquire`.
Start(p) ==
    /\ pc[p] = "dead"
    /\ Goto(p, "open")
    /\ UNCHANGED <<file, seen, stale, evicted>>

\* The operating system gives the pid to a process that never takes the lock.
PidReused(p) ==
    /\ pc[p] = "dead"
    /\ Goto(p, "other")
    /\ UNCHANGED <<file, seen, stale, evicted>>

\* `try_create`'s open: O_EXCL succeeds only when there is no file.
TryCreate(p) ==
    /\ pc[p] \in {"open", "reopen"}
    /\ file = NoFile
    /\ file' = [by |-> p, full |-> FALSE]
    /\ Goto(p, "write")
    /\ UNCHANGED <<seen, stale, evicted>>

\* AlreadyExists: look at the holder; after a reclaim, only report the conflict.
AlreadyExists(p) ==
    /\ pc[p] \in {"open", "reopen"}
    /\ file # NoFile
    /\ Goto(p, IF pc[p] = "open" THEN "read" ELSE "dead")
    /\ UNCHANGED <<file, seen, stale, evicted>>

\* Bug: the metadata is written by path instead of through the open handle.
WriteMetaByPath(p) ==
    /\ pc[p] = "write"
    /\ file' = [file EXCEPT !.full = TRUE]
    /\ Goto(p, "hold")
    /\ UNCHANGED <<seen, stale, evicted>>

\* write_all of the metadata; through an unlinked path it reaches no one.
WriteMeta(p) ==
    /\ pc[p] = "write"
    /\ file' = IF file.by = p THEN [by |-> p, full |-> TRUE] ELSE file
    /\ Goto(p, "hold")
    /\ UNCHANGED <<seen, stale, evicted>>

\* The write failed: `acquire` removes the file and returns the error.
WriteFails(p) ==
    /\ pc[p] = "write"
    /\ Goto(p, "undo")
    /\ UNCHANGED <<file, seen, stale, evicted>>

UndoCreate(p) ==
    /\ pc[p] = "undo"
    /\ RemoveFile
    /\ Goto(p, "dead")
    /\ UNCHANGED <<seen, evicted>>

ReadHolder(p) ==
    /\ pc[p] = "read"
    /\ seen' = [seen EXCEPT ![p] = IF file.full THEN file.by ELSE NoHolder]
    /\ stale' = stale \ {p}
    /\ Goto(p, "classify")
    /\ UNCHANGED <<file, evicted>>

\* Bug: the host name of the holder is not compared.
ReclaimableAnyHost(p) ==
    /\ seen[p] # NoHolder
    /\ ~ pid_alive(p[1], seen[p][2])

\* Bug: kill(pid, 0) is not consulted.
ReclaimableAlive(p) ==
    /\ seen[p] # NoHolder
    /\ seen[p][1] = p[1]

\* `classify`: reclaim only what a process of this very host left behind.
Reclaimable(p) ==
    /\ seen[p] # NoHolder
    /\ seen[p][1] = p[1]
    /\ ~ pid_alive(p[1], seen[p][2])

Classify(p) ==
    /\ pc[p] = "classify"
    /\ Goto(p, IF Reclaimable(p) THEN "reclaim" ELSE "dead")
    /\ UNCHANGED <<file, seen, stale, evicted>>

\* `acquire_in`'s remove_file, by path: whatever file is there now goes.
Reclaim(p) ==
    /\ pc[p] = "reclaim"
    /\ RemoveFile
    /\ evicted' = IF p \in stale /\ file # NoFile THEN TRUE ELSE evicted
    /\ Goto(p, "reopen")
    /\ UNCHANGED seen

\* `LockGuard::unlock`, on release or drop: by path, without looking inside.
Unlock(p) ==
    /\ pc[p] = "hold"
    /\ RemoveFile
    /\ Goto(p, "dead")
    /\ UNCHANGED <<seen, evicted>>

\* The process dies anywhere (SIGKILL, power): nothing is undone.
Crash(p) ==
    /\ pc[p] # "dead"
    /\ Goto(p, "dead")
    /\ UNCHANGED <<file, seen, stale, evicted>>

Next ==
    \E p \in Procs :
        \/ Start(p) \/ PidReused(p)
        \/ TryCreate(p) \/ AlreadyExists(p)
        \/ WriteMeta(p) \/ WriteFails(p) \/ UndoCreate(p)
        \/ ReadHolder(p) \/ Classify(p) \/ Reclaim(p)
        \/ Unlock(p) \/ Crash(p)

Spec == Init /\ [][Next]_vars

--------------------------------------------------------------------------------
(***************************************************************************)
(* Properties                                                              *)
(***************************************************************************)

\* The processes that believe they own the profile.
Holders == {p \in Procs : pc[p] = "hold"}

\* What the module's header promises (file_lock.rs:3-5): two commands never
\* run on one profile at the same time.
MutualExclusion == \A p, q \in Holders : p = q

\* Crashes, other hosts, half-written files and reused pids never break the
\* exclusion: the one thing that does is a reclaim whose remove_file hits a
\* file created after the holder it judged was read.
ExclusionUnlessEvicted == ~ evicted => MutualExclusion

\* Until that happens the file on disk names the process that owns it, so
\* dropping the guard (which removes by path) frees only its own lock.
OwnerHasFile ==
    ~ evicted => \A p \in Procs :
        /\ pc[p] \in {"write", "undo"} => file = [by |-> p, full |-> FALSE]
        /\ pc[p] = "hold" => file = [by |-> p, full |-> TRUE]

=============================================================================
