---------------------------- MODULE ScheduleFile ----------------------------
(***************************************************************************)
(* The file of the schedules (src/web/state/schedules.rs).                 *)
(*                                                                         *)
(* The console keeps the schedules in memory and writes the whole list on  *)
(* every change: it copies the file to the previous generation and then    *)
(* replaces it.  The callers take a lock, but the two file operations run  *)
(* on a blocking thread: a request whose client goes away gives up the     *)
(* lock while its thread goes on.  The console crashes at any step, and a  *)
(* file on disk may be found damaged.                                      *)
(***************************************************************************)
EXTENDS Integers, FiniteSets

CONSTANTS
    FileIds,      \* ids of schedules
    Triggers,     \* profile, expression and kind of a schedule
    Editors,      \* the requests that change schedules
    Loop,         \* the scheduler loop, which records the runs
    MaxSchedules, \* MAX_SCHEDULES
    MaxSaves,     \* bound: the saves that are begun
    MaxDamage,    \* bound: the times a file is damaged
    MaxLoads      \* bound: the starts of the console

ASSUME FileAssumption ==
    /\ FileIds \subseteq Nat
    /\ Loop \notin Editors
    /\ MaxSchedules \in Nat /\ MaxSaves \in Nat /\ MaxDamage \in Nat /\ MaxLoads \in Nat

VARIABLES
    main,       \* schedules.json
    prev,       \* schedules.prev.json
    corrupt,    \* schedules.corrupt.json has been written
    store,      \* the ScheduleStore of the running console
    writeLock,  \* the holder of ScheduleStore.write_lock, or Nobody
    call,       \* per caller: whether it waits for its thread
    thread,     \* per caller: its blocking thread in write_generation
    expected,   \* history: the lists a reader of the file may find
    overlapped, \* history: a save began while a thread of an earlier one ran
    fileSteps   \* counters for the bounds

fileVars == <<main, prev, corrupt, store, writeLock, call, thread, expected,
              overlapped, fileSteps>>

Callers == Editors \cup {Loop}

Nobody == "nobody"

\* A list: the schedules by id; ran stands for last_run_at and last_job_id.
Entries == [trigger : Triggers, ran : BOOLEAN]

Lists == UNION {[S -> Entries] : S \in SUBSET FileIds}

NoList == [i \in {} |-> [trigger |-> 0, ran |-> FALSE]]

\* A file: absent, readable, readable but for one entry, or not readable at all.
File(kind, list) == [kind |-> kind, list |-> list]

Absent == File("absent", NoList)

Bad == File("bad", NoList)

Files == {File(k, l) : k \in {"whole", "part"}, l \in Lists} \cup {Absent, Bad}

Down == [up |-> FALSE, snapshot |-> NoList, trusted |-> FALSE, degraded |-> FALSE,
         recovered |-> FALSE]

Resting == [at |-> "none", next |-> NoList, keep |-> FALSE, source |-> Absent]

Stores == [up : BOOLEAN, snapshot : Lists, trusted : BOOLEAN, degraded : BOOLEAN,
           recovered : BOOLEAN]

ThreadSteps == {"none", "copy", "copying", "write", "written", "failed"}

Threads == [at : ThreadSteps, next : Lists, keep : BOOLEAN, source : Files]

FileTypeOK ==
    /\ main \in Files /\ prev \in Files /\ corrupt \in BOOLEAN
    /\ store \in Stores
    /\ writeLock \in Callers \cup {Nobody}
    /\ call \in [Callers -> {"none", "waiting"}]
    /\ thread \in [Callers -> Threads]
    /\ expected \subseteq Lists
    /\ overlapped \in BOOLEAN
    /\ fileSteps \in [saves : 0..MaxSaves, damage : 0..MaxDamage, loads : 0..MaxLoads]

FileInit ==
    /\ main = Absent /\ prev = Absent /\ corrupt = FALSE
    /\ store = Down
    /\ writeLock = Nobody
    /\ call = [c \in Callers |-> "none"]
    /\ thread = [c \in Callers |-> Resting]
    /\ expected = {NoList}
    /\ overlapped = FALSE
    /\ fileSteps = [saves |-> 0, damage |-> 0, loads |-> 0]

--------------------------------------------------------------------------------
(* Loading.                                                                *)

\* parse_file succeeds: some entries may be left out.
Readable(f) == f.kind \in {"whole", "part"}

\* read_with_recovery when the file can be read.
Loaded(snapshot, degraded, recovered) ==
    [up |-> TRUE, snapshot |-> snapshot, trusted |-> ~degraded, degraded |-> degraded,
     recovered |-> recovered]

Recovered ==
    CASE main = Absent -> Loaded(NoList, FALSE, FALSE)
      [] Readable(main) -> Loaded(main.list, main.kind = "part", FALSE)
      [] main = Bad /\ Readable(prev) -> Loaded(prev.list, TRUE, TRUE)
      [] OTHER -> Loaded(NoList, TRUE, FALSE)

Starts(loaded) ==
    /\ ~store.up
    /\ fileSteps.loads < MaxLoads
    /\ fileSteps' = [fileSteps EXCEPT !.loads = @ + 1]
    /\ store' = loaded
    /\ UNCHANGED <<main, prev, writeLock, call, thread, expected, overlapped>>

\* load.
LoadFile ==
    /\ Starts(Recovered)
    /\ corrupt' = (corrupt \/ main = Bad)

\* load, when the file cannot be read at the moment: the previous generation is
\* not asked for.
LoadUnreadable ==
    /\ main # Absent
    /\ Starts(Loaded(NoList, TRUE, FALSE))
    /\ UNCHANGED corrupt

--------------------------------------------------------------------------------
(* Saving.                                                                 *)

\* Bug: whatever is there is copied.
AlwaysKeep == TRUE

\* persist, as far as the start of the thread.  A damaged file is not copied.
KeepPrev == store.trusted

Persist(c, next) ==
    /\ store.up
    /\ writeLock = Nobody /\ call[c] = "none" /\ thread[c].at = "none"
    /\ fileSteps.saves < MaxSaves
    /\ fileSteps' = [fileSteps EXCEPT !.saves = @ + 1]
    /\ writeLock' = c
    /\ call' = [call EXCEPT ![c] = "waiting"]
    /\ thread' = [thread EXCEPT ![c] = [Resting EXCEPT !.at = "copy", !.next = next,
                                                       !.keep = KeepPrev]]
    /\ overlapped' = (overlapped \/ \E d \in Callers : thread[d].at # "none")
    /\ UNCHANGED <<main, prev, corrupt, store, expected>>

\* same_trigger of a schedule other than i.
Taken(i, t) == \E j \in DOMAIN store.snapshot \ {i} : store.snapshot[j].trigger = t

Put(i, e) == [j \in DOMAIN store.snapshot \cup {i} |-> IF j = i THEN e ELSE store.snapshot[j]]

\* Which of the ids not in the list is given to a new schedule does not matter.
CreateSchedule(c, i, t) ==
    /\ i \notin DOMAIN store.snapshot
    /\ \A j \in FileIds \ DOMAIN store.snapshot : i <= j
    /\ Cardinality(DOMAIN store.snapshot) < MaxSchedules
    /\ ~Taken(i, t)
    /\ Persist(c, Put(i, [trigger |-> t, ran |-> FALSE]))

UpdateSchedule(c, i, t) ==
    /\ i \in DOMAIN store.snapshot
    /\ ~Taken(i, t)
    /\ Persist(c, Put(i, [store.snapshot[i] EXCEPT !.trigger = t]))

DeleteSchedule(c, i) ==
    /\ i \in DOMAIN store.snapshot
    /\ Persist(c, [j \in DOMAIN store.snapshot \ {i} |-> store.snapshot[j]])

\* record_run; a schedule deleted since is not brought back.
RecordRunInFile(i) ==
    /\ i \in DOMAIN store.snapshot
    /\ Persist(Loop, Put(i, [store.snapshot[i] EXCEPT !.ran = TRUE]))

ThreadTo(c, at) == thread' = [thread EXCEPT ![c].at = at]

\* write_generation: the copy truncates the previous generation first.
BeginCopy(c) ==
    /\ thread[c].at = "copy"
    /\ thread[c].keep /\ main # Absent
    /\ thread' = [thread EXCEPT ![c].at = "copying", ![c].source = main]
    /\ prev' = Bad
    /\ UNCHANGED <<main, corrupt, store, writeLock, call, expected, overlapped, fileSteps>>

SkipCopy(c) ==
    /\ thread[c].at = "copy"
    /\ ~thread[c].keep \/ main = Absent
    /\ ThreadTo(c, "write")
    /\ UNCHANGED <<main, prev, corrupt, store, writeLock, call, expected, overlapped, fileSteps>>

\* The copy is complete; two copies at once may leave a mixture.
EndCopy(c) ==
    /\ thread[c].at = "copying"
    /\ \/ prev' = thread[c].source
       \/ (\E d \in Callers \ {c} : thread[d].at = "copying") /\ prev' = Bad
    /\ ThreadTo(c, "write")
    /\ UNCHANGED <<main, corrupt, store, writeLock, call, expected, overlapped, fileSteps>>

\* A copy that fails is only logged.
CopyFails(c) ==
    /\ thread[c].at \in {"copy", "copying"} /\ thread[c].keep /\ main # Absent
    /\ ThreadTo(c, "write")
    /\ UNCHANGED <<main, prev, corrupt, store, writeLock, call, expected, overlapped, fileSteps>>

\* write_atomic: a temporary file, synced, takes the name.
WriteAtomic(c) ==
    /\ thread[c].at = "write"
    /\ main' = File("whole", thread[c].next)
    /\ expected' = expected \cup {thread[c].next}
    /\ ThreadTo(c, "written")
    /\ UNCHANGED <<prev, corrupt, store, writeLock, call, overlapped, fileSteps>>

WriteFails(c) ==
    /\ thread[c].at = "write"
    /\ ThreadTo(c, "failed")
    /\ UNCHANGED <<main, prev, corrupt, store, writeLock, call, expected, overlapped, fileSteps>>

\* Bug: the list in memory changes although the file was not written.
AdoptedAnyway(c) == [store EXCEPT !.snapshot = thread[c].next, !.trusted = TRUE]

\* The end of persist: the list in memory follows the file, never before it.
Adopted(c) ==
    IF thread[c].at = "written"
    THEN [store EXCEPT !.snapshot = thread[c].next, !.trusted = TRUE]
    ELSE store

EndPersist(c) ==
    /\ call[c] = "waiting" /\ thread[c].at \in {"written", "failed"}
    /\ store' = Adopted(c)
    /\ expected' = IF thread[c].at = "written" THEN {thread[c].next} ELSE expected
    /\ writeLock' = Nobody
    /\ call' = [call EXCEPT ![c] = "none"]
    /\ thread' = [thread EXCEPT ![c] = Resting]
    /\ UNCHANGED <<main, prev, corrupt, overlapped, fileSteps>>

\* The client of a request goes away: its future is dropped, and the guard of the
\* lock with it.  The thread goes on.
ClientGone(c) ==
    /\ c \in Editors /\ call[c] = "waiting"
    /\ call' = [call EXCEPT ![c] = "none"]
    /\ writeLock' = Nobody
    /\ UNCHANGED <<main, prev, corrupt, store, thread, expected, overlapped, fileSteps>>

\* Nobody takes the result of such a thread.
ThreadEnds(c) ==
    /\ call[c] = "none" /\ thread[c].at \in {"written", "failed"}
    /\ thread' = [thread EXCEPT ![c] = Resting]
    /\ UNCHANGED <<main, prev, corrupt, store, writeLock, call, expected, overlapped, fileSteps>>

--------------------------------------------------------------------------------
(* Faults.                                                                 *)

StoreCrash ==
    /\ store.up
    /\ store' = Down
    /\ writeLock' = Nobody
    /\ call' = [c \in Callers |-> "none"]
    /\ thread' = [c \in Callers |-> Resting]
    /\ UNCHANGED <<main, prev, corrupt, expected, overlapped, fileSteps>>

\* The file is found damaged: as a whole, or in one of its entries.
Damage ==
    /\ Readable(main)
    /\ fileSteps.damage < MaxDamage
    /\ fileSteps' = [fileSteps EXCEPT !.damage = @ + 1]
    /\ \/ main' = Bad
       \/ \E i \in DOMAIN main.list :
              main' = File("part", [j \in DOMAIN main.list \ {i} |-> main.list[j]])
    /\ UNCHANGED <<prev, corrupt, store, writeLock, call, thread, expected, overlapped>>

FileNext ==
    \/ LoadFile \/ LoadUnreadable \/ StoreCrash \/ Damage
    \/ \E i \in FileIds : RecordRunInFile(i)
    \/ \E c \in Editors, i \in FileIds :
           \/ DeleteSchedule(c, i)
           \/ \E t \in Triggers : CreateSchedule(c, i, t) \/ UpdateSchedule(c, i, t)
    \/ \E c \in Callers :
           \/ BeginCopy(c) \/ SkipCopy(c) \/ EndCopy(c) \/ CopyFails(c)
           \/ WriteAtomic(c) \/ WriteFails(c)
           \/ EndPersist(c) \/ ClientGone(c) \/ ThreadEnds(c)

FileSpec == FileInit /\ [][FileNext]_fileVars

--------------------------------------------------------------------------------
(* Properties.                                                             *)

\* The lists of a console that reports no problem are the last ones whose save
\* was confirmed, or ones a save without an answer had put on disk.
AcknowledgedIsKept == store.up /\ ~store.degraded => store.snapshot \in expected

\* A console that reports no problem has lost no confirmed change, however it
\* crashed and whatever failed before (persist: the file first; write_generation:
\* the copy first; read_with_recovery: damage is reported), unless the thread of
\* an abandoned request ran beside a later save.
NoSilentLoss == overlapped \/ AcknowledgedIsKept

\* Schedules recovered from the previous generation can be recovered again until
\* a save has replaced the damaged file: no save and no crash in between makes
\* the damage the previous generation (persist's keep_prev).
RecoveryRepeats == store.recovered /\ ~store.trusted => Readable(prev)

================================================================================
