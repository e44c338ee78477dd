-------------------------- MODULE ConsoleStateProofs --------------------------
(***************************************************************************)
(* Theorems about what the console keeps, for any schedules, triggers,     *)
(* requests, savers and bounds: what the file keeps of the schedules and   *)
(* when the scheduler fires them; that a key of the probe cache has one    *)
(* child at a time and that what a job has changed is not hidden by what   *)
(* was seen before; and that saving config.toml loses neither a change nor *)
(* the version it replaces.                                                *)
(***************************************************************************)
EXTENDS Scheduler, ScheduleFile, ProbeCache, ConfigSave, FiniteSetTheorems, WellFoundedInduction, TLAPS

--------------------------------------------------------------------------------
(* The file of the schedules.                                              *)

Alive(c) == thread[c].at # "none"

\* A console that is down has no threads, one that is up has a thread for each
\* caller that waits; two at once are what overlapped says.
ThreadsOfCalls ==
    /\ ~store.up => \A c \in Callers : ~Alive(c)
    /\ \A c \in Callers : call[c] = "waiting" => Alive(c)
    /\ ~overlapped => \A c, d \in Callers : Alive(c) /\ Alive(d) => c = d

\* What a reader of the file finds whole is expected; the thread that has just
\* written it wrote that.
FileIsExpected ==
    /\ main = Absent => NoList \in expected
    /\ main.kind = "whole" => main.list \in expected
    /\ \A c \in Callers : thread[c].at = "written" =>
           main # Absent /\ (main.kind = "whole" => main.list = thread[c].next)
    /\ AcknowledgedIsKept

\* As long as the list in memory may be less than what was saved, no thread
\* copies the file over the previous generation.
CopiesAreTrusted ==
    /\ store.up /\ ~store.trusted => \A c \in Callers : Alive(c) => ~thread[c].keep
    /\ \A c \in Callers : thread[c].at = "copying" => thread[c].keep
    /\ store.recovered => store.up
    /\ RecoveryRepeats

SavesInv == ThreadsOfCalls /\ (overlapped \/ FileIsExpected) /\ CopiesAreTrusted

\* The lists that the operations make of the one in memory.
LEMMA ListsOfOperations ==
    /\ NoList \in Lists /\ Absent \in Files /\ Bad \in Files
    /\ \A l \in Lists : File("whole", l) \in Files /\ File("part", l) \in Files
    /\ \A f \in Files : f.list \in Lists
    /\ \A l \in Lists, i \in FileIds : [j \in DOMAIN l \ {i} |-> l[j]] \in Lists
    /\ \A l \in Lists, i \in FileIds, e \in Entries :
           [j \in DOMAIN l \cup {i} |-> IF j = i THEN e ELSE l[j]] \in Lists
<1>1. NoList \in Lists
  <2>1. NoList \in [{} -> Entries]
    BY DEF NoList
  <2>. QED
    BY <2>1 DEF Lists
<1>2. Absent \in Files /\ Bad \in Files
  BY DEF Files
<1>3. ASSUME NEW l \in Lists PROVE File("whole", l) \in Files /\ File("part", l) \in Files
  BY DEF Files
<1>4. ASSUME NEW f \in Files PROVE f.list \in Lists
  BY <1>1 DEF Files, File, Absent, Bad
<1>5. ASSUME NEW l \in Lists PROVE DOMAIN l \in SUBSET FileIds /\ l \in [DOMAIN l -> Entries]
  BY DEF Lists
<1>6. ASSUME NEW D \in SUBSET FileIds, NEW l \in [D -> Entries] PROVE l \in Lists
  BY <1>6 DEF Lists
<1>7. ASSUME NEW l \in Lists, NEW i \in FileIds
      PROVE  [j \in DOMAIN l \ {i} |-> l[j]] \in Lists
  <2>1. [j \in DOMAIN l \ {i} |-> l[j]] \in [DOMAIN l \ {i} -> Entries]
    BY <1>5
  <2>. QED
    BY <1>5, <1>6, <2>1
<1>8. ASSUME NEW l \in Lists, NEW i \in FileIds, NEW e \in Entries
      PROVE  [j \in DOMAIN l \cup {i} |-> IF j = i THEN e ELSE l[j]] \in Lists
  <2>1. [j \in DOMAIN l \cup {i} |-> IF j = i THEN e ELSE l[j]] \in [DOMAIN l \cup {i} -> Entries]
    BY <1>5
  <2>2. DOMAIN l \cup {i} \in SUBSET FileIds
    BY <1>5
  <2>. QED
    BY <1>6, <2>1, <2>2
<1>. QED
  BY <1>1, <1>2, <1>3, <1>4, <1>7, <1>8

\* Every operation on the schedules is a save of a list by one caller.
LEMMA OperationsSave ==
    ASSUME FileTypeOK, FileNext
    PROVE  \/ LoadFile \/ LoadUnreadable \/ StoreCrash \/ Damage
           \/ \E c \in Callers, next \in Lists : Persist(c, next)
           \/ \E c \in Callers :
                  \/ BeginCopy(c) \/ SkipCopy(c) \/ EndCopy(c) \/ CopyFails(c)
                  \/ WriteAtomic(c) \/ WriteFails(c)
                  \/ EndPersist(c) \/ ClientGone(c) \/ ThreadEnds(c)
<1>1. store.snapshot \in Lists
  BY DEF FileTypeOK, Stores
<1>2. ASSUME NEW i \in DOMAIN store.snapshot PROVE store.snapshot[i] \in Entries
  BY <1>1 DEF Lists
<1>3. ASSUME NEW i \in FileIds, RecordRunInFile(i)
      PROVE  \E next \in Lists : Persist(Loop, next)
  <2>1. [store.snapshot[i] EXCEPT !.ran = TRUE] \in Entries
    BY <1>2, <1>3 DEF RecordRunInFile, Entries
  <2>. QED
    BY <1>1, <1>3, <2>1, ListsOfOperations DEF RecordRunInFile, Put
<1>4. ASSUME NEW c \in Editors, NEW i \in FileIds, DeleteSchedule(c, i)
      PROVE  \E next \in Lists : Persist(c, next)
  BY <1>1, <1>4, ListsOfOperations DEF DeleteSchedule
<1>5. ASSUME NEW c \in Editors, NEW i \in FileIds, NEW t \in Triggers, CreateSchedule(c, i, t)
      PROVE  \E next \in Lists : Persist(c, next)
  <2>1. [trigger |-> t, ran |-> FALSE] \in Entries
    BY DEF Entries
  <2>. QED
    BY <1>1, <1>5, <2>1, ListsOfOperations DEF CreateSchedule, Put
<1>6. ASSUME NEW c \in Editors, NEW i \in FileIds, NEW t \in Triggers, UpdateSchedule(c, i, t)
      PROVE  \E next \in Lists : Persist(c, next)
  <2>1. [store.snapshot[i] EXCEPT !.trigger = t] \in Entries
    BY <1>2, <1>6 DEF UpdateSchedule, Entries
  <2>. QED
    BY <1>1, <1>6, <2>1, ListsOfOperations DEF UpdateSchedule, Put
<1>. QED
  BY <1>3, <1>4, <1>5, <1>6 DEF FileNext, Callers

\* The types are kept.
LEMMA FileTypeStep == FileTypeOK /\ [FileNext]_fileVars => FileTypeOK'
<1>. SUFFICES ASSUME FileTypeOK, [FileNext]_fileVars PROVE FileTypeOK'
  OBVIOUS
<1>b. MaxSaves \in Nat /\ MaxDamage \in Nat /\ MaxLoads \in Nat
  BY FileAssumption
<1>l. NoList \in Lists /\ Absent \in Files /\ Bad \in Files
  BY ListsOfOperations
<1>r. Resting \in Threads
  BY <1>l DEF Resting, Threads, ThreadSteps
<1>d. Down \in Stores
  BY <1>l DEF Down, Stores
<1>t. /\ main \in Files /\ prev \in Files /\ corrupt \in BOOLEAN /\ store \in Stores
      /\ writeLock \in Callers \cup {Nobody} /\ call \in [Callers -> {"none", "waiting"}]
      /\ thread \in [Callers -> Threads] /\ expected \subseteq Lists /\ overlapped \in BOOLEAN
      /\ fileSteps \in [saves : 0..MaxSaves, damage : 0..MaxDamage, loads : 0..MaxLoads]
  BY DEF FileTypeOK
<1>s. ASSUME NEW c \in Callers, NEW at \in ThreadSteps, ThreadTo(c, at)
      PROVE  thread' \in [Callers -> Threads]
  <2>1. [thread[c] EXCEPT !.at = at] \in Threads
    BY <1>t DEF Threads
  <2>. QED
    BY <1>t, <1>s, <2>1 DEF ThreadTo
<1>1. CASE LoadFile \/ LoadUnreadable
  <2>1. ASSUME NEW l \in Lists, NEW d \in BOOLEAN, NEW r \in BOOLEAN
        PROVE  Loaded(l, d, r) \in Stores
    BY DEF Loaded, Stores
  <2>2. Recovered \in Stores
    BY <1>t, <1>l, <2>1, ListsOfOperations DEF Recovered
  <2>3. Loaded(NoList, TRUE, FALSE) \in Stores
    BY <1>l, <2>1
  <2>4. /\ store' \in Stores /\ fileSteps' = [fileSteps EXCEPT !.loads = @ + 1]
        /\ fileSteps.loads < MaxLoads /\ corrupt' \in BOOLEAN
        /\ UNCHANGED <<main, prev, writeLock, call, thread, expected, overlapped>>
    BY <1>1, <1>t, <2>2, <2>3 DEF LoadFile, LoadUnreadable, Starts
  <2>. QED
    BY <1>b, <2>4 DEF FileTypeOK
<1>2. CASE StoreCrash
  BY <1>2, <1>t, <1>d, <1>r DEF StoreCrash, FileTypeOK
<1>3. CASE Damage
  <2>1. main' \in Files
    <3>1. main.list \in Lists /\ DOMAIN main.list \subseteq FileIds
      BY <1>t, ListsOfOperations DEF Lists
    <3>2. ASSUME NEW i \in DOMAIN main.list
          PROVE  File("part", [j \in DOMAIN main.list \ {i} |-> main.list[j]]) \in Files
      BY <3>1, ListsOfOperations
    <3>. QED
      BY <1>3, <1>l, <3>2 DEF Damage
  <2>2. fileSteps' \in [saves : 0..MaxSaves, damage : 0..MaxDamage, loads : 0..MaxLoads]
    BY <1>3, <1>b, <1>t DEF Damage
  <2>. QED
    BY <1>3, <1>t, <2>1, <2>2 DEF Damage, FileTypeOK
<1>4. ASSUME NEW c \in Callers, NEW next \in Lists, Persist(c, next)
      PROVE  FileTypeOK'
  <2>1. [Resting EXCEPT !.at = "copy", !.next = next, !.keep = KeepPrev] \in Threads
    BY <1>t, <1>l DEF Resting, Threads, ThreadSteps, KeepPrev, Stores
  <2>2. fileSteps' \in [saves : 0..MaxSaves, damage : 0..MaxDamage, loads : 0..MaxLoads]
    BY <1>4, <1>b, <1>t DEF Persist
  <2>. QED
    BY <1>4, <1>t, <2>1, <2>2 DEF Persist, FileTypeOK
<1>5. ASSUME NEW c \in Callers, SkipCopy(c) \/ CopyFails(c) \/ WriteFails(c)
      PROVE  FileTypeOK'
  BY <1>5, <1>t, <1>s DEF SkipCopy, CopyFails, WriteFails, FileTypeOK, ThreadSteps
<1>6. ASSUME NEW c \in Callers, BeginCopy(c)
      PROVE  FileTypeOK'
  <2>1. [thread[c] EXCEPT !.at = "copying", !.source = main] \in Threads
    BY <1>t DEF Threads, ThreadSteps
  <2>2. thread' = [thread EXCEPT ![c] = [thread[c] EXCEPT !.at = "copying", !.source = main]]
    BY <1>6 DEF BeginCopy
  <2>. QED
    BY <1>6, <1>t, <1>l, <2>1, <2>2 DEF BeginCopy, FileTypeOK
<1>7. ASSUME NEW c \in Callers, EndCopy(c)
      PROVE  FileTypeOK'
  <2>1. prev' \in Files
    BY <1>7, <1>t, <1>l DEF EndCopy, Threads
  <2>. QED
    BY <1>7, <1>t, <1>s, <2>1 DEF EndCopy, FileTypeOK, ThreadSteps
<1>8. ASSUME NEW c \in Callers, WriteAtomic(c)
      PROVE  FileTypeOK'
  <2>1. thread[c].next \in Lists
    BY <1>t DEF Threads
  <2>. QED
    BY <1>8, <1>t, <1>s, <2>1, ListsOfOperations DEF WriteAtomic, FileTypeOK, ThreadSteps
<1>9. ASSUME NEW c \in Callers, EndPersist(c)
      PROVE  FileTypeOK'
  <2>1. thread[c].next \in Lists
    BY <1>t DEF Threads
  <2>2. store' \in Stores
    BY <1>9, <1>t, <2>1 DEF EndPersist, Adopted, Stores
  <2>. QED
    BY <1>9, <1>t, <1>r, <2>1, <2>2 DEF EndPersist, FileTypeOK
<1>10. ASSUME NEW c \in Callers, ClientGone(c) \/ ThreadEnds(c)
       PROVE  FileTypeOK'
  BY <1>10, <1>t, <1>r DEF ClientGone, ThreadEnds, FileTypeOK
<1>11. CASE UNCHANGED fileVars
  BY <1>11, <1>t DEF fileVars, FileTypeOK
<1>. QED
  BY <1>1, <1>2, <1>3, <1>4, <1>5, <1>6, <1>7, <1>8, <1>9, <1>10, <1>11, OperationsSave

\* The lock admits one caller, and the threads of two callers are alive at once
\* only after one of them was abandoned.
LEMMA ThreadsStep == FileTypeOK /\ ThreadsOfCalls /\ [FileNext]_fileVars => ThreadsOfCalls'
<1>. SUFFICES ASSUME FileTypeOK, ThreadsOfCalls, [FileNext]_fileVars PROVE ThreadsOfCalls'
  OBVIOUS
<1>t. /\ store \in Stores /\ call \in [Callers -> {"none", "waiting"}]
      /\ thread \in [Callers -> Threads] /\ overlapped \in BOOLEAN
  BY DEF FileTypeOK
<1>. USE DEF ThreadsOfCalls, Alive
\* A thread that takes a step of its own stays alive.
<1>s. ASSUME NEW c \in Callers, Alive(c), UNCHANGED <<store, call, overlapped>>,
             \A d \in Callers \ {c} : thread'[d] = thread[d], Alive(c)'
      PROVE  ThreadsOfCalls'
  BY <1>s
<1>1. CASE LoadFile \/ LoadUnreadable
  BY <1>1 DEF LoadFile, LoadUnreadable, Starts
<1>2. CASE StoreCrash
  BY <1>2, <1>t DEF StoreCrash, Resting
<1>3. CASE Damage
  BY <1>3 DEF Damage
<1>4. ASSUME NEW c \in Callers, NEW next \in Lists, Persist(c, next)
      PROVE  ThreadsOfCalls'
  <2>1. /\ store.up /\ store' = store
        /\ thread' = [thread EXCEPT ![c] = [Resting EXCEPT !.at = "copy", !.next = next,
                                                          !.keep = KeepPrev]]
        /\ call' = [call EXCEPT ![c] = "waiting"]
        /\ overlapped' = (overlapped \/ \E d \in Callers : thread[d].at # "none")
    BY <1>4 DEF Persist
  <2>2. thread'[c].at = "copy" /\ \A d \in Callers \ {c} : thread'[d] = thread[d]
    BY <1>t, <2>1 DEF Resting
  <2>3. \A d \in Callers : call'[d] = "waiting" => Alive(d)'
    BY <1>t, <2>1, <2>2
  <2>4. ~overlapped' => \A d \in Callers : Alive(d)' => d = c
    BY <2>1, <2>2
  <2>. QED
    BY <2>1, <2>3, <2>4
<1>5. ASSUME NEW c \in Callers,
             \/ BeginCopy(c) \/ SkipCopy(c) \/ EndCopy(c) \/ CopyFails(c)
             \/ WriteAtomic(c) \/ WriteFails(c)
      PROVE  ThreadsOfCalls'
  <2>1. thread[c] \in Threads
    BY <1>t
  <2>2. /\ Alive(c) /\ UNCHANGED <<store, call, overlapped>>
        /\ \A d \in Callers \ {c} : thread'[d] = thread[d]
    BY <1>5, <1>t DEF BeginCopy, SkipCopy, EndCopy, CopyFails, WriteAtomic, WriteFails, ThreadTo
  <2>3. Alive(c)'
    BY <1>5, <1>t, <2>1 DEF BeginCopy, SkipCopy, EndCopy, CopyFails, WriteAtomic, WriteFails,
                            ThreadTo, Threads
  <2>. QED
    BY <1>s, <2>2, <2>3
<1>6. ASSUME NEW c \in Callers, EndPersist(c)
      PROVE  ThreadsOfCalls'
  <2>1. store.up = store'.up
    BY <1>6, <1>t DEF EndPersist, Adopted, Stores
  <2>2. /\ thread' = [thread EXCEPT ![c] = Resting] /\ call' = [call EXCEPT ![c] = "none"]
        /\ overlapped' = overlapped
    BY <1>6 DEF EndPersist
  <2>. QED
    BY <1>t, <2>1, <2>2 DEF Resting
<1>7. ASSUME NEW c \in Callers, ClientGone(c)
      PROVE  ThreadsOfCalls'
  BY <1>7, <1>t DEF ClientGone
<1>8. ASSUME NEW c \in Callers, ThreadEnds(c)
      PROVE  ThreadsOfCalls'
  BY <1>8, <1>t DEF ThreadEnds, Resting
<1>9. CASE UNCHANGED fileVars
  BY <1>9 DEF fileVars
<1>. QED
  BY <1>1, <1>2, <1>3, <1>4, <1>5, <1>6, <1>7, <1>8, <1>9, OperationsSave

\* The list in memory follows the file, and the file holds what was saved last or
\* is seen to be damaged.
LEMMA ExpectedStep ==
    FileTypeOK /\ ThreadsOfCalls /\ (overlapped \/ FileIsExpected) /\ [FileNext]_fileVars
        => (overlapped \/ FileIsExpected)'
<1>. SUFFICES ASSUME FileTypeOK, ThreadsOfCalls, overlapped \/ FileIsExpected,
                     [FileNext]_fileVars, ~overlapped'
              PROVE  FileIsExpected'
  OBVIOUS
<1>t. /\ store \in Stores /\ thread \in [Callers -> Threads] /\ overlapped \in BOOLEAN
  BY DEF FileTypeOK
<1>o. ~overlapped
  BY <1>t, OperationsSave
     DEF LoadFile, LoadUnreadable, Starts, StoreCrash, Damage, Persist, BeginCopy, SkipCopy,
         EndCopy, CopyFails, WriteAtomic, WriteFails, EndPersist, ClientGone, ThreadEnds, fileVars
<1>e. /\ main = Absent => NoList \in expected
      /\ main.kind = "whole" => main.list \in expected
      /\ \A c \in Callers : thread[c].at = "written" =>
             main # Absent /\ (main.kind = "whole" => main.list = thread[c].next)
      /\ store.up /\ ~store.degraded => store.snapshot \in expected
  BY <1>o DEF FileIsExpected, AcknowledgedIsKept
<1>a. \A c, d \in Callers : Alive(c) /\ Alive(d) => c = d
  BY <1>o DEF ThreadsOfCalls
<1>f. Absent.kind = "absent" /\ Bad.kind = "bad"
  BY DEF Absent, Bad, File
<1>. USE DEF FileIsExpected, AcknowledgedIsKept
\* A step that leaves files, memory and expectation alone.
<1>s. ASSUME UNCHANGED <<main, store, expected>>,
             \A c \in Callers : thread'[c].at = "written" => thread'[c] = thread[c]
      PROVE  FileIsExpected'
  BY <1>s, <1>e
<1>1. CASE LoadFile
  <2>1. store' = Recovered /\ UNCHANGED <<main, expected, thread>> /\ ~store.up
    BY <1>1 DEF LoadFile, Starts
  <2>2. store'.up /\ ~store'.degraded => store'.snapshot \in expected
    <3>1. CASE main = Absent
      BY <1>e, <1>f, <2>1, <3>1 DEF Recovered, Loaded, Readable
    <3>2. CASE main # Absent /\ Readable(main)
      BY <1>e, <1>f, <2>1, <3>2 DEF Recovered, Loaded, Readable
    <3>3. CASE main # Absent /\ ~Readable(main)
      BY <2>1, <3>3 DEF Recovered, Loaded
    <3>. QED
      BY <3>1, <3>2, <3>3
  <2>. QED
    BY <1>e, <2>1, <2>2
<1>2. CASE LoadUnreadable
  BY <1>2, <1>e DEF LoadUnreadable, Starts, Loaded
<1>3. CASE StoreCrash
  BY <1>3, <1>e DEF StoreCrash, Resting, Down
<1>4. CASE Damage
  <2>1. main'.kind \in {"bad", "part"} /\ UNCHANGED <<store, expected, thread>>
    <3>1. \A l : File("part", l).kind = "part"
      BY DEF File
    <3>. QED
      BY <1>4, <1>f, <3>1 DEF Damage
  <2>2. main' # Absent
    BY <1>f, <2>1
  <2>. QED
    BY <1>e, <2>1, <2>2
<1>5. ASSUME NEW c \in Callers, NEW next \in Lists, Persist(c, next)
      PROVE  FileIsExpected'
  BY <1>5, <1>t, <1>s DEF Persist, Resting
<1>6. ASSUME NEW c \in Callers, BeginCopy(c) \/ SkipCopy(c) \/ EndCopy(c) \/ CopyFails(c)
      PROVE  FileIsExpected'
  <2>1. /\ UNCHANGED <<main, store, expected>> /\ thread[c] \in Threads
        /\ \A d \in Callers \ {c} : thread'[d] = thread[d]
    BY <1>6, <1>t DEF BeginCopy, SkipCopy, EndCopy, CopyFails, ThreadTo
  <2>2. thread'[c].at # "written"
    BY <1>6, <1>t, <2>1 DEF BeginCopy, SkipCopy, EndCopy, CopyFails, ThreadTo, Threads
  <2>. QED
    BY <1>s, <2>1, <2>2
<1>7. ASSUME NEW c \in Callers, WriteFails(c)
      PROVE  FileIsExpected'
  <2>1. thread' = [thread EXCEPT ![c] = [thread[c] EXCEPT !.at = "failed"]]
        /\ UNCHANGED <<main, store, expected>>
    BY <1>7 DEF WriteFails, ThreadTo
  <2>2. thread'[c].at = "failed"
    BY <1>t, <2>1 DEF Threads
  <2>. QED
    BY <1>s, <1>t, <2>1, <2>2
<1>8. ASSUME NEW c \in Callers, WriteAtomic(c)
      PROVE  FileIsExpected'
  <2>1. /\ thread' = [thread EXCEPT ![c] = [thread[c] EXCEPT !.at = "written"]]
        /\ main' = File("whole", thread[c].next) /\ expected' = expected \cup {thread[c].next}
        /\ store' = store /\ thread[c].at = "write"
    BY <1>8 DEF WriteAtomic, ThreadTo
  <2>2. main'.kind = "whole" /\ main'.list = thread[c].next /\ main' # Absent
    BY <1>f, <2>1 DEF File
  <2>3. thread'[c].next = thread[c].next
    BY <1>t, <2>1 DEF Threads
  <2>4. \A d \in Callers \ {c} : thread'[d].at # "written"
    BY <1>a, <1>t, <2>1 DEF Alive
  <2>. QED
    BY <1>e, <2>1, <2>2, <2>3, <2>4
<1>9. ASSUME NEW c \in Callers, EndPersist(c)
      PROVE  FileIsExpected'
  <2>1. /\ main' = main /\ thread' = [thread EXCEPT ![c] = Resting]
        /\ store' = Adopted(c) /\ Alive(c)
        /\ expected' = IF thread[c].at = "written" THEN {thread[c].next} ELSE expected
    BY <1>9 DEF EndPersist, Alive
  <2>2. \A d \in Callers : thread'[d].at = "none"
    BY <1>a, <1>t, <2>1 DEF Alive, Resting
  <2>3. CASE thread[c].at = "written"
    <3>1. store'.snapshot = thread[c].next
      BY <1>t, <2>1, <2>3 DEF Adopted, Stores
    <3>. QED
      BY <1>e, <2>1, <2>2, <2>3, <3>1
  <2>4. CASE thread[c].at # "written"
    BY <1>e, <2>1, <2>2, <2>4 DEF Adopted
  <2>. QED
    BY <2>3, <2>4
<1>10. ASSUME NEW c \in Callers, ClientGone(c) \/ ThreadEnds(c)
       PROVE  FileIsExpected'
  BY <1>10, <1>t, <1>s DEF ClientGone, ThreadEnds, Resting
<1>11. CASE UNCHANGED fileVars
  BY <1>11, <1>s DEF fileVars
<1>. QED
  BY <1>1, <1>2, <1>3, <1>4, <1>5, <1>6, <1>7, <1>8, <1>9, <1>10, <1>11, OperationsSave

\* A thread copies the file only if the list in memory was trusted when it was
\* started, and it stays trusted until the console stops.
LEMMA CopiesStep ==
    FileTypeOK /\ ThreadsOfCalls /\ CopiesAreTrusted /\ [FileNext]_fileVars => CopiesAreTrusted'
<1>. SUFFICES ASSUME FileTypeOK, ThreadsOfCalls, CopiesAreTrusted, [FileNext]_fileVars
              PROVE  CopiesAreTrusted'
  OBVIOUS
<1>t. store \in Stores /\ thread \in [Callers -> Threads]
  BY DEF FileTypeOK
<1>. USE DEF CopiesAreTrusted, RecoveryRepeats, Alive
\* A step that leaves memory and previous generation alone and starts no copy.
<1>s. ASSUME UNCHANGED <<store, prev>>,
             \A c \in Callers : Alive(c)' => Alive(c) /\ thread'[c].keep = thread[c].keep,
             \A c \in Callers : thread'[c].at = "copying" => thread[c].at = "copying"
      PROVE  CopiesAreTrusted'
  BY <1>s DEF Readable
<1>1. CASE LoadFile
  <2>1. store' = Recovered /\ UNCHANGED <<prev, thread>> /\ ~store.up
    BY <1>1 DEF LoadFile, Starts
  <2>2. store'.up /\ (store'.recovered => Readable(prev))
    BY <2>1 DEF Recovered, Loaded
  <2>3. \A c \in Callers : ~Alive(c)
    BY <2>1 DEF ThreadsOfCalls
  <2>. QED
    BY <2>1, <2>2, <2>3 DEF Readable
<1>2. CASE LoadUnreadable
  <2>1. /\ store'.up /\ ~store'.recovered /\ UNCHANGED <<prev, thread>> /\ ~store.up
    BY <1>2 DEF LoadUnreadable, Starts, Loaded
  <2>2. \A c \in Callers : ~Alive(c)
    BY <2>1 DEF ThreadsOfCalls
  <2>. QED
    BY <2>1, <2>2
<1>3. CASE StoreCrash
  BY <1>3 DEF StoreCrash, Resting, Down
<1>4. CASE Damage
  BY <1>4, <1>s DEF Damage
<1>5. ASSUME NEW c \in Callers, NEW next \in Lists, Persist(c, next)
      PROVE  CopiesAreTrusted'
  <2>1. /\ UNCHANGED <<store, prev>>
        /\ thread' = [thread EXCEPT ![c] = [Resting EXCEPT !.at = "copy", !.next = next,
                                                          !.keep = KeepPrev]]
    BY <1>5 DEF Persist
  <2>2. thread'[c].at = "copy" /\ thread'[c].keep = store.trusted
    BY <1>t, <2>1 DEF Resting, KeepPrev
  <2>3. \A d \in Callers \ {c} : thread'[d] = thread[d]
    BY <1>t, <2>1
  <2>. QED
    BY <2>1, <2>2, <2>3 DEF Readable
<1>6. ASSUME NEW c \in Callers, SkipCopy(c) \/ CopyFails(c) \/ WriteAtomic(c) \/ WriteFails(c)
      PROVE  CopiesAreTrusted'
  <2>1. /\ UNCHANGED <<store, prev>> /\ thread[c].at # "none"
        /\ \A d \in Callers \ {c} : thread'[d] = thread[d]
    BY <1>6, <1>t DEF SkipCopy, CopyFails, WriteAtomic, WriteFails, ThreadTo
  <2>2. thread'[c].at # "copying" /\ thread'[c].keep = thread[c].keep
    BY <1>6, <1>t DEF SkipCopy, CopyFails, WriteAtomic, WriteFails, ThreadTo, Threads
  <2>. QED
    BY <1>s, <2>1, <2>2
<1>7. ASSUME NEW c \in Callers, BeginCopy(c) \/ EndCopy(c)
      PROVE  CopiesAreTrusted'
  <2>1. /\ store' = store /\ Alive(c) /\ thread[c].keep
        /\ \A d \in Callers \ {c} : thread'[d] = thread[d]
    BY <1>7, <1>t DEF BeginCopy, EndCopy, ThreadTo
  <2>2. thread'[c].keep
    BY <1>7, <1>t, <2>1 DEF BeginCopy, EndCopy, ThreadTo, Threads
  <2>3. store.up /\ store.trusted
    BY <2>1 DEF ThreadsOfCalls
  <2>. QED
    BY <2>1, <2>2, <2>3
<1>8. ASSUME NEW c \in Callers, EndPersist(c)
      PROVE  CopiesAreTrusted'
  <2>1. /\ prev' = prev /\ thread' = [thread EXCEPT ![c] = Resting] /\ store' = Adopted(c)
    BY <1>8 DEF EndPersist
  <2>2. \/ store' = store
        \/ store'.up = store.up /\ store'.trusted /\ store'.recovered = store.recovered
    BY <1>t, <2>1 DEF Adopted, Stores
  <2>3. thread'[c].at = "none" /\ \A d \in Callers \ {c} : thread'[d] = thread[d]
    BY <1>t, <2>1 DEF Resting
  <2>. QED
    BY <2>1, <2>2, <2>3 DEF Readable
<1>9. ASSUME NEW c \in Callers, ClientGone(c) \/ ThreadEnds(c)
      PROVE  CopiesAreTrusted'
  BY <1>9, <1>t, <1>s DEF ClientGone, ThreadEnds, Resting
<1>10. CASE UNCHANGED fileVars
  BY <1>10, <1>s DEF fileVars
<1>. QED
  BY <1>1, <1>2, <1>3, <1>4, <1>5, <1>6, <1>7, <1>8, <1>9, <1>10, OperationsSave

\* Before the first start there is no file and no schedule.
LEMMA InitSaves == FileInit => FileTypeOK /\ SavesInv
<1>. SUFFICES ASSUME FileInit PROVE FileTypeOK /\ SavesInv
  OBVIOUS
<1>1. FileTypeOK
  <2>1. Resting \in Threads /\ Down \in Stores
    BY ListsOfOperations DEF Resting, Threads, ThreadSteps, Down, Stores
  <2>. QED
    <3>1. /\ main \in Files /\ prev \in Files /\ expected \subseteq Lists /\ store \in Stores
          /\ thread \in [Callers -> Threads]
      BY <2>1, ListsOfOperations DEF FileInit
    <3>2. fileSteps \in [saves : 0..MaxSaves, damage : 0..MaxDamage, loads : 0..MaxLoads]
      BY FileAssumption DEF FileInit
    <3>. QED
      BY <3>1, <3>2 DEF FileInit, FileTypeOK
<1>2. SavesInv
  BY DEF FileInit, SavesInv, ThreadsOfCalls, Alive, Resting, Down, FileIsExpected, Absent, File,
         AcknowledgedIsKept, CopiesAreTrusted, RecoveryRepeats
<1>. QED
  BY <1>1, <1>2

\* The invariant of the file of the schedules.
THEOREM SavesInvariance == FileSpec => [](FileTypeOK /\ SavesInv)
<1>1. FileTypeOK /\ SavesInv /\ [FileNext]_fileVars => (FileTypeOK /\ SavesInv)'
  BY FileTypeStep, ThreadsStep, ExpectedStep, CopiesStep DEF SavesInv
<1>. QED
  BY InitSaves, <1>1, PTL DEF FileSpec

\* A console that reports no problem has lost no confirmed change of a schedule,
\* whatever failed, was damaged or crashed before, unless two threads overlapped.
THEOREM ConfirmedIsKept == FileSpec => []NoSilentLoss
<1>1. SavesInv => NoSilentLoss
  BY DEF SavesInv, FileIsExpected, NoSilentLoss
<1>. QED
  BY SavesInvariance, <1>1, PTL

\* Schedules recovered from the previous generation can be recovered again until
\* they are saved.
THEOREM RecoveryIsStable == FileSpec => []RecoveryRepeats
<1>1. SavesInv => RecoveryRepeats
  BY DEF SavesInv, CopiesAreTrusted
<1>. QED
  BY SavesInvariance, <1>1, PTL

--------------------------------------------------------------------------------
(* The scheduler.                                                          *)

\* What has happened is not after now: the start of the console, its last tick,
\* what was judged, what was slept through and what was fired.
ClockOrder ==
    /\ boot <= now /\ lastTick <= now
    /\ boot = Never => lastTick = Never
    /\ lastTick = Never => schedStep = "sleep" /\ DOMAIN cursor = {}
    /\ schedStep = "sleep" => DOMAIN tick.todo = {}
    /\ schedStep # "sleep" => tick.at = lastTick
    /\ \A s \in DOMAIN cursor : boot <= cursor[s] /\ cursor[s] <= lastTick
    /\ lastTick # Never => boot <= lastTick
    /\ \A t \in lapse : t <= now /\ (lastTick # Never => t <= lastTick)
    /\ \A i \in DOMAIN fires : fires[i].at <= now /\ (lastTick # Never => fires[i].at <= lastTick)
    /\ \A s \in DOMAIN schedSnap : schedSnap[s].since <= now

\* The cursor of a schedule is not before its runs, the one to be started is
\* after all of them.
CursorAhead ==
    /\ \A i \in DOMAIN fires : fires[i].id \in DOMAIN cursor => fires[i].at <= cursor[fires[i].id]
    /\ schedStep \in {"fire", "record"} => tick.run \in Runs
    /\ schedStep = "fire" =>
           /\ tick.run.at > boot /\ tick.run.boot = boot /\ tick.run.at <= lastTick
           /\ tick.run.id \in DOMAIN cursor /\ tick.run.at = cursor[tick.run.id]
           /\ \A i \in DOMAIN fires : fires[i].id = tick.run.id => fires[i].at < tick.run.at

\* A run of minute t is no late one, or was hidden behind ScanMax others.
Hidden(expr, from, t) == Cardinality({u \in expr : from < u /\ u < t}) >= ScanMax

InTime(f, slept) == f.at > f.since /\ f.at \in slept => Hidden(f.expr, f.boot, f.at)

\* What a schedule has still before it of the minutes that were slept through,
\* since it has its expression, was hidden from the tick after the sleep.
Judged(sched, slept, from, upto) ==
    \A t \in slept \cap sched.expr :
        t > sched.since /\ t > upto => Hidden(sched.expr, from, t)

LapseJudged(s, sched) == s \in DOMAIN cursor => Judged(sched, lapse, boot, cursor[s])

LapsesJudged ==
    /\ \A s \in DOMAIN schedSnap :
           schedSnap[s].enabled => s \in DOMAIN tick.todo \/ LapseJudged(s, schedSnap[s])
    /\ \A s \in DOMAIN tick.todo : tick.stall <= LateLimit => LapseJudged(s, tick.todo[s])
    /\ \A s \in DOMAIN tick.todo \cap DOMAIN schedSnap :
           \/ schedSnap[s].since >= tick.at
           \/ /\ schedSnap[s].expr = tick.todo[s].expr
              /\ schedSnap[s].since = tick.todo[s].since
    /\ schedStep = "fire" => InTime(tick.run, lapse)

SchedInv == ClockOrder /\ CursorAhead /\ LapsesJudged /\ FiresOnce /\ NoCatchUp /\ NoLateFire

\* A set of naturals has a smallest element.
LEMMA LeastOfNaturals ==
    ASSUME NEW S \in SUBSET Nat, S # {}
    PROVE  \E m \in S : \A k \in S : m <= k
<1>1. PICK m \in S : \A k \in S : <<k, m>> \notin OpToRel(<, Nat)
  BY NatLessThanWellFounded, WFMin
<1>2. \A k \in S : ~ (k < m)
  BY <1>1 DEF OpToRel
<1>. QED
  BY <1>2

\* A bounded one has a largest.
LEMMA GreatestOfBounded ==
    ASSUME NEW n \in Nat, NEW S \in SUBSET (0..n), S # {}
    PROVE  \E m \in S : \A k \in S : k <= m
<1>. DEFINE T == {n - k : k \in S}
<1>1. T \in SUBSET Nat /\ T # {}
  <2>1. \A k \in S : n - k \in Nat
    OBVIOUS
  <2>2. PICK k \in S : TRUE
    OBVIOUS
  <2>3. n - k \in T
    OBVIOUS
  <2>. QED
    BY <2>1, <2>3
<1>2. PICK m \in T : \A k \in T : m <= k
  BY <1>1, LeastOfNaturals
<1>3. PICK x \in S : m = n - x
  OBVIOUS
<1>4. \A k \in S : n - k \in T
  OBVIOUS
<1>. HIDE DEF T
<1>5. \A k \in S : n - x <= n - k
  BY <1>2, <1>3, <1>4
<1>. QED
  BY <1>5, <1>3

\* Functions from some of the ids, the empty one among them.
LEMMA MapsFacts ==
    ASSUME NEW V
    PROVE  /\ << >> \in Maps(V) /\ DOMAIN << >> = {}
           /\ \A f \in Maps(V) : DOMAIN f \in SUBSET Ids /\ f \in [DOMAIN f -> V]
           /\ \A f \in Maps(V) : \A s \in DOMAIN f : f[s] \in V
           /\ \A D \in SUBSET Ids : \A f \in [D -> V] : f \in Maps(V)
<1>1. << >> \in [{} -> V]
  OBVIOUS
<1>. QED
  BY <1>1 DEF Maps

\* Only leaves a function as it is on some of its schedules.
LEMMA OnlyFacts ==
    ASSUME NEW V, NEW f \in Maps(V), NEW S
    PROVE  /\ Only(f, S) \in Maps(V)
           /\ DOMAIN Only(f, S) = DOMAIN f \cap S
           /\ \A s \in DOMAIN f \cap S : Only(f, S)[s] = f[s]
<1>1. Only(f, S) \in [DOMAIN f \cap S -> V] /\ DOMAIN f \cap S \in SUBSET Ids
  BY MapsFacts DEF Only
<1>2. Only(f, S) \in Maps(V)
  BY <1>1, MapsFacts
<1>. QED
  BY <1>2 DEF Only

\* With gives a schedule a value and leaves the others.
LEMMA WithFacts ==
    ASSUME NEW V, NEW f \in Maps(V), NEW s \in Ids, NEW v \in V
    PROVE  /\ With(f, s, v) \in Maps(V)
           /\ DOMAIN With(f, s, v) = DOMAIN f \cup {s}
           /\ With(f, s, v)[s] = v
           /\ \A r \in DOMAIN f \ {s} : With(f, s, v)[r] = f[r]
<1>1. With(f, s, v) \in [DOMAIN f \cup {s} -> V] /\ DOMAIN f \cup {s} \in SUBSET Ids
  BY MapsFacts DEF With
<1>2. With(f, s, v) \in Maps(V)
  BY <1>1, MapsFacts
<1>. QED
  BY <1>2 DEF With

\* The due minutes that a tick looks at lie between the cursor and the tick, and
\* none are left out unless ScanMax of them were looked at.
LEMMA PassedFacts ==
    ASSUME SchedTypeOK, NEW s \in DOMAIN tick.todo
    PROVE  /\ CursorOf(s) \in Times
           /\ \A t \in Passed(s) : t \in tick.todo[s].expr /\ CursorOf(s) < t /\ t <= tick.at
           /\ Passed(s) # {} => Latest(Passed(s)) \in Passed(s)
           /\ Passed(s) # {} => \A t \in Passed(s) : t <= Latest(Passed(s))
           /\ \A t \in tick.todo[s].expr :
                 /\ CursorOf(s) < t /\ t <= tick.at
                 /\ Passed(s) # {} => Latest(Passed(s)) < t
                 => Cardinality({u \in tick.todo[s].expr : CursorOf(s) < u /\ u < t}) >= ScanMax
<1>. DEFINE due == {t \in tick.todo[s].expr : CursorOf(s) < t /\ t <= tick.at}
            before(t) == {u \in due : u < t}
<1>1. CursorOf(s) \in Times /\ tick.at \in Times /\ tick.todo[s].expr \in SUBSET Nat
  <2>1. tick.todo \in Maps(Schedules) /\ tick.at \in Times /\ cursor \in Maps(Times)
    BY DEF SchedTypeOK
  <2>2. tick.todo[s] \in Schedules
    BY <2>1, MapsFacts
  <2>3. tick.todo[s].expr \in Exprs
    BY <2>2 DEF Schedules
  <2>4. \A r \in DOMAIN cursor : cursor[r] \in Times
    BY <2>1, MapsFacts
  <2>. QED
    BY <2>1, <2>3, <2>4, ScheduleAssumption DEF CursorOf
<1>2. tick.at \in Nat /\ due \in SUBSET (0..tick.at) /\ ScanMax \in Nat \ {0}
  BY <1>1, ScheduleAssumption DEF Times
<1>3. Passed(s) = {t \in due : Cardinality(before(t)) < ScanMax}
  BY DEF Passed
<1>4. Passed(s) # {} => Latest(Passed(s)) \in Passed(s) /\ \A t \in Passed(s) : t <= Latest(Passed(s))
  <2>. SUFFICES ASSUME Passed(s) # {}
                PROVE  Latest(Passed(s)) \in Passed(s) /\ \A t \in Passed(s) : t <= Latest(Passed(s))
    OBVIOUS
  <2>1. Passed(s) \in SUBSET (0..tick.at)
    BY <1>2, <1>3
  <2>2. \E m \in Passed(s) : \A k \in Passed(s) : k <= m
    BY <1>2, <2>1, GreatestOfBounded
  <2>. QED
    BY <2>2 DEF Latest
<1>5. ASSUME NEW t \in due, Passed(s) # {} => Latest(Passed(s)) < t
      PROVE  Cardinality({u \in tick.todo[s].expr : CursorOf(s) < u /\ u < t}) >= ScanMax
  <2>1. t \notin Passed(s)
    <3>. SUFFICES ASSUME t \in Passed(s) PROVE FALSE
      OBVIOUS
    <3>1. Latest(Passed(s)) \in due /\ t <= Latest(Passed(s)) /\ Latest(Passed(s)) < t
      BY <1>3, <1>4, <1>5
    <3>. QED
      BY <1>2, <3>1
  <2>2. before(t) \in SUBSET (0..tick.at) /\ IsFiniteSet(0..tick.at)
    <3>1. 0 \in Int /\ tick.at \in Int
      BY <1>2
    <3>2. IsFiniteSet(0..tick.at)
      BY <3>1, FS_Interval
    <3>. QED
      BY <1>2, <3>2
  <2>3. Cardinality(before(t)) \in Nat
    BY <2>2, FS_Subset, FS_CardinalityType
  <2>4. ~ (Cardinality(before(t)) < ScanMax)
    BY <1>3, <2>1
  <2>5. before(t) = {u \in tick.todo[s].expr : CursorOf(s) < u /\ u < t}
    BY <1>1, <1>2 DEF Times
  <2>. QED
    BY <1>2, <2>3, <2>4, <2>5
<1>. QED
  BY <1>1, <1>3, <1>4, <1>5

\* The steps that change the registered schedules.
Registered ==
    \/ \E s \in Ids, expr \in Exprs, enabled \in BOOLEAN :
         Create(s, expr, enabled) \/ Update(s, expr, enabled)
    \/ \E s \in Ids : Delete(s)
    \/ RecordRun

\* The operator and record_run change what is registered: a schedule keeps its
\* expression, its switch and since, or since is now.
LEMMA RegisteredStep ==
    ASSUME SchedTypeOK, CursorAhead, Registered
    PROVE  /\ schedSnap' \in Maps(Schedules) /\ used' \subseteq Ids /\ edits' \in 0..MaxEdits
           /\ \A r \in DOMAIN schedSnap' :
                 \/ schedSnap'[r].since = now
                 \/ /\ r \in DOMAIN schedSnap
                    /\ schedSnap'[r].expr = schedSnap[r].expr
                    /\ schedSnap'[r].enabled = schedSnap[r].enabled
                    /\ schedSnap'[r].since = schedSnap[r].since
           /\ UNCHANGED <<now, boot, cursor, lastTick, tick, fires, lapse>>
           /\ \/ schedStep' = schedStep
              \/ schedStep = "record" /\ schedStep' = "judge"
<1>t. /\ schedSnap \in Maps(Schedules) /\ used \subseteq Ids /\ edits \in 0..MaxEdits
      /\ now \in Times /\ MaxEdits \in Nat
  BY ScheduleAssumption DEF SchedTypeOK
<1>f. /\ DOMAIN schedSnap \in SUBSET Ids
      /\ \A r \in DOMAIN schedSnap : schedSnap[r] \in Schedules
  BY <1>t, MapsFacts
<1>m. ASSUME NEW D \in SUBSET Ids, NEW f \in [D -> Schedules] PROVE f \in Maps(Schedules)
  BY <1>m DEF Maps
<1>d. schedSnap \in [DOMAIN schedSnap -> Schedules]
  BY <1>t DEF Maps
<1>e. edits < MaxEdits /\ edits' = edits + 1 => edits' \in 0..MaxEdits
  BY <1>t
<1>1. ASSUME NEW s \in Ids, NEW expr \in Exprs, NEW enabled \in BOOLEAN, Create(s, expr, enabled)
      PROVE  /\ schedSnap' \in Maps(Schedules) /\ used' \subseteq Ids /\ edits' \in 0..MaxEdits
             /\ \A r \in DOMAIN schedSnap' :
                   \/ schedSnap'[r].since = now
                   \/ r \in DOMAIN schedSnap /\ schedSnap'[r] = schedSnap[r]
             /\ UNCHANGED <<now, boot, cursor, lastTick, tick, fires, lapse, schedStep>>
  <2>. DEFINE new == [expr |-> expr, enabled |-> enabled, baseline |-> now, since |-> now]
  <2>1. new \in Schedules /\ new.since = now
    BY <1>t DEF Schedules
  <2>2. schedSnap' = With(schedSnap, s, new) /\ used' = used \cup {s} /\ edits' \in 0..MaxEdits
    BY <1>1, <1>e DEF Create, Edit
  <2>. HIDE DEF new
  <2>3. /\ schedSnap' \in Maps(Schedules)
        /\ DOMAIN schedSnap' = DOMAIN schedSnap \cup {s}
        /\ schedSnap'[s] = new
        /\ \A r \in DOMAIN schedSnap \ {s} : schedSnap'[r] = schedSnap[r]
    BY <1>t, <2>1, <2>2, WithFacts
  <2>. QED
    BY <1>1, <1>t, <2>1, <2>2, <2>3 DEF Create, Edit
<1>2. ASSUME NEW s \in Ids, NEW expr \in Exprs, NEW enabled \in BOOLEAN, Update(s, expr, enabled)
      PROVE  /\ schedSnap' \in Maps(Schedules) /\ used' \subseteq Ids /\ edits' \in 0..MaxEdits
             /\ \A r \in DOMAIN schedSnap' :
                   \/ schedSnap'[r].since = now
                   \/ r \in DOMAIN schedSnap /\ schedSnap'[r] = schedSnap[r]
             /\ UNCHANGED <<now, boot, cursor, lastTick, tick, fires, lapse, schedStep>>
  <2>1. /\ s \in DOMAIN schedSnap
        /\ schedSnap' = [schedSnap EXCEPT ![s].expr = expr, ![s].enabled = enabled, ![s].since = now]
        /\ used' = used /\ edits' \in 0..MaxEdits
    BY <1>2, <1>e DEF Update, Edit
  <2>2. [schedSnap[s] EXCEPT !.expr = expr, !.enabled = enabled, !.since = now] \in Schedules
    BY <1>f, <1>t, <2>1 DEF Schedules
  <2>3. schedSnap' = [schedSnap EXCEPT ![s] =
                        [schedSnap[s] EXCEPT !.expr = expr, !.enabled = enabled, !.since = now]]
    BY <1>d, <2>1
  <2>4. schedSnap' \in [DOMAIN schedSnap -> Schedules]
    BY <1>d, <2>2, <2>3
  <2>5. schedSnap'[s].since = now
    BY <1>f, <1>d, <2>1, <2>3 DEF Schedules
  <2>6. \A r \in DOMAIN schedSnap' : r \in DOMAIN schedSnap /\ (r # s => schedSnap'[r] = schedSnap[r])
    BY <1>d, <2>3
  <2>. QED
    BY <1>2, <1>t, <1>f, <1>m, <2>1, <2>4, <2>5, <2>6 DEF Update, Edit
<1>3. ASSUME NEW s \in Ids, Delete(s)
      PROVE  /\ schedSnap' \in Maps(Schedules) /\ used' \subseteq Ids /\ edits' \in 0..MaxEdits
             /\ \A r \in DOMAIN schedSnap' :
                   r \in DOMAIN schedSnap /\ schedSnap'[r] = schedSnap[r]
             /\ UNCHANGED <<now, boot, cursor, lastTick, tick, fires, lapse, schedStep>>
  <2>1. schedSnap' = Only(schedSnap, Ids \ {s}) /\ used' = used /\ edits' \in 0..MaxEdits
    BY <1>3, <1>e DEF Delete, Edit
  <2>2. /\ schedSnap' \in Maps(Schedules)
        /\ \A r \in DOMAIN schedSnap' : r \in DOMAIN schedSnap /\ schedSnap'[r] = schedSnap[r]
    <3>. DEFINE S == Ids \ {s}
    <3>. HIDE DEF S
    <3>1. /\ Only(schedSnap, S) \in Maps(Schedules)
          /\ DOMAIN Only(schedSnap, S) = DOMAIN schedSnap \cap S
          /\ \A r \in DOMAIN schedSnap \cap S : Only(schedSnap, S)[r] = schedSnap[r]
      BY <1>t, OnlyFacts
    <3>2. schedSnap' = Only(schedSnap, S)
      BY <2>1 DEF S
    <3>. QED
      BY <3>1, <3>2
  <2>. QED
    BY <1>3, <1>t, <2>1, <2>2 DEF Delete, Edit
<1>4. ASSUME RecordRun
      PROVE  /\ schedSnap' \in Maps(Schedules) /\ used' \subseteq Ids /\ edits' \in 0..MaxEdits
             /\ \A r \in DOMAIN schedSnap' :
                    /\ r \in DOMAIN schedSnap
                    /\ schedSnap'[r].expr = schedSnap[r].expr
                    /\ schedSnap'[r].enabled = schedSnap[r].enabled
                    /\ schedSnap'[r].since = schedSnap[r].since
             /\ UNCHANGED <<now, boot, cursor, lastTick, tick, fires, lapse>>
             /\ schedStep = "record" /\ schedStep' = "judge"
  <2>0. tick.run \in Runs
    BY <1>4 DEF RecordRun, CursorAhead
  <2>1. tick.run.at \in Times
    BY <2>0 DEF Runs
  <2>2. CASE schedSnap' = schedSnap
    BY <1>4, <1>t, <2>2 DEF RecordRun
  <2>3. CASE /\ tick.run.id \in DOMAIN schedSnap
             /\ schedSnap' = [schedSnap EXCEPT ![tick.run.id].baseline = tick.run.at]
    <3>. DEFINE s == tick.run.id
    <3>1. [schedSnap[s] EXCEPT !.baseline = tick.run.at] \in Schedules
      BY <1>f, <2>1, <2>3 DEF Schedules
    <3>2. schedSnap' = [schedSnap EXCEPT ![s] = [schedSnap[s] EXCEPT !.baseline = tick.run.at]]
      BY <1>d, <2>3
    <3>3. schedSnap' \in [DOMAIN schedSnap -> Schedules]
      BY <1>d, <3>1, <3>2
    <3>4. /\ schedSnap'[s].expr = schedSnap[s].expr
          /\ schedSnap'[s].enabled = schedSnap[s].enabled
          /\ schedSnap'[s].since = schedSnap[s].since
      BY <1>f, <1>d, <2>3, <3>2 DEF Schedules
    <3>5. \A r \in DOMAIN schedSnap' : r \in DOMAIN schedSnap /\ (r # s => schedSnap'[r] = schedSnap[r])
      BY <1>d, <3>2
    <3>. QED
      BY <1>4, <1>t, <1>f, <1>m, <3>3, <3>4, <3>5 DEF RecordRun
  <2>. QED
    BY <1>4, <2>2, <2>3 DEF RecordRun
<1>. QED
  BY <1>1, <1>2, <1>3, <1>4 DEF Registered

\* What the loop makes of the first schedule of the tick: a run only for one
\* that has a cursor, of a minute between that and the tick.
LEMMA JudgeFacts ==
    ASSUME SchedTypeOK, ClockOrder, schedStep = "judge", NEW s \in DOMAIN tick.todo
    PROVE  /\ s \in Ids /\ tick.todo[s] \in Schedules
           /\ tick.at = lastTick /\ lastTick \in Times /\ boot \in Times
           /\ Advanced(s) \in Maps(Times)
           /\ DOMAIN Advanced(s) = DOMAIN cursor \cup {s}
           /\ \A r \in DOMAIN cursor \ {s} : Advanced(s)[r] = cursor[r]
           /\ boot <= Advanced(s)[s] /\ Advanced(s)[s] <= lastTick
           /\ s \in DOMAIN cursor => cursor[s] \in Times /\ cursor[s] <= Advanced(s)[s]
           /\ Passed(s) = {} => Advanced(s)[s] = CursorOf(s)
           /\ Passed(s) # {} =>
                 /\ s \in DOMAIN cursor
                 /\ cursor[s] < Advanced(s)[s]
                 /\ Advanced(s)[s] = Latest(Passed(s))
                 /\ Advanced(s)[s] \in tick.todo[s].expr
                 /\ Run(s) \in Runs
                 /\ Run(s).id = s /\ Run(s).at = Advanced(s)[s] /\ Run(s).boot = boot
                 /\ Run(s).expr = tick.todo[s].expr /\ Run(s).since = tick.todo[s].since
<1>t. /\ tick.todo \in Maps(Schedules) /\ tick.at \in Times /\ cursor \in Maps(Times)
      /\ lastTick \in Times \cup {Never} /\ boot \in Times \cup {Never}
      /\ Times = 0..MaxTime /\ MaxTime \in Nat
  BY ScheduleAssumption DEF SchedTypeOK, Times
<1>1. s \in Ids /\ tick.todo[s] \in Schedules
  BY <1>t, MapsFacts
<1>2. tick.at = lastTick /\ lastTick \in Times /\ boot \in Times /\ boot <= lastTick
  BY <1>t DEF ClockOrder
<1>3. \A r \in DOMAIN cursor : cursor[r] \in Times /\ boot <= cursor[r] /\ cursor[r] <= lastTick
  BY <1>t, MapsFacts DEF ClockOrder
<1>4. /\ CursorOf(s) \in Times /\ boot <= CursorOf(s) /\ CursorOf(s) <= lastTick
      /\ s \in DOMAIN cursor => CursorOf(s) = cursor[s]
      /\ s \notin DOMAIN cursor => CursorOf(s) = tick.at
  BY <1>t, <1>2, <1>3 DEF CursorOf
<1>5. ASSUME Passed(s) # {}
      PROVE  /\ Latest(Passed(s)) \in tick.todo[s].expr
             /\ CursorOf(s) < Latest(Passed(s)) /\ Latest(Passed(s)) <= tick.at
  BY <1>5, PassedFacts
<1>6. ASSUME Passed(s) # {} PROVE Latest(Passed(s)) \in Times
  <2>1. tick.todo[s].expr \in SUBSET Nat
    BY <1>1, ScheduleAssumption DEF Schedules
  <2>2. Latest(Passed(s)) \in Nat
    BY <1>5, <1>6, <2>1
  <2>. QED
    BY <1>t, <1>5, <1>6, <2>2
<1>7. ASSUME Passed(s) # {} PROVE s \in DOMAIN cursor
  BY <1>t, <1>4, <1>5, <1>6, <1>7
<1>. DEFINE v == IF Passed(s) = {} THEN CursorOf(s) ELSE Latest(Passed(s))
<1>8. v \in Times /\ boot <= v /\ v <= lastTick /\ CursorOf(s) <= v
  BY <1>t, <1>2, <1>4, <1>5, <1>6
<1>9. Advanced(s) = With(cursor, s, v)
  BY DEF Advanced
<1>10. /\ Advanced(s) \in Maps(Times)
       /\ DOMAIN Advanced(s) = DOMAIN cursor \cup {s}
       /\ Advanced(s)[s] = v
       /\ \A r \in DOMAIN cursor \ {s} : Advanced(s)[r] = cursor[r]
  <2>. HIDE DEF v
  <2>. QED
    <3>1. v \in Times /\ cursor \in Maps(Times) /\ s \in Ids
      BY <1>t, <1>1, <1>8
    <3>2. /\ With(cursor, s, v) \in Maps(Times)
          /\ DOMAIN With(cursor, s, v) = DOMAIN cursor \cup {s}
          /\ With(cursor, s, v)[s] = v
          /\ \A r \in DOMAIN cursor \ {s} : With(cursor, s, v)[r] = cursor[r]
      BY <3>1, WithFacts
    <3>. QED
      BY <1>9, <3>2
<1>11. ASSUME Passed(s) # {}
       PROVE  /\ Run(s) \in Runs
              /\ Run(s).id = s /\ Run(s).at = Latest(Passed(s)) /\ Run(s).boot = boot
              /\ Run(s).expr = tick.todo[s].expr /\ Run(s).since = tick.todo[s].since
  <2>1. tick.todo[s].expr \in Exprs /\ tick.todo[s].since \in Times
    BY <1>1 DEF Schedules
  <2>2. Latest(Passed(s)) \in Times
    BY <1>6, <1>11
  <2>. QED
    BY <1>1, <1>2, <2>1, <2>2 DEF Run, Runs
<1>. QED
  BY <1>1, <1>2, <1>3, <1>4, <1>5, <1>7, <1>8, <1>10, <1>11

\* What a tick is between two steps.
Ticks == [at : Times, stall : Times, todo : Maps(Schedules), run : Runs \cup {NoRun}]

\* Before a tick there is nothing to do.
LEMMA NoTickFacts == NoTick \in Ticks /\ NoTick.todo = << >> /\ DOMAIN NoTick.todo = {}
<1>1. << >> \in Maps(Schedules) /\ DOMAIN << >> = {}
  BY MapsFacts
<1>2. 0 \in Times
  BY ScheduleAssumption DEF Times
<1>. QED
  BY <1>1, <1>2 DEF NoTick, Ticks

\* A tick starts with the enabled schedules; it may extend the lapses.
LEMMA BeginTickFacts ==
    ASSUME SchedTypeOK, ClockOrder, BeginTick
    PROVE  /\ boot \in Times /\ schedStep = "sleep"
           /\ tick' \in Ticks /\ tick'.at = now
           /\ DOMAIN tick'.todo = Enabled
           /\ \A s \in Enabled : tick'.todo[s] = schedSnap[s]
           /\ \/ lapse' = lapse
              \/ /\ lastTick \in Times /\ lapse' = lapse \cup (lastTick + 1 .. now)
                 /\ tick'.stall > LateLimit
           /\ cursor' \in Maps(Times)
           /\ DOMAIN cursor' = DOMAIN cursor \cap DOMAIN schedSnap
           /\ \A s \in DOMAIN cursor' : cursor'[s] = cursor[s]
           /\ lastTick' = now /\ schedStep' = "judge"
           /\ UNCHANGED <<now, boot, schedSnap, fires, used, edits>>
<1>. DEFINE stall == IF lastTick = Never THEN 0 ELSE now - lastTick
<1>t. /\ now \in Times /\ lastTick \in Times \cup {Never} /\ cursor \in Maps(Times)
      /\ schedSnap \in Maps(Schedules) /\ boot \in Times \cup {Never}
      /\ Times = 0..MaxTime /\ MaxTime \in Nat /\ LateLimit \in Nat /\ Never = -1
  BY ScheduleAssumption DEF SchedTypeOK, Times, Never
<1>1. stall \in Times
  BY <1>t DEF ClockOrder
<1>2. /\ Only(schedSnap, Enabled) \in Maps(Schedules)
      /\ DOMAIN Only(schedSnap, Enabled) = DOMAIN schedSnap \cap Enabled
      /\ \A s \in DOMAIN schedSnap \cap Enabled : Only(schedSnap, Enabled)[s] = schedSnap[s]
  BY <1>t, OnlyFacts
<1>3. DOMAIN schedSnap \cap Enabled = Enabled
  BY DEF Enabled
<1>4. /\ Only(cursor, DOMAIN schedSnap) \in Maps(Times)
      /\ DOMAIN Only(cursor, DOMAIN schedSnap) = DOMAIN cursor \cap DOMAIN schedSnap
      /\ \A s \in DOMAIN cursor \cap DOMAIN schedSnap : Only(cursor, DOMAIN schedSnap)[s] = cursor[s]
  BY <1>t, OnlyFacts
<1>5. /\ tick' = [NoTick EXCEPT !.at = now, !.stall = stall, !.todo = Only(schedSnap, Enabled)]
      /\ lapse' = IF stall > LateLimit THEN lapse \cup (lastTick + 1 .. now) ELSE lapse
      /\ cursor' = Only(cursor, DOMAIN schedSnap)
      /\ boot # Never /\ schedStep = "sleep"
      /\ lastTick' = now /\ schedStep' = "judge"
      /\ UNCHANGED <<now, boot, schedSnap, fires, used, edits>>
  BY DEF BeginTick
<1>6. /\ tick' \in Ticks /\ tick'.at = now /\ tick'.stall = stall
      /\ tick'.todo = Only(schedSnap, Enabled)
  <2>. HIDE DEF stall
  <2>. QED
    BY <1>1, <1>2, <1>5, <1>t, NoTickFacts DEF Ticks
<1>7. stall > LateLimit => lastTick \in Times
  BY <1>t
<1>. QED
  BY <1>2, <1>3, <1>4, <1>5, <1>6, <1>7, <1>t

\* Judging takes one schedule from the tick and either goes on or has a run.
LEMMA JudgeStepFacts ==
    ASSUME SchedTypeOK, ClockOrder, Judge
    PROVE  \E s \in DOMAIN tick.todo :
              /\ schedStep = "judge" /\ cursor' = Advanced(s)
              /\ tick' \in Ticks /\ tick'.at = tick.at /\ tick'.stall = tick.stall
              /\ DOMAIN tick'.todo = DOMAIN tick.todo \ {s}
              /\ \A r \in DOMAIN tick'.todo : tick'.todo[r] = tick.todo[r]
              /\ \/ schedStep' = "judge"
                 \/ /\ schedStep' = "fire" /\ Passed(s) # {} /\ ~ TooLate(s)
                    /\ tick'.run = Run(s)
              /\ UNCHANGED <<now, boot, schedSnap, lastTick, fires, lapse, used, edits>>
<1>t. tick \in Ticks /\ tick.todo \in Maps(Schedules)
  BY DEF SchedTypeOK, Ticks
<1>1. PICK s \in DOMAIN tick.todo :
         /\ cursor' = Advanced(s)
         /\ \/ /\ tick' = [tick EXCEPT !.todo = Only(tick.todo, Ids \ {s})]
               /\ schedStep' = "judge"
            \/ /\ ~ (Passed(s) = {} \/ TooLate(s))
               /\ tick' = [tick EXCEPT !.todo = Only(tick.todo, Ids \ {s}), !.run = Run(s)]
               /\ schedStep' = "fire"
  BY DEF Judge
<1>2. /\ schedStep = "judge"
      /\ UNCHANGED <<now, boot, schedSnap, lastTick, fires, lapse, used, edits>>
  BY DEF Judge
<1>. DEFINE S == Ids \ {s}
<1>3. /\ Only(tick.todo, S) \in Maps(Schedules)
      /\ DOMAIN Only(tick.todo, S) = DOMAIN tick.todo \ {s}
      /\ \A r \in DOMAIN tick.todo \ {s} : Only(tick.todo, S)[r] = tick.todo[r]
  <2>1. DOMAIN tick.todo \in SUBSET Ids
    BY <1>t, MapsFacts
  <2>2. DOMAIN tick.todo \cap S = DOMAIN tick.todo \ {s}
    BY <2>1
  <2>. HIDE DEF S
  <2>3. /\ Only(tick.todo, S) \in Maps(Schedules)
        /\ DOMAIN Only(tick.todo, S) = DOMAIN tick.todo \cap S
        /\ \A r \in DOMAIN tick.todo \cap S : Only(tick.todo, S)[r] = tick.todo[r]
    BY <1>t, OnlyFacts
  <2>. QED
    BY <2>2, <2>3
<1>4. Passed(s) # {} => Run(s) \in Runs
  BY <1>2, JudgeFacts
<1>5. tick' \in Ticks /\ tick'.at = tick.at /\ tick'.stall = tick.stall
      /\ tick'.todo = Only(tick.todo, S) /\ (schedStep' = "fire" => tick'.run = Run(s))
  <2>1. CASE tick' = [tick EXCEPT !.todo = Only(tick.todo, S)] /\ schedStep' = "judge"
    <3>. HIDE DEF S
    <3>. QED
      BY <1>t, <1>3, <2>1 DEF Ticks
  <2>2. CASE /\ tick' = [tick EXCEPT !.todo = Only(tick.todo, S), !.run = Run(s)]
             /\ Run(s) \in Runs
    <3>. HIDE DEF S
    <3>. QED
      BY <1>t, <1>3, <2>2 DEF Ticks
  <2>. QED
    BY <1>1, <1>4, <2>1, <2>2
<1>. QED
  BY <1>1, <1>2, <1>3, <1>5

\* A run is put at the end of the history.
LEMMA FireFacts ==
    ASSUME SchedTypeOK, Fire, tick.run \in Runs
    PROVE  /\ fires' \in Seq(Runs)
           /\ \A i \in DOMAIN fires' :
                 \/ i \in DOMAIN fires /\ fires'[i] = fires[i]
                 \/ i = Len(fires) + 1 /\ fires'[i] = tick.run
           /\ schedStep = "fire" /\ schedStep' = "record"
           /\ UNCHANGED <<now, boot, schedSnap, cursor, lastTick, tick, lapse, used, edits>>
<1>1. fires \in Seq(Runs) /\ fires' = Append(fires, tick.run)
  BY DEF SchedTypeOK, Fire
<1>2. fires' \in Seq(Runs) /\ DOMAIN fires' = 1..(Len(fires) + 1) /\ DOMAIN fires = 1..Len(fires)
  BY <1>1
<1>3. \A i \in DOMAIN fires' :
         \/ i \in DOMAIN fires /\ fires'[i] = fires[i]
         \/ i = Len(fires) + 1 /\ fires'[i] = tick.run
  BY <1>1, <1>2
<1>. QED
  BY <1>2, <1>3 DEF Fire

\* What the variables are made of.
LEMMA ItemTypes ==
    ASSUME SchedTypeOK
    PROVE  /\ \A s \in DOMAIN cursor : s \in Ids /\ cursor[s] \in Times
           /\ \A s \in DOMAIN schedSnap : s \in Ids /\ schedSnap[s] \in Schedules
           /\ \A s \in DOMAIN tick.todo : s \in Ids /\ tick.todo[s] \in Schedules
           /\ \A i \in DOMAIN fires : fires[i] \in Runs
<1>1. cursor \in Maps(Times) /\ schedSnap \in Maps(Schedules) /\ tick.todo \in Maps(Schedules)
  BY DEF SchedTypeOK
<1>2. fires \in Seq(Runs)
  BY DEF SchedTypeOK
<1>3. \A i \in DOMAIN fires : fires[i] \in Runs
  BY <1>2
<1>. QED
  BY <1>1, <1>3, MapsFacts

\* Every step keeps the types.
LEMMA SchedTypeStep ==
    ASSUME SchedTypeOK, ClockOrder, CursorAhead, [SchedNext]_schedVars
    PROVE  SchedTypeOK'
<1>t. /\ now \in Times /\ boot \in Times \cup {Never} /\ schedSnap \in Maps(Schedules)
      /\ cursor \in Maps(Times) /\ lastTick \in Times \cup {Never}
      /\ schedStep \in {"sleep", "judge", "fire", "record"}
      /\ tick \in Ticks /\ fires \in Seq(Runs) /\ lapse \subseteq Times
      /\ used \subseteq Ids /\ edits \in 0..MaxEdits
  BY DEF SchedTypeOK, Ticks
<1>r. schedStep \in {"fire", "record"} => tick.run \in Runs
  BY DEF CursorAhead
<1>q. ASSUME /\ now' \in Times /\ boot' \in Times \cup {Never} /\ schedSnap' \in Maps(Schedules)
             /\ cursor' \in Maps(Times) /\ lastTick' \in Times \cup {Never}
             /\ schedStep' \in {"sleep", "judge", "fire", "record"}
             /\ tick' \in Ticks /\ fires' \in Seq(Runs) /\ lapse' \subseteq Times
             /\ used' \subseteq Ids /\ edits' \in 0..MaxEdits
      PROVE  SchedTypeOK'
  BY <1>q DEF SchedTypeOK, Ticks, Times, Maps, Schedules, Runs
<1>1. CASE Registered
  <2>1. /\ schedSnap' \in Maps(Schedules) /\ used' \subseteq Ids /\ edits' \in 0..MaxEdits
        /\ UNCHANGED <<now, boot, cursor, lastTick, tick, fires, lapse>>
        /\ schedStep' \in {schedStep, "judge"}
    BY <1>1, RegisteredStep
  <2>. QED
    BY <1>t, <1>q, <2>1
<1>2. CASE TimePasses
  <2>1. now' \in Times
    BY <1>t, <1>2, ScheduleAssumption DEF TimePasses, Times
  <2>. QED
    BY <1>t, <1>q, <1>2, <2>1 DEF TimePasses
<1>3. CASE Stop
  <2>1. cursor' \in Maps(Times) /\ tick' \in Ticks
    BY <1>3, MapsFacts, NoTickFacts DEF Stop
  <2>. QED
    BY <1>t, <1>q, <1>3, <2>1 DEF Stop
<1>4. CASE Start
  BY <1>t, <1>q, <1>4 DEF Start
<1>5. CASE BeginTick
  <2>1. lapse' \subseteq Times
    <3>1. lastTick \in Times => lastTick + 1 .. now \subseteq Times
      BY <1>t, ScheduleAssumption DEF Times
    <3>. QED
      BY <1>t, <1>5, <3>1, BeginTickFacts
  <2>. QED
    BY <1>t, <1>q, <1>5, <2>1, BeginTickFacts
<1>6. CASE Judge
  <2>1. PICK s \in DOMAIN tick.todo :
           /\ schedStep = "judge" /\ cursor' = Advanced(s) /\ tick' \in Ticks
           /\ schedStep' \in {"judge", "fire"}
           /\ UNCHANGED <<now, boot, schedSnap, lastTick, fires, lapse, used, edits>>
    BY <1>6, JudgeStepFacts
  <2>2. cursor' \in Maps(Times)
    BY <2>1, JudgeFacts
  <2>. QED
    BY <1>t, <1>q, <2>1, <2>2
<1>7. CASE Skip
  BY <1>t, <1>q, <1>7 DEF Skip
<1>8. CASE Fire
  <2>1. tick.run \in Runs
    BY <1>8, <1>r DEF Fire
  <2>. QED
    BY <1>t, <1>q, <1>8, <2>1, FireFacts
<1>9. CASE Sleep
  BY <1>t, <1>q, <1>9, NoTickFacts DEF Sleep
<1>10. CASE UNCHANGED schedVars
  BY <1>t, <1>q, <1>10 DEF schedVars
<1>. QED
  BY <1>1, <1>2, <1>3, <1>4, <1>5, <1>6, <1>7, <1>8, <1>9, <1>10 DEF SchedNext, Registered

\* What was judged and fired stays behind the clock.
LEMMA ClockStep ==
    ASSUME SchedTypeOK, ClockOrder, CursorAhead, [SchedNext]_schedVars
    PROVE  ClockOrder'
<1>t. /\ now \in Times /\ boot \in Times \cup {Never} /\ lastTick \in Times \cup {Never}
      /\ lapse \subseteq Times /\ Times = 0..MaxTime /\ MaxTime \in Nat /\ Never = -1
  BY ScheduleAssumption DEF SchedTypeOK, Times, Never
<1>c. \A s \in DOMAIN cursor : cursor[s] \in Times
  BY ItemTypes
<1>f. \A i \in DOMAIN fires : fires[i].at \in Times
  BY ItemTypes DEF Runs
<1>s. \A s \in DOMAIN schedSnap : schedSnap[s].since \in Times
  BY ItemTypes DEF Schedules
<1>r. schedStep \in {"fire", "record"} => tick.run \in Runs
  BY DEF CursorAhead
<1>1. CASE Registered
  <2>1. /\ \A r \in DOMAIN schedSnap' :
              \/ schedSnap'[r].since = now
              \/ /\ r \in DOMAIN schedSnap
                 /\ schedSnap'[r].expr = schedSnap[r].expr
                 /\ schedSnap'[r].enabled = schedSnap[r].enabled
                 /\ schedSnap'[r].since = schedSnap[r].since
        /\ UNCHANGED <<now, boot, cursor, lastTick, tick, fires, lapse>>
        /\ \/ schedStep' = schedStep
           \/ schedStep = "record" /\ schedStep' = "judge"
    BY <1>1, RegisteredStep
  <2>. QED
    BY <1>t, <2>1 DEF ClockOrder
<1>2. CASE TimePasses
  <2>1. now' = now + 1
        /\ UNCHANGED <<boot, schedSnap, cursor, lastTick, schedStep, tick, fires, lapse>>
    BY <1>2 DEF TimePasses
  <2>2. boot <= now' /\ lastTick <= now' /\ \A t \in Times : t <= now => t <= now'
    BY <1>t, <2>1 DEF ClockOrder
  <2>. QED
    BY <1>t, <1>f, <1>s, <2>1, <2>2 DEF ClockOrder
<1>3. CASE Stop
  <2>1. DOMAIN tick'.todo = {} /\ DOMAIN cursor' = {}
    BY <1>3, MapsFacts, NoTickFacts DEF Stop
  <2>. QED
    BY <1>t, <1>3, <2>1 DEF Stop, ClockOrder
<1>4. CASE Start
  BY <1>t, <1>4 DEF Start, ClockOrder
<1>5. CASE BeginTick
  <2>1. /\ schedStep' = "judge" /\ lastTick' = now /\ now' = now /\ boot' = boot /\ boot \in Times
        /\ tick'.at = now /\ fires' = fires /\ schedSnap' = schedSnap
        /\ lapse' \subseteq lapse \cup (lastTick + 1 .. now)
        /\ lapse' = lapse \/ lastTick \in Times
        /\ \A s \in DOMAIN cursor' : s \in DOMAIN cursor /\ cursor'[s] = cursor[s]
    BY <1>5, BeginTickFacts
  <2>2. \A s \in DOMAIN cursor : boot <= cursor[s] /\ cursor[s] <= now
    BY <1>t, <1>c DEF ClockOrder
  <2>3. \A t \in lapse' : t <= now
    BY <1>t, <2>1 DEF ClockOrder
  <2>. QED
    BY <1>t, <2>1, <2>2, <2>3 DEF ClockOrder
<1>6. CASE Judge
  <2>1. PICK s \in DOMAIN tick.todo :
           /\ schedStep = "judge" /\ cursor' = Advanced(s) /\ tick'.at = tick.at
           /\ schedStep' \in {"judge", "fire"}
           /\ UNCHANGED <<now, boot, schedSnap, lastTick, fires, lapse>>
    BY <1>6, JudgeStepFacts
  <2>2. /\ DOMAIN cursor' = DOMAIN cursor \cup {s}
        /\ \A r \in DOMAIN cursor \ {s} : cursor'[r] = cursor[r]
        /\ boot <= cursor'[s] /\ cursor'[s] <= lastTick /\ lastTick \in Times
    BY <2>1, JudgeFacts
  <2>3. \A r \in DOMAIN cursor' : boot <= cursor'[r] /\ cursor'[r] <= lastTick
    BY <2>2 DEF ClockOrder
  <2>. QED
    BY <1>t, <2>1, <2>2, <2>3 DEF ClockOrder
<1>7. CASE Skip
  BY <1>t, <1>7 DEF Skip, ClockOrder
<1>8. CASE Fire
  <2>1. tick.run \in Runs /\ tick.run.at <= lastTick
    BY <1>8, <1>r DEF Fire, CursorAhead
  <2>2. /\ \A i \in DOMAIN fires' :
              (i \in DOMAIN fires /\ fires'[i] = fires[i]) \/ fires'[i] = tick.run
        /\ schedStep = "fire" /\ schedStep' = "record"
        /\ UNCHANGED <<now, boot, schedSnap, cursor, lastTick, tick, lapse>>
    BY <1>8, <2>1, FireFacts
  <2>3. tick.run.at <= now
    BY <1>t, <2>1 DEF ClockOrder, Runs
  <2>. QED
    BY <1>t, <2>1, <2>2, <2>3 DEF ClockOrder
<1>9. CASE Sleep
  BY <1>t, <1>9, NoTickFacts DEF Sleep, ClockOrder
<1>10. CASE UNCHANGED schedVars
  BY <1>t, <1>10 DEF schedVars, ClockOrder
<1>. QED
  BY <1>1, <1>2, <1>3, <1>4, <1>5, <1>6, <1>7, <1>8, <1>9, <1>10 DEF SchedNext, Registered

\* What was fired stays behind the cursor.
LEMMA CursorStep ==
    ASSUME SchedTypeOK, ClockOrder, CursorAhead, [SchedNext]_schedVars
    PROVE  CursorAhead'
<1>t. /\ now \in Times /\ boot \in Times \cup {Never} /\ lastTick \in Times \cup {Never}
      /\ Times = 0..MaxTime /\ MaxTime \in Nat /\ Never = -1
  BY ScheduleAssumption DEF SchedTypeOK, Times, Never
<1>c. \A s \in DOMAIN cursor : cursor[s] \in Times
  BY ItemTypes
<1>f. \A i \in DOMAIN fires : fires[i].at \in Times /\ fires[i].id \in Ids
  BY ItemTypes DEF Runs
<1>s. ASSUME UNCHANGED <<boot, cursor, lastTick, tick, fires>>,
             \/ schedStep' = schedStep
             \/ schedStep' = "judge"
             \/ schedStep' = "sleep"
      PROVE  CursorAhead'
  BY <1>s DEF CursorAhead
<1>1. CASE Registered
  <2>1. /\ UNCHANGED <<now, boot, cursor, lastTick, tick, fires, lapse>>
        /\ \/ schedStep' = schedStep
           \/ schedStep = "record" /\ schedStep' = "judge"
    BY <1>1, RegisteredStep
  <2>. QED
    BY <1>s, <2>1
<1>2. CASE TimePasses
  BY <1>2, <1>s DEF TimePasses
<1>3. CASE Stop
  <2>1. DOMAIN cursor' = {} /\ schedStep' = "sleep" /\ fires' = fires
    BY <1>3, MapsFacts DEF Stop
  <2>. QED
    BY <2>1 DEF CursorAhead
<1>4. CASE Start
  <2>1. schedStep = "sleep" /\ schedStep' = schedStep /\ UNCHANGED <<cursor, fires>>
    BY <1>4 DEF Start, ClockOrder
  <2>. QED
    BY <2>1 DEF CursorAhead
<1>5. CASE BeginTick
  <2>1. /\ schedStep' = "judge" /\ fires' = fires
        /\ \A s \in DOMAIN cursor' : s \in DOMAIN cursor /\ cursor'[s] = cursor[s]
    BY <1>5, BeginTickFacts
  <2>. QED
    BY <2>1 DEF CursorAhead
<1>6. CASE Judge
  <2>1. PICK s \in DOMAIN tick.todo :
           /\ schedStep = "judge" /\ cursor' = Advanced(s)
           /\ \/ schedStep' = "judge"
              \/ schedStep' = "fire" /\ Passed(s) # {} /\ tick'.run = Run(s)
           /\ UNCHANGED <<boot, lastTick, fires>>
    BY <1>6, JudgeStepFacts
  <2>2. /\ tick.at = lastTick /\ lastTick \in Times /\ boot \in Times
        /\ DOMAIN cursor' = DOMAIN cursor \cup {s}
        /\ \A r \in DOMAIN cursor \ {s} : cursor'[r] = cursor[r]
        /\ s \in DOMAIN cursor => cursor[s] <= cursor'[s]
        /\ cursor'[s] <= lastTick
        /\ Passed(s) = {} => cursor'[s] = CursorOf(s)
        /\ Passed(s) # {} => s \in DOMAIN cursor /\ cursor[s] < cursor'[s]
    BY <2>1, JudgeFacts
  <2>3. Passed(s) # {} =>
           /\ Run(s) \in Runs
           /\ Run(s).id = s /\ Run(s).at = cursor'[s] /\ Run(s).boot = boot
    BY <2>1, JudgeFacts
  <2>4. cursor' \in Maps(Times)
    BY <2>1, JudgeFacts
  <2>5. \A r \in DOMAIN cursor' : cursor'[r] \in Times
    BY <2>4, MapsFacts
  <2>6. \A i \in DOMAIN fires : fires[i].id = s => fires[i].at <= cursor'[s]
    <3>1. CASE s \in DOMAIN cursor
      BY <1>t, <1>c, <1>f, <2>2, <2>5, <3>1 DEF CursorAhead
    <3>2. CASE s \notin DOMAIN cursor
      <4>1. cursor'[s] = lastTick
        BY <2>2, <3>2 DEF CursorOf
      <4>. QED
        BY <1>t, <2>2, <4>1 DEF ClockOrder
    <3>. QED
      BY <3>1, <3>2
  <2>7. \A i \in DOMAIN fires' : fires'[i].id \in DOMAIN cursor' => fires'[i].at <= cursor'[fires'[i].id]
    BY <2>1, <2>2, <2>6 DEF CursorAhead
  <2>8. ASSUME schedStep' = "fire"
        PROVE  /\ tick'.run \in Runs
               /\ tick'.run.at > boot' /\ tick'.run.boot = boot' /\ tick'.run.at <= lastTick'
               /\ tick'.run.id \in DOMAIN cursor' /\ tick'.run.at = cursor'[tick'.run.id]
               /\ \A i \in DOMAIN fires' : fires'[i].id = tick'.run.id => fires'[i].at < tick'.run.at
    <3>1. Passed(s) # {} /\ tick'.run = Run(s)
      BY <2>1, <2>8
    <3>2. boot <= cursor[s] /\ cursor[s] < cursor'[s] /\ cursor[s] \in Times
      BY <1>c, <2>2, <3>1 DEF ClockOrder
    <3>3. \A i \in DOMAIN fires : fires[i].id = s => fires[i].at < cursor'[s]
      <4>1. \A i \in DOMAIN fires : fires[i].id = s => fires[i].at <= cursor[s]
        BY <2>2, <3>1 DEF CursorAhead
      <4>. QED
        BY <1>t, <1>f, <2>2, <2>5, <3>2, <4>1
    <3>4. boot < cursor'[s]
      BY <1>t, <2>2, <2>5, <3>2
    <3>. QED
      BY <2>1, <2>2, <2>3, <3>1, <3>3, <3>4
  <2>. QED
    BY <2>1, <2>7, <2>8 DEF CursorAhead
<1>7. CASE Skip
  BY <1>7, <1>s DEF Skip
<1>8. CASE Fire
  <2>1. /\ tick.run \in Runs
        /\ tick.run.id \in DOMAIN cursor /\ tick.run.at = cursor[tick.run.id]
    BY <1>8 DEF Fire, CursorAhead
  <2>2. /\ \A i \in DOMAIN fires' :
              (i \in DOMAIN fires /\ fires'[i] = fires[i]) \/ fires'[i] = tick.run
        /\ schedStep' = "record"
        /\ UNCHANGED <<boot, cursor, lastTick, tick>>
    BY <1>8, <2>1, FireFacts
  <2>3. tick.run.at <= cursor[tick.run.id]
    BY <1>t, <1>c, <2>1
  <2>. QED
    BY <2>1, <2>2, <2>3 DEF CursorAhead
<1>9. CASE Sleep
  BY <1>9 DEF Sleep, CursorAhead
<1>10. CASE UNCHANGED schedVars
  BY <1>10, <1>s DEF schedVars
<1>. QED
  BY <1>1, <1>2, <1>3, <1>4, <1>5, <1>6, <1>7, <1>8, <1>9, <1>10 DEF SchedNext, Registered

\* Fewer minutes are skipped when they are counted from a later one on.
LEMMA HiddenFromEarlier ==
    ASSUME NEW expr \in SUBSET Nat, NEW a \in Int, NEW b \in Int, NEW t \in Nat, a <= b,
           Hidden(expr, b, t), 0 <= a
    PROVE  Hidden(expr, a, t)
<1>. DEFINE missed == {u \in expr : b < u /\ u < t}
            all == {u \in expr : a < u /\ u < t}
<1>1. missed \in SUBSET all /\ all \in SUBSET (0..t)
  <2>1. ASSUME NEW u \in expr PROVE (b < u => a < u) /\ (u < t => u \in 0..t)
    <3>1. u \in Nat
      OBVIOUS
    <3>. QED
      BY <3>1
  <2>. QED
    BY <2>1
<1>2. IsFiniteSet(0..t)
  <2>1. 0 \in Int /\ t \in Int
    OBVIOUS
  <2>. QED
    BY <2>1, FS_Interval
<1>3. IsFiniteSet(all)
  BY <1>1, <1>2, FS_Subset
<1>4. /\ Cardinality(missed) \in Nat /\ Cardinality(all) \in Nat
      /\ Cardinality(missed) <= Cardinality(all)
  <2>1. IsFiniteSet(missed) /\ Cardinality(missed) <= Cardinality(all)
    BY <1>1, <1>3, FS_Subset
  <2>. QED
    BY <1>3, <2>1, FS_CardinalityType
<1>5. Cardinality(missed) >= ScanMax
  BY DEF Hidden
<1>. HIDE DEF missed, all
<1>6. Cardinality(all) >= ScanMax
  BY <1>4, <1>5, ScheduleAssumption
<1>. QED
  BY <1>6 DEF all, Hidden

\* The minutes that a schedule has still before it and that were slept through
\* lay beyond what the tick after the sleep looked at.
LEMMA LapsesStep ==
    ASSUME SchedTypeOK, ClockOrder, CursorAhead, LapsesJudged, [SchedNext]_schedVars
    PROVE  LapsesJudged'
<1>t. /\ now \in Times /\ boot \in Times \cup {Never} /\ lastTick \in Times \cup {Never}
      /\ lapse \subseteq Times /\ Times = 0..MaxTime /\ MaxTime \in Nat /\ Never = -1
      /\ tick \in Ticks /\ LateLimit \in Nat
  BY ScheduleAssumption DEF SchedTypeOK, Times, Never, Ticks
<1>c. \A s \in DOMAIN cursor : cursor[s] \in Times
  BY ItemTypes
<1>i. /\ \A s \in DOMAIN schedSnap : schedSnap[s] \in Schedules
      /\ \A s \in DOMAIN tick.todo : tick.todo[s] \in Schedules
  BY ItemTypes
<1>e. \A q \in Schedules : q.since \in Times /\ q.expr \in SUBSET Nat
  BY ScheduleAssumption DEF Schedules
<1>s. ASSUME UNCHANGED <<boot, schedSnap, cursor, tick, lapse>>,
             schedStep' = "fire" => schedStep = "fire"
      PROVE  LapsesJudged'
  BY <1>s DEF LapsesJudged, LapseJudged
<1>1. CASE Registered
  <2>1. /\ \A r \in DOMAIN schedSnap' :
              \/ schedSnap'[r].since = now
              \/ /\ r \in DOMAIN schedSnap
                 /\ schedSnap'[r].expr = schedSnap[r].expr
                 /\ schedSnap'[r].enabled = schedSnap[r].enabled
                 /\ schedSnap'[r].since = schedSnap[r].since
        /\ UNCHANGED <<now, boot, cursor, lastTick, tick, fires, lapse>>
        /\ schedStep' = "fire" => schedStep = "fire"
    BY <1>1, RegisteredStep
  <2>2. ASSUME NEW q, q.since = now, NEW from, NEW upto PROVE Judged(q, lapse, from, upto)
    <3>1. \A u \in lapse : ~ (u > q.since)
      BY <1>t, <2>2 DEF ClockOrder
    <3>. QED
      BY <3>1 DEF Judged
  <2>3. ASSUME NEW q, NEW r, q.since = r.since, q.expr = r.expr, NEW from, NEW upto
        PROVE  Judged(q, lapse, from, upto) <=> Judged(r, lapse, from, upto)
    BY <2>3 DEF Judged
  <2>4. ASSUME NEW s \in DOMAIN schedSnap', schedSnap'[s].enabled
        PROVE  s \in DOMAIN tick.todo \/ (s \in DOMAIN cursor => Judged(schedSnap'[s], lapse, boot, cursor[s]))
    <3>1. CASE schedSnap'[s].since = now
      BY <2>2, <3>1
    <3>2. CASE /\ s \in DOMAIN schedSnap
               /\ schedSnap'[s].expr = schedSnap[s].expr
               /\ schedSnap'[s].enabled = schedSnap[s].enabled
               /\ schedSnap'[s].since = schedSnap[s].since
      <4>1. s \in DOMAIN tick.todo \/ (s \in DOMAIN cursor => Judged(schedSnap[s], lapse, boot, cursor[s]))
        BY <2>4, <3>2 DEF LapsesJudged, LapseJudged
      <4>. QED
        BY <2>3, <3>2, <4>1
    <3>. QED
      BY <2>1, <3>1, <3>2
  <2>5. DOMAIN tick.todo # {} => now >= tick.at
    BY <1>t DEF ClockOrder
  <2>6. ASSUME NEW s \in DOMAIN tick.todo \cap DOMAIN schedSnap'
        PROVE  \/ schedSnap'[s].since >= tick.at
               \/ /\ schedSnap'[s].expr = tick.todo[s].expr
                  /\ schedSnap'[s].since = tick.todo[s].since
    BY <2>1, <2>5 DEF LapsesJudged
  <2>. QED
    BY <2>1, <2>4, <2>6 DEF LapsesJudged, LapseJudged
<1>2. CASE TimePasses
  BY <1>2, <1>s DEF TimePasses
<1>3. CASE Stop
  <2>1. DOMAIN cursor' = {} /\ DOMAIN tick'.todo = {} /\ schedStep' = "sleep"
    BY <1>3, MapsFacts, NoTickFacts DEF Stop
  <2>. QED
    BY <2>1 DEF LapsesJudged, LapseJudged
<1>4. CASE Start
  <2>1. /\ DOMAIN cursor' = {} /\ DOMAIN tick'.todo = {} /\ schedStep' = "sleep"
    BY <1>4 DEF Start, ClockOrder
  <2>. QED
    BY <2>1 DEF LapsesJudged, LapseJudged
<1>5. CASE BeginTick
  <2>1. /\ schedStep = "sleep" /\ DOMAIN tick'.todo = Enabled
        /\ \A s \in Enabled : tick'.todo[s] = schedSnap[s]
        /\ schedStep' = "judge" /\ UNCHANGED <<boot, schedSnap>>
        /\ lapse' = lapse \/ tick'.stall > LateLimit
        /\ tick' \in Ticks
        /\ \A s \in DOMAIN cursor' : s \in DOMAIN cursor /\ cursor'[s] = cursor[s]
    BY <1>5, BeginTickFacts
  <2>2. tick'.stall <= LateLimit => lapse' = lapse
    BY <1>t, <2>1 DEF Ticks
  <2>3. ASSUME NEW s \in DOMAIN tick'.todo, tick'.stall <= LateLimit
        PROVE  s \in DOMAIN cursor' => Judged(tick'.todo[s], lapse', boot', cursor'[s])
    <3>1. s \in DOMAIN schedSnap /\ schedSnap[s].enabled /\ tick'.todo[s] = schedSnap[s]
      BY <2>1, <2>3 DEF Enabled
    <3>2. s \notin DOMAIN tick.todo
      BY <2>1 DEF ClockOrder
    <3>3. s \in DOMAIN cursor => Judged(schedSnap[s], lapse, boot, cursor[s])
      BY <3>1, <3>2 DEF LapsesJudged, LapseJudged
    <3>. QED
      BY <2>1, <2>2, <2>3, <3>1, <3>3
  <2>. QED
    BY <2>1, <2>3 DEF LapsesJudged, LapseJudged, Enabled
<1>6. CASE Judge
  <2>1. PICK s \in DOMAIN tick.todo :
           /\ schedStep = "judge" /\ cursor' = Advanced(s)
           /\ tick'.stall = tick.stall /\ tick'.at = tick.at
           /\ DOMAIN tick'.todo = DOMAIN tick.todo \ {s}
           /\ \A r \in DOMAIN tick'.todo : tick'.todo[r] = tick.todo[r]
           /\ \/ schedStep' = "judge"
              \/ schedStep' = "fire" /\ Passed(s) # {} /\ ~ TooLate(s) /\ tick'.run = Run(s)
           /\ UNCHANGED <<boot, schedSnap, lastTick, lapse>>
    BY <1>6, JudgeStepFacts
  <2>2. /\ tick.at = lastTick /\ lastTick \in Times /\ boot \in Times
        /\ DOMAIN cursor' = DOMAIN cursor \cup {s}
        /\ \A r \in DOMAIN cursor \ {s} : cursor'[r] = cursor[r]
        /\ Passed(s) = {} => cursor'[s] = CursorOf(s)
        /\ Passed(s) # {} =>
              /\ s \in DOMAIN cursor /\ cursor[s] < cursor'[s]
              /\ cursor'[s] = Latest(Passed(s)) /\ cursor'[s] \in tick.todo[s].expr
              /\ Run(s).at = cursor'[s] /\ Run(s).boot = boot
              /\ Run(s).expr = tick.todo[s].expr /\ Run(s).since = tick.todo[s].since
        /\ cursor' \in Maps(Times)
    BY <2>1, JudgeFacts
  <2>3. /\ CursorOf(s) \in Times /\ boot <= CursorOf(s) /\ CursorOf(s) <= cursor'[s]
        /\ cursor'[s] \in Times
    <3>1. cursor'[s] \in Times
      BY <2>2, MapsFacts
    <3>2. CursorOf(s) \in Times
      BY PassedFacts
    <3>3. boot <= CursorOf(s)
      BY <1>t, <2>2 DEF CursorOf, ClockOrder
    <3>4. Passed(s) # {} => CursorOf(s) = cursor[s]
      BY <2>2 DEF CursorOf
    <3>. QED
      BY <1>t, <1>c, <2>2, <3>1, <3>2, <3>3, <3>4
  <2>4. Judged(tick.todo[s], lapse, boot, cursor'[s])
    <3>. SUFFICES ASSUME NEW u \in lapse, u \in tick.todo[s].expr, u > cursor'[s]
                  PROVE  Hidden(tick.todo[s].expr, boot, u)
      BY DEF Judged
    <3>1. u \in Times /\ u <= tick.at
      BY <1>t, <2>2 DEF ClockOrder
    <3>2. CursorOf(s) < u /\ (Passed(s) # {} => Latest(Passed(s)) < u)
      BY <1>t, <2>2, <2>3, <3>1
    <3>3. Hidden(tick.todo[s].expr, CursorOf(s), u)
      BY <3>1, <3>2, PassedFacts DEF Hidden
    <3>4. tick.todo[s].expr \in SUBSET Nat /\ boot \in Int /\ CursorOf(s) \in Int /\ u \in Nat /\ 0 <= boot
      BY <1>t, <1>i, <1>e, <2>2, <2>3, <3>1
    <3>. QED
      BY <2>3, <3>3, <3>4, HiddenFromEarlier
  <2>5. ASSUME NEW r \in DOMAIN schedSnap, schedSnap[r].enabled
        PROVE  r \in DOMAIN tick'.todo \/ (r \in DOMAIN cursor' => Judged(schedSnap[r], lapse, boot, cursor'[r]))
    <3>1. CASE r # s
      BY <2>1, <2>2, <2>5, <3>1 DEF LapsesJudged, LapseJudged
    <3>2. CASE r = s
      <4>1. CASE schedSnap[s].since >= tick.at
        <5>1. \A u \in lapse : ~ (u > schedSnap[s].since)
          BY <1>t, <1>i, <1>e, <2>2, <3>2, <4>1 DEF ClockOrder
        <5>. QED
          BY <3>2, <5>1 DEF Judged
      <4>2. CASE schedSnap[s].expr = tick.todo[s].expr /\ schedSnap[s].since = tick.todo[s].since
        BY <2>4, <3>2, <4>2 DEF Judged
      <4>. QED
        BY <3>2, <4>1, <4>2 DEF LapsesJudged
    <3>. QED
      BY <3>1, <3>2
  <2>6. ASSUME NEW r \in DOMAIN tick'.todo, tick'.stall <= LateLimit
        PROVE  r \in DOMAIN cursor' => Judged(tick'.todo[r], lapse, boot, cursor'[r])
    BY <2>1, <2>2, <2>6 DEF LapsesJudged, LapseJudged
  <2>7. ASSUME schedStep' = "fire" PROVE InTime(tick'.run, lapse)
    <3>1. Passed(s) # {} /\ ~ TooLate(s) /\ tick'.run = Run(s)
      BY <2>1, <2>7
    <3>2. tick.stall <= LateLimit
      BY <1>t, <3>1 DEF TooLate, Ticks
    <3>3. Judged(tick.todo[s], lapse, boot, cursor[s])
      BY <2>2, <3>1, <3>2 DEF LapsesJudged, LapseJudged
    <3>4. cursor'[s] \in tick.todo[s].expr /\ cursor'[s] > cursor[s]
      BY <1>c, <1>t, <2>2, <2>3, <3>1
    <3>. QED
      BY <2>2, <3>1, <3>3, <3>4 DEF InTime, Judged
  <2>8. ASSUME NEW r \in DOMAIN tick'.todo \cap DOMAIN schedSnap
        PROVE  \/ schedSnap[r].since >= tick'.at
               \/ /\ schedSnap[r].expr = tick'.todo[r].expr
                  /\ schedSnap[r].since = tick'.todo[r].since
    BY <2>1, <2>8 DEF LapsesJudged
  <2>. QED
    BY <2>1, <2>5, <2>6, <2>7, <2>8 DEF LapsesJudged, LapseJudged
<1>7. CASE Skip
  BY <1>7, <1>s DEF Skip
<1>8. CASE Fire
  BY <1>8, <1>s DEF Fire
<1>9. CASE Sleep
  <2>1. /\ DOMAIN tick.todo = {} /\ DOMAIN tick'.todo = {} /\ schedStep' = "sleep"
        /\ UNCHANGED <<boot, schedSnap, cursor, lapse>>
    BY <1>9, NoTickFacts DEF Sleep
  <2>. QED
    BY <2>1 DEF LapsesJudged, LapseJudged
<1>10. CASE UNCHANGED schedVars
  BY <1>10, <1>s DEF schedVars
<1>. QED
  BY <1>1, <1>2, <1>3, <1>4, <1>5, <1>6, <1>7, <1>8, <1>9, <1>10 DEF SchedNext, Registered

\* What is fired is new, after the start of the console, and not late.
LEMMA FiresStep ==
    ASSUME SchedTypeOK, ClockOrder, CursorAhead, LapsesJudged, FiresOnce, NoCatchUp, NoLateFire,
           [SchedNext]_schedVars
    PROVE  FiresOnce' /\ NoCatchUp' /\ NoLateFire'
<1>t. /\ lastTick \in Times \cup {Never} /\ lapse \subseteq Times /\ Times = 0..MaxTime
      /\ MaxTime \in Nat /\ Never = -1
  BY ScheduleAssumption DEF SchedTypeOK, Times, Never
<1>f. \A i \in DOMAIN fires : fires[i] \in Runs /\ fires[i].at \in Times
  BY ItemTypes DEF Runs
<1>n. /\ NoCatchUp <=> \A i \in DOMAIN fires : fires[i].at > fires[i].boot
      /\ NoLateFire <=> \A i \in DOMAIN fires : InTime(fires[i], lapse)
      /\ NoCatchUp' <=> \A i \in DOMAIN fires' : fires'[i].at > fires'[i].boot
      /\ NoLateFire' <=> \A i \in DOMAIN fires' : InTime(fires'[i], lapse')
  BY DEF NoCatchUp, NoLateFire, Fires, InTime, Hidden
<1>s. ASSUME UNCHANGED <<fires, lapse>>
      PROVE  FiresOnce' /\ NoCatchUp' /\ NoLateFire'
  BY <1>s, <1>n DEF FiresOnce
<1>1. CASE Registered
  <2>1. UNCHANGED <<now, boot, cursor, lastTick, tick, fires, lapse>>
    BY <1>1, RegisteredStep
  <2>. QED
    BY <1>s, <2>1
<1>2. CASE TimePasses \/ Stop \/ Start \/ Skip \/ Sleep
  BY <1>2, <1>s DEF TimePasses, Stop, Start, Skip, Sleep
<1>3. CASE BeginTick
  <2>1. /\ fires' = fires
        /\ lapse' = lapse \/ (lastTick \in Times /\ lapse' = lapse \cup (lastTick + 1 .. now))
    BY <1>3, BeginTickFacts
  <2>2. \A i \in DOMAIN fires : fires[i].at \in lapse' => fires[i].at \in lapse
    BY <1>t, <1>f, <2>1 DEF ClockOrder
  <2>. QED
    BY <1>n, <2>1, <2>2 DEF FiresOnce, InTime
<1>4. CASE Judge
  BY <1>4, <1>s DEF Judge
<1>5. CASE Fire
  <2>1. /\ tick.run \in Runs /\ tick.run.at > boot /\ tick.run.boot = boot
        /\ InTime(tick.run, lapse)
        /\ \A i \in DOMAIN fires : fires[i].id = tick.run.id => fires[i].at < tick.run.at
    BY <1>5 DEF Fire, CursorAhead, LapsesJudged
  <2>2. /\ \A i \in DOMAIN fires' :
              \/ i \in DOMAIN fires /\ fires'[i] = fires[i]
              \/ i = Len(fires) + 1 /\ fires'[i] = tick.run
        /\ UNCHANGED lapse
    BY <1>5, <2>1, FireFacts
  <2>3. FiresOnce'
    <3>1. \A i \in DOMAIN fires : fires[i].id = tick.run.id => fires[i].at # tick.run.at
      BY <1>t, <1>f, <2>1 DEF Runs
    <3>. QED
      BY <2>2, <3>1 DEF FiresOnce
  <2>4. NoCatchUp' /\ NoLateFire'
    BY <1>n, <2>1, <2>2
  <2>. QED
    BY <2>3, <2>4
<1>6. CASE UNCHANGED schedVars
  BY <1>6, <1>s DEF schedVars
<1>. QED
  BY <1>1, <1>2, <1>3, <1>4, <1>5, <1>6 DEF SchedNext, Registered

\* At the first start nothing is registered, judged or fired.
LEMMA InitSchedule == SchedInit => SchedTypeOK /\ SchedInv
<1>. SUFFICES ASSUME SchedInit PROVE SchedTypeOK /\ SchedInv
  OBVIOUS
<1>1. /\ << >> \in Maps(Schedules) /\ << >> \in Maps(Times) /\ DOMAIN << >> = {}
      /\ << >> \in Seq(Runs) /\ 0 \in Times /\ 0 \in 0..MaxEdits /\ Never = -1
  BY MapsFacts, ScheduleAssumption DEF Times, Never
<1>2. SchedTypeOK
  BY <1>1, NoTickFacts DEF SchedInit, SchedTypeOK, Ticks
<1>3. /\ DOMAIN cursor = {} /\ DOMAIN tick.todo = {} /\ DOMAIN fires = {} /\ DOMAIN schedSnap = {}
      /\ lapse = {} /\ schedStep = "sleep" /\ boot = 0 /\ now = 0 /\ lastTick = Never
  BY <1>1, NoTickFacts DEF SchedInit
<1>4. ClockOrder
  BY <1>1, <1>3 DEF ClockOrder
<1>5. CursorAhead /\ LapsesJudged
  BY <1>3 DEF CursorAhead, LapsesJudged
<1>6. FiresOnce /\ NoCatchUp /\ NoLateFire
  BY <1>3 DEF FiresOnce, NoCatchUp, NoLateFire, Fires
<1>. QED
  BY <1>2, <1>4, <1>5, <1>6 DEF SchedInv

\* The invariant of the scheduler.
THEOREM SchedInvariance == SchedSpec => [](SchedTypeOK /\ SchedInv)
<1>1. SchedTypeOK /\ SchedInv /\ [SchedNext]_schedVars => (SchedTypeOK /\ SchedInv)'
  BY SchedTypeStep, ClockStep, CursorStep, LapsesStep, FiresStep DEF SchedInv
<1>. QED
  BY InitSchedule, <1>1, PTL DEF SchedSpec

\* A due minute of a schedule starts at most one job (schedule/mod.rs, evaluate
\* and advance), whatever the operator edits and however often the console restarts.
THEOREM OneJobPerMinute == SchedSpec => []FiresOnce
<1>1. SchedInv => FiresOnce
  BY DEF SchedInv
<1>. QED
  BY SchedInvariance, <1>1, PTL

\* Nothing that was due before the start of the console is started.
THEOREM NothingIsCaughtUp == SchedSpec => []NoCatchUp
<1>1. SchedInv => NoCatchUp
  BY DEF SchedInv
<1>. QED
  BY SchedInvariance, <1>1, PTL

\* A minute that was slept through starts nothing, unless MISSED_SCAN_MAX due
\* minutes come before it.
THEOREM NothingIsLate == SchedSpec => []NoLateFire
<1>1. SchedInv => NoLateFire
  BY DEF SchedInv
<1>. QED
  BY SchedInvariance, <1>1, PTL

--------------------------------------------------------------------------------
(* The probe cache. *)

\* The gate has at most one holder, the request that produces, and a child
\* that runs belongs to it or to a request that was dropped.
OneHolder ==
    /\ \A r \in Requests : pc[r] = "produce" <=> r \in gate
    /\ \A r, s \in gate : r = s
    /\ \A r \in Requests : child[r] = "running" => pc[r] \in {"produce", "gone"}

\* What a producer that no invalidation has met has seen, and what the slot
\* holds, is not older than the last invalidation.
Recent(value) == value.from # 0 /\ value.from \notin late => value.version >= floor

NothingStale ==
    /\ floor <= version
    /\ Recent(slot)
    /\ \A r \in Requests :
        /\ sight[r].from \in {0, r}
        /\ pc[r] = "new" => child[r] = "none" /\ sight[r] = Unseen
        /\ pc[r] = "wait" => owed[r] <= floor /\ child[r] = "none" /\ sight[r] = Unseen
        /\ pc[r] = "produce" => owed[r] <= floor /\ Recent(sight[r])
        /\ pc[r] = "produce" /\ child[r] = "exited" => sight[r].from = r

ProbeInv == ProbeTypeOK /\ OneHolder /\ NothingStale /\ FreshAfterInvalidation

\* The steps of a request in fetch, of its child, and of everything else.
FetchStep(r) ==
    \/ Begin(r) \/ HitAtGate(r) \/ Produce(r) \/ SpawnFails(r)
    \/ FinishProbe(r) \/ TimeOut(r) \/ Drop(r)

ChildStep(r) == Look(r) \/ ChildExits(r)

\* The empty slot is a value.
LEMMA UnseenIsValue == Unseen \in Values
<1>1. 0 \in Requests \cup {0} /\ 0 \in Versions /\ 0 \in ProbeTimes
  BY CacheAssumption DEF Versions, ProbeTimes
<1>. QED
  BY <1>1 DEF Unseen, Values

\* Before the first request everything is empty.
LEMMA InitProbeInv == ProbeInit => ProbeInv
<1>. SUFFICES ASSUME ProbeInit PROVE ProbeInv
  OBVIOUS
<1>1. ProbeTypeOK
  <2>1. 0 \in ProbeTimes /\ 0 \in Versions
    BY CacheAssumption DEF ProbeTimes, Versions
  <2>. QED
    BY <2>1, UnseenIsValue DEF ProbeInit, ProbeTypeOK
<1>2. OneHolder
  BY DEF ProbeInit, OneHolder
<1>3. NothingStale /\ FreshAfterInvalidation
  BY DEF ProbeInit, NothingStale, Recent, FreshAfterInvalidation, Unseen
<1>. QED
  BY <1>1, <1>2, <1>3 DEF ProbeInv

\* The types are kept.
LEMMA ProbeTypeStep == ProbeTypeOK /\ [ProbeNext]_probeVars => ProbeTypeOK'
<1>. SUFFICES ASSUME ProbeTypeOK, [ProbeNext]_probeVars PROVE ProbeTypeOK'
  OBVIOUS
<1>a. \A v \in Values : [v EXCEPT !.at = probeNow] \in Values
  BY DEF ProbeTypeOK, Values
<1>b. \A r \in Requests :
         [from |-> r, version |-> version, seen |-> probeNow, at |-> probeNow] \in Values
  BY DEF ProbeTypeOK, Values
<1>c. MaxProbeTime \in Nat /\ MaxJobs \in Nat
  BY CacheAssumption
<1>. USE <1>a, <1>b DEF ProbeTypeOK, world
<1>1. ASSUME NEW r \in Requests, FetchStep(r)
      PROVE  ProbeTypeOK'
  <2>1. CASE Begin(r)
    BY <2>1 DEF Begin, Answer
  <2>2. CASE HitAtGate(r)
    BY <2>2 DEF HitAtGate, Answer
  <2>3. CASE Produce(r)
    BY <2>3 DEF Produce
  <2>4. CASE SpawnFails(r)
    BY <2>4 DEF SpawnFails, Store, Answer
  <2>5. CASE FinishProbe(r)
    BY <2>5 DEF FinishProbe, Store, Answer
  <2>6. CASE TimeOut(r)
    BY <2>6 DEF TimeOut, Store, Answer
  <2>7. CASE Drop(r)
    BY <2>7 DEF Drop
  <2>. QED
    BY <1>1, <2>1, <2>2, <2>3, <2>4, <2>5, <2>6, <2>7 DEF FetchStep
<1>2. ASSUME NEW r \in Requests, ChildStep(r)
      PROVE  ProbeTypeOK'
  <2>1. CASE Look(r)
    BY <2>1 DEF Look
  <2>2. CASE ChildExits(r)
    BY <2>2 DEF ChildExits
  <2>. QED
    BY <1>2, <2>1, <2>2 DEF ChildStep
<1>3. CASE JobEnds
  BY <1>3, <1>c DEF JobEnds, Versions
<1>4. CASE Invalidate
  BY <1>4, UnseenIsValue DEF Invalidate, Invalidated
<1>5. CASE Tick
  BY <1>5, <1>c DEF Tick, ProbeTimes
<1>6. CASE UNCHANGED probeVars
  BY <1>6 DEF probeVars
<1>. QED
  BY <1>1, <1>2, <1>3, <1>4, <1>5, <1>6 DEF ProbeNext, FetchStep, ChildStep

\* A request becomes the holder only when nobody is, and gives the gate back when
\* it stops producing, whatever makes it stop.
LEMMA OneHolderStep == ProbeTypeOK /\ OneHolder /\ NothingStale /\ [ProbeNext]_probeVars => OneHolder'
<1>. SUFFICES ASSUME ProbeTypeOK, OneHolder, NothingStale, [ProbeNext]_probeVars PROVE OneHolder'
  OBVIOUS
<1>. USE DEF OneHolder
<1>0. /\ pc \in [Requests -> {"new", "wait", "produce", "done", "gone"}]
      /\ child \in [Requests -> {"none", "running", "exited"}]
      /\ gate \subseteq Requests
      /\ \A r \in Requests : pc[r] \in {"new", "wait"} => child[r] = "none"
  BY DEF ProbeTypeOK, NothingStale
<1>1. ASSUME NEW r \in Requests, FetchStep(r)
      PROVE  OneHolder'
  <2>1. CASE Begin(r)
    BY <1>0, <2>1 DEF Begin, Answer
  <2>2. CASE HitAtGate(r)
    BY <1>0, <2>2 DEF HitAtGate, Answer
  <2>3. CASE Produce(r)
    BY <1>0, <2>3 DEF Produce
  <2>4. CASE SpawnFails(r)
    BY <1>0, <2>4 DEF SpawnFails, Store, Answer
  <2>5. CASE FinishProbe(r)
    BY <1>0, <2>5 DEF FinishProbe, Store, Answer
  <2>6. CASE TimeOut(r)
    BY <1>0, <2>6 DEF TimeOut, Store, Answer
  <2>7. CASE Drop(r)
    BY <1>0, <2>7 DEF Drop
  <2>. QED
    BY <1>1, <2>1, <2>2, <2>3, <2>4, <2>5, <2>6, <2>7 DEF FetchStep
<1>2. ASSUME NEW r \in Requests, ChildStep(r)
      PROVE  OneHolder'
  BY <1>0, <1>2 DEF ChildStep, Look, ChildExits
<1>3. CASE JobEnds \/ Invalidate \/ Tick \/ UNCHANGED probeVars
  BY <1>0, <1>3 DEF JobEnds, Invalidate, Invalidated, Tick, probeVars
<1>. QED
  BY <1>1, <1>2, <1>3 DEF ProbeNext, FetchStep, ChildStep

\* A producer that an invalidation meets is late; every other one stores what it
\* saw after the last invalidation.
LEMMA NothingStaleStep ==
  ProbeTypeOK /\ NothingStale /\ [ProbeNext]_probeVars => NothingStale'
<1>. SUFFICES ASSUME ProbeTypeOK, NothingStale, [ProbeNext]_probeVars PROVE NothingStale'
  OBVIOUS
<1>. USE DEF ProbeTypeOK, NothingStale, Recent, Values, Versions, ProbeTimes, world
<1>1. ASSUME NEW r \in Requests, FetchStep(r)
      PROVE  NothingStale'
  <2>1. CASE Begin(r)
    BY <2>1, CacheAssumption DEF Begin, Answer
  <2>2. CASE HitAtGate(r)
    BY <2>2, CacheAssumption DEF HitAtGate, Answer
  <2>3. CASE Produce(r)
    BY <2>3, CacheAssumption DEF Produce, Unseen
  <2>4. CASE SpawnFails(r)
    BY <2>4, CacheAssumption DEF SpawnFails, Store, Answer
  <2>5. CASE FinishProbe(r)
    BY <2>5, CacheAssumption DEF FinishProbe, Store, Answer
  <2>6. CASE TimeOut(r)
    BY <2>6, CacheAssumption DEF TimeOut, Store, Answer
  <2>7. CASE Drop(r)
    BY <2>7, CacheAssumption DEF Drop
  <2>. QED
    BY <1>1, <2>1, <2>2, <2>3, <2>4, <2>5, <2>6, <2>7 DEF FetchStep
<1>2. ASSUME NEW r \in Requests, ChildStep(r)
      PROVE  NothingStale'
  <2>1. CASE Look(r)
    BY <2>1, CacheAssumption DEF Look, Unseen
  <2>2. CASE ChildExits(r)
    BY <2>2, CacheAssumption DEF ChildExits
  <2>. QED
    BY <1>2, <2>1, <2>2 DEF ChildStep
<1>3. CASE JobEnds
  BY <1>3, CacheAssumption DEF JobEnds
<1>4. CASE Invalidate
  BY <1>4, CacheAssumption DEF Invalidate, Invalidated, Unseen
<1>5. CASE Tick
  BY <1>5 DEF Tick
<1>6. CASE UNCHANGED probeVars
  BY <1>6 DEF probeVars
<1>. QED
  BY <1>1, <1>2, <1>3, <1>4, <1>5, <1>6 DEF ProbeNext, FetchStep, ChildStep

\* An answer comes from the slot or from the request's own child, and neither is
\* stale.
LEMMA FreshStep ==
  ProbeTypeOK /\ NothingStale /\ FreshAfterInvalidation /\ [ProbeNext]_probeVars
    => FreshAfterInvalidation'
<1>. SUFFICES ASSUME ProbeTypeOK, NothingStale, FreshAfterInvalidation, [ProbeNext]_probeVars
              PROVE  FreshAfterInvalidation'
  OBVIOUS
<1>. USE DEF ProbeTypeOK, NothingStale, Recent, FreshAfterInvalidation, Values, Versions, ProbeTimes, world
<1>1. ASSUME NEW r \in Requests, FetchStep(r)
      PROVE  FreshAfterInvalidation'
  <2>1. CASE Begin(r)
    <3>1. slot.from \notin late /\ Fresh(slot) => slot.version >= floor
      BY DEF Fresh
    <3>2. \A q \in Requests \ {r} :
             pc'[q] = pc[q] /\ answer'[q] = answer[q] /\ owed'[q] = owed[q]
      BY <2>1 DEF Begin, Answer
    <3>3. pc'[r] = "done" =>
             /\ Fresh(slot) /\ owed'[r] = floor
             /\ answer'[r].from = slot.from /\ answer'[r].version = slot.version
      BY <2>1 DEF Begin, Answer
    <3>4. late' = late
      BY <2>1 DEF Begin
    <3>. QED
      BY <3>1, <3>2, <3>3, <3>4
  <2>2. CASE HitAtGate(r)
    BY <2>2, CacheAssumption DEF HitAtGate, Answer, Fresh
  <2>3. CASE Produce(r)
    BY <2>3, CacheAssumption DEF Produce
  <2>4. CASE SpawnFails(r)
    BY <2>4, CacheAssumption DEF SpawnFails, Store, Answer
  <2>5. CASE FinishProbe(r)
    <3>1. sight[r].from \notin late => sight[r].version >= owed[r]
      BY <2>5, CacheAssumption DEF FinishProbe
    <3>2. answer'[r].from = sight[r].from /\ answer'[r].version = sight[r].version
      BY <2>5 DEF FinishProbe, Store, Answer
    <3>3. \A q \in Requests \ {r} : pc'[q] = pc[q] /\ answer'[q] = answer[q]
      BY <2>5 DEF FinishProbe, Store, Answer
    <3>4. late' = late /\ owed' = owed
      BY <2>5 DEF FinishProbe
    <3>. QED
      BY <3>1, <3>2, <3>3, <3>4
  <2>6. CASE TimeOut(r)
    BY <2>6, CacheAssumption DEF TimeOut, Store, Answer
  <2>7. CASE Drop(r)
    BY <2>7, CacheAssumption DEF Drop
  <2>. QED
    BY <1>1, <2>1, <2>2, <2>3, <2>4, <2>5, <2>6, <2>7 DEF FetchStep
<1>2. ASSUME NEW r \in Requests, ChildStep(r)
      PROVE  FreshAfterInvalidation'
  BY <1>2 DEF ChildStep, Look, ChildExits
<1>3. CASE JobEnds \/ Invalidate \/ Tick \/ UNCHANGED probeVars
  BY <1>3 DEF JobEnds, Invalidate, Invalidated, Tick, probeVars
<1>. QED
  BY <1>1, <1>2, <1>3 DEF ProbeNext, FetchStep, ChildStep

\* The gate, the sights of the producers and the slot stay as ProbeInv says,
\* whatever requests, children, jobs and the clock do.
THEOREM ProbeInvariance == ProbeSpec => []ProbeInv
<1>1. ProbeInv /\ [ProbeNext]_probeVars => ProbeInv'
  BY ProbeTypeStep, OneHolderStep, NothingStaleStep, FreshStep DEF ProbeInv
<1>. QED
  BY <1>1, InitProbeInv, PTL DEF ProbeSpec

\* Of the requests that nobody dropped, one at a time runs a child for the key
\* (cache.rs:78-80).
THEOREM SingleProbe == ProbeSpec => []OneChildPerKey
<1>1. ProbeInv => OneChildPerKey
  BY DEF ProbeInv, OneHolder, OneChildPerKey
<1>. QED
  BY <1>1, ProbeInvariance, PTL

\* No answer hides what a job changed before the request began, unless its child
\* was running when the job's invalidation came (cache.rs:90-92).
THEOREM NoStaleAnswer == ProbeSpec => []FreshAfterInvalidation
<1>1. ProbeInv => FreshAfterInvalidation
  BY DEF ProbeInv
<1>. QED
  BY <1>1, ProbeInvariance, PTL

--------------------------------------------------------------------------------
(* Saving the configuration. *)

\* A save that has read the file and not yet replaced it.
IsOpen(v) == v.at \notin {"idle", "gate", "read"}

AtMostOneOpen(saves) == \A s, t \in Savers : IsOpen(saves[s]) /\ IsOpen(saves[t]) => s = t

\* The text of a save is its change, made to the file as it is now; a text in two
\* syntaxes does not get past the doctor.
TextIsCurrent(file, v) ==
    IsOpen(v) =>
        /\ v.at # "doctor" => v.text.syntax # "mixed"
        /\ v.text.syntax # "mixed" =>
             v.text.says = IF v.change.op = "convert" THEN file.says ELSE Applied(file.says, v.change)

\* The generation a rotation writes next is free, and the first one is the file once
\* it is copied.
SlotIsFree(file, kept, v) ==
    /\ v.at = "shift" => v.gen + 1 \in 1..Generations /\ kept[v.gen + 1] = NoText
    /\ v.at = "copying" => kept[1] = Torn
    /\ v.at = "replace" => kept[1] = file

\* The replaced version is in a generation from low to high.
IsKept(kept, old, low, high) ==
    \E g \in 1..Generations : low <= g /\ g <= high /\ kept[g] = old

\* Where it is while a rotation is under way: one place further up once it was
\* moved, unless it was the oldest.
IsKeptDuring(kept, old, n, v) ==
    /\ v.at \in {"doctor", "oldest"} => IsKept(kept, old, 1, n + 1)
    /\ v.at = "shift" =>
         \/ n + 1 >= Generations
         \/ IsKept(kept, old, 1, n + 1) \/ IsKept(kept, old, v.gen + 1, n + 2)
    /\ v.at \in {"copying", "replace"} =>
         n + 1 >= Generations \/ IsKept(kept, old, 2, n + 2)

\* Where it is, whoever has the file open.
IsReplaceable(kept, old, n, saves) ==
    \/ old = NoText \/ n >= Generations
    \/ /\ (\A s \in Savers : ~ IsOpen(saves[s])) => IsKept(kept, old, 1, n + 1)
       /\ \A s \in Savers : IsOpen(saves[s]) => IsKeptDuring(kept, old, n, saves[s])

\* A text says what was meant, but for what was put back.
IsMeant(file, says, back) ==
    \A p \in Profiles, k \in Items : file.says[p][k] # says[p][k] => k \in back[p]

\* What is true as long as no two saves are open at once.
OneAtATime(file, kept, saves, says, back, old, n) ==
    /\ AtMostOneOpen(saves)
    /\ \A s \in Savers : TextIsCurrent(file, saves[s]) /\ SlotIsFree(file, kept, saves[s])
    /\ IsMeant(file, says, back)
    /\ IsReplaceable(kept, old, n, saves)

\* A page or an editor differs from the file only in items that changed since it was
\* opened.
PageIsOld(page, file, changed) ==
    page # NoText => \A p \in Profiles, k \in Items : page.says[p][k] # file.says[p][k] => k \in changed[p]

\* What a save writes although nobody meant it is among these.
WritesOldItems(v, changed) ==
    v.at # "idle" /\ v.change.op # "convert" => NotMeant(v.change) \subseteq changed[v.change.profile]

PagesInv ==
    \A s \in Savers : PageIsOld(shown[s], config, older[s]) /\ WritesOldItems(saver[s], older[s])

SaveInv ==
    /\ SaveTypeOK
    /\ PagesInv
    /\ together \/ OneAtATime(config, bak, saver, intended, putBack, replaced, aborted)

--------------------------------------------------------------------------------
(* The steps of a save *)

\* The types of the model's variables, one fact each.
LEMMA SaveTypes ==
    ASSUME SaveTypeOK
    PROVE  /\ config \in Texts /\ config.says \in Sayings
           /\ config.syntax \in {"v1", "v2", "mixed"}
           /\ bak \in [1..Generations -> Texts \cup {NoText, Torn}]
           /\ saver \in [Savers -> Saves]
           /\ \A s \in Savers : IsOpen(saver[s]) => saver[s].text \in Texts
           /\ \A s \in Savers : saver[s].at # "idle" => saver[s].change \in Changes
           /\ shown \in [Savers -> Texts \cup {NoText}]
           /\ older \in [Savers -> [Profiles -> SUBSET Items]]
           /\ intended \in Sayings /\ putBack \in [Profiles -> SUBSET Items]
           /\ aborted \in Nat /\ together \in BOOLEAN /\ replaced \in Texts \cup {NoText}
           /\ Generations \in Nat /\ Generations >= 1
<1>1. config \in Texts
  BY DEF SaveTypeOK
<1>2. config.says \in Sayings /\ config.syntax \in {"v1", "v2", "mixed"}
  BY <1>1 DEF Texts
<1>3. Generations \in Nat /\ Generations >= 1
  BY SaveAssumption
<1>. QED
  BY <1>1, <1>2, <1>3 DEF SaveTypeOK, IsOpen

\* A change of a profile makes sayings of sayings, and of what is meant.
LEMMA ChangedSayings ==
    ASSUME NEW c \in Changes, c.op # "convert", NEW says \in Sayings
    PROVE  /\ c.profile \in Profiles /\ c.to \in [Items -> Sayable \cup {Keep}]
           /\ c.meant \subseteq Items /\ Keep \notin Sayable
           /\ Applied(says, c) \in Sayings /\ MeantValues(says, c) \in Sayings
           /\ \A p \in Profiles, k \in Items :
                 /\ Applied(says, c)[p][k] = IF p = c.profile /\ c.to[k] # Keep THEN c.to[k] ELSE says[p][k]
                 /\ MeantValues(says, c)[p][k] =
                       IF p = c.profile /\ k \in Meant(c) THEN c.to[k] ELSE says[p][k]
<1>1. /\ c.profile \in Profiles /\ c.to \in [Items -> Sayable \cup {Keep}] /\ c.meant \subseteq Items
  BY DEF Changes
<1>2. Keep \notin Sayable
  BY SaveAssumption DEF Keep, Sayable, Missing, Here
<1>. DEFINE applied == [k \in Items |-> IF c.to[k] = Keep THEN says[c.profile][k] ELSE c.to[k]]
            meant == [k \in Items |-> IF k \in Meant(c) THEN c.to[k] ELSE says[c.profile][k]]
<1>3. says[c.profile] \in [Items -> Sayable]
  BY <1>1 DEF Sayings
<1>4. applied \in [Items -> Sayable]
  BY <1>1, <1>3
<1>5. meant \in [Items -> Sayable]
  BY <1>1, <1>3 DEF Meant
<1>6. Applied(says, c) = [says EXCEPT ![c.profile] = applied]
  BY <1>1 DEF Applied, Sayings
<1>7. MeantValues(says, c) = [says EXCEPT ![c.profile] = meant]
  BY <1>1 DEF MeantValues, Sayings
<1>8. \A k \in Items : /\ applied[k] = IF c.to[k] # Keep THEN c.to[k] ELSE says[c.profile][k]
                       /\ meant[k] = IF k \in Meant(c) THEN c.to[k] ELSE says[c.profile][k]
  OBVIOUS
<1>. HIDE DEF applied, meant
<1>9. /\ Applied(says, c) \in Sayings /\ MeantValues(says, c) \in Sayings
      /\ \A p \in Profiles : /\ Applied(says, c)[p] = IF p = c.profile THEN applied ELSE says[p]
                            /\ MeantValues(says, c)[p] = IF p = c.profile THEN meant ELSE says[p]
  BY <1>1, <1>4, <1>5, <1>6, <1>7 DEF Sayings
<1>. QED
  BY <1>1, <1>2, <1>8, <1>9

\* The texts that stand for no file at all are not texts of one.
LEMMA NoTextFacts ==
    /\ NoText \notin Texts /\ Torn \notin Texts /\ NoText # Torn
  BY DEF NoText, Torn, Texts

\* What a save is made of.
LEMMA SaveFacts ==
    ASSUME NEW v \in Saves
    PROVE  /\ v.at \in {"idle", "gate", "read", "doctor", "oldest", "shift", "copying", "replace"}
           /\ v.change \in Changes \cup {NoChange} /\ v.text \in Texts \cup {NoText}
           /\ v.gen \in 0..Generations
  BY DEF Saves

\* A save that is not under way.
LEMMA IdleSave ==
    /\ NoSave(NoChange) \in Saves /\ NoSave(NoChange).at = "idle"
    /\ \A c \in Changes : \A at \in {"gate", "read"} :
          /\ [NoSave(c) EXCEPT !.at = at] \in Saves
          /\ [NoSave(c) EXCEPT !.at = at].at = at
          /\ [NoSave(c) EXCEPT !.at = at].change = c
<1>1. 0 \in 0..Generations
  BY SaveAssumption
<1>. HIDE DEF NoText
<1>2. NoSave(NoChange) = [at |-> "idle", change |-> NoChange, text |-> NoText, gen |-> 0]
  BY DEF NoSave
<1>3. NoSave(NoChange) \in Saves /\ NoSave(NoChange).at = "idle"
  BY <1>1, <1>2 DEF Saves
<1>4. ASSUME NEW c \in Changes, NEW at \in {"gate", "read"}
      PROVE  /\ [NoSave(c) EXCEPT !.at = at] \in Saves
             /\ [NoSave(c) EXCEPT !.at = at].at = at
             /\ [NoSave(c) EXCEPT !.at = at].change = c
  <2>1. [NoSave(c) EXCEPT !.at = at] = [at |-> at, change |-> c, text |-> NoText, gen |-> 0]
    BY DEF NoSave
  <2>. QED
    BY <2>1, <1>1 DEF Saves
<1>. QED
  BY <1>3, <1>4

\* One save moves and the others stay.
LEMMA OneSaveMoves ==
    ASSUME NEW S \in [Savers -> Saves], NEW s \in Savers, NEW v \in Saves, NEW T,
           T = [S EXCEPT ![s] = v]
    PROVE  /\ T \in [Savers -> Saves] /\ T[s] = v
           /\ \A t \in Savers : t # s => T[t] = S[t]
  OBVIOUS

\* A save moves that is not open before or after.
LEMMA ClosedSaveMoves ==
    ASSUME NEW S \in [Savers -> Saves], NEW s \in Savers, NEW v \in Saves, NEW T,
           T = [S EXCEPT ![s] = v], ~ IsOpen(S[s]), ~ IsOpen(v),
           NEW file, NEW kept, NEW says, NEW back, NEW old, NEW n,
           OneAtATime(file, kept, S, says, back, old, n)
    PROVE  OneAtATime(file, kept, T, says, back, old, n)
<1>1. T[s] = v /\ \A t \in Savers : t # s => T[t] = S[t]
  BY OneSaveMoves
<1>2. AtMostOneOpen(T)
  BY <1>1 DEF OneAtATime, AtMostOneOpen
<1>3. \A t \in Savers : TextIsCurrent(file, T[t]) /\ SlotIsFree(file, kept, T[t])
  <2>1. TextIsCurrent(file, v) /\ SlotIsFree(file, kept, v)
    BY DEF TextIsCurrent, SlotIsFree, IsOpen
  <2>. QED
    BY <2>1, <1>1 DEF OneAtATime
<1>4. \A t \in Savers : IsOpen(T[t]) <=> IsOpen(S[t])
  BY <1>1
<1>5. IsReplaceable(kept, old, n, T)
  <2>1. IsReplaceable(kept, old, n, S)
    BY DEF OneAtATime
  <2>2. \A t \in Savers : IsOpen(T[t]) => T[t] = S[t]
    BY <1>1
  <2>. QED
    BY <2>1, <2>2, <1>4 DEF IsReplaceable
<1>. QED
  BY <1>2, <1>3, <1>5 DEF OneAtATime

\* The same for a save that is the only open one.
LEMMA LoneSaveMoves ==
    ASSUME NEW S \in [Savers -> Saves], NEW s \in Savers, NEW v \in Saves, NEW T,
           T = [S EXCEPT ![s] = v], \A t \in Savers : t # s => ~ IsOpen(S[t]),
           NEW file, NEW kept, NEW says, NEW back, NEW old, NEW n,
           TextIsCurrent(file, v), SlotIsFree(file, kept, v), IsMeant(file, says, back),
           \/ old = NoText \/ n >= Generations
           \/ IsOpen(v) /\ IsKeptDuring(kept, old, n, v)
           \/ ~ IsOpen(v) /\ IsKept(kept, old, 1, n + 1)
    PROVE  OneAtATime(file, kept, T, says, back, old, n)
<1>1. T[s] = v /\ \A t \in Savers : t # s => T[t] = S[t] /\ ~ IsOpen(T[t])
  BY OneSaveMoves
<1>2. AtMostOneOpen(T)
  BY <1>1 DEF AtMostOneOpen
<1>3. \A t \in Savers : TextIsCurrent(file, T[t]) /\ SlotIsFree(file, kept, T[t])
  <2>1. \A t \in Savers : t # s => TextIsCurrent(file, T[t]) /\ SlotIsFree(file, kept, T[t])
    <3>1. ASSUME NEW w, ~ IsOpen(w)
          PROVE  TextIsCurrent(file, w) /\ SlotIsFree(file, kept, w)
      BY <3>1 DEF TextIsCurrent, SlotIsFree, IsOpen
    <3>. QED
      BY <3>1, <1>1
  <2>. QED
    BY <2>1, <1>1
<1>4. IsReplaceable(kept, old, n, T)
  BY <1>1 DEF IsReplaceable
<1>. QED
  BY <1>2, <1>3, <1>4 DEF OneAtATime

\* What a lone open save knows.
LEMMA LoneSaveFacts ==
    ASSUME SaveInv, ~ together, NEW s \in Savers, IsOpen(saver[s])
    PROVE  /\ \A t \in Savers : t # s => ~ IsOpen(saver[t])
           /\ TextIsCurrent(config, saver[s]) /\ SlotIsFree(config, bak, saver[s])
           /\ IsMeant(config, intended, putBack)
           /\ \/ replaced = NoText \/ aborted >= Generations
              \/ IsKeptDuring(bak, replaced, aborted, saver[s])
<1>1. OneAtATime(config, bak, saver, intended, putBack, replaced, aborted)
  BY DEF SaveInv
<1>. QED
  BY <1>1 DEF OneAtATime, AtMostOneOpen, IsReplaceable

--------------------------------------------------------------------------------

\* A file, no generation and no save.
LEMMA SaveInitInv == SaveInit => SaveInv
<1>. SUFFICES ASSUME SaveInit PROVE SaveInv
  OBVIOUS
<1>1. PICK p \in Profiles, said \in [Keys -> Settings], x \in {"v1", "v2"} :
        config = [syntax |-> x,
                  says   |-> [q \in Profiles |-> [k \in Items |->
                                 IF q # p THEN Missing ELSE IF k = Section THEN Here ELSE said[k]]]]
  BY DEF SaveInit
<1>2. config \in Texts /\ config.says \in Sayings
  <2>. DEFINE says == [q \in Profiles |-> [k \in Items |->
                          IF q # p THEN Missing ELSE IF k = Section THEN Here ELSE said[k]]]
  <2>1. says \in Sayings
    BY DEF Sayings, Sayable, Items
  <2>. HIDE DEF says
  <2>2. config = [syntax |-> x, says |-> says]
    BY <1>1 DEF says
  <2>. QED
    BY <2>1, <2>2 DEF Texts
<1>3. saver \in [Savers -> Saves] /\ \A s \in Savers : saver[s].at = "idle"
  BY IdleSave DEF SaveInit
<1>4. SaveTypeOK
  BY <1>2, <1>3 DEF SaveInit, SaveTypeOK
<1>5. \A s \in Savers : ~ IsOpen(saver[s])
  BY <1>3 DEF IsOpen
<1>6. \A s \in Savers : TextIsCurrent(config, saver[s]) /\ SlotIsFree(config, bak, saver[s])
  BY <1>3 DEF TextIsCurrent, SlotIsFree, IsOpen
<1>7. replaced = NoText /\ IsMeant(config, intended, putBack)
  BY DEF SaveInit, IsMeant
<1>8. PagesInv
  BY <1>3 DEF SaveInit, PagesInv, PageIsOld, WritesOldItems
<1>. QED
  BY <1>4, <1>5, <1>6, <1>7, <1>8 DEF SaveInv, OneAtATime, AtMostOneOpen, IsReplaceable

\* A save that has not read the file yet moves, and nothing else.
LEMMA ClosedStep ==
    ASSUME SaveInv, NEW s \in Savers, NEW v \in Saves, ~ IsOpen(saver[s]), ~ IsOpen(v),
           v.at # "idle" => v.change \in Changes, WritesOldItems(v, older[s]),
           saver' = [saver EXCEPT ![s] = v],
           UNCHANGED <<config, bak, intended, putBack, replaced, aborted, shown, older, together>>
    PROVE  SaveInv'
<1>t. saver \in [Savers -> Saves] /\ SaveTypeOK
  BY SaveTypes DEF SaveInv
<1>1. saver' \in [Savers -> Saves] /\ saver'[s] = v /\ \A t \in Savers : t # s => saver'[t] = saver[t]
  BY <1>t, OneSaveMoves
<1>2. SaveTypeOK'
  BY <1>1, <1>t DEF SaveTypeOK, IsOpen
<1>5. PagesInv'
  <2>1. \A t \in Savers : PageIsOld(shown[t], config, older[t]) /\ WritesOldItems(saver[t], older[t])
    BY DEF SaveInv, PagesInv
  <2>. QED
    BY <2>1, <1>1 DEF PagesInv
<1>3. CASE together
  BY <1>2, <1>3, <1>5 DEF SaveInv
<1>4. CASE ~ together
  <2>1. OneAtATime(config, bak, saver, intended, putBack, replaced, aborted)
    BY <1>4 DEF SaveInv
  <2>2. OneAtATime(config, bak, saver', intended, putBack, replaced, aborted)
    BY <2>1, <1>t, ClosedSaveMoves
  <2>. QED
    BY <2>2, <1>2, <1>5 DEF SaveInv
<1>. QED
  BY <1>3, <1>4

\* A page or an editor is opened.
LEMMA OpenEditorStep ==
    ASSUME SaveInv, NEW s \in Savers, OpenEditor(s)
    PROVE  SaveInv'
<1>t. config \in Texts /\ SaveTypeOK
  BY SaveTypes DEF SaveInv
<1>1. /\ shown' = [shown EXCEPT ![s] = config] /\ saver[s].at = "idle"
      /\ older' = [older EXCEPT ![s] = [p \in Profiles |-> {}]]
      /\ UNCHANGED <<config, bak, saver, intended, putBack, replaced, aborted, together>>
  BY DEF OpenEditor
<1>2. /\ shown' \in [Savers -> Texts \cup {NoText}] /\ shown'[s] = config
      /\ \A t \in Savers : t # s => shown'[t] = shown[t] /\ older'[t] = older[t]
  BY <1>1, <1>t DEF SaveTypeOK
<1>3. older' \in [Savers -> [Profiles -> SUBSET Items]]
  <2>. DEFINE none == [p \in Profiles |-> {}]
  <2>1. none \in [Profiles -> SUBSET Items]
    OBVIOUS
  <2>2. older \in [Savers -> [Profiles -> SUBSET Items]]
    BY <1>t DEF SaveTypeOK
  <2>3. older' = [older EXCEPT ![s] = none]
    BY <1>1
  <2>. HIDE DEF none
  <2>. QED
    BY <2>1, <2>2, <2>3
<1>4. SaveTypeOK'
  BY <1>1, <1>2, <1>3, <1>t DEF SaveTypeOK
<1>5. PagesInv'
  <2>1. \A t \in Savers : PageIsOld(shown[t], config, older[t]) /\ WritesOldItems(saver[t], older[t])
    BY DEF SaveInv, PagesInv
  <2>2. PageIsOld(config, config, older'[s]) /\ WritesOldItems(saver[s], older'[s])
    BY <1>1 DEF PageIsOld, WritesOldItems
  <2>. QED
    BY <2>1, <2>2, <1>1, <1>2 DEF PagesInv
<1>. QED
  BY <1>1, <1>4, <1>5 DEF SaveInv

\* A save is asked for.
LEMMA SubmitStep ==
    ASSUME SaveInv, NEW s \in Savers, NEW change \in Changes, NEW at \in {"gate", "read"},
           change.op = "convert" \/ NotMeant(change) \subseteq older[s][change.profile],
           Submit(s, change, at)
    PROVE  SaveInv'
<1>. DEFINE v == [NoSave(change) EXCEPT !.at = at]
<1>1. v \in Saves /\ v.at = at /\ v.change = change
  BY IdleSave
<1>2. /\ saver[s].at = "idle" /\ saver' = [saver EXCEPT ![s] = v]
      /\ UNCHANGED <<config, bak, intended, putBack, replaced, aborted, shown, older, together>>
  BY DEF Submit
<1>. HIDE DEF v
<1>3. ~ IsOpen(saver[s]) /\ ~ IsOpen(v) /\ WritesOldItems(v, older[s])
  BY <1>1, <1>2 DEF IsOpen, WritesOldItems
<1>. QED
  BY <1>1, <1>2, <1>3, ClosedStep

\* What a form changes is a change, and what it changes although nobody edited the
\* field changed in the file since the page was opened.
LEMMA FormChanges ==
    ASSUME SaveInv, NEW s \in Savers, NEW p \in Profiles, NEW op \in {"create", "update"},
           Allowed(s, op, p), op = "update" => shown[s] # NoText,
           NEW form \in PostableForms(s, op, p)
    PROVE  /\ FormChange(s, op, p, form) \in Changes /\ FormChange(s, op, p, form).op = op
           /\ FormChange(s, op, p, form).profile = p
           /\ NotMeant(FormChange(s, op, p, form)) \subseteq older[s][p]
<1>. DEFINE c == FormChange(s, op, p, form)
            said(k) == IF op = "create" THEN Missing ELSE Document(s).says[p][k]
            to == [k \in Items |-> IF k \in Keys THEN FieldChange(k, form[k], said(k))
                                  ELSE IF op = "create" THEN Here ELSE Keep]
            meant == {k \in Items : k \in Keys => form[k] # Filled(s, op, p)[k]}
<1>1. c = [op |-> op, profile |-> p, to |-> to, meant |-> meant, syntax |-> Document(s).syntax]
  BY DEF FormChange, Change
<1>2. form \in [Keys -> Settings \cup {Blank, Clear, NotThere}]
  BY DEF PostableForms
<1>3. to \in [Items -> Sayable \cup {Keep}]
  <2>1. ASSUME NEW k \in Keys
        PROVE  FieldChange(k, form[k], said(k)) \in Sayable \cup {Keep}
    <3>1. form[k] \in Settings \cup {Blank, Clear, NotThere}
      BY <1>2
    <3>. QED
      BY <3>1 DEF FieldChange, Sayable
  <2>. QED
    BY <2>1 DEF Sayable
<1>4. Document(s).syntax \in {"v1", "v2"}
  BY DEF Allowed
<1>5. ASSUME NEW k \in Items, to[k] # Keep, k \notin meant
      PROVE  k \in older[s][p]
  <2>1. k \in Keys /\ form[k] = Filled(s, op, p)[k] /\ FieldChange(k, form[k], said(k)) # Keep
    BY <1>5
  <2>2. /\ s \notin Terminal /\ op = "update"
    BY <2>1 DEF Filled, FieldChange, Blank, Clear, NotThere
  <2>3. said(k) = config.says[p][k] /\ shown[s] # NoText
    BY <2>2 DEF Document
  <2>4. shown[s].says[p][k] # config.says[p][k]
    <3>1. shown[s] \in Texts
      BY <2>3, SaveTypes DEF SaveInv
    <3>2. shown[s].says[p][k] \in Sayable
      BY <3>1, <1>5 DEF Texts, Sayings
    <3>3. shown[s].says[p][k] \notin {Blank, Clear, NotThere}
      BY <3>2, SaveAssumption DEF Sayable, Blank, Clear, NotThere, Missing, Here
    <3>4. form[k] = IF k \in Uris \/ shown[s].says[p][k] = Missing THEN Blank ELSE shown[s].says[p][k]
      BY <2>1, <2>2 DEF Filled
    <3>. QED
      BY <2>1, <2>3, <3>3, <3>4 DEF FieldChange, Blank, Clear, NotThere
  <2>5. PageIsOld(shown[s], config, older[s])
    BY DEF SaveInv, PagesInv
  <2>. QED
    BY <2>3, <2>4, <2>5, <1>5 DEF PageIsOld
<1>. HIDE DEF to
<1>6. meant \subseteq Items
  OBVIOUS
<1>. HIDE DEF meant, said
<1>7. c \in Changes
  BY <1>1, <1>3, <1>4, <1>6 DEF Changes
<1>. QED
  BY <1>1, <1>5, <1>7 DEF NotMeant

\* ... to create or to update a profile, ...
LEMMA SubmitFormStep ==
    ASSUME SaveInv, NEW s \in Savers, NEW p \in Profiles, NEW op \in {"create", "update"},
           NEW form \in PostableForms(s, op, p), SubmitForm(s, op, p, form)
    PROVE  SaveInv'
<1>. DEFINE c == FormChange(s, op, p, form)
            at == IF s \in Terminal THEN "read" ELSE "gate"
<1>1. Allowed(s, op, p) /\ Submit(s, c, at) /\ (op = "update" => shown[s] # NoText)
  BY DEF SubmitForm
<1>2. c \in Changes /\ NotMeant(c) \subseteq older[s][c.profile]
  BY <1>1, FormChanges
<1>. HIDE DEF c
<1>. QED
  BY <1>1, <1>2, SubmitStep

\* ... to delete one, ...
LEMMA SubmitDeleteStep ==
    ASSUME SaveInv, NEW s \in Savers, NEW p \in Profiles, SubmitDelete(s, p)
    PROVE  SaveInv'
<1>. DEFINE c == Deletion(s, p)
            gone == [k \in Items |-> Missing]
<1>1. Document(s).syntax \in {"v1", "v2"} /\ Submit(s, c, "gate")
  BY DEF SubmitDelete, Allowed
<1>2. gone \in [Items -> Sayable \cup {Keep}]
  BY DEF Sayable
<1>3. c = [op |-> "delete", profile |-> p, to |-> gone, meant |-> Items, syntax |-> Document(s).syntax]
  BY DEF Deletion, Change
<1>. HIDE DEF gone, c
<1>4. c \in Changes /\ NotMeant(c) \subseteq older[s][c.profile]
  BY <1>1, <1>2, <1>3 DEF Changes, NotMeant
<1>. QED
  BY <1>1, <1>4, SubmitStep

\* ... or to convert the file.
LEMMA SubmitConversionStep ==
    ASSUME SaveInv, NEW s \in Savers, SubmitConversion(s)
    PROVE  SaveInv'
<1>1. config \in Texts
  BY SaveTypes DEF SaveInv
<1>2. Conversion(config) \in Changes /\ Conversion(config).op = "convert"
  BY <1>1 DEF Conversion, Changes
<1>3. Submit(s, Conversion(config), "gate")
  BY DEF SubmitConversion
<1>. QED
  BY <1>2, <1>3, SubmitStep

\* The audit log is written, or refuses.
LEMMA AuditSaveStep ==
    ASSUME SaveInv, NEW s \in Savers, AuditSave(s)
    PROVE  SaveInv'
<1>t. saver \in [Savers -> Saves] /\ saver[s] \in Saves
  BY SaveTypes DEF SaveInv
<1>1. /\ saver[s].at = "gate"
      /\ UNCHANGED <<config, bak, intended, putBack, replaced, aborted, shown, older, together>>
  BY DEF AuditSave
<1>2. ~ IsOpen(saver[s]) /\ saver[s].change \in Changes
  BY <1>1, SaveTypes DEF IsOpen, SaveInv
<1>3. CASE saver' = [saver EXCEPT ![s] = NoSave(NoChange)]
  <2>1. ~ IsOpen(NoSave(NoChange)) /\ WritesOldItems(NoSave(NoChange), older[s])
    BY IdleSave DEF IsOpen, WritesOldItems
  <2>. QED
    BY <2>1, <1>1, <1>2, <1>3, IdleSave, ClosedStep
<1>4. CASE SaverTo(s, "read")
  <2>. DEFINE v == [saver[s] EXCEPT !.at = "read"]
  <2>1. v \in Saves /\ v.at = "read" /\ v.change = saver[s].change
    BY <1>t DEF Saves
  <2>2. saver' = [saver EXCEPT ![s] = v]
    BY <1>4 DEF SaverTo
  <2>. HIDE DEF v
  <2>3. ~ IsOpen(v)
    BY <2>1 DEF IsOpen
  <2>4. WritesOldItems(saver[s], older[s])
    BY DEF SaveInv, PagesInv
  <2>5. WritesOldItems(v, older[s])
    BY <2>1, <2>4, <1>1 DEF WritesOldItems
  <2>. QED
    BY <2>1, <2>2, <2>3, <2>5, <1>1, <1>2, ClosedStep
<1>. QED
  BY <1>3, <1>4 DEF AuditSave

\* The file is read: the save is open, alone or not.
LEMMA ReadFileStep ==
    ASSUME SaveInv, NEW s \in Savers, ReadFile(s)
    PROVE  SaveInv'
<1>t. /\ saver \in [Savers -> Saves] /\ saver[s] \in Saves /\ config \in Texts
      /\ config.says \in Sayings /\ config.syntax \in {"v1", "v2", "mixed"}
      /\ together \in BOOLEAN /\ SaveTypeOK
  BY SaveTypes DEF SaveInv
<1>. DEFINE change == saver[s].change
            ok == IF change.op = "convert" THEN DigestMatches(change) ELSE Exists(change)
            text == IF change.op = "convert" THEN [change.from EXCEPT !.syntax = "v2"]
                    ELSE Edited(change)
            v == [[saver[s] EXCEPT !.at = "doctor"] EXCEPT !.text = text]
<1>1. /\ saver[s].at = "read" /\ ~ IsOpen(saver[s])
      /\ UNCHANGED <<config, bak, intended, putBack, replaced, aborted, shown, older>>
  BY DEF ReadFile, IsOpen
<1>2. change \in Changes
  BY <1>1, SaveTypes DEF SaveInv
<1>3. CASE ~ ok
  <2>1. saver' = [saver EXCEPT ![s] = NoSave(NoChange)] /\ UNCHANGED together
    BY <1>3 DEF ReadFile
  <2>2. ~ IsOpen(NoSave(NoChange)) /\ WritesOldItems(NoSave(NoChange), older[s])
    BY IdleSave DEF IsOpen, WritesOldItems
  <2>. QED
    BY <2>1, <2>2, <1>1, IdleSave, ClosedStep
<1>4. CASE ok
  <2>1. saver' = [saver EXCEPT ![s].at = "doctor", ![s].text = text] /\ Opens(s)
    BY <1>4 DEF ReadFile
  <2>2. text \in Texts
    <3>1. CASE change.op = "convert"
      <4>1. change.from = config
        BY <1>4, <3>1 DEF DigestMatches
      <4>. QED
        BY <4>1, <3>1, <1>t DEF Texts
    <3>2. CASE change.op # "convert"
      <4>1. Applied(config.says, change) \in Sayings
        BY <1>2, <1>t, <3>2, ChangedSayings
      <4>2. text = Edited(change)
        BY <3>2
      <4>. HIDE DEF text, change
      <4>. QED
        BY <4>1, <4>2, <1>t DEF Edited, Texts
    <3>. QED
      BY <3>1, <3>2
  <2>3. /\ text.syntax # "mixed" =>
             text.says = IF change.op = "convert" THEN config.says ELSE Applied(config.says, change)
    <3>1. CASE change.op = "convert"
      <4>1. change.from = config
        BY <1>4, <3>1 DEF DigestMatches
      <4>. QED
        BY <4>1, <3>1, <1>t DEF Texts
    <3>2. CASE change.op # "convert"
      <4>1. text = Edited(change)
        BY <3>2
      <4>. HIDE DEF text, change
      <4>. QED
        BY <3>2, <4>1, <1>t DEF Edited, Texts
    <3>. QED
      BY <3>1, <3>2
  <2>. HIDE DEF text
  <2>4. saver' = [saver EXCEPT ![s] = v]
    BY <2>1, <1>t
  <2>5. v \in Saves /\ v.at = "doctor" /\ v.text = text /\ v.change = change
    <3>1. [saver[s] EXCEPT !.at = "doctor"] \in Saves
      BY <1>t DEF Saves
    <3>. QED
      BY <3>1, <2>2 DEF Saves
  <2>. HIDE DEF v, change
  <2>6. saver' \in [Savers -> Saves] /\ saver'[s] = v /\ \A t \in Savers : t # s => saver'[t] = saver[t]
    BY <2>4, <2>5, <1>t, OneSaveMoves
  <2>7. together' \in BOOLEAN /\ (together' = (together \/ \E t \in Savers \ {s} : IsOpen(saver[t])))
    BY <2>1 DEF Opens, InWindow, IsOpen
  <2>8. SaveTypeOK'
    BY <1>1, <1>2, <1>t, <2>2, <2>5, <2>6, <2>7 DEF SaveTypeOK, IsOpen
  <2>9. ASSUME ~ together'
        PROVE  OneAtATime(config, bak, saver', intended, putBack, replaced, aborted)
    <3>1. ~ together /\ \A t \in Savers : t # s => ~ IsOpen(saver[t])
      BY <2>7, <2>9, <1>t
    <3>2. OneAtATime(config, bak, saver, intended, putBack, replaced, aborted)
      BY <3>1 DEF SaveInv
    <3>3. \A t \in Savers : ~ IsOpen(saver[t])
      BY <3>1, <1>1
    <3>4. \/ replaced = NoText \/ aborted >= Generations
          \/ IsKept(bak, replaced, 1, aborted + 1)
      BY <3>2, <3>3 DEF OneAtATime, IsReplaceable
    <3>5. IsOpen(v) /\ SlotIsFree(config, bak, v) /\ TextIsCurrent(config, v)
      BY <2>3, <2>5 DEF IsOpen, SlotIsFree, TextIsCurrent
    <3>6. IsKept(bak, replaced, 1, aborted + 1) => IsKeptDuring(bak, replaced, aborted, v)
      BY <2>5 DEF IsKeptDuring
    <3>7. IsMeant(config, intended, putBack)
      BY <3>2 DEF OneAtATime
    <3>. QED
      BY <3>1, <3>4, <3>5, <3>6, <3>7, <2>4, <2>5, <1>t, LoneSaveMoves
  <2>10. PagesInv'
    <3>1. \A t \in Savers : PageIsOld(shown[t], config, older[t]) /\ WritesOldItems(saver[t], older[t])
      BY DEF SaveInv, PagesInv
    <3>2. WritesOldItems(v, older[s])
      BY <3>1, <2>5, <1>1 DEF WritesOldItems, change
    <3>. QED
      BY <3>1, <3>2, <2>6, <1>1 DEF PagesInv
  <2>. QED
    BY <2>8, <2>9, <2>7, <2>10, <1>1 DEF SaveInv
<1>. QED
  BY <1>3, <1>4

\* A lone save goes on: what the invariant asks of its step.
LEMMA LoneStep ==
    ASSUME SaveInv, NEW s \in Savers, NEW v \in Saves, IsOpen(saver[s]),
           IsOpen(v) => v.change \in Changes /\ v.text \in Texts,
           ~ IsOpen(v) => v.at = "idle",
           saver' = [saver EXCEPT ![s] = v],
           config' \in Texts, bak' \in [1..Generations -> Texts \cup {NoText, Torn}],
           intended' \in Sayings,
           replaced' \in Texts \cup {NoText}, aborted' \in Nat,
           shown' \in [Savers -> Texts \cup {NoText}], UNCHANGED together,
           older' \in [Savers -> [Profiles -> SUBSET Items]], putBack' \in [Profiles -> SUBSET Items],
           PagesInv' \/ (UNCHANGED <<config, shown, older>> /\ (v.at = "idle" \/ v.change = saver[s].change)),
           ~ together =>
              /\ TextIsCurrent(config', v) /\ SlotIsFree(config', bak', v) /\ IsMeant(config', intended', putBack')
              /\ \/ replaced' = NoText \/ aborted' >= Generations
                 \/ IsOpen(v) /\ IsKeptDuring(bak', replaced', aborted', v)
                 \/ ~ IsOpen(v) /\ IsKept(bak', replaced', 1, aborted' + 1)
    PROVE  SaveInv'
<1>t. saver \in [Savers -> Saves] /\ SaveTypeOK
  BY SaveTypes DEF SaveInv
<1>1. saver' \in [Savers -> Saves] /\ saver'[s] = v /\ \A t \in Savers : t # s => saver'[t] = saver[t]
  BY <1>t, OneSaveMoves
<1>2. \A t \in Savers : /\ saver'[t].at # "idle" => saver'[t].change \in Changes
                       /\ IsOpen(saver'[t]) => saver'[t].text \in Texts
  <2>1. \A t \in Savers : /\ saver[t].at # "idle" => saver[t].change \in Changes
                         /\ IsOpen(saver[t]) => saver[t].text \in Texts
    BY <1>t, SaveTypes
  <2>. QED
    BY <2>1, <1>1
<1>3. SaveTypeOK'
  BY <1>1, <1>2, <1>t DEF SaveTypeOK, IsOpen
<1>6. PagesInv'
  <2>1. CASE PagesInv'
    BY <2>1
  <2>2. CASE UNCHANGED <<config, shown, older>> /\ (v.at = "idle" \/ v.change = saver[s].change)
    <3>1. \A t \in Savers : PageIsOld(shown[t], config, older[t]) /\ WritesOldItems(saver[t], older[t])
      BY DEF SaveInv, PagesInv
    <3>2. WritesOldItems(v, older[s])
      BY <3>1, <2>2 DEF WritesOldItems, IsOpen
    <3>. QED
      BY <3>1, <3>2, <2>2, <1>1 DEF PagesInv
  <2>. QED
    BY <2>1, <2>2
<1>4. CASE together
  BY <1>3, <1>4, <1>6 DEF SaveInv
<1>5. CASE ~ together
  <2>1. \A t \in Savers : t # s => ~ IsOpen(saver[t])
    BY <1>5, LoneSaveFacts
  <2>2. OneAtATime(config', bak', saver', intended', putBack', replaced', aborted')
    BY <2>1, <1>5, <1>t, LoneSaveMoves
  <2>. QED
    BY <2>2, <1>3, <1>6 DEF SaveInv
<1>. QED
  BY <1>4, <1>5

\* What a save that goes on takes with it.
LEMMA SaveMovesTo ==
    ASSUME SaveInv, NEW s \in Savers, IsOpen(saver[s]),
           NEW at \in {"oldest", "shift", "copying", "replace"}
    PROVE  LET v == [saver[s] EXCEPT !.at = at]
           IN  /\ v \in Saves /\ v.at = at /\ v.change = saver[s].change /\ v.text = saver[s].text
               /\ v.gen = saver[s].gen /\ IsOpen(v) /\ v.change \in Changes /\ v.text \in Texts
               /\ \A g \in 0..Generations :
                    LET w == [[saver[s] EXCEPT !.at = at] EXCEPT !.gen = g]
                    IN  /\ w \in Saves /\ w.at = at /\ w.change = saver[s].change /\ w.text = saver[s].text
                        /\ w.gen = g /\ IsOpen(w) /\ w.change \in Changes /\ w.text \in Texts
<1>1. saver[s] \in Saves /\ saver[s].text \in Texts /\ saver[s].change \in Changes
  BY SaveTypes DEF SaveInv, IsOpen
<1>. DEFINE v == [saver[s] EXCEPT !.at = at]
<1>2. /\ v \in Saves /\ v.at = at /\ v.change = saver[s].change /\ v.text = saver[s].text
      /\ v.gen = saver[s].gen
  BY <1>1 DEF Saves
<1>. HIDE DEF v
<1>3. ASSUME NEW g \in 0..Generations
      PROVE  LET w == [v EXCEPT !.gen = g]
             IN  /\ w \in Saves /\ w.at = at /\ w.change = v.change /\ w.text = v.text
                 /\ w.gen = g
  BY <1>2 DEF Saves
<1>4. \A x : x.at = at => IsOpen(x)
  BY DEF IsOpen
<1>. QED
  BY <1>1, <1>2, <1>3, <1>4 DEF v

\* The types that a step of a rotation leaves alone.
LEMMA OtherTypes ==
    ASSUME SaveInv
    PROVE  /\ config \in Texts /\ bak \in [1..Generations -> Texts \cup {NoText, Torn}]
           /\ saver \in [Savers -> Saves]
           /\ intended \in Sayings /\ putBack \in [Profiles -> SUBSET Items]
           /\ older \in [Savers -> [Profiles -> SUBSET Items]] /\ replaced \in Texts \cup {NoText}
           /\ aborted \in Nat /\ shown \in [Savers -> Texts \cup {NoText}] /\ together \in BOOLEAN
           /\ Generations \in Nat /\ Generations >= 1
  BY SaveTypes DEF SaveInv, SaveTypeOK

\* A save that ends without having replaced the file.
LEMMA GivesUp ==
    /\ NoSave(NoChange) \in Saves /\ NoSave(NoChange).at = "idle" /\ ~ IsOpen(NoSave(NoChange))
    /\ TextIsCurrent(config, NoSave(NoChange)) /\ SlotIsFree(config, bak, NoSave(NoChange))
  BY IdleSave DEF IsOpen, TextIsCurrent, SlotIsFree

\* The doctor passes the text, which then is of one syntax, or the save ends.
LEMMA DoctorStep ==
    ASSUME SaveInv, NEW s \in Savers, Doctor(s)
    PROVE  SaveInv'
<1>1. /\ saver[s].at = "doctor" /\ IsOpen(saver[s])
      /\ UNCHANGED <<config, bak, intended, putBack, replaced, aborted, shown, older, together>>
  BY DEF Doctor, IsOpen
<1>2. ~ together =>
         /\ TextIsCurrent(config, saver[s]) /\ IsMeant(config, intended, putBack)
         /\ \/ replaced = NoText \/ aborted >= Generations
            \/ IsKept(bak, replaced, 1, aborted + 1)
  BY <1>1, LoneSaveFacts DEF IsKeptDuring
<1>3. CASE saver' = [saver EXCEPT ![s] = NoSave(NoChange)]
  BY <1>1, <1>2, <1>3, OtherTypes, GivesUp, LoneStep
<1>4. CASE saver[s].text.syntax # "mixed" /\ SaverTo(s, "oldest")
  <2>. DEFINE v == [saver[s] EXCEPT !.at = "oldest"]
  <2>1. /\ v \in Saves /\ v.at = "oldest" /\ v.change = saver[s].change /\ v.text = saver[s].text
        /\ IsOpen(v) /\ v.change \in Changes /\ v.text \in Texts
    BY <1>1, SaveMovesTo
  <2>2. saver' = [saver EXCEPT ![s] = v]
    BY <1>4 DEF SaverTo
  <2>. HIDE DEF v
  <2>3. ~ together => TextIsCurrent(config, v) /\ SlotIsFree(config, bak, v)
    BY <1>1, <1>2, <1>4, <2>1 DEF TextIsCurrent, SlotIsFree
  <2>4. IsKept(bak, replaced, 1, aborted + 1) => IsKeptDuring(bak, replaced, aborted, v)
    BY <2>1 DEF IsKeptDuring
  <2>. QED
    BY <1>1, <1>2, <2>1, <2>2, <2>3, <2>4, OtherTypes, LoneStep
<1>. QED
  BY <1>3, <1>4 DEF Doctor

\* The oldest generation goes: it was the replaced version, or that is below.
LEMMA RemoveOldestStep ==
    ASSUME SaveInv, NEW s \in Savers, RemoveOldest(s)
    PROVE  SaveInv'
<1>t. /\ config \in Texts /\ bak \in [1..Generations -> Texts \cup {NoText, Torn}]
      /\ saver \in [Savers -> Saves] /\ aborted \in Nat /\ Generations \in Nat /\ Generations >= 1
  BY OtherTypes
<1>1. /\ saver[s].at = "oldest" /\ IsOpen(saver[s])
      /\ bak' = [bak EXCEPT ![Generations] = NoText]
      /\ saver' = [saver EXCEPT ![s].at = "shift", ![s].gen = TopShifted]
      /\ UNCHANGED <<config, intended, putBack, replaced, aborted, shown, older, together>>
  BY DEF RemoveOldest, IsOpen
<1>. DEFINE v == [[saver[s] EXCEPT !.at = "shift"] EXCEPT !.gen = Generations - 1]
<1>2. /\ v \in Saves /\ v.at = "shift" /\ v.change = saver[s].change /\ v.text = saver[s].text
      /\ v.gen = Generations - 1 /\ IsOpen(v) /\ v.change \in Changes /\ v.text \in Texts
  <2>1. Generations - 1 \in 0..Generations
    BY <1>t
  <2>. QED
    BY <2>1, <1>1, SaveMovesTo
<1>3. saver' = [saver EXCEPT ![s] = v]
  BY <1>1, <1>t DEF TopShifted
<1>. HIDE DEF v
<1>4. /\ bak' \in [1..Generations -> Texts \cup {NoText, Torn}] /\ bak'[Generations] = NoText
      /\ \A g \in 1..Generations : g # Generations => bak'[g] = bak[g]
  BY <1>1, <1>t
<1>5. ~ together =>
         /\ TextIsCurrent(config, saver[s]) /\ IsMeant(config, intended, putBack)
         /\ \/ replaced = NoText \/ aborted >= Generations
            \/ IsKept(bak, replaced, 1, aborted + 1)
  BY <1>1, LoneSaveFacts DEF IsKeptDuring
<1>6. ~ together => TextIsCurrent(config, v)
  BY <1>1, <1>2, <1>5 DEF TextIsCurrent
<1>7. SlotIsFree(config, bak', v)
  BY <1>2, <1>4, <1>t DEF SlotIsFree
<1>8. IsKept(bak, replaced, 1, aborted + 1) => IsKeptDuring(bak', replaced, aborted, v)
  BY <1>2, <1>4, <1>t DEF IsKept, IsKeptDuring
<1>. QED
  BY <1>1, <1>2, <1>3, <1>4, <1>5, <1>6, <1>7, <1>8, OtherTypes, LoneStep

\* A generation moves up into the free place above it.
LEMMA ShiftStep ==
    ASSUME SaveInv, NEW s \in Savers, Shift(s)
    PROVE  SaveInv'
<1>t. /\ config \in Texts /\ bak \in [1..Generations -> Texts \cup {NoText, Torn}]
      /\ saver \in [Savers -> Saves] /\ aborted \in Nat /\ Generations \in Nat /\ Generations >= 1
      /\ saver[s].gen \in 0..Generations
  BY OtherTypes, SaveFacts
<1>. DEFINE g == saver[s].gen
            v == [saver[s] EXCEPT !.gen = g - 1]
<1>1. /\ saver[s].at = "shift" /\ g > 0 /\ IsOpen(saver[s])
      /\ bak' = IF bak[g] = NoText THEN bak ELSE [bak EXCEPT ![g + 1] = bak[g], ![g] = NoText]
      /\ saver' = [saver EXCEPT ![s].gen = g - 1]
      /\ UNCHANGED <<config, intended, putBack, replaced, aborted, shown, older, together>>
  BY DEF Shift, IsOpen
<1>2. /\ v \in Saves /\ v.at = "shift" /\ v.change = saver[s].change /\ v.text = saver[s].text
      /\ v.gen = g - 1 /\ IsOpen(v) /\ v.change \in Changes /\ v.text \in Texts
  <2>1. g - 1 \in 0..Generations
    BY <1>1, <1>t
  <2>2. saver[s] \in Saves /\ saver[s].text \in Texts /\ saver[s].change \in Changes
    BY <1>1, SaveTypes DEF SaveInv, IsOpen
  <2>3. /\ v \in Saves /\ v.at = saver[s].at /\ v.change = saver[s].change /\ v.text = saver[s].text
        /\ v.gen = g - 1
    BY <2>1, <2>2 DEF Saves
  <2>. HIDE DEF v
  <2>. QED
    BY <2>2, <2>3, <1>1 DEF IsOpen
<1>3. saver' = [saver EXCEPT ![s] = v]
  BY <1>1, <1>t
<1>. HIDE DEF v
<1>4. g \in 1..Generations
  BY <1>1, <1>t
<1>5. /\ bak' \in [1..Generations -> Texts \cup {NoText, Torn}]
      /\ bak'[g] = NoText
      /\ \A k \in 1..Generations : k \notin {g, g + 1} => bak'[k] = bak[k]
      /\ g + 1 \in 1..Generations => bak'[g + 1] = IF bak[g] = NoText THEN bak[g + 1] ELSE bak[g]
  BY <1>1, <1>4, <1>t
<1>6. ~ together =>
         /\ TextIsCurrent(config, saver[s]) /\ IsMeant(config, intended, putBack)
         /\ g + 1 \in 1..Generations /\ bak[g + 1] = NoText
         /\ \/ replaced = NoText \/ aborted >= Generations \/ aborted + 1 >= Generations
            \/ IsKept(bak, replaced, 1, aborted + 1) \/ IsKept(bak, replaced, g + 1, aborted + 2)
  BY <1>1, LoneSaveFacts DEF IsKeptDuring, SlotIsFree
<1>. HIDE DEF g
<1>7. ~ together => TextIsCurrent(config, v)
  BY <1>1, <1>2, <1>6 DEF TextIsCurrent
<1>8. SlotIsFree(config, bak', v)
  BY <1>2, <1>4, <1>5 DEF SlotIsFree
<1>9. ASSUME ~ together, replaced # NoText, ~ (aborted + 1 >= Generations), ~ (aborted >= Generations)
      PROVE  IsKept(bak', replaced, 1, aborted + 1) \/ IsKept(bak', replaced, g, aborted + 2)
  <2>1. PICK k \in 1..Generations :
          /\ bak[k] = replaced
          /\ k <= aborted + 1 \/ (g + 1 <= k /\ k <= aborted + 2)
    BY <1>6, <1>9 DEF IsKept
  <2>2. CASE k = g
    <3>1. bak'[g + 1] = replaced /\ g + 1 \in 1..Generations
      BY <2>1, <2>2, <1>5, <1>6, <1>9
    <3>2. g <= g + 1 /\ g + 1 <= aborted + 2
      BY <2>1, <2>2, <1>4, <1>t
    <3>. QED
      BY <3>1, <3>2 DEF IsKept
  <2>3. CASE k # g
    <3>1. k # g + 1
      BY <2>1, <1>6, <1>9
    <3>2. bak'[k] = replaced
      BY <2>1, <2>3, <3>1, <1>5
    <3>3. k <= aborted + 1 \/ (g <= k /\ k <= aborted + 2)
      BY <2>1, <1>4, <1>t
    <3>. QED
      BY <3>2, <3>3, <1>t DEF IsKept
  <2>. QED
    BY <2>2, <2>3
<1>10. ~ together => \/ replaced = NoText \/ aborted >= Generations
                     \/ IsKeptDuring(bak', replaced, aborted, v)
  <2>1. v.gen + 1 = g
    BY <1>2, <1>4
  <2>. QED
    BY <1>2, <1>9, <2>1 DEF IsKeptDuring
<1>. QED
  BY <1>1, <1>2, <1>3, <1>5, <1>6, <1>7, <1>8, <1>10, OtherTypes, LoneStep

\* The copy begins in the first place, which is free.
LEMMA BeginBackupStep ==
    ASSUME SaveInv, NEW s \in Savers, BeginBackup(s)
    PROVE  SaveInv'
<1>t. /\ config \in Texts /\ bak \in [1..Generations -> Texts \cup {NoText, Torn}]
      /\ aborted \in Nat /\ Generations \in Nat /\ Generations >= 1
  BY OtherTypes
<1>1. /\ saver[s].at = "shift" /\ saver[s].gen = 0 /\ IsOpen(saver[s])
      /\ bak' = [bak EXCEPT ![1] = Torn] /\ SaverTo(s, "copying")
      /\ UNCHANGED <<config, intended, putBack, replaced, aborted, shown, older, together>>
  BY DEF BeginBackup, IsOpen
<1>. DEFINE v == [saver[s] EXCEPT !.at = "copying"]
<1>2. /\ v \in Saves /\ v.at = "copying" /\ v.change = saver[s].change /\ v.text = saver[s].text
      /\ IsOpen(v) /\ v.change \in Changes /\ v.text \in Texts
  BY <1>1, SaveMovesTo
<1>3. saver' = [saver EXCEPT ![s] = v]
  BY <1>1 DEF SaverTo
<1>. HIDE DEF v
<1>4. /\ bak' \in [1..Generations -> Texts \cup {NoText, Torn}] /\ bak'[1] = Torn
      /\ \A g \in 1..Generations : g # 1 => bak'[g] = bak[g]
  BY <1>1, <1>t
<1>5. ~ together =>
         /\ TextIsCurrent(config, saver[s]) /\ IsMeant(config, intended, putBack) /\ bak[1] = NoText
         /\ \/ replaced = NoText \/ aborted >= Generations \/ aborted + 1 >= Generations
            \/ IsKept(bak, replaced, 1, aborted + 1) \/ IsKept(bak, replaced, 1, aborted + 2)
  BY <1>1, LoneSaveFacts DEF IsKeptDuring, SlotIsFree
<1>6. (~ together => TextIsCurrent(config, v)) /\ SlotIsFree(config, bak', v)
  BY <1>1, <1>2, <1>4, <1>5 DEF TextIsCurrent, SlotIsFree
<1>7. ASSUME ~ together, replaced # NoText,
             IsKept(bak, replaced, 1, aborted + 1) \/ IsKept(bak, replaced, 1, aborted + 2)
      PROVE  IsKept(bak', replaced, 2, aborted + 2)
  <2>1. PICK k \in 1..Generations : bak[k] = replaced /\ k <= aborted + 2
    BY <1>7, <1>t DEF IsKept
  <2>2. k # 1
    BY <2>1, <1>5, <1>7
  <2>. QED
    BY <2>1, <2>2, <1>4, <1>t DEF IsKept
<1>8. ~ together => \/ replaced = NoText \/ aborted >= Generations
                    \/ IsKeptDuring(bak', replaced, aborted, v)
  BY <1>2, <1>5, <1>7 DEF IsKeptDuring
<1>. QED
  BY <1>1, <1>2, <1>3, <1>4, <1>5, <1>6, <1>8, OtherTypes, LoneStep

\* The copy is whole.
LEMMA EndBackupStep ==
    ASSUME SaveInv, NEW s \in Savers, EndBackup(s)
    PROVE  SaveInv'
<1>t. /\ config \in Texts /\ bak \in [1..Generations -> Texts \cup {NoText, Torn}]
      /\ aborted \in Nat /\ Generations \in Nat /\ Generations >= 1
  BY OtherTypes
<1>1. /\ saver[s].at = "copying" /\ IsOpen(saver[s])
      /\ bak' = [bak EXCEPT ![1] = config] /\ SaverTo(s, "replace")
      /\ UNCHANGED <<config, intended, putBack, replaced, aborted, shown, older, together>>
  BY DEF EndBackup, IsOpen
<1>. DEFINE v == [saver[s] EXCEPT !.at = "replace"]
<1>2. /\ v \in Saves /\ v.at = "replace" /\ v.change = saver[s].change /\ v.text = saver[s].text
      /\ IsOpen(v) /\ v.change \in Changes /\ v.text \in Texts
  BY <1>1, SaveMovesTo
<1>3. saver' = [saver EXCEPT ![s] = v]
  BY <1>1 DEF SaverTo
<1>. HIDE DEF v
<1>4. /\ bak' \in [1..Generations -> Texts \cup {NoText, Torn}] /\ bak'[1] = config
      /\ \A g \in 1..Generations : g # 1 => bak'[g] = bak[g]
  BY <1>1, <1>t
<1>5. ~ together =>
         /\ TextIsCurrent(config, saver[s]) /\ IsMeant(config, intended, putBack)
         /\ \/ replaced = NoText \/ aborted >= Generations \/ aborted + 1 >= Generations
            \/ IsKept(bak, replaced, 2, aborted + 2)
  BY <1>1, LoneSaveFacts DEF IsKeptDuring
<1>6. (~ together => TextIsCurrent(config, v)) /\ SlotIsFree(config, bak', v)
  BY <1>1, <1>2, <1>4, <1>5 DEF TextIsCurrent, SlotIsFree
<1>7. IsKept(bak, replaced, 2, aborted + 2) => IsKept(bak', replaced, 2, aborted + 2)
  BY <1>4, <1>t DEF IsKept
<1>8. ~ together => \/ replaced = NoText \/ aborted >= Generations
                    \/ IsKeptDuring(bak', replaced, aborted, v)
  BY <1>2, <1>5, <1>7 DEF IsKeptDuring
<1>. QED
  BY <1>1, <1>2, <1>3, <1>4, <1>5, <1>6, <1>8, OtherTypes, LoneStep

\* The file is replaced by its change; what it was is in the first generation.
LEMMA ReplaceFileStep ==
    ASSUME SaveInv, NEW s \in Savers, ReplaceFile(s)
    PROVE  SaveInv'
<1>t. /\ config \in Texts /\ bak \in [1..Generations -> Texts \cup {NoText, Torn}]
      /\ intended \in Sayings /\ putBack \in [Profiles -> SUBSET Items]
      /\ shown \in [Savers -> Texts \cup {NoText}] /\ older \in [Savers -> [Profiles -> SUBSET Items]]
      /\ Generations \in Nat /\ Generations >= 1
  BY OtherTypes
<1>. DEFINE c == saver[s].change
            x == saver[s].text
<1>1. /\ saver[s].at = "replace" /\ IsOpen(saver[s])
      /\ config' = x
      /\ IF c.op = "convert" THEN UNCHANGED <<intended, putBack>>
         ELSE /\ intended' = MeantValues(intended, c)
              /\ putBack' = [putBack EXCEPT ![c.profile] =
                                 (@ \ Meant(c)) \cup (NotMeant(c) \cap older[s][c.profile])]
      /\ replaced' = config /\ aborted' = 0
      /\ shown' = IF s \in Terminal THEN [shown EXCEPT ![s] = x] ELSE shown
      /\ older' = [t \in Savers |-> [p \in Profiles |->
                      IF t = s /\ s \in Terminal THEN {} ELSE older[t][p] \cup Differing(x, config, p)]]
      /\ saver' = [saver EXCEPT ![s] = NoSave(NoChange)]
      /\ UNCHANGED <<bak, together>>
  BY DEF ReplaceFile, IsOpen
<1>2. x \in Texts /\ c \in Changes
  BY <1>1, SaveTypes DEF SaveInv, IsOpen
<1>w. WritesOldItems(saver[s], older[s])
  BY DEF SaveInv, PagesInv
<1>v. c.op # "convert" => NotMeant(c) \subseteq older[s][c.profile]
  BY <1>1, <1>w DEF WritesOldItems
<1>5. ~ together => /\ TextIsCurrent(config, saver[s]) /\ IsMeant(config, intended, putBack)
                    /\ bak[1] = config
  BY <1>1, LoneSaveFacts DEF SlotIsFree
<1>u. TextIsCurrent(config, saver[s]) =>
         x.says = IF c.op = "convert" THEN config.says ELSE Applied(config.says, c)
  BY <1>1 DEF TextIsCurrent
<1>. HIDE DEF c, x
<1>m. c.op # "convert" =>
         /\ c.profile \in Profiles
         /\ intended' \in Sayings /\ putBack' \in [Profiles -> SUBSET Items]
         /\ \A p \in Profiles : p # c.profile => putBack'[p] = putBack[p]
         /\ putBack'[c.profile] = (putBack[c.profile] \ Meant(c)) \cup (NotMeant(c) \cap older[s][c.profile])
  <2>. SUFFICES ASSUME c.op # "convert"
                PROVE  /\ c.profile \in Profiles
                       /\ intended' \in Sayings /\ putBack' \in [Profiles -> SUBSET Items]
                       /\ \A p \in Profiles : p # c.profile => putBack'[p] = putBack[p]
                       /\ putBack'[c.profile] =
                             (putBack[c.profile] \ Meant(c)) \cup (NotMeant(c) \cap older[s][c.profile])
    OBVIOUS
  <2>. DEFINE back == (putBack[c.profile] \ Meant(c)) \cup (NotMeant(c) \cap older[s][c.profile])
  <2>1. c.profile \in Profiles /\ MeantValues(intended, c) \in Sayings
    BY <1>2, <1>t, ChangedSayings
  <2>2. back \in SUBSET Items
    BY <2>1, <1>t DEF NotMeant
  <2>3. intended' = MeantValues(intended, c) /\ putBack' = [putBack EXCEPT ![c.profile] = back]
    BY <1>1, <1>t, <2>1
  <2>. HIDE DEF back
  <2>4. putBack' \in [Profiles -> SUBSET Items] /\ putBack'[c.profile] = back
        /\ \A p \in Profiles : p # c.profile => putBack'[p] = putBack[p]
    BY <2>1, <2>2, <2>3, <1>t
  <2>. QED
    BY <2>1, <2>3, <2>4 DEF back
<1>3. intended' \in Sayings /\ putBack' \in [Profiles -> SUBSET Items]
  <2>1. CASE c.op = "convert"
    BY <2>1, <1>1, <1>t
  <2>2. CASE c.op # "convert"
    BY <2>2, <1>m
  <2>. QED
    BY <2>1, <2>2
<1>4. /\ shown' \in [Savers -> Texts \cup {NoText}]
      /\ \A t \in Savers : shown'[t] = IF t = s /\ s \in Terminal THEN x ELSE shown[t]
  BY <1>1, <1>2, <1>t
<1>o. /\ older' \in [Savers -> [Profiles -> SUBSET Items]]
      /\ \A t \in Savers, p \in Profiles :
            older'[t][p] = IF t = s /\ s \in Terminal THEN {} ELSE older[t][p] \cup Differing(x, config, p)
  <2>1. \A p \in Profiles : Differing(x, config, p) \in SUBSET Items
    BY DEF Differing
  <2>2. \A t \in Savers : older[t] \in [Profiles -> SUBSET Items]
    BY <1>t
  <2>. QED
    BY <1>1, <2>1, <2>2
<1>p. PagesInv'
  <2>. SUFFICES ASSUME NEW t \in Savers
                PROVE  PageIsOld(shown'[t], config', older'[t]) /\ WritesOldItems(saver'[t], older'[t])
    BY DEF PagesInv
  <2>1. PageIsOld(shown[t], config, older[t]) /\ WritesOldItems(saver[t], older[t])
    BY DEF SaveInv, PagesInv
  <2>2. PageIsOld(shown'[t], config', older'[t])
    <3>1. CASE t = s /\ s \in Terminal
      BY <3>1, <1>1, <1>4 DEF PageIsOld
    <3>2. CASE ~ (t = s /\ s \in Terminal)
      BY <2>1, <3>2, <1>1, <1>4, <1>o DEF PageIsOld, Differing
    <3>. QED
      BY <3>1, <3>2
  <2>3. WritesOldItems(saver'[t], older'[t])
    <3>1. saver \in [Savers -> Saves]
      BY SaveTypes DEF SaveInv
    <3>2. CASE t = s
      BY <3>1, <3>2, <1>1, IdleSave DEF WritesOldItems
    <3>3. CASE t # s
      <4>1. saver'[t] = saver[t]
        BY <3>1, <3>3, <1>1
      <4>2. CASE saver[t].at # "idle" /\ saver[t].change.op # "convert"
        <5>1. saver[t].change.profile \in Profiles
          BY <4>2, SaveTypes DEF SaveInv, Changes
        <5>2. older[t][saver[t].change.profile] \subseteq older'[t][saver[t].change.profile]
          BY <5>1, <3>3, <1>o
        <5>. QED
          BY <4>1, <4>2, <5>2, <2>1 DEF WritesOldItems
      <4>. QED
        BY <4>1, <4>2 DEF WritesOldItems
    <3>. QED
      BY <3>2, <3>3
  <2>. QED
    BY <2>2, <2>3
<1>6. ~ together => IsMeant(config', intended', putBack')
  <2>. SUFFICES ASSUME ~ together, NEW p \in Profiles, NEW k \in Items,
                       config'.says[p][k] # intended'[p][k]
                PROVE  k \in putBack'[p]
    BY DEF IsMeant
  <2>0. config.says[p][k] # intended[p][k] => k \in putBack[p]
    BY <1>5 DEF IsMeant
  <2>1. CASE c.op = "convert"
    BY <2>0, <2>1, <1>1, <1>5, <1>u
  <2>2. CASE c.op # "convert"
    <3>1. config'.says = Applied(config.says, c) /\ intended' = MeantValues(intended, c)
      BY <2>2, <1>1, <1>5, <1>u
    <3>2. /\ config'.says[p][k] = IF p = c.profile /\ c.to[k] # Keep THEN c.to[k] ELSE config.says[p][k]
          /\ intended'[p][k] = IF p = c.profile /\ k \in Meant(c) THEN c.to[k] ELSE intended[p][k]
      <4>1. config.says \in Sayings
        BY SaveTypes DEF SaveInv
      <4>. QED
        BY <4>1, <3>1, <2>2, <1>2, <1>t, ChangedSayings
    <3>3. CASE p = c.profile
      <4>1. c.to[k] # Keep => k \in Meant(c) \/ k \in NotMeant(c)
        BY DEF Meant, NotMeant
      <4>2. k \in Meant(c) => c.to[k] # Keep
        BY DEF Meant
      <4>3. k \in NotMeant(c) => k \in older[s][p]
        BY <3>3, <2>2, <1>v
      <4>. QED
        BY <4>1, <4>2, <4>3, <3>2, <3>3, <2>0, <2>2, <1>m
    <3>4. CASE p # c.profile
      BY <3>2, <3>4, <2>0, <2>2, <1>m
    <3>. QED
      BY <3>3, <3>4
  <2>. QED
    BY <2>1, <2>2
<1>7. ~ together => IsKept(bak', replaced', 1, aborted' + 1)
  <2>1. 1 \in 1..Generations
    BY <1>t
  <2>2. 1 <= 1 /\ 1 <= 0 + 1
    OBVIOUS
  <2>. QED
    BY <2>1, <2>2, <1>1, <1>5 DEF IsKept
<1>8. /\ NoSave(NoChange) \in Saves /\ NoSave(NoChange).at = "idle" /\ ~ IsOpen(NoSave(NoChange))
      /\ TextIsCurrent(config', NoSave(NoChange)) /\ SlotIsFree(config', bak', NoSave(NoChange))
  BY IdleSave DEF IsOpen, TextIsCurrent, SlotIsFree
<1>9. /\ config' \in Texts /\ bak' \in [1..Generations -> Texts \cup {NoText, Torn}]
      /\ replaced' \in Texts \cup {NoText} /\ aborted' \in Nat
  BY <1>1, <1>2, <1>t
<1>. QED
  BY <1>1, <1>3, <1>4, <1>6, <1>7, <1>8, <1>9, <1>o, <1>p, LoneStep

\* A rotation comes to nothing: what it moved is one place further up.
LEMMA SaveFailsStep ==
    ASSUME SaveInv, NEW s \in Savers, SaveFails(s)
    PROVE  SaveInv'
<1>t. aborted \in Nat /\ Generations \in Nat
  BY OtherTypes
<1>1. /\ saver[s].at \in {"oldest", "shift", "copying", "replace"} /\ IsOpen(saver[s])
      /\ aborted' = aborted + 1
      /\ saver' = [saver EXCEPT ![s] = NoSave(NoChange)]
      /\ UNCHANGED <<config, bak, shown, older, intended, putBack, replaced, together>>
  BY DEF SaveFails, IsOpen
<1>2. ~ together =>
         /\ IsMeant(config, intended, putBack)
         /\ replaced = NoText \/ aborted >= Generations \/ IsKeptDuring(bak, replaced, aborted, saver[s])
  BY <1>1, LoneSaveFacts
<1>3. saver[s].gen \in Nat
  BY OtherTypes, SaveFacts
<1>4. \A low, high \in Nat :
         IsKept(bak, replaced, low, high) /\ high <= aborted + 2 => IsKept(bak, replaced, 1, aborted' + 1)
  BY <1>1, <1>t DEF IsKept
<1>5. ~ together => \/ replaced' = NoText \/ aborted' >= Generations
                    \/ IsKept(bak', replaced', 1, aborted' + 1)
  <2>1. IsKeptDuring(bak, replaced, aborted, saver[s]) =>
           \/ aborted + 1 >= Generations
           \/ IsKept(bak, replaced, 1, aborted + 1) \/ IsKept(bak, replaced, saver[s].gen + 1, aborted + 2)
           \/ IsKept(bak, replaced, 2, aborted + 2)
    BY <1>1 DEF IsKeptDuring
  <2>2. /\ IsKept(bak, replaced, 1, aborted + 1) => IsKept(bak, replaced, 1, aborted' + 1)
        /\ IsKept(bak, replaced, saver[s].gen + 1, aborted + 2) => IsKept(bak, replaced, 1, aborted' + 1)
        /\ IsKept(bak, replaced, 2, aborted + 2) => IsKept(bak, replaced, 1, aborted' + 1)
    BY <1>3, <1>4, <1>t
  <2>. QED
    BY <2>1, <2>2, <1>1, <1>2, <1>t
<1>6. aborted' \in Nat
  BY <1>1, <1>t
<1>7. /\ TextIsCurrent(config', NoSave(NoChange)) /\ SlotIsFree(config', bak', NoSave(NoChange))
      /\ (~ together => IsMeant(config', intended', putBack'))
  BY <1>1, <1>2, GivesUp
<1>8. /\ config' \in Texts /\ bak' \in [1..Generations -> Texts \cup {NoText, Torn}]
      /\ intended' \in Sayings
      /\ replaced' \in Texts \cup {NoText} /\ shown' \in [Savers -> Texts \cup {NoText}]
      /\ older' \in [Savers -> [Profiles -> SUBSET Items]] /\ putBack' \in [Profiles -> SUBSET Items]
  BY <1>1, OtherTypes
<1>. QED
  BY <1>1, <1>5, <1>6, <1>7, <1>8, GivesUp, LoneStep

\* Somebody else's editor replaces the file: under a save, or between saves.
LEMMA HandEditStep ==
    ASSUME SaveInv, NEW p \in Profiles, NEW k \in Keys, NEW v \in Settings \cup {Missing}, HandEdit(p, k, v)
    PROVE  SaveInv'
<1>t. /\ config \in Texts /\ config.says \in Sayings /\ older \in [Savers -> [Profiles -> SUBSET Items]]
      /\ intended \in Sayings /\ putBack \in [Profiles -> SUBSET Items] /\ together \in BOOLEAN
      /\ SaveTypeOK
  BY OtherTypes, SaveTypes DEF SaveInv
<1>k. k \in Items /\ v \in Sayable
  BY DEF Items, Sayable
<1>. DEFINE said == [config.says EXCEPT ![p][k] = v]
            meant == [intended EXCEPT ![p][k] = v]
<1>1. /\ config' = [config EXCEPT !.says = said] /\ intended' = meant
      /\ putBack' = [putBack EXCEPT ![p] = putBack[p] \ {k}]
      /\ older' = [t \in Savers |-> [older[t] EXCEPT ![p] = older[t][p] \cup {k}]]
      /\ together' = (together \/ \E s \in Savers : IsOpen(saver[s]))
      /\ UNCHANGED <<bak, saver, shown, replaced, aborted>>
  <2>1. HandEdit(p, k, v)
    OBVIOUS
  <2>. QED
    BY <2>1, <1>t DEF HandEdit, InWindow, IsOpen
<1>s. ASSUME NEW S \in Sayings
      PROVE  /\ [S EXCEPT ![p][k] = v] \in Sayings
             /\ \A q \in Profiles, i \in Items :
                   [S EXCEPT ![p][k] = v][q][i] = IF q = p /\ i = k THEN v ELSE S[q][i]
  <2>. DEFINE row == [S[p] EXCEPT ![k] = v]
  <2>1. S[p] \in [Items -> Sayable]
    BY DEF Sayings
  <2>2. row \in [Items -> Sayable] /\ \A i \in Items : row[i] = IF i = k THEN v ELSE S[p][i]
    BY <2>1, <1>k
  <2>3. [S EXCEPT ![p][k] = v] = [S EXCEPT ![p] = row]
    OBVIOUS
  <2>. HIDE DEF row
  <2>4. [S EXCEPT ![p] = row] \in Sayings /\ \A q \in Profiles : [S EXCEPT ![p] = row][q] = IF q = p THEN row ELSE S[q]
    BY <2>2 DEF Sayings
  <2>. QED
    BY <2>2, <2>3, <2>4
<1>m. /\ said \in Sayings /\ meant \in Sayings
      /\ \A q \in Profiles, i \in Items : /\ said[q][i] = IF q = p /\ i = k THEN v ELSE config.says[q][i]
                                         /\ meant[q][i] = IF q = p /\ i = k THEN v ELSE intended[q][i]
  <2>1. config.says \in Sayings /\ intended \in Sayings
    BY <1>t, SaveTypes DEF Texts
  <2>2. /\ said \in Sayings
        /\ \A q \in Profiles, i \in Items : said[q][i] = IF q = p /\ i = k THEN v ELSE config.says[q][i]
    BY <1>s, <2>1
  <2>3. /\ meant \in Sayings
        /\ \A q \in Profiles, i \in Items : meant[q][i] = IF q = p /\ i = k THEN v ELSE intended[q][i]
    BY <1>s, <2>1
  <2>. HIDE DEF said, meant
  <2>. QED
    BY <2>2, <2>3
<1>. HIDE DEF said, meant
<1>2. config' \in Texts /\ config'.says = said
  <2>1. [config EXCEPT !.says = said] \in Texts /\ [config EXCEPT !.says = said].says = said
    BY <1>m, <1>t DEF Texts
  <2>. QED
    BY <2>1, <1>1
<1>3. intended' \in Sayings
  BY <1>1, <1>m
<1>4. together' \in BOOLEAN
  BY <1>1, <1>t
<1>b. /\ putBack' \in [Profiles -> SUBSET Items]
      /\ \A q \in Profiles, i \in Items : i \in putBack[q] /\ ~ (q = p /\ i = k) => i \in putBack'[q]
  BY <1>1, <1>t
<1>o. /\ older' \in [Savers -> [Profiles -> SUBSET Items]]
      /\ \A t \in Savers, q \in Profiles : older[t][q] \subseteq older'[t][q]
      /\ \A t \in Savers : k \in older'[t][p]
  <2>1. ASSUME NEW t \in Savers
        PROVE  LET o == [older[t] EXCEPT ![p] = older[t][p] \cup {k}]
               IN  /\ o \in [Profiles -> SUBSET Items] /\ k \in o[p]
                   /\ \A q \in Profiles : older[t][q] \subseteq o[q]
    <3>1. older[t] \in [Profiles -> SUBSET Items]
      BY <1>t
    <3>. QED
      BY <3>1, <1>k
  <2>2. \A t \in Savers : older'[t] = [older[t] EXCEPT ![p] = older[t][p] \cup {k}]
    BY <1>1
  <2>3. older' = [t \in Savers |-> older'[t]]
    BY <1>1
  <2>. QED
    BY <2>1, <2>2, <2>3
<1>5. SaveTypeOK'
  BY <1>1, <1>2, <1>3, <1>4, <1>b, <1>o, <1>t DEF SaveTypeOK
<1>p. PagesInv'
  <2>. SUFFICES ASSUME NEW t \in Savers
                PROVE  PageIsOld(shown[t], config', older'[t]) /\ WritesOldItems(saver[t], older'[t])
    BY <1>1 DEF PagesInv
  <2>1. PageIsOld(shown[t], config, older[t]) /\ WritesOldItems(saver[t], older[t])
    BY DEF SaveInv, PagesInv
  <2>2. PageIsOld(shown[t], config', older'[t])
    BY <2>1, <1>2, <1>m, <1>o DEF PageIsOld
  <2>3. CASE saver[t].at # "idle" /\ saver[t].change.op # "convert"
    <3>1. saver[t].change.profile \in Profiles
      BY <2>3, <1>t, SaveTypes DEF Changes
    <3>2. older[t][saver[t].change.profile] \subseteq older'[t][saver[t].change.profile]
      BY <3>1, <1>o
    <3>. QED
      BY <2>1, <2>2, <2>3, <3>2 DEF WritesOldItems
  <2>. QED
    BY <2>2, <2>3 DEF WritesOldItems
<1>6. ASSUME ~ together'
      PROVE  OneAtATime(config', bak, saver, intended', putBack', replaced, aborted)
  <2>1. ~ together /\ \A s \in Savers : ~ IsOpen(saver[s])
    BY <1>1, <1>6, <1>t
  <2>2. OneAtATime(config, bak, saver, intended, putBack, replaced, aborted)
    BY <2>1 DEF SaveInv
  <2>3. \A s \in Savers : TextIsCurrent(config', saver[s]) /\ SlotIsFree(config', bak, saver[s])
    BY <2>1 DEF TextIsCurrent, SlotIsFree, IsOpen
  <2>4. IsMeant(config', intended', putBack')
    BY <2>2, <1>1, <1>2, <1>m, <1>b DEF OneAtATime, IsMeant
  <2>. QED
    BY <2>2, <2>3, <2>4 DEF OneAtATime
<1>. QED
  BY <1>1, <1>4, <1>5, <1>6, <1>p DEF SaveInv

\* The invariant of the saves: as long as no two are open at once, the text of the one
\* that is open is its change of the file as it is, and the replaced version is in a
\* generation that rotations move up one by one.
THEOREM SaveInvariance == SaveSpec => []SaveInv
<1>1. SaveInv /\ [SaveNext]_saveVars => SaveInv'
  <2>. SUFFICES ASSUME SaveInv, [SaveNext]_saveVars PROVE SaveInv'
    OBVIOUS
  <2>1. CASE UNCHANGED saveVars
    BY <2>1 DEF saveVars, SaveInv, SaveTypeOK, PagesInv
  <2>2. CASE \E p \in Profiles, k \in Keys, v \in Settings \cup {Missing} : HandEdit(p, k, v)
    BY <2>2, HandEditStep
  <2>3. ASSUME NEW s \in Savers,
               \/ OpenEditor(s) \/ SubmitConversion(s)
               \/ \E p \in Profiles, op \in {"create", "update"} :
                      \E form \in PostableForms(s, op, p) : SubmitForm(s, op, p, form)
               \/ \E p \in Profiles : SubmitDelete(s, p)
               \/ AuditSave(s) \/ ReadFile(s) \/ Doctor(s)
               \/ RemoveOldest(s) \/ Shift(s) \/ BeginBackup(s) \/ EndBackup(s)
               \/ ReplaceFile(s) \/ SaveFails(s)
        PROVE  SaveInv'
    BY <2>3, OpenEditorStep, SubmitConversionStep, SubmitFormStep, SubmitDeleteStep, AuditSaveStep, ReadFileStep,
       DoctorStep, RemoveOldestStep, ShiftStep, BeginBackupStep, EndBackupStep, ReplaceFileStep,
       SaveFailsStep
  <2>. QED
    BY <2>1, <2>2, <2>3 DEF SaveNext
<1>. QED
  BY <1>1, SaveInitInv, PTL DEF SaveSpec

\* As long as no two saves were open at once, every item says what the last change
\* of it that somebody meant made of it, unless a page that was opened before that change
\* posted the old value with the rest of its form.
THEOREM ChangesAreKept == SaveSpec => []NoLostChange
<1>1. SaveInv => NoLostChange
  BY DEF SaveInv, OneAtATime, IsMeant, NoLostChange
<1>. QED
  BY <1>1, SaveInvariance, PTL

\* The version the last save replaced is still there, as many generations up as
\* rotations have come to nothing since.
THEOREM ReplacedVersionIsKept == SaveSpec => []ReplacedIsKept
<1>1. SaveInv => ReplacedIsKept
  <2>. SUFFICES ASSUME SaveInv, ~ together, replaced # NoText, ~ (aborted >= Generations),
                       \A s \in Savers : ~ InWindow(s)
                PROVE  \E g \in 1..(1 + aborted) : bak[g] = replaced
    BY DEF ReplacedIsKept
  <2>1. IsKept(bak, replaced, 1, aborted + 1)
    BY DEF SaveInv, OneAtATime, IsReplaceable, InWindow, IsOpen
  <2>2. PICK g \in 1..Generations : 1 <= g /\ g <= aborted + 1 /\ bak[g] = replaced
    BY <2>1 DEF IsKept
  <2>3. g \in 1..(1 + aborted)
    BY <2>2, OtherTypes
  <2>. QED
    BY <2>2, <2>3
<1>. QED
  BY <1>1, SaveInvariance, PTL

================================================================================
