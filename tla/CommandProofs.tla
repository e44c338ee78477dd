---------------------------- MODULE CommandProofs -----------------------------
(***************************************************************************)
(* Theorems about a command of the backup tool: the lock of FileLock is    *)
(* exclusive, for any number of hosts, pids and crashes, as long as no     *)
(* reclaim removes a file it did not judge; and the exit code of a backup  *)
(* tells the truth, for any destinations, commands and failures.           *)
(***************************************************************************)
EXTENDS FileLock, BackupCommand, FiniteSetTheorems, WellFoundedInduction, TLAPS

--------------------------------------------------------------------------------
(* The lock. *)

\* A process that is still acting on a file nobody has removed since it read
\* it: the file is the one it read, and the holder it judged dead has not
\* come back as an owner (it would have had to create the file).
ReaderOfLiveFile ==
    ~ evicted => \A p \in Procs :
        /\ (pc[p] = "classify" /\ p \notin stale /\ seen[p] # NoHolder)
               => file = [by |-> seen[p], full |-> TRUE]
        /\ pc[p] = "reclaim" /\ p \notin stale
               => /\ file = [by |-> seen[p], full |-> TRUE]
                  /\ pc[seen[p]] \notin {"write", "undo", "hold"}

ReclaimerHasSeen == \A p \in Procs : pc[p] = "reclaim" => seen[p] # NoHolder

LockInv == TypeOK /\ OwnerHasFile /\ ReaderOfLiveFile /\ ReclaimerHasSeen

\* A process is a pair of a host and a pid; no holder is neither.
LEMMA NoHolderIsNoProcess == NoHolder \notin Procs
  BY ProcsAssumption DEF NoHolder

\* What a pair is made of.
LEMMA ProcIsPair == \A p \in Procs : p = <<p[1], p[2]>>
  BY ProcsAssumption

\* The typing of the lock's state is preserved by every step.
THEOREM TypeCorrect == Spec => []TypeOK
<1>1. Init => TypeOK
  BY DEF Init, TypeOK, PcStates, Files
<1>2. TypeOK /\ [Next]_vars => TypeOK'
  <2> SUFFICES ASSUME TypeOK, [Next]_vars PROVE TypeOK'
    OBVIOUS
  <2> USE DEF TypeOK, PcStates, Files, Goto, RemoveFile
  <2>1. ASSUME NEW p \in Procs,
               \/ Start(p) \/ PidReused(p) \/ AlreadyExists(p) \/ WriteFails(p)
               \/ Classify(p) \/ Crash(p)
        PROVE TypeOK'
    BY <2>1 DEF Start, PidReused, AlreadyExists, WriteFails, Classify, Crash
  <2>2. ASSUME NEW p \in Procs, TryCreate(p)
        PROVE TypeOK'
    BY <2>2 DEF TryCreate
  <2>7. ASSUME RemoveFile
        PROVE file' \in Files /\ stale' \in SUBSET Procs
    BY <2>7
  <2> HIDE DEF RemoveFile
  <2>8. ASSUME NEW p \in Procs, UndoCreate(p) \/ Unlock(p)
        PROVE TypeOK'
    BY <2>7, <2>8 DEF UndoCreate, Unlock
  <2>6. ASSUME NEW p \in Procs, Reclaim(p)
        PROVE TypeOK'
    <3>1. evicted' \in BOOLEAN
      BY <2>6, Zenon DEF Reclaim
    <3>2. pc' \in [Procs -> PcStates] /\ seen' = seen
      BY <2>6 DEF Reclaim
    <3> QED BY <2>6, <2>7, <3>1, <3>2 DEF Reclaim
  <2>3. ASSUME NEW p \in Procs, WriteMeta(p)
        PROVE TypeOK'
    <3>1. file.by = p => file \in [by : Procs, full : BOOLEAN]
      BY NoHolderIsNoProcess DEF NoFile, NoHolder
    <3> QED BY <2>3, <3>1 DEF WriteMeta
  <2>4. ASSUME NEW p \in Procs, ReadHolder(p)
        PROVE TypeOK'
    BY <2>4 DEF ReadHolder, NoFile
  <2>5. CASE UNCHANGED vars
    BY <2>5 DEF vars
  <2> QED BY <2>1, <2>2, <2>3, <2>4, <2>5, <2>6, <2>8 DEF Next
<1> QED BY <1>1, <1>2, PTL DEF Spec

\* LockInv is inductive: the file names its owner, and a reclaimer that is
\* not stale is about to remove the file of a process that does not own it.
LEMMA LockInvInductive == Spec => []LockInv
<1>1. Init => OwnerHasFile /\ ReaderOfLiveFile /\ ReclaimerHasSeen
  BY DEF Init, OwnerHasFile, ReaderOfLiveFile, ReclaimerHasSeen
<1>2. LockInv /\ TypeOK' /\ [Next]_vars
        => OwnerHasFile' /\ ReaderOfLiveFile' /\ ReclaimerHasSeen'
  <2> SUFFICES ASSUME LockInv, TypeOK', [Next]_vars
               PROVE OwnerHasFile' /\ ReaderOfLiveFile' /\ ReclaimerHasSeen'
    OBVIOUS
  <2> USE NoHolderIsNoProcess
          DEF LockInv, TypeOK, OwnerHasFile, ReaderOfLiveFile, ReclaimerHasSeen,
              Goto, NoFile, NoHolder, Files
  <2>1. ASSUME NEW p \in Procs, Start(p) \/ PidReused(p)
        PROVE OwnerHasFile' /\ ReaderOfLiveFile' /\ ReclaimerHasSeen'
    BY <2>1 DEF Start, PidReused
  <2>2. ASSUME NEW p \in Procs, TryCreate(p)
        PROVE OwnerHasFile' /\ ReaderOfLiveFile' /\ ReclaimerHasSeen'
    BY <2>2 DEF TryCreate
  <2>3. ASSUME NEW p \in Procs, AlreadyExists(p) \/ Crash(p)
        PROVE OwnerHasFile' /\ ReaderOfLiveFile' /\ ReclaimerHasSeen'
    BY <2>3 DEF AlreadyExists, Crash
  <2>4. ASSUME NEW p \in Procs, WriteMeta(p)
        PROVE OwnerHasFile' /\ ReaderOfLiveFile' /\ ReclaimerHasSeen'
    <3>0. ~ evicted => file = [by |-> p, full |-> FALSE]
      BY <2>4 DEF WriteMeta
    <3>4. file = [by |-> p, full |-> FALSE] => file' = [by |-> p, full |-> TRUE]
      BY <2>4 DEF WriteMeta
    <3>1. ~ evicted => file = [by |-> p, full |-> FALSE] /\ file' = [by |-> p, full |-> TRUE]
      BY <3>0, <3>4
    <3>2. OwnerHasFile'
      <4> SUFFICES ASSUME ~ evicted, NEW q \in Procs
                   PROVE /\ pc'[q] \in {"write", "undo"} => file' = [by |-> q, full |-> FALSE]
                         /\ pc'[q] = "hold" => file' = [by |-> q, full |-> TRUE]
        BY <2>4 DEF WriteMeta
      <4>1. CASE q = p
        BY <2>4, <3>1, <4>1 DEF WriteMeta
      <4>2. CASE q # p
        <5>1. file.by = p
          BY <3>1
        <5>2. pc[q] \notin {"write", "undo", "hold"}
          BY <4>2, <5>1
        <5> QED BY <2>4, <4>2, <5>2 DEF WriteMeta
      <4> QED BY <4>1, <4>2
    <3>3. ReaderOfLiveFile'
      BY <2>4, <3>1 DEF WriteMeta
    <3>5. ReclaimerHasSeen'
      BY <2>4 DEF WriteMeta
    <3> QED BY <3>2, <3>3, <3>5
  <2>5. ASSUME NEW p \in Procs, WriteFails(p)
        PROVE OwnerHasFile' /\ ReaderOfLiveFile' /\ ReclaimerHasSeen'
    BY <2>5 DEF WriteFails
  <2>6. ASSUME NEW p \in Procs, UndoCreate(p) \/ Unlock(p)
        PROVE OwnerHasFile' /\ ReaderOfLiveFile' /\ ReclaimerHasSeen'
    <3>1. ReclaimerHasSeen'
      BY <2>6 DEF UndoCreate, Unlock
    <3>2. OwnerHasFile'
      BY <2>6 DEF UndoCreate, Unlock, RemoveFile
    <3>3. ReaderOfLiveFile'
      BY <2>6 DEF UndoCreate, Unlock, RemoveFile
    <3> QED BY <3>1, <3>2, <3>3
  <2>7. ASSUME NEW p \in Procs, ReadHolder(p)
        PROVE OwnerHasFile' /\ ReaderOfLiveFile' /\ ReclaimerHasSeen'
    BY <2>7 DEF ReadHolder
  <2>8. ASSUME NEW p \in Procs, Classify(p)
        PROVE OwnerHasFile' /\ ReaderOfLiveFile' /\ ReclaimerHasSeen'
    <3>1. Reclaimable(p) => seen[p] \in Procs /\ pc[seen[p]] = "dead"
      BY ProcIsPair DEF Reclaimable, pid_alive
    <3> QED BY <2>8, <3>1 DEF Classify, Reclaimable
  <2>9. ASSUME NEW p \in Procs, Reclaim(p)
        PROVE OwnerHasFile' /\ ReaderOfLiveFile' /\ ReclaimerHasSeen'
    BY <2>9 DEF Reclaim, RemoveFile
  <2>10. CASE UNCHANGED vars
    BY <2>10 DEF vars
  <2> QED BY <2>1, <2>2, <2>3, <2>4, <2>5, <2>6, <2>7, <2>8, <2>9, <2>10 DEF Next
<1> QED BY <1>1, <1>2, TypeCorrect, PTL DEF Spec, LockInv

\* Two commands never own one profile unless some reclaim has removed a file
\* created after the holder it judged was read (file_lock.rs:159-167).
THEOREM Exclusion == Spec => []ExclusionUnlessEvicted
<1>1. LockInv => ExclusionUnlessEvicted
  BY DEF LockInv, OwnerHasFile, ExclusionUnlessEvicted, MutualExclusion, Holders
<1> QED BY <1>1, LockInvInductive, PTL

\* Until then, whoever is about to remove the lock by path owns the file.
THEOREM OwnFile == Spec => []OwnerHasFile
<1>1. LockInv => OwnerHasFile
  BY DEF LockInv
<1> QED BY <1>1, LockInvInductive, PTL

--------------------------------------------------------------------------------
(* The numbers of the backups. *)

\* A set of natural numbers that is not empty has a least one.
LEMMA LeastOfNaturals ==
    ASSUME NEW S \in SUBSET Nat, S # {}
    PROVE  \E m \in S : \A k \in S : m <= k
<1>1. PICK m \in S : \A k \in S : <<k, m>> \notin OpToRel(<, Nat)
  BY NatLessThanWellFounded, WFMin
<1>2. \A k \in S : ~ (k < m)
  BY <1>1 DEF OpToRel
<1>. QED
  BY <1>2

\* Max finds the largest of a set that has a bound.
LEMMA MaxOfBounded ==
    ASSUME NEW n \in Nat, NEW S \in SUBSET (0..n), S # {}
    PROVE  Max(S) \in S /\ \A k \in S : k <= Max(S)
<1>. DEFINE T == {n - k : k \in S}
<1>1. T \in SUBSET Nat /\ T # {}
  <2>1. \A k \in S : n - k \in Nat
    OBVIOUS
  <2>2. PICK k \in S : TRUE
    OBVIOUS
  <2>3. n - k \in T
    OBVIOUS
  <2>. QED
    BY <2>1, <2>3
<1>2. PICK m \in T : \A k \in T : m <= k
  BY <1>1, LeastOfNaturals
<1>3. PICK x \in S : m = n - x
  OBVIOUS
<1>4. \A k \in S : n - k \in T
  OBVIOUS
<1>. HIDE DEF T
<1>5. \A k \in S : n - x <= n - k
  BY <1>2, <1>3, <1>4
<1>6. \A k \in S : x >= k
  BY <1>5, <1>3
<1>. QED
  BY <1>6 DEF Max

--------------------------------------------------------------------------------
(* The backup command *)

\* How far a command c has come with the objects o of its backup in the first
\* destination and s in the second.
Unopened(c, o) ==
    c.step \in {"gate", "admit", "open"} => c.dump = "none" /\ o.edition = 0

Dumping(c, o) ==
    /\ c.step \in {"dump", "put", "finish"} => o.edition = 0
    /\ c.step = "dump" => c.dump = "running"
    /\ c.step \in {"put", "finish"} => c.dump \in {"ok", "failed", "panicked"}
    /\ c.step = "finish" /\ c.dump = "ok" => o.data = "whole"

\* No backup claims to have been made of a dump that failed.
FailedIsGone(c, o) ==
    c.dump = "failed" =>
        /\ o.edition = 0 /\ c.code \notin {0, 4}
        /\ c.step \in {"put", "finish", "cleanData", "cleanManifest", "cleanSidecar",
                       "observe", "exited"}

Whole(c, o) == c.dump # "panicked" => (o.size = 1 => o.data = "whole")

\* The manifest comes after whole data and before its checksum.
Writing(c, o) ==
    /\ c.step \in {"range", "manifest", "sidecar", "remark", "remarkSidecar",
                   "copyData", "copyManifest", "copySidecar", "judge"} => Whole(c, o)
    /\ c.step \in {"range", "manifest"} => o.edition = 0
    /\ c.step \in {"sidecar", "remark", "remarkSidecar",
                   "copyData", "copyManifest", "copySidecar", "judge"} => o.edition > 0
    /\ c.step \in {"remark", "remarkSidecar"} => c.promoted
    /\ c.step = "sidecar" => o.edition = 1

\* Only a promotion leaves a manifest without its checksum; only a warning
\* leaves a copy that is not what it is a copy of.
Copying(c, o, s) ==
    /\ c.step \in {"copyData", "copyManifest", "copySidecar", "judge"} =>
         c.promoted \/ o.sidecar = o.edition
    /\ c.step = "copyManifest" => s = [o EXCEPT !.edition = 0, !.sidecar = 0]
    /\ c.step = "copySidecar" => s = [o EXCEPT !.sidecar = 0]
    /\ c.step = "judge" => c.warned \/ s = o

\* The code says how it went.
CodeTells(c, o, s) ==
    /\ c.step \in {"observe", "exited"} /\ c.code = 0 =>
         Whole(c, o) /\ o.edition > 0 /\ o.sidecar = o.edition /\ s = o
    /\ c.step \in {"observe", "exited"} /\ c.code = 4 => Whole(c, o) /\ o.edition > 0
    /\ c.step \notin {"observe", "exited"} => c.code = -1

Progress(c, o, s) ==
    /\ Unopened(c, o) /\ Dumping(c, o) /\ FailedIsGone(c, o)
    /\ Writing(c, o) /\ Copying(c, o, s) /\ CodeTells(c, o, s)

\* Nobody has written under an id that was not given out.
Unwritten == \A d \in Dests : \A i \in Ids : i > commands => stored[d][i] = NoObjects

CommandInv ==
    /\ CommandTypeOK
    /\ commands = 0 => command = Ended
    /\ Unwritten
    /\ Progress(command, This("primary"), This("second"))

\* What the objects of a backup are made of.
LEMMA ObjectFacts ==
    /\ NoObjects \in Objects /\ Ended \in Commands
    /\ NoObjects.edition = 0 /\ NoObjects.sidecar = 0 /\ NoObjects.data = "none"
    /\ Ended.step = "exited" /\ Ended.code = -1 /\ Ended.dump = "none"
    /\ ~ Ended.promoted /\ ~ Ended.warned
  BY CommandAssumption DEF NoObjects, Objects, Ended, Commands, NoRequest, Requests, Engines, Steps

\* What is stored under the id of the command.
LEMMA StoreFacts ==
    ASSUME CommandInv, commands \in Ids, NEW d \in Dests, NEW o \in Objects, Store(d, o),
           commands' = commands
    PROVE  /\ stored' \in [Dests -> [Ids -> Objects]] /\ Unwritten'
           /\ This(d)' = o
           /\ \A e \in Dests \ {d} : This(e)' = This(e)
<1>1. stored \in [Dests -> [Ids -> Objects]] /\ stored' = [stored EXCEPT ![d][commands] = o]
  BY DEF CommandInv, CommandTypeOK, Store
<1>2. stored' \in [Dests -> [Ids -> Objects]]
  BY <1>1
<1>3. This(d)' = o /\ \A e \in Dests \ {d} : This(e)' = This(e)
  BY <1>1 DEF This
<1>4. \A e \in Dests : \A i \in Ids : i # commands => stored'[e][i] = stored[e][i]
  BY <1>1
<1>5. Unwritten'
  BY <1>4 DEF Unwritten, CommandInv, Ids
<1>. QED
  BY <1>2, <1>3, <1>5

\* Nothing is stored and nothing runs.
LEMMA CommandInitInv == CommandInit => CommandInv
<1>. SUFFICES ASSUME CommandInit PROVE CommandInv
  OBVIOUS
<1>0. 0 \in 0 .. MaxCommands
  BY CommandAssumption
<1>1. CommandTypeOK /\ Unwritten
  BY <1>0, ObjectFacts DEF CommandInit, CommandTypeOK, Unwritten
<1>2. command = Ended
  BY DEF CommandInit
<1>3. Progress(command, This("primary"), This("second"))
  BY <1>2, ObjectFacts
     DEF Progress, Unopened, Dumping, FailedIsGone, Writing, Copying, CodeTells
<1>. QED
  BY <1>1, <1>2, <1>3 DEF CommandInv

\* A command that runs has an id, and typed objects.
LEMMA RunningFacts ==
    ASSUME CommandInv, command.step # "exited"
    PROVE  /\ commands \in Ids /\ commands # 0 /\ command \in Commands
           /\ This("primary") \in Objects /\ This("second") \in Objects
           /\ Progress(command, This("primary"), This("second"))
           /\ stored \in [Dests -> [Ids -> Objects]] /\ Unwritten
<1>1. commands # 0
  BY ObjectFacts DEF CommandInv
<1>2. commands \in 0 .. MaxCommands /\ stored \in [Dests -> [Ids -> Objects]] /\ command \in Commands
  BY DEF CommandInv, CommandTypeOK
<1>3. commands \in Ids
  BY <1>1, <1>2, CommandAssumption DEF Ids
<1>4. "primary" \in Dests /\ "second" \in Dests
  BY DEF Dests
<1>. QED
  BY <1>1, <1>2, <1>3, <1>4 DEF CommandInv, This

\* A command starts under an id of its own.
LEMMA StartCommandStep ==
    ASSUME CommandInv, NEW r \in Requests, StartCommand(r)
    PROVE  CommandInv'
<1>1. commands' = commands + 1 /\ stored' = stored /\ commands' \in Ids /\ commands' # 0
      /\ commands \in Nat /\ commands' \in 0 .. MaxCommands
  BY CommandAssumption DEF StartCommand, CommandInv, CommandTypeOK, Ids
<1>2. command' = [Ended EXCEPT !.request = r, !.step = "gate"]
  BY DEF StartCommand
<1>3. /\ command' \in Commands /\ command'.step = "gate" /\ command'.dump = "none"
      /\ command'.code = -1
  BY <1>2, ObjectFacts DEF Commands, Ended, Steps
<1>4. CommandTypeOK' /\ Unwritten'
  BY <1>1, <1>3 DEF CommandInv, CommandTypeOK, Unwritten, Ids
<1>5. This("primary")' = NoObjects
  <2>1. "primary" \in Dests /\ commands + 1 > commands
    BY <1>1 DEF Dests
  <2>. QED
    BY <2>1, <1>1 DEF CommandInv, Unwritten, This
<1>6. Progress(command, This("primary"), This("second"))'
  BY <1>3, <1>5, ObjectFacts
     DEF Progress, Unopened, Dumping, FailedIsGone, Writing, Copying, CodeTells
<1>. QED
  BY <1>1, <1>4, <1>6 DEF CommandInv

\* The process is killed.
LEMMA KilledStep ==
    ASSUME CommandInv, Killed
    PROVE  CommandInv'
<1>1. command' = Ended /\ UNCHANGED <<stored, commands>>
  BY DEF Killed
<1>2. CommandTypeOK' /\ Unwritten'
  BY <1>1, ObjectFacts DEF CommandInv, CommandTypeOK, Unwritten, Ids
<1>3. Progress(command, This("primary"), This("second"))'
  BY <1>1, ObjectFacts
     DEF Progress, Unopened, Dumping, FailedIsGone, Writing, Copying, CodeTells
<1>. QED
  BY <1>1, <1>2, <1>3 DEF CommandInv

\* The steps that only move the command: what must hold is its progress.
LEMMA MovedFacts ==
    ASSUME CommandInv, command.step # "exited", UNCHANGED <<stored, commands>>,
           command' \in Commands,
           Progress(command', This("primary"), This("second"))
    PROVE  CommandInv'
<1>1. CommandTypeOK' /\ Unwritten'
  BY DEF CommandInv, CommandTypeOK, Unwritten, Ids
<1>2. This("primary")' = This("primary") /\ This("second")' = This("second")
  BY DEF This
<1>. QED
  BY <1>1, <1>2, RunningFacts DEF CommandInv

\* The steps of the gate and the checks before the dump.
LEMMA EntryStep ==
    ASSUME CommandInv, GatePasses \/ GateBlocks \/ PrecheckFails \/ Admit \/ OpenFails
    PROVE  CommandInv'
<1>1. /\ UNCHANGED <<stored, commands>> /\ command.step \in {"gate", "admit", "open"}
  BY DEF GatePasses, GateBlocks, PrecheckFails, Admit, OpenFails, At
<1>2. /\ command \in Commands /\ Progress(command, This("primary"), This("second"))
  BY <1>1, RunningFacts
<1>3. command.dump = "none" /\ This("primary").edition = 0 /\ command.code = -1
  BY <1>1, <1>2 DEF Progress, Unopened, CodeTells
<1>4. /\ command' \in Commands /\ command'.dump = "none"
      /\ \/ command'.step \in {"admit", "open"} /\ command'.code = -1
         \/ command'.step \in {"observe", "exited"} /\ command'.code \in {1, 2, 3}
  <2>1. CASE GatePasses
    <3>1. command'.hooks \in SUBSET {"pre_backup", "post_backup", "on_error"}
          /\ command' = [command EXCEPT !.step = "admit", !.hooks = command'.hooks]
      BY <2>1, <1>2 DEF GatePasses, Commands
    <3>. QED
      BY <3>1, <1>2, <1>3 DEF Commands, Steps
  <2>2. CASE GateBlocks
    BY <2>2, <1>2, <1>3 DEF GateBlocks, Commands, Steps
  <2>3. CASE PrecheckFails
    BY <2>3, <1>2, <1>3 DEF PrecheckFails, Judged, Commands, Steps
  <2>4. CASE Admit
    <3>1. Judged(2) \/ StepTo("open")
      BY <2>4 DEF Admit
    <3>. QED
      BY <3>1, <1>2, <1>3 DEF Judged, StepTo, Commands, Steps
  <2>5. CASE OpenFails
    BY <2>5, <1>2, <1>3 DEF OpenFails, Judged, Commands, Steps
  <2>. QED
    BY <2>1, <2>2, <2>3, <2>4, <2>5
<1>5. Progress(command', This("primary"), This("second"))
  BY <1>3, <1>4
     DEF Progress, Unopened, Dumping, FailedIsGone, Writing, Copying, CodeTells
<1>. QED
  BY <1>1, <1>4, <1>5, MovedFacts

\* The steps that write an object of the first destination.
LEMMA StoredFacts ==
    ASSUME CommandInv, command.step # "exited", commands' = commands, command' \in Commands,
           NEW o \in Objects, Store("primary", o),
           Progress(command', o, This("second"))
    PROVE  CommandInv'
<1>1. "primary" \in Dests /\ "second" \in Dests \ {"primary"}
  BY DEF Dests
<1>2. commands \in Ids /\ commands # 0
  BY RunningFacts
<1>3. /\ stored' \in [Dests -> [Ids -> Objects]] /\ Unwritten'
      /\ This("primary")' = o /\ This("second")' = This("second")
  BY <1>1, <1>2, StoreFacts
<1>4. CommandTypeOK'
  BY <1>3 DEF CommandInv, CommandTypeOK
<1>. QED
  BY <1>2, <1>3, <1>4 DEF CommandInv

\* A dump is opened or refused.
LEMMA OpenStep ==
    ASSUME CommandInv, (\E p \in BOOLEAN : OpenFull(p)) \/ (\E size \in {0, 1} : OpenIncr(size))
    PROVE  CommandInv'
<1>1. command.step = "open" /\ commands' = commands
  BY DEF OpenFull, OpenIncr, At
<1>2. /\ command \in Commands /\ Progress(command, This("primary"), This("second"))
      /\ commands \in Ids /\ commands \in Nat
  BY <1>1, RunningFacts DEF Ids
<1>3. command.dump = "none" /\ command.code = -1
  BY <1>1, <1>2 DEF Progress, Unopened, CodeTells
<1>4. CASE \E p \in BOOLEAN : OpenFull(p)
  <2>1. PICK p \in BOOLEAN : OpenFull(p)
    BY <1>4
  <2>2. PICK rows \in RowCounts :
          Store("primary", [NoObjects EXCEPT !.size = 1, !.rows = rows,
                               !.kind = IF req.selective THEN "selective" ELSE "full"])
    BY <2>1 DEF OpenFull
  <2>. DEFINE o == [NoObjects EXCEPT !.size = 1, !.rows = rows,
                               !.kind = IF req.selective THEN "selective" ELSE "full"]
  <2>3. o \in Objects /\ o.edition = 0
    <3>. DEFINE kind == IF req.selective THEN "selective" ELSE "full"
                o1 == [NoObjects EXCEPT !.size = 1]
                o2 == [o1 EXCEPT !.rows = rows]
                o3 == [o2 EXCEPT !.kind = kind]
    <3>0. kind \in {"full", "selective", "incr"} /\ rows \in Nat
      BY CommandAssumption
    <3>1. o1 \in Objects /\ o1.edition = 0
      BY ObjectFacts DEF Objects
    <3>4. o = o3
      OBVIOUS
    <3>. HIDE DEF o1, kind
    <3>2. o2 \in Objects /\ o2.edition = 0
      BY <3>0, <3>1 DEF Objects
    <3>. HIDE DEF o2
    <3>3. o3 \in Objects /\ o3.edition = 0
      BY <3>0, <3>2 DEF Objects
    <3>. QED
      BY <3>3, <3>4
  <2>4. /\ command' \in Commands /\ command'.step = "dump" /\ command'.dump = "running"
        /\ command'.code = -1
    BY <2>1, <1>2, <1>3 DEF OpenFull, Commands, Steps
  <2>. HIDE DEF o
  <2>5. Progress(command', o, This("second"))
    BY <2>3, <2>4
       DEF Progress, Unopened, Dumping, FailedIsGone, Writing, Copying, CodeTells
  <2>. QED
    BY <1>1, <2>2, <2>3, <2>4, <2>5, StoredFacts DEF o
<1>5. CASE \E size \in {0, 1} : OpenIncr(size)
  <2>1. PICK size \in {0, 1} : OpenIncr(size)
    BY <1>5
  <2>. DEFINE base == Max(FullIds)
              o == [NoObjects EXCEPT !.kind = "incr", !.base = base, !.size = size]
  <2>2. FullIds \in SUBSET (0 .. MaxCommands) /\ FullIds # {} /\ MaxCommands \in Nat
    BY <2>1, <1>2, CommandAssumption DEF OpenIncr, FullIds, Ids
  <2>3. base \in 0 .. MaxCommands
    BY <2>2, MaxOfBounded
  <2>. HIDE DEF base
  <2>4. o \in Objects /\ o.edition = 0 /\ o.size = size
    <3>. DEFINE o1 == [NoObjects EXCEPT !.kind = "incr"]
                o2 == [o1 EXCEPT !.base = base]
                o3 == [o2 EXCEPT !.size = size]
    <3>1. o1 \in Objects /\ o1.edition = 0
      BY ObjectFacts DEF Objects
    <3>4. o = o3
      OBVIOUS
    <3>. HIDE DEF o1
    <3>2. o2 \in Objects /\ o2.edition = 0
      BY <2>3, <3>1 DEF Objects
    <3>. HIDE DEF o2
    <3>3. o3 \in Objects /\ o3.edition = 0 /\ o3.size = size
      BY <3>2 DEF Objects
    <3>. QED
      BY <3>3, <3>4
  <2>. HIDE DEF o
  <2>5. /\ command' \in Commands /\ command'.code = -1
        /\ \/ command'.step = "dump" /\ command'.dump = "running"
           \/ command'.step = "manifest" /\ command'.dump = "none" /\ size = 0
    BY <2>1, <1>2, <1>3 DEF OpenIncr, Commands, Steps
  <2>6. Progress(command', o, This("second"))
    BY <2>4, <2>5
       DEF Progress, Unopened, Dumping, FailedIsGone, Writing, Copying, CodeTells, Whole
  <2>7. Store("primary", o)
    BY <2>1 DEF OpenIncr, o, base
  <2>. QED
    BY <1>1, <2>4, <2>5, <2>6, <2>7, StoredFacts
<1>. QED
  BY <1>4, <1>5

\* The stream and its data.
LEMMA DumpStep ==
    ASSUME CommandInv,
           \/ \E outcome \in {"ok", "failed", "panicked"} : DumpEnds(outcome)
           \/ PutFails \/ PutData \/ FinishDump \/ \E ok \in BOOLEAN : ReadRange(ok)
    PROVE  CommandInv'
<1>1. command.step \in {"dump", "put", "finish", "range"} /\ commands' = commands
  BY DEF DumpEnds, PutFails, PutData, FinishDump, ReadRange, At
<1>2. /\ command \in Commands /\ Progress(command, This("primary"), This("second"))
      /\ This("primary") \in Objects
  BY <1>1, RunningFacts
<1>3. command.code = -1 /\ This("primary").edition = 0
  BY <1>1, <1>2 DEF Progress, Dumping, Writing, CodeTells
<1>4. CASE \E outcome \in {"ok", "failed", "panicked"} : DumpEnds(outcome)
  <2>1. PICK outcome \in {"ok", "failed", "panicked"} : DumpEnds(outcome)
    BY <1>4
  <2>2. /\ command' \in Commands /\ command'.step = "put" /\ command'.dump = outcome
        /\ command'.code = -1 /\ UNCHANGED <<stored, commands>>
    BY <2>1, <1>2, <1>3 DEF DumpEnds, Commands, Steps
  <2>3. Progress(command', This("primary"), This("second"))
    BY <2>2, <1>3
       DEF Progress, Unopened, Dumping, FailedIsGone, Writing, Copying, CodeTells
  <2>. QED
    BY <1>1, <2>2, <2>3, MovedFacts
<1>5. CASE PutFails
  <2>2. /\ command' \in Commands /\ command'.step = "observe" /\ command'.dump = command.dump
        /\ command'.code = 1 /\ UNCHANGED <<stored, commands>>
    BY <1>5, <1>2 DEF PutFails, Judged, Commands, Steps
  <2>3. Progress(command', This("primary"), This("second"))
    BY <2>2, <1>3
       DEF Progress, Unopened, Dumping, FailedIsGone, Writing, Copying, CodeTells
  <2>. QED
    BY <1>1, <2>2, <2>3, MovedFacts
<1>6. CASE PutData
  <2>. DEFINE o == [This("primary") EXCEPT !.data = IF command.dump = "ok" THEN "whole" ELSE "cut"]
  <2>1. /\ o \in Objects /\ o.edition = 0
        /\ command.dump = "ok" => o.data = "whole"
    BY <1>2, <1>3 DEF Objects
  <2>. HIDE DEF o
  <2>2. /\ command' \in Commands /\ command'.step = "finish" /\ command'.dump = command.dump
        /\ command'.code = -1 /\ Store("primary", o)
    BY <1>6, <1>2, <1>3 DEF PutData, StepTo, Commands, Steps, o
  <2>3. command.dump \in {"ok", "failed", "panicked"}
    BY <1>6, <1>2 DEF PutData, At, Progress, Dumping
  <2>4. Progress(command', o, This("second"))
    BY <2>1, <2>2, <2>3
       DEF Progress, Unopened, Dumping, FailedIsGone, Writing, Copying, CodeTells
  <2>. QED
    BY <1>1, <2>1, <2>2, <2>4, StoredFacts
<1>7. CASE FinishDump
  <2>1. /\ command' \in Commands /\ command'.dump = command.dump
        /\ command'.code = -1 /\ UNCHANGED <<stored, commands>>
        /\ \/ command'.step = "cleanData"
           \/ command'.step \in {"range", "manifest"} /\ command.dump # "failed"
    BY <1>7, <1>2, <1>3 DEF FinishDump, StepTo, DumpFailures, Commands, Steps
  <2>2. /\ command.dump \in {"ok", "failed", "panicked"}
        /\ command.dump = "ok" => This("primary").data = "whole"
    BY <1>7, <1>2 DEF FinishDump, At, Progress, Dumping
  <2>3. Progress(command', This("primary"), This("second"))
    BY <2>1, <2>2, <1>3
       DEF Progress, Unopened, Dumping, FailedIsGone, Writing, Copying, CodeTells, Whole
  <2>. QED
    BY <1>1, <2>1, <2>3, MovedFacts
<1>8. CASE \E ok \in BOOLEAN : ReadRange(ok)
  <2>1. PICK ok \in BOOLEAN : ReadRange(ok)
    BY <1>8
  <2>2. /\ command.step = "range" /\ command' \in Commands /\ command'.dump = command.dump
        /\ UNCHANGED <<stored, commands>>
        /\ \/ command'.step = "manifest" /\ command'.code = -1
           \/ command'.step = "observe" /\ command'.code = 1
    <3>1. /\ command.step = "range" /\ UNCHANGED <<stored, commands>>
          /\ StepTo("manifest") \/ Judged(1)
      BY <2>1 DEF ReadRange, At
    <3>. QED
      BY <3>1, <1>2, <1>3 DEF StepTo, Judged, Commands, Steps
  <2>3. command.dump # "failed" /\ Whole(command, This("primary"))
    BY <2>2, <1>2 DEF Progress, FailedIsGone, Writing
  <2>4. Progress(command', This("primary"), This("second"))
    BY <2>2, <2>3, <1>3
       DEF Progress, Unopened, Dumping, FailedIsGone, Writing, Copying, CodeTells, Whole
  <2>. QED
    BY <1>1, <2>2, <2>4, MovedFacts
<1>. QED
  BY <1>4, <1>5, <1>6, <1>7, <1>8

\* The manifest and its checksum, once or twice.
LEMMA WriteStep ==
    ASSUME CommandInv, NEW ok \in BOOLEAN,
           PutManifest(ok) \/ PutSidecar(ok) \/ RemarkManifest(ok) \/ RemarkSidecar(ok)
    PROVE  CommandInv'
<1>1. command.step \in {"manifest", "sidecar", "remark", "remarkSidecar"} /\ commands' = commands
  BY DEF PutManifest, PutSidecar, RemarkManifest, RemarkSidecar, At
<1>2. /\ command \in Commands /\ Progress(command, This("primary"), This("second"))
      /\ This("primary") \in Objects
  BY <1>1, RunningFacts
<1>3. /\ command.code = -1 /\ command.dump # "failed" /\ Whole(command, This("primary"))
      /\ command.step = "sidecar" => This("primary").edition = 1
      /\ command.step \in {"remark", "remarkSidecar"} =>
           command.promoted /\ This("primary").edition > 0
  BY <1>1, <1>2 DEF Progress, FailedIsGone, Writing, CodeTells
<1>4. \A x \in {"sidecar", "cleanData", "remark", "copyData", "remarkSidecar"} :
        StepTo(x) => /\ command' \in Commands /\ command'.step = x
                     /\ command'.dump = command.dump /\ command'.code = -1
                     /\ command'.promoted = command.promoted
  BY <1>2, <1>3 DEF StepTo, Commands, Steps
<1>9. Judged(1) => /\ command' \in Commands /\ command'.step = "observe"
                   /\ command'.dump = command.dump /\ command'.code = 1
  BY <1>2 DEF Judged, Commands, Steps
<1>5. CASE PutManifest(ok)
  <2>1. CASE ok
    <3>. DEFINE o == [This("primary") EXCEPT !.edition = 1]
    <3>1. o \in Objects /\ o.edition = 1 /\ o.size = This("primary").size /\ o.data = This("primary").data
      BY <1>2 DEF Objects
    <3>2. Store("primary", o) /\ StepTo("sidecar")
      BY <1>5, <2>1 DEF PutManifest
    <3>. HIDE DEF o
    <3>3. Progress(command', o, This("second"))
      BY <3>1, <3>2, <1>3, <1>4
         DEF Progress, Unopened, Dumping, FailedIsGone, Writing, Copying, CodeTells, Whole
    <3>. QED
      BY <1>1, <1>4, <3>1, <3>2, <3>3, StoredFacts
  <2>2. CASE ~ ok
    <3>1. UNCHANGED <<stored, commands>> /\ (StepTo("cleanData") \/ Judged(1))
      BY <1>5, <2>2 DEF PutManifest, SaveFails
    <3>2. Progress(command', This("primary"), This("second"))
      <4>1. CASE StepTo("cleanData")
        BY <4>1, <1>3, <1>4
           DEF Progress, Unopened, Dumping, FailedIsGone, Writing, Copying, CodeTells, Whole
      <4>2. CASE Judged(1)
        BY <4>2, <1>3, <1>9
           DEF Progress, Unopened, Dumping, FailedIsGone, Writing, Copying, CodeTells, Whole
      <4>. QED
        BY <3>1, <4>1, <4>2
    <3>. QED
      BY <1>1, <1>4, <1>9, <3>1, <3>2, MovedFacts
  <2>. QED
    BY <2>1, <2>2
<1>6. CASE PutSidecar(ok)
  <2>0. command.step = "sidecar"
    BY <1>6 DEF PutSidecar, At
  <2>1. CASE ok
    <3>. DEFINE o == [This("primary") EXCEPT !.sidecar = 1]
    <3>1. /\ o \in Objects /\ o.edition = 1 /\ o.sidecar = 1
          /\ o.size = This("primary").size /\ o.data = This("primary").data
      BY <1>2, <1>3, <2>0 DEF Objects
    <3>2. /\ Store("primary", o)
          /\ \/ command.promoted /\ StepTo("remark")
             \/ StepTo("copyData")
      BY <1>6, <2>1 DEF PutSidecar
    <3>. HIDE DEF o
    <3>3. Progress(command', o, This("second"))
      BY <3>1, <3>2, <1>3, <1>4
         DEF Progress, Unopened, Dumping, FailedIsGone, Writing, Copying, CodeTells, Whole
    <3>. QED
      BY <1>1, <1>4, <3>1, <3>2, <3>3, StoredFacts
  <2>2. CASE ~ ok
    <3>1. UNCHANGED <<stored, commands>> /\ (StepTo("cleanData") \/ Judged(1))
      BY <1>6, <2>2 DEF PutSidecar, SaveFails
    <3>2. Progress(command', This("primary"), This("second"))
      <4>1. CASE StepTo("cleanData")
        BY <4>1, <1>3, <1>4
           DEF Progress, Unopened, Dumping, FailedIsGone, Writing, Copying, CodeTells, Whole
      <4>2. CASE Judged(1)
        BY <4>2, <1>3, <1>9
           DEF Progress, Unopened, Dumping, FailedIsGone, Writing, Copying, CodeTells, Whole
      <4>. QED
        BY <3>1, <4>1, <4>2
    <3>. QED
      BY <1>1, <1>4, <1>9, <3>1, <3>2, MovedFacts
  <2>. QED
    BY <2>1, <2>2
<1>7. CASE RemarkManifest(ok)
  <2>0. command.step = "remark"
    BY <1>7 DEF RemarkManifest, At
  <2>1. CASE ok
    <3>. DEFINE o == [This("primary") EXCEPT !.edition = 2]
    <3>1. /\ o \in Objects /\ o.edition = 2
          /\ o.size = This("primary").size /\ o.data = This("primary").data
      BY <1>2 DEF Objects
    <3>2. Store("primary", o) /\ StepTo("remarkSidecar")
      BY <1>7, <2>1 DEF RemarkManifest
    <3>. HIDE DEF o
    <3>3. Progress(command', o, This("second"))
      BY <3>1, <3>2, <2>0, <1>3, <1>4
         DEF Progress, Unopened, Dumping, FailedIsGone, Writing, Copying, CodeTells, Whole
    <3>. QED
      BY <1>1, <1>4, <3>1, <3>2, <3>3, StoredFacts
  <2>2. CASE ~ ok
    <3>1. UNCHANGED <<stored, commands>> /\ StepTo("copyData")
      BY <1>7, <2>2 DEF RemarkManifest
    <3>2. Progress(command', This("primary"), This("second"))
      BY <3>1, <2>0, <1>3, <1>4
         DEF Progress, Unopened, Dumping, FailedIsGone, Writing, Copying, CodeTells, Whole
    <3>. QED
      BY <1>1, <1>4, <3>1, <3>2, MovedFacts
  <2>. QED
    BY <2>1, <2>2
<1>8. CASE RemarkSidecar(ok)
  <2>0. command.step = "remarkSidecar" /\ StepTo("copyData")
    BY <1>8 DEF RemarkSidecar, At
  <2>1. CASE ok
    <3>. DEFINE o == [This("primary") EXCEPT !.sidecar = 2]
    <3>1. /\ o \in Objects /\ o.edition = This("primary").edition
          /\ o.size = This("primary").size /\ o.data = This("primary").data
      BY <1>2 DEF Objects
    <3>2. Store("primary", o)
      BY <1>8, <2>1 DEF RemarkSidecar
    <3>. HIDE DEF o
    <3>3. Progress(command', o, This("second"))
      BY <3>1, <2>0, <1>3, <1>4
         DEF Progress, Unopened, Dumping, FailedIsGone, Writing, Copying, CodeTells, Whole
    <3>. QED
      BY <1>1, <1>4, <2>0, <3>1, <3>2, <3>3, StoredFacts
  <2>2. CASE ~ ok
    <3>1. UNCHANGED <<stored, commands>>
      BY <1>8, <2>2 DEF RemarkSidecar
    <3>2. Progress(command', This("primary"), This("second"))
      BY <2>0, <1>3, <1>4
         DEF Progress, Unopened, Dumping, FailedIsGone, Writing, Copying, CodeTells, Whole
    <3>. QED
      BY <1>1, <1>4, <2>0, <3>1, <3>2, MovedFacts
  <2>. QED
    BY <2>1, <2>2
<1>. QED
  BY <1>5, <1>6, <1>7, <1>8

\* The cleanup: what fails of it is not noticed.
LEMMA CleanStep ==
    ASSUME CommandInv, NEW ok \in BOOLEAN, CleanData(ok) \/ CleanManifest(ok) \/ CleanSidecar(ok)
    PROVE  CommandInv'
<1>1. command.step \in {"cleanData", "cleanManifest", "cleanSidecar"} /\ commands' = commands
  BY DEF CleanData, CleanManifest, CleanSidecar, At
<1>2. /\ command \in Commands /\ Progress(command, This("primary"), This("second"))
      /\ This("primary") \in Objects
  BY <1>1, RunningFacts
<1>3. command.code = -1 /\ (command.dump = "failed" => This("primary").edition = 0)
  BY <1>1, <1>2 DEF Progress, FailedIsGone, CodeTells
<1>4. /\ command' \in Commands /\ command'.dump = command.dump
      /\ \/ command'.step \in {"cleanManifest", "cleanSidecar"} /\ command'.code = -1
         \/ command'.step = "observe" /\ command'.code = 1
  BY <1>2, <1>3 DEF CleanData, CleanManifest, CleanSidecar, StepTo, Judged, Commands, Steps
<1>5. PICK o \in Objects :
        /\ o.edition \in {0, This("primary").edition}
        /\ Store("primary", o) \/ (stored' = stored /\ o = This("primary"))
  <2>1. /\ [This("primary") EXCEPT !.data = "none"] \in Objects
        /\ [This("primary") EXCEPT !.data = "none"].edition = This("primary").edition
    BY <1>2 DEF Objects
  <2>2. /\ [This("primary") EXCEPT !.edition = 0] \in Objects
        /\ [This("primary") EXCEPT !.edition = 0].edition = 0
    BY <1>2 DEF Objects
  <2>3. /\ [This("primary") EXCEPT !.sidecar = 0] \in Objects
        /\ [This("primary") EXCEPT !.sidecar = 0].edition = This("primary").edition
    BY <1>2 DEF Objects
  <2>4. \/ stored' = stored
        \/ Store("primary", [This("primary") EXCEPT !.data = "none"])
        \/ Store("primary", [This("primary") EXCEPT !.edition = 0])
        \/ Store("primary", [This("primary") EXCEPT !.sidecar = 0])
    BY DEF CleanData, CleanManifest, CleanSidecar
  <2>. QED
    BY <2>1, <2>2, <2>3, <2>4, <1>2
<1>6. Progress(command', o, This("second"))
  BY <1>3, <1>4, <1>5
     DEF Progress, Unopened, Dumping, FailedIsGone, Writing, Copying, CodeTells
<1>7. CASE Store("primary", o)
  BY <1>1, <1>4, <1>6, <1>7, StoredFacts
<1>8. CASE stored' = stored /\ o = This("primary")
  BY <1>1, <1>4, <1>6, <1>8, MovedFacts
<1>. QED
  BY <1>5, <1>7, <1>8

\* The copies.
LEMMA CopyStep ==
    ASSUME CommandInv, CopyData \/ CopyManifest \/ CopySidecar \/ CopyFails
    PROVE  CommandInv'
<1>1. command.step \in {"copyData", "copyManifest", "copySidecar"} /\ commands' = commands
  BY DEF CopyData, CopyManifest, CopySidecar, CopyFails, At
<1>2. /\ command \in Commands /\ Progress(command, This("primary"), This("second"))
      /\ This("primary") \in Objects /\ This("second") \in Objects
      /\ commands \in Ids /\ commands # 0
  BY <1>1, RunningFacts
<1>. DEFINE p == This("primary")
            s == This("second")
<1>3. /\ command.code = -1 /\ command.dump # "failed" /\ Whole(command, p) /\ p.edition > 0
      /\ command.promoted \/ p.sidecar = p.edition
      /\ command.step = "copyManifest" => s = [p EXCEPT !.edition = 0, !.sidecar = 0]
      /\ command.step = "copySidecar" => s = [p EXCEPT !.sidecar = 0]
  BY <1>1, <1>2 DEF Progress, FailedIsGone, Writing, Copying, CodeTells
<1>. DEFINE data == [p EXCEPT !.edition = 0, !.sidecar = 0]
            manifest == [s EXCEPT !.edition = p.edition]
            sidecar == [s EXCEPT !.sidecar = p.sidecar]
<1>4. data \in Objects /\ manifest \in Objects /\ sidecar \in Objects
  <2>1. p \in Objects /\ s \in Objects
    BY <1>2
  <2>. HIDE DEF p, s
  <2>2. data \in Objects
    <3>. DEFINE bare == [p EXCEPT !.edition = 0]
    <3>1. bare \in Objects
      BY <2>1 DEF Objects
    <3>2. data = [bare EXCEPT !.sidecar = 0]
      OBVIOUS
    <3>. HIDE DEF bare, data
    <3>. QED
      BY <3>1, <3>2 DEF Objects
  <2>3. manifest \in Objects
    BY <2>1 DEF Objects
  <2>4. sidecar \in Objects
    BY <2>1 DEF Objects
  <2>. QED
    BY <2>2, <2>3, <2>4
<1>5. command.step = "copyManifest" => manifest = [p EXCEPT !.sidecar = 0]
  BY <1>2, <1>3 DEF Objects
<1>6. command.step = "copySidecar" => sidecar = p
  BY <1>2, <1>3 DEF Objects
<1>7. CASE CopyFails
  <2>1. /\ command' \in Commands /\ command'.step = "judge" /\ command'.dump = command.dump
        /\ command'.code = -1 /\ command'.promoted = command.promoted /\ command'.warned
        /\ UNCHANGED <<stored, commands>>
    BY <1>7, <1>2, <1>3 DEF CopyFails, Commands, Steps
  <2>. HIDE DEF p, s
  <2>2. Progress(command', p, s)
    BY <2>1, <1>3
       DEF Progress, Unopened, Dumping, FailedIsGone, Writing, Copying, CodeTells, Whole
  <2>. QED
    BY <1>1, <2>1, <2>2, MovedFacts DEF p, s
<1>8. CASE CopyData \/ CopyManifest \/ CopySidecar
  <2>1. PICK o \in Objects :
          /\ Store("second", o)
          /\ command' \in Commands /\ command'.dump = command.dump
          /\ command'.code = -1 /\ command'.promoted = command.promoted
          /\ \/ command'.step = "copyManifest" /\ o = [p EXCEPT !.edition = 0, !.sidecar = 0]
             \/ command'.step = "copySidecar" /\ o = [p EXCEPT !.sidecar = 0]
             \/ command'.step = "judge" /\ o = p
    <3>1. CASE CopyData
      <4>1. Store("second", data) /\ command' = [command EXCEPT !.step = "copyManifest"]
        BY <3>1 DEF CopyData, StepTo
      <4>. QED
        BY <4>1, <1>2, <1>3, <1>4 DEF Commands, Steps
    <3>2. CASE CopyManifest
      <4>1. /\ Store("second", manifest) /\ command' = [command EXCEPT !.step = "copySidecar"]
            /\ command.step = "copyManifest"
        BY <3>2 DEF CopyManifest, StepTo, At
      <4>. QED
        BY <4>1, <1>2, <1>3, <1>4, <1>5 DEF Commands, Steps
    <3>3. CASE CopySidecar
      <4>1. /\ Store("second", sidecar)
            /\ command' = [command EXCEPT !.step = "judge", !.replicated = TRUE]
            /\ command.step = "copySidecar"
        BY <3>3 DEF CopySidecar, At
      <4>. QED
        BY <4>1, <1>2, <1>3, <1>4, <1>6 DEF Commands, Steps
    <3>. QED
      BY <1>8, <3>1, <3>2, <3>3
  <2>2. "second" \in Dests /\ "primary" \in Dests \ {"second"}
    BY DEF Dests
  <2>3. /\ stored' \in [Dests -> [Ids -> Objects]] /\ Unwritten'
        /\ This("second")' = o /\ This("primary")' = p
    BY <1>1, <1>2, <2>1, <2>2, StoreFacts
  <2>. HIDE DEF p, s, data, manifest, sidecar
  <2>4. Progress(command', p, o)
    BY <2>1, <1>3
       DEF Progress, Unopened, Dumping, FailedIsGone, Writing, Copying, CodeTells, Whole
  <2>5. CommandTypeOK'
    BY <1>1, <2>1, <2>3 DEF CommandInv, CommandTypeOK
  <2>. QED
    BY <1>1, <1>2, <2>3, <2>4, <2>5 DEF CommandInv
<1>. QED
  BY <1>7, <1>8

\* The code and the hook.
LEMMA JudgeStep ==
    ASSUME CommandInv, Judge \/ Observe
    PROVE  CommandInv'
<1>1. /\ command.step \in {"judge", "observe"} /\ UNCHANGED <<stored, commands>>
  BY DEF Judge, Observe, At
<1>2. /\ command \in Commands /\ Progress(command, This("primary"), This("second"))
  BY <1>1, RunningFacts
<1>3. CASE Judge
  <2>1. /\ command' \in Commands /\ command'.step = "observe" /\ command'.dump = command.dump
        /\ \/ command'.code = 4
           \/ command'.code = 0 /\ ~ command.warned /\ ~ command.promoted
    BY <1>3, <1>2 DEF Judge, Judged, Commands, Steps
  <2>2. command.step = "judge"
    BY <1>3 DEF Judge, At
  <2>3. /\ command.dump # "failed" /\ Whole(command, This("primary"))
        /\ This("primary").edition > 0
        /\ command.promoted \/ This("primary").sidecar = This("primary").edition
        /\ command.warned \/ This("second") = This("primary")
    BY <2>2, <1>2 DEF Progress, FailedIsGone, Writing, Copying
  <2>4. Progress(command', This("primary"), This("second"))
    BY <2>1, <2>3
       DEF Progress, Unopened, Dumping, FailedIsGone, Writing, Copying, CodeTells, Whole
  <2>. QED
    BY <1>1, <2>1, <2>4, MovedFacts
<1>4. CASE Observe
  <2>1. /\ command.step = "observe"
        /\ command' = [command EXCEPT !.step = "exited", !.hooks = command'.hooks]
        /\ command'.hooks \in SUBSET {"pre_backup", "post_backup", "on_error"}
    BY <1>4, <1>2 DEF Observe, At, Commands, post_hook_event
  <2>2. /\ command' \in Commands /\ command'.step = "exited" /\ command'.dump = command.dump
        /\ command'.code = command.code
    BY <2>1, <1>2 DEF Commands, Steps
  <2>3. Progress(command', This("primary"), This("second"))
    BY <2>1, <2>2, <1>2
       DEF Progress, Unopened, Dumping, FailedIsGone, Writing, Copying, CodeTells, Whole
  <2>. QED
    BY <1>1, <2>2, <2>3, MovedFacts
<1>. QED
  BY <1>3, <1>4, <1>1 DEF Judge, Observe

\* The invariant of the backup command: how far the objects in both destinations have
\* come at each step, whatever fails, panics or is killed.
THEOREM CommandInvariance == CommandSpec => []CommandInv
<1>1. CommandInit => CommandInv
  BY CommandInitInv
<1>2. CommandInv /\ [CommandNext]_commandVars => CommandInv'
  <2>. SUFFICES ASSUME CommandInv, [CommandNext]_commandVars PROVE CommandInv'
    OBVIOUS
  <2>1. CASE UNCHANGED commandVars
    BY <2>1 DEF commandVars, CommandInv, CommandTypeOK, Unwritten, This
  <2>2. CASE \E r \in Requests : StartCommand(r)
    BY <2>2, StartCommandStep
  <2>3. CASE GatePasses \/ GateBlocks \/ PrecheckFails \/ Admit \/ OpenFails
    BY <2>3, EntryStep
  <2>4. CASE (\E p \in BOOLEAN : OpenFull(p)) \/ (\E size \in {0, 1} : OpenIncr(size))
    BY <2>4, OpenStep
  <2>5. CASE \/ \E outcome \in {"ok", "failed", "panicked"} : DumpEnds(outcome)
             \/ PutFails \/ PutData \/ FinishDump \/ \E ok \in BOOLEAN : ReadRange(ok)
    BY <2>5, DumpStep
  <2>6. CASE \E ok \in BOOLEAN :
               PutManifest(ok) \/ PutSidecar(ok) \/ RemarkManifest(ok) \/ RemarkSidecar(ok)
    BY <2>6, WriteStep
  <2>7. CASE \E ok \in BOOLEAN : CleanData(ok) \/ CleanManifest(ok) \/ CleanSidecar(ok)
    BY <2>7, CleanStep
  <2>8. CASE CopyData \/ CopyManifest \/ CopySidecar \/ CopyFails
    BY <2>8, CopyStep
  <2>9. CASE Judge \/ Observe
    BY <2>9, JudgeStep
  <2>10. CASE Killed
    BY <2>10, KilledStep
  <2>. QED
    BY <2>1, <2>2, <2>3, <2>4, <2>5, <2>6, <2>7, <2>8, <2>9, <2>10 DEF CommandNext
<1>. QED
  BY <1>1, <1>2, PTL DEF CommandSpec

\* The exit code is what the last step has learnt.
LEMMA ProgressTells == CommandInv => ExitTellsTruth
<1>. SUFFICES ASSUME CommandInv, command.dump # "panicked"
              PROVE  /\ Exited({0}) => \A d \in Dests : Verifies(This(d))
                     /\ Exited({4}) => Restorable(This("primary"))
                     /\ Exited({1, 2, 3}) /\ command.dump = "failed" => This("primary").edition = 0
  BY DEF ExitTellsTruth
<1>1. Progress(command, This("primary"), This("second"))
  BY DEF CommandInv
<1>2. Exited({0}) => \A d \in Dests : Verifies(This(d))
  BY <1>1 DEF Progress, CodeTells, Exited, Verifies, Restorable, Whole, Dests
<1>3. Exited({4}) => Restorable(This("primary"))
  BY <1>1 DEF Progress, CodeTells, Exited, Restorable, Whole
<1>4. command.dump = "failed" => This("primary").edition = 0
  BY <1>1 DEF Progress, FailedIsGone
<1>. QED
  BY <1>2, <1>3, <1>4

\* Whatever fails, and whenever the process is killed (store_dump_stream,
\* replicate_and_warn, the exit code).
THEOREM CodeIsTrue == CommandSpec => []ExitTellsTruth
  BY CommandInvariance, ProgressTells, PTL

================================================================================
