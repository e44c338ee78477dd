--------------------------- MODULE BackupCommand -----------------------------
(***************************************************************************)
(* The backup command from its first check to its exit code                *)
(* (src/cli/handlers/backup.rs, src/hooks/mod.rs), the storing of a dump   *)
(* (store_dump_stream and write_manifest_or_cleanup of                     *)
(* src/pipeline/backup.rs, src/manifest/store.rs, src/storage/) and the    *)
(* copies in the other destinations (replicate_artifact).                  *)
(*                                                                         *)
(* A backup is three objects: the data, its manifest and the checksum of   *)
(* the manifest (the sidecar).  Every request to a storage may fail, the   *)
(* dump may fail after it has sent a part of its stream, and the process   *)
(* may be killed between any two requests.  What a chain of backups means  *)
(* is the subject of the modules of the engines; here a backup is its      *)
(* objects and the number of rows it counted.                              *)
(***************************************************************************)
EXTENDS Integers, FiniteSets, FiniteSetsExt

CONSTANTS
    MaxCommands,      \* bound: commands run, one after the other
    RowCounts,        \* the numbers of rows a full backup may count
    MinPreviousRows,  \* MIN_PREVIOUS_ROWS
    DropPercent       \* --warn-drop-percent

ASSUME CommandAssumption ==
    /\ MaxCommands \in Nat \ {0} /\ RowCounts \subseteq Nat
    /\ MinPreviousRows \in Nat /\ DropPercent \in Nat

Dests == {"primary", "second"}
Engines == {"mongo", "pg", "mysql", "file"}

VARIABLES
    stored,     \* destination -> id -> the objects of the backup
    command,    \* the command that runs, or has ended
    commands    \* how many commands were started: the id of the backup

commandVars == <<stored, command, commands>>

Ids == 1 .. MaxCommands
\* edition is what the manifest says: 1, or 2 once the mark of a promotion is
\* in it; the sidecar holds the checksum of an edition.
NoObjects == [data |-> "none", size |-> 0, edition |-> 0, sidecar |-> 0,
              kind |-> "full", base |-> 0, rows |-> 0]
Objects == [data : {"none", "cut", "whole"}, size : {0, 1}, edition : 0 .. 2, sidecar : 0 .. 2,
            kind : {"full", "selective", "incr"}, base : 0 .. MaxCommands, rows : Nat]

Requests == [engine : Engines, incr : BOOLEAN, selective : BOOLEAN, digest : BOOLEAN,
             feature : BOOLEAN, hooks : BOOLEAN]

Steps == {"gate", "admit", "open", "dump", "put", "finish", "range", "manifest", "sidecar",
          "remark", "remarkSidecar", "cleanData", "cleanManifest", "cleanSidecar",
          "copyData", "copyManifest", "copySidecar", "judge", "observe", "exited"}

\* dump: the task that writes the stream; code: the exit code, -1 until judged;
\* hooks: the hooks that ran; warned: something to warn about has happened.
Commands == [request : Requests, step : Steps, dump : {"none", "running", "ok", "failed", "panicked"},
             promoted : BOOLEAN, warned : BOOLEAN, replicated : BOOLEAN, code : {-1, 0, 1, 2, 3, 4},
             hooks : SUBSET {"pre_backup", "post_backup", "on_error"}]

CommandTypeOK ==
    /\ stored \in [Dests -> [Ids -> Objects]]
    /\ command \in Commands
    /\ commands \in 0 .. MaxCommands

NoRequest == [engine |-> "mongo", incr |-> FALSE, selective |-> FALSE, digest |-> FALSE,
              feature |-> FALSE, hooks |-> FALSE]
Ended == [request |-> NoRequest, step |-> "exited", dump |-> "none", promoted |-> FALSE,
          warned |-> FALSE, replicated |-> FALSE, code |-> -1, hooks |-> {}]

CommandInit ==
    /\ stored = [d \in Dests |-> [i \in Ids |-> NoObjects]]
    /\ command = Ended
    /\ commands = 0

req == command.request
This(d) == stored[d][commands]
Store(d, objects) == stored' = [stored EXCEPT ![d][commands] = objects]
At(step) == command.step = step
StepTo(step) == command' = [command EXCEPT !.step = step]
\* The command's result is known; what is left is its hook.
Judged(code) == command' = [command EXCEPT !.step = "observe", !.code = code]

-----------------------------------------------------------------------------
(* The way to the dump *)

\* A command is started.  Conflicts over the lock and errors of the
\* configuration end it before anything else and are left out.
StartCommand(r) ==
    /\ At("exited") /\ commands < MaxCommands
    /\ command' = [Ended EXCEPT !.request = r, !.step = "gate"]
    /\ commands' = commands + 1
    /\ UNCHANGED stored

\* run_gate: a hook that fails or runs into its time limit stops the command.
GatePasses ==
    /\ At("gate")
    /\ command' = [command EXCEPT !.step = "admit",
                      !.hooks = IF req.hooks THEN @ \cup {"pre_backup"} ELSE @]
    /\ UNCHANGED <<stored, commands>>

GateBlocks ==
    /\ At("gate") /\ req.hooks
    /\ command' = [command EXCEPT !.step = "exited", !.code = 1, !.hooks = @ \cup {"pre_backup"}]
    /\ UNCHANGED <<stored, commands>>

\* What the handler of each engine refuses as wrong usage.
MongoRefuses(r) == r.incr /\ r.selective
PgRefuses(r) == r.digest \/ (r.incr /\ (~r.feature \/ r.selective))
MysqlRefuses(r) == r.incr /\ (~r.feature \/ r.selective)
FileRefuses(r) == r.digest \/ r.selective

Refuses(r) == CASE r.engine = "mongo" -> MongoRefuses(r)
                [] r.engine = "pg"    -> PgRefuses(r)
                [] r.engine = "mysql" -> MysqlRefuses(r)
                [] r.engine = "file"  -> FileRefuses(r)

\* The precheck of a database fails; directories have none, and PostgreSQL
\* refuses --content-digest before it.
PrecheckFails ==
    /\ At("admit") /\ req.engine # "file" /\ ~(req.engine = "pg" /\ req.digest)
    /\ Judged(3)
    /\ UNCHANGED <<stored, commands>>

Admit ==
    /\ At("admit")
    /\ IF Refuses(req) THEN Judged(2) ELSE StepTo("open")
    /\ UNCHANGED <<stored, commands>>

\* The newest manifest of a full backup; nothing looks at its data.
FullIds == {i \in 1 .. commands - 1 :
               stored["primary"][i].edition > 0 /\ stored["primary"][i].kind = "full"}

\* No connection, or an increment without anything to stand on.
OpenFails ==
    /\ At("open")
    /\ \/ Judged(1)
       \/ req.incr /\ FullIds = {} /\ Judged(2)
    /\ UNCHANGED <<stored, commands>>

\* A full backup, or an increment that a gap turns into one; for PostgreSQL a
\* slot that is not there is a gap, whether a full backup exists or not.
OpenFull(promoted) ==
    /\ At("open") /\ (promoted = req.incr)
    /\ promoted => FullIds # {} \/ req.engine = "pg"
    /\ \E rows \in RowCounts :
          Store("primary", [NoObjects EXCEPT !.size = 1, !.rows = rows,
                               !.kind = IF req.selective THEN "selective" ELSE "full"])
    /\ command' = [command EXCEPT !.step = "dump", !.dump = "running", !.promoted = promoted]
    /\ UNCHANGED commands

\* An increment; an empty one has no data and goes straight to its manifest.
OpenIncr(size) ==
    /\ At("open") /\ req.incr /\ FullIds # {}
    /\ Store("primary", [NoObjects EXCEPT !.kind = "incr", !.base = Max(FullIds), !.size = size])
    /\ command' = IF size = 0 THEN [command EXCEPT !.step = "manifest"]
                  ELSE [command EXCEPT !.step = "dump", !.dump = "running"]
    /\ UNCHANGED commands

-----------------------------------------------------------------------------
(* store_dump_stream *)

\* The task that writes the stream ends, the pipe with it: the reader sees the
\* end of the stream in every case.
DumpEnds(outcome) ==
    /\ At("dump") /\ command.dump = "running"
    /\ command' = [command EXCEPT !.dump = outcome, !.step = "put"]
    /\ UNCHANGED <<stored, commands>>

\* put_stream keeps nothing when it fails, also while the dump runs.
PutFails ==
    /\ command.step \in {"dump", "put"}
    /\ Judged(1)
    /\ UNCHANGED <<stored, commands>>

PutData ==
    /\ At("put")
    /\ Store("primary", [This("primary") EXCEPT !.data = IF command.dump = "ok" THEN "whole" ELSE "cut"])
    /\ StepTo("finish")
    /\ UNCHANGED commands

\* Bug: nobody asks how the dump ended.
NoFailedDumps == {}

\* finish: the outcomes of the task that count as a failure.  A task that has
\* panicked leaves no outcome, which every database engine takes for success;
\* the file engine passes the panic on.
DumpFailures == IF req.engine = "file" THEN {"failed", "panicked"} ELSE {"failed"}

FinishDump ==
    /\ At("finish")
    /\ StepTo(IF command.dump \in DumpFailures THEN "cleanData"
            ELSE IF req.engine = "mongo" THEN "range" ELSE "manifest")
    /\ UNCHANGED <<stored, commands>>

\* The end of the oplog range is read after the data is stored; when that
\* fails the data stays without a manifest.
ReadRange(ok) ==
    /\ At("range")
    /\ IF ok THEN StepTo("manifest") ELSE Judged(1)
    /\ UNCHANGED <<stored, commands>>

-----------------------------------------------------------------------------
(* The manifest, and the cleanup when it cannot be written *)

\* The manifest or its sidecar cannot be written.  The empty slice of a
\* PostgreSQL or MySQL increment is not cleaned up: what was written stays.
SaveFails ==
    IF req.engine \in {"pg", "mysql"} /\ This("primary").size = 0 THEN Judged(1)
    ELSE StepTo("cleanData")

PutManifest(ok) ==
    /\ At("manifest")
    /\ IF ok THEN Store("primary", [This("primary") EXCEPT !.edition = 1]) /\ StepTo("sidecar")
             ELSE UNCHANGED stored /\ SaveFails
    /\ UNCHANGED commands

PutSidecar(ok) ==
    /\ At("sidecar")
    /\ IF ok THEN /\ Store("primary", [This("primary") EXCEPT !.sidecar = 1])
                  /\ StepTo(IF command.promoted /\ req.engine = "mongo" THEN "remark" ELSE "copyData")
             ELSE UNCHANGED stored /\ SaveFails
    /\ UNCHANGED commands

\* promote_to_full writes the manifest a second time, with the mark of the
\* promotion, and then its sidecar; a failure of either is only logged.
RemarkManifest(ok) ==
    /\ At("remark")
    /\ IF ok THEN Store("primary", [This("primary") EXCEPT !.edition = 2]) /\ StepTo("remarkSidecar")
             ELSE UNCHANGED stored /\ StepTo("copyData")
    /\ UNCHANGED commands

RemarkSidecar(ok) ==
    /\ At("remarkSidecar")
    /\ IF ok THEN Store("primary", [This("primary") EXCEPT !.sidecar = 2]) ELSE UNCHANGED stored
    /\ StepTo("copyData")
    /\ UNCHANGED commands

\* cleanup deletes the data, the manifest and the sidecar, in this order, and
\* goes on when one of them cannot be deleted.
CleanData(ok) ==
    /\ At("cleanData")
    /\ IF ok THEN Store("primary", [This("primary") EXCEPT !.data = "none"]) ELSE UNCHANGED stored
    /\ StepTo("cleanManifest")
    /\ UNCHANGED commands

CleanManifest(ok) ==
    /\ At("cleanManifest")
    /\ IF ok THEN Store("primary", [This("primary") EXCEPT !.edition = 0]) ELSE UNCHANGED stored
    /\ StepTo("cleanSidecar")
    /\ UNCHANGED commands

CleanSidecar(ok) ==
    /\ At("cleanSidecar")
    /\ IF ok THEN Store("primary", [This("primary") EXCEPT !.sidecar = 0]) ELSE UNCHANGED stored
    /\ Judged(1)
    /\ UNCHANGED commands

-----------------------------------------------------------------------------
(* replicate_and_warn, the comparison of the rows and the exit code *)

\* The objects are copied in the order in which they were written.
CopyData ==
    /\ At("copyData")
    /\ Store("second", [This("primary") EXCEPT !.edition = 0, !.sidecar = 0])
    /\ StepTo("copyManifest")
    /\ UNCHANGED commands

CopyManifest ==
    /\ At("copyManifest")
    /\ Store("second", [This("second") EXCEPT !.edition = This("primary").edition])
    /\ StepTo("copySidecar")
    /\ UNCHANGED commands

CopySidecar ==
    /\ At("copySidecar")
    /\ Store("second", [This("second") EXCEPT !.sidecar = This("primary").sidecar])
    /\ command' = [command EXCEPT !.step = "judge", !.replicated = TRUE]
    /\ UNCHANGED commands

\* A copy that fails is a warning; what was copied so far stays.
CopyFails ==
    /\ command.step \in {"copyData", "copyManifest", "copySidecar"}
    /\ command' = [command EXCEPT !.step = "judge", !.warned = TRUE]
    /\ UNCHANGED <<stored, commands>>

\* compute_delta against the newest earlier full backup that counted rows:
\* a loss of at least DropPercent percent is a warning.
RowsDropped(previous, now) ==
    /\ DropPercent > 0
    /\ previous >= MinPreviousRows /\ now < previous
    /\ (previous - now) * 100 >= previous * DropPercent

find_previous == {i \in FullIds : stored["primary"][i].rows > 0}

DeltaWarns ==
    /\ ~req.selective /\ ~req.incr /\ req.engine # "file" /\ find_previous # {}
    /\ RowsDropped(stored["primary"][Max(find_previous)].rows, This("primary").rows)

Judge ==
    /\ At("judge")
    /\ Judged(IF command.warned \/ DeltaWarns \/ command.promoted THEN 4 ELSE 0)
    /\ UNCHANGED <<stored, commands>>

\* post_hook_event and run_observe: the hook cannot change the result.
post_hook_event(code) == IF code \in {0, 4} THEN "post_backup" ELSE "on_error"

Observe ==
    /\ At("observe")
    /\ command' = [command EXCEPT !.step = "exited",
                      !.hooks = IF req.hooks THEN @ \cup {post_hook_event(command.code)} ELSE @]
    /\ UNCHANGED <<stored, commands>>

\* The process is killed.
Killed ==
    /\ command.step # "exited"
    /\ command' = Ended
    /\ UNCHANGED <<stored, commands>>

CommandNext ==
    \/ \E r \in Requests : StartCommand(r)
    \/ GatePasses \/ GateBlocks \/ PrecheckFails \/ Admit
    \/ OpenFails \/ \E p \in BOOLEAN : OpenFull(p)
    \/ \E size \in {0, 1} : OpenIncr(size)
    \/ \E outcome \in {"ok", "failed", "panicked"} : DumpEnds(outcome)
    \/ PutFails \/ PutData \/ FinishDump
    \/ \E ok \in BOOLEAN : \/ ReadRange(ok) \/ PutManifest(ok) \/ PutSidecar(ok)
                           \/ RemarkManifest(ok) \/ RemarkSidecar(ok)
                           \/ CleanData(ok) \/ CleanManifest(ok) \/ CleanSidecar(ok)
    \/ CopyData \/ CopyManifest \/ CopySidecar \/ CopyFails
    \/ Judge \/ Observe \/ Killed

CommandSpec == CommandInit /\ [][CommandNext]_commandVars

-----------------------------------------------------------------------------
(* Properties *)

Exited(codes) == command.step = "exited" /\ command.code \in codes

\* What a restore needs of one backup, and what verify asks of it.
Restorable(o) == o.edition > 0 /\ (o.size = 1 => o.data = "whole")
Verifies(o) == Restorable(o) /\ o.sidecar = o.edition

\* The exit code can be relied on by whoever runs the command from a timer: 0
\* means that the backup is whole and verifies in every destination, 4 that it
\* can be restored from the first one, anything else that no backup claims to
\* have been made of a dump that failed.  A dump task that panics is outside
\* of it: its engine takes a stream cut short for a whole one.
ExitTellsTruth ==
    command.dump # "panicked" =>
       /\ Exited({0}) => \A d \in Dests : Verifies(This(d))
       /\ Exited({4}) => Restorable(This("primary"))
       /\ Exited({1, 2, 3}) /\ command.dump = "failed" => This("primary").edition = 0

\* src/pipeline/incremental.rs:368 says that a failure to write the mark of a
\* promotion leaves a valid backup; verify rejects it when only the manifest
\* was rewritten.
PromotedVerifies == Exited({0, 4}) => command.dump = "panicked" \/ Verifies(This("primary"))
=============================================================================
