----------------------------- MODULE MysqlChain ------------------------------
(***************************************************************************)
(* MySQL full and incremental backups over the binary log                  *)
(* (src/engine/mysql/backup.rs, src/engine/mysql/incremental.rs,           *)
(* src/pipeline/backup.rs) and the restore of what they leave              *)
(* (src/pipeline/mysql_pitr.rs).                                           *)
(*                                                                         *)
(* The server keeps no slot: the chain is held together by the coordinates *)
(* its manifests record.  The log is the sequence of the committed         *)
(* transactions, each in one of the files the server rotates and purges;   *)
(* moments are counted in it, too: moment n is that of the n-th commit.    *)
(* One command runs at a time (the profile lock); transactions commit, and *)
(* files are rotated and purged, between any two of its steps, except      *)
(* while the read lock of a dump is held.                                  *)
(***************************************************************************)
EXTENDS Integers, Sequences, FiniteSets, FiniteSetsExt

CONSTANTS
    MaxBinlog,         \* bound: committed transactions
    MaxFiles,          \* bound: files of the binary log
    MaxMysqlBackups,   \* bound: manifests in the destination
    MaxCapture         \* MAX_CHANGES_PER_CAPTURE, in transactions that change rows

ASSUME MysqlAssumption ==
    /\ MaxBinlog \in Nat /\ MaxMysqlBackups \in Nat
    /\ MaxFiles \in Nat \ {0} /\ MaxCapture \in Nat \ {0}

VARIABLES
    binlog,     \* the committed transactions: what each is, its file and its times
    logFile,    \* the file the server writes
    purged,     \* the files up to this one are gone
    readLock,   \* FLUSH TABLES WITH READ LOCK is held
    mysqlDest,  \* the manifests of the destination, oldest id first
    mysqlStep,  \* the step of the running command
    mysqlRun    \* what the running command has learnt so far

mysqlVars == <<binlog, logFile, purged, readLock, mysqlDest, mysqlStep, mysqlRun>>
server == <<binlog, logFile, purged>>

\* What a transaction is to a capture: rows of the source database committed
\* with an XID, rows of a table without transactions (no XID), rows of another
\* database, or rows in a partial update, which a capture skips.
TxKinds == {"row", "noxid", "otherdb", "partial"}

LastTx == Len(binlog)
OfKinds(kinds, positions) == {n \in positions : binlog[n].kind \in kinds}

\* The changes of the source database among a set of positions.
Changes(positions) == OfKinds({"row", "noxid", "partial"}, positions)

\* began is the moment at which the second of its first row has begun: the header of
\* a row gives the second of its statement, at or before the commit.  The time of the
\* commit itself is in the log only when the transaction has a GTID.
Txs == [kind : TxKinds, file : 1..MaxFiles, gtid : BOOLEAN, began : Nat]

Coords == [file : Nat, pos : Nat]
NoCoords == [file |-> 0, pos |-> 0]

\* History fields: the dump was made under the read lock, the moment of its
\* snapshot, and the moment at which it had read its last table.
MysqlManifests == [kind : {"full", "incr"}, selective : BOOLEAN, locked : BOOLEAN,
                   base : Nat, snap : Nat, read : Nat, coords : Coords, data : SUBSET Nat]

IdleRun == [kind |-> "full", selective |-> FALSE, locked |-> FALSE,
            base |-> 0, snap |-> 0, read |-> 0, coords |-> NoCoords, data |-> {}]

MysqlTypeOK ==
    /\ binlog \in Seq(Txs) /\ \A n \in 1..LastTx : binlog[n].began <= n
    /\ logFile \in 1..MaxFiles
    /\ purged \in 0..(MaxFiles - 1)
    /\ readLock \in BOOLEAN
    /\ mysqlDest \in Seq(MysqlManifests)
    /\ mysqlStep \in {"idle", "lock", "snapshot", "coords", "tables", "publish", "gap", "capture"}
    /\ mysqlRun \in MysqlManifests

MysqlInit ==
    /\ binlog = <<>>
    /\ logFile = 1
    /\ purged = 0
    /\ readLock = FALSE
    /\ mysqlDest = <<>>
    /\ mysqlStep = "idle"
    /\ mysqlRun = IdleRun

--------------------------------------------------------------------------------
(* The server.                                                             *)

BinlogCommit(kind, gtid, began) ==
    /\ LastTx < MaxBinlog
    /\ ~ readLock
    /\ began <= LastTx + 1
    /\ binlog' = Append(binlog, [kind |-> kind, file |-> logFile, gtid |-> gtid, began |-> began])
    /\ UNCHANGED <<logFile, purged, readLock, mysqlDest, mysqlStep, mysqlRun>>

RotateBinlog ==
    /\ logFile < MaxFiles
    /\ logFile' = logFile + 1
    /\ UNCHANGED <<binlog, purged, readLock, mysqlDest, mysqlStep, mysqlRun>>

PurgeBinlog ==
    /\ purged + 1 < logFile
    /\ purged' = purged + 1
    /\ UNCHANGED <<binlog, logFile, readLock, mysqlDest, mysqlStep, mysqlRun>>

--------------------------------------------------------------------------------
(* Full backup.                                                            *)

StartMysqlFull ==
    /\ mysqlStep = "idle"
    /\ Len(mysqlDest) < MaxMysqlBackups
    /\ \E selective \in BOOLEAN : mysqlRun' = [IdleRun EXCEPT !.selective = selective]
    /\ mysqlStep' = "lock"
    /\ UNCHANGED <<server, readLock, mysqlDest>>

\* The lock needs a privilege: refused, the dump goes on without it.
TakeReadLock ==
    /\ mysqlStep = "lock"
    /\ \E granted \in BOOLEAN :
         /\ readLock' = granted
         /\ mysqlRun' = [mysqlRun EXCEPT !.locked = granted]
    /\ mysqlStep' = "snapshot"
    /\ UNCHANGED <<server, mysqlDest>>

\* START TRANSACTION WITH CONSISTENT SNAPSHOT: the tables with transactions will be
\* read as of this moment.
OpenSnapshot ==
    /\ mysqlStep = "snapshot"
    /\ mysqlRun' = [mysqlRun EXCEPT !.snap = LastTx,
                                    !.data = OfKinds({"row", "partial"}, 1..LastTx)]
    /\ mysqlStep' = "coords"
    /\ UNCHANGED <<server, readLock, mysqlDest>>

\* SHOW MASTER STATUS may be refused, or the log may be off: no coordinates.
current_coords == {[file |-> logFile, pos |-> LastTx], NoCoords}

\* The coordinates are read, and the lock is released.
ReadCoords ==
    /\ mysqlStep = "coords"
    /\ \E coords \in current_coords : mysqlRun' = [mysqlRun EXCEPT !.coords = coords]
    /\ readLock' = FALSE
    /\ mysqlStep' = "tables"
    /\ UNCHANGED <<server, mysqlDest>>

\* dump_table, one table after the other.  A table without transactions is read as
\* it is when its SELECT runs: what it shows of the changes since the snapshot
\* depends on when that was.
DumpTables ==
    /\ mysqlStep = "tables"
    /\ \E late \in SUBSET OfKinds({"noxid"}, mysqlRun.snap + 1 .. LastTx) :
         mysqlRun' = [mysqlRun EXCEPT
            !.data = @ \cup OfKinds({"noxid"}, 1 .. mysqlRun.snap) \cup late,
            !.read = LastTx]
    /\ mysqlStep' = "publish"
    /\ UNCHANGED <<server, readLock, mysqlDest>>

\* data.bin, the end of the dump, and then the manifest (of either kind).
PublishMysql ==
    /\ mysqlStep = "publish"
    /\ mysqlDest' = Append(mysqlDest, mysqlRun)
    /\ mysqlStep' = "idle"
    /\ mysqlRun' = IdleRun
    /\ UNCHANGED <<server, readLock>>

--------------------------------------------------------------------------------
(* Incremental backup.                                                     *)

is_mysql_full(m) == m.kind = "full" /\ ~ m.selective

MysqlBases == {i \in DOMAIN mysqlDest : is_mysql_full(mysqlDest[i])}
latest_mysql_full == Max(MysqlBases)

\* The ids sort by time, so these are in the order of their capture.
collect_mysql_increments(b) ==
    {i \in DOMAIN mysqlDest : mysqlDest[i].kind = "incr" /\ mysqlDest[i].base = b}

\* The end of the last increment; of the base, when there is none.
chain_start_coords(b) == mysqlDest[Max(collect_mysql_increments(b) \cup {b})].coords

\* A base without coordinates ends the command.
StartMysqlIncr ==
    /\ mysqlStep = "idle"
    /\ Len(mysqlDest) < MaxMysqlBackups
    /\ MysqlBases # {}
    /\ chain_start_coords(latest_mysql_full) # NoCoords
    /\ mysqlRun' = [IdleRun EXCEPT !.kind = "incr", !.base = latest_mysql_full,
                                   !.coords = chain_start_coords(latest_mysql_full)]
    /\ mysqlStep' = "gap"
    /\ UNCHANGED <<server, readLock, mysqlDest>>

binlog_available(coords) == coords.file > purged

\* A gap in the log: the run becomes a full backup.
CheckGap ==
    /\ mysqlStep = "gap"
    /\ \/ /\ binlog_available(mysqlRun.coords)
          /\ mysqlStep' = "capture"
          /\ UNCHANGED mysqlRun
       \/ /\ ~ binlog_available(mysqlRun.coords)
          /\ mysqlStep' = "lock"
          /\ mysqlRun' = IdleRun
    /\ UNCHANGED <<server, readLock, mysqlDest>>

\* The first position at which enough changes are written, or the last one of
\* all; a capture stops, and moves its end, only where a transaction has an XID.
Boundary(start) ==
    LET xids == OfKinds({"row", "otherdb", "partial"}, start + 1 .. LastTx)
        full == {n \in xids :
                   Cardinality(OfKinds({"row", "noxid"}, start + 1 .. n)) >= MaxCapture}
    IN  IF full # {} THEN Min(full) ELSE Max(xids \cup {start})

\* Bug: the next capture starts where the stream ended.
EndOfStream(start, stop) == [file |-> logFile, pos |-> LastTx]

\* Where the next capture starts: behind the last XID that was read.
EndCoords(start, stop) ==
    IF stop = start.pos THEN start ELSE [file |-> binlog[stop].file, pos |-> stop]

\* capture: the stream ends at the end of the log.  A file purged since the
\* check fails the stream.
CaptureBinlog ==
    /\ mysqlStep = "capture"
    /\ binlog_available(mysqlRun.coords)
    /\ LET start == mysqlRun.coords
           stop == Boundary(start.pos)
       IN  mysqlRun' = [mysqlRun EXCEPT
              !.data = OfKinds({"row", "noxid"}, start.pos + 1 .. stop),
              !.coords = EndCoords(start, stop)]
    /\ mysqlStep' = "publish"
    /\ UNCHANGED <<server, readLock, mysqlDest>>

\* Any step fails or the process dies: nothing is published, and the server
\* drops the lock with the connection.
AbortMysql ==
    /\ mysqlStep # "idle"
    /\ mysqlStep' = "idle"
    /\ mysqlRun' = IdleRun
    /\ readLock' = FALSE
    /\ UNCHANGED <<server, mysqlDest>>

MysqlNext ==
    \/ \E kind \in TxKinds, gtid \in BOOLEAN, began \in 0..MaxBinlog : BinlogCommit(kind, gtid, began)
    \/ RotateBinlog \/ PurgeBinlog
    \/ StartMysqlFull \/ TakeReadLock \/ OpenSnapshot \/ ReadCoords
    \/ DumpTables \/ PublishMysql
    \/ StartMysqlIncr \/ CheckGap \/ CaptureBinlog
    \/ AbortMysql

MysqlSpec == MysqlInit /\ [][MysqlNext]_mysqlVars

--------------------------------------------------------------------------------
(* What restoring brings back.                                             *)

\* What a capture records of a change as the time of its commit.
commit_unix_micros(n) == IF binlog[n].gtid THEN n ELSE binlog[n].began

Latest == -1

\* run_mysql_pitr --at: the base, and the changes of its increments whose recorded
\* time is not later.
run_mysql_pitr(b, at) ==
    mysqlDest[b].data
      \cup {n \in UNION {mysqlDest[i].data : i \in collect_mysql_increments(b)} :
               at = Latest \/ commit_unix_micros(n) <= at}

\* How far base b and its increments claim to reach.
MysqlReach(b) == Max({mysqlDest[i].coords.pos : i \in collect_mysql_increments(b)}
                       \cup {mysqlDest[b].snap})

\* Between the snapshot of base b and its coordinates, when nothing held the
\* writers back.
Window(b) == IF mysqlDest[b].locked THEN {}
             ELSE mysqlDest[b].snap + 1 .. mysqlDest[b].coords.pos

\* Between the snapshot of base b and the end of its dump, in the tables that
\* the snapshot does not cover.
ReadLate(b) == OfKinds({"noxid"}, mysqlDest[b].snap + 1 .. mysqlDest[b].read)

\* Committed after moment t, without a GTID, with rows of a second that had begun
\* by then.
BeganEarly(t) == {n \in t + 1 .. LastTx : ~ binlog[n].gtid /\ binlog[n].began <= t}

\* A restore to any moment that the chain covers, or to the latest, brings back
\* the changes committed by then, whatever was rotated, purged, promoted or
\* aborted.  It may miss commits between the snapshot and the coordinates of a
\* dump without the read lock, and partial updates.  It may bring back, too, what
\* tables without transactions took in before the dump read them (write_archive),
\* and, where no GTID gives the time of a commit, transactions that committed
\* later but whose rows carry a second that is not (capture, apply).
MysqlLossIsKnown ==
    \A b \in MysqlBases : \A at \in (mysqlDest[b].snap .. MysqlReach(b)) \cup {Latest} :
        LET t    == IF at = Latest THEN MysqlReach(b) ELSE at
            back == run_mysql_pitr(b, at)
        IN  /\ Changes(1..t) \ back
                 \subseteq Window(b) \cup OfKinds({"partial"}, mysqlDest[b].snap + 1 .. t)
            /\ back \ Changes(1..t) \subseteq ReadLate(b) \cup BeganEarly(t)

=============================================================================
