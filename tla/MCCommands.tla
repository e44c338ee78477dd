----------------------------- MODULE MCCommands ------------------------------
(***************************************************************************)
(* The commands of a profile for TLC: the lock they take, the chains of    *)
(* the engines, and the way of one backup command to its exit code.  They  *)
(* do not share state (the lock makes the commands of a profile run one    *)
(* after the other, which is what the other modules assume), so a          *)
(* behaviour is about one of them: part says which.                        *)
(***************************************************************************)
EXTENDS FileLock, PgChain, MysqlChain, FileChain, BackupCommand

CONSTANTS p1, p2

VARIABLE part

MCPaths == {p1, p2}

\* The paths are interchangeable: the first file is at p1.
FirstPath == written = 0 => tree'[p2] = 0

MCHosts == {"h1", "h2"}
MCPids == 1..3
MCProcs == {<<"h1", 1>>, <<"h1", 2>>, <<"h2", 3>>}

CommandsInit ==
    /\ part \in {"lock", "pg", "mysql", "file", "command"}
    /\ Init /\ PgInit /\ MysqlInit /\ FileInit /\ CommandInit

\* Only the lock has no bound on its behaviours: the others end where their
\* bound does, and only the lock is checked for deadlock.
Bounded == part # "lock" /\ UNCHANGED <<vars, pgVars, mysqlVars, fileVars, commandVars>>

\* One selective backup at most, which no increment is based on, and two full ones:
\* with the third manifest a chain has an increment.
FewFulls ==
    /\ Cardinality({i \in DOMAIN mysqlDest : mysqlDest[i].selective})
         + (IF mysqlRun.selective THEN 1 ELSE 0) <= 1
    /\ Cardinality({i \in DOMAIN mysqlDest : mysqlDest[i].kind = "full"})
         + (IF mysqlStep # "idle" /\ mysqlRun.kind = "full" THEN 1 ELSE 0) <= 2

\* One transaction without a GTID at most, and its rows are of an earlier second:
\* of its own, they have the time that a GTID would give it.
OneEarly ==
    /\ \A n \in 1..LastTx :
           IF binlog[n].gtid THEN binlog[n].began = n
           ELSE binlog[n].began < n /\ binlog[n].kind \in {"row", "noxid"}
    /\ Cardinality({n \in 1..LastTx : ~ binlog[n].gtid}) <= 1

CommandsNext ==
    \/ part = "lock" /\ Next /\ UNCHANGED <<pgVars, mysqlVars, fileVars, commandVars>>
    \/ part = "pg" /\ PgNext /\ UNCHANGED <<vars, mysqlVars, fileVars, commandVars>>
    \/ /\ part = "mysql" /\ MysqlNext /\ FewFulls' /\ OneEarly'
       /\ UNCHANGED <<vars, pgVars, fileVars, commandVars>>
    \/ part = "file" /\ FileNext /\ FirstPath /\ UNCHANGED <<vars, pgVars, mysqlVars, commandVars>>
    \/ part = "command" /\ CommandNext /\ UNCHANGED <<vars, pgVars, mysqlVars, fileVars>>
    \/ Bounded

CommandsVars == <<vars, pgVars, mysqlVars, fileVars, commandVars, part>>

CommandsSpec == CommandsInit /\ [][CommandsNext /\ UNCHANGED part]_CommandsVars
=============================================================================
