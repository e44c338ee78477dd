------------------------------- MODULE MCStored -------------------------------
(***************************************************************************)
(* What is stored, and what comes back of it, for TLC: the chain of a      *)
(* MongoDB profile, what prunes leave of a destination's chains, the       *)
(* restore of a PostgreSQL archive, and the files of the console's job     *)
(* history.  They share no state, so a behaviour is about one of them:     *)
(* part says which.                                                        *)
(***************************************************************************)
EXTENDS MCMongoChain, MCRetention, MCPgRestore, JobHistory

VARIABLE part

AllHistoryFaults == {"write", "crash", "power", "remove", "budget"}

StoredInit ==
    /\ part \in {"chain", "retention", "restore", "history"}
    /\ MongoInit /\ Init /\ PgRestoreInit /\ HistoryInit
    /\ part # "retention" => policy = [NoRule EXCEPT !.keep_full = {1}]
    /\ part # "restore" => schema = NoObjects /\ copies = [t \in PgTables |-> 0]

\* One selective backup at most: it takes no part in any chain.
OneSelective ==
    Cardinality({i \in DOMAIN backups : backups[i].selective}) + (IF cur.selective THEN 1 ELSE 0) <= 1

StoredNext ==
    \/ part = "chain" /\ MongoNext /\ OneSelective' /\ UNCHANGED <<vars, pgRestoreVars, historyVars>>
    \/ part = "retention" /\ RetentionNext /\ UNCHANGED <<mongoVars, pgRestoreVars, historyVars>>
    \/ part = "restore" /\ PgRestoreNext /\ UNCHANGED <<mongoVars, vars, historyVars>>
    \/ part = "history" /\ HistoryNext /\ UNCHANGED <<mongoVars, vars, pgRestoreVars>>

storedVars == <<mongoVars, vars, pgRestoreVars, historyVars, part>>

StoredSpec == StoredInit /\ [][StoredNext /\ UNCHANGED part]_storedVars
=============================================================================
