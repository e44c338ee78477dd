------------------------------- MODULE PgChain -------------------------------
(***************************************************************************)
(* PostgreSQL full and incremental backups over one logical replication    *)
(* slot (src/pipeline/backup.rs, src/engine/postgres/incremental.rs,       *)
(* src/cli/handlers/backup.rs) and the restore of what they leave          *)
(* (src/pipeline/pg_pitr.rs).                                              *)
(*                                                                         *)
(* The database is its history of committed transactions: transaction n    *)
(* either changes rows (wal[n]) or produces no row change.  A manifest     *)
(* holds the set of row-changing transactions its archive can restore.     *)
(* One command runs at a time (the profile lock); transactions commit, and *)
(* the slot may be invalidated or dropped, between any two of its steps,   *)
(* and every step may fail or the process die.                             *)
(***************************************************************************)
EXTENDS Integers, Sequences, FiniteSets

CONSTANTS
    MaxWal,      \* bound: committed transactions
    MaxBackups,  \* bound: manifests in the destination
    Batch        \* MAX_CHANGES_PER_CAPTURE, in transactions

ASSUME BoundsAssumption ==
    MaxWal \in Nat /\ MaxBackups \in Nat /\ Batch \in Nat \ {0}

VARIABLES
    wal,     \* for each committed transaction, whether it changed rows
    slot,    \* the replication slot: its health and its confirmed position
    store,   \* the manifests of the destination, oldest id first
    pgStep,      \* the step the running command is at
    cur,     \* what the running command has learnt so far
    orphan,  \* history: the slot was created for a full backup that never came
    tainted  \* history: the bases that got an increment from an orphan slot

pgVars == <<wal, slot, store, pgStep, cur, orphan, tainted>>

Now == Len(wal)

\* The row changes among the transactions of a set of positions.
Rows(positions) == {n \in positions : wal[n]}

Slots == [health : {"missing", "active", "lost"}, pos : Nat]

Manifests == [kind : {"full", "incr"}, selective : BOOLEAN, base : Nat,
              upto : Nat, data : SUBSET Nat]

Runs == [selective : BOOLEAN, owner : BOOLEAN, base : Nat, upto : Nat, data : SUBSET Nat]

NoRun == [selective |-> FALSE, owner |-> FALSE, base |-> 0, upto |-> 0, data |-> {}]

PgTypeOK ==
    /\ wal \in Seq(BOOLEAN)
    /\ slot \in Slots
    /\ store \in Seq(Manifests)
    /\ pgStep \in {"idle", "drop", "create", "dump", "publish", "base", "peek",
               "save", "advance"}
    /\ cur \in Runs
    /\ orphan \in BOOLEAN
    /\ tainted \in SUBSET Nat

PgInit ==
    /\ wal = <<>>
    /\ slot = [health |-> "missing", pos |-> 0]
    /\ store = <<>>
    /\ pgStep = "idle"
    /\ cur = NoRun
    /\ orphan = FALSE
    /\ tainted = {}

--------------------------------------------------------------------------------
(* The server.                                                             *)

Commit(row) ==
    /\ Now < MaxWal
    /\ wal' = Append(wal, row)
    /\ UNCHANGED <<slot, store, pgStep, cur, orphan, tainted>>

\* The WAL the slot needs is removed, or somebody drops the slot.
SlotBreaks(health) ==
    /\ slot.health = "active"
    /\ slot' = [slot EXCEPT !.health = health]
    /\ UNCHANGED <<wal, store, pgStep, cur, orphan, tainted>>

--------------------------------------------------------------------------------
(* Full backup.                                                            *)

\* With pg_logical on, a full backup of everything owns a new slot; a
\* selective one, or one with the feature off, leaves the slot alone.
BeginFull(selective, enable_incremental) ==
    /\ cur' = [NoRun EXCEPT !.selective = selective,
                            !.owner = enable_incremental /\ ~ selective]
    /\ pgStep' = IF enable_incremental /\ ~ selective THEN "drop" ELSE "dump"

StartFull ==
    /\ pgStep = "idle"
    /\ Len(store) < MaxBackups
    /\ \E selective, enable \in BOOLEAN : BeginFull(selective, enable)
    /\ UNCHANGED <<wal, slot, store, orphan, tainted>>

\* recreate_slot_and_publication: drop the slot if there is one ...
DropSlot ==
    /\ pgStep = "drop"
    /\ slot' = [slot EXCEPT !.health = "missing"]
    /\ pgStep' = "create"
    /\ UNCHANGED <<wal, store, cur, orphan, tainted>>

\* ... and create it at the current position.
CreateSlot ==
    /\ pgStep = "create"
    /\ slot' = [health |-> "active", pos |-> Now]
    /\ orphan' = FALSE
    /\ pgStep' = "dump"
    /\ UNCHANGED <<wal, store, cur, tainted>>

\* The dump reads one REPEATABLE READ snapshot.
Dump ==
    /\ pgStep = "dump"
    /\ cur' = [cur EXCEPT !.upto = Now, !.data = Rows(1..Now)]
    /\ pgStep' = "publish"
    /\ UNCHANGED <<wal, slot, store, orphan, tainted>>

PublishFull ==
    /\ pgStep = "publish"
    /\ store' = Append(store,
                  [kind |-> "full", selective |-> cur.selective, base |-> 0,
                   upto |-> cur.upto, data |-> cur.data])
    /\ pgStep' = "idle"
    /\ cur' = NoRun
    /\ UNCHANGED <<wal, slot, orphan, tainted>>

--------------------------------------------------------------------------------
(* Incremental backup.                                                     *)

Bases == {i \in 1..Len(store) : store[i].kind = "full" /\ ~ store[i].selective}

\* select_pg_full_base, and latest_pg_full of the restore.
NewestBase == CHOOSE i \in Bases : \A j \in Bases : j <= i

\* A slot that is gone, or whose WAL is, has broken the chain: the run becomes a
\* full backup, which makes a new slot.
promote_pg_incremental_to_full == BeginFull(FALSE, TRUE)

\* handle_pg_incremental: only an active slot is read.
StartIncr ==
    /\ pgStep = "idle"
    /\ Len(store) < MaxBackups
    /\ IF slot.health = "active" THEN pgStep' = "base" /\ cur' = NoRun
                                 ELSE promote_pg_incremental_to_full
    /\ UNCHANGED <<wal, slot, store, orphan, tainted>>

SelectBase ==
    /\ pgStep = "base"
    /\ Bases # {}
    /\ cur' = [cur EXCEPT !.base = NewestBase]
    /\ pgStep' = "peek"
    /\ UNCHANGED <<wal, slot, store, orphan, tainted>>

\* capture: peek, without consuming, at most Batch transactions.
Peek ==
    /\ pgStep = "peek"
    /\ slot.health = "active"
    /\ \E last \in {IF slot.pos + Batch < Now THEN slot.pos + Batch ELSE Now} :
         cur' = [cur EXCEPT !.upto = last, !.data = Rows(slot.pos + 1 .. last)]
    /\ pgStep' = "save"
    /\ UNCHANGED <<wal, slot, store, orphan, tainted>>

\* data.bin (none for an empty slice) and then the manifest.
SaveSlice ==
    /\ pgStep = "save"
    /\ store' = Append(store,
                  [kind |-> "incr", selective |-> FALSE, base |-> cur.base,
                   upto |-> cur.upto, data |-> cur.data])
    /\ tainted' = IF orphan THEN tainted \cup {cur.base} ELSE tainted
    /\ pgStep' = "advance"
    /\ UNCHANGED <<wal, slot, cur, orphan>>

\* Bug: the slot is moved to the newest position, not to the last one captured.
AdvanceToNow ==
    /\ pgStep = "advance"
    /\ slot' = IF slot.health = "active" THEN [slot EXCEPT !.pos = Now] ELSE slot
    /\ pgStep' = "idle"
    /\ cur' = NoRun
    /\ UNCHANGED <<wal, store, orphan, tainted>>

\* A slot that broke meanwhile is not moved: the command warns and ends.
advance_slot(pos) ==
    slot' = IF slot.health = "active" THEN [slot EXCEPT !.pos = pos] ELSE slot

\* Only now is the slot moved past what was captured.
AdvanceSlot ==
    /\ pgStep = "advance"
    /\ advance_slot(cur.upto)
    /\ pgStep' = "idle"
    /\ cur' = NoRun
    /\ UNCHANGED <<wal, store, orphan, tainted>>

\* Any step fails or the process dies; what was not yet published is gone, and
\* a slot made for a full backup that will not come stays.
Abort ==
    /\ pgStep # "idle"
    /\ pgStep' = "idle"
    /\ cur' = NoRun
    /\ orphan' = IF cur.owner /\ pgStep \in {"dump", "publish"} THEN TRUE ELSE orphan
    /\ UNCHANGED <<wal, slot, store, tainted>>

PgNext ==
    \/ \E row \in BOOLEAN : Commit(row)
    \/ \E health \in {"missing", "lost"} : SlotBreaks(health)
    \/ StartFull \/ DropSlot \/ CreateSlot \/ Dump \/ PublishFull
    \/ StartIncr \/ SelectBase \/ Peek \/ SaveSlice \/ AdvanceSlot
    \/ Abort

PgSpec == PgInit /\ [][PgNext]_pgVars

--------------------------------------------------------------------------------
(* What restoring brings back (run_pg_pitr).                               *)

SlicesOf(b) == {i \in 1..Len(store) : store[i].kind = "incr" /\ store[i].base = b}

\* How far base b and its slices claim to reach.
Reach(b) == LET ends == {store[i].upto : i \in SlicesOf(b) \cup {b}}
            IN  CHOOSE n \in ends : \A m \in ends : m <= n

\* --at latest: the base and every change of its slices.
RestoreLatest(b) == store[b].data \cup UNION {store[i].data : i \in SlicesOf(b)}

\* Bug: a slice is applied or left out as a whole.
RestoreAtWholeSlices(t) ==
    store[NewestBase].data
      \cup UNION {store[i].data : i \in {j \in SlicesOf(NewestBase) : store[j].upto <= t}}

\* --at t without --id: the newest base, and of the slices the changes whose
\* commit time is not later than t.
RestoreAt(t) ==
    store[NewestBase].data
      \cup {n \in UNION {store[i].data : i \in SlicesOf(NewestBase)} : n <= t}

\* Restoring a base with its increments brings back every row change up to the
\* chain's end, however full and incremental runs, failures, lost slots and
\* re-captures alternated, unless an increment was taken from a slot whose
\* full backup had failed.
NoGapUnlessTainted ==
    \A b \in Bases \ tainted : RestoreLatest(b) = Rows(1..Reach(b))

\* A restore to a moment that the selected base precedes brings back exactly
\* the row changes committed by then.
RestoreAtExact ==
    (Bases # {} /\ NewestBase \notin tainted) =>
        \A t \in store[NewestBase].upto .. Reach(NewestBase) : RestoreAt(t) = Rows(1..t)

=============================================================================
