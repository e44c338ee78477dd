------------------------------ MODULE MongoChain ------------------------------
(***************************************************************************)
(* Full and incremental backups of a MongoDB replica set                   *)
(* (src/pipeline/backup.rs, src/pipeline/incremental.rs,                   *)
(* src/engine/mongo/oplog.rs), and what a point-in-time restore of the     *)
(* resulting chains brings back.                                           *)
(*                                                                         *)
(* The database is its history: entry n of `log` says which collection the *)
(* n-th write went to, and its timestamp is n, in second Sec(n).  The      *)
(* oplog keeps the entries low..Len(log); the server trims it whenever it  *)
(* likes.  One command runs at a time (the profile lock); the server       *)
(* writes and trims between any two of its queries, and it may fail or     *)
(* crash anywhere.                                                         *)
(*                                                                         *)
(* One transaction of the history takes two entries: a piece that only     *)
(* counts once it is committed, and a later entry that commits it, with a  *)
(* write of its own, or aborts it.                                         *)
(***************************************************************************)
EXTENDS Integers, Sequences, FiniteSets

CONSTANTS
    Colls,       \* the collections
    PerSecond,   \* writes that share the second of their timestamp
    MaxLog,      \* bound: writes the server makes
    MaxMongoBackups \* bound: manifests in the destination

ASSUME MongoAssumption == MaxLog \in Nat /\ MaxMongoBackups \in Nat /\ PerSecond \in Nat \ {0}

VARIABLES
    log,     \* the collection each write went to
    txn,     \* the transaction: its piece, its last entry (0: none yet), its fate
    low,     \* the oldest timestamp still in the oplog
    backups, \* the manifests of the destination, oldest id first
    stage,   \* the step the running command is at
    cur,     \* what the running command has learnt so far
    rolled   \* history: uncaptured timestamps trimmed between gap check and find

mongoVars == <<log, txn, low, backups, stage, cur, rolled>>

Top == Len(log)

\* The second of a timestamp, all that --at can name.
Sec(n) == (n + PerSecond - 1) \div PerSecond

\* A manifest: `data` stands for the archive, as the set of writes it holds.
Manifests == [kind : {"full", "incr"}, selective : BOOLEAN, base : Nat,
              start : Nat, end : Nat, data : SUBSET Nat]

NoRun == [selective |-> FALSE, base |-> 0, start |-> 0, end |-> 0,
          todo |-> {}, data |-> {}]

NoTxn == [piece |-> 0, last |-> 0, aborted |-> FALSE]

MongoTypeOK ==
    /\ log \in Seq(Colls)
    /\ txn \in [piece : 0..MaxLog, last : 0..MaxLog, aborted : BOOLEAN]
    /\ low \in 1..Top
    /\ backups \in Seq(Manifests)
    /\ stage \in {"idle", "dump", "end", "gap", "upper", "find", "drain", "save"}
    /\ cur \in [selective : BOOLEAN, base : Nat, start : Nat, end : Nat,
                todo : SUBSET Colls, data : SUBSET Nat]
    /\ rolled \in SUBSET Nat

MongoInit ==
    /\ \E c \in Colls : log = <<c>>
    /\ txn = NoTxn
    /\ low = 1
    /\ backups = <<>>
    /\ stage = "idle"
    /\ cur = NoRun
    /\ rolled = {}

--------------------------------------------------------------------------------
(* The server.                                                             *)

Write(c) ==
    /\ Top < MaxLog
    /\ log' = Append(log, c)
    /\ UNCHANGED <<txn, low, backups, stage, cur, rolled>>

\* A piece of a transaction: flagged partialTxn or prepare inside its `o`.
TxnPiece(c) ==
    /\ Top < MaxLog
    /\ txn = NoTxn
    /\ log' = Append(log, c)
    /\ txn' = [txn EXCEPT !.piece = Top + 1]
    /\ UNCHANGED <<low, backups, stage, cur, rolled>>

\* The transaction's last entry commits it, or aborts it.
TxnEnd(c, aborted) ==
    /\ Top < MaxLog
    /\ txn.piece > 0 /\ txn.last = 0
    /\ log' = Append(log, c)
    /\ txn' = [txn EXCEPT !.last = Top + 1, !.aborted = aborted]
    /\ UNCHANGED <<low, backups, stage, cur, rolled>>

\* What applying a set of entries in their order does: the piece is buffered and
\* counts when the commit is reached, and is dropped at an abort or at the end
\* (apply_stream of a slice; the server's own state is that of all entries).
apply_stream(entries) ==
    (entries \ ({txn.piece} \cup IF txn.aborted THEN {txn.last} ELSE {}))
    \cup IF {txn.piece, txn.last} \subseteq entries /\ ~ txn.aborted THEN {txn.piece} ELSE {}

\* The capped oplog drops its oldest entry (never its newest).
Trim ==
    /\ low < Top
    /\ low' = low + 1
    /\ rolled' = IF stage \in {"upper", "find"} /\ low > cur.start THEN rolled \cup {low} ELSE rolled
    /\ UNCHANGED <<log, txn, backups, stage, cur>>

--------------------------------------------------------------------------------
(* Full backup.                                                            *)

\* Before the dump: the newest timestamp becomes the range's start.
BeginFull(selective) ==
    /\ stage' = "dump"
    /\ cur' = [NoRun EXCEPT !.selective = selective, !.start = Top,
                            !.todo = Colls]

StartFull ==
    /\ stage = "idle"
    /\ Len(backups) < MaxMongoBackups
    /\ \E selective \in BOOLEAN : BeginFull(selective)
    /\ UNCHANGED <<log, txn, low, backups, rolled>>

\* The native engine reads collection after collection; a selective backup
\* (--db/--collection) reads one of them.
DumpCollection(c) ==
    /\ stage = "dump"
    /\ c \in cur.todo
    /\ cur' = [cur EXCEPT
                 !.data = @ \cup {n \in apply_stream(1..Top) : log[n] = c},
                 !.todo = IF cur.selective THEN {} ELSE @ \ {c}]
    /\ stage' = IF cur'.todo = {} THEN "end" ELSE "dump"
    /\ UNCHANGED <<log, txn, low, backups, rolled>>

\* After the dump is stored: the newest timestamp is the range's end, and the
\* manifest is written.  A selective backup records no range.
FinishFull ==
    /\ stage = "end"
    /\ backups' = Append(backups,
                  [kind |-> "full", selective |-> cur.selective, base |-> 0,
                   start |-> cur.start, end |-> Top, data |-> cur.data])
    /\ stage' = "idle"
    /\ cur' = NoRun
    /\ UNCHANGED <<log, txn, low, rolled>>

--------------------------------------------------------------------------------
(* Incremental backup.                                                     *)

\* select_base: the newest Complete, non-selective manifest with a range is
\* the chain's tip; its full backup is what the increment is bound to.
Selectable == {i \in 1..Len(backups) : ~ backups[i].selective}

Tip == CHOOSE i \in Selectable : \A j \in Selectable : j <= i

BaseOfIncr(i) == IF backups[i].kind = "full" THEN i ELSE backups[i].base

\* Bug: the capture starts where the tip's range starts, not where it ends.
StartIncrAtStart ==
    /\ stage = "idle"
    /\ Len(backups) < MaxMongoBackups
    /\ Selectable # {}
    /\ cur' = [NoRun EXCEPT !.base = BaseOfIncr(Tip), !.start = backups[Tip].start]
    /\ stage' = "gap"
    /\ UNCHANGED <<log, txn, low, backups, rolled>>

\* Bug: the capture starts at the newest timestamp, not where the tip ends.
StartIncrAtTop ==
    /\ stage = "idle"
    /\ Len(backups) < MaxMongoBackups
    /\ Selectable # {}
    /\ cur' = [NoRun EXCEPT !.base = BaseOfIncr(Tip), !.start = Top]
    /\ stage' = "gap"
    /\ UNCHANGED <<log, txn, low, backups, rolled>>

StartIncr ==
    /\ stage = "idle"
    /\ Len(backups) < MaxMongoBackups
    /\ Selectable # {}
    /\ cur' = [NoRun EXCEPT !.base = BaseOfIncr(Tip), !.start = backups[Tip].end]
    /\ stage' = "gap"
    /\ UNCHANGED <<log, txn, low, backups, rolled>>

\* The last captured timestamp is no longer in the oplog.  At the oldest entry
\* itself the code warns and goes on.
detect_gap == cur.start < low

\* The run becomes a full backup (its manifest is marked afterwards).
promote_to_full == BeginFull(FALSE)

DetectGap ==
    /\ stage = "gap"
    /\ IF detect_gap
       THEN promote_to_full
       ELSE stage' = "upper" /\ UNCHANGED cur
    /\ UNCHANGED <<log, txn, low, backups, rolled>>

RecordSlice(end, data) ==
    /\ backups' = Append(backups,
                  [kind |-> "incr", selective |-> FALSE, base |-> cur.base,
                   start |-> cur.start, end |-> end, data |-> data])
    /\ stage' = "idle"
    /\ cur' = NoRun

\* The newest timestamp.  It is to be extended past a split transaction, but
\* is_partial_txn looks for the flag beside `o`, and entries have it inside.
resolve_upper_bound == Top

\* Nothing new is an empty slice, a manifest alone.
ResolveUpper ==
    /\ stage = "upper"
    /\ IF resolve_upper_bound <= cur.start
       THEN RecordSlice(cur.start, {})
       ELSE /\ cur' = [cur EXCEPT !.end = resolve_upper_bound]
            /\ stage' = "find"
            /\ UNCHANGED backups
    /\ UNCHANGED <<log, txn, low, rolled>>

\* The capture's find {ts > last, ts <= upper}: it starts at the oldest match
\* there is, and nothing says where the oplog began.
OpenCursor ==
    /\ stage = "find"
    /\ cur' = [cur EXCEPT !.data = {n \in cur.start + 1 .. cur.end : n >= low}]
    /\ stage' = "drain"
    /\ UNCHANGED <<log, txn, low, backups, rolled>>

\* The cursor is read to its end, unless the oplog overtook it meanwhile
\* (CursorNotFound): then the partial archive is dropped for a full backup.
Drain ==
    /\ stage = "drain"
    /\ IF \E n \in cur.data : n < low
       THEN promote_to_full
       ELSE stage' = "save" /\ UNCHANGED cur
    /\ UNCHANGED <<log, txn, low, backups, rolled>>

\* The manifest goes last; a capture without entries is an empty slice.
SaveSlice ==
    /\ stage = "save"
    /\ IF cur.data = {} THEN RecordSlice(cur.start, {})
                        ELSE RecordSlice(cur.end, cur.data)
    /\ UNCHANGED <<log, txn, low, rolled>>

\* Any step fails (the artifacts are cleaned up) or the process dies: either
\* way no manifest is left.
Abort ==
    /\ stage # "idle"
    /\ stage' = "idle"
    /\ cur' = NoRun
    /\ UNCHANGED <<log, txn, low, backups, rolled>>

MongoNext ==
    \/ \E c \in Colls : Write(c) \/ TxnPiece(c) \/ DumpCollection(c)
    \/ \E c \in Colls, aborted \in BOOLEAN : TxnEnd(c, aborted)
    \/ Trim
    \/ StartFull \/ FinishFull
    \/ StartIncr \/ DetectGap \/ ResolveUpper \/ OpenCursor \/ Drain \/ SaveSlice
    \/ Abort

MongoSpec == MongoInit /\ [][MongoNext]_mongoVars

--------------------------------------------------------------------------------
(* Chains and what restoring them brings back.                             *)

Bases == {i \in Selectable : backups[i].kind = "full"}

SlicesOf(b) == {i \in 1..Len(backups) : backups[i].kind = "incr" /\ backups[i].base = b}

ChainEnd(b) == IF SlicesOf(b) = {} THEN backups[b].end
               ELSE backups[CHOOSE i \in SlicesOf(b) : \A j \in SlicesOf(b) : j <= i].end

\* run_pitr to the end of the chain: the base is restored, every slice replayed.
\* Every slice is a stream of its own.
Restored(b) == backups[b].data \cup UNION {apply_stream(backups[i].data) : i \in SlicesOf(b)}

\* A restore --at second s: the full backup with the newest end no later than s.
BasesBefore(s) == {b \in Bases : Sec(backups[b].end) <= s}

select_base_before(s) ==
    CHOOSE b \in BasesBefore(s) : \A c \in BasesBefore(s) :
        backups[c].end < backups[b].end \/ (backups[c].end = backups[b].end /\ c <= b)

\* map_target_to_end: the slices that end by s whole, then the one s falls into.
WholeSlices(b, s) ==
    {i \in SlicesOf(b) : \A j \in SlicesOf(b) : j <= i => Sec(backups[j].end) <= s}

LimitSlice(b, s) ==
    {i \in SlicesOf(b) \ WholeSlices(b, s) :
        /\ \A j \in SlicesOf(b) : j < i => j \in WholeSlices(b, s)
        /\ Sec(backups[i].start) <= s}

\* Bug: the limit, which is exclusive, is the target second itself.
LimitAtTarget(s) == s

\* The first second that is not replayed: the limit is exclusive.
oplog_limit_for_second(s) == s + 1

\* The base, then the slices in the order of the chain; the last one up to the limit.
RestoredAt(s) ==
    LET b == select_base_before(s)
    IN  (backups[b].data
          \cup (UNION {apply_stream(backups[i].data) : i \in WholeSlices(b, s)}))
        \cup UNION {apply_stream({n \in backups[i].data : Sec(n) < oplog_limit_for_second(s)}) :
                        i \in LimitSlice(b, s)}

\* Every chain passes verify_chain whatever was promoted, aborted or empty in
\* between: the first slice starts where the base ended, each later one where
\* the one before it ended (the join verify and pitr insist on).
ChainsJoin ==
    \A b \in Bases : \A i \in SlicesOf(b) :
        LET before == {b} \cup {j \in SlicesOf(b) : j < i}
            prev == CHOOSE j \in before : \A k \in before : k <= j
        IN  b < i /\ backups[i].start = backups[prev].end

\* The timestamp at which an entry's write took effect.
EffectiveAt(n) == IF n = txn.piece THEN txn.last ELSE n

\* What chain b may lack: what took effect while its base was dumped, what the
\* oplog rolled over between a gap check and its find, and the piece of a
\* transaction with a boundary of the chain between it and the commit.
Excused(b) ==
    {n \in 1..Top :
        \/ EffectiveAt(n) \in backups[b].start + 1 .. backups[b].end
        \/ n \in rolled
        \/ /\ n = txn.piece
           /\ \E i \in SlicesOf(b) \cup {b} : n <= backups[i].end /\ backups[i].end < txn.last}

\* A write is missing from a restored chain only if it took effect while the
\* base's dump was running, was trimmed from the oplog between an increment's
\* gap check and its find, or belongs to a transaction that two slices share:
\* no promotion, empty slice, failure or crash loses one.
LostOnlyInWindows ==
    \A b \in Bases : apply_stream(1..ChainEnd(b)) \ Restored(b) \subseteq Excused(b)

\* A restore --at a second holds nothing that took effect in a later second,
\* and every write of the chain up to and including that second but the
\* excused ones: wherever the second's writes were split between base and
\* slices.
RestoreToSecond ==
    \A s \in 1..Sec(Top) : BasesBefore(s) # {} =>
        LET b == select_base_before(s)
            wanted == apply_stream({n \in 1..ChainEnd(b) : Sec(n) <= s})
        IN  /\ \A n \in RestoredAt(s) : Sec(EffectiveAt(n)) <= s
            /\ wanted \ RestoredAt(s) \subseteq Excused(b)

\* What "point-in-time consistency is obtained from the increments"
\* (native/mod.rs:9) asks of a base nobody trimmed behind: base and slices
\* together hold every write up to the chain's end (the transaction aside).
DumpWindowCovered ==
    \A b \in Bases : 1..ChainEnd(b) \ Restored(b) \subseteq rolled \cup {txn.piece, txn.last}

=============================================================================
