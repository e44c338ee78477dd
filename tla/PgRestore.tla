------------------------------ MODULE PgRestore ------------------------------
(***************************************************************************)
(* A PostgreSQL archive is restored into a database                        *)
(* (src/engine/postgres/restore.rs, src/pipeline/restore.rs), in the order *)
(* in which the dump wrote it (src/engine/postgres/backup.rs).             *)
(*                                                                         *)
(* A database is the set of its objects and the number of copies of the    *)
(* archived rows in each table.  Tables are numbered in the order of their *)
(* names, all of one depth; the objects of table t carry its number.       *)
(* Indexes behave as constraints do and are left out, as are schemas, and  *)
(* IDENTITY columns, whose sequences the table itself creates.             *)
(***************************************************************************)
EXTENDS Integers

CONSTANTS
    PgTables,     \* the tables there may be, numbers in the order of their names
    PgSchemas,    \* the databases that may have been backed up
    PgTargets,    \* of "empty", "restored", "original": what the target may be
    RestoreFaults,\* of "connection", "drop": what may go wrong besides
    MaxRestores   \* bound: restores of the archive

Obj(kind, t) == <<kind, t>>
Ref(child, parent) == <<"reference", child, parent>>

(* keyed: tables with a primary key.  refs: <<child, parent>> of each       *)
(* foreign key.  sequences: those of a table, which its column draws from   *)
(* if it is in drawing.  views: tables with a materialized view and a view  *)
(* of that.  functions: tables whose row type a function returns.           *)
PgSchema ==
    [tables : SUBSET PgTables, keyed : SUBSET PgTables, refs : SUBSET (PgTables \X PgTables),
     sequences : SUBSET PgTables, drawing : SUBSET PgTables,
     views : SUBSET PgTables, functions : SUBSET PgTables]

ASSUME PgRestoreAssumption ==
    /\ PgTables \subseteq Nat
    /\ MaxRestores \in Nat
    /\ PgTargets \subseteq {"empty", "restored", "original"}
    /\ RestoreFaults \subseteq {"connection", "drop"}
    /\ PgSchemas \subseteq PgSchema
    /\ \A schema \in PgSchemas :
         /\ schema.keyed \cup schema.views \cup schema.functions \cup schema.drawing
              \subseteq schema.tables
         /\ schema.drawing \subseteq schema.sequences
         /\ schema.refs \subseteq schema.tables \X schema.keyed

VARIABLES
    schema,    \* the database that was backed up
    objects,   \* the objects of the target
    copies,    \* how often each table holds the archived rows
    serial,    \* sequences that belong to their table
    phase,     \* of the restore
    dropping,  \* --drop
    frames,    \* what is still to be read of the archive
    ddl,       \* statements that wait: for the end of the data, or for the tables
    valued,    \* sequences set to the archived value
    restores,  \* how many restores there were
    afresh,    \* history: is every table of the archive created by this restore?
    swept,     \* history: what this restore had made sure of and then dropped
    failed     \* history: did a fault hit this restore?

pgRestoreVars == <<schema, objects, copies, serial, phase, dropping, frames, ddl, valued,
                   restores, afresh, swept, failed>>

--------------------------------------------------------------------------------
(* The archive, as the set of its frames and the order they come in.       *)

Each(kind, tables) == {Obj(kind, t) : t \in tables}

write_archive ==
    Each("function", schema.functions) \cup Each("sequence", schema.sequences)
      \cup Each("table", schema.tables) \cup Each("view", schema.views)
      \cup Each("matview", schema.views)

\* Functions, sequences, tables, views before materialized views; by name.
Place == [function |-> 1, sequence |-> 2, table |-> 3, view |-> 4, matview |-> 5]
DumpedBefore(o, p) == Place[o[1]] < Place[p[1]] \/ (o[1] = p[1] /\ o[2] <= p[2])

\* The constraints of one table: the key was made before the references.
ConstraintsOf(t) ==
    {Obj("key", k) : k \in schema.keyed \cap {t}}
      \cup {Ref(r[1], r[2]) : r \in {x \in schema.refs : x[1] = t}}
MadeBefore(o, p) == o[2] < p[2] \/ (o[2] = p[2] /\ (o[1] = "key" \/ p[1] = "reference"))

ArchivedObjects == write_archive \cup UNION {ConstraintsOf(t) : t \in schema.tables}

--------------------------------------------------------------------------------

NoDdl == [pre |-> {}, applied |-> FALSE, constraints |-> {}, post |-> {}]

PgPhases == {"idle", "frames", "constraints", "post", "done", "error"}

PgRestoreTypeOK ==
    /\ schema \in PgSchemas
    /\ copies \in [PgTables -> Nat]
    /\ serial \subseteq PgTables /\ valued \subseteq PgTables
    /\ swept \subseteq objects \cup ArchivedObjects
    /\ phase \in PgPhases /\ {dropping, afresh, failed} \subseteq BOOLEAN
    /\ restores \in 0 .. MaxRestores

--------------------------------------------------------------------------------
(* PostgreSQL.                                                             *)

\* What there has to be before an object can be created.
Needs(o) ==
    CASE o[1] = "table" -> IF o[2] \in schema.drawing THEN {Obj("sequence", o[2])} ELSE {}
      [] o[1] \in {"key", "matview", "function"} -> {Obj("table", o[2])}
      [] o[1] = "reference" -> {Obj("table", o[2]), Obj("table", o[3]), Obj("key", o[3])}
      [] o[1] = "view" -> {Obj("matview", o[2])}
      [] o[1] = "sequence" -> {}

\* A key also needs rows that differ.
Creatable(o, present) ==
    /\ Needs(o) \subseteq present
    /\ o[1] = "key" => copies[o[2]] <= 1

\* DROP TABLE ... CASCADE: the table with its constraints, its views and their
\* views, its functions, what refers to it, and its own sequence.
GoesWith(t) ==
    {o \in objects :
        IF o[1] = "sequence" THEN o[2] = t /\ t \in serial
        ELSE o[2] = t \/ (o[1] = "reference" /\ o[3] = t)}

\* Bug: every error of a statement is taken for "exists already".
ignore_errors(o, present) == TRUE

\* run_ignore_exists: does the statement count as done?  A second primary key of
\* a table is another error than "exists already".
run_ignore_exists(o, present) ==
    IF o \in present THEN o[1] # "key" ELSE Creatable(o, present)

Created(o, present) == IF Creatable(o, present) THEN present \cup {o} ELSE present

--------------------------------------------------------------------------------
(* The command: conflicts, guard.                                          *)

PgRestoreInit ==
    /\ schema \in PgSchemas
    /\ \E target \in PgTargets :
         /\ objects = IF target = "empty" THEN {} ELSE ArchivedObjects
         /\ copies = [t \in PgTables |-> IF target # "empty" /\ t \in schema.tables THEN 1 ELSE 0]
         /\ serial = IF target = "original" THEN schema.sequences \cap schema.tables ELSE {}
    /\ phase = "idle" /\ dropping = FALSE /\ frames = {} /\ ddl = NoDdl
    /\ valued = {} /\ restores = 0
    /\ afresh = FALSE /\ swept = {} /\ failed = FALSE

PgConflicts == {o \in objects : o[1] = "table"} # {}

\* run_restore up to decide_guard: what may be dropped needs --force or a yes;
\* without the precheck there are no conflicts to be asked about.
RequestRestore ==
    /\ phase \in {"idle", "done", "error"} /\ restores < MaxRestores
    /\ \E force, skip_precheck, yes \in BOOLEAN :
         /\ force \/ skip_precheck \/ ~ PgConflicts \/ yes
         /\ dropping' = (force \/ (~ skip_precheck /\ PgConflicts))
    /\ afresh' = (dropping' \/ ~ \E t \in schema.tables : Obj("table", t) \in objects)
    /\ phase' = "frames"
    /\ frames' = write_archive
    /\ ddl' = NoDdl /\ valued' = {} /\ swept' = {} /\ failed' = FALSE
    /\ restores' = restores + 1
    /\ UNCHANGED <<schema, objects, copies, serial>>

--------------------------------------------------------------------------------
(* restore_into: one step per frame, and per statement after the data.     *)

Ends(how) == phase' = how /\ frames' = {} /\ ddl' = NoDdl

NextIs(o, kinds) == phase = "frames" /\ o[1] \in kinds /\ \A p \in frames : DumpedBefore(o, p)

\* Statements before and after the tables are collected first.
ReadDdl ==
    /\ \E o \in frames :
         /\ NextIs(o, {"function", "view", "matview"})
         /\ ddl' = IF o[1] = "function" THEN [ddl EXCEPT !.pre = @ \cup {o}]
                                        ELSE [ddl EXCEPT !.post = @ \cup {o}]
         /\ frames' = frames \ {o}
    /\ UNCHANGED <<schema, objects, copies, serial, phase, dropping, valued, restores, afresh,
                   swept, failed>>

\* One round over statements whose order is not known: those that fail are left.
\* None of them needs what one before it creates (a view comes before the
\* materialized view it is of), so each finds the objects from before the round.
Round(statements) ==
    [present |-> objects \cup {o \in statements : Creatable(o, objects)},
     still |-> {o \in statements : ~ run_ignore_exists(o, objects)}]

\* retry_apply, before the first sequence or table: rounds until nothing changes;
\* what is left waits for the tables.
ApplyPre ==
    /\ \E o \in frames : NextIs(o, {"sequence", "table"})
    /\ ~ ddl.applied
    /\ LET round == Round(ddl.pre) IN
         /\ objects' = round.present
         /\ ddl' = [ddl EXCEPT !.pre = round.still,
                               !.applied = (round.still \in {{}, ddl.pre})]
    /\ UNCHANGED <<schema, copies, serial, phase, dropping, frames, valued, restores, afresh,
                   swept, failed>>

RestoreSequence ==
    /\ ddl.applied
    /\ \E o \in frames :
         /\ NextIs(o, {"sequence"})
         /\ objects' = Created(o, objects)
         /\ frames' = frames \ {o}
    /\ UNCHANGED <<schema, copies, serial, phase, dropping, ddl, valued, restores, afresh,
                   swept, failed>>

\* A table frame: DROP if asked to, whose error is ignored; CREATE; COPY, which
\* takes effect as a whole or, if the archive or the server is lost meanwhile, not
\* at all; the constraints wait until all the data is there.
RestoreTable ==
    /\ ddl.applied
    /\ \E o \in frames, dropped, lost \in BOOLEAN :
         LET t == o[2]
             gone == IF dropped THEN GoesWith(t) ELSE {}
             present == objects \ gone
             old == IF o \in gone THEN 0 ELSE copies[t]
             fits == Obj("key", t) \in present => old = 0
             done == run_ignore_exists(o, present) /\ fits /\ ~ lost
         IN
         /\ NextIs(o, {"table"})
         /\ lost => "connection" \in RestoreFaults
         /\ IF dropped THEN dropping ELSE dropping => "drop" \in RestoreFaults
         /\ failed' = (failed \/ lost \/ (dropping /\ ~ dropped))
         /\ swept' = swept \cup {x \in gone : x[1] \in {"sequence", "function"}}
         /\ serial' = IF dropped THEN serial \ {t} ELSE serial
         /\ objects' = Created(o, present)
         /\ copies' = [copies EXCEPT ![t] = IF done THEN old + 1 ELSE old]
         /\ IF done
            THEN /\ frames' = frames \ {o}
                 /\ ddl' = [ddl EXCEPT !.constraints = @ \cup ConstraintsOf(t)]
                 /\ UNCHANGED phase
            ELSE Ends("error")
    /\ UNCHANGED <<schema, dropping, valued, restores, afresh>>

EndOfData ==
    /\ phase = "frames" /\ frames = {}
    /\ phase' = "constraints"
    /\ UNCHANGED <<schema, objects, copies, serial, dropping, frames, ddl, valued, restores,
                   afresh, swept, failed>>

\* Constraints, in the order of the tables and without a second attempt.
AddConstraint ==
    /\ phase = "constraints"
    /\ \E o \in ddl.constraints :
         /\ \A p \in ddl.constraints : MadeBefore(o, p)
         /\ IF run_ignore_exists(o, objects)
            THEN /\ objects' = Created(o, objects)
                 /\ ddl' = [ddl EXCEPT !.constraints = @ \ {o}]
                 /\ UNCHANGED <<phase, frames>>
            ELSE Ends("error") /\ UNCHANGED objects
    /\ UNCHANGED <<schema, copies, serial, dropping, valued, restores, afresh, swept, failed>>

\* setval: a sequence that is not there is only warned about.  What waited for
\* the tables goes before the views.
SetSequences ==
    /\ phase = "constraints" /\ ddl.constraints = {}
    /\ valued' = {t \in schema.sequences : Obj("sequence", t) \in objects}
    /\ phase' = "post"
    /\ ddl' = [ddl EXCEPT !.pre = {}, !.post = ddl.pre \cup ddl.post]
    /\ UNCHANGED <<schema, objects, copies, serial, dropping, frames, restores, afresh, swept,
                   failed>>

\* Bug: what fails in the first round is not tried again.
StopsAfter(still, statements) == still # {}

\* Another round makes sense as long as the last one got something done.
Stuck(still, statements) == still = statements

\* apply_with_retry.
ApplyPost ==
    /\ phase = "post"
    /\ IF ddl.post = {}
       THEN Ends("done") /\ UNCHANGED objects
       ELSE LET round == Round(ddl.post) IN
            /\ objects' = round.present
            /\ IF Stuck(round.still, ddl.post)
               THEN Ends("error")
               ELSE /\ ddl' = [ddl EXCEPT !.post = round.still]
                    /\ UNCHANGED <<phase, frames>>
    /\ UNCHANGED <<schema, copies, serial, dropping, valued, restores, afresh, swept, failed>>

\* The archive cannot be read further, or the server cannot be reached: nothing
\* of what was restored is taken back.
ConnectionLost ==
    /\ "connection" \in RestoreFaults
    /\ phase \in {"frames", "constraints", "post"}
    /\ failed' = TRUE
    /\ Ends("error")
    /\ UNCHANGED <<schema, objects, copies, serial, dropping, valued, restores, afresh, swept>>

PgRestoreNext ==
    \/ RequestRestore
    \/ ReadDdl \/ ApplyPre \/ RestoreSequence \/ RestoreTable \/ EndOfData
    \/ AddConstraint \/ SetSequences \/ ApplyPost
    \/ ConnectionLost

PgRestoreSpec == PgRestoreInit /\ [][PgRestoreNext]_pgRestoreVars

--------------------------------------------------------------------------------
(* Properties.                                                             *)

Whole(missing) ==
    /\ ArchivedObjects \ missing \subseteq objects
    /\ \A t \in schema.tables : copies[t] = 1
    /\ \A t \in schema.sequences : Obj("sequence", t) \in missing \/ t \in valued

\* A restore that reports success into tables it created has brought back every
\* row once, every constraint, sequence, view and function; but for what it had
\* found in the target and then dropped itself along with a table.
RestoredButSwept == (phase = "done" /\ afresh /\ ~ failed) => Whole(swept)

\* A foreign key to a table whose name comes later.
LaterParent == \E r \in schema.refs : r[1] < r[2]

\* A restore into tables it creates fails only if the connection or a DROP does,
\* if a foreign key is to be added before the key it refers to, or if a table
\* draws from a sequence that was dropped along with the old table.
FailsForAReason ==
    (phase = "error" /\ afresh /\ ~ failed) =>
        LaterParent \/ \E t \in schema.drawing : Obj("sequence", t) \in swept

\* Sequences go first so that the defaults of the tables find them, constraints
\* last so that every table a foreign key refers to is there (restore.rs:4-7): a
\* restore into tables it creates fails only if a fault hits it.
RestoreCompletes == (phase = "error" /\ afresh) => failed

=============================================================================
