------------------------------ MODULE Retention ------------------------------
(***************************************************************************)
(* The destination of one profile: backups are written to it file by file  *)
(* (src/pipeline/backup.rs, src/pipeline/incremental.rs,                   *)
(* src/manifest/store.rs) and prune deletes chains from it by a retention  *)
(* policy (src/pipeline/prune.rs, src/cli/handlers/prune.rs).              *)
(*                                                                         *)
(* A backup is known by its position in `store`: the ids are UUID v7, so   *)
(* their order is the order of creation.  It exists as its files; list,    *)
(* verify, prune and the choice of an incremental base see the backups     *)
(* that have a manifest.  Backup and prune of a profile hold its lock, so  *)
(* one command runs at a time; it may die between any two files.  No code  *)
(* writes a manifest with status incomplete, so that branch of the plan    *)
(* has no counterpart here.                                                *)
(***************************************************************************)
EXTENDS Integers, Sequences, FiniteSets

CONSTANTS
    Policies,    \* the retention policies a profile may have
    Events,      \* what may happen: "crash", "write" and "read" errors, "selective" backups
    MaxBackups,  \* bound: backups started
    MaxTime      \* bound: the clock

\* A policy has for each rule the set of its values: empty if it is not given.
RetentionPolicy == [keep_full : SUBSET Nat, keep_days : SUBSET Nat, keep_last : SUBSET Nat,
                    window : SUBSET Nat, min_redundancy : SUBSET Nat]

ASSUME PoliciesAssumption == Policies \subseteq RetentionPolicy

ASSUME BoundsAssumption == MaxBackups \in Nat /\ MaxTime \in Nat

VARIABLES
    now,     \* the clock, in the unit of keep_days and recovery_window_days
    store,   \* the backups, oldest id first
    policy,  \* the profile's retention policy
    pc,      \* the step the running command is at
    todo     \* the backups the running prune still has to delete

vars == <<now, store, policy, pc, todo>>

Files == {"data", "manifest", "sidecar"}

\* `start` and `end` bound the range a backup covers, `created` is the
\* manifest's created_at; an empty slice has no data.
Backups == [kind : {"full", "incr"}, selective : BOOLEAN, base : Nat, start : Nat,
            end : Nat, created : Nat, empty : BOOLEAN, files : SUBSET Files]

TypeOK ==
    /\ now \in Nat
    /\ store \in Seq(Backups)
    /\ policy \in Policies
    /\ pc \in {"idle", "manifest", "sidecar", "clean_data", "clean_manifest",
               "clean_sidecar", "prune"}
    /\ todo \subseteq DOMAIN store

Init ==
    /\ now = 0
    /\ store = <<>>
    /\ policy \in Policies
    /\ pc = "idle"
    /\ todo = {}

Has(i, file) == file \in store[i].files

\* collect_manifest_ids.
Visible == {i \in DOMAIN store : Has(i, "manifest")}

\* A manifest that cannot be read at this moment is left out, with a warning.
Unreadable == IF "read" \in Events THEN {{}} \cup {{i} : i \in Visible} ELSE {{}}

New == Len(store)

\* Time passes between commands, and while a dump or capture is stored.
Tick ==
    /\ pc = "idle"
    /\ now < MaxTime
    /\ now' = now + 1
    /\ UNCHANGED <<store, policy, pc, todo>>

--------------------------------------------------------------------------------
(* Backup: data, then manifest, then sidecar.                              *)

\* The range of the backup ends when it begins to be read; created_at is taken
\* when the data is stored and the manifest is built.
Put(backup) ==
    /\ New < MaxBackups
    /\ now < MaxTime
    /\ now' = now + 1
    /\ store' = Append(store, backup)
    /\ pc' = "manifest"
    /\ UNCHANGED <<policy, todo>>

PutFull ==
    /\ pc = "idle"
    /\ \E selective \in IF "selective" \in Events THEN BOOLEAN ELSE {FALSE} :
         Put([kind |-> "full", selective |-> selective, base |-> 0, start |-> 0,
              end |-> now, created |-> now + 1, empty |-> FALSE, files |-> {"data"}])

BaseOf(i) == IF store[i].kind = "full" THEN i ELSE store[i].base

\* select_base: the newest manifest that is not selective and whose base can
\* be read is the tip the increment continues.
Eligible(read) == {i \in read : ~ store[i].selective /\ BaseOf(i) \in read}

PutIncr ==
    /\ pc = "idle"
    /\ \E unread \in Unreadable :
         \E tip \in Eligible(Visible \ unread) : \E empty \in BOOLEAN :
           /\ \A i \in Eligible(Visible \ unread) : i <= tip
           /\ Put([kind |-> "incr", selective |-> FALSE, base |-> BaseOf(tip),
                   start |-> store[tip].end,
                   end |-> IF empty THEN store[tip].end ELSE now,
                   created |-> now + 1, empty |-> empty,
                   files |-> IF empty THEN {} ELSE {"data"}])

AddFile(file) == [store EXCEPT ![New].files = @ \cup {file}]

WriteManifest ==
    /\ pc = "manifest"
    /\ store' = AddFile("manifest")
    /\ pc' = "sidecar"
    /\ UNCHANGED <<now, policy, todo>>

WriteSidecar ==
    /\ pc = "sidecar"
    /\ store' = AddFile("sidecar")
    /\ pc' = "idle"
    /\ UNCHANGED <<now, policy, todo>>

\* The dump ends with an error, or the manifest or the sidecar is not stored.
WriteFails ==
    /\ "write" \in Events
    /\ pc \in {"manifest", "sidecar"}
    /\ pc' = "clean_data"
    /\ UNCHANGED <<now, store, policy, todo>>

RemoveFile(i, file) == [store EXCEPT ![i].files = @ \ {file}]

\* cleanup deletes what there may be of the backup; a failure is only logged.
CleanupFile(file, next) ==
    /\ \E deleted \in BOOLEAN : store' = IF deleted THEN RemoveFile(New, file) ELSE store
    /\ pc' = next
    /\ UNCHANGED <<now, policy, todo>>

Cleanup ==
    \/ pc = "clean_data" /\ CleanupFile("data", "clean_manifest")
    \/ pc = "clean_manifest" /\ CleanupFile("manifest", "clean_sidecar")
    \/ pc = "clean_sidecar" /\ CleanupFile("sidecar", "idle")

--------------------------------------------------------------------------------
(* plan_prune, over the manifests that were read.                          *)

Fulls(read) == {b \in read : store[b].kind = "full"}

\* A full backup and the increments bound to it, deleted and kept together.
Members(b, read) == {b} \cup {i \in read : store[i].kind = "incr" /\ store[i].base = b}

\* The chains before b when the newest base comes first.
Before(b, read) == {c \in Fulls(read) : store[c].created > store[b].created}

Rank(b, read) == Cardinality(Before(b, read))

MembersBefore(b, read) == Cardinality(UNION {Members(c, read) : c \in Before(b, read)})

\* newest_created of the chain is not before the cutoff.
NewestSince(b, read, cut) == \E i \in Members(b, read) : store[i].created >= cut

\* Bug: only chains that began in the window are kept.
KeptByWindowInside(b, read, cut) == NewestSince(b, read, cut)

\* Besides the chains that reach into the window, the newest one that began
\* before it.
KeptByWindow(b, read, cut) ==
    \/ NewestSince(b, read, cut)
    \/ store[b].created <= cut /\ \A c \in Before(b, read) : store[c].created > cut

\* Bug: the rank is compared as if it began at one.
KeptByRedundancyOffByOne(b, read, n) == Rank(b, read) + 1 < n

KeptByRedundancy(b, read, n) == Rank(b, read) < n

\* Any rule that is given may keep the chain.
Kept(b, read) ==
    \/ \E n \in policy.keep_full : Rank(b, read) < n
    \/ \E d \in policy.keep_days : NewestSince(b, read, now - d)
    \/ \E n \in policy.keep_last : MembersBefore(b, read) < n
    \/ \E d \in policy.window : KeptByWindow(b, read, now - d)
    \/ \E n \in policy.min_redundancy : KeptByRedundancy(b, read, n)

IsUnspecified == \A rule \in DOMAIN policy : policy[rule] = {}

\* Data without a manifest (detect_orphan_ids); deleted only with --force.
Orphans == {i \in DOMAIN store : Has(i, "data") /\ ~ Has(i, "manifest")}

\* The chains no rule keeps.
ChainTargets(read) ==
    UNION {Members(b, read) : b \in {c \in Fulls(read) : ~ Kept(c, read)}}

\* What of the plan execute_prune deletes.
Plan(read, force) == ChainTargets(read) \cup {i \in Orphans : force}

\* A prune without any rule is refused; what the operator confirmed, or forced,
\* is the plan that is carried out.
StartPrune(force) ==
    /\ pc = "idle"
    /\ ~ IsUnspecified
    /\ \E unread \in Unreadable : todo' = Plan(Visible \ unread, force)
    /\ todo' # {}
    /\ pc' = "prune"
    /\ UNCHANGED <<now, store, policy>>

\* Bug: a chain is deleted in the order it was written.
PrecedesOldestFirst(i, j) ==
    \/ Has(i, "manifest") /\ ~ Has(j, "manifest")
    \/ ~ Has(i, "manifest") /\ ~ Has(j, "manifest") /\ i < j
    \/ /\ Has(i, "manifest") /\ Has(j, "manifest")
       /\ BaseOf(i) > BaseOf(j) \/ (BaseOf(i) = BaseOf(j) /\ i < j)

\* The newest chain first; in a chain the newest increment first and the base
\* last (delete_order); the orphans after all chains.
Precedes(i, j) ==
    \/ Has(i, "manifest") /\ ~ Has(j, "manifest")
    \/ ~ Has(i, "manifest") /\ ~ Has(j, "manifest") /\ i < j
    \/ /\ Has(i, "manifest") /\ Has(j, "manifest")
       /\ BaseOf(i) > BaseOf(j) \/ (BaseOf(i) = BaseOf(j) /\ i > j)

\* delete_one_backup: data, sidecar, manifest.
FileToDelete(i) == IF Has(i, "data") THEN "data"
                   ELSE IF Has(i, "sidecar") THEN "sidecar" ELSE "manifest"

DeleteFile ==
    /\ pc = "prune"
    /\ \E i \in todo :
         /\ \A j \in todo \ {i} : Precedes(i, j)
         /\ store' = RemoveFile(i, FileToDelete(i))
         /\ todo' = IF store'[i].files = {} THEN todo \ {i} ELSE todo
    /\ pc' = IF todo' = {} THEN "idle" ELSE "prune"
    /\ UNCHANGED <<now, policy>>

\* The process dies, or a deletion fails and ends the prune.
Crash ==
    /\ "crash" \in Events
    /\ pc # "idle"
    /\ pc' = "idle"
    /\ todo' = {}
    /\ UNCHANGED <<now, store, policy>>

Next ==
    \/ Tick
    \/ PutFull \/ PutIncr \/ WriteManifest \/ WriteSidecar \/ WriteFails \/ Cleanup
    \/ \E force \in BOOLEAN : StartPrune(force)
    \/ DeleteFile
    \/ Crash

Spec == Init /\ [][Next]_vars

--------------------------------------------------------------------------------
(* What can be restored.                                                   *)

Chain(i) == {k \in Visible : k <= i /\ BaseOf(k) = BaseOf(i)}

Backed(i) == Has(i, "data") \/ store[i].empty

\* verify_chain up to i, and the data is there: i's base is present and each
\* increment starts where the one before it ended.
Restorable(i) ==
    /\ BaseOf(i) \in Chain(i)
    /\ \A k \in Chain(i) : Backed(k)
    /\ \A k \in Chain(i) \ {BaseOf(i)} :
         \E prev \in Chain(i) :
           /\ prev < k
           /\ \A j \in Chain(i) : j < k => j <= prev
           /\ store[k].start = store[prev].end

\* What a point-in-time restore can start from and end at.
Usable(i) == i \in Visible /\ Restorable(i) /\ ~ store[BaseOf(i)].selective

\* A moment inside a chain, for --at.
Recoverable(t) == \E i \in Visible : Usable(i) /\ store[BaseOf(i)].end <= t /\ t <= store[i].end

\* The newest state there is of a moment: the last usable backup made by then.
NewestAsOf(i, t) ==
    /\ Usable(i) /\ store[i].created <= t
    /\ \A j \in Visible : Usable(j) /\ store[j].created <= t => j <= i

\* "An increment that lives never loses its base" (prune.rs:9), not even for a
\* moment and wherever a prune is interrupted.
LiveBaseKept == \A i \in Visible : BaseOf(i) \in Visible

\* What the deletion order is for (prune.rs:385-393, so that a partial failure
\* leaves no broken chain): a backup that has its data has everything before it
\* that a restore needs.
SurvivorsRestorable == \A i \in Visible : Backed(i) => Restorable(i)

\* Policies with a rule that keeps the newest chain whatever the clock says; only
\* keep_days may leave none.
KeepsNewest(p) ==
    \/ \E n \in p.keep_full \cup p.keep_last \cup p.min_redundancy : n > 0
    \/ p.window # {}

\* The same for a policy that keeps the chain the next increment continues, as
\* long as no write fails: a failed write whose cleanup fails as well may leave
\* the manifest of a backup that has no data, and the increments after it start
\* from there.
SurvivorsRestorableIfWritten == KeepsNewest(policy) => SurvivorsRestorable

\* INV-1 and INV-2 (docs/prd/02-recovery-window-retention.md:52): for no moment
\* of the recovery window does a step take away what could be restored of it,
\* be it the moment itself or the last usable backup made before it.
WindowKept ==
    [][\A d \in policy.window : \A t \in now - d .. now :
         /\ Recoverable(t) => Recoverable(t)'
         /\ \A i \in Visible : NewestAsOf(i, t) => Usable(i)']_vars

WholeChains == {b \in Fulls(Visible) : Usable(b)}

\* INV-3 (docs/prd/02-recovery-window-retention.md:55): a step leaves at least
\* min_redundancy full backups that are not selective and can be restored, if
\* there were as many.
RedundancyKept ==
    [][\A n \in policy.min_redundancy :
         Cardinality(WholeChains) >= n => Cardinality(WholeChains') >= n]_vars

=============================================================================
