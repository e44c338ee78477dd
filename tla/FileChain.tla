----------------------------- MODULE FileChain -------------------------------
(***************************************************************************)
(* Full and incremental backups of a directory tree (src/engine/file,      *)
(* src/pipeline/backup.rs) and the restore of a chain                      *)
(* (src/pipeline/restore.rs).                                              *)
(*                                                                         *)
(* A tree gives every path an entry: 0 for no file, any other number for a *)
(* file as the index sees it (its kind, size, mtime, mode and link).  New  *)
(* contents get a new number; a file that is moved away and back keeps     *)
(* its number.  The index is built first and the archive written after it, *)
(* path by path, while the tree goes on changing.                          *)
(***************************************************************************)
EXTENDS Integers, Sequences, FiniteSets, FiniteSetsExt

CONSTANTS
    Paths,           \* the paths of the tree
    MaxEntry,        \* bound: contents ever written
    MaxFileBackups   \* bound: manifests in the destination

ASSUME FileChainAssumption ==
    IsFiniteSet(Paths) /\ MaxEntry \in Nat /\ MaxFileBackups \in Nat

VARIABLES
    tree,      \* the source tree
    written,   \* the contents written so far
    away,      \* for each path, the file that was last taken away from it
    fileDest,  \* the manifests of the destination, with data and index, oldest id first
    fileStep,  \* the step of the running command
    fileRun    \* the backup the running command is making

fileVars == <<tree, written, away, fileDest, fileStep, fileRun>>

Trees == [Paths -> 0..MaxEntry]
Slices == UNION {[touched -> 0..MaxEntry] : touched \in SUBSET Paths}

\* FILE_CHAIN_START: the generation every full backup starts a chain at.
FILE_CHAIN_START == 1

\* slice: what the archive does to the paths it touches, 0 being a tombstone.
FileBackups == [kind : {"full", "incr"}, base : Nat, start : Nat, end : Nat,
                index : Trees, slice : Slices, readable : BOOLEAN]

NoTree == [p \in Paths |-> 0]
NoFileRun == [kind |-> "full", base |-> 0, start |-> 0, end |-> 0,
              index |-> NoTree, slice |-> <<>>, readable |-> TRUE, todo |-> {}]

FileTypeOK ==
    /\ tree \in Trees
    /\ written \in 0..MaxEntry
    /\ away \in Trees
    /\ fileDest \in Seq(FileBackups)
    /\ fileStep \in {"idle", "full", "incr", "dump"}
    /\ fileRun.todo \subseteq Paths

FileInit ==
    /\ tree = NoTree
    /\ written = 0
    /\ away = NoTree
    /\ fileDest = <<>>
    /\ fileStep = "idle"
    /\ fileRun = NoFileRun

--------------------------------------------------------------------------------
(* The source tree.                                                        *)

WriteFile(p) ==
    /\ written < MaxEntry
    /\ written' = written + 1
    /\ tree' = [tree EXCEPT ![p] = written + 1]
    /\ UNCHANGED <<away, fileDest, fileStep, fileRun>>

\* Removed, or moved out of the tree.
TakeAway(p) ==
    /\ tree[p] # 0
    /\ tree' = [tree EXCEPT ![p] = 0]
    /\ away' = [away EXCEPT ![p] = tree[p]]
    /\ UNCHANGED <<written, fileDest, fileStep, fileRun>>

\* Moved back: its size and its times are what they were.
ReturnFile(p) ==
    /\ tree[p] = 0 /\ away[p] # 0
    /\ tree' = [tree EXCEPT ![p] = away[p]]
    /\ UNCHANGED <<written, away, fileDest, fileStep, fileRun>>

\* The sidecar of a backup is lost, or a later version cannot read it.
LoseIndex(i) ==
    /\ fileDest[i].readable
    /\ fileDest' = [fileDest EXCEPT ![i].readable = FALSE]
    /\ UNCHANGED <<tree, written, away, fileStep, fileRun>>

--------------------------------------------------------------------------------
(* The chain of the latest full backup, as the listing shows it; a         *)
(* manifest that cannot be read at the moment is passed over.              *)

FileFulls(visible) == {i \in visible : fileDest[i].kind = "full"}

FileIncrs(base, visible) ==
    {i \in visible : fileDest[i].kind = "incr" /\ fileDest[i].base = base}

\* The head: the highest generation, the newest id among equals.
collect_file_chain(visible) ==
    LET base == Max(FileFulls(visible))
        members == FileIncrs(base, visible) \cup {base}
    IN  CHOOSE h \in members : \A i \in members :
          \/ fileDest[i].end < fileDest[h].end
          \/ fileDest[i].end = fileDest[h].end /\ i <= h

--------------------------------------------------------------------------------
(* The backups.                                                            *)

\* The full backup a command asks for.
StartFileFull ==
    /\ fileStep = "idle"
    /\ Len(fileDest) < MaxFileBackups
    /\ fileStep' = "full"
    /\ UNCHANGED <<tree, written, away, fileDest, fileRun>>

\* The index first; every path is still to be archived.
IndexForFull ==
    /\ fileStep = "full"
    /\ fileRun' = [NoFileRun EXCEPT !.start = FILE_CHAIN_START, !.end = FILE_CHAIN_START,
                                    !.index = tree, !.todo = Paths]
    /\ fileStep' = "dump"
    /\ UNCHANGED <<tree, written, away, fileDest>>

\* The head of the chain is read; without its index the run becomes a full
\* backup.  At most one manifest is unreadable at the moment.
StartFileIncr ==
    /\ fileStep = "idle"
    /\ Len(fileDest) < MaxFileBackups
    /\ \E hidden \in 0..Len(fileDest) :
         LET visible == DOMAIN fileDest \ {hidden} IN
         /\ FileFulls(visible) # {}
         /\ LET head == collect_file_chain(visible) IN
            \/ /\ fileDest[head].readable
               /\ fileStep' = "incr"
               /\ fileRun' = [NoFileRun EXCEPT
                    !.kind = "incr", !.base = Max(FileFulls(visible)),
                    !.start = fileDest[head].end, !.index = fileDest[head].index]
            \/ /\ ~ fileDest[head].readable
               /\ fileStep' = "full"
               /\ UNCHANGED fileRun
    /\ UNCHANGED <<tree, written, away, fileDest>>

\* Bug: a path that is gone is no difference.
NoTombstones(index, prev) == {p \in Paths : index[p] \notin {0, prev[p]}}

\* What of the new index differs from the old one.
diff_from(index, prev) == {p \in Paths : index[p] # prev[p]}

\* The tree is indexed and compared with the index of the head.  Nothing
\* changed: a slice without data, which ends where it starts.
IndexForIncr ==
    /\ fileStep = "incr"
    /\ LET changed == diff_from(tree, fileRun.index) IN
         fileRun' = [fileRun EXCEPT
           !.index = tree,
           !.slice = [p \in {q \in changed : tree[q] = 0} |-> 0],
           !.todo = {p \in changed : tree[p] # 0},
           !.end = IF changed = {} THEN fileRun.start ELSE fileRun.start + 1]
    /\ fileStep' = "dump"
    /\ UNCHANGED <<tree, written, away, fileDest>>

\* One path goes into the archive as it is by now.  The walk of a full backup
\* does not meet a path that is gone; in an increment it fails the run.
ArchivePath(p) ==
    /\ fileStep = "dump"
    /\ p \in fileRun.todo
    /\ fileRun.kind = "incr" => tree[p] # 0
    /\ fileRun' = [fileRun EXCEPT
         !.todo = @ \ {p},
         !.slice = [q \in DOMAIN fileRun.slice \cup {p} |->
                      IF q = p THEN tree[p] ELSE fileRun.slice[q]]]
    /\ UNCHANGED <<tree, written, away, fileDest, fileStep>>

\* Data and then the sidecar are stored; the manifest comes last.
PublishFileBackup ==
    /\ fileStep = "dump"
    /\ fileRun.todo = {}
    /\ fileDest' = Append(fileDest, [f \in DOMAIN fileRun \ {"todo"} |-> fileRun[f]])
    /\ fileStep' = "idle"
    /\ fileRun' = NoFileRun
    /\ UNCHANGED <<tree, written, away>>

\* A step fails or the process dies: without its manifest the backup is not seen.
AbortFileBackup ==
    /\ fileStep # "idle"
    /\ fileStep' = "idle"
    /\ fileRun' = NoFileRun
    /\ UNCHANGED <<tree, written, away, fileDest>>

FileNext ==
    \/ \E p \in Paths : WriteFile(p) \/ TakeAway(p) \/ ReturnFile(p) \/ ArchivePath(p)
    \/ \E i \in DOMAIN fileDest : LoseIndex(i)
    \/ StartFileFull \/ IndexForFull \/ StartFileIncr \/ IndexForIncr
    \/ PublishFileBackup \/ AbortFileBackup

FileChainSpec == FileInit /\ [][FileNext]_fileVars

--------------------------------------------------------------------------------
(* The restore of a backup into an empty directory.                        *)

\* The slices of a base in the order of their start, then of their ids.
Earlier(i, j) == \/ fileDest[i].start < fileDest[j].start
                 \/ fileDest[i].start = fileDest[j].start /\ i < j

\* The newest of a set of slices in that order; the base, when there is none.
LastOf(slices, base) ==
    IF slices = {} THEN base ELSE CHOOSE i \in slices : \A j \in slices \ {i} : Earlier(j, i)

\* Every slice starts where the one before it, or the base, ends.
verify_file_chain(base) ==
    LET slices == FileIncrs(base, DOMAIN fileDest)
    IN  \A i \in slices :
          fileDest[LastOf({j \in slices : Earlier(j, i)}, base)].end = fileDest[i].start

BaseOf(k) == IF fileDest[k].kind = "full" THEN k ELSE fileDest[k].base

\* The archives a restore of backup k unpacks.
Applied(k) ==
    {k, BaseOf(k)} \cup {i \in FileIncrs(BaseOf(k), DOMAIN fileDest) :
                           fileDest[k].kind = "incr" /\ Earlier(i, k)}

\* The archive that leaves its mark on path p: the last one that touches it.
Source(k, p) ==
    LastOf({i \in Applied(k) \ {BaseOf(k)} : p \in DOMAIN fileDest[i].slice}, BaseOf(k))

file_chain_restore(k) == [p \in Paths |-> fileDest[Source(k, p)].slice[p]]

\* A restore of any backup that verify_chain lets through brings back the tree
\* of that backup's index, whatever failed, was promoted, came in empty slices
\* or was read while a manifest could not be: the only paths that may differ
\* changed between the index and the archive of the backup they come from.
RestoreMatchesIndex ==
    \A k \in DOMAIN fileDest :
        (fileDest[k].kind = "full" \/ verify_file_chain(BaseOf(k))) =>
            \A p \in Paths : LET from == fileDest[Source(k, p)] IN
                from.slice[p] = from.index[p] =>
                    file_chain_restore(k)[p] = fileDest[k].index[p]

=============================================================================
