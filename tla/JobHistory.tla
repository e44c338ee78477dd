----------------------------- MODULE JobHistory ------------------------------
(***************************************************************************)
(* The history of the console's jobs on disk (src/web/state/jobs.rs): one  *)
(* log file per job and the index, which is a copy of the start and end    *)
(* records of the log files.  Records are appended under one mutex; old    *)
(* log files are deleted without it; at a start of the console an index    *)
(* that is not there is made again from the log files                      *)
(* (src/web/reattach.rs).                                                  *)
(*                                                                         *)
(* Jobs are numbered in the order of their ids (UUID v7).  An append is    *)
(* one step that may fail, having written nothing, a part of the line or,  *)
(* where it is the sync that failed, all of it.  Who ends a job that was   *)
(* still running when the console died is in WebJobs: here such an entry   *)
(* gets a task that will record the end.                                   *)
(***************************************************************************)
EXTENDS Naturals, Sequences, SequencesExt

CONSTANTS
    MaxHistory,     \* bound: jobs
    Retain,         \* DEFAULT_RETAIN_JOBS
    FinishAttempts, \* FINISH_ATTEMPTS
    HistoryFaults,  \* which of "write", "crash", "power", "remove", "budget" may happen
    MaxMishaps      \* bound: how many of them, those of "budget" apart

ASSUME HistoryAssumption ==
    /\ MaxHistory \in Nat /\ MaxMishaps \in Nat
    /\ HistoryFaults \subseteq {"write", "crash", "power", "remove", "budget"}
    /\ Retain \in Nat \ {0} /\ FinishAttempts \in Nat \ {0}

History == 1 .. MaxHistory

VARIABLES
    logFile,   \* the lines of each job's log file
    jobIndex,  \* the lines of the index
    writer,    \* the task that records each job
    attempt,   \* of finish_persistent
    serving,   \* is the console down, starting or up?
    rebuild,   \* rebuild_index: the files still to read, and what was read so far
    mishaps,   \* how often each of the faults has happened
    confirmed, \* history: the last record of each job whose writer was told it is kept
    shortened, \* history: jobs whose log file lost lines to rotation or a power loss
    passedBy   \* history: jobs whose records a new index did not take up

historyVars == <<logFile, jobIndex, writer, attempt, serving, rebuild, mishaps,
                 confirmed, shortened, passedBy>>

(* A line is a record or "torn": cut off, and without its newline if it is *)
(* the last one.  NoFile stands for a file that does not exist.            *)
NoFile == <<<<"absent", 0>>>>
Line(kind, j) == <<kind, j>>
Torn == <<"torn", 0>>
Lines == {Torn} \cup {Line(kind, j) : kind \in {"start", "log", "end"}, j \in History}
Present(file) == file # NoFile
Content(file) == IF Present(file) THEN file ELSE <<>>

NoRebuild == [step |-> "none", todo |-> {}, body |-> <<>>]

HistoryTypeOK ==
    /\ \A j \in History : logFile[j] = NoFile \/ logFile[j] \in Seq(Lines)
    /\ jobIndex = NoFile \/ jobIndex \in Seq(Lines)
    /\ writer \in [History -> {"none", "start_index", "rotate", "run", "end_log", "end_index",
                               "note", "over"}]
    /\ attempt \in [History -> 1 .. FinishAttempts]
    /\ serving \in {"down", "list", "rebuild", "up"}
    /\ rebuild.step \in {"none", "read", "rename"}
    /\ confirmed \in [History -> {"none", "start", "end"}]
    /\ shortened \subseteq History /\ passedBy \subseteq History

HistoryInit ==
    /\ logFile = [j \in History |-> NoFile]
    /\ jobIndex = NoFile
    /\ writer = [j \in History |-> "none"]
    /\ attempt = [j \in History |-> 1]
    /\ serving = "up"
    /\ rebuild = NoRebuild
    /\ mishaps = [what \in HistoryFaults |-> 0]
    /\ confirmed = [j \in History |-> "none"]
    /\ shortened = {} /\ passedBy = {}

\* Bug: the record is written right behind a line that was cut off.
AppendLineBehindTorn(file, line) ==
    IF Content(file) # <<>> /\ Last(file) = Torn THEN file ELSE Append(Content(file), line)

\* append_line: what was cut off gets its newline first, and stays as it is.
AppendLine(file, line) == Append(Content(file), line)

\* The file after an append that failed; only the index is synced, and can be
\* complete although the sync failed.
FailedAppends(file) == {file, Content(file), AppendLine(file, Torn)}

Happens(what) ==
    /\ what \in HistoryFaults
    /\ FoldFunction(+, 0, mishaps) < MaxMishaps
    /\ mishaps' = [mishaps EXCEPT ![what] = @ + 1]

\* The mutex is held by a rebuild only while somebody waits for it.
WriteLockFree == rebuild.step = "none" \/ serving = "up"

--------------------------------------------------------------------------------
(* Reading.                                                                *)

\* fold_index, over the records of a file: the starts found, and of those the
\* jobs an end follows.  An end without a start before it is not shown.
Started(file) == {j \in History : Line("start", j) \in ToSet(Content(file))}
Ended(file) ==
    {j \in History : \E m, n \in DOMAIN Content(file) :
        m < n /\ file[m] = Line("start", j) /\ file[n] = Line("end", j)}

ShownRunning == Started(jobIndex) \ Ended(jobIndex)

\* JobStore::detail: the entry of the index, else what the log file says.
DetailEnded(j) ==
    IF j \in Started(jobIndex) THEN j \in Ended(jobIndex) ELSE j \in Ended(logFile[j])
DetailKnown(j) == j \in Started(jobIndex) \/ j \in Started(logFile[j])

--------------------------------------------------------------------------------
(* JobStore::start, append_log, finish_persistent.                         *)

Goes(j, step) == writer' = [writer EXCEPT ![j] = step]

ToLog(j, file) == logFile' = [logFile EXCEPT ![j] = file]

(* A record that is written into a missing index begins a new one.  Ids of *)
(* earlier jobs are not in it, and a rebuild that nobody waits for any     *)
(* more replaces what is written meanwhile.                                *)
Indexed(j) == writer[j] \notin {"none", "start_index"}

ToIndex(j, file) ==
    /\ jobIndex' = file
    /\ passedBy' = passedBy
         \cup (IF Present(jobIndex) \/ ~ Present(file) THEN {} ELSE {k \in History : Indexed(k)})
         \cup (IF rebuild.step = "none" THEN {} ELSE {j})

\* The log file first: the index can be made from it.
StartLog(j) ==
    /\ serving = "up" /\ WriteLockFree
    /\ writer[j] = "none" /\ \A k \in 1 .. j - 1 : writer[k] # "none"
    /\ LET line == Line("start", j) IN
         \/ /\ ToLog(j, AppendLine(logFile[j], line))
            /\ Goes(j, "start_index")
            /\ UNCHANGED mishaps
         \/ /\ Happens("write")
            /\ \E file \in FailedAppends(logFile[j]) : ToLog(j, file)
            /\ Goes(j, "over")
    /\ UNCHANGED <<jobIndex, attempt, serving, rebuild, confirmed, shortened, passedBy>>

StartIndex(j) ==
    /\ writer[j] = "start_index" /\ WriteLockFree
    /\ LET line == Line("start", j) IN
         \/ /\ ToIndex(j, AppendLine(jobIndex, line))
            /\ Goes(j, "rotate")
            /\ UNCHANGED mishaps
         \/ /\ Happens("write")
            /\ \E file \in FailedAppends(jobIndex) \cup {AppendLine(jobIndex, line)} : ToIndex(j, file)
            /\ Goes(j, "over")
    /\ UNCHANGED <<logFile, attempt, serving, rebuild, confirmed, shortened>>

\* collect_log_ids: the log files there are.
LogIds == {j \in History : Present(logFile[j])}

\* rotate_blocking, without the mutex: the oldest log files beyond the limit.
Rotated == {j \in LogIds : Cardinality({k \in LogIds : j < k}) >= Retain}

Rotate(j) ==
    /\ writer[j] = "rotate"
    /\ logFile' = [k \in History |-> IF k \in Rotated THEN NoFile ELSE logFile[k]]
    /\ shortened' = shortened \cup Rotated
    /\ confirmed' = [confirmed EXCEPT ![j] = "start"]
    /\ Goes(j, "run")
    /\ UNCHANGED <<jobIndex, attempt, serving, rebuild, mishaps, passedBy>>

\* A line of the child's output; an error is only warned about.
LogLine(j) ==
    /\ writer[j] = "run" /\ WriteLockFree
    /\ Line("log", j) \notin ToSet(Content(logFile[j]))
    /\ LET line == Line("log", j) IN
         \/ ToLog(j, AppendLine(logFile[j], line)) /\ UNCHANGED mishaps
         \/ Happens("write") /\ \E file \in FailedAppends(logFile[j]) : ToLog(j, file)
    /\ UNCHANGED <<jobIndex, writer, attempt, serving, rebuild, confirmed, shortened, passedBy>>

\* finish_persistent: the whole of finish again, and given up in the end.
Retry(j) ==
    IF attempt[j] < FinishAttempts
    THEN attempt' = [attempt EXCEPT ![j] = @ + 1] /\ Goes(j, "end_log")
    ELSE Goes(j, "note") /\ UNCHANGED attempt

EndLog(j) ==
    /\ writer[j] = "end_log" \/ (writer[j] = "run" /\ serving = "up")
    /\ WriteLockFree
    /\ LET line == Line("end", j) IN
         \/ /\ ToLog(j, AppendLine(logFile[j], line))
            /\ Goes(j, "end_index")
            /\ UNCHANGED <<mishaps, attempt>>
         \/ /\ Happens("write")
            /\ \E file \in FailedAppends(logFile[j]) : ToLog(j, file)
            /\ Retry(j)
    /\ UNCHANGED <<jobIndex, serving, rebuild, confirmed, shortened, passedBy>>

EndIndex(j) ==
    /\ writer[j] = "end_index" /\ WriteLockFree
    /\ LET line == Line("end", j) IN
         \/ /\ ToIndex(j, AppendLine(jobIndex, line))
            /\ Goes(j, "note")
            /\ confirmed' = [confirmed EXCEPT ![j] = "end"]
            /\ UNCHANGED <<mishaps, attempt>>
         \/ /\ Happens("write")
            /\ \E file \in FailedAppends(jobIndex) \cup {AppendLine(jobIndex, line)} : ToIndex(j, file)
            /\ Retry(j)
            /\ UNCHANGED confirmed
    /\ UNCHANGED <<logFile, serving, rebuild, shortened>>

\* The note on the outcome comes last, and may create a deleted file again.
EndNote(j) ==
    /\ writer[j] = "note" /\ WriteLockFree
    /\ ToLog(j, AppendLine(logFile[j], Line("log", j)))
    /\ Goes(j, "over")
    /\ UNCHANGED <<jobIndex, attempt, serving, rebuild, mishaps, confirmed, shortened, passedBy>>

--------------------------------------------------------------------------------
(* Crashes, an operator, and the start of the console.                     *)

NoTasks ==
    /\ writer' = [j \in History |-> IF writer[j] = "none" THEN "none" ELSE "over"]
    /\ attempt' = [j \in History |-> 1]
    /\ serving' = "down"
    /\ rebuild' = NoRebuild

\* The console dies, perhaps in the middle of a line.
ConsoleDies ==
    /\ serving # "down" /\ Happens("crash")
    /\ \/ UNCHANGED <<logFile, jobIndex, passedBy>>
       \/ /\ UNCHANGED <<jobIndex, passedBy>>
          /\ \E j \in History :
               /\ writer[j] \in {"run", "end_log", "note"} /\ WriteLockFree
               /\ ToLog(j, AppendLine(logFile[j], Torn))
       \/ /\ UNCHANGED logFile
          /\ \E j \in History :
               /\ writer[j] \in {"start_index", "end_index"} /\ WriteLockFree
               /\ ToIndex(j, AppendLine(jobIndex, Torn))
    /\ NoTasks
    /\ UNCHANGED <<confirmed, shortened>>

\* What was appended to the log files was not synced: the machine stops, and
\* of one of them any number of lines is gone.
PowerLoss ==
    /\ serving # "down" /\ Happens("power")
    /\ \E j \in {k \in History : Present(logFile[k])} : \E n \in 0 .. Len(logFile[j]) :
         /\ ToLog(j, SubSeq(logFile[j], 1, n))
         /\ shortened' = shortened \cup {j}
    /\ NoTasks
    /\ UNCHANGED <<jobIndex, confirmed, passedBy>>

\* The documented way to tidy up.
IndexRemoved ==
    /\ Present(jobIndex) /\ Happens("remove")
    /\ jobIndex' = NoFile
    /\ UNCHANGED <<logFile, writer, attempt, serving, rebuild, confirmed, shortened, passedBy>>

ConsoleStarts ==
    /\ serving = "down"
    /\ serving' = "list"
    /\ UNCHANGED <<logFile, jobIndex, writer, attempt, rebuild, mishaps, confirmed,
                   shortened, passedBy>>

\* reattach::scan: entries still running get a task that ends them.
Watched == writer' = [j \in History |-> IF j \in ShownRunning THEN "run" ELSE writer[j]]

ScanHistory ==
    /\ serving = "list"
    /\ IF ~ Present(jobIndex) /\ LogIds # {}
       THEN /\ serving' = "rebuild"
            /\ rebuild' = [step |-> "read", todo |-> LogIds, body |-> <<>>]
            /\ UNCHANGED writer
       ELSE /\ serving' = "up"
            /\ Watched
            /\ UNCHANGED rebuild
    /\ UNCHANGED <<logFile, jobIndex, attempt, mishaps, confirmed, shortened, passedBy>>

\* The start and end records of a file.
Records(file) ==
    LET upTo[n \in 0 .. Len(file)] ==
          IF n = 0 THEN <<>>
          ELSE IF file[n][1] \in {"start", "end"} THEN Append(upTo[n - 1], file[n]) ELSE upTo[n - 1]
    IN upTo[Len(file)]

\* rebuild_index_blocking: one log file after the other, oldest first ...
RebuildRead ==
    /\ rebuild.step = "read"
    /\ \E j \in rebuild.todo :
         /\ \A k \in rebuild.todo : j <= k
         /\ rebuild' = [step |-> IF rebuild.todo = {j} THEN "rename" ELSE "read",
                        todo |-> rebuild.todo \ {j},
                        body |-> rebuild.body \o Records(Content(logFile[j]))]
    /\ UNCHANGED <<logFile, jobIndex, writer, attempt, serving, mishaps, confirmed,
                   shortened, passedBy>>

\* ... and a rename.  The scan then goes on with the entries of the new index.
RebuildRename ==
    /\ rebuild.step = "rename"
    /\ \/ jobIndex' = rebuild.body /\ UNCHANGED mishaps
       \/ Happens("write") /\ UNCHANGED jobIndex
    /\ rebuild' = NoRebuild
    /\ serving' = IF serving = "rebuild" THEN "up" ELSE serving
    /\ writer' = [j \in History |->
                    IF serving = "rebuild" /\ j \in Started(jobIndex') \ Ended(jobIndex')
                    THEN "run" ELSE writer[j]]
    /\ UNCHANGED <<logFile, attempt, confirmed, shortened, passedBy>>

\* REATTACH_SCAN_BUDGET: the scan is dropped and with it the mutex, while the
\* rebuild goes on in its thread.
ScanBudgetOver ==
    /\ serving = "rebuild" /\ "budget" \in HistoryFaults
    /\ serving' = "up"
    /\ UNCHANGED <<logFile, jobIndex, writer, attempt, rebuild, mishaps, confirmed,
                   shortened, passedBy>>

--------------------------------------------------------------------------------

HistoryNext ==
    \/ \E j \in History :
         \/ StartLog(j) \/ StartIndex(j) \/ Rotate(j) \/ LogLine(j) \/ EndLog(j)
         \/ EndIndex(j) \/ EndNote(j)
    \/ ConsoleDies \/ PowerLoss \/ IndexRemoved \/ ConsoleStarts
    \/ ScanHistory \/ RebuildRead \/ RebuildRename \/ ScanBudgetOver

HistorySpec == HistoryInit /\ [][HistoryNext]_historyVars

--------------------------------------------------------------------------------
(* Properties.                                                             *)

IndexWasRemoved == "remove" \in HistoryFaults /\ mishaps["remove"] > 0

\* What the index no longer shows: after the operator removed it, jobs whose log
\* file had been rotated away or cut; and jobs a new index has passed by.
IndexGivesUp(j) ==
    j \in passedBy \/ (j \in shortened /\ IndexWasRemoved)

\* Once a job is confirmed as started it stays in the history, and once it is
\* confirmed as ended it is never shown as running again (which would block its
\* profile with 409): through lines cut off by crashes and full disks, retries,
\* rotation, and an index that was removed and made again.
HistoryKeepsJobs ==
    (serving = "up" /\ Present(jobIndex) /\ rebuild.step = "none") =>
        \A j \in History :
            (confirmed[j] # "none" /\ ~ IndexGivesUp(j)) =>
                /\ DetailKnown(j) /\ j \in Started(jobIndex)
                /\ confirmed[j] = "end" => DetailEnded(j)

=============================================================================
