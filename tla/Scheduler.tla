------------------------------ MODULE Scheduler ------------------------------
(***************************************************************************)
(* The scheduler of the web console (src/web/schedule/mod.rs) and the      *)
(* schedules it reads (src/web/state/schedules.rs).                        *)
(*                                                                         *)
(* Time is the wall clock in minutes; a cron expression is the set of the  *)
(* minutes it names.  One loop judges the schedules tick by tick, from a   *)
(* copy of the registered ones and a cursor per schedule that lives only   *)
(* in memory.  The operator edits schedules, time passes and the console   *)
(* stops and starts between any two steps; how soon the loop wakes is left *)
(* open, so that it may be late by any amount.                             *)
(***************************************************************************)
EXTENDS Integers, FiniteSets, Sequences

CONSTANTS
    Ids,        \* schedule ids, in the order of registration
    Exprs,      \* the cron expressions
    LateLimit,  \* LATE_FIRE_LIMIT
    ScanMax,    \* MISSED_SCAN_MAX
    MaxTime,    \* bound: the clock
    MaxEdits    \* bound: what the operator does

ASSUME ScheduleAssumption ==
    /\ Ids \subseteq Nat
    /\ Exprs \subseteq SUBSET Nat
    /\ LateLimit \in Nat /\ ScanMax \in Nat \ {0} /\ MaxTime \in Nat /\ MaxEdits \in Nat

VARIABLES
    now,      \* the wall clock
    boot,     \* when the console started, or Never if it is down
    schedSnap,     \* the registered schedules
    cursor,   \* per schedule, the minute up to which it has been judged
    lastTick, \* when the loop last woke
    schedStep,       \* the step of the loop
    tick,     \* what the running tick works with
    fires,    \* history: the jobs started
    lapse,    \* history: the minutes the loop overslept by more than LateLimit
    used,     \* the ids that were ever given out
    edits     \* counter for MaxEdits

schedVars == <<now, boot, schedSnap, cursor, lastTick, schedStep, tick, fires, lapse, used, edits>>

Never == -1

Times == 0..MaxTime

\* baseline is last_run_at, or created_at before the first run; since, for the
\* properties, is when expression and enabled got their present values.
Schedules == [expr : Exprs, enabled : BOOLEAN, baseline : Times, since : Times]

\* The functions from some of the ids to V.
Maps(V) == UNION {[S -> V] : S \in SUBSET Ids}

\* A run: the due minute, and for the properties when the console started and
\* what the schedule said.
Runs == [id : Ids, at : Times, boot : Times, expr : Exprs, since : Times]

\* A tick: its time, its stall, the copied schedules still to judge, and the run
\* that is to be started.
NoRun == [id |-> Never]

NoTick == [at |-> 0, stall |-> 0, todo |-> << >>, run |-> NoRun]

SchedTypeOK ==
    /\ now \in Times
    /\ boot \in Times \cup {Never}
    /\ schedSnap \in Maps(Schedules)
    /\ cursor \in Maps(Times)
    /\ lastTick \in Times \cup {Never}
    /\ schedStep \in {"sleep", "judge", "fire", "record"}
    /\ tick \in [at : Times, stall : Times, todo : Maps(Schedules), run : Runs \cup {NoRun}]
    /\ fires \in Seq(Runs)
    /\ lapse \subseteq Times
    /\ used \subseteq Ids
    /\ edits \in 0..MaxEdits

SchedInit ==
    /\ now = 0
    /\ boot = 0
    /\ schedSnap = << >>
    /\ cursor = << >>
    /\ lastTick = Never
    /\ schedStep = "sleep"
    /\ tick = NoTick
    /\ fires = << >>
    /\ lapse = {}
    /\ used = {}
    /\ edits = 0

\* The schedules of S among those of f.
Only(f, S) == [s \in DOMAIN f \cap S |-> f[s]]

With(f, s, v) == [r \in DOMAIN f \cup {s} |-> IF r = s THEN v ELSE f[r]]

--------------------------------------------------------------------------------
(* The operator, and the world.                                            *)

TimePasses ==
    /\ now < MaxTime
    /\ now' = now + 1
    /\ UNCHANGED <<boot, schedSnap, cursor, lastTick, schedStep, tick, fires, lapse, used, edits>>

Edit(next) ==
    /\ boot # Never
    /\ edits < MaxEdits
    /\ edits' = edits + 1
    /\ schedSnap' = next
    /\ UNCHANGED <<now, boot, cursor, lastTick, schedStep, tick, fires, lapse>>

\* same_trigger: no two schedules of a profile and kind have one expression.
Free(expr, s) == \A r \in DOMAIN schedSnap \ {s} : schedSnap[r].expr # expr

Create(s, expr, enabled) ==
    /\ s \notin used /\ \A r \in used : r < s
    /\ Free(expr, s)
    /\ used' = used \cup {s}
    /\ Edit(With(schedSnap, s, [expr |-> expr, enabled |-> enabled, baseline |-> now,
                           since |-> now]))

Update(s, expr, enabled) ==
    /\ s \in DOMAIN schedSnap
    /\ Free(expr, s)
    /\ expr # schedSnap[s].expr \/ enabled # schedSnap[s].enabled
    /\ Edit([schedSnap EXCEPT ![s].expr = expr, ![s].enabled = enabled, ![s].since = now])
    /\ UNCHANGED used

Delete(s) ==
    /\ s \in DOMAIN schedSnap
    /\ Edit(Only(schedSnap, Ids \ {s}))
    /\ UNCHANGED used

\* The console stops; its schedules are on disk, the loop's state is gone.
Stop ==
    /\ boot # Never
    /\ boot' = Never
    /\ cursor' = << >>
    /\ lastTick' = Never
    /\ schedStep' = "sleep"
    /\ tick' = NoTick
    /\ UNCHANGED <<now, schedSnap, fires, lapse, used, edits>>

\* run_at_startup; the missed runs are counted for the log and not fired.
Start ==
    /\ boot = Never
    /\ boot' = now
    /\ UNCHANGED <<now, schedSnap, cursor, lastTick, schedStep, tick, fires, lapse, used, edits>>

--------------------------------------------------------------------------------
(* The loop.                                                               *)

Enabled == {s \in DOMAIN schedSnap : schedSnap[s].enabled}

\* begin_tick, list and retain_known: the stall is the time since the last tick.
BeginTick ==
    /\ boot # Never
    /\ schedStep = "sleep"
    /\ LET stall == IF lastTick = Never THEN 0 ELSE now - lastTick
       IN  /\ tick' = [NoTick EXCEPT !.at = now, !.stall = stall, !.todo = Only(schedSnap, Enabled)]
           /\ lapse' = IF stall > LateLimit THEN lapse \cup (lastTick + 1 .. now) ELSE lapse
    /\ lastTick' = now
    /\ cursor' = Only(cursor, DOMAIN schedSnap)
    /\ schedStep' = "judge"
    /\ UNCHANGED <<now, boot, schedSnap, fires, used, edits>>

\* Bug: a schedule seen for the first time is judged from its last run on.
CursorFromLastRun(s) == IF s \in DOMAIN cursor THEN cursor[s] ELSE tick.todo[s].baseline

\* A schedule seen for the first time is judged from now on.
CursorOf(s) == IF s \in DOMAIN cursor THEN cursor[s] ELSE tick.at

\* The due minutes after the cursor, at most ScanMax of them.
Passed(s) ==
    LET due == {t \in tick.todo[s].expr : CursorOf(s) < t /\ t <= tick.at}
    IN  {t \in due : Cardinality({u \in due : u < t}) < ScanMax}

Latest(S) == CHOOSE t \in S : \A u \in S : u <= t

\* Bug: the delay is how late the newest due minute is.
TooLateByDueTime(s) == tick.at - Latest(Passed(s)) > LateLimit

\* The delay is how long the loop was not running.
TooLate(s) == tick.stall > LateLimit

\* Bug: a run that is started does not move the cursor.
AdvancedUnlessFired(s) ==
    With(cursor, s, IF Passed(s) = {} \/ ~ TooLate(s) THEN CursorOf(s) ELSE Latest(Passed(s)))

\* The cursor moves past what was judged, fired or not.
Advanced(s) == With(cursor, s, IF Passed(s) = {} THEN CursorOf(s) ELSE Latest(Passed(s)))

\* Due::Fire: the run, and for the properties what the copy said of its schedule.
Run(s) ==
    [id |-> s, at |-> Latest(Passed(s)), boot |-> boot,
     expr |-> tick.todo[s].expr, since |-> tick.todo[s].since]

\* evaluate, for the first schedule left: everything that is due is one run.
Judge ==
    /\ schedStep = "judge"
    /\ \E s \in DOMAIN tick.todo :
         /\ \A r \in DOMAIN tick.todo : s <= r
         /\ cursor' = Advanced(s)
         /\ IF Passed(s) = {} \/ TooLate(s)
            THEN /\ tick' = [tick EXCEPT !.todo = Only(@, Ids \ {s})]
                 /\ schedStep' = "judge"
            ELSE /\ tick' = [tick EXCEPT !.todo = Only(@, Ids \ {s}), !.run = Run(s)]
                 /\ schedStep' = "fire"
    /\ UNCHANGED <<now, boot, schedSnap, lastTick, fires, lapse, used, edits>>

\* fire: a job of the profile is running, or the profile's name is no longer
\* valid, and the run is passed over.
Skip ==
    /\ schedStep = "fire"
    /\ schedStep' = "judge"
    /\ UNCHANGED <<now, boot, schedSnap, cursor, lastTick, tick, fires, lapse, used, edits>>

\* fire: the job is started (or could not be, which is recorded too).
Fire ==
    /\ schedStep = "fire"
    /\ fires' = Append(fires, tick.run)
    /\ schedStep' = "record"
    /\ UNCHANGED <<now, boot, schedSnap, cursor, lastTick, tick, lapse, used, edits>>

\* record_run; a schedule that was deleted meanwhile does not come back, and a
\* failing write is logged.
RecordRun ==
    /\ schedStep = "record"
    /\ \E written \in BOOLEAN :
         schedSnap' = IF written /\ tick.run.id \in DOMAIN schedSnap
                 THEN [schedSnap EXCEPT ![tick.run.id].baseline = tick.run.at] ELSE schedSnap
    /\ schedStep' = "judge"
    /\ UNCHANGED <<now, boot, cursor, lastTick, tick, fires, lapse, used, edits>>

Sleep ==
    /\ schedStep = "judge"
    /\ DOMAIN tick.todo = {}
    /\ schedStep' = "sleep"
    /\ tick' = NoTick
    /\ UNCHANGED <<now, boot, schedSnap, cursor, lastTick, fires, lapse, used, edits>>

SchedNext ==
    \/ TimePasses
    \/ \E s \in Ids, expr \in Exprs, enabled \in BOOLEAN :
         Create(s, expr, enabled) \/ Update(s, expr, enabled)
    \/ \E s \in Ids : Delete(s)
    \/ Stop \/ Start
    \/ BeginTick \/ Judge \/ Skip \/ Fire \/ RecordRun \/ Sleep

SchedSpec == SchedInit /\ [][SchedNext]_schedVars

--------------------------------------------------------------------------------

Fires == {fires[i] : i \in DOMAIN fires}

\* One due minute of a schedule starts at most one job, whatever is edited,
\* skipped, late, recorded or not, and however often the console restarts.
FiresOnce ==
    \A i, j \in DOMAIN fires :
        fires[i].id = fires[j].id /\ fires[i].at = fires[j].at => i = j

\* What passed while the console was down is not made up for (mod.rs:46-47).
NoCatchUp == \A f \in Fires : f.at > f.boot

\* What passed while the loop overslept by more than LATE_FIRE_LIMIT starts
\* nothing, then or later (mod.rs:52-55), for a schedule that was not edited
\* after that minute; except that MISSED_SCAN_MAX due minutes since the start of
\* the console come before it, and the tick after the lapse did not look that far.
NoLateFire ==
    \A f \in Fires :
        f.at > f.since /\ f.at \in lapse =>
            Cardinality({t \in f.expr : f.boot < t /\ t < f.at}) >= ScanMax

=============================================================================
