------------------------------ MODULE MCConsole ------------------------------
(***************************************************************************)
(* The console for TLC: its backup jobs, the pages that confirm a          *)
(* destructive job, the times its schedules are due, and the saving of the *)
(* configuration.  They share no state here, so a behaviour is about one   *)
(* of them: part says which.                                               *)
(***************************************************************************)
EXTENDS WebJobs, ConfirmFlow, Cron, ConfigSave, TLC

CONSTANTS j1, j2, p1, p2, s1, s2

VARIABLE part

MCJobs == {j1, j2}
MCPids == {p1, p2}
MCSubmits == {s1, s2}
MCSymmetry == Permutations(MCJobs) \cup Permutations(MCPids) \cup Permutations(MCSubmits)

AllFaults == {"write", "probe", "scan", "reuse"}

EveryMinute == [minute |-> {<<0, 59, 1>>}, hour |-> {<<0, 23, 1>>}, dom |-> {<<1, 31, 1>>},
                month |-> {<<1, 12, 1>>}, dow |-> {<<0, 7, 1>>}]
At(h, m) == [EveryMinute EXCEPT !.minute = {<<m, m, 1>>}, !.hour = {<<h, h, 1>>}]

SomeExpressions ==
    {EveryMinute,
     [EveryMinute EXCEPT !.minute = {<<5, 9, 127>>}],          \* 5-9/127 wraps around
     [EveryMinute EXCEPT !.minute = {<<5, 20, 3>>}, !.hour = {<<22, 23, 1>>, <<0, 5, 1>>}],
     [At(0, 0) EXCEPT !.dom = {<<29, 29, 1>>}, !.month = {<<2, 2, 1>>}],
     [At(0, 0) EXCEPT !.dom = {<<30, 30, 1>>}, !.month = {<<2, 2, 1>>}],
     [At(0, 0) EXCEPT !.dom = {<<30, 31, 1>>}, !.month = {<<2, 2, 1>>}, !.dow = {<<1, 1, 1>>}],
     [At(0, 0) EXCEPT !.dom = {<<13, 13, 1>>}, !.dow = {<<5, 5, 1>>}],
     [At(12, 0) EXCEPT !.dom = {<<31, 31, 1>>}],
     [At(12, 30) EXCEPT !.dow = {<<7, 7, 1>>}],
     [At(23, 59) EXCEPT !.dom = {<<1, 31, 7>>}, !.dow = {<<1, 6, 2>>}]}

\* Before the end of a year, and before and on a leap day; the one of 2096 is
\* followed by the one of 2104.
SomeDays == {[year |-> 2023, month |-> 12, day |-> 31, weekday |-> 0],
             [year |-> 2024, month |-> 2, day |-> 28, weekday |-> 3],
             [year |-> 2096, month |-> 2, day |-> 29, weekday |-> 3]}

ConsoleInit ==
    /\ part \in {"jobs", "pages", "cron", "config"}
    /\ JobsInit /\ ConfirmInit /\ CronInit /\ SaveInit
    /\ config.syntax = "v1" /\ \A p \in Profiles, k \in Items : config.says[p][k] = 1
    /\ part # "pages" => ~facts.occupied
    /\ part # "cron" => /\ expression = EveryMinute
                        /\ asked.minute = 0 /\ asked.date.year = 2023

\* The pages of a behaviour are of one form: a token is bound to its own.
OneForm == \A p, q \in DOMAIN pages : pages[p].form = pages[q].form

\* One stranger holds a pid at a time, and one job is being cancelled at a time.
OneOther == Cardinality({p \in Pids : os[p].owner = Other}) <= 1
OneCancel == Cardinality({j \in Jobs : cancel[j] # "none"}) <= 1

\* Who updates a profile edits one field of its form.
OneField ==
    \A s \in Savers : saver[s].change.op = "update" => Cardinality(saver[s].change.meant \cap Keys) <= 1

ConsoleNext ==
    \/ /\ part = "jobs" /\ JobsNext /\ OneOther' /\ OneCancel'
       /\ UNCHANGED <<confirmVars, cronVars, saveVars>>
    \/ part = "pages" /\ ConfirmNext /\ OneForm' /\ UNCHANGED <<jobsVars, cronVars, saveVars>>
    \/ part = "cron" /\ CronNext /\ UNCHANGED <<jobsVars, confirmVars, saveVars>>
    \/ part = "config" /\ SaveNext /\ OneField' /\ UNCHANGED <<jobsVars, confirmVars, cronVars>>

consoleVars == <<jobsVars, confirmVars, cronVars, saveVars, part>>

ConsoleSpec == ConsoleInit /\ [][ConsoleNext /\ UNCHANGED part]_consoleVars
=============================================================================
