-------------------------------- MODULE Cron ---------------------------------
(***************************************************************************)
(* The cron expressions of the console's schedules                         *)
(* (src/web/schedule/cron.rs): five fields are folded into sets, and       *)
(* next_after looks for the next minute they agree on, day by day and for  *)
(* at most so many days.  The calendar is chrono's, in UTC.                *)
(***************************************************************************)
EXTENDS Integers

CONSTANTS
    Expressions,   \* the expressions asked about
    FirstDays,     \* the dates from which they are asked about
    MAX_DAYS_AHEAD,
    Word           \* numbers of this many values (2^32 in the code) wrap around

Ranges == [minute |-> <<0, 59>>, hour |-> <<0, 23>>, dom |-> <<1, 31>>,
           month |-> <<1, 12>>, dow |-> <<0, 7>>]
Fields == DOMAIN Ranges
FieldRange(f) == Ranges[f][1] .. Ranges[f][2]

(* A field is a set of terms <<from, to, step>>: "*" is the whole range, a *)
(* value a range of one.                                                   *)
Terms(f) == {t \in FieldRange(f) \X FieldRange(f) \X (1 .. Word - 1) : t[1] <= t[2]}

ASSUME CronAssumption ==
    /\ MAX_DAYS_AHEAD \in Nat /\ Word \in Nat /\ Word > 64
    /\ \A e \in Expressions : DOMAIN e = Fields /\ \A f \in Fields : e[f] # {} /\ e[f] \subseteq Terms(f)

VARIABLES
    expression, \* the terms of each field
    asked,      \* the date and minute of the day next_after is asked about
    date,       \* the day that is looked at
    floor,      \* the first minute of it that may be taken
    daysLeft,
    found       \* the minute of the day, or Searching or Never

cronVars == <<expression, asked, date, floor, daysLeft, found>>

DayMinutes == 0 .. 1439
Searching == -1
Never == -2

CronTypeOK ==
    /\ expression \in Expressions /\ asked.minute \in DayMinutes /\ floor \in DayMinutes
    /\ daysLeft \in 0 .. MAX_DAYS_AHEAD
    /\ found \in DayMinutes \cup {Searching, Never}

--------------------------------------------------------------------------------
(* chrono: dates of the Gregorian calendar, with the weekday from Sunday.  *)

IsLeap(y) == y % 4 = 0 /\ (y % 100 # 0 \/ y % 400 = 0)

DaysIn(y, m) ==
    IF m = 2 THEN (IF IsLeap(y) THEN 29 ELSE 28) ELSE IF m \in {4, 6, 9, 11} THEN 30 ELSE 31

succ(d) ==
    LET lastOfMonth == d.day = DaysIn(d.year, d.month)
        lastOfYear == lastOfMonth /\ d.month = 12
    IN [year |-> IF lastOfYear THEN d.year + 1 ELSE d.year,
        month |-> IF lastOfYear THEN 1 ELSE IF lastOfMonth THEN d.month + 1 ELSE d.month,
        day |-> IF lastOfMonth THEN 1 ELSE d.day + 1,
        weekday |-> (d.weekday + 1) % 7]

--------------------------------------------------------------------------------
(* Parsing.                                                                *)

\* parse_term: from, from + step, ... as long as it is not beyond the end.
TermValues(t) ==
    LET values[v \in 0 .. Word - 1] ==
          IF v > t[2] THEN {} ELSE {v} \cup values[(v + t[3]) % Word]
    IN values[t[1]]

parse_field(e, f) == UNION {TermValues(t) : t \in e[f]}

\* Sunday is 0 and 7.
Folded(weekdays) == {IF v = 7 THEN 0 ELSE v : v \in weekdays}

dom_restricted(e) == parse_field(e, "dom") # 1 .. 31
dow_restricted(e) == Folded(parse_field(e, "dow")) # 0 .. 6

\* Bug: both fields have to agree.
matches_date_both(e, d) ==
    /\ d.month \in parse_field(e, "month")
    /\ d.day \in parse_field(e, "dom")
    /\ d.weekday \in Folded(parse_field(e, "dow"))

\* If both are restricted, one of them is enough.
matches_date(e, d) ==
    LET dom_hit == d.day \in parse_field(e, "dom")
        dow_hit == d.weekday \in Folded(parse_field(e, "dow"))
    IN /\ d.month \in parse_field(e, "month")
       /\ IF dom_restricted(e) /\ dow_restricted(e) THEN dom_hit \/ dow_hit
                                                     ELSE dom_hit /\ dow_hit

\* first_minute_at_or_after: the hours from that of the bound on, each with its
\* first minute, which in the first hour is not before the bound.
MinutesFrom(e, from) ==
    {60 * h + m : h \in parse_field(e, "hour"), m \in parse_field(e, "minute")} \cap (from .. 1439)

--------------------------------------------------------------------------------
(* next_after, one step per day.                                           *)

CronInit ==
    /\ expression \in Expressions
    /\ asked \in [date : FirstDays, minute : {0, 719, 1438, 1439}]
    /\ date = IF asked.minute = 1439 THEN succ(asked.date) ELSE asked.date
    /\ floor = (asked.minute + 1) % 1440
    /\ daysLeft = MAX_DAYS_AHEAD
    /\ found = Searching

\* Bug: the bound of the first day is kept for the following ones.
FloorKept(f) == f

\* Only the first day has a bound.
NextFloor(f) == 0

SearchDay ==
    /\ found = Searching /\ daysLeft > 0
    /\ LET minutes == IF matches_date(expression, date) THEN MinutesFrom(expression, floor) ELSE {}
       IN IF minutes # {}
          THEN /\ found' = CHOOSE m \in minutes : \A n \in minutes : m <= n
               /\ UNCHANGED <<date, floor, daysLeft>>
          ELSE /\ date' = succ(date)
               /\ floor' = NextFloor(floor)
               /\ daysLeft' = daysLeft - 1
               /\ UNCHANGED found
    /\ UNCHANGED <<expression, asked>>

SearchEnds ==
    /\ found = Searching /\ daysLeft = 0
    /\ found' = Never
    /\ UNCHANGED <<expression, asked, date, floor, daysLeft>>

CronNext == SearchDay \/ SearchEnds

CronSpec == CronInit /\ [][CronNext]_cronVars

--------------------------------------------------------------------------------
(* What the documentation says an expression means.                        *)

\* A value written down by a term of the field.
Written(e, f, v) ==
    \E t \in e[f] : v \in t[1] .. t[2] /\ (v - t[1]) % t[3] = 0

\* The last value of a range and its step together are beyond a number: the next
\* value wraps around and may be within the range again.
Overflows(e) == \E f \in Fields : \E t \in e[f] : t[2] + t[3] >= Word

DayWritten(e, d) == Written(e, "dom", d.day)
WeekdayWritten(e, d) ==
    Written(e, "dow", d.weekday) \/ (d.weekday = 0 /\ Written(e, "dow", 7))

EveryDay(e) == \A v \in 1 .. 31 : Written(e, "dom", v)
EveryWeekday(e) == \A v \in 0 .. 6 : Written(e, "dow", v) \/ (v = 0 /\ Written(e, "dow", 7))

\* "The 13th or a Friday", but with a day or a weekday left open only the other
\* counts (cron.rs:280-290).
DateDue(e, d) ==
    /\ Written(e, "month", d.month)
    /\ \/ DayWritten(e, d) /\ EveryWeekday(e)
       \/ WeekdayWritten(e, d) /\ EveryDay(e)
       \/ ~ EveryDay(e) /\ ~ EveryWeekday(e) /\ (DayWritten(e, d) \/ WeekdayWritten(e, d))

TimeDue(e, m) == Written(e, "hour", m \div 60) /\ Written(e, "minute", m % 60)

\* Some day of some year is due.
EverDue(e) ==
    /\ \E v \in 0 .. 59 : Written(e, "minute", v)
    /\ \E v \in 0 .. 23 : Written(e, "hour", v)
    /\ \E m \in 1 .. 12 :
         /\ Written(e, "month", m)
         /\ \/ ~ EveryWeekday(e)
            \/ \E d \in 1 .. DaysIn(2000, m) : Written(e, "dom", d)

--------------------------------------------------------------------------------
(* Properties.                                                             *)

\* The minutes of the day looked at that are due and later than the one asked about.
DueToday ==
    IF DateDue(expression, date)
    THEN {m \in DayMinutes :
            (date = asked.date => m > asked.minute) /\ TimeDue(expression, m)}
    ELSE {}

\* next_after names the first minute after the one it is asked about at which the
\* expression is due: a day is passed over only if no minute of it is, however
\* the fields, the leap days and the first day's bound come together.  It gives
\* up only on an expression that is never due (cron.rs:87-89), the days it
\* searches reaching from one leap day to the next, also over a year that is
\* divisible by 100.
FirstDueMinute ==
    [][<<found, date>>' # <<found, date>> /\ ~ Overflows(expression) =>
        IF found' \in DayMinutes
        THEN found' \in DueToday /\ \A m \in DueToday : found' <= m
        ELSE IF found' = Never THEN ~ EverDue(expression)
        ELSE date' # date => DueToday = {}]_cronVars

=============================================================================
