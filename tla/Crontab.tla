------------------------------- MODULE Crontab -------------------------------
(***************************************************************************)
(* celery.schedules.crontab: the parser of its fields, remaining_delta     *)
(* with _delta_to_next, and is_due with the starting deadline, checked     *)
(* against what they are meant to compute: the next minute all of whose    *)
(* fields match, and whether one has passed since the last run.            *)
(*                                                                         *)
(* The calendar is a parameter, with as few minutes, hours, weekdays and   *)
(* months as tell the branches of the code apart, months of different      *)
(* lengths and a leap day.  Time counts Units per minute from the start    *)
(* of year 0; local time is UTC.                                           *)
(***************************************************************************)
EXTENDS Integers, FiniteSets, Sequences, FiniteSetsExt

CONSTANTS
    Units,      \* units of time in a minute
    Minutes,    \* minutes in an hour
    Hours,      \* hours in a day
    Week,       \* days in a week
    MonthDays,  \* days in each month; the last one has one more in odd years
    Years,      \* bound: years of the calendar
    Fields,     \* the specifications each field may have: sets of parts
    Deadlines,  \* values of beat_cron_starting_deadline, or None
    None

Months == Len(MonthDays)
DaysIn(y, m) == MonthDays[m] + IF m = Months /\ y % 2 = 1 THEN 1 ELSE 0
MaxDays == Max({DaysIn(y, m) : y \in {0, 1}, m \in 1..Months})

ASSUME CrontabAssumption ==
    /\ {Units, Minutes, Hours, Week, Years, Months} \subseteq Nat \ {0}
    /\ MonthDays \in Seq(Nat \ {0})

Day == Units * Minutes * Hours
Dates == {d \in (0..(Years - 1)) \X (1..Months) \X (1..MaxDays) : d[3] <= DaysIn(d[1], d[2])}
Before(d, e) ==
    \/ d[1] < e[1]
    \/ d[1] = e[1] /\ d[2] < e[2]
    \/ d[1] = e[1] /\ d[2] = e[2] /\ d[3] < e[3]
Ordinal == [d \in Dates |-> Cardinality({e \in Dates : Before(e, d)})]
DateOf == [n \in 0..(Cardinality(Dates) - 1) |-> CHOOSE d \in Dates : Ordinal[d] = n]

End == Day * Cardinality(Dates) - 1
At(d, h, m) == Ordinal[d] * Day + (h * Minutes + m) * Units

DateAt(t) == DateOf[t \div Day]
Weekday(t) == (t \div Day) % Week
HourAt(t) == (t % Day) \div (Units * Minutes)
MinuteAt(t) == (t % (Units * Minutes)) \div Units

-----------------------------------------------------------------------------
(* crontab_parser: a part is "*" or "from-to", with a step or without      *)
(* (step 1); a single number is a range of one.                            *)
Numbers(a, b) == [i \in 1..(b - a + 1) |-> a + i - 1]

\* A range that does not wrap around.
ExpandRangeStraight(from, to, max, min) == Numbers(from, to)

ExpandRange(from, to, max, min) ==
    IF to < from THEN Numbers(from, min + max - 1) \o Numbers(min, to)
    ELSE Numbers(from, to)

ExpandStar(max, min) == Numbers(min, max + min - 1)

\* list[::step]
EveryNth(s, step) == {s[i] : i \in {j \in 1..Len(s) : (j - 1) % step = 0}}

ParsePart(p, max, min) ==
    EveryNth(IF p.star THEN ExpandStar(max, min) ELSE ExpandRange(p.from, p.to, max, min),
             p.step)

Parse(spec, max, min) == UNION {ParsePart(p, max, min) : p \in spec}

IsStar(spec) == \A p \in spec : p.star /\ p.step = 1

-----------------------------------------------------------------------------
VARIABLES
    spec,      \* the specification of each field
    cron,      \* the numbers each field stands for
    deadline,  \* beat_cron_starting_deadline
    last,      \* last_run_at
    now        \* the clock

vars == <<spec, cron, deadline, last, now>>

FieldNames == {"minute", "hour", "dow", "dom", "month"}
Largest(f) == CASE f = "minute" -> Minutes [] f = "hour" -> Hours [] f = "dow" -> Week
                [] f = "dom" -> MaxDays [] f = "month" -> Months
Smallest(f) == IF f \in {"dom", "month"} THEN 1 ELSE 0

\* The smallest element of S greater than x, or the smallest one.
After(S, x) == LET G == {s \in S : s > x} IN IF G = {} THEN Min(S) ELSE Min(G)

\* _delta_to_next: the first candidate day, then roll_over until it exists and is
\* not before the last run, then on to the next one until the weekday matches.
\* c is [year, month, day]; day 0 stands for "past the last day of the month".
DeltaToNext(t, hour, minute) ==
    LET date == DateAt(t)
        FirstDay == Min(cron.dom)
        DayAfter(x) == LET G == {d \in cron.dom : d > x} IN IF G = {} THEN 0 ELSE Min(G)
        NextMonth(c) ==
            LET G == {m \in cron.month : m > c.month} IN
            IF G = {} THEN [year |-> c.year + 1, month |-> Min(cron.month), day |-> FirstDay]
                      ELSE [year |-> c.year, month |-> Min(G), day |-> FirstDay]
        Flag(c) ==
            \/ c.day = 0
            \/ c.day > DaysIn(c.year, c.month)
            \/ At(<<c.year, c.month, c.day>>, hour, minute) < t
        search[c \in [year : 0..Years, month : 1..Months, day : 0..MaxDays]] ==
            IF c.year = Years THEN None
            ELSE IF Flag(c) THEN search[NextMonth(c)]
            ELSE IF Ordinal[<<c.year, c.month, c.day>>] % Week \in cron.dow
                 THEN At(<<c.year, c.month, c.day>>, hour, minute)
                 ELSE search[[c EXCEPT !.day = DayAfter(c.day)]]
    IN search[IF date[2] \in cron.month
              THEN [year |-> date[1], month |-> date[2], day |-> DayAfter(date[3])]
              ELSE [year |-> date[1], month |-> After(cron.month, date[2]), day |-> FirstDay]]

\* The hour of t has another minute to run at.  MoreThisHourOrNow: t's own counts.
MoreThisHourOrNow(t) == HourAt(t) \in cron.hour /\ MinuteAt(t) <= Max(cron.minute)
MoreThisHour(t) == HourAt(t) \in cron.hour /\ MinuteAt(t) < Max(cron.minute)

\* remaining_delta, as the time last_run_at + delta: None if it is past the calendar.
RemainingDelta(t) ==
    LET date == DateAt(t)
        dow == Weekday(t)
        thisDate == date[2] \in cron.month /\ date[3] \in cron.dom /\ dow \in cron.dow
        thisHour == thisDate /\ MoreThisHour(t)
        today == thisDate /\ HourAt(t) < Max(cron.hour)
        nextDay == After(cron.dow, dow)
        addWeek == IF nextDay = dow THEN Week ELSE 0
        n == (t \div Day) + ((Week - dow + nextDay) % Week) + addWeek
    IN CASE thisHour -> At(date, HourAt(t), After(cron.minute, MinuteAt(t)))
         [] ~ thisHour /\ today -> At(date, After(cron.hour, HourAt(t)), Min(cron.minute))
         [] ~ thisHour /\ ~ today /\ IsStar(spec.dom) /\ IsStar(spec.month) ->
               IF n \in DOMAIN DateOf THEN At(DateOf[n], Min(cron.hour), Min(cron.minute))
                                      ELSE None
         [] OTHER -> DeltaToNext(t, Min(cron.hour), Min(cron.minute))

\* x <= y for times, where None is later than any.
NotAfter(x, y) == x # None /\ x <= y

\* The deadline counts from a moment before now - deadline, so that a run exactly
\* then is within it; SinceExactly is that moment itself.
SinceExactly(n) == n - deadline
Since(n) == n - deadline - 1

\* A run was missed at time n, and the last one is too old to be made up for.
PassedDeadline(t, n) ==
    /\ deadline # None /\ NotAfter(RemainingDelta(t), n - 1)
    /\ Since(n) >= 0 /\ ~ NotAfter(RemainingDelta(Since(n)), n)

\* is_due that looks again at the run it has given up.
IsDueStale(t, n) ==
    LET end == RemainingDelta(t)
        due == NotAfter(end, n) /\ ~ PassedDeadline(t, n)
    IN [due |-> due, next |-> IF due THEN RemainingDelta(n) ELSE end]

\* is_due(last_run_at): whether to run, and when to look again.
IsDue(t, n) ==
    LET end == RemainingDelta(t)
    IN [due  |-> NotAfter(end, n) /\ ~ PassedDeadline(t, n),
        next |-> IF NotAfter(end, n) THEN RemainingDelta(n) ELSE end]

Init ==
    /\ spec \in [minute : Fields.minute, hour : Fields.hour, dow : Fields.dow,
                 dom : Fields.dom, month : Fields.month]
    /\ cron = [f \in FieldNames |-> Parse(spec[f], Largest(f), Smallest(f))]
    /\ deadline \in Deadlines
    /\ now \in 0..(Day * Week - 1)
    /\ last = now

\* The scheduler asks, and runs the entry if it is due.
Check ==
    /\ IsDue(last, now).due
    /\ last' = now
    /\ UNCHANGED <<spec, cron, deadline, now>>

Clock ==
    /\ now < End
    /\ now' = now + 1
    /\ UNCHANGED <<spec, cron, deadline, last>>

Next == Check \/ Clock

Spec == Init /\ [][Next]_vars

-----------------------------------------------------------------------------
\* The minutes a crontab stands for.
Matches(t) ==
    /\ t % Units = 0
    /\ MinuteAt(t) \in cron.minute /\ HourAt(t) \in cron.hour
    /\ Weekday(t) \in cron.dow
    /\ DateAt(t)[3] \in cron.dom /\ DateAt(t)[2] \in cron.month

\* A part stands for the numbers from the first to the last, around the end of the
\* field if the last is smaller, by steps counted from the first one.
Denoted(p, max, min) ==
    LET from == IF p.star THEN min ELSE p.from
        span == IF p.star THEN max - 1 ELSE (p.to - p.from) % max
    IN {min + ((from - min + k) % max) : k \in {j \in 0..span : j % p.step = 0}}

\* So crontab_parser reads every part of a field of max numbers from min on.
PartsExact(max, min) ==
    LET numbers == min..(max + min - 1) IN
    \A p \in [star : BOOLEAN, from : numbers, to : numbers, step : 1..(max + 1)] :
        ParsePart(p, max, min) = Denoted(p, max, min)

\* The next run is the first matching minute after the last one: none is skipped and
\* none is made up, across the ends of hours, weeks, short months and leap years.
NextIsFirstMatch ==
    LET next == RemainingDelta(last)
        M == {t \in (last + 1)..End : Matches(t)}
    IN next = IF M = {} THEN None ELSE Min(M)

\* An entry is due exactly when a matching minute has come since the last run that,
\* if there is a deadline, is not older than the deadline.
DueIffMissedInTime ==
    IsDue(last, now).due =
        \E t \in (last + 1)..now : Matches(t) /\ (deadline # None => t >= now - deadline)

\* After a run, or a run given up because of its deadline, beat looks again at the
\* next matching minute and not before or after it.
LooksAgainInTime ==
    LET next == IsDue(last, now).next
        M == {t \in (now + 1)..End : Matches(t)}
    IN next = IF M = {} THEN None ELSE Min(M)
=============================================================================
