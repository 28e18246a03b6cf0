------------------------------ MODULE CronSearch ------------------------------
(***************************************************************************)
(* nextFireTime (plugin-scheduler/src/cron.ts): from the minute after a    *)
(* given one it walks forward, with jumps over months, days and hours that *)
(* cannot match, until every field of a cron expression matches.           *)
(*                                                                         *)
(* Times are minutes.  The calendar is the platform's and a parameter:     *)
(* Zone is the clock face the expression is about (Date's getters, or      *)
(* Intl for an explicit zone), while every step, of a minute too, moves    *)
(* the hands of the host's clock (Date's setters), which take a time that  *)
(* the clock shows twice for the first of the two.  MCCronSearch gives a   *)
(* small calendar.                                                         *)
(***************************************************************************)
EXTENDS Integers, Sequences

CONSTANTS
  Exprs,            \* parsed expressions
  Afters,           \* times to search from
  Lookahead,        \* length of the search: 366 days
  NumMonths,        \* months of a year
  Zone(_),          \* [month, dom, dow, hour, minute] of a time, in the zone
  Year(_),          \* the host's year
  ThisMinute(_),    \* the minute the host's clock shows at a time
  NextMinute(_),    \* the next minute on the host's clock
  NextHour(_),      \* the start of the next hour on the host's clock
  NextDay(_),       \* the start of the next day on the host's clock
  MonthStart(_, _)  \* the start of a month of a year on the host's clock

VARIABLES
  cron,     \* the parsed expression
  after,    \* where the search starts, exclusive
  cursor,   \* the minute under consideration
  result    \* "searching", "found" or "none"

vars == <<cron, after, cursor, result>>

Months == 1..NumMonths

\* What the expressions and the times may be.
Field == [values : SUBSET Nat, restricted : BOOLEAN]

-----------------------------------------------------------------------------
\* parseField: a field is a list of terms, each a range and a step; a star is
\* the whole range, a missing step is 0.  The whole range by itself, stepped
\* or not, does not restrict the field.
ValidTerm(t, lo, hi) == t.star \/ (lo <= t.from /\ t.from <= t.to /\ t.to <= hi)

TermValues(t, lo, hi) ==
  LET first == IF t.star THEN lo ELSE t.from
      last  == IF t.star THEN hi ELSE t.to
  IN  {v \in first..last : t.step = 0 \/ (v - first) % t.step = 0}

parseField(raw, lo, hi) ==
  [values |-> UNION {TermValues(raw[i], lo, hi) : i \in DOMAIN raw},
   restricted |-> ~raw[1].star \/ (Len(raw) > 1 /\ raw[1].step = 0)]

-----------------------------------------------------------------------------
\* The tests of the walk.
MonthOk(t) == Zone(t).month \in cron.month.values
HourOk(t) == Zone(t).hour \in cron.hour.values
MinuteOk(t) == Zone(t).minute \in cron.minute.values

\* Mutant: both fields count even if both are restricted.
DayOkBoth(t) == Zone(t).dom \in cron.dom.values /\ Zone(t).dow \in cron.dow.values

DayOk(t) ==
  LET dom == Zone(t).dom \in cron.dom.values
      dow == Zone(t).dow \in cron.dow.values
  IN  IF cron.dom.restricted /\ cron.dow.restricted THEN dom \/ dow ELSE dom /\ dow

\* Whether an expression fires at a time: month, hour and minute match, and
\* the day does: by either of its two fields if both are restricted.
Fires(t) ==
  /\ MonthOk(t) /\ HourOk(t) /\ MinuteOk(t)
  /\ \/ Zone(t).dom \in cron.dom.values /\ Zone(t).dow \in cron.dow.values
     \/ /\ cron.dom.restricted /\ cron.dow.restricted
        /\ Zone(t).dom \in cron.dom.values \/ Zone(t).dow \in cron.dow.values

\* The k-th month after a given one, as a month and a number of years.
MonthAfter(m, k) == ((m + k - 1) % NumMonths) + 1
YearsAfter(m, k) == (m + k - 1) \div NumMonths

\* How far the next month is that the expression names.
MonthsAhead(m, valid) ==
  CHOOSE k \in Months :
    /\ MonthAfter(m, k) \in valid
    /\ \A j \in 1..(k - 1) : MonthAfter(m, j) \notin valid

jumpToNextMonth(t) ==
  LET m == Zone(t).month
      k == MonthsAhead(m, cron.month.values)
  IN  MonthStart(Year(t) + YearsAfter(m, k), MonthAfter(m, k))

-----------------------------------------------------------------------------
Init ==
  /\ cron \in Exprs
  /\ after \in Afters
  /\ cursor = ThisMinute(after + 1)
  /\ result = "searching"

Looking == result = "searching" /\ cursor <= ThisMinute(after + 1) + Lookahead

JumpMonth ==
  /\ Looking /\ ~MonthOk(cursor)
  /\ cursor' = jumpToNextMonth(cursor)
  /\ UNCHANGED <<cron, after, result>>

JumpDay ==
  /\ Looking /\ MonthOk(cursor) /\ ~DayOk(cursor)
  /\ cursor' = NextDay(cursor)
  /\ UNCHANGED <<cron, after, result>>

JumpHour ==
  /\ Looking /\ MonthOk(cursor) /\ DayOk(cursor) /\ ~HourOk(cursor)
  /\ cursor' = NextHour(cursor)
  /\ UNCHANGED <<cron, after, result>>

StepMinute ==
  /\ Looking /\ MonthOk(cursor) /\ DayOk(cursor) /\ HourOk(cursor) /\ ~MinuteOk(cursor)
  /\ cursor' = NextMinute(cursor)
  /\ UNCHANGED <<cron, after, result>>

Found ==
  /\ Looking /\ MonthOk(cursor) /\ DayOk(cursor) /\ HourOk(cursor) /\ MinuteOk(cursor)
  /\ result' = "found"
  /\ UNCHANGED <<cron, after, cursor>>

GiveUp ==
  /\ result = "searching" /\ ~Looking
  /\ result' = "none"
  /\ UNCHANGED <<cron, after, cursor>>

Next == JumpMonth \/ JumpDay \/ JumpHour \/ StepMinute \/ Found \/ GiveUp

Spec == Init /\ [][Next]_vars

-----------------------------------------------------------------------------
(***************************************************************************)
(* Properties.                                                             *)
(***************************************************************************)

\* nextFireTime's jumps: the answer is the first minute after the given one
\* at which the expression fires; "none" means that there is none within the
\* lookahead.  The code keeps this where the zone is the host's and the host's
\* clock is not set back.
FirstFire ==
  /\ result = "found" => cursor > after /\ Fires(cursor)
  /\ result # "searching" => \A t \in (after + 1)..(cursor - 1) : ~Fires(t)

\* "walk forward from `after` (exclusive)" (cron.ts:116): what is found lies
\* ahead.  A clock that is set back breaks it, in the host's own zone too.
LiesAhead == result = "found" => cursor > after

\* That the steps move on the clock the expression is about and that this one
\* is never set back, for times T: no minute, hour, day or month ends within
\* a step over it.
ZoneIsHost(T) ==
  \A t \in T :
    /\ Zone(t).month \in Months
    /\ ThisMinute(t) = t
    /\ NextMinute(t) \in Nat /\ NextMinute(t) > t
    /\ NextHour(t) \in Nat /\ NextHour(t) > t
    /\ NextDay(t) \in Nat /\ NextDay(t) > t
    /\ \A u \in t..(NextMinute(t) - 1) :
         Zone(u).minute = Zone(t).minute
    /\ \A u \in t..(NextHour(t) - 1) :
         Zone(u).hour = Zone(t).hour
    /\ \A u \in t..(NextDay(t) - 1) :
         Zone(u).dom = Zone(t).dom /\ Zone(u).dow = Zone(t).dow
    /\ \A k \in Months :
         LET m == Zone(t).month
             start == MonthStart(Year(t) + YearsAfter(m, k), MonthAfter(m, k))
         IN  /\ start \in Nat /\ start > t
             /\ \A u \in t..(start - 1) :
                  Zone(u).month \in {m} \cup {MonthAfter(m, j) : j \in 1..(k - 1)}

\* That every expression names a month, and so from any month on a first one.
MonthsAreNamed ==
  \A e \in Exprs, m \in Months :
    \E k \in Months : /\ MonthAfter(m, k) \in e.month.values
                       /\ \A j \in 1..(k - 1) : MonthAfter(m, j) \notin e.month.values

=============================================================================
