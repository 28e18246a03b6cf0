----------------------------- MODULE MCCronSearch -----------------------------
(***************************************************************************)
(* A small calendar for CronSearch: hours of two minutes, days of two      *)
(* hours, weeks of three days, years of three months with 2, 1 and 2 days. *)
(* The zone's clock is ahead of the host's by Offset minutes.  At the time *)
(* Back both are set back an hour.                                         *)
(***************************************************************************)
EXTENDS CronSearch, FiniteSets

CONSTANTS Offset, Back

MonthDays == <<2, 1, 2>>
MinutesPerDay == 4
MinutesPerYear == 20

\* Days of a year before a month.
DaysBefore(m) == <<0, 2, 3>>[m]

DayOfYear(t) == (t % MinutesPerYear) \div MinutesPerDay
MonthOf(t) == CHOOSE m \in 1..3 :
  DaysBefore(m) <= DayOfYear(t) /\ DayOfYear(t) < DaysBefore(m) + MonthDays[m]

ClockFace(t) ==
  [month |-> MonthOf(t), dom |-> DayOfYear(t) - DaysBefore(MonthOf(t)) + 1,
   dow |-> (t \div MinutesPerDay) % 3, hour |-> (t \div 2) % 2, minute |-> t % 2]

\* What the host's clock shows, and the first time at which it shows that.
Shown(t) == IF t < Back THEN t ELSE t - 2
First(shown) == IF shown < Back THEN shown ELSE shown + 2

MCZone(t) == ClockFace(Shown(t) + Offset)
MCYear(t) == Shown(t) \div MinutesPerYear
MCThisMinute(t) == First(Shown(t))
MCNextMinute(t) == First(Shown(t) + 1)
MCNextHour(t) == First(2 * (Shown(t) \div 2 + 1))
MCNextDay(t) == First(MinutesPerDay * (Shown(t) \div MinutesPerDay + 1))
MCMonthStart(y, m) == First(MinutesPerYear * y + MinutesPerDay * DaysBefore(m))

\* Raw fields: a star, every second, one value, a range and a list.
Star == [star |-> TRUE, from |-> 0, to |-> 0, step |-> 0]
EverySecond == [Star EXCEPT !.step = 2]
Term(a, b) == [star |-> FALSE, from |-> a, to |-> b, step |-> 0]

RawFields(lo, hi) ==
  {<<Star>>, <<EverySecond>>, <<Star, Term(lo, lo)>>, <<Term(lo, lo), Term(hi, hi)>>}
  \cup {<<Term(a, a)>> : a \in lo..hi} \cup {<<Term(lo + 1, hi)>>}

Parsed(lo, hi) ==
  {parseField(raw, lo, hi) :
     raw \in {r \in RawFields(lo, hi) : \A i \in DOMAIN r : ValidTerm(r[i], lo, hi)}}

MCExprs ==
  [minute : Parsed(0, 1), hour : Parsed(0, 1), dom : Parsed(1, 2),
   month : Parsed(1, 3), dow : Parsed(0, 2)]

\* What the proofs assume holds of this calendar if the zone is the host's
\* and no clock is set back in it.
ASSUME MCCalendarAssumption == (Offset = 0 /\ Back > 100 => ZoneIsHost(0..60)) /\ MonthsAreNamed

MCAfters == 17..20
MCLookahead == MinutesPerYear

=============================================================================
