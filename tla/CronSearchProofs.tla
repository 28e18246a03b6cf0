--------------------------- MODULE CronSearchProofs ---------------------------
(***************************************************************************)
(* The search for a cron expression's next match finds the first one, for  *)
(* any calendar in which the steps move on the zone's own clock and that   *)
(* clock is never set back.                                                *)
(***************************************************************************)
EXTENDS CronSearch, TLAPS

\* What the proofs assume of the parameters.
Calendar ==
  /\ ZoneIsHost(Nat) /\ MonthsAreNamed
  /\ Afters \subseteq Nat /\ Lookahead \in Nat /\ NumMonths \in Nat \ {0}

\* Nothing that fires lies between the start and the cursor.
Passed == \A t \in (after + 1)..(cursor - 1) : ~Fires(t)

\* The cursor is a minute after the one asked about.
CursorOK ==
  /\ cron \in Exprs /\ after \in Nat /\ cursor \in Nat /\ cursor > after

\* The inductive invariant.
IInv == CursorOK /\ Passed /\ (result = "found" => Fires(cursor))

\* A jump that passes over minutes at which the expression cannot fire, and
\* lands later, keeps the invariant.
LEMMA JumpKeeps ==
  ASSUME IInv, result = "searching", UNCHANGED <<cron, after, result>>,
         NEW to \in Nat, cursor' = to, to > cursor,
         \A u \in cursor..(to - 1) : ~Fires(u)
  PROVE  IInv'
<1>1. CursorOK'
  BY DEF IInv, CursorOK
<1>2. Passed'
  <2> SUFFICES ASSUME NEW t \in (after + 1)..(to - 1) PROVE ~Fires(t)
    BY DEF Passed, Fires, MonthOk, HourOk, MinuteOk
  <2>1. after \in Nat /\ cursor \in Nat
    BY DEF IInv, CursorOK
  <2>2. CASE t < cursor
    BY <2>1, <2>2 DEF IInv, Passed
  <2>3. CASE t >= cursor
    BY <2>1, <2>3
  <2> QED BY <2>1, <2>2, <2>3
<1> QED BY <1>1, <1>2 DEF IInv

\* jumpToNextMonth: no month it passes over is one that the expression names.
LEMMA MonthJump ==
  ASSUME Calendar, IInv, JumpMonth
  PROVE  IInv'
<1> DEFINE m == Zone(cursor).month
           k == MonthsAhead(m, cron.month.values)
           to == jumpToNextMonth(cursor)
<1>1. m \in Months
  BY DEF Calendar, ZoneIsHost, IInv, CursorOK
<1>2. /\ k \in Months
      /\ \A j \in 1..(k - 1) : MonthAfter(m, j) \notin cron.month.values
  BY <1>1 DEF Calendar, MonthsAreNamed, MonthsAhead, IInv, CursorOK
<1>3. /\ to \in Nat /\ to > cursor
      /\ \A u \in cursor..(to - 1) :
           Zone(u).month \in {m} \cup {MonthAfter(m, j) : j \in 1..(k - 1)}
  BY <1>2 DEF Calendar, ZoneIsHost, IInv, CursorOK, jumpToNextMonth
<1>4. \A u \in cursor..(to - 1) : ~Fires(u)
  BY <1>2, <1>3 DEF JumpMonth, Fires, MonthOk
<1> QED BY <1>3, <1>4, JumpKeeps DEF JumpMonth, Looking

\* jumpToNextDay: the days' two fields are the same until the day ends.
LEMMA DayJump ==
  ASSUME Calendar, IInv, JumpDay
  PROVE  IInv'
<1> DEFINE to == NextDay(cursor)
<1>1. /\ to \in Nat /\ to > cursor
      /\ \A u \in cursor..(to - 1) :
           Zone(u).dom = Zone(cursor).dom /\ Zone(u).dow = Zone(cursor).dow
  BY DEF Calendar, ZoneIsHost, IInv, CursorOK
<1>2. \A u \in cursor..(to - 1) : ~Fires(u)
  BY <1>1 DEF JumpDay, DayOk, Fires
<1> QED BY <1>1, <1>2, JumpKeeps DEF JumpDay, Looking

\* jumpToNextHour.
LEMMA HourJump ==
  ASSUME Calendar, IInv, JumpHour
  PROVE  IInv'
<1> DEFINE to == NextHour(cursor)
<1>1. /\ to \in Nat /\ to > cursor
      /\ \A u \in cursor..(to - 1) : Zone(u).hour = Zone(cursor).hour
  BY DEF Calendar, ZoneIsHost, IInv, CursorOK
<1>2. \A u \in cursor..(to - 1) : ~Fires(u)
  BY <1>1 DEF JumpHour, HourOk, Fires
<1> QED BY <1>1, <1>2, JumpKeeps DEF JumpHour, Looking

\* The step of a minute.
LEMMA MinuteStep ==
  ASSUME Calendar, IInv, StepMinute
  PROVE  IInv'
<1> DEFINE to == NextMinute(cursor)
<1>1. /\ to \in Nat /\ to > cursor
      /\ \A u \in cursor..(to - 1) : Zone(u).minute = Zone(cursor).minute
  BY DEF Calendar, ZoneIsHost, IInv, CursorOK
<1>2. \A u \in cursor..(to - 1) : ~Fires(u)
  BY <1>1 DEF StepMinute, MinuteOk, Fires
<1> QED BY <1>1, <1>2, JumpKeeps DEF StepMinute, Looking

\* At a minute where every test of the walk succeeds the expression fires.
LEMMA FoundFires ==
  ASSUME IInv, Found
  PROVE  IInv'
<1>1. Fires(cursor)
  BY DEF Found, DayOk, Fires
<1> QED BY <1>1 DEF Found, IInv, CursorOK, Passed, Fires, MonthOk, HourOk, MinuteOk

\* cron.ts, nextFireTime: for every expression, in every calendar whose clock
\* is the expression's own and is never set back, the answer is the first
\* minute after the given one at which the expression fires.
THEOREM SearchFindsFirst == Calendar => (Spec => []FirstFire)
<1> SUFFICES ASSUME Calendar PROVE Spec => []FirstFire
  OBVIOUS
<1>1. Init => IInv
  <2> SUFFICES ASSUME Init PROVE IInv
    OBVIOUS
  <2>1. after \in Nat /\ cron \in Exprs /\ cursor = after + 1
    BY DEF Calendar, ZoneIsHost, Init
  <2> QED BY <2>1 DEF Init, IInv, CursorOK, Passed
<1>2. IInv /\ [Next]_vars => IInv'
  <2> SUFFICES ASSUME IInv, [Next]_vars PROVE IInv'
    OBVIOUS
  <2>1. CASE GiveUp
    BY <2>1 DEF GiveUp, Looking, IInv, CursorOK, Passed, Fires, MonthOk, HourOk, MinuteOk
  <2>2. CASE UNCHANGED vars
    BY <2>2 DEF vars, IInv, CursorOK, Passed, Fires, MonthOk, HourOk, MinuteOk
  <2> QED BY <2>1, <2>2, MonthJump, DayJump, HourJump, MinuteStep, FoundFires DEF Next
<1>3. IInv => FirstFire
  BY DEF IInv, CursorOK, Passed, FirstFire
<1> QED BY <1>1, <1>2, <1>3, PTL DEF Spec

=============================================================================
