CONSTANTS
  Offset = 2
  Back = 1000
  NumMonths = 3
  Exprs <- MCExprs
  Afters <- MCAfters
  Lookahead <- MCLookahead
  Zone <- MCZone
  Year <- MCYear
  ThisMinute <- MCThisMinute
  NextMinute <- MCNextMinute
  NextHour <- MCNextHour
  NextDay <- MCNextDay
  MonthStart <- MCMonthStart
SPECIFICATION Spec
INVARIANT FirstFire
CHECK_DEADLOCK FALSE
