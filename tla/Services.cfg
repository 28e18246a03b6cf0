CONSTANTS
  Offset = 0
  Back = 1000
  NumMonths = 3
  Exprs <- MCExprs
  Afters <- MCAfters
  Lookahead <- MCLookahead
  Zone <- MCZone
  Year <- MCYear
  ThisMinute <- MCThisMinute
  NextMinute <- MCNextMinute
  NextHour <- MCNextHour
  NextDay <- MCNextDay
  MonthStart <- MCMonthStart
  Keys = {k1, k2, k3}
  NoKey = NoKey
  MaxSeen = 2
  TTL = 1
  Slots = {1, 2}
  MaxTime = 2
  MaxDeliveries = 3
  MaxPluginCalls = 4
  MaxCrashes = 1
  Keep = 1
  Pkgs = {core, sdk}
  Unbuilt = {sdk}
  MaxCoreCalls = 5
  MaxTxns = 2
  MaxEdits = 1
  Calls = {1, 2}
  MaxAttach = 2
  MaxConns = 3
  MaxFaults = 1
  Turns = {t1}
  MaxAsks = 1
  MaxSessions = 2
  MaxWindows = 2
SPECIFICATION SSpec
INVARIANTS
  FirstFire
  CountIsExact
  UndoIsThere
  UndoneIsUndone
  UndoRestores
  OneConnectionEach
  DetachedIsClosed
PROPERTIES
  DedupeIsAWindow
  DenialHasAReason
CHECK_DEADLOCK FALSE
