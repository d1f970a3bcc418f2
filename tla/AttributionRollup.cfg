\* Locked runs that end in time, crashes, missed hours, the script, pruning.
SPECIFICATION FairSpec
CONSTANTS
  s0 = s0  t0 = t0  s1 = s1
  Span = {s0, t0, s1}
  HourOf <- MCHourOf
  GroupOf <- MCGroupOf
  Runner = {r1, r2}
  Operator = {o1}
  MaxHours = 2
  Retention = 3
  HoursBack = 1
  MaxBacklog = 2
  LateSpans = FALSE
  JobsAreQuick = TRUE
  RedisMayFail = FALSE
  MayAbort = TRUE
  MaxTime = 4
INVARIANTS ClosedHoursComplete PrunedAreRolledUp
PROPERTIES ImplementsLedger EventuallyRolledUp
CHECK_DEADLOCK FALSE
