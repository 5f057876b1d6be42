\* Three starts, one session, two alerts.
CONSTANTS
  MaxStarts = 3
  MaxSessions = 1
  MaxAlerts = 2
SPECIFICATION FairSpec
INVARIANTS TypeOK AlertsKept TwiceForAReason
PROPERTIES LogoutIsFinal ShutdownEnds AlertsGoOut
CHECK_DEADLOCK FALSE
