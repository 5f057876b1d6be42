\* Two clients of one session: one calls, the other logs out.
CONSTANTS
  MaxSessions = 1
  Worker = {w1, w2}
  Command = {"wantwrite", "remove"}
  IdleLimit = 0
  MaxLeaks = 1
  MaxInuse = 2
  MaxDebt = 0
SPECIFICATION Spec
INVARIANT CallHasSession
CHECK_DEADLOCK FALSE
