\* Two workers call two sessions, as readers and writers, which go when idle;
\* no exception is thrown.
CONSTANTS
  MaxSessions = 2
  Worker = {w1, w2}
  Command = {"wantread", "wantwrite"}
  IdleLimit = 0
  MaxLeaks = 0
  MaxInuse = 2
  MaxDebt = 0
SPECIFICATION FairSpec
PROPERTIES RequestsEnd IdleSessionsGo
VIEW Seen
CHECK_DEADLOCK FALSE
