\* Two workers race on the claims of two sessions while the sweep runs, and
\* clients list the sessions; the properties do not tell a reader from a writer.
CONSTANTS
  MaxSessions = 2
  Worker = {w1, w2}
  Command = {"plain", "wantread", "file", "remove"}
  IdleLimit = 0
  MaxLeaks = 1
  MaxInuse = 2
  MaxDebt = 1
SYMMETRY WorkerSymmetry
SPECIFICATION Spec
INVARIANTS TypeOK SharedIsProtected ClaimAccounting
PROPERTY DropsOnlyIdle
CHECK_DEADLOCK FALSE
