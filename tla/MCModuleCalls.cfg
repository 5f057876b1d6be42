\* Two users; a worker for u1, one for logouts only, and one that the scripts share
\* with both users.  The session of f1's script may be logged out.
CONSTANTS
  domain = domain
  mail = mail
  user = user
  u1 = u1
  u2 = u2
  f1 = f1
  f2 = f2
  b1 = b1
  None = None
  Module = {domain, mail, user}
  WantsRPC = {domain, mail}
  Demo = {}
  MayAsk <- MCMayAsk
  User = {u1, u2}
  Leaving = {f1}
  Front = {f1, f2}
  Back = {b1}
  Clients <- MCClients
  Commands <- MCCommands
  MaxAsks = 1
  MaxStuck = 1
SPECIFICATION FairSpec
INVARIANTS TypeOK SessionFollowsCall ActsForUser DiesForAReason
PROPERTIES RequestsEnd SaveEnds
CHECK_DEADLOCK FALSE
