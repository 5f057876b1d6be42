\* Two sessions work on the same objects, step by step, with crashes.
SPECIFICATION Spec
CONSTANTS
  MaxObjects = 3
  Class = {"User", "Domain", "Mail"}
  User = "User"
  Requires <- MCRequires
  Scope <- ClassScope
  Name = {admin}
  Admin = admin
  MaxContent = 2
  Quota <- NoQuota
  MaxLimits = 0
  Session = {s1, s2}
  Command = {"create", "update", "delete", "crash"}
  Answer = {"ok","failed","postponed"}
  Immediate = {TRUE, FALSE}
SYMMETRY Symmetry
INVARIANTS TypeOK InStep
PROPERTY DeletedStaysGone
VIEW Seen
