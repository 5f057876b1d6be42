\* One session makes, gives away and deletes users, domains and mail, and
\* fills and frees quotas set on users.
SPECIFICATION Spec
CONSTANTS
  MaxObjects = 4
  Class = {"User", "Domain", "Mail"}
  User = "User"
  Requires <- MCRequires
  Scope <- UserScope
  Name = {admin, m, n}
  Admin = admin
  MaxContent = 1
  Quota <- DomainQuota
  MaxLimits = 1
  Session = {s1}
  Command = {"create", "chown", "quota", "delete"}
  Answer = {"ok"}
  Immediate = {FALSE}
SYMMETRY Symmetry
INVARIANTS MirrorFollowsOwners PowerIsAncestry ParentsExist OwnersFollowParents
PROPERTY QuotaKept
