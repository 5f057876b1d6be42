\* The session registry's list and tree, with removals and hash collisions.
CONSTANTS
  MaxSessions = 6
  Key <- MCKey
SPECIFICATION Spec
INVARIANTS
  TypeOK
  ListIsLive
  FindIsMembership
PROPERTIES
  ImplementsRegistry
\* After MaxSessions creations and removals nothing is left to do.
CHECK_DEADLOCK FALSE
