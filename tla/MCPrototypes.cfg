SPECIFICATION Spec
CONSTANTS
  Session = {s1, s2}
  MaxRows = 10
  Class = {"Domain", "Host", "Alias"}
  Root = "Domain"
  Scope <- MCScope
  Prototype <- MCPrototype
  Name = {"n1", "n2"}
  MaxEdits = 1
VIEW Seen
SYMMETRY Symmetry
PROPERTIES CopiesAreWhole
CHECK_DEADLOCK FALSE
