SPECIFICATION Spec
CONSTANTS
  User = {"admin", "reseller", "a", "b", "c"}
  NoUser = "none"
  Owner <- MCOwner
  Amount = {0, 1, 2}
PROPERTIES AllowanceKept
