SPECIFICATION Spec
CONSTANTS
  MaxRows = 2
  MaxTimes = 1
  Fields <- MCFields
  Definition <- MCDefinition
  Input = {"", "word", "1", "pre"}
  Name = {"name"}
INVARIANTS TypeOK StaysUpdatable PasswordIsOwn
PROPERTIES UpdateKeeps
VIEW Seen
CHECK_DEADLOCK FALSE
