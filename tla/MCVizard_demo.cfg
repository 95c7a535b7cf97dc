SPECIFICATION Spec
CONSTANTS
  Pictures = 4
  Keys = 4
  PauseKeys = {2}
  MaxTyped = 3
  Capacity = 2
INVARIANTS
  DrawnApart
  ListWhole
  KeysInOrder
PROPERTIES
  ShowsEachOnce
  FramesGoOn
  Closes
CHECK_DEADLOCK FALSE
