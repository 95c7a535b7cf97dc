CONSTANTS
  Size = 2
  Count = 3
  Slack = 1
SPECIFICATION Spec
INVARIANT NothingLost
CHECK_DEADLOCK FALSE
