CONSTANTS
  Size = 4
  Count = 7
  Slack = 2
SPECIFICATION FairSpec
INVARIANTS BufferIsQueue EachInOnePlace
PROPERTIES FullWaitEnds SendingFeeds
CHECK_DEADLOCK FALSE
