CONSTANTS
  ByteValues = 2
  DumpWords = 3
  FrameNumbers = 2
  FrameBytes = 4
  HostFrames = 2
  Memory0 <- MCMemory
  Inputs <- MCInputs
  Numbers <- MCNumbers
  Commands = 2
  ExclusiveOr <- MCXor
SPECIFICATION ConsoleSpec
INVARIANT Checksum
PROPERTIES WritesWhereTold DumpsContinue FramesAgree
CHECK_DEADLOCK FALSE
