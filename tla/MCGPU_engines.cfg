CONSTANTS
  ChunkWords = 2
  Chunks = 3
  Frames = {1, 2}
  Memories <- SomeLists
  MaxRuns = 1
  MaxPairs = 2
SPECIFICATION FairGPUSpec
INVARIANTS NoReadWhenIdle InOrder FrameWithinList
PROPERTIES Finishes
