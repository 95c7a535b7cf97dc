CONSTANTS
  MainSize = 5
  PC_ISR = 10
  Sources = {s1, s2}
  Programs <- AllPrograms
SPECIFICATION FairSpec
INVARIANT HandlerRunsAlone
PROPERTIES PreciseSpec HandlerReturns RequestTaken
CHECK_DEADLOCK FALSE
