CONSTANTS
  MainSize = 5
  PC_ISR = 10
  Sources = {s1}
  Programs <- AllPrograms
SPECIFICATION Spec
INVARIANT DisableHolds
CHECK_DEADLOCK FALSE
