SPECIFICATION Spec
CONSTANTS
  Live = {"inst", "data", "gcmd", "pixf", "bpas"}
  ReadWrap = 4
  PixfCredit = 1
  CafDepth = 2
  WdfDepth = 2
INVARIANTS RoutedToIssuer WritePairs WaitsForItsRead
PROPERTIES CachesServed
