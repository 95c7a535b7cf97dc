CONSTANTS
  Beat = 2
  Capacity = 4
  Startup = 2
  Target = 3
  Wrap = 8
  FrameRequests = 4
  MaxEdges = 2
  FrameChoices = {1, 2}
  MaxUnderruns = 3
SPECIFICATION FairFeederSpec
INVARIANTS NeverOverflows InPlace
PROPERTY SelectedGoesLive
