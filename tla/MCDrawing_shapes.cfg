SPECIFICATION Spec
CONSTANTS
  WordBits = 11
  HalfBits = 4
  Columns = 19
  Rows = 17
  Shapes <- MCShapes
  Fields = 1024
  Fills <- MCFills
  Others <- MCOthers
INVARIANT LineIsNearest
INVARIANT RenderersAgree
INVARIANT CirclesAsCommented
INVARIANT ProductsAgree
INVARIANT ListsDecode
PROPERTY LoopsEnd
