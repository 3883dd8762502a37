SPECIFICATION Spec
CONSTANTS
  short = short
  limit = limit
  long = long
  none = none
  Docs = {short, limit, long}
  Length <- MCLength
  PageLengths = {2, 3, 4}
  NoDoc = none
  MaxFrame = 3
  Capacity = 1
  MaxId = 2
  MaxSpawns = 3
INVARIANTS RepliesInStep NoneLeftBehind
PROPERTY ImplementsRenderService
