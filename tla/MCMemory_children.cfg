SPECIFICATION FairSpec
CONSTANTS
  main = main
  web = web
  c1 = c1
  c2 = c2
  Roots = {main}
  Children = {c1}
  Parent <- OneParent
  Orphans = FALSE
  MaxMade = 3
  MaxStarts = 2
INVARIANTS
  QuietAgrees
PROPERTIES
  EntriesSurvive
  NoComeback
  MemoryOnlyForgets
  ChildWorkArrives
CHECK_DEADLOCK FALSE
