SPECIFICATION Spec
CONSTANTS
  main = main
  web = web
  c1 = c1
  c2 = c2
  Roots = {main, web}
  Children = {}
  Parent <- NoParent
  Orphans = FALSE
  MaxMade = 3
  MaxStarts = 2
PROPERTIES
  EntriesSurvive
CHECK_DEADLOCK FALSE
