\* A child that outlives its killed parent: EntriesSurvive does not hold
\* (README, section 6).
SPECIFICATION Spec
CONSTANTS
  main = main
  web = web
  c1 = c1
  c2 = c2
  Roots = {main}
  Children = {c1}
  Parent <- OneParent
  Orphans = TRUE
  MaxMade = 3
  MaxStarts = 2
PROPERTIES
  EntriesSurvive
CHECK_DEADLOCK FALSE
