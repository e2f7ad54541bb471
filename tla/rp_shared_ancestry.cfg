SPECIFICATION Spec
CONSTANTS
  Threads = {t1}
  Requests = {r1, r2}
  MaxInteractions = 1
  SharedThreads = TRUE
  Outcomes = {"none"}
  ExtractKeeps = FALSE
SYMMETRY Symmetry
CHECK_DEADLOCK FALSE
INVARIANTS OwnAncestry
