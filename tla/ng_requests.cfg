SPECIFICATION NgxSpec
CONSTANTS
  Threads = {w1}
  Requests = {r1, r2}
  MaxInteractions = 2
  SharedThreads = TRUE
  Outcomes = {"5xx"}
  ExtractKeeps = FALSE
  MaxRedirects = 2
SYMMETRY Symmetry
CHECK_DEADLOCK FALSE
INVARIANTS HandleIsLive InteractionsMirrorCalls EndedUnlessLost
PROPERTIES StopsItsOwn ParentStillOpen
