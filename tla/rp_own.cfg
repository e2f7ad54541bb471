SPECIFICATION FairSpec
CONSTANTS
  Threads = {t1, t2}
  Requests = {r1, r2}
  MaxInteractions = 2
  SharedThreads = FALSE
  Outcomes = {"none", "4xx", "5xx"}
  ExtractKeeps = TRUE
CHECK_DEADLOCK FALSE
INVARIANTS TypeOK OwnContext OwnAncestry IdleThreadIsClean OpenSpansAreTracked
PROPERTIES ClosedSpansAreFinal SpansEnd
