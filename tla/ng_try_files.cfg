SPECIFICATION NgxSpec
CONSTANTS
  Threads = {w1}
  Requests = {r1}
  MaxInteractions = 2
  SharedThreads = TRUE
  Outcomes = {"none"}
  ExtractKeeps = FALSE
  MaxRedirects = 1
CHECK_DEADLOCK FALSE
PROPERTIES TryFilesEndsRequest
