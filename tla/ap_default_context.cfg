SPECIFICATION ApSpec
CONSTANTS
  Threads = {t1, t2}
  Requests = {r1, r2}
  MaxInteractions = 2
  SharedThreads = FALSE
  Outcomes = {"5xx"}
  ExtractKeeps = TRUE
  hosted = hosted
  merged = merged
  local = local
  Names <- AllNames
  CoreInit = CoreInit
  Sites <- PlainSites
  Declared <- Hosted
CHECK_DEADLOCK FALSE
PROPERTY DefaultContextServes
