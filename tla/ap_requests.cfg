SPECIFICATION ApFairSpec
CONSTANTS
  Threads = {t1, t2}
  Requests = {r1, r2}
  MaxInteractions = 2
  SharedThreads = FALSE
  Outcomes = {"5xx"}
  ExtractKeeps = TRUE
  hosted = hosted
  merged = merged
  local = local
  Names <- AllNames
  CoreInit = CoreInit
  Sites <- AllSites
  Declared <- Hosted
CHECK_DEADLOCK FALSE
INVARIANTS EngineBeforeUse ThreadToItself InteractionsStopped DiesOfConfiguration
PROPERTIES ContextsAreKept RequestsAreServed
