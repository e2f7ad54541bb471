------------------------ MODULE ApacheModule_proofs ------------------------
(***************************************************************************)
(* For any number of threads, requests, sites and contexts: the hooks of   *)
(* the Apache module use the agent only as RequestProcessing allows, find  *)
(* the engine of every declared context made before they look for it,      *)
(* leave a thread's context stack to one request at a time and, without    *)
(* .htaccess files, stop every interaction and die only of configurations. *)
(***************************************************************************)
EXTENDS ApacheModule, RequestProcessing_proofs

ApStep(r) == Accept(r) \/ Serve(r)

\* otel_stopInteraction is an operation of the agent, or nothing.
LEMMA StopIsStep ==
  ASSUME NEW r \in Requests, NEW always \in BOOLEAN, Stop(r, always)
  PROVE  [Next]_vars /\ phase' = phase /\ home' = home
<1>1. CASE UNCHANGED vars
  BY <1>1 DEF vars
<1>2. CASE \E err \in Outcomes : EndInteraction(r, err)
  <2>1. PICK err \in Outcomes : EndInteraction(r, err)
    BY <1>2
  <2>2. phase' = phase /\ home' = home
    BY <2>1 DEF EndInteraction
  <2> QED
    BY <1>2, <2>2 DEF Next
<1> QED
  BY <1>1, <1>2 DEF Stop

\* What each action does to the agent's request variables.
LEMMA ApStepIsStep ==
  ASSUME NEW r \in Requests, ApStep(r)
  PROVE  [Next]_vars
<1>1. Accept(r) \/ Configure(r) \/ Begin(r) \/ Depend(r) => UNCHANGED vars
  BY DEF Accept, Configure, Begin, Depend
<1>2. \A n \in Contexts : AddContext(r, n) \/ CreatesContext(r, n) \/ InitsContext(r, n)
        => UNCHANGED vars
  BY DEF AddContext, CreatesContext, InitsContext
<1>3. InitAgent(r) \/ Releases(r) \/ Publish(r) \/ StartFails(r) \/ StartDies(r) \/ HookBegins(r)
        => UNCHANGED vars
  BY DEF InitAgent, Releases, Publish, StartFails, StartDies, HookBegins
<1>4. Start(r) \/ HookStarts(r) \/ EndUnwinds(r) \/ EndFinishes(r) => [Next]_vars
  BY DEF Start, HookStarts, EndUnwinds, EndFinishes, Next
<1>5. HookStops(r) \/ HookEnds(r) \/ EnterHandler(r) \/ EnterLog(r) => [Next]_vars
  <2>1. AlwaysRuns(r) \in BOOLEAN
    BY DEF AlwaysRuns
  <2> QED
    BY <2>1, StopIsStep DEF HookStops, HookEnds, EnterHandler, EnterLog
<1>6. LogEnds(r) \/ EndsRequest(r) => [Next]_vars
  BY StopIsStep DEF LogEnds, EndsRequest, Next
<1> QED
  BY <1>1, <1>2, <1>3, <1>4, <1>5, <1>6 DEF ApStep, Serve

LEMMA ApNextImplements == [ApNext]_allVars => [Next]_vars
<1>1. UNCHANGED allVars => [Next]_vars
  BY DEF allVars
<1> QED
  BY <1>1, ApStepIsStep DEF ApNext, ApStep

\* The Apache module implements the agent's specification: whatever stages the
\* modules skip and whoever initialises the child, its hooks start, stop and
\* end only what RequestProcessing allows.
THEOREM ApacheDrivesAgent == ApSpec => Spec
<1>1. ApInit => Init
  BY DEF ApInit
<1> QED
  BY <1>1, ApNextImplements, PTL DEF ApSpec, Spec

\* Under Apache no trace mixes requests: a thread serves one at a time.
THEOREM ApacheTracesStayApart ==
  ASSUME SharedThreads = FALSE
  PROVE  ApSpec => []OwnAncestry
BY ApacheDrivesAgent, TracesStayApart, PTL

-----------------------------------------------------------------------------
(* Types.                                                                  *)

\* The part of ApTypeOK that is not about requests and their spans.
PlacesOK ==
  /\ AgentTypeOK(Requests)
  /\ site \in [Requests -> Sites]
  /\ at \in [Requests -> Places]
  /\ adding \in [Requests -> SUBSET Names]
  /\ hook \in [Requests -> {"none", "stop", "start"}]
  /\ note \in [Requests -> BOOLEAN]
  /\ published \in BOOLEAN
  /\ declared \in SUBSET Names
  /\ reportAll \in BOOLEAN
  /\ crashed \in BOOLEAN

LEMMA SiteType ==
  ASSUME PlacesOK, NEW r \in Requests
  PROVE  site[r].name \in Names /\ site[r].name \in Contexts
BY SitesAssumption DEF PlacesOK, Contexts

LEMMA InitPlaces == ApInit => PlacesOK
<1>1. AgentInit => AgentTypeOK(Requests)
  BY DEF AgentInit, AgentTypeOK
<1>2. ApInit => at \in [Requests -> Places]
  BY DEF ApInit, Places
<1> QED
  BY <1>1, <1>2, SitesAssumption DEF ApInit, PlacesOK

\* Moving on keeps a request within the places there are.
LEMMA MoveType ==
  ASSUME PlacesOK, NEW r \in Requests, NEW from, NEW to \in Places, Moves(r, from, to)
  PROVE  at' \in [Requests -> Places]
BY DEF PlacesOK, Moves

LEMMA PlacesSteps ==
  ASSUME PlacesOK, NEW r \in Requests, ApStep(r)
  PROVE  PlacesOK'
<1>1. CASE Accept(r)
  BY <1>1 DEF Accept, Moves, PlacesOK, Places, AgentTypeOK, agent
<1>2. CASE Configure(r)
  <2>1. at' \in [Requests -> Places]
    BY <1>2 DEF Configure, Moves, PlacesOK, Places
  <2>2. adding' \in [Requests -> SUBSET Names] /\ declared' \in SUBSET Names
    <3>1. site[r].name \in Names
      BY SiteType
    <3>2. [q \in Requests |-> IF at[q] = "adding" /\ site[r].name \notin declared
                              THEN adding[q] \cup {site[r].name} ELSE adding[q]]
            \in [Requests -> SUBSET Names]
      BY <3>1 DEF PlacesOK
    <3> QED
      BY <1>2, <3>1, <3>2 DEF Configure, PlacesOK
  <2>3. reportAll' \in BOOLEAN /\ crashed' \in BOOLEAN
    BY <1>2 DEF Configure, PlacesOK
  <2> QED
    BY <1>2, <2>1, <2>2, <2>3 DEF Configure, PlacesOK, AgentTypeOK, agent
<1>3. CASE Begin(r)
  BY <1>3 DEF Begin, Moves, PlacesOK, Places, Stages, AgentTypeOK, agent
<1>4. CASE Depend(r)
  BY <1>4 DEF Depend, InitDependency, Moves, PlacesOK, Places, AgentTypeOK
<1>5. ASSUME NEW n \in Contexts, AddContext(r, n)
      PROVE  PlacesOK'
  <2>1. n \in Names
    BY <1>5 DEF AddContext, PlacesOK
  <2>2. AgentTypeOK(Requests)'
    BY <1>5, <2>1 DEF AddContext, AddWSContextToCore, PlacesOK, AgentTypeOK, Contexts
  <2> QED
    BY <1>5, <2>2 DEF AddContext, Moves, PlacesOK, Places
<1>6. ASSUME NEW n \in Contexts, CreatesContext(r, n) \/ InitsContext(r, n)
      PROVE  PlacesOK'
  <2>1. AgentTypeOK(Requests)'
    BY <1>6 DEF CreatesContext, InitsContext, CreateContext, InitContext, PlacesOK, AgentTypeOK
  <2> QED
    BY <1>6, <2>1 DEF CreatesContext, InitsContext, apache, PlacesOK
<1>7. CASE InitAgent(r)
  <2>1. AgentTypeOK(Requests)'
    BY <1>7 DEF InitAgent, InitStarts, InitFails, agent, PlacesOK, AgentTypeOK, Contexts
  <2> QED
    BY <1>7, <2>1 DEF InitAgent, Moves, PlacesOK, Places, Stages
<1>8. CASE Releases(r)
  BY <1>8 DEF Releases, Release, Moves, PlacesOK, Places, AgentTypeOK
<1>9. CASE Publish(r) \/ Start(r) \/ StartFails(r) \/ StartDies(r)
  BY <1>9 DEF Publish, Start, StartFails, StartDies, Moves, PlacesOK, Places, Stages, AgentTypeOK, agent
<1>10. CASE HookBegins(r) \/ HookStops(r) \/ HookStarts(r) \/ HookEnds(r)
  BY <1>10 DEF HookBegins, HookStops, HookStarts, HookEnds, PlacesOK, AgentTypeOK, agent, apache
<1>11. CASE EnterHandler(r) \/ EnterLog(r)
  BY <1>11 DEF EnterHandler, EnterLog, Moves, PlacesOK, Places, Stages, AgentTypeOK, agent
<1>12. CASE LogEnds(r) \/ EndsRequest(r) \/ EndUnwinds(r) \/ EndFinishes(r)
  BY <1>12 DEF LogEnds, EndsRequest, EndUnwinds, EndFinishes, Moves, PlacesOK, Places, AgentTypeOK, agent
<1> QED
  BY <1>1, <1>2, <1>3, <1>4, <1>5, <1>6, <1>7, <1>8, <1>9, <1>10, <1>11, <1>12
     DEF ApStep, Serve

LEMMA PlacesStutter == PlacesOK /\ UNCHANGED allVars => PlacesOK'
BY DEF PlacesOK, AgentTypeOK, allVars, agent, apache

LEMMA PlacesHold == ApSpec => []PlacesOK
<1>1. PlacesOK /\ [ApNext]_allVars => PlacesOK'
  BY PlacesSteps, PlacesStutter DEF ApNext, ApStep
<1> QED
  BY <1>1, InitPlaces, PTL DEF ApSpec

\* Every reachable state of the module and the agent is well typed.
THEOREM ApTypeCorrect == ApSpec => []ApTypeOK
<1>1. TypeOK /\ PlacesOK => ApTypeOK
  BY DEF PlacesOK, ApTypeOK
<1> QED
  BY <1>1, ApacheDrivesAgent, TypeCorrect, PlacesHold, PTL

-----------------------------------------------------------------------------
(* The engines.                                                            *)

Tenanted == Declared \subseteq tenants

\* Where a request stands says how far the agent is: the strengthening that
\* makes EngineBeforeUse inductive.
EngineAt(r) ==
  /\ at[r] = "adding" => exists /\ Declared \subseteq tenants \cup adding[r]
  /\ at[r] = "starting" => holder = {r} /\ ~initPid /\ exists /\ Tenanted
  /\ holder = {r} => at[r] = "starting" \/ (at[r] = "adding" /\ initPid)
  /\ at[r] = "publish" => initPid
  /\ at[r] = "start" => published
  /\ note[r] \/ at[r] = "ending" => published /\ core[site[r].name] = "ready"

EnginesOK ==
  /\ ContextsMade
  /\ initPid => exists /\ Tenanted
  /\ published => initPid
  /\ \A r \in Requests : EngineAt(r)

EngineInv == PlacesOK /\ Declared \subseteq declared /\ EnginesOK

LEMMA InitEngines == ApInit => Declared \subseteq declared /\ EnginesOK
BY DEF ApInit, AgentInit, Init, EnginesOK, ContextsMade, EngineAt, Tenanted

\* Steps that leave the agent's contexts alone.
LEMMA QuietSteps ==
  ASSUME EngineInv, NEW r \in Requests,
         \/ Accept(r) \/ Configure(r) \/ Begin(r) \/ StartFails(r) \/ StartDies(r)
         \/ HookBegins(r) \/ HookStops(r) \/ HookStarts(r) \/ HookEnds(r)
         \/ EnterHandler(r) \/ EnterLog(r)
         \/ LogEnds(r) \/ EndsRequest(r) \/ EndUnwinds(r) \/ EndFinishes(r)
  PROVE  EnginesOK'
<1>1. UNCHANGED <<agent, site, published>>
  BY DEF Accept, Configure, Begin, StartFails, StartDies, HookBegins, HookStops, HookStarts,
         HookEnds, EnterHandler, EnterLog, LogEnds, EndsRequest, EndUnwinds, EndFinishes, apache
<1>2. \A q \in Requests \ {r} :
        at'[q] = at[q] /\ note'[q] = note[q] /\ adding[q] \subseteq adding'[q]
  <2>1. CASE Configure(r)
    <3> DEFINE seen == [q \in Requests |->
                          IF at[q] = "adding" /\ site[r].name \notin declared
                          THEN adding[q] \cup {site[r].name} ELSE adding[q]]
    <3>1. \A q \in Requests : adding[q] \subseteq adding'[q]
      <4>1. \A q \in Requests : adding[q] \subseteq seen[q]
        OBVIOUS
      <4>2. adding' = adding \/ adding' = seen
        BY <2>1 DEF Configure
      <4> QED
        BY <4>1, <4>2
    <3>2. note' = note /\ at' = [at EXCEPT ![r] = "begin"]
      BY <2>1 DEF Configure, Moves
    <3> QED
      BY <3>1, <3>2 DEF EngineInv, PlacesOK
  <2>2. CASE \/ Accept(r) \/ Begin(r) \/ StartFails(r) \/ StartDies(r) \/ EnterHandler(r)
             \/ EnterLog(r) \/ LogEnds(r)
    BY <2>2 DEF Accept, Begin, StartFails, StartDies, EnterHandler, EnterLog, LogEnds, Moves,
                EngineInv, PlacesOK
  <2>3. CASE HookBegins(r) \/ HookStops(r) \/ HookStarts(r) \/ HookEnds(r)
    BY <2>3 DEF HookBegins, HookStops, HookStarts, HookEnds, apache
  <2>4. CASE EndsRequest(r) \/ EndUnwinds(r) \/ EndFinishes(r)
    BY <2>4 DEF EndsRequest, EndUnwinds, EndFinishes, Moves, EngineInv, PlacesOK
  <2> QED
    BY <2>1, <2>2, <2>3, <2>4
<1>3. \/ at'[r] = at[r] /\ note'[r] = note[r] /\ adding[r] \subseteq adding'[r]
      \/ /\ at[r] \notin {"adding", "starting"}
         /\ at'[r] \notin {"adding", "starting", "publish"}
         /\ at'[r] = "start" => published
         /\ note'[r] \/ at'[r] = "ending" => note[r]
  <2>1. CASE Accept(r) \/ Configure(r) \/ Begin(r)
    BY <2>1 DEF Accept, Configure, Begin, Moves, EngineInv, PlacesOK
  <2>2. CASE StartFails(r) \/ StartDies(r) \/ HookBegins(r) \/ HookStops(r) \/ HookStarts(r)
               \/ HookEnds(r)
    BY <2>2 DEF StartFails, StartDies, HookBegins, HookStops, HookStarts, HookEnds, apache,
         Moves, EngineInv, PlacesOK
  <2>3. CASE EnterHandler(r) \/ EnterLog(r) \/ LogEnds(r)
    BY <2>3 DEF EnterHandler, EnterLog, LogEnds, Moves, EngineInv, PlacesOK
  <2>4. CASE EndsRequest(r) \/ EndUnwinds(r) \/ EndFinishes(r)
    BY <2>4 DEF EndsRequest, EndUnwinds, EndFinishes, Moves, EngineInv, PlacesOK
  <2> QED
    BY <2>1, <2>2, <2>3, <2>4
<1>4. /\ ContextsMade' /\ (initPid => exists /\ Tenanted)' /\ (published => initPid)'
  BY <1>1 DEF EngineInv, EnginesOK, ContextsMade, Tenanted, agent
<1>5. ASSUME NEW q \in Requests PROVE EngineAt(q)'
  <2>1. CASE q # r
    BY <1>1, <1>2, <2>1 DEF EngineInv, EnginesOK, EngineAt, Tenanted, agent
  <2>2. CASE q = r
    BY <1>1, <1>3, <2>2 DEF EngineInv, EnginesOK, EngineAt, Tenanted, agent
  <2> QED
    BY <2>1, <2>2
<1> QED
  BY <1>4, <1>5 DEF EnginesOK

\* The steps of the initialisation.
LEMMA DependEngines ==
  ASSUME EngineInv, NEW r \in Requests, Depend(r)
  PROVE  EnginesOK'
<1>1. ContextsMade' /\ (initPid => exists /\ Tenanted)' /\ (published => initPid)'
  BY DEF Depend, InitDependency, EngineInv, EnginesOK, ContextsMade, Tenanted
<1>2. ASSUME NEW q \in Requests PROVE EngineAt(q)'
  BY DEF Depend, InitDependency, Moves, EngineInv, PlacesOK, EnginesOK, EngineAt, Tenanted, Unlocked
<1> QED
  BY <1>1, <1>2 DEF EnginesOK

LEMMA AddContextEngines ==
  ASSUME EngineInv, NEW r \in Requests, NEW n \in Contexts, AddContext(r, n)
  PROVE  EnginesOK'
<1>1. /\ UNCHANGED <<exists, initPid, core, site, note, published>> /\ at' = at
      /\ holder = {} /\ tenants \subseteq tenants'
      /\ at[r] = "adding"
      /\ \A q \in Requests : q # r => adding'[q] = adding[q]
      /\ adding'[r] = adding[r] \ {n}
  BY DEF AddContext, AddWSContextToCore, Unlocked, Moves, EngineInv, PlacesOK
<1>2. \/ /\ ~initPid /\ tenants' = tenants \cup {n} /\ UNCHANGED <<holder, todo>>
      \/ /\ initPid /\ core[n] = "absent" /\ holder' = {r} /\ todo' = {n} /\ tenants' = tenants
      \/ /\ initPid /\ UNCHANGED <<holder, todo, tenants>>
  BY DEF AddContext, AddWSContextToCore
<1>3. ContextsMade'
  BY <1>1, <1>2 DEF EngineInv, EnginesOK, ContextsMade
<1>4. (initPid => exists /\ Tenanted)' /\ (published => initPid)'
  BY <1>1 DEF EngineInv, EnginesOK, Tenanted
<1>5. ASSUME NEW q \in Requests PROVE EngineAt(q)'
  <2>1. at[q] # "starting"
    BY <1>1 DEF EngineInv, EnginesOK, EngineAt
  <2>2. at[q] = "adding" => exists /\ Declared \subseteq tenants' \cup adding'[q]
    BY <1>1, <1>2 DEF EngineInv, EnginesOK, EngineAt, Tenanted
  <2>3. holder' = {q} => at[q] = "adding" /\ initPid
    BY <1>1, <1>2
  <2> QED
    BY <1>1, <2>1, <2>2, <2>3 DEF EngineInv, EnginesOK, EngineAt
<1> QED
  BY <1>3, <1>4, <1>5 DEF EnginesOK

LEMMA InitAgentEngines ==
  ASSUME EngineInv, NEW r \in Requests, InitAgent(r)
  PROVE  EnginesOK'
<1>1. /\ UNCHANGED <<exists, initPid, tenants, core, site, note, published, adding>>
      /\ holder = {} /\ at[r] = "adding" /\ adding[r] = {}
      /\ \A q \in Requests : q # r => at'[q] = at[q]
      /\ \/ at'[r] = "starting" /\ ~initPid /\ holder' = {r} /\ todo' = tenants \cup {CoreInit}
         \/ at'[r] = "plain" /\ UNCHANGED <<holder, todo>>
  BY DEF InitAgent, InitStarts, InitFails, agent, Unlocked, Moves, EngineInv, PlacesOK
<1>2. exists /\ Tenanted
  BY <1>1 DEF EngineInv, EnginesOK, EngineAt, Tenanted
<1>3. ContextsMade'
  <2>1. tenants \subseteq Names
    BY DEF EngineInv, PlacesOK, AgentTypeOK
  <2> QED
    BY <1>1, <2>1 DEF EngineInv, EnginesOK, ContextsMade, Contexts
<1>4. (initPid => exists /\ Tenanted)' /\ (published => initPid)'
  BY <1>1 DEF EngineInv, EnginesOK, Tenanted
<1>5. ASSUME NEW q \in Requests PROVE EngineAt(q)'
  BY <1>1, <1>2 DEF EngineInv, EnginesOK, EngineAt, Tenanted
<1> QED
  BY <1>3, <1>4, <1>5 DEF EnginesOK

LEMMA MakeEngines ==
  ASSUME EngineInv, NEW r \in Requests, NEW n \in Contexts,
         CreatesContext(r, n) \/ InitsContext(r, n)
  PROVE  EnginesOK' /\ \A m \in Contexts : core[m] = "ready" => core'[m] = "ready"
<1>1. /\ UNCHANGED <<exists, initPid, holder, tenants, at, site, note, published, adding>>
      /\ holder = {r} /\ n \in todo
      /\ \A m \in Contexts : m # n => core'[m] = core[m]
      /\ \/ /\ core'[n] = "bare" /\ todo' = todo
            /\ \A m \in todo : core[m] # "bare"
         \/ core'[n] = "ready" /\ todo' = todo \ {n}
  BY DEF CreatesContext, InitsContext, CreateContext, InitContext, apache, EngineInv, PlacesOK,
         AgentTypeOK
<1>2. core[n] # "ready"
  BY <1>1 DEF EngineInv, EnginesOK, ContextsMade
<1>3. tenants \subseteq Contexts /\ CoreInit \in Contexts /\ todo \subseteq Contexts
  BY DEF EngineInv, PlacesOK, AgentTypeOK, Contexts
<1>4. ContextsMade'
  BY <1>1, <1>2, <1>3 DEF EngineInv, EnginesOK, ContextsMade
<1>5. (initPid => exists /\ Tenanted)' /\ (published => initPid)'
  BY <1>1 DEF EngineInv, EnginesOK, Tenanted
<1>6. ASSUME NEW q \in Requests PROVE EngineAt(q)'
  <2>1. site[q].name \in Contexts
    BY SiteType DEF EngineInv
  <2> QED
    BY <1>1, <1>2, <2>1 DEF EngineInv, EnginesOK, EngineAt, Tenanted
<1> QED
  BY <1>1, <1>2, <1>4, <1>5, <1>6 DEF EnginesOK

LEMMA ReleasesEngines ==
  ASSUME EngineInv, NEW r \in Requests, Releases(r)
  PROVE  EnginesOK'
<1>1. /\ UNCHANGED <<exists, tenants, core, todo, site, note, published, adding>>
      /\ holder = {r} /\ todo = {} /\ initPid' /\ holder' = {}
      /\ \A q \in Requests : q # r => at'[q] = at[q]
      /\ \/ at[r] = "starting" /\ at'[r] = "publish"
         \/ at[r] = "adding" /\ at'[r] = "adding"
  BY DEF Releases, Release, Moves, EngineInv, PlacesOK
<1>2. ContextsMade'
  BY <1>1 DEF EngineInv, EnginesOK, ContextsMade
<1>3. exists /\ Tenanted
  BY <1>1 DEF EngineInv, EnginesOK, EngineAt
<1>4. ASSUME NEW q \in Requests PROVE EngineAt(q)'
  <2>1. q # r => at[q] # "starting"
    BY <1>1 DEF EngineInv, EnginesOK, EngineAt
  <2> QED
    BY <1>1, <1>3, <2>1 DEF EngineInv, EnginesOK, EngineAt, Tenanted
<1> QED
  BY <1>1, <1>2, <1>3, <1>4 DEF EnginesOK, Tenanted

LEMMA StartEngines ==
  ASSUME EngineInv, NEW r \in Requests, Publish(r) \/ Start(r)
  PROVE  EnginesOK'
<1>1. /\ UNCHANGED <<agent, site, adding>>
      /\ \A q \in Requests : q # r => at'[q] = at[q] /\ note'[q] = note[q]
  BY DEF Publish, Start, Moves, EngineInv, PlacesOK
<1>2. \/ at[r] = "publish" /\ at'[r] = "start" /\ note'[r] = note[r] /\ published'
      \/ /\ at[r] = "start" /\ at'[r] = "plain" /\ published' = published
         /\ core[site[r].name] = "ready"
  BY DEF Publish, Start, Engine, Moves, EngineInv, PlacesOK
<1>3. published => published'
  BY <1>2
<1>4. initPid /\ (at[r] = "start" => published)
  BY <1>2 DEF EngineInv, EnginesOK, EngineAt
<1>5. ContextsMade' /\ (initPid => exists /\ Tenanted)' /\ (published => initPid)'
  BY <1>1, <1>4 DEF EngineInv, EnginesOK, ContextsMade, Tenanted, agent
<1>6. ASSUME NEW q \in Requests PROVE EngineAt(q)'
  <2>1. CASE q # r
    BY <1>1, <1>3, <2>1 DEF EngineInv, EnginesOK, EngineAt, Tenanted, agent
  <2>2. CASE q = r
    BY <1>1, <1>2, <1>3, <1>4, <2>2 DEF EngineInv, EnginesOK, EngineAt, Tenanted, agent
  <2> QED
    BY <2>1, <2>2
<1> QED
  BY <1>5, <1>6 DEF EnginesOK

\* The configuration is only added to, and only by .htaccess files.
LEMMA DeclaredGrows ==
  ASSUME EngineInv, NEW r \in Requests, ApStep(r)
  PROVE  Declared \subseteq declared'
<1>1. Configure(r) => declared \subseteq declared'
  BY DEF Configure
<1>2. \A n \in Contexts : AddContext(r, n) \/ CreatesContext(r, n) \/ InitsContext(r, n)
        => declared' = declared
  BY DEF AddContext, CreatesContext, InitsContext, apache
<1>3. (\/ Accept(r) \/ Begin(r) \/ Depend(r) \/ InitAgent(r) \/ Releases(r) \/ Publish(r)
       \/ Start(r) \/ StartFails(r) \/ StartDies(r))
        => declared' = declared
  BY DEF Accept, Begin, Depend, InitAgent, Releases, Publish, Start, StartFails, StartDies
<1>4. (\/ HookBegins(r) \/ HookStops(r) \/ HookStarts(r) \/ HookEnds(r)
       \/ EnterHandler(r) \/ EnterLog(r) \/ LogEnds(r) \/ EndsRequest(r) \/ EndUnwinds(r)
       \/ EndFinishes(r))
        => declared' = declared
  BY DEF HookBegins, HookStops, HookStarts, HookEnds, EnterHandler, EnterLog, LogEnds,
         EndsRequest, EndUnwinds, EndFinishes, apache
<1> QED
  BY <1>1, <1>2, <1>3, <1>4 DEF ApStep, Serve, EngineInv

\* Steps other than those of the holder of the mutex leave the map alone.
LEMMA CoreStep ==
  ASSUME NEW r \in Requests, ApStep(r)
  PROVE  \/ \E n \in Contexts : CreatesContext(r, n) \/ InitsContext(r, n)
         \/ core' = core
<1>1. \A n \in Contexts : AddContext(r, n) => core' = core
  BY DEF AddContext, AddWSContextToCore
<1>2. Depend(r) \/ InitAgent(r) \/ Releases(r) => core' = core
  BY DEF Depend, InitDependency, InitAgent, InitStarts, InitFails, agent, Releases, Release
<1>3. (\/ Accept(r) \/ Configure(r) \/ Begin(r) \/ Publish(r)
       \/ Start(r) \/ StartFails(r) \/ StartDies(r))
        => core' = core
  BY DEF Accept, Configure, Begin, Publish, Start, StartFails, StartDies, agent
<1>4. (\/ HookBegins(r) \/ HookStops(r) \/ HookStarts(r) \/ HookEnds(r)
       \/ EnterHandler(r) \/ EnterLog(r) \/ LogEnds(r) \/ EndsRequest(r) \/ EndUnwinds(r)
       \/ EndFinishes(r))
        => core' = core
  BY DEF HookBegins, HookStops, HookStarts, HookEnds, EnterHandler, EnterLog, LogEnds,
         EndsRequest, EndUnwinds, EndFinishes, agent
<1> QED
  BY <1>1, <1>2, <1>3, <1>4 DEF ApStep, Serve

LEMMA EngineStep == EngineInv /\ [ApNext]_allVars => EngineInv'
<1>1. ASSUME EngineInv, NEW r \in Requests, ApStep(r)
      PROVE  EngineInv'
  <2>1. PlacesOK'
    BY <1>1, PlacesSteps DEF EngineInv
  <2>2. (Declared \subseteq declared)'
    BY <1>1, DeclaredGrows
  <2>3. EnginesOK'
    BY <1>1, QuietSteps, DependEngines, AddContextEngines, InitAgentEngines, MakeEngines,
       ReleasesEngines, StartEngines DEF ApStep, Serve
  <2> QED
    BY <2>1, <2>2, <2>3 DEF EngineInv
<1>2. EngineInv /\ UNCHANGED allVars => EngineInv'
  <2>1. EngineInv /\ UNCHANGED allVars => PlacesOK'
    BY PlacesStutter DEF EngineInv
  <2> QED
    BY <2>1 DEF EngineInv, EnginesOK, ContextsMade, EngineAt, Tenanted, allVars, agent, apache
<1> QED
  BY <1>1, <1>2 DEF ApNext, ApStep

LEMMA EngineInvHolds == ApSpec => []EngineInv
<1>1. ApInit => EngineInv
  BY InitPlaces, InitEngines DEF EngineInv
<1> QED
  BY <1>1, EngineStep, PTL DEF ApSpec

\* No thread looks for an engine before it was made, although it looks without
\* a lock: initialise, publish and use follow each other on every path.
THEOREM EnginesAreReady == ApSpec => []EngineBeforeUse
<1>1. EngineInv => EngineBeforeUse
  <2> SUFFICES ASSUME EngineInv PROVE EngineBeforeUse
    OBVIOUS
  <2>1. published \/ (\E r \in Requests : at[r] \in {"publish", "start"}) => initPid
    BY DEF EngineInv, EnginesOK, EngineAt
  <2>2. initPid => exists /\ \A n \in Declared \cup {CoreInit} : core[n] = "ready"
    BY DEF EngineInv, EnginesOK, ContextsMade, Tenanted
  <2>3. \A r \in Requests : note[r] \/ at[r] = "ending" =>
          published /\ core[site[r].name] = "ready"
    BY DEF EngineInv, EnginesOK, EngineAt
  <2> QED
    BY <2>1, <2>2, <2>3 DEF EngineBeforeUse
<1> QED
  BY <1>1, EngineInvHolds, PTL

\* An engine in use is never replaced, not even by a thread that declares all
\* contexts again because it saw no configuration.
THEOREM EnginesAreKept == ApSpec => ContextsAreKept
<1>1. EngineInv /\ [ApNext]_allVars =>
        [\A n \in Contexts : core[n] = "ready" => core'[n] = "ready"]_allVars
  <2>1. ASSUME EngineInv, NEW r \in Requests, ApStep(r)
        PROVE  \A n \in Contexts : core[n] = "ready" => core'[n] = "ready"
    BY <2>1, CoreStep, MakeEngines
  <2> QED
    BY <2>1 DEF ApNext, ApStep
<1> QED
  BY <1>1, EngineInvHolds, PTL DEF ApSpec, ContextsAreKept

-----------------------------------------------------------------------------
(* Threads.                                                                *)

\* The phase of a request in the agent and its place in Apache agree, and a
\* thread is with one request at a time.
Placed(r) ==
  /\ phase[r] = "live" <=> note[r]
  /\ phase[r] = "ending" <=> at[r] = "ending"
  /\ note[r] => at[r] \in Stages \cup {"end"}

Alone ==
  \A q, r \in Requests : q # r /\ home[q] = home[r] /\ InService(q) => ~InService(r)

ThreadInv == (\A r \in Requests : Placed(r)) /\ Alone

LEMMA InitThreads == ApInit => ThreadInv
BY DEF ApInit, Init, ThreadInv, Placed, Alone, InService

\* A request's step is its own affair.
LEMMA OwnStep ==
  ASSUME TypeOK, PlacesOK, NEW r \in Requests, ApStep(r)
  PROVE  /\ home' = home
         /\ \A q \in Requests \ {r} :
              phase'[q] = phase[q] /\ note'[q] = note[q] /\ at'[q] = at[q]
<1>1. CASE \/ Accept(r) \/ Configure(r) \/ Begin(r) \/ Depend(r) \/ InitAgent(r) \/ Releases(r)
           \/ Publish(r) \/ StartFails(r) \/ StartDies(r) \/ HookBegins(r)
  BY <1>1 DEF Accept, Configure, Begin, Depend, InitAgent, Releases, Publish, StartFails,
              StartDies, HookBegins, Moves, vars, PlacesOK
<1>2. ASSUME NEW n \in Contexts, AddContext(r, n) \/ CreatesContext(r, n) \/ InitsContext(r, n)
      PROVE  UNCHANGED <<home, phase, note>> /\ \A q \in Requests \ {r} : at'[q] = at[q]
  BY <1>2 DEF AddContext, CreatesContext, InitsContext, Moves, vars, apache, PlacesOK
<1>3. CASE Start(r) \/ HookStarts(r)
  BY <1>3 DEF Start, HookStarts, StartRequest, StartInteraction, Moves, PlacesOK, TypeOK
<1>4. CASE HookStops(r) \/ HookEnds(r) \/ EnterHandler(r) \/ EnterLog(r)
  <2>1. phase' = phase /\ home' = home
    <3>1. AlwaysRuns(r) \in BOOLEAN
      BY DEF AlwaysRuns
    <3> QED
      BY <1>4, <3>1, StopIsStep DEF HookStops, HookEnds, EnterHandler, EnterLog
  <2> QED
    BY <1>4, <2>1 DEF HookStops, HookEnds, EnterHandler, EnterLog, Moves, apache, PlacesOK
<1>5. CASE LogEnds(r)
  <2>1. phase' = phase /\ home' = home
    BY <1>5, StopIsStep DEF LogEnds, vars
  <2> QED
    BY <1>5, <2>1 DEF LogEnds, Moves, PlacesOK
<1>6. CASE EndsRequest(r) \/ EndUnwinds(r) \/ EndFinishes(r)
  BY ZenonT(30), <1>6 DEF EndsRequest, EndUnwinds, EndFinishes, EndRequest, EndRequestUnwind,
              EndRequestFinish, Moves, vars, PlacesOK, TypeOK
<1> QED
  BY <1>1, <1>2, <1>3, <1>4, <1>5, <1>6 DEF ApStep, Serve

\* Every step keeps the phase and the place of its request in agreement.
LEMMA PlacedStep ==
  ASSUME TypeOK, EngineInv, NEW r \in Requests, Placed(r), ApStep(r)
  PROVE  Placed(r)'
<1> USE DEF Placed, EngineInv
<1>1. CASE \/ Accept(r) \/ Configure(r) \/ Begin(r) \/ Depend(r) \/ InitAgent(r) \/ Releases(r)
           \/ Publish(r) \/ StartFails(r) \/ StartDies(r)
  BY <1>1 DEF Accept, Configure, Begin, Depend, InitAgent, Releases, Publish, StartFails,
              StartDies, Moves, vars, PlacesOK, Stages
<1>2. ASSUME NEW n \in Contexts, AddContext(r, n) \/ CreatesContext(r, n) \/ InitsContext(r, n)
      PROVE  Placed(r)'
  BY <1>2 DEF AddContext, CreatesContext, InitsContext, Moves, vars, apache, PlacesOK
<1>3. CASE Start(r)
  BY <1>3 DEF Start, StartRequest, Moves, PlacesOK, TypeOK, Stages
<1>4. CASE HookBegins(r) \/ HookStops(r) \/ HookStarts(r) \/ HookEnds(r)
  <2>1. phase' = phase
    <3>1. AlwaysRuns(r) \in BOOLEAN
      BY DEF AlwaysRuns
    <3> QED
      BY <1>4, <3>1, StopIsStep
         DEF HookBegins, HookStops, HookStarts, HookEnds, StartInteraction, vars
  <2> QED
    BY <1>4, <2>1 DEF HookBegins, HookStops, HookStarts, HookEnds, apache
<1>5. CASE EnterHandler(r) \/ EnterLog(r)
  <2>1. phase' = phase
    BY <1>5, StopIsStep DEF EnterHandler, EnterLog
  <2> QED
    BY <1>5, <2>1 DEF EnterHandler, EnterLog, Moves, PlacesOK, Stages
<1>6. CASE LogEnds(r)
  <2>1. phase' = phase
    BY <1>6, StopIsStep DEF LogEnds, vars
  <2>2. note[r] => published
    BY DEF EnginesOK, EngineAt
  <2> QED
    BY <1>6, <2>1, <2>2 DEF LogEnds, Moves, PlacesOK, Stages
<1>7. CASE EndsRequest(r)
  BY <1>7 DEF EndsRequest, EndRequest, Moves, vars, PlacesOK, TypeOK, Stages
<1>8. CASE EndUnwinds(r) \/ EndFinishes(r)
  BY <1>8 DEF EndUnwinds, EndFinishes, EndRequestUnwind, EndRequestFinish, Moves, PlacesOK,
              TypeOK, Stages
<1> QED
  BY <1>1, <1>2, <1>3, <1>4, <1>5, <1>6, <1>7, <1>8 DEF ApStep, Serve

\* Only Accept takes up a request.
LEMMA ServiceStep ==
  ASSUME PlacesOK, NEW r \in Requests, Serve(r), InService(r)'
  PROVE  InService(r)
<1> USE DEF InService
<1>1. CASE \/ Configure(r) \/ Begin(r) \/ Depend(r) \/ InitAgent(r) \/ Releases(r)
           \/ Publish(r) \/ Start(r) \/ StartFails(r) \/ StartDies(r)
  BY <1>1 DEF Configure, Begin, Depend, InitAgent, Releases, Publish, Start, StartFails,
              StartDies, Moves
<1>2. ASSUME NEW n \in Contexts, AddContext(r, n) \/ CreatesContext(r, n) \/ InitsContext(r, n)
      PROVE  InService(r)
  BY <1>2 DEF AddContext, CreatesContext, InitsContext, Moves, apache
<1>3. CASE HookBegins(r) \/ HookStops(r) \/ HookStarts(r) \/ HookEnds(r)
  BY <1>3 DEF HookBegins, HookStops, HookStarts, HookEnds, apache
<1>4. CASE \/ EnterHandler(r) \/ EnterLog(r) \/ LogEnds(r) \/ EndsRequest(r) \/ EndUnwinds(r)
           \/ EndFinishes(r)
  BY <1>4 DEF EnterHandler, EnterLog, LogEnds, EndsRequest, EndUnwinds, EndFinishes, Moves
<1> QED
  BY <1>1, <1>2, <1>3, <1>4 DEF Serve

LEMMA ThreadStep ==
  TypeOK /\ EngineInv /\ ThreadInv /\ [ApNext]_allVars => ThreadInv'
<1>1. ASSUME TypeOK, EngineInv, ThreadInv, NEW r \in Requests, ApStep(r)
      PROVE  ThreadInv'
  <2>1. PlacesOK
    BY <1>1 DEF EngineInv
  <2>2. /\ home' = home
        /\ \A q \in Requests \ {r} :
             phase'[q] = phase[q] /\ note'[q] = note[q] /\ at'[q] = at[q]
    BY <1>1, <2>1, OwnStep
  <2>3. Placed(r)'
    BY <1>1, PlacedStep DEF ThreadInv
  <2>4. ASSUME NEW q \in Requests PROVE Placed(q)'
    BY <1>1, <2>2, <2>3 DEF ThreadInv, Placed
  <2>5. \A q \in Requests \ {r} :
          home[q] = home[r] /\ InService(r)' => ~InService(q)
    <3>1. CASE Accept(r)
      BY <3>1 DEF Accept
    <3>2. CASE Serve(r)
      BY <1>1, <2>1, <3>2, ServiceStep DEF ThreadInv, Alone
    <3> QED
      BY <1>1, <3>1, <3>2 DEF ApStep
  <2>6. Alone'
    BY <1>1, <2>2, <2>5 DEF ThreadInv, Alone, InService
  <2> QED
    BY <2>4, <2>6 DEF ThreadInv
<1>2. ThreadInv /\ UNCHANGED allVars => ThreadInv'
  BY DEF ThreadInv, Placed, Alone, InService, allVars, vars, apache
<1> QED
  BY <1>1, <1>2 DEF ApNext, ApStep

\* Whatever stages the modules skip, a request that was started is ended
\* before its thread takes up another, so the thread's context stack is never
\* shared: what RequestProcessing assumes with SharedThreads = FALSE.
THEOREM ThreadsServeOne == ApSpec => []ThreadToItself
<1>1. ThreadInv => ThreadToItself
  <2> SUFFICES ASSUME ThreadInv, NEW r \in Requests
               PROVE  /\ InService(r) => Unfinished(home[r]) \subseteq {r}
                      /\ at[r] \notin Stages \cup {"end", "ending"} => r \notin Unfinished(home[r])
    BY DEF ThreadToItself
  <2>1. \A q \in Requests : phase[q] \in {"live", "ending"} => at[q] \in Stages \cup {"end", "ending"}
    BY DEF ThreadInv, Placed
  <2>2. \A q \in Requests : phase[q] \in {"live", "ending"} => InService(q)
    BY <2>1 DEF InService, Stages
  <2> QED
    BY <2>1, <2>2 DEF ThreadInv, Alone, Unfinished
<1> QED
  BY <1>1, InitThreads, ThreadStep, EngineInvHolds, ApacheDrivesAgent, TypeCorrect, PTL DEF ApSpec

-----------------------------------------------------------------------------
(* Interactions and deaths, of a child without .htaccess files.            *)

LEMMA SitesStay ==
  ASSUME NEW r \in Requests, ApStep(r)
  PROVE  site' = site
BY DEF ApStep, Serve, Accept, Configure, Begin, Depend, AddContext, CreatesContext,
       InitsContext, InitAgent, Releases, Publish, Start, StartFails, StartDies, HookBegins,
       HookStops, HookStarts, HookEnds, EnterHandler, EnterLog, LogEnds, EndsRequest,
       EndUnwinds, EndFinishes, apache

\* Without .htaccess files the flag and the table of contexts stay what the
\* server's configuration says.
LEMMA SettingsStay ==
  ASSUME PlacesOK, NoOverrides, NEW r \in Requests, ApStep(r)
  PROVE  NoOverrides' /\ UNCHANGED <<site, declared, reportAll>>
<1>1. CASE Configure(r)
  BY <1>1 DEF Configure, NoOverrides
<1>2. ASSUME NEW n \in Contexts, AddContext(r, n) \/ CreatesContext(r, n) \/ InitsContext(r, n)
      PROVE  UNCHANGED <<site, declared, reportAll>>
  BY <1>2 DEF AddContext, CreatesContext, InitsContext, apache
<1>3. CASE \/ Accept(r) \/ Begin(r) \/ Depend(r) \/ InitAgent(r) \/ Releases(r) \/ Publish(r)
           \/ Start(r) \/ StartFails(r) \/ StartDies(r)
  BY <1>3 DEF Accept, Begin, Depend, InitAgent, Releases, Publish, Start, StartFails, StartDies,
              NoOverrides
<1>4. CASE HookBegins(r) \/ HookStops(r) \/ HookStarts(r) \/ HookEnds(r)
  BY <1>4 DEF HookBegins, HookStops, HookStarts, HookEnds, apache, NoOverrides
<1>5. CASE \/ EnterHandler(r) \/ EnterLog(r) \/ LogEnds(r) \/ EndsRequest(r) \/ EndUnwinds(r)
           \/ EndFinishes(r)
  BY <1>5 DEF EnterHandler, EnterLog, LogEnds, EndsRequest, EndUnwinds, EndFinishes, NoOverrides
<1> QED
  BY <1>1, <1>2, <1>3, <1>4, <1>5 DEF ApStep, Serve, NoOverrides

\* What keeps the interactions from nesting: only the handler stage starts one
\* without the flag, and the first logging hook always stops it; with the flag
\* every hook stops what it finds.
StoppedAt(r) ==
  /\ hook[r] # "none" => at[r] \in Stages /\ note[r] /\ (AlwaysRuns(r) \/ reportAll)
  /\ hook[r] = "start" => active[r] = <<>>
  /\ ~note[r] => active[r] = <<>>
  /\ at[r] = "log" /\ ~reportAll => active[r] = <<>>
  /\ at[r] \in {"end", "ending"} => active[r] = <<>>
  /\ active[r] = <<>> \/ Len(active[r]) = 1

StoppedInv == NoOverrides => \A r \in Requests : StoppedAt(r)

\* otel_stopInteraction leaves at most what it was not to look at.
LEMMA StopLeaves ==
  ASSUME TypeOK, NEW r \in Requests, NEW always \in BOOLEAN, Stop(r, always)
  PROVE  /\ \A q \in Requests \ {r} : active'[q] = active[q]
         /\ active[r] = <<>> => active'[r] = <<>>
         /\ Len(active[r]) = 1 => active'[r] \in {active[r], <<>>}
         /\ (always \/ reportAll) /\ note[r] /\ Len(active[r]) = 1 => active'[r] = <<>>
<1>1. active \in [Requests -> Seq(Nat)]
  BY DEF TypeOK
<1>2. CASE (always \/ reportAll) /\ note[r] /\ active[r] # <<>>
  <2>1. PICK err \in Outcomes : EndInteraction(r, err)
    BY <1>2 DEF Stop
  <2>2. active' = [active EXCEPT ![r] = SubSeq(active[r], 1, Len(active[r]) - 1)]
    BY <2>1 DEF EndInteraction, DropInteraction
  <2>3. /\ active'[r] = SubSeq(active[r], 1, Len(active[r]) - 1)
        /\ \A q \in Requests \ {r} : active'[q] = active[q]
    BY <1>1, <2>2
  <2>4. Len(active[r]) = 1 => active'[r] = <<>>
    BY <1>1, <2>3
  <2> QED
    BY <1>2, <2>3, <2>4
<1>3. CASE ~((always \/ reportAll) /\ note[r] /\ active[r] # <<>>)
  <2>1. active' = active
    BY <1>3 DEF Stop, vars
  <2>2. Len(active[r]) = 1 => active[r] # <<>>
    <3>1. active[r] = <<>> => Len(active[r]) = 0
      OBVIOUS
    <3> QED
      BY <3>1
  <2> QED
    BY <1>3, <2>1, <2>2
<1> QED
  BY <1>2, <1>3

\* A request's step leaves the hooks and interactions of the others alone.
LEMMA OwnHooks ==
  ASSUME TypeOK, PlacesOK, NEW r \in Requests, ApStep(r)
  PROVE  \A q \in Requests \ {r} : hook'[q] = hook[q] /\ active'[q] = active[q]
<1>1. AlwaysRuns(r) \in BOOLEAN
  BY DEF AlwaysRuns
<1>2. CASE \/ Accept(r) \/ Configure(r) \/ Begin(r) \/ Depend(r) \/ InitAgent(r) \/ Releases(r)
           \/ Publish(r) \/ StartFails(r) \/ StartDies(r) \/ HookBegins(r)
  BY <1>2 DEF Accept, Configure, Begin, Depend, InitAgent, Releases, Publish, StartFails,
              StartDies, HookBegins, vars, PlacesOK
<1>3. ASSUME NEW n \in Contexts, AddContext(r, n) \/ CreatesContext(r, n) \/ InitsContext(r, n)
      PROVE  UNCHANGED <<hook, active>>
  BY <1>3 DEF AddContext, CreatesContext, InitsContext, vars, apache
<1>4. CASE Start(r) \/ HookStarts(r)
  BY <1>4 DEF Start, HookStarts, StartRequest, StartInteraction, PlacesOK, TypeOK
<1>5. CASE HookStops(r) \/ HookEnds(r) \/ EnterHandler(r) \/ EnterLog(r)
  <2>1. \A q \in Requests \ {r} : active'[q] = active[q]
    BY <1>1, <1>5, StopLeaves DEF HookStops, HookEnds, EnterHandler, EnterLog
  <2> QED
    BY <1>5, <2>1 DEF HookStops, HookEnds, EnterHandler, EnterLog, apache, PlacesOK
<1>6. CASE LogEnds(r)
  <2>1. \A q \in Requests \ {r} : active'[q] = active[q]
    BY <1>6, StopLeaves DEF LogEnds, vars
  <2> QED
    BY <1>6, <2>1 DEF LogEnds
<1>7. CASE EndsRequest(r) \/ EndUnwinds(r) \/ EndFinishes(r)
  BY <1>7 DEF EndsRequest, EndUnwinds, EndFinishes, EndRequest, EndRequestUnwind,
              EndRequestFinish, DropInteraction, vars, TypeOK
<1> QED
  BY <1>2, <1>3, <1>4, <1>5, <1>6, <1>7 DEF ApStep, Serve

\* Before the header parsers no hook of a module runs.
LEMMA EarlyStopped ==
  ASSUME TypeOK, PlacesOK, NEW r \in Requests, StoppedAt(r), reportAll' = reportAll,
         \/ Accept(r) \/ Configure(r) \/ Begin(r) \/ Depend(r) \/ InitAgent(r) \/ Releases(r)
         \/ Publish(r) \/ Start(r) \/ StartFails(r) \/ StartDies(r)
         \/ \E n \in Contexts : AddContext(r, n) \/ CreatesContext(r, n) \/ InitsContext(r, n)
  PROVE  StoppedAt(r)'
<1>1. CASE \E n \in Contexts : CreatesContext(r, n) \/ InitsContext(r, n)
  BY <1>1 DEF CreatesContext, InitsContext, vars, apache, StoppedAt, AlwaysRuns
<1>2. CASE \E n \in Contexts : AddContext(r, n)
  BY <1>2 DEF AddContext, Moves, vars, PlacesOK, StoppedAt, AlwaysRuns
<1>3. CASE \/ Accept(r) \/ Configure(r) \/ Begin(r) \/ Depend(r) \/ InitAgent(r) \/ Releases(r)
           \/ Publish(r) \/ StartFails(r) \/ StartDies(r)
  <2>1. /\ UNCHANGED <<active, hook, note>>
        /\ at[r] \notin Stages /\ at'[r] \notin {"log", "end", "ending"}
    BY <1>3 DEF Accept, Configure, Begin, Depend, InitAgent, Releases, Publish, StartFails,
                StartDies, Moves, vars, PlacesOK, Stages
  <2> QED
    BY <2>1 DEF StoppedAt
<1>4. CASE Start(r)
  <2>1. /\ UNCHANGED <<active, hook>> /\ note'[r]
        /\ at[r] \notin Stages /\ at'[r] \notin {"log", "end", "ending"}
    BY <1>4 DEF Start, StartRequest, Moves, PlacesOK, Stages
  <2> QED
    BY <2>1 DEF StoppedAt
<1> QED
  BY <1>1, <1>2, <1>3, <1>4

LEMMA HookStopped ==
  ASSUME TypeOK, PlacesOK, NEW r \in Requests, StoppedAt(r),
         HookBegins(r) \/ HookStops(r) \/ HookStarts(r) \/ HookEnds(r)
  PROVE  StoppedAt(r)'
<1>1. UNCHANGED <<at, note, reportAll>> /\ AlwaysRuns(r) \in BOOLEAN
  BY DEF HookBegins, HookStops, HookStarts, HookEnds, apache, AlwaysRuns
<1>2. CASE HookBegins(r)
  <2>1. /\ active' = active /\ hook'[r] = "stop"
        /\ at[r] \in Stages /\ note[r] /\ (AlwaysRuns(r) \/ reportAll)
    BY <1>2 DEF HookBegins, vars, PlacesOK
  <2> QED
    BY <1>1, <2>1 DEF StoppedAt, AlwaysRuns
<1>3. CASE HookStops(r)
  <2>1. hook[r] = "stop" /\ hook'[r] = "start" /\ Stop(r, AlwaysRuns(r))
    BY <1>3 DEF HookStops, PlacesOK
  <2>2. active'[r] = <<>>
    BY <1>1, <2>1, StopLeaves DEF StoppedAt
  <2> QED
    BY <1>1, <2>1, <2>2 DEF StoppedAt, AlwaysRuns
<1>4. CASE HookStarts(r)
  <2>1. hook[r] = "start" /\ hook'[r] = "none" /\ note[r]
    BY <1>4 DEF HookStarts, PlacesOK, StoppedAt
  <2>2. active'[r] = Append(active[r], Len(spans[r]) + 1)
    BY <1>4 DEF HookStarts, StartInteraction, TypeOK
  <2>3. Len(active'[r]) = 1
    BY <2>1, <2>2 DEF StoppedAt
  <2>4. at[r] = "log" => reportAll
    BY <2>1 DEF StoppedAt, AlwaysRuns
  <2>5. at[r] \notin {"end", "ending"}
    BY <2>1 DEF StoppedAt, Stages
  <2> QED
    BY <1>1, <2>1, <2>3, <2>4, <2>5 DEF StoppedAt
<1>5. CASE HookEnds(r)
  <2>1. hook' = hook /\ hook[r] = "none" /\ Stop(r, AlwaysRuns(r))
    BY <1>5 DEF HookEnds, apache
  <2>2. active'[r] = <<>> \/ active'[r] = active[r]
    BY <1>1, <2>1, StopLeaves DEF StoppedAt
  <2> QED
    BY <1>1, <2>1, <2>2 DEF StoppedAt
<1> QED
  BY <1>2, <1>3, <1>4, <1>5

LEMMA LogStopped ==
  ASSUME TypeOK, EngineInv, NEW r \in Requests, StoppedAt(r),
         \/ EnterHandler(r) \/ EnterLog(r) \/ LogEnds(r)
         \/ EndsRequest(r) \/ EndUnwinds(r) \/ EndFinishes(r)
  PROVE  StoppedAt(r)'
<1> USE DEF EngineInv
<1>1. CASE EnterHandler(r)
  <2>1. /\ UNCHANGED <<hook, note, reportAll>> /\ hook[r] = "none" /\ at'[r] = "handler"
        /\ Stop(r, FALSE)
    BY <1>1 DEF EnterHandler, Moves, PlacesOK
  <2>2. active'[r] = <<>> \/ active'[r] = active[r]
    BY <2>1, StopLeaves DEF StoppedAt
  <2> QED
    BY <2>1, <2>2 DEF StoppedAt
<1>2. CASE EnterLog(r)
  <2>1. /\ UNCHANGED <<hook, note, reportAll>> /\ hook[r] = "none" /\ at'[r] = "log"
        /\ Stop(r, TRUE)
    BY <1>2 DEF EnterLog, Moves, PlacesOK
  <2>2. active'[r] = <<>>
    BY <2>1, StopLeaves DEF StoppedAt
  <2> QED
    BY <2>1, <2>2 DEF StoppedAt
<1>3. CASE LogEnds(r)
  <2>1. /\ UNCHANGED <<hook, note, reportAll>> /\ hook[r] = "none" /\ at[r] = "log"
        /\ at'[r] \in {"end", "closed"}
    BY <1>3 DEF LogEnds, Moves, PlacesOK
  <2>2. active'[r] = <<>>
    <3>1. CASE published
      BY <1>3, <2>1, <3>1, StopLeaves DEF LogEnds, StoppedAt
    <3>2. CASE ~published
      <4>1. ~note[r] /\ active' = active
        BY <1>3, <3>2 DEF LogEnds, vars, EnginesOK, EngineAt
      <4> QED
        BY <4>1 DEF StoppedAt
    <3> QED
      BY <3>1, <3>2
  <2> QED
    BY <2>1, <2>2 DEF StoppedAt
<1>4. CASE EndsRequest(r)
  <2>1. /\ UNCHANGED <<hook, active>> /\ at[r] = "end" /\ at'[r] \in {"ending", "closed"}
    BY <1>4 DEF EndsRequest, EndRequest, Moves, vars, PlacesOK
  <2> QED
    BY <2>1 DEF StoppedAt, Stages
<1>5. CASE EndUnwinds(r)
  BY <1>5 DEF EndUnwinds, EndRequestUnwind, Moves, StoppedAt
<1>6. CASE EndFinishes(r)
  <2>1. /\ UNCHANGED <<hook, active>> /\ at[r] = "ending" /\ at'[r] = "closed"
    BY <1>6 DEF EndFinishes, EndRequestFinish, Moves, PlacesOK
  <2> QED
    BY <2>1 DEF StoppedAt, Stages
<1> QED
  BY <1>1, <1>2, <1>3, <1>4, <1>5, <1>6

LEMMA StoppedStep == TypeOK /\ EngineInv /\ StoppedInv /\ [ApNext]_allVars => StoppedInv'
<1>1. ASSUME TypeOK, EngineInv, StoppedInv, NoOverrides, NEW r \in Requests, ApStep(r),
             NEW q \in Requests
      PROVE  StoppedAt(q)'
  <2>1. PlacesOK /\ StoppedAt(r) /\ StoppedAt(q)
    BY <1>1 DEF EngineInv, StoppedInv
  <2>2. reportAll' = reportAll
    BY <1>1, <2>1, SettingsStay
  <2>3. StoppedAt(r)'
    BY <1>1, <2>1, <2>2, EarlyStopped, HookStopped, LogStopped DEF ApStep, Serve
  <2>4. CASE q # r
    <3>1. /\ at'[q] = at[q] /\ note'[q] = note[q]
          /\ hook'[q] = hook[q] /\ active'[q] = active[q]
      BY <1>1, <2>1, <2>4, OwnStep, OwnHooks
    <3> QED
      BY <2>1, <2>2, <3>1 DEF StoppedAt, AlwaysRuns
  <2> QED
    BY <2>3, <2>4
<1>2. ASSUME EngineInv, NEW r \in Requests, ApStep(r), NoOverrides'
      PROVE  NoOverrides
  BY <1>2, SitesStay DEF NoOverrides
<1>3. StoppedInv /\ UNCHANGED allVars => StoppedInv'
  BY DEF StoppedInv, NoOverrides, StoppedAt, AlwaysRuns, allVars, vars, apache
<1> QED
  BY <1>1, <1>2, <1>3 DEF StoppedInv, ApNext, ApStep

LEMMA InitStopped == ApInit => StoppedInv
BY DEF ApInit, Init, StoppedInv, StoppedAt, Stages

LEMMA StoppedHolds == ApSpec => []StoppedInv
<1> QED
  BY InitStopped, StoppedStep, EngineInvHolds, ApacheDrivesAgent, TypeCorrect, PTL DEF ApSpec

\* Without .htaccess files interactions never nest, and endRequest finds none
\* open, whatever stages the modules skip and whichever end hooks are missed.
THEOREM InteractionsAreStopped == ApSpec => []InteractionsStopped
<1>1. ASSUME StoppedInv, NoOverrides, NEW r \in Requests
      PROVE  Len(active[r]) <= IF at[r] = "ending" THEN 0 ELSE 1
  <2>1. StoppedAt(r)
    BY <1>1 DEF StoppedInv
  <2>2. active[r] = <<>> => Len(active[r]) = 0
    OBVIOUS
  <2>3. CASE at[r] = "ending"
    BY <2>1, <2>2, <2>3 DEF StoppedAt
  <2>4. CASE at[r] # "ending"
    <3>1. PICK l \in {0, 1} : Len(active[r]) = l
      BY <2>1, <2>2 DEF StoppedAt
    <3> QED
      BY <2>4, <3>1
  <2> QED
    BY <2>3, <2>4
<1>2. StoppedInv => InteractionsStopped
  BY <1>1 DEF InteractionsStopped
<1> QED
  BY <1>2, StoppedHolds, PTL

\* The contexts of a child without .htaccess files are those of the server's
\* configuration, all of them tenants before the initialisation: afterwards
\* no thread makes any, and none is seen half made.
TableFixed ==
  /\ declared = Declared
  /\ \A q \in Requests : adding[q] \subseteq Declared
  /\ initPid => todo = {}

DeathInv == (NoOverrides => TableFixed) /\ DiesOfConfiguration

\* No step adds to the table, and none makes a context once the process is
\* initialised.
LEMMA TableStep ==
  ASSUME EngineInv, NoOverrides, TableFixed, NEW r \in Requests, ApStep(r)
  PROVE  TableFixed'
<1>1. declared' = Declared
  BY SettingsStay DEF EngineInv, TableFixed
<1>2. CASE \/ Accept(r) \/ Configure(r) \/ Begin(r) \/ Publish(r) \/ Start(r) \/ StartFails(r)
           \/ StartDies(r)
  <2>1. UNCHANGED <<agent, adding>>
    BY <1>2 DEF Accept, Configure, Begin, Publish, Start, StartFails, StartDies, NoOverrides
  <2> QED
    BY <1>1, <2>1 DEF TableFixed, agent
<1>3. CASE \/ HookBegins(r) \/ HookStops(r) \/ HookStarts(r) \/ HookEnds(r) \/ EnterHandler(r)
           \/ EnterLog(r) \/ LogEnds(r) \/ EndsRequest(r) \/ EndUnwinds(r) \/ EndFinishes(r)
  <2>1. UNCHANGED <<agent, adding>>
    BY <1>3 DEF HookBegins, HookStops, HookStarts, HookEnds, EnterHandler, EnterLog, LogEnds,
                EndsRequest, EndUnwinds, EndFinishes, apache
  <2> QED
    BY <1>1, <2>1 DEF TableFixed, agent
<1>4. CASE Depend(r)
  BY <1>1, <1>4 DEF Depend, InitDependency, TableFixed, EngineInv, PlacesOK
<1>5. ASSUME NEW n \in Contexts, AddContext(r, n)
      PROVE  TableFixed'
  <2>1. n \in Declared
    BY <1>5 DEF AddContext, TableFixed
  <2>2. initPid => core[n] = "ready"
    BY <2>1 DEF EngineInv, EnginesOK, ContextsMade, Tenanted
  <2>3. UNCHANGED initPid /\ (initPid => todo' = todo)
    BY <1>5, <2>2 DEF AddContext, AddWSContextToCore
  <2>4. \A q \in Requests : adding'[q] \subseteq Declared
    BY <1>5 DEF AddContext, TableFixed, EngineInv, PlacesOK
  <2> QED
    BY <1>1, <2>3, <2>4 DEF TableFixed
<1>6. ASSUME NEW n \in Contexts, CreatesContext(r, n) \/ InitsContext(r, n)
      PROVE  TableFixed'
  BY <1>1, <1>6 DEF CreatesContext, InitsContext, CreateContext, InitContext, apache, TableFixed
<1>7. CASE InitAgent(r)
  BY <1>1, <1>7 DEF InitAgent, InitStarts, InitFails, agent, TableFixed
<1>8. CASE Releases(r)
  BY <1>1, <1>8 DEF Releases, Release, TableFixed
<1> QED
  BY <1>2, <1>3, <1>4, <1>5, <1>6, <1>7, <1>8 DEF ApStep, Serve

\* Only two steps let the child die.
LEMMA DeathStep ==
  ASSUME NEW r \in Requests, ApStep(r), ~Configure(r), ~StartDies(r)
  PROVE  crashed' = crashed
<1>1. \A n \in Contexts : AddContext(r, n) \/ CreatesContext(r, n) \/ InitsContext(r, n)
        => crashed' = crashed
  BY DEF AddContext, CreatesContext, InitsContext, apache
<1>2. (\/ Accept(r) \/ Begin(r) \/ Depend(r) \/ InitAgent(r) \/ Releases(r) \/ Publish(r)
       \/ Start(r) \/ StartFails(r))
        => crashed' = crashed
  BY DEF Accept, Begin, Depend, InitAgent, Releases, Publish, Start, StartFails
<1>3. (\/ HookBegins(r) \/ HookStops(r) \/ HookStarts(r) \/ HookEnds(r)
       \/ EnterHandler(r) \/ EnterLog(r) \/ LogEnds(r) \/ EndsRequest(r) \/ EndUnwinds(r)
       \/ EndFinishes(r))
        => crashed' = crashed
  BY DEF HookBegins, HookStops, HookStarts, HookEnds, EnterHandler, EnterLog, LogEnds,
         EndsRequest, EndUnwinds, EndFinishes, apache
<1> QED
  BY <1>1, <1>2, <1>3 DEF ApStep, Serve

LEMMA DeathInvStep == EngineInv /\ DeathInv /\ [ApNext]_allVars => DeathInv'
<1>1. ASSUME EngineInv, DeathInv, NEW r \in Requests, ApStep(r)
      PROVE  DeathInv'
  <2>1. site' = site
    BY <1>1, SitesStay
  <2>2. NoOverrides' => TableFixed'
    BY <1>1, <2>1, TableStep DEF DeathInv, NoOverrides
  <2>3. CASE Configure(r)
    <3>1. crashed' => crashed \/ Overrides(site[r])
      BY <2>3 DEF Configure
    <3> QED
      BY <1>1, <2>1, <2>2, <3>1 DEF DeathInv, DiesOfConfiguration, Overrides
  <2>4. CASE StartDies(r)
    <3>1. at[r] = "start" /\ Engine(site[r]) \in {"none", "bare"}
      BY <2>4 DEF StartDies, Moves
    <3>2. exists /\ initPid
      BY <1>1, <3>1 DEF EngineInv, EnginesOK, EngineAt
    <3>3. site[r].name \in Contexts /\ core[site[r].name] \in {"absent", "bare", "ready"}
      BY <1>1, SiteType DEF EngineInv, PlacesOK, AgentTypeOK
    <3>4. site[r].config = "invalid" \/ core[site[r].name] = "bare"
      BY <3>1, <3>2, <3>3 DEF Engine
    <3>5. core[site[r].name] = "bare" => ~NoOverrides
      <4>1. core[site[r].name] = "bare" => todo # {}
        BY <1>1, <3>3 DEF EngineInv, EnginesOK, ContextsMade
      <4> QED
        BY <1>1, <3>2, <4>1 DEF DeathInv, TableFixed
    <3> QED
      BY <2>1, <2>2, <3>4, <3>5 DEF DeathInv, DiesOfConfiguration, NoOverrides, Overrides
  <2>5. CASE ~Configure(r) /\ ~StartDies(r)
    <3>1. crashed' = crashed
      BY <1>1, <2>5, DeathStep
    <3> QED
      BY <1>1, <2>1, <2>2, <3>1 DEF DeathInv, DiesOfConfiguration, Overrides
  <2> QED
    BY <2>3, <2>4, <2>5
<1>2. DeathInv /\ UNCHANGED allVars => DeathInv'
  BY DEF DeathInv, DiesOfConfiguration, NoOverrides, Overrides, TableFixed, allVars, agent, apache
<1> QED
  BY <1>1, <1>2 DEF ApNext, ApStep

\* The child dies only of a location without a valid configuration, or of
\* .htaccess files that declare contexts: a declared context is never looked
\* up before its engine is complete.
THEOREM DeathsAreConfigured == ApSpec => []DiesOfConfiguration
<1>1. ApInit => DeathInv
  BY DEF ApInit, AgentInit, DeathInv, TableFixed, DiesOfConfiguration
<1>2. DeathInv => DiesOfConfiguration
  BY DEF DeathInv
<1> QED
  BY <1>1, <1>2, DeathInvStep, EngineInvHolds, PTL DEF ApSpec
=============================================================================
