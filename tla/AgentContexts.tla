--------------------------- MODULE AgentContexts ---------------------------
(***************************************************************************)
(* The life cycle of the web server agent in one process: WSAgent, which   *)
(* is initialised once, and the map from context names to engines that     *)
(* AgentCore keeps.  A context is the virtual host or location, by service *)
(* namespace, name and instance, on whose behalf a request is traced.      *)
(*                                                                         *)
(* Contexts are added before the initialisation, when they are remembered  *)
(* as tenants, or after it.  Both hold initMutex; the threads that look up *)
(* the engine of a context do not.  A caller that has more to do under the *)
(* mutex than one step is its holder meanwhile.                            *)
(***************************************************************************)
CONSTANTS
  Names,      \* names of contexts that may be added
  CoreInit    \* COREINIT_CONTEXT, the context of the initial configuration

ASSUME CoreInitAssumption == CoreInit \notin Names

VARIABLES
  exists,    \* mAgentCore is not null
  initPid,   \* initPid is set
  holder,    \* the caller that holds initMutex, as a set
  todo,      \* the contexts the holder has still to create
  tenants,   \* mUserAddedTenant
  core       \* mWebServerContexts: "absent", "bare" (no kernel yet) or "ready"

agent == <<exists, initPid, holder, todo, tenants, core>>

Contexts == Names \cup {CoreInit}

AgentInit ==
  /\ exists = FALSE
  /\ initPid = FALSE
  /\ holder = {}
  /\ todo = {}
  /\ tenants = {}
  /\ core = [n \in Contexts |-> "absent"]

Unlocked == holder = {}

InitDependency ==
  /\ Unlocked
  /\ exists' = TRUE
  /\ UNCHANGED <<initPid, holder, todo, tenants, core>>

\* Defect: a context that exists already is made anew.
AddWSContextAgain(p, n) ==
  /\ Unlocked
  /\ IF initPid
     THEN holder' = {p} /\ todo' = {n} /\ UNCHANGED tenants
     ELSE tenants' = tenants \cup {n} /\ UNCHANGED <<holder, todo>>
  /\ UNCHANGED <<exists, initPid, core>>

\* addWSContextToCore: before the initialisation the context becomes a tenant;
\* after it, the core gets it unless it has it already.
AddWSContextToCore(p, n) ==
  /\ Unlocked
  /\ IF initPid
     THEN /\ IF core[n] = "absent"
             THEN holder' = {p} /\ todo' = {n}
             ELSE UNCHANGED <<holder, todo>>
          /\ UNCHANGED tenants
     ELSE tenants' = tenants \cup {n} /\ UNCHANGED <<holder, todo>>
  /\ UNCHANGED <<exists, initPid, core>>

\* Defect: the tenants are left to addWSContextToCore.
InitStartsAlone(p) ==
  /\ Unlocked
  /\ ~initPid
  /\ holder' = {p}
  /\ todo' = {CoreInit}
  /\ UNCHANGED <<exists, initPid, tenants, core>>

\* init, which goes on to start the core with the tenants it knows.
InitStarts(p) ==
  /\ Unlocked
  /\ ~initPid
  /\ holder' = {p}
  /\ todo' = tenants \cup {CoreInit}
  /\ UNCHANGED <<exists, initPid, tenants, core>>

\* init, which finds the process initialised already or cannot read its
\* configuration.
InitFails ==
  /\ Unlocked
  /\ UNCHANGED agent

\* createContext: the new context replaces what the map held.  It takes its
\* settings from the initial one, which therefore comes first.
CreateContext(p, n) ==
  /\ holder = {p}
  /\ n \in todo
  /\ CoreInit \in todo => n = CoreInit
  /\ \A m \in todo : core[m] # "bare"
  /\ core' = [core EXCEPT ![n] = "bare"]
  /\ UNCHANGED <<exists, initPid, holder, todo, tenants>>

\* initContext: the context gets its kernel, and the kernel its engine.
InitContext(p, n) ==
  /\ holder = {p}
  /\ n \in todo
  /\ core[n] = "bare"
  /\ core' = [core EXCEPT ![n] = "ready"]
  /\ todo' = todo \ {n}
  /\ UNCHANGED <<exists, initPid, holder, tenants>>

\* Defect: the mutex is left locked.
ReleaseNever(p) ==
  /\ holder = {p}
  /\ todo = {}
  /\ initPid' = TRUE
  /\ UNCHANGED <<exists, holder, todo, tenants, core>>

\* The end of init, which sets initPid, or of addWSContextToCore, which finds
\* it set.
Release(p) ==
  /\ holder = {p}
  /\ todo = {}
  /\ initPid' = TRUE
  /\ holder' = {}
  /\ UNCHANGED <<exists, todo, tenants, core>>

-----------------------------------------------------------------------------
\* Every variable holds a value of its type, the callers being those given.
AgentTypeOK(callers) ==
  /\ exists \in BOOLEAN
  /\ initPid \in BOOLEAN
  /\ holder \in SUBSET callers
  /\ todo \in SUBSET Contexts
  /\ tenants \in SUBSET Names
  /\ core \in [Contexts -> {"absent", "bare", "ready"}]

\* The holder of the mutex makes its contexts one at a time, none of which has
\* an engine yet; once the process is initialised, the initial context and
\* every tenant have theirs.
ContextsMade ==
  /\ holder = {} => todo = {}
  /\ \A n \in Contexts : core[n] = "bare" => n \in todo
  /\ \A n \in todo : core[n] # "ready"
  /\ initPid => \A n \in tenants \cup {CoreInit} : core[n] = "ready"
  /\ ~initPid /\ holder = {} => \A n \in Contexts : core[n] = "absent"
  /\ ~initPid /\ holder # {} =>
       \A n \in (tenants \cup {CoreInit}) \ todo : core[n] = "ready"
=============================================================================
