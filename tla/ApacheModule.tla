---------------------------- MODULE ApacheModule ----------------------------
(***************************************************************************)
(* The web server agent inside Apache: the hooks of ApacheHooks.cpp open a *)
(* request before the header parsers, put an interaction around the hooks  *)
(* of other modules and close the request after the last logging hook.     *)
(* The first request that needs the agent initialises it for its child     *)
(* process, while the other threads of the child go on serving.            *)
(*                                                                         *)
(* One child process of the prefork or worker MPM is modelled: a request   *)
(* is served on one thread from its acceptance to its log.  What the hooks *)
(* ask of the agent are the operations of AgentContexts and of             *)
(* RequestProcessing.  Internal redirects and subrequests are not initial  *)
(* requests, and every hook returns at once for them.                      *)
(***************************************************************************)
EXTENDS RequestProcessing, AgentContexts

CONSTANTS
  Sites,     \* what the configuration may say of a request's location
  Declared   \* names of contexts the server configuration declares

\* A site's config is "invalid" if otel_cfg::validate refuses it, else what
\* ApacheModuleEnabled says; override is what an .htaccess file on the way to
\* it says of reporting all modules, "none" if there is no such file.  A name
\* merged from several sections may not be declared in any of them.
ASSUME SitesAssumption ==
  /\ Sites \subseteq [config : {"invalid", "off", "on"}, name : Names,
                      override : {"none", "off", "on"}]
  /\ Declared \subseteq Names

VARIABLES
  site,       \* request -> its site
  at,         \* request -> where its thread is with it
  adding,     \* request -> the contexts it has still to pass to the agent
  hook,       \* request -> what otel_startInteraction does next, or "none"
  note,       \* request -> r->notes holds the agent's handle
  published,  \* the process pool holds the configuration
  declared,   \* m_webServerContexts
  reportAll,  \* m_reportAllStages
  crashed     \* the child process died

apache == <<site, at, adding, hook, note, published, declared, reportAll, crashed>>
allVars == <<vars, agent, apache>>

Stages == {"plain", "handler", "log"}
Places == Stages \cup
  {"waiting", "walk", "begin", "depend", "adding", "starting", "publish",
   "start", "end", "ending", "closed", "died"}

InService(r) == at[r] \notin {"waiting", "closed"}

Moves(r, from, to) ==
  /\ ~crashed
  /\ at[r] = from
  /\ at' = [at EXCEPT ![r] = to]

Overrides(s) == s.override # "none"

ApInit ==
  /\ Init
  /\ AgentInit
  /\ site \in [Requests -> Sites]
  /\ at = [r \in Requests |-> "waiting"]
  /\ adding = [r \in Requests |-> {}]
  /\ hook = [r \in Requests |-> "none"]
  /\ note = [r \in Requests |-> FALSE]
  /\ published = FALSE
  /\ declared = Declared
  /\ reportAll \in BOOLEAN
  /\ crashed = FALSE

-----------------------------------------------------------------------------
(* Apache.                                                                 *)

\* A thread takes up a request when it is through with the one before.
Accept(r) ==
  /\ \A q \in Requests \ {r} : home[q] = home[r] => ~InService(q)
  /\ Moves(r, "waiting", "walk")
  /\ UNCHANGED <<vars, agent, site, adding, hook, note, published, declared, reportAll, crashed>>

\* Another thread has an iterator into m_webServerContexts, or looks into it.
Reading(q) == at[q] = "adding" \/ (at[q] = "walk" /\ Overrides(site[q]))

\* The walk to the request's location runs the directives of its .htaccess
\* file.  The flag they set belongs to the whole process, and the context is
\* inserted without a lock: a thread that reads the table meanwhile may find
\* the new context, miss it or die.
Configure(r) ==
  LET s == site[r]
      racing == s.name \notin declared /\ \E q \in Requests \ {r} : Reading(q)
      seen == [q \in Requests |-> IF at[q] = "adding" /\ s.name \notin declared
                                  THEN adding[q] \cup {s.name} ELSE adding[q]]
  IN /\ Moves(r, "walk", "begin")
     /\ IF Overrides(s)
        THEN /\ declared' = declared \cup {s.name}
             /\ reportAll' = (s.override = "on")
             /\ adding' \in {adding, seen}
             /\ crashed' \in {FALSE, racing}
        ELSE UNCHANGED <<declared, reportAll, adding, crashed>>
     /\ UNCHANGED <<vars, agent, site, hook, note, published>>

-----------------------------------------------------------------------------
(* The initialisation, by the request that finds no configuration in the   *)
(* process pool (initialize_opentelemetry).                                *)

\* otel_hook_header_parser_begin, up to the use of what it found in the pool.
Begin(r) ==
  /\ Moves(r, "begin", IF published THEN "start"
                       ELSE IF site[r].config = "on" THEN "depend" ELSE "plain")
  /\ UNCHANGED <<vars, agent, site, adding, hook, note, published, declared, reportAll, crashed>>

Depend(r) ==
  /\ Moves(r, "depend", "adding")
  /\ InitDependency
  /\ adding' = [adding EXCEPT ![r] = declared]
  /\ UNCHANGED <<vars, site, hook, note, published, declared, reportAll, crashed>>

AddContext(r, n) ==
  /\ Moves(r, "adding", "adding")
  /\ n \in adding[r]
  /\ AddWSContextToCore(r, n)
  /\ adding' = [adding EXCEPT ![r] = @ \ {n}]
  /\ UNCHANGED <<vars, site, hook, note, published, declared, reportAll, crashed>>

\* Defect: the configuration is published before the core has started.
PublishEarly(r) ==
  /\ adding[r] = {}
  /\ \/ Moves(r, "adding", "starting") /\ InitStarts(r) /\ published' = TRUE
     \/ Moves(r, "adding", "plain") /\ InitFails /\ UNCHANGED published
  /\ UNCHANGED <<vars, site, adding, hook, note, declared, reportAll, crashed>>

\* A failed initialisation leaves the request untraced, the failure being
\* perhaps that another thread was first.
InitAgent(r) ==
  /\ adding[r] = {}
  /\ \/ Moves(r, "adding", "starting") /\ InitStarts(r)
     \/ Moves(r, "adding", "plain") /\ InitFails
  /\ UNCHANGED <<vars, site, adding, hook, note, published, declared, reportAll, crashed>>

CreatesContext(r, n) ==
  /\ ~crashed
  /\ CreateContext(r, n)
  /\ UNCHANGED <<vars, apache>>

InitsContext(r, n) ==
  /\ ~crashed
  /\ InitContext(r, n)
  /\ UNCHANGED <<vars, apache>>

Releases(r) ==
  /\ \/ Moves(r, "starting", "publish")
     \/ Moves(r, "adding", "adding")
  /\ Release(r)
  /\ UNCHANGED <<vars, site, adding, hook, note, published, declared, reportAll, crashed>>

Publish(r) ==
  /\ Moves(r, "publish", "start")
  /\ published' = TRUE
  /\ UNCHANGED <<vars, agent, site, adding, hook, note, declared, reportAll, crashed>>

-----------------------------------------------------------------------------
(* The request.                                                            *)

\* What startRequest finds for the site's context.  A location without a
\* valid configuration passes NULL, of which it makes a std::string.
Engine(s) ==
  IF s.config = "invalid" \/ ~exists THEN "none" ELSE core[s.name]

\* otel_hook_header_parser_begin, on a process that is initialised: the
\* location's own ApacheModuleEnabled is not looked at any more.
Start(r) ==
  /\ Engine(site[r]) = "ready"
  /\ Moves(r, "start", "plain")
  /\ \E hasParent \in BOOLEAN : StartRequest(r, hasParent)
  /\ note' = [note EXCEPT ![r] = TRUE]
  /\ UNCHANGED <<agent, site, adding, hook, published, declared, reportAll, crashed>>

\* The name is not that of a context: the request stays untraced.
StartFails(r) ==
  /\ Engine(site[r]) = "absent"
  /\ Moves(r, "start", "plain")
  /\ UNCHANGED <<vars, agent, site, adding, hook, note, published, declared, reportAll, crashed>>

\* A null string, core or kernel is used.
StartDies(r) ==
  /\ Engine(site[r]) \in {"none", "bare"}
  /\ Moves(r, "start", "died")
  /\ crashed' = TRUE
  /\ UNCHANGED <<vars, agent, site, adding, hook, note, published, declared, reportAll>>

\* otel_stopInteraction; endInteraction does nothing if no interaction is open.
Stop(r, always) ==
  IF (always \/ reportAll) /\ note[r] /\ active[r] # <<>>
  THEN \E err \in Outcomes : EndInteraction(r, err)
  ELSE UNCHANGED vars

AlwaysRuns(r) == at[r] = "handler"

\* A module's hook begins: otel_startInteraction, up to its check of the flag.
HookBegins(r) ==
  /\ ~crashed
  /\ at[r] \in Stages /\ hook[r] = "none"
  /\ note[r] /\ (AlwaysRuns(r) \/ reportAll)
  /\ Len(spans[r]) <= MaxInteractions
  /\ hook' = [hook EXCEPT ![r] = "stop"]
  /\ UNCHANGED <<vars, agent, site, at, adding, note, published, declared, reportAll, crashed>>

\* It ends an interaction whose end hook was never called,
HookStops(r) ==
  /\ ~crashed
  /\ hook[r] = "stop"
  /\ Stop(r, AlwaysRuns(r))
  /\ hook' = [hook EXCEPT ![r] = "start"]
  /\ UNCHANGED <<agent, site, at, adding, note, published, declared, reportAll, crashed>>

\* and starts the next one.
HookStarts(r) ==
  /\ ~crashed
  /\ hook[r] = "start"
  /\ StartInteraction(r)
  /\ hook' = [hook EXCEPT ![r] = "none"]
  /\ UNCHANGED <<agent, site, at, adding, note, published, declared, reportAll, crashed>>

\* The end hook after a module's, or the one before all modules of a stage.
\* In the handler stage it is not reached if a module handles the request.
HookEnds(r) ==
  /\ ~crashed
  /\ at[r] \in Stages /\ hook[r] = "none"
  /\ Stop(r, AlwaysRuns(r))
  /\ UNCHANGED <<agent, apache>>

EnterHandler(r) ==
  /\ hook[r] = "none"
  /\ Moves(r, "plain", "handler")
  /\ Stop(r, FALSE)
  /\ UNCHANGED <<agent, site, adding, hook, note, published, declared, reportAll, crashed>>

\* Defect: the first logging hook stops the interaction only if all modules
\* are reported.
EnterLogPlainly(r) ==
  /\ hook[r] = "none"
  /\ \E from \in {"begin", "plain", "handler"} : Moves(r, from, "log")
  /\ Stop(r, FALSE)
  /\ UNCHANGED <<agent, site, adding, hook, note, published, declared, reportAll, crashed>>

\* The first of the logging hooks.  A module may answer the request in any
\* stage, or before the header parsers.
EnterLog(r) ==
  /\ hook[r] = "none"
  /\ \E from \in {"begin", "plain", "handler"} : Moves(r, from, "log")
  /\ Stop(r, TRUE)
  /\ UNCHANGED <<agent, site, adding, hook, note, published, declared, reportAll, crashed>>

\* Defect: without the flag, the last logging hook has nothing to do.
LogEndsSilently(r) ==
  /\ hook[r] = "none"
  /\ Moves(r, "log", IF published /\ reportAll THEN "end" ELSE "closed")
  /\ IF published THEN Stop(r, FALSE) ELSE UNCHANGED vars
  /\ UNCHANGED <<agent, site, adding, hook, note, published, declared, reportAll, crashed>>

\* otel_hook_log_transaction_end, the last of the logging hooks; the
\* configuration in the pool is one with the agent enabled.
LogEnds(r) ==
  /\ hook[r] = "none"
  /\ Moves(r, "log", IF published THEN "end" ELSE "closed")
  /\ IF published THEN Stop(r, FALSE) ELSE UNCHANGED vars
  /\ UNCHANGED <<agent, site, adding, hook, note, published, declared, reportAll, crashed>>

EndsRequest(r) ==
  /\ Moves(r, "end", IF note[r] THEN "ending" ELSE "closed")
  /\ IF note[r] THEN EndRequest(r) ELSE UNCHANGED vars
  /\ note' = [note EXCEPT ![r] = FALSE]
  /\ UNCHANGED <<agent, site, adding, hook, published, declared, reportAll, crashed>>

EndUnwinds(r) ==
  /\ Moves(r, "ending", "ending")
  /\ EndRequestUnwind(r)
  /\ UNCHANGED <<agent, site, adding, hook, note, published, declared, reportAll, crashed>>

EndFinishes(r) ==
  /\ Moves(r, "ending", "closed")
  /\ \E err \in Outcomes : EndRequestFinish(r, err)
  /\ UNCHANGED <<agent, site, adding, hook, note, published, declared, reportAll, crashed>>

\* What a thread does with a request once it has taken it up.
Serve(r) ==
  \/ Configure(r) \/ Begin(r) \/ Depend(r)
  \/ \E n \in Contexts : AddContext(r, n) \/ CreatesContext(r, n) \/ InitsContext(r, n)
  \/ InitAgent(r) \/ Releases(r) \/ Publish(r)
  \/ Start(r) \/ StartFails(r) \/ StartDies(r)
  \/ HookBegins(r) \/ HookStops(r) \/ HookStarts(r) \/ HookEnds(r)
  \/ EnterHandler(r) \/ EnterLog(r)
  \/ LogEnds(r) \/ EndsRequest(r) \/ EndUnwinds(r) \/ EndFinishes(r)

ApNext == \E r \in Requests : Accept(r) \/ Serve(r)

ApSpec == ApInit /\ [][ApNext]_allVars

\* Threads run on with what they have taken up; the modules' own hooks return.
ApFairSpec == ApSpec /\ \A r \in Requests : WF_allVars(Serve(r))

-----------------------------------------------------------------------------
\* Every variable, the agent's included, holds a value of its type.
ApTypeOK ==
  /\ TypeOK
  /\ AgentTypeOK(Requests)
  /\ site \in [Requests -> Sites]
  /\ at \in [Requests -> Places]
  /\ adding \in [Requests -> SUBSET Names]
  /\ hook \in [Requests -> {"none", "stop", "start"}]
  /\ note \in [Requests -> BOOLEAN]
  /\ published \in BOOLEAN
  /\ declared \in SUBSET Names
  /\ reportAll \in BOOLEAN
  /\ crashed \in BOOLEAN

\* No request looks for an engine before the one that initialises the process
\* has made them all: what the configuration declares is ready, without a
\* lock, for every thread that finds the configuration in the process pool,
\* and a request that has a handle can be ended with the engine it came from.
EngineBeforeUse ==
  /\ published \/ (\E r \in Requests : at[r] \in {"publish", "start"}) =>
       exists /\ initPid /\ \A n \in Declared \cup {CoreInit} : core[n] = "ready"
  /\ \A r \in Requests : note[r] \/ at[r] = "ending" =>
       published /\ core[site[r].name] = "ready"

\* An engine is never replaced: not even by a thread that found no
\* configuration in the process pool before another one initialised the
\* process, and passes all its contexts to the agent again.
ContextsAreKept ==
  [][\A n \in Contexts : core[n] = "ready" => core'[n] = "ready"]_allVars

\* A request has its thread, and so the thread's context stack, for itself:
\* whatever the modules skipped, it was ended before the next is accepted.
ThreadToItself ==
  \A r \in Requests :
    /\ InService(r) => Unfinished(home[r]) \subseteq {r}
    /\ at[r] \notin Stages \cup {"end", "ending"} => r \notin Unfinished(home[r])

NoOverrides == \A r \in Requests : ~Overrides(site[r])

\* As long as no .htaccess file touches the flag of all threads, interactions
\* never nest, and endRequest finds none open: each one, with or without an
\* end hook, was stopped with the status the request had then.
InteractionsStopped ==
  NoOverrides =>
    \A r \in Requests : Len(active[r]) <= IF at[r] = "ending" THEN 0 ELSE 1

\* The child dies only of a location without a valid configuration, or of
\* .htaccess files that declare contexts.
DiesOfConfiguration ==
  crashed => \E r \in Requests : site[r].config = "invalid" \/ Overrides(site[r])

\* A thread serves a request it has taken up to its end: no thread waits for
\* initMutex for ever, and the agent's hooks always have an answer.
RequestsAreServed ==
  \A r \in Requests : (at[r] = "walk") ~> (at[r] = "closed" \/ crashed)

\* What the comment on getWebServerContext and the trace message of the hook
\* say: a location without a context of its own uses the default one.
DefaultContextServes ==
  [][\A r \in Requests :
       at[r] = "start" /\ at'[r] # "start" /\ site[r].config = "invalid" =>
         phase'[r] = "live"]_allVars
=============================================================================
