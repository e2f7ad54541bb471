---------------------------- MODULE NginxModule ----------------------------
(***************************************************************************)
(* The web server agent inside nginx: the handlers of                      *)
(* ngx_http_opentelemetry_module.c wrap the phase handlers of other        *)
(* modules, open a request in the rewrite phase, an interaction around     *)
(* each wrapped handler, and close the request in the log phase.  What the *)
(* handlers ask of the agent are the operations of RequestProcessing.      *)
(*                                                                         *)
(* A worker runs one handler at a time and leaves a request only where     *)
(* nginx waits for a client or an upstream.  An internal redirect runs the *)
(* phases again inside the handler that asks for it and clears the         *)
(* contexts modules keep on the request, the agent's handle among them.    *)
(*                                                                         *)
(* A handler stands for its kind: "access" for the wrapped modules before  *)
(* the content phase that do not redirect (limit_conn, limit_req, realip,  *)
(* auth_request, auth_basic, access, mirror), "static" for static,         *)
(* gzip_static, dav and autoindex, "index" for index and random_index.     *)
(***************************************************************************)
EXTENDS RequestProcessing

CONSTANT MaxRedirects   \* bound: redirects and rewrites of one request

ASSUME RedirectsAssumption == MaxRedirects \in Nat

VARIABLES
  at,         \* request -> where nginx is with it
  calls,      \* request -> the module's handlers on the worker's call stack
  internal,   \* request -> r->internal
  handle,     \* request -> its module context holds the agent's handle
  enabled,    \* request -> nginxModuleEnabled of its location
  redirects,  \* request -> redirects and rewrites so far
  lost,       \* request -> a redirect cleared the handle and no handler on the
              \* call stack has a copy to restore
  ready,      \* worker -> worker_conf->isInitialized
  crashed     \* worker -> it dereferenced a null pointer

ngx == <<at, calls, internal, handle, enabled, redirects, lost, ready, crashed>>
allVars == <<vars, ngx>>

-----------------------------------------------------------------------------
(* nginx.                                                                  *)

Phases == {"access", "precontent", "content"}
Waits == {"access_wait", "content_wait"}
Places == Phases \cup Waits \cup
  {"new", "rewrite", "monitored", "responded", "ending", "freed", "closed"}

PhaseOf == [access |-> "access", try_files |-> "precontent",
            static |-> "content", index |-> "content"]
Modules == {"rewrite"} \cup DOMAIN PhaseOf

NextPhase == [access |-> "precontent", precontent |-> "content"]

Frame(r) == calls[r][Len(calls[r])]

\* The worker is inside the handler on top, not in a redirect it asked for.
InHandler(r) == calls[r] # <<>> /\ ~Frame(r).redirected

\* The worker has left the request, or not met it yet.
Parked(r) == calls[r] = <<>> /\ at[r] \in Waits \cup {"new", "closed"}

\* The worker is in nginx's own code for this request.
InCore(r) == ~Parked(r) /\ ~InHandler(r) /\ ~crashed[home[r]]

Idle(t) == ~crashed[t] /\ \A r \in Requests : home[r] = t => Parked(r)

NgxInit ==
  /\ Init
  /\ at = [r \in Requests |-> "new"]
  /\ calls = [r \in Requests |-> <<>>]
  /\ internal = [r \in Requests |-> FALSE]
  /\ handle = [r \in Requests |-> FALSE]
  /\ enabled \in [Requests -> BOOLEAN]
  /\ redirects = [r \in Requests |-> 0]
  /\ lost = [r \in Requests |-> FALSE]
  /\ ready = [t \in Threads |-> FALSE]
  /\ crashed = [t \in Threads |-> FALSE]

Accept(r) ==
  /\ at[r] = "new"
  /\ Idle(home[r])
  /\ at' = [at EXCEPT ![r] = "rewrite"]
  /\ UNCHANGED <<vars, calls, internal, handle, enabled, redirects, lost, ready, crashed>>

\* The handlers of the phase declined, or it has none that is wrapped.
Advance(r) ==
  /\ InCore(r)
  /\ at[r] \in DOMAIN NextPhase
  /\ at' = [at EXCEPT ![r] = NextPhase[at[r]]]
  /\ UNCHANGED <<vars, calls, internal, handle, enabled, redirects, lost, ready, crashed>>

\* nginx waits: a delay, a subrequest, an upstream, a slow client.
Wait(r) ==
  /\ InCore(r)
  /\ at[r] \in {"access", "content"}
  /\ at' = [at EXCEPT ![r] = IF @ = "access" THEN "access_wait" ELSE "content_wait"]
  /\ UNCHANGED <<vars, calls, internal, handle, enabled, redirects, lost, ready, crashed>>

Resume(r) ==
  /\ at[r] \in Waits
  /\ Idle(home[r])
  /\ at' = [at EXCEPT ![r] = IF @ = "access_wait" THEN "access" ELSE "content"]
  /\ UNCHANGED <<vars, calls, internal, handle, enabled, redirects, lost, ready, crashed>>

Respond(r) ==
  /\ InCore(r)
  /\ at[r] \in Phases
  /\ at' = [at EXCEPT ![r] = "responded"]
  /\ UNCHANGED <<vars, calls, internal, handle, enabled, redirects, lost, ready, crashed>>

\* ngx_http_internal_redirect and ngx_http_named_location.
Redirected(r) ==
  /\ redirects[r] < MaxRedirects
  /\ redirects' = [redirects EXCEPT ![r] = @ + 1]
  /\ at' = [at EXCEPT ![r] = "rewrite"]
  /\ internal' = [internal EXCEPT ![r] = TRUE]
  /\ handle' = [handle EXCEPT ![r] = FALSE]
  /\ enabled' \in {[enabled EXCEPT ![r] = b] : b \in BOOLEAN}

\* error_page or X-Accel-Redirect.
ErrorPage(r) ==
  /\ InCore(r)
  /\ at[r] \in Phases
  /\ Redirected(r)
  /\ lost' = [lost EXCEPT ![r] = @ \/ handle[r]]
  /\ UNCHANGED <<vars, calls, ready, crashed>>

\* The rewrite module changes the URI, and with it the location: it marks the
\* request internal, and the contexts stay.
Rewritten(r) ==
  /\ InHandler(r)
  /\ Frame(r).module = "rewrite"
  /\ redirects[r] < MaxRedirects
  /\ redirects' = [redirects EXCEPT ![r] = @ + 1]
  /\ internal' = [internal EXCEPT ![r] = TRUE]
  /\ enabled' \in {[enabled EXCEPT ![r] = b] : b \in BOOLEAN}
  /\ UNCHANGED <<vars, at, calls, handle, lost, ready, crashed>>

\* The index and try_files modules redirect from within their handler.
HandlerRedirects(r) ==
  /\ InHandler(r)
  /\ Frame(r).module \in {"index", "try_files"}
  /\ Redirected(r)
  /\ calls' = [calls EXCEPT ![r][Len(calls[r])].redirected = TRUE]
  /\ lost' = [lost EXCEPT ![r] = @ \/ (handle[r] /\ (Frame(r).module = "try_files" \/ Frame(r).internal))]
  /\ UNCHANGED <<vars, ready, crashed>>

\* The try_files module finalizes the request it redirected before it
\* returns.  If no other handler is on the stack and the response is out,
\* this frees the request: the log phase runs, and finds no context.
FreeInTryFiles(r) ==
  /\ at[r] = "responded"
  /\ Len(calls[r]) = 1
  /\ Frame(r).module = "try_files"
  /\ ~crashed[home[r]]
  /\ at' = [at EXCEPT ![r] = "freed"]
  /\ UNCHANGED <<vars, calls, internal, handle, enabled, redirects, lost, ready, crashed>>

-----------------------------------------------------------------------------
(* The module.                                                             *)

\* otel_startInteraction and otel_stopInteraction look at the request's own
\* context, and at nothing if the request is internal.
Traced(r) == ~internal[r] /\ handle[r]

\* Defect: the handle is kept although the agent refused the request.
MonitorUnchecked(r) ==
  LET t == home[r]
  IN /\ InCore(r)
     /\ at[r] = "rewrite" /\ ~internal[r]
     /\ \/ (ready[t] \/ enabled[r]) /\ \E hasParent \in BOOLEAN : StartRequest(r, hasParent)
        \/ UNCHANGED vars
     /\ handle' = [handle EXCEPT ![r] = ready[t] \/ enabled[r]]
     /\ ready' = [ready EXCEPT ![t] = @ \/ enabled[r]]
     /\ at' = [at EXCEPT ![r] = "monitored"]
     /\ UNCHANGED <<calls, internal, enabled, redirects, lost, crashed>>

\* The rewrite handler's startMonitoringRequest, the request not being
\* internal.  The agent is initialised by the first request of the worker that
\* needs it; a path to ignore or a failure of the agent leaves the request
\* unmonitored.
Monitor(r) ==
  LET t == home[r]
  IN /\ InCore(r)
     /\ at[r] = "rewrite" /\ ~internal[r]
     /\ \/ /\ ready[t] \/ enabled[r]
           /\ \E hasParent \in BOOLEAN : StartRequest(r, hasParent)
           /\ handle' = [handle EXCEPT ![r] = TRUE]
           /\ ready' = [ready EXCEPT ![t] = TRUE]
        \/ /\ ready' \in {ready, [ready EXCEPT ![t] = @ \/ enabled[r]]}
           /\ UNCHANGED <<vars, handle>>
     /\ at' = [at EXCEPT ![r] = "monitored"]
     /\ UNCHANGED <<calls, internal, enabled, redirects, lost, crashed>>

AtEntry(r, m) ==
  IF m = "rewrite"
  THEN at[r] = "monitored" \/ (at[r] = "rewrite" /\ internal[r])
  ELSE at[r] = PhaseOf[m]

\* A wrapped handler is entered, up to its call of the handler it wraps.
Enter(r, m) ==
  /\ InCore(r)
  /\ AtEntry(r, m)
  /\ IF Traced(r) THEN StartInteraction(r) ELSE UNCHANGED vars
  /\ calls' = [calls EXCEPT ![r] = Append(@,
       [module |-> m, internal |-> internal[r], handle |-> handle[r],
        span |-> IF Traced(r) THEN Len(spans[r]) + 1 ELSE 0, redirected |-> FALSE])]
  /\ UNCHANGED <<at, internal, handle, enabled, redirects, lost, ready, crashed>>

\* otel_stopInteraction on a request with a handle.
StopInteraction(r) ==
  IF active[r] = <<>> THEN UNCHANGED vars ELSE \E err \in Outcomes : EndInteraction(r, err)

\* Whether otel_stopInteraction, called by a handler of the plain kind, goes on.
Stops(r) == Traced(r)

Return(r) ==
  /\ calls' = [calls EXCEPT ![r] = SubSeq(@, 1, Len(@) - 1)]
  /\ UNCHANGED <<internal, enabled, redirects, ready>>

\* Defect: one of the handlers forgets to stop its interaction.
LeaveSilently(r) ==
  LET f == Frame(r)
  IN /\ calls[r] # <<>>
     /\ ~crashed[home[r]]
     /\ f.redirected => f.internal /\ at[r] \in Waits \cup {"responded"}
     /\ f.redirected /\ f.module = "try_files" /\ at[r] = "responded" => Len(calls[r]) > 1
     /\ IF Stops(r) /\ f.module # "access" THEN StopInteraction(r) ELSE UNCHANGED vars
     /\ Return(r)
     /\ at' = IF f.module = "rewrite" THEN [at EXCEPT ![r] = "access"] ELSE at
     /\ UNCHANGED <<handle, lost, crashed>>

\* A handler that has not redirected the request, or whose redirect made no
\* difference to it, returns.
Leave(r) ==
  LET f == Frame(r)
  IN /\ calls[r] # <<>>
     /\ ~crashed[home[r]]
     /\ f.redirected => f.internal /\ at[r] \in Waits \cup {"responded"}
     /\ f.redirected /\ f.module = "try_files" /\ at[r] = "responded" => Len(calls[r]) > 1
     /\ IF Stops(r) THEN StopInteraction(r) ELSE UNCHANGED vars
     /\ Return(r)
     /\ at' = IF f.module = "rewrite" THEN [at EXCEPT ![r] = "access"] ELSE at
     /\ UNCHANGED <<handle, lost, crashed>>

\* Defect: the context is not put back.
LeaveIndexForgetful(r) ==
  LET f == Frame(r)
  IN /\ calls[r] # <<>>
     /\ f.module = "index" /\ f.redirected /\ ~f.internal
     /\ at[r] \in Waits \cup {"responded"}
     /\ ~crashed[home[r]]
     /\ IF f.handle THEN StopInteraction(r) ELSE UNCHANGED vars
     /\ Return(r)
     /\ UNCHANGED <<at, handle, lost, crashed>>

\* Defect: the handler does not compare with r->internal as it was.
LeaveIndexAlways(r) ==
  LET f == Frame(r)
  IN /\ calls[r] # <<>>
     /\ f.module = "index" /\ (f.redirected \/ internal[r])
     /\ f.redirected => at[r] \in Waits \cup {"responded"}
     /\ ~crashed[home[r]]
     /\ handle' = [handle EXCEPT ![r] = f.handle]
     /\ IF f.handle THEN StopInteraction(r) ELSE UNCHANGED vars
     /\ Return(r)
     /\ UNCHANGED <<at, lost, crashed>>

\* The index handlers, when the request became internal under them: the saved
\* context is put back and the interaction stopped as if it had not.
LeaveIndex(r) ==
  LET f == Frame(r)
  IN /\ calls[r] # <<>>
     /\ f.module = "index" /\ f.redirected /\ ~f.internal
     /\ at[r] \in Waits \cup {"responded"}
     /\ ~crashed[home[r]]
     /\ handle' = [handle EXCEPT ![r] = f.handle]
     /\ IF f.handle THEN StopInteraction(r) ELSE UNCHANGED vars
     /\ Return(r)
     /\ UNCHANGED <<at, lost, crashed>>

\* The try_files handler, when the request became internal under it and was
\* not freed: the saved handle is used only if there is no request pool.
LeaveTryFiles(r) ==
  LET f == Frame(r)
  IN /\ calls[r] # <<>>
     /\ f.module = "try_files" /\ f.redirected /\ ~f.internal
     /\ at[r] \in Waits
     /\ ~crashed[home[r]]
     /\ IF handle[r] THEN StopInteraction(r) ELSE UNCHANGED vars
     /\ Return(r)
     /\ UNCHANGED <<at, handle, lost, crashed>>

\* The try_files handler on a freed request.  Reading its fields is reading
\* freed memory, taken here to hold what it held.  stopMonitoringRequest has
\* no response payload without a pool, and writes the status code to it.
LeaveTryFilesFreed(r) ==
  LET f == Frame(r)
      dies == f.handle /\ enabled[r]
  IN /\ calls[r] # <<>>
     /\ at[r] = "freed"
     /\ ~crashed[home[r]]
     /\ IF f.handle /\ ~f.internal THEN StopInteraction(r) ELSE UNCHANGED vars
     /\ crashed' = [crashed EXCEPT ![home[r]] = dies]
     /\ at' = [at EXCEPT ![r] = "closed"]
     /\ Return(r)
     /\ UNCHANGED <<handle, lost>>

\* The log phase: stopMonitoringRequest ends the request of the handle, if the
\* location the request ended up in has the agent enabled.
LogHandler(r) ==
  /\ InCore(r)
  /\ at[r] = "responded"
  /\ calls[r] = <<>>
  /\ IF enabled[r] /\ handle[r]
     THEN EndRequest(r) /\ at' = [at EXCEPT ![r] = "ending"]
     ELSE UNCHANGED vars /\ at' = [at EXCEPT ![r] = "closed"]
  /\ UNCHANGED <<calls, internal, handle, enabled, redirects, lost, ready, crashed>>

LogUnwinds(r) ==
  /\ at[r] = "ending"
  /\ EndRequestUnwind(r)
  /\ UNCHANGED ngx

LogFinishes(r) ==
  /\ at[r] = "ending"
  /\ \E err \in Outcomes : EndRequestFinish(r, err)
  /\ at' = [at EXCEPT ![r] = "closed"]
  /\ handle' = [handle EXCEPT ![r] = FALSE]
  /\ UNCHANGED <<calls, internal, enabled, redirects, lost, ready, crashed>>

NgxNext ==
  \E r \in Requests :
    \/ Accept(r) \/ Advance(r) \/ Wait(r) \/ Resume(r) \/ Respond(r)
    \/ ErrorPage(r) \/ Rewritten(r) \/ HandlerRedirects(r) \/ FreeInTryFiles(r)
    \/ Monitor(r)
    \/ \E m \in Modules : Enter(r, m)
    \/ Leave(r) \/ LeaveIndex(r) \/ LeaveTryFiles(r) \/ LeaveTryFilesFreed(r)
    \/ LogHandler(r) \/ LogUnwinds(r) \/ LogFinishes(r)

NgxSpec == NgxInit /\ [][NgxNext]_allVars

-----------------------------------------------------------------------------
FrameType == [module : Modules, internal : BOOLEAN, handle : BOOLEAN,
              span : Nat, redirected : BOOLEAN]

\* Every variable, the agent's included, holds a value of its type.
NgxTypeOK ==
  /\ TypeOK
  /\ at \in [Requests -> Places]
  /\ calls \in [Requests -> Seq(FrameType)]
  /\ internal \in [Requests -> BOOLEAN]
  /\ handle \in [Requests -> BOOLEAN]
  /\ enabled \in [Requests -> BOOLEAN]
  /\ redirects \in [Requests -> 0..MaxRedirects]
  /\ lost \in [Requests -> BOOLEAN]
  /\ ready \in [Threads -> BOOLEAN]
  /\ crashed \in [Threads -> BOOLEAN]

\* A handle is never used after endRequest freed what it points to: neither
\* the request's context nor a copy a handler saved on its stack outlives the
\* request it names, through any nesting of redirects.
HandleIsLive ==
  \A r \in Requests :
    /\ handle[r] => phase[r] \in {"live", "ending"}
    /\ \A n \in 1..Len(calls[r]) : calls[r][n].handle => phase[r] = "live"

\* While a request is not internal, the interactions it has open are those of
\* the handlers on the call stack, in that order: each handler that returned
\* stopped what it started.
InteractionsMirrorCalls ==
  \A r \in Requests :
    handle[r] /\ ~internal[r] =>
      /\ Len(active[r]) = Len(calls[r])
      /\ \A n \in 1..Len(active[r]) : calls[r][n].span = active[r][n]

\* nginx closes a monitored request only after endRequest, unless a redirect
\* lost the handle or led to a location with the agent disabled.
EndedUnlessLost ==
  \A r \in Requests :
    at[r] = "closed" => phase[r] \in {"new", "done"} \/ lost[r] \/ ~enabled[r]

\* otel_stopInteraction pops whatever interaction is last: before the log
\* phase it is always the one that the handler on top started.
StopsItsOwn ==
  [][\A r \in Requests :
       phase[r] = "live" /\ Len(active'[r]) < Len(active[r]) =>
         calls[r] # <<>> /\ Frame(r).span = active[r][Len(active[r])]]_allVars

\* What the comment on the try_files handler says: the saved handle outlives
\* the request's pool, and the handler ends the request with it.
TryFilesEndsRequest ==
  [][\A r \in Requests :
       at[r] = "freed" /\ at'[r] # "freed" /\ enabled[r] /\ Frame(r).handle =>
         phase'[r] \in {"ending", "done"}]_allVars
=============================================================================
