------------------------- MODULE RequestProcessing -------------------------
(***************************************************************************)
(* The span life cycle of the web server agent: RequestProcessingEngine,   *)
(* RequestContext, SdkWrapper, ServerSpan and ScopedSpan.                  *)
(*                                                                         *)
(* A web server thread starts a request (a SERVER span, the root), starts  *)
(* and ends interactions with its modules (CLIENT spans, a stack kept in   *)
(* the RequestContext) and ends the request.  No span is ever given an     *)
(* explicit parent: the parent is whatever the thread's RuntimeContext     *)
(* stack has on top when the span starts, so the shape of the traces       *)
(* depends on how the server lays its requests out over its threads.       *)
(***************************************************************************)
EXTENDS Naturals, Sequences, RuntimeContext

CONSTANTS
  Threads,          \* the server's request threads
  Requests,
  MaxInteractions,  \* bound: interactions one request starts
  SharedThreads,    \* TRUE: a thread interleaves requests (an nginx worker);
                    \* FALSE: it serves one request at a time (Apache)
  Outcomes,         \* what the server reports of a request or an interaction:
                    \* no error, or an HTTP status by class (text that is not
                    \* a number counts as 5xx)
  ExtractKeeps      \* TRUE: Extract returns the context unchanged when the
                    \* carrier holds no valid parent; FALSE: it returns a
                    \* new context that holds an invalid span

ASSUME ConstantsAssumption ==
  /\ MaxInteractions \in Nat
  /\ SharedThreads \in BOOLEAN
  /\ Outcomes \subseteq {"none", "below_4xx", "4xx", "5xx"}
  /\ ExtractKeeps \in BOOLEAN

VARIABLES
  stack,   \* thread -> its RuntimeContext stack
  phase,   \* request -> "new", "live", "ending" (in endRequest) or "done"
  home,    \* request -> the thread that runs it
  token,   \* request -> context held by ServerSpan::mToken
  active,  \* request -> RequestContext::m_interactions, as span indexes
  spans    \* request -> every span it started; the root is the first

vars == <<stack, phase, home, token, active, spans>>

-----------------------------------------------------------------------------
(* Contexts and spans.  A span is named <<request, index>>; a remote one    *)
(* and none have names of another length.                                  *)

NoSpan == <<"no span">>
Remote(r) == <<"remote", "parent of", r>>

Extracted(r, hasParent) == <<"extract", r, hasParent>>
Scoped(r, i) == <<"scope", r, i>>

\* trace::GetSpan(context): the span a new span would get as its parent.
SpanOf(ctx) ==
  CASE ctx[1] = "scope" -> <<ctx[2], ctx[3]>>
    [] ctx[1] = "extract" -> IF ctx[3] THEN Remote(ctx[2]) ELSE NoSpan
    [] OTHER -> NoSpan

NewSpan(parent) == [parent |-> parent, status |-> "Unset", ended |-> FALSE]

Statuses == {"Unset", "Ok", "Error"}

RootStatus(err) ==
  CASE err = "none" -> "Ok"
    [] err \in {"below_4xx", "4xx"} -> "Unset"
    [] OTHER -> "Error"

\* Defect: the reported class is stored as the status.
RawInteractionStatus(err) == IF err = "none" THEN "Ok" ELSE err

InteractionStatus(err) ==
  CASE err = "none" -> "Ok"
    [] err = "below_4xx" -> "Unset"
    [] OTHER -> "Error"

\* Defect: unwinding pops the interaction and forgets to end its span.
LeftOpen(span) == span

Closed(span) == [span EXCEPT !.ended = TRUE]

-----------------------------------------------------------------------------
Init ==
  /\ stack = [t \in Threads |-> <<>>]
  /\ phase = [r \in Requests |-> "new"]
  /\ home \in [Requests -> Threads]
  /\ token = [r \in Requests |-> EmptyContext]
  /\ active = [r \in Requests |-> <<>>]
  /\ spans = [r \in Requests |-> <<>>]

Unfinished(t) == {r \in Requests : home[r] = t /\ phase[r] \in {"live", "ending"}}

\* endRequest runs to its end before its thread does anything else.
Free(t) == \A r \in Unfinished(t) : phase[r] # "ending"

\* startRequest: the ServerSpan attaches the extracted context and keeps its
\* token; its ScopedSpan starts the root under it and attaches that span.
StartRequest(r, hasParent) ==
  LET t == home[r]
      ctx == IF ExtractKeeps /\ ~hasParent
             THEN Top(stack[t])
             ELSE Extracted(r, hasParent)
  IN /\ phase[r] = "new"
     /\ IF SharedThreads THEN Free(t) ELSE Unfinished(t) = {}
     /\ token' = [token EXCEPT ![r] = ctx]
     /\ spans' = [spans EXCEPT ![r] = <<NewSpan(SpanOf(ctx))>>]
     /\ stack' = [stack EXCEPT ![t] = Attach(Attach(@, ctx), Scoped(r, 1))]
     /\ phase' = [phase EXCEPT ![r] = "live"]
     /\ UNCHANGED <<home, active>>

\* startInteraction: a CLIENT span under the thread's current span, which is
\* also what the propagation headers (Parent_Span_Id, traceparent) name.
StartInteraction(r) ==
  LET t == home[r]
      i == Len(spans[r]) + 1
  IN /\ phase[r] = "live"
     /\ Free(t)
     /\ i <= MaxInteractions + 1
     /\ spans' = [spans EXCEPT ![r] = Append(@, NewSpan(SpanOf(Top(stack[t]))))]
     /\ stack' = [stack EXCEPT ![t] = Attach(@, Scoped(r, i))]
     /\ active' = [active EXCEPT ![r] = Append(@, i)]
     /\ UNCHANGED <<phase, home, token>>

\* Defect: removeInteraction takes the oldest interaction.
DropOldestInteraction(r, span) ==
  LET i == active[r][1]
  IN /\ spans' = [spans EXCEPT ![r][i] = span]
     /\ stack' = [stack EXCEPT ![home[r]] = Detach(@, Scoped(r, i))]
     /\ active' = [active EXCEPT ![r] = Tail(@)]

\* Defect: the interaction is ended and stays the last one.
KeepInteraction(r, span) ==
  LET i == active[r][Len(active[r])]
  IN /\ spans' = [spans EXCEPT ![r][i] = span]
     /\ stack' = [stack EXCEPT ![home[r]] = Detach(@, Scoped(r, i))]
     /\ UNCHANGED active

\* Defect: the ScopedSpan outlives the interaction, and its scope with it.
KeepScope(r, span) ==
  LET i == active[r][Len(active[r])]
  IN /\ spans' = [spans EXCEPT ![r][i] = span]
     /\ active' = [active EXCEPT ![r] = SubSeq(@, 1, Len(@) - 1)]
     /\ UNCHANGED stack

\* Pops the last interaction; releasing its ScopedSpan detaches its scope.
DropInteraction(r, span) ==
  LET i == active[r][Len(active[r])]
  IN /\ spans' = [spans EXCEPT ![r][i] = span]
     /\ stack' = [stack EXCEPT ![home[r]] = Detach(@, Scoped(r, i))]
     /\ active' = [active EXCEPT ![r] = SubSeq(@, 1, Len(@) - 1)]

LastInteraction(r) == spans[r][active[r][Len(active[r])]]

\* endInteraction; with no active interaction it returns invalid_context.
EndInteraction(r, err) ==
  /\ phase[r] = "live"
  /\ Free(home[r])
  /\ active[r] # <<>>
  /\ DropInteraction(r, [LastInteraction(r) EXCEPT !.status = InteractionStatus(err),
                                                  !.ended = TRUE])
  /\ UNCHANGED <<phase, home, token>>

EndRequest(r) ==
  /\ phase[r] = "live"
  /\ Free(home[r])
  /\ phase' = [phase EXCEPT ![r] = "ending"]
  /\ UNCHANGED <<stack, home, token, active, spans>>

\* The loop of endRequest over the interactions that are still active.
EndRequestUnwind(r) ==
  /\ phase[r] = "ending"
  /\ active[r] # <<>>
  /\ DropInteraction(r, Closed(LastInteraction(r)))
  /\ UNCHANGED <<phase, home, token>>

\* Defect: End keeps the token, and the RequestContext is not deleted.
FinishWithoutDetach(r, err) ==
  /\ phase[r] = "ending"
  /\ active[r] = <<>>
  /\ spans' = [spans EXCEPT ![r][1] = [@ EXCEPT !.status = RootStatus(err),
                                               !.ended = TRUE]]
  /\ phase' = [phase EXCEPT ![r] = "done"]
  /\ UNCHANGED <<stack, home, token, active>>

\* The rest of endRequest: ServerSpan::End detaches the token and ends the
\* root; deleting the RequestContext destroys the ServerSpan, whose token
\* detaches once more and whose scope detaches the root.
EndRequestFinish(r, err) ==
  LET t == home[r]
      ended == Detach(stack[t], token[r])
  IN /\ phase[r] = "ending"
     /\ active[r] = <<>>
     /\ spans' = [spans EXCEPT ![r][1] = [@ EXCEPT !.status = RootStatus(err),
                                                  !.ended = TRUE]]
     /\ stack' = [stack EXCEPT ![t] = Detach(Detach(ended, token[r]), Scoped(r, 1))]
     /\ phase' = [phase EXCEPT ![r] = "done"]
     /\ UNCHANGED <<home, token, active>>

Next ==
  \E r \in Requests :
    \/ \E hasParent \in BOOLEAN : StartRequest(r, hasParent)
    \/ StartInteraction(r)
    \/ \E err \in Outcomes : EndInteraction(r, err)
    \/ EndRequest(r)
    \/ EndRequestUnwind(r)
    \/ \E err \in Outcomes : EndRequestFinish(r, err)

Spec == Init /\ [][Next]_vars

\* The server ends every request it started, and endRequest, once entered,
\* runs on; interactions may be left open by a module that never returns to
\* the agent's hook.
Fairness ==
  \A r \in Requests :
    /\ WF_vars(EndRequest(r))
    /\ WF_vars(EndRequestUnwind(r))
    /\ WF_vars(\E err \in Outcomes : EndRequestFinish(r, err))

FairSpec == Spec /\ Fairness
-----------------------------------------------------------------------------
SpanType == [parent : {NoSpan} \cup {Remote(r) : r \in Requests} \cup (Requests \X Nat),
             status : Statuses,
             ended : BOOLEAN]

ContextType ==
  {EmptyContext}
    \cup ({"extract"} \X Requests \X BOOLEAN)
    \cup ({"scope"} \X Requests \X Nat)

\* Every variable holds a value of its type.
TypeOK ==
  /\ stack \in [Threads -> Seq(ContextType)]
  /\ phase \in [Requests -> {"new", "live", "ending", "done"}]
  /\ home \in [Requests -> Threads]
  /\ token \in [Requests -> ContextType]
  /\ active \in [Requests -> Seq(Nat)]
  /\ spans \in [Requests -> Seq(SpanType)]

\* The strengthening that makes OwnAncestry and IdleThreadIsClean inductive
\* when a thread serves one request at a time: the thread's stack is the
\* request's own token, root and active interactions, and nothing else.
HoldsStackOf(t, r) ==
  /\ Len(stack[t]) = Len(active[r]) + 2
  /\ stack[t][1] = token[r]
  /\ stack[t][2] = Scoped(r, 1)
  /\ \A n \in 1..Len(active[r]) : stack[t][n + 2] = Scoped(r, active[r][n])

OwnAt(t) ==
  \/ Unfinished(t) = {} /\ stack[t] = <<>>
  \/ \E r \in Requests : Unfinished(t) = {r} /\ HoldsStackOf(t, r)

StackIsOwn == \A t \in Threads : OwnAt(t)

\* The active interactions are spans of the request, numbered in the order
\* they start, after the root.
ActiveInOrder ==
  \A r \in Requests :
    /\ phase[r] = "new" => spans[r] = <<>>
    /\ phase[r] # "new" => spans[r] # <<>>
    /\ phase[r] \in {"new", "done"} => active[r] = <<>>
    /\ \A n \in 1..Len(active[r]) : active[r][n] \in 2..Len(spans[r])
    /\ \A m, n \in 1..Len(active[r]) : m < n => active[r][m] < active[r][n]

\* A ServerSpan's token is never the scope of a span.
TokenIsNoScope == \A r \in Requests : token[r][1] # "scope"

OwnContext == StackIsOwn /\ TokenIsNoScope

HasOwnParent(r, i) ==
  \/ i = 1 /\ spans[r][i].parent \in {Remote(r), NoSpan}
  \/ \E j \in 1..(i - 1) : spans[r][i].parent = <<r, j>>

\* A trace never mixes requests: the root hangs below the remote parent the
\* carrier named, or below nothing, and an interaction below an older span
\* of its own request.
OwnAncestry ==
  \A r \in Requests : \A i \in 1..Len(spans[r]) : HasOwnParent(r, i)

\* A thread that serves no request keeps no context of an earlier one.
IdleThreadIsClean ==
  \A t \in Threads : Unfinished(t) = {} => stack[t] = <<>>

\* The spans still open are exactly the root of an unfinished request and
\* the interactions in its RequestContext: endRequest closes what a hook
\* left open, and nothing is closed twice or out of order.
OpenSpansAreTracked ==
  \A r \in Requests : \A i \in 1..Len(spans[r]) :
    ~spans[r][i].ended <=>
      \/ i = 1 /\ phase[r] \in {"live", "ending"}
      \/ \E n \in 1..Len(active[r]) : active[r][n] = i

\* A span starts below a span that is still open, never below a closed one.
ParentStillOpen ==
  [][\A r \in Requests : Len(spans'[r]) > Len(spans[r]) =>
       LET parent == spans'[r][Len(spans'[r])].parent
       IN \A q \in Requests : \A j \in 1..Len(spans[q]) :
            parent = <<q, j>> => ~spans[q][j].ended]_vars

\* A closed span is frozen: nothing moves it, reopens it or rewrites its
\* status, not even the end of its request.
ClosedSpansAreFinal ==
  [][\A r \in Requests : \A i \in 1..Len(spans[r]) :
       spans[r][i].ended => spans'[r][i] = spans[r][i]]_vars

\* Every span that is started is ended.
SpansEnd ==
  \A r \in Requests :
    (phase[r] = "live") ~> (phase[r] = "done" /\ \A i \in 1..Len(spans[r]) : spans[r][i].ended)
=============================================================================
