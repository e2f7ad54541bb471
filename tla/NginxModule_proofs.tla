------------------------ MODULE NginxModule_proofs ------------------------
(***************************************************************************)
(* For any number of workers, requests and redirects: the handlers of the  *)
(* nginx module use the agent only as RequestProcessing allows, never hold *)
(* a handle of a request that has ended, stop the interactions they have   *)
(* started and no others, and end the requests whose handle is not lost.   *)
(***************************************************************************)
EXTENDS NginxModule, RequestProcessing_proofs, SequenceTheorems

\* otel_stopInteraction is an operation of the agent, or nothing.
LEMMA StopIsStep ==
  ASSUME NEW r \in Requests, StopInteraction(r)
  PROVE  [Next]_vars /\ phase' = phase
<1>1. CASE UNCHANGED vars
  BY <1>1 DEF vars
<1>2. CASE \E err \in Outcomes : EndInteraction(r, err)
  <2>1. PICK err \in Outcomes : EndInteraction(r, err)
    BY <1>2
  <2>2. phase' = phase
    BY <2>1 DEF EndInteraction
  <2> QED
    BY <1>2, <2>2 DEF Next
<1> QED
  BY <1>1, <1>2 DEF StopInteraction

\* What each action does to the agent's variables.
LEMMA NgxStepIsStep ==
  ASSUME NEW r \in Requests
  PROVE  /\ Accept(r) \/ Advance(r) \/ Wait(r) \/ Resume(r) \/ Respond(r) => UNCHANGED vars
         /\ ErrorPage(r) \/ Rewritten(r) \/ HandlerRedirects(r) \/ FreeInTryFiles(r) => UNCHANGED vars
         /\ Monitor(r) => [Next]_vars
         /\ \A m \in Modules : Enter(r, m) => [Next]_vars
         /\ Leave(r) \/ LeaveIndex(r) \/ LeaveTryFiles(r) \/ LeaveTryFilesFreed(r) => [Next]_vars
         /\ LogHandler(r) \/ LogUnwinds(r) \/ LogFinishes(r) => [Next]_vars
<1>1. Accept(r) \/ Advance(r) \/ Wait(r) \/ Resume(r) \/ Respond(r) => UNCHANGED vars
  BY DEF Accept, Advance, Wait, Resume, Respond
<1>2. ErrorPage(r) \/ Rewritten(r) \/ HandlerRedirects(r) \/ FreeInTryFiles(r) => UNCHANGED vars
  BY DEF ErrorPage, Rewritten, HandlerRedirects, FreeInTryFiles
<1>3. Monitor(r) => [Next]_vars
  BY DEF Monitor, Next
<1>4. ASSUME NEW m \in Modules, Enter(r, m) PROVE [Next]_vars
  BY <1>4 DEF Enter, Next
<1>5. Leave(r) \/ LeaveIndex(r) \/ LeaveTryFiles(r) \/ LeaveTryFilesFreed(r) => [Next]_vars
  BY StopIsStep DEF Leave, LeaveIndex, LeaveTryFiles, LeaveTryFilesFreed
<1>6. LogHandler(r) \/ LogUnwinds(r) \/ LogFinishes(r) => [Next]_vars
  BY DEF LogHandler, LogUnwinds, LogFinishes, Next
<1> QED
  BY <1>1, <1>2, <1>3, <1>4, <1>5, <1>6

LEMMA NgxNextImplements == [NgxNext]_allVars => [Next]_vars
<1>1. ASSUME NEW r \in Requests,
             \/ Accept(r) \/ Advance(r) \/ Wait(r) \/ Resume(r) \/ Respond(r)
             \/ ErrorPage(r) \/ Rewritten(r) \/ HandlerRedirects(r) \/ FreeInTryFiles(r)
             \/ Monitor(r)
             \/ \E m \in Modules : Enter(r, m)
             \/ Leave(r) \/ LeaveIndex(r) \/ LeaveTryFiles(r) \/ LeaveTryFilesFreed(r)
             \/ LogHandler(r) \/ LogUnwinds(r) \/ LogFinishes(r)
      PROVE  [Next]_vars
  BY <1>1, NgxStepIsStep
<1>2. UNCHANGED allVars => [Next]_vars
  BY DEF allVars
<1> QED
  BY <1>1, <1>2 DEF NgxNext

\* The nginx module implements the agent's specification: through waits,
\* rewrites and redirects it starts, stops and ends only what that allows.
THEOREM NginxDrivesAgent == NgxSpec => Spec
<1>1. NgxInit => Init
  BY DEF NgxInit
<1> QED
  BY <1>1, NgxNextImplements, PTL DEF NgxSpec, Spec

-----------------------------------------------------------------------------
\* The part of NgxTypeOK that is about nginx.
PlacesOK ==
  /\ at \in [Requests -> Places]
  /\ calls \in [Requests -> Seq(FrameType)]
  /\ internal \in [Requests -> BOOLEAN]
  /\ handle \in [Requests -> BOOLEAN]
  /\ enabled \in [Requests -> BOOLEAN]
  /\ redirects \in [Requests -> 0..MaxRedirects]
  /\ lost \in [Requests -> BOOLEAN]
  /\ ready \in [Threads -> BOOLEAN]
  /\ crashed \in [Threads -> BOOLEAN]

\* endRequest runs only in the log handler, outside every other handler.
EndingInLog ==
  \A r \in Requests : phase[r] = "ending" => at[r] = "ending" /\ calls[r] = <<>>

LEMMA Shortened ==
  ASSUME NEW S, NEW c \in Seq(S), c # <<>>
  PROVE  /\ SubSeq(c, 1, Len(c) - 1) \in Seq(S)
         /\ Len(SubSeq(c, 1, Len(c) - 1)) = Len(c) - 1
         /\ \A n \in 1..(Len(c) - 1) : n \in 1..Len(c) /\ SubSeq(c, 1, Len(c) - 1)[n] = c[n]
<1>1. Len(c) \in Nat \ {0} /\ \A n \in 1..Len(c) : c[n] \in S
  OBVIOUS
<1>2. /\ Len(c) - 1 \in Int /\ 1 \in Int
      /\ \A n \in 1..(Len(c) - 1) : n \in 1..Len(c) /\ c[n] \in S
      /\ (Len(c) - 1) - 1 + 1 = Len(c) - 1
      /\ \A n \in 1..(Len(c) - 1) : 1 + n - 1 = n
  BY <1>1
<1>3. /\ SubSeq(c, 1, Len(c) - 1) \in Seq(S)
      /\ Len(SubSeq(c, 1, Len(c) - 1)) = IF 1 <= Len(c) - 1 THEN (Len(c) - 1) - 1 + 1 ELSE 0
      /\ \A n \in 1..((Len(c) - 1) - 1 + 1) : SubSeq(c, 1, Len(c) - 1)[n] = c[1 + n - 1]
  BY <1>2, SubSeqProperties
<1> QED
  BY SMTT(20), <1>1, <1>2, <1>3

LEMMA FlagUpdate ==
  ASSUME NEW S, NEW f \in [S -> BOOLEAN], NEW s \in S, NEW b \in BOOLEAN
  PROVE  /\ [f EXCEPT ![s] = b] \in [S -> BOOLEAN]
         /\ [f EXCEPT ![s] = b][s] = b
         /\ \A q \in S : q # s => [f EXCEPT ![s] = b][q] = f[q]
OBVIOUS

LEMMA LastFrameType ==
  ASSUME PlacesOK, NEW r \in Requests, calls[r] # <<>>
  PROVE  /\ Len(calls[r]) \in 1..Len(calls[r])
         /\ Frame(r) \in FrameType
BY DEF PlacesOK, Frame

LEMMA ReturnType ==
  ASSUME PlacesOK, NEW r \in Requests, calls[r] # <<>>, Return(r)
  PROVE  /\ calls' \in [Requests -> Seq(FrameType)]
         /\ \A q \in Requests : q # r => calls'[q] = calls[q]
         /\ Len(calls'[r]) = Len(calls[r]) - 1
         /\ \A n \in 1..Len(calls'[r]) : n \in 1..Len(calls[r]) /\ calls'[r][n] = calls[r][n]
<1> DEFINE c == calls[r]
<1> DEFINE d == SubSeq(c, 1, Len(c) - 1)
<1>1. c \in Seq(FrameType) /\ Len(c) \in Nat \ {0}
  BY DEF PlacesOK
<1>2. /\ d \in Seq(FrameType)
      /\ Len(d) = Len(c) - 1
      /\ \A n \in 1..Len(d) : n \in 1..Len(c) /\ d[n] = c[n]
  BY <1>1, Shortened
<1>3. calls' = [calls EXCEPT ![r] = d]
  BY DEF Return
<1>4. calls'[r] = d /\ \A q \in Requests : q # r => calls'[q] = calls[q]
  <2> HIDE DEF c, d
  <2> QED
    BY <1>3 DEF PlacesOK
<1>5. calls' \in [Requests -> Seq(FrameType)]
  <2> HIDE DEF c, d
  <2> QED
    BY <1>2, <1>3 DEF PlacesOK
<1> HIDE DEF d
<1> QED
  BY <1>2, <1>4, <1>5

LEMMA InitPlaces == NgxInit => PlacesOK /\ HandleIsLive /\ EndingInLog
BY RedirectsAssumption
   DEF NgxInit, Init, PlacesOK, HandleIsLive, EndingInLog, Places

\* Actions of nginx that leave the call stack and the agent alone.
LEMMA CoreStep ==
  ASSUME PlacesOK, HandleIsLive, EndingInLog, NEW r \in Requests,
         Accept(r) \/ Advance(r) \/ Wait(r) \/ Resume(r) \/ Respond(r) \/ ErrorPage(r)
           \/ Rewritten(r) \/ FreeInTryFiles(r)
  PROVE  PlacesOK' /\ HandleIsLive' /\ EndingInLog'
<1>1. /\ phase' = phase /\ calls' = calls /\ crashed' = crashed /\ ready' = ready
      /\ \A q \in Requests : handle'[q] => handle[q]
      /\ \A q \in Requests : q # r => at'[q] = at[q]
      /\ at'[r] # at[r] => at[r] # "ending"
  BY DEF vars, PlacesOK, Accept, Advance, Wait, Resume, Respond, ErrorPage, Rewritten,
         FreeInTryFiles, Redirected, NextPhase, Phases, Waits
<1>2. at' \in [Requests -> Places]
  BY DEF PlacesOK, Places, Phases, Waits, NextPhase, Accept, Advance, Wait, Resume, Respond,
         ErrorPage, Rewritten, FreeInTryFiles, Redirected
<1>3. /\ internal' \in [Requests -> BOOLEAN] /\ handle' \in [Requests -> BOOLEAN]
      /\ enabled' \in [Requests -> BOOLEAN] /\ lost' \in [Requests -> BOOLEAN]
  <2>1. CASE UNCHANGED <<internal, handle, enabled, lost>>
    BY <2>1 DEF PlacesOK
  <2>2. CASE ErrorPage(r)
    <3>1. /\ internal' = [internal EXCEPT ![r] = TRUE]
          /\ handle' = [handle EXCEPT ![r] = FALSE]
          /\ \E b \in BOOLEAN : enabled' = [enabled EXCEPT ![r] = b]
          /\ lost' = [lost EXCEPT ![r] = lost[r] \/ handle[r]]
      BY <2>2 DEF ErrorPage, Redirected
    <3>2. (lost[r] \/ handle[r]) \in BOOLEAN
      BY DEF PlacesOK
    <3> QED
      BY <3>1, <3>2, FlagUpdate DEF PlacesOK
  <2>3. CASE Rewritten(r)
    <3>1. /\ internal' = [internal EXCEPT ![r] = TRUE]
          /\ \E b \in BOOLEAN : enabled' = [enabled EXCEPT ![r] = b]
          /\ handle' = handle /\ lost' = lost
      BY <2>3 DEF Rewritten
    <3> QED
      BY <3>1, FlagUpdate DEF PlacesOK
  <2> QED
    <3>1. Accept(r) => UNCHANGED <<internal, handle, enabled, lost>>
      BY DEF Accept
    <3>2. Advance(r) => UNCHANGED <<internal, handle, enabled, lost>>
      BY DEF Advance
    <3>3. Wait(r) => UNCHANGED <<internal, handle, enabled, lost>>
      BY DEF Wait
    <3>4. Resume(r) => UNCHANGED <<internal, handle, enabled, lost>>
      BY DEF Resume
    <3>5. Respond(r) => UNCHANGED <<internal, handle, enabled, lost>>
      BY DEF Respond
    <3>6. FreeInTryFiles(r) => UNCHANGED <<internal, handle, enabled, lost>>
      BY DEF FreeInTryFiles
    <3> QED
      BY <2>1, <2>2, <2>3, <3>1, <3>2, <3>3, <3>4, <3>5, <3>6
<1>4. redirects' \in [Requests -> 0..MaxRedirects]
  <2>1. \/ redirects' = redirects
        \/ /\ redirects[r] < MaxRedirects
           /\ redirects' = [redirects EXCEPT ![r] = redirects[r] + 1]
    BY DEF Accept, Advance, Wait, Resume, Respond, ErrorPage, Rewritten, FreeInTryFiles, Redirected
  <2>2. redirects[r] < MaxRedirects => redirects[r] + 1 \in 0..MaxRedirects
    BY RedirectsAssumption DEF PlacesOK
  <2> QED
    BY <2>1, <2>2 DEF PlacesOK
<1>5. PlacesOK'
  BY <1>1, <1>2, <1>3, <1>4 DEF PlacesOK
<1>6. HandleIsLive'
  BY <1>1 DEF HandleIsLive
<1>7. EndingInLog'
  BY <1>1 DEF EndingInLog
<1> QED
  BY <1>5, <1>6, <1>7

LEMMA RedirectStep ==
  ASSUME PlacesOK, HandleIsLive, EndingInLog, NEW r \in Requests, HandlerRedirects(r)
  PROVE  PlacesOK' /\ HandleIsLive' /\ EndingInLog'
<1> DEFINE k == Len(calls[r])
<1> DEFINE f == [Frame(r) EXCEPT !.redirected = TRUE]
<1>1. calls[r] # <<>>
  BY DEF HandlerRedirects, InHandler
<1>2. k \in 1..Len(calls[r]) /\ Frame(r) \in FrameType /\ calls[r][k] = Frame(r)
  BY <1>1, LastFrameType DEF Frame
<1>3. f \in FrameType /\ f.handle = Frame(r).handle
  BY <1>2 DEF FrameType
<1>4. calls' = [calls EXCEPT ![r] = [calls[r] EXCEPT ![k] = f]]
  BY DEF HandlerRedirects, Frame
<1> HIDE DEF k, f
<1>5. calls' \in [Requests -> Seq(FrameType)]
  BY <1>2, <1>3, <1>4 DEF PlacesOK
<1>6. \A q \in Requests : Len(calls'[q]) = Len(calls[q])
          /\ \A n \in 1..Len(calls[q]) : calls'[q][n].handle = calls[q][n].handle
  BY <1>2, <1>3, <1>4 DEF PlacesOK
<1>7. /\ phase' = phase /\ crashed' = crashed /\ ready' = ready
      /\ phase[r] # "ending"
      /\ \A q \in Requests : handle'[q] => handle[q]
      /\ \A q \in Requests : q # r => at'[q] = at[q] /\ calls'[q] = calls[q]
  BY <1>1, <1>4 DEF vars, PlacesOK, HandlerRedirects, Redirected, EndingInLog
<1>8. /\ at' \in [Requests -> Places] /\ internal' \in [Requests -> BOOLEAN]
      /\ handle' \in [Requests -> BOOLEAN] /\ enabled' \in [Requests -> BOOLEAN]
      /\ lost' \in [Requests -> BOOLEAN]
  BY DEF PlacesOK, Places, HandlerRedirects, Redirected
<1>9. redirects' \in [Requests -> 0..MaxRedirects]
  BY RedirectsAssumption DEF PlacesOK, HandlerRedirects, Redirected
<1>10. PlacesOK'
  BY <1>5, <1>7, <1>8, <1>9 DEF PlacesOK
<1>11. HandleIsLive'
  BY <1>6, <1>7 DEF HandleIsLive
<1>12. EndingInLog'
  BY <1>7 DEF EndingInLog
<1> QED
  BY <1>10, <1>11, <1>12

\* The handlers of the module, up to the call of the handler they wrap.
LEMMA MonitorStep ==
  ASSUME TypeOK, PlacesOK, HandleIsLive, EndingInLog, NEW r \in Requests, Monitor(r)
  PROVE  PlacesOK' /\ HandleIsLive' /\ EndingInLog'
<1> DEFINE t == home[r]
<1>1. t \in Threads
  BY DEF TypeOK
<1>2. /\ at[r] = "rewrite" /\ at' = [at EXCEPT ![r] = "monitored"]
      /\ UNCHANGED <<calls, internal, enabled, redirects, lost, crashed>>
  BY DEF Monitor
<1>3. phase[r] # "ending"
  BY <1>2 DEF EndingInLog
<1>4. CASE /\ \E hasParent \in BOOLEAN : StartRequest(r, hasParent)
           /\ handle' = [handle EXCEPT ![r] = TRUE]
           /\ ready' = [ready EXCEPT ![t] = TRUE]
  <2>1. phase' = [phase EXCEPT ![r] = "live"] /\ phase[r] = "new"
    BY <1>4 DEF StartRequest
  <2>2. handle' \in [Requests -> BOOLEAN] /\ \A q \in Requests : q # r => handle'[q] = handle[q]
    BY <1>4, FlagUpdate DEF PlacesOK
  <2>3. ready' \in [Threads -> BOOLEAN]
    BY <1>1, <1>4, FlagUpdate DEF PlacesOK
  <2>4. PlacesOK'
    BY <1>2, <2>2, <2>3 DEF PlacesOK, Places
  <2>5. HandleIsLive'
    BY <1>2, <2>1, <2>2 DEF HandleIsLive, TypeOK
  <2>6. EndingInLog'
    BY <1>2, <2>1 DEF EndingInLog, TypeOK, PlacesOK
  <2> QED
    BY <2>4, <2>5, <2>6
<1>5. CASE /\ ready' \in {ready, [ready EXCEPT ![t] = ready[t] \/ enabled[r]]}
           /\ UNCHANGED <<vars, handle>>
  <2>1. (ready[t] \/ enabled[r]) \in BOOLEAN
    BY DEF PlacesOK
  <2>2. ready' \in [Threads -> BOOLEAN]
    <3>1. CASE ready' = ready
      BY <3>1 DEF PlacesOK
    <3>2. CASE ready' = [ready EXCEPT ![t] = ready[t] \/ enabled[r]]
      BY <1>1, <2>1, <3>2, FlagUpdate DEF PlacesOK
    <3> QED
      BY <1>5, <3>1, <3>2
  <2>3. phase' = phase /\ handle' = handle
    BY <1>5 DEF vars
  <2>4. PlacesOK'
    BY <1>2, <2>2, <2>3 DEF PlacesOK, Places
  <2>5. HandleIsLive'
    BY <1>2, <2>3 DEF HandleIsLive
  <2>6. EndingInLog'
    BY <1>2, <1>3, <2>3 DEF EndingInLog, PlacesOK
  <2> QED
    BY <2>4, <2>5, <2>6
<1> QED
  BY <1>4, <1>5 DEF Monitor

LEMMA EnterStep ==
  ASSUME TypeOK, PlacesOK, HandleIsLive, EndingInLog,
         NEW r \in Requests, NEW m \in Modules, Enter(r, m)
  PROVE  PlacesOK' /\ HandleIsLive' /\ EndingInLog'
<1> DEFINE f == [module |-> m, internal |-> internal[r], handle |-> handle[r],
                 span |-> IF Traced(r) THEN Len(spans[r]) + 1 ELSE 0, redirected |-> FALSE]
<1>1. /\ calls' = [calls EXCEPT ![r] = Append(calls[r], f)]
      /\ UNCHANGED <<at, internal, handle, enabled, redirects, lost, ready, crashed>>
  BY DEF Enter
<1>2. phase' = phase
  BY DEF Enter, StartInteraction, vars
<1>3. at[r] # "ending"
  BY DEF Enter, AtEntry, PhaseOf, Modules
<1>4. f \in FrameType /\ f.handle = handle[r]
  <2>1. (IF Traced(r) THEN Len(spans[r]) + 1 ELSE 0) \in Nat
    <3>1. Len(spans[r]) \in Nat
      BY DEF TypeOK
    <3> QED
      BY <3>1
  <2>2. internal[r] \in BOOLEAN /\ handle[r] \in BOOLEAN
    BY DEF PlacesOK
  <2> QED
    BY <2>1, <2>2 DEF FrameType
<1> HIDE DEF f
<1>5. calls' \in [Requests -> Seq(FrameType)]
  BY <1>1, <1>4 DEF PlacesOK
<1>6. PlacesOK'
  BY <1>1, <1>5 DEF PlacesOK
<1>7. HandleIsLive'
  <2>1. \A q \in Requests : handle'[q] => phase'[q] \in {"live", "ending"}
    BY <1>1, <1>2 DEF HandleIsLive
  <2>2. \A q \in Requests : q # r => calls'[q] = calls[q]
    BY <1>1 DEF PlacesOK
  <2>3. /\ Len(calls'[r]) = Len(calls[r]) + 1 /\ Len(calls[r]) \in Nat
        /\ \A n \in 1..Len(calls[r]) : calls'[r][n] = calls[r][n]
        /\ calls'[r][Len(calls[r]) + 1] = f
    BY <1>1, <1>4 DEF PlacesOK
  <2>4. \A n \in 1..Len(calls'[r]) : n \in 1..Len(calls[r]) \/ n = Len(calls[r]) + 1
    BY <2>3
  <2>5. handle[r] => phase[r] = "live"
    BY <1>3 DEF HandleIsLive, EndingInLog
  <2> QED
    BY <1>2, <1>4, <2>1, <2>2, <2>3, <2>4, <2>5 DEF HandleIsLive
<1>8. EndingInLog'
  BY <1>1, <1>2, <1>3 DEF EndingInLog, PlacesOK
<1> QED
  BY <1>6, <1>7, <1>8

\* The handlers after the handler they wrap.
LEMMA LeaveStep ==
  ASSUME PlacesOK, HandleIsLive, EndingInLog, NEW r \in Requests,
         Leave(r) \/ LeaveIndex(r) \/ LeaveTryFiles(r) \/ LeaveTryFilesFreed(r)
  PROVE  PlacesOK' /\ HandleIsLive' /\ EndingInLog'
<1>1. calls[r] # <<>> /\ Return(r) /\ phase[r] # "ending"
  BY DEF Leave, LeaveIndex, LeaveTryFiles, LeaveTryFilesFreed, EndingInLog
<1>2. phase' = phase
  BY StopIsStep DEF Leave, LeaveIndex, LeaveTryFiles, LeaveTryFilesFreed, vars
<1>3. at' \in [Requests -> Places] /\ \A q \in Requests : q # r => at'[q] = at[q]
  BY DEF Leave, LeaveIndex, LeaveTryFiles, LeaveTryFilesFreed, PlacesOK, Places, Phases
<1>4. Frame(r) \in FrameType /\ Len(calls[r]) \in 1..Len(calls[r])
  BY <1>1, LastFrameType
<1>5. lost' = lost /\ UNCHANGED <<internal, enabled, redirects, ready>>
  BY DEF Leave, LeaveIndex, LeaveTryFiles, LeaveTryFilesFreed, Return
<1>6. crashed' \in [Threads -> BOOLEAN]
  <2>1. CASE crashed' = crashed
    BY <2>1 DEF PlacesOK
  <2>2. CASE LeaveTryFilesFreed(r)
    <3>1. crashed' = [crashed EXCEPT ![home[r]] = Frame(r).handle /\ enabled[r]]
      BY <2>2 DEF LeaveTryFilesFreed
    <3>2. (Frame(r).handle /\ enabled[r]) \in BOOLEAN
      BY <1>4 DEF PlacesOK, FrameType
    <3>3. CASE home[r] \in Threads
      BY <3>1, <3>2, <3>3, FlagUpdate DEF PlacesOK
    <3>4. CASE home[r] \notin Threads
      BY <3>1, <3>4 DEF PlacesOK
    <3> QED
      BY <3>3, <3>4
  <2> QED
    BY <2>1, <2>2 DEF Leave, LeaveIndex, LeaveTryFiles
<1>7. /\ handle' \in [Requests -> BOOLEAN]
      /\ \A q \in Requests : q # r => handle'[q] = handle[q]
      /\ handle'[r] => handle[r] \/ Frame(r).handle
  <2>1. CASE handle' = handle
    BY <2>1 DEF PlacesOK
  <2>2. CASE LeaveIndex(r)
    <3>1. handle' = [handle EXCEPT ![r] = Frame(r).handle]
      BY <2>2 DEF LeaveIndex
    <3>2. Frame(r).handle \in BOOLEAN
      BY <1>4 DEF FrameType
    <3> QED
      BY <3>1, <3>2, FlagUpdate DEF PlacesOK
  <2> QED
    BY <2>1, <2>2 DEF Leave, LeaveTryFiles, LeaveTryFilesFreed
<1>8. PlacesOK'
  BY <1>1, <1>3, <1>5, <1>6, <1>7, ReturnType DEF PlacesOK
<1>9. HandleIsLive'
  <2>1. Frame(r).handle => phase[r] = "live"
    BY <1>4 DEF HandleIsLive, Frame
  <2>2. \A q \in Requests : handle'[q] => phase'[q] \in {"live", "ending"}
    BY <1>2, <1>7, <2>1 DEF HandleIsLive
  <2>3. \A q \in Requests : \A n \in 1..Len(calls'[q]) :
          n \in 1..Len(calls[q]) /\ calls'[q][n] = calls[q][n]
    BY <1>1, ReturnType
  <2> QED
    BY <1>2, <2>2, <2>3 DEF HandleIsLive
<1>10. EndingInLog'
  BY <1>1, <1>2, <1>3, ReturnType DEF EndingInLog
<1> QED
  BY <1>8, <1>9, <1>10

LEMMA LogStep ==
  ASSUME TypeOK, PlacesOK, HandleIsLive, EndingInLog, NEW r \in Requests,
         LogHandler(r) \/ LogUnwinds(r) \/ LogFinishes(r)
  PROVE  PlacesOK' /\ HandleIsLive' /\ EndingInLog'
<1>1. CASE LogHandler(r)
  <2>1. /\ UNCHANGED <<calls, internal, handle, enabled, redirects, lost, ready, crashed>>
        /\ at[r] = "responded" /\ calls[r] = <<>>
        /\ \/ at' = [at EXCEPT ![r] = "ending"] /\ phase' = [phase EXCEPT ![r] = "ending"]
           \/ at' = [at EXCEPT ![r] = "closed"] /\ phase' = phase
    BY <1>1 DEF LogHandler, EndRequest, vars
  <2>2. PlacesOK'
    BY <2>1 DEF PlacesOK, Places
  <2>3. HandleIsLive'
    BY <2>1 DEF HandleIsLive, TypeOK
  <2>4. EndingInLog'
    BY <2>1 DEF EndingInLog, TypeOK, PlacesOK
  <2> QED
    BY <2>2, <2>3, <2>4
<1>2. CASE LogUnwinds(r)
  <2>1. UNCHANGED <<at, calls, internal, handle, enabled, redirects, lost, ready, crashed>> /\ phase' = phase
    BY <1>2 DEF LogUnwinds, EndRequestUnwind, ngx
  <2> QED
    BY <2>1 DEF PlacesOK, HandleIsLive, EndingInLog
<1>3. CASE LogFinishes(r)
  <2>1. /\ UNCHANGED <<calls, internal, enabled, redirects, lost, ready, crashed>>
        /\ at' = [at EXCEPT ![r] = "closed"] /\ handle' = [handle EXCEPT ![r] = FALSE]
        /\ phase' = [phase EXCEPT ![r] = "done"] /\ phase[r] = "ending"
    BY <1>3 DEF LogFinishes, EndRequestFinish
  <2>2. calls[r] = <<>>
    BY <2>1 DEF EndingInLog
  <2>3. handle' \in [Requests -> BOOLEAN] /\ ~handle'[r] /\ \A q \in Requests : q # r => handle'[q] = handle[q]
    BY <2>1, FlagUpdate DEF PlacesOK
  <2>4. PlacesOK'
    BY <2>1, <2>3 DEF PlacesOK, Places
  <2>5. HandleIsLive'
    BY <2>1, <2>2, <2>3 DEF HandleIsLive, TypeOK
  <2>6. EndingInLog'
    BY <2>1 DEF EndingInLog, TypeOK, PlacesOK
  <2> QED
    BY <2>4, <2>5, <2>6
<1> QED
  BY <1>1, <1>2, <1>3

NgxInv == PlacesOK /\ HandleIsLive /\ EndingInLog

LEMMA StepNgxInv == TypeOK /\ NgxInv /\ [NgxNext]_allVars => NgxInv'
<1> SUFFICES ASSUME TypeOK, NgxInv, [NgxNext]_allVars PROVE NgxInv'
  OBVIOUS
<1> USE DEF NgxInv
<1>1. CASE UNCHANGED allVars
  BY <1>1 DEF allVars, vars, ngx, PlacesOK, HandleIsLive, EndingInLog
<1>2. ASSUME NEW r \in Requests,
             Accept(r) \/ Advance(r) \/ Wait(r) \/ Resume(r) \/ Respond(r) \/ ErrorPage(r)
               \/ Rewritten(r) \/ FreeInTryFiles(r)
      PROVE  NgxInv'
  BY <1>2, CoreStep
<1>3. ASSUME NEW r \in Requests, HandlerRedirects(r) PROVE NgxInv'
  BY <1>3, RedirectStep
<1>4. ASSUME NEW r \in Requests, Monitor(r) PROVE NgxInv'
  BY <1>4, MonitorStep
<1>5. ASSUME NEW r \in Requests, NEW m \in Modules, Enter(r, m) PROVE NgxInv'
  BY <1>5, EnterStep
<1>6. ASSUME NEW r \in Requests,
             Leave(r) \/ LeaveIndex(r) \/ LeaveTryFiles(r) \/ LeaveTryFilesFreed(r)
      PROVE  NgxInv'
  BY <1>6, LeaveStep
<1>7. ASSUME NEW r \in Requests, LogHandler(r) \/ LogUnwinds(r) \/ LogFinishes(r) PROVE NgxInv'
  BY <1>7, LogStep
<1> QED
  BY <1>1, <1>2, <1>3, <1>4, <1>5, <1>6, <1>7 DEF NgxNext

LEMMA NgxInvHolds == NgxSpec => [](TypeOK /\ NgxInv)
<1>1. NgxInit => NgxInv
  BY InitPlaces DEF NgxInv
<1>2. NgxSpec => []TypeOK
  BY NginxDrivesAgent, TypeCorrect, PTL
<1> QED
  BY <1>1, <1>2, StepNgxInv, PTL DEF NgxSpec

\* Every reachable state of the nginx module and of the agent below it is well
\* typed.
THEOREM NgxTypeCorrect == NgxSpec => []NgxTypeOK
<1>1. TypeOK /\ NgxInv => NgxTypeOK
  BY DEF NgxInv, PlacesOK, NgxTypeOK
<1> QED
  BY <1>1, NgxInvHolds, PTL

\* No handle, in a request's context or saved by a handler across a redirect,
\* outlives the request it names, however redirects nest and whatever the
\* agent refuses.
THEOREM HandlesStayLive == NgxSpec => []HandleIsLive
<1>1. TypeOK /\ NgxInv => HandleIsLive
  BY DEF NgxInv
<1> QED
  BY <1>1, NgxInvHolds, PTL

\* Under nginx too a span starts below an open one.
THEOREM NginxSpansStartBelowOpen ==
  ASSUME SharedThreads = FALSE \/ ExtractKeeps = FALSE
  PROVE  NgxSpec => ParentStillOpen
BY NginxDrivesAgent, SpansStartBelowOpen, PTL

-----------------------------------------------------------------------------
(* The call stack and the interactions.                                    *)

\* A handler above another runs in a redirect the lower one asked for, which
\* made the request internal.  So only the lowest handler can have an
\* interaction.
Nested(r) ==
  \A n \in 1..Len(calls[r]) :
    /\ n < Len(calls[r]) => calls[r][n].redirected
    /\ n > 1 => calls[r][n].internal
    /\ calls[r][n].redirected \/ calls[r][n].internal => internal[r]

\* While the lowest handler is on the stack, its interaction is the only one.
FirstHolds(r) ==
  calls[r] # <<>> /\ calls[r][1].handle /\ ~calls[r][1].internal =>
    active[r] = <<calls[r][1].span>>

\* From its redirect to its return the request has no handle.
FirstCleared(r) == calls[r] # <<>> /\ calls[r][1].redirected => ~handle[r]

\* Nothing moves while a handler runs.
TopKnows(r) ==
  InHandler(r) => Frame(r).handle = handle[r] /\ AtEntry(r, Frame(r).module)

NoneOpen(r) == calls[r] = <<>> /\ handle[r] /\ ~internal[r] => active[r] = <<>>

FreedBelow(r) ==
  at[r] = "freed" =>
    Len(calls[r]) = 1 /\ calls[r][1].module = "try_files" /\ calls[r][1].redirected

\* The index handler will put the handle back.
Restorable(r) ==
  /\ calls[r] # <<>>
  /\ calls[r][1].module = "index" /\ calls[r][1].redirected
  /\ calls[r][1].handle /\ ~calls[r][1].internal

Kept(r) == phase[r] = "live" /\ ~lost[r] => handle[r] \/ Restorable(r)

EndedOrLost(r) ==
  at[r] = "closed" => phase[r] \in {"new", "done"} \/ lost[r] \/ ~enabled[r]

CallsAt(r) ==
  /\ Nested(r) /\ FirstHolds(r) /\ FirstCleared(r) /\ TopKnows(r) /\ NoneOpen(r)
  /\ FreedBelow(r) /\ Kept(r) /\ EndedOrLost(r)

CallsInv == \A r \in Requests : CallsAt(r)

LEMMA OnlyOne ==
  ASSUME NEW n \in Nat, n >= 1, ~(n > 1)
  PROVE  n = 1
OBVIOUS

\* A handler that found the request not internal is the lowest.
LEMMA Lone ==
  ASSUME PlacesOK, NEW r \in Requests, Nested(r), calls[r] # <<>>, ~Frame(r).internal
  PROVE  Len(calls[r]) = 1 /\ Frame(r) = calls[r][1]
<1>1. PICK l \in Nat : l = Len(calls[r]) /\ l >= 1
  BY LastFrameType DEF PlacesOK
<1>2. l = 1
  <2>1. CASE l > 1
    <3>1. l \in 1..Len(calls[r]) /\ calls[r][l] = Frame(r)
      BY <1>1 DEF Frame
    <3> QED
      BY <2>1, <3>1 DEF Nested
  <2> QED
    BY <1>1, <2>1, OnlyOne
<1> QED
  BY <1>1, <1>2 DEF Frame

\* What otel_stopInteraction does to the interactions that are open.
LEMMA StopEffect ==
  ASSUME Bookkeeping, NEW r \in Requests, StopInteraction(r)
  PROVE  /\ phase' = phase
         /\ \A q \in Requests : q # r => active'[q] = active[q]
         /\ \A i : active[r] = <<i>> => active'[r] = <<>>
<1>1. phase' = phase
  BY StopIsStep
<1>2. CASE UNCHANGED vars /\ active[r] = <<>>
  BY <1>1, <1>2 DEF vars
<1>3. ASSUME active[r] # <<>>, NEW err \in Outcomes, EndInteraction(r, err)
      PROVE  /\ \A q \in Requests : q # r => active'[q] = active[q]
             /\ \A i : active[r] = <<i>> => active'[r] = <<>>
  <2>1. active' = [active EXCEPT ![r] = SubSeq(active[r], 1, Len(active[r]) - 1)]
    BY <1>3 DEF EndInteraction, DropInteraction
  <2>2. active'[r] = SubSeq(active[r], 1, Len(active[r]) - 1)
          /\ \A q \in Requests : q # r => active'[q] = active[q]
    BY <2>1 DEF Bookkeeping, TypeOK
  <2>3. ASSUME NEW i, active[r] = <<i>>
        PROVE  active'[r] = <<>>
    BY <2>2, <2>3
  <2> QED
    BY <2>2, <2>3
<1> QED
  BY <1>1, <1>2, <1>3 DEF StopInteraction

\* nginx's own steps outside the handlers.
LEMMA CoreCalls ==
  ASSUME Bookkeeping, PlacesOK, EndingInLog, NEW r \in Requests, CallsAt(r),
         Accept(r) \/ Advance(r) \/ Wait(r) \/ Resume(r) \/ Respond(r)
  PROVE  CallsAt(r)'
<1>1. /\ phase' = phase /\ active' = active /\ calls' = calls /\ internal' = internal
      /\ handle' = handle /\ lost' = lost /\ enabled' = enabled
  BY DEF Accept, Advance, Wait, Resume, Respond, vars
<1>2. ~InHandler(r)
  <2>1. Accept(r) \/ Resume(r) => Parked(r)
    BY DEF Accept, Resume, Idle
  <2> QED
    BY <2>1 DEF Advance, Wait, Respond, InCore, Parked, InHandler
<1>3. at'[r] \notin {"freed", "closed"}
  BY DEF Accept, Advance, Wait, Resume, Respond, PlacesOK, NextPhase, Waits, Phases
<1>4. /\ Nested(r)' /\ FirstHolds(r)' /\ FirstCleared(r)' /\ NoneOpen(r)' /\ Kept(r)'
      /\ ~InHandler(r)'
  BY <1>1, <1>2 DEF CallsAt, Nested, FirstHolds, FirstCleared, NoneOpen, Kept, Restorable,
                    InHandler, Frame
<1> QED
  BY <1>3, <1>4 DEF CallsAt, TopKnows, FreedBelow, EndedOrLost

\* error_page, a rewrite, and the end of a request in try_files.
LEMMA LooseCalls ==
  ASSUME Bookkeeping, PlacesOK, NEW r \in Requests, CallsAt(r),
         ErrorPage(r) \/ Rewritten(r) \/ FreeInTryFiles(r)
  PROVE  CallsAt(r)'
<1>1. phase' = phase /\ active' = active /\ calls' = calls
  BY DEF ErrorPage, Rewritten, FreeInTryFiles, vars
<1>2. CASE ErrorPage(r)
  <2>1. /\ internal'[r] /\ ~handle'[r] /\ at'[r] = "rewrite"
        /\ lost'[r] = (lost[r] \/ handle[r]) /\ ~InHandler(r)
    BY <1>2 DEF ErrorPage, Redirected, InCore, PlacesOK
  <2> QED
    BY <1>1, <2>1 DEF CallsAt, Nested, FirstHolds, FirstCleared, TopKnows, NoneOpen, FreedBelow,
                      Kept, Restorable, EndedOrLost, InHandler, Frame
<1>3. CASE Rewritten(r)
  <2>1. internal'[r] /\ handle' = handle /\ at' = at /\ lost' = lost /\ InHandler(r)
          /\ Frame(r).module = "rewrite"
    BY <1>3 DEF Rewritten, PlacesOK
  <2>2. at[r] \notin {"freed", "closed"}
    BY <2>1 DEF CallsAt, TopKnows, AtEntry
  <2> QED
    BY <1>1, <2>1, <2>2 DEF CallsAt, Nested, FirstHolds, FirstCleared, TopKnows, NoneOpen, FreedBelow,
                      Kept, Restorable, EndedOrLost, InHandler, Frame, AtEntry
<1>4. CASE FreeInTryFiles(r)
  <2>1. /\ UNCHANGED <<internal, handle, lost, enabled>> /\ at'[r] = "freed" /\ at[r] = "responded"
        /\ Len(calls[r]) = 1 /\ Frame(r).module = "try_files"
    BY <1>4 DEF FreeInTryFiles, PlacesOK
  <2>2. calls[r] # <<>> /\ Frame(r) = calls[r][1]
    <3>1. calls[r] # <<>>
      BY SMTT(20), <2>1
    <3> QED
      BY <2>1, <3>1 DEF Frame
  <2>3. ~InHandler(r)
    BY <2>1 DEF CallsAt, TopKnows, AtEntry, PhaseOf
  <2> QED
    BY <1>1, <2>1, <2>2, <2>3 DEF CallsAt, Nested, FirstHolds, FirstCleared, TopKnows, NoneOpen,
                      FreedBelow, Kept, Restorable, EndedOrLost, InHandler, Frame
<1> QED
  BY <1>2, <1>3, <1>4

LEMMA MonitorCalls ==
  ASSUME Bookkeeping, PlacesOK, NEW r \in Requests, CallsAt(r), Monitor(r)
  PROVE  CallsAt(r)'
<1>1. /\ UNCHANGED <<calls, internal, enabled, lost>> /\ at'[r] = "monitored"
      /\ ~internal[r] /\ InCore(r)
  BY DEF Monitor, PlacesOK
<1>2. calls[r] = <<>>
  <2>1. CASE calls[r] # <<>>
    <3>1. Len(calls[r]) \in 1..Len(calls[r]) /\ Frame(r).redirected
      BY <1>1, <2>1, LastFrameType DEF InCore, InHandler
    <3> QED
      BY <1>1, <3>1 DEF CallsAt, Nested, Frame
  <2> QED
    BY <2>1
<1>3. \/ UNCHANGED <<phase, active, handle>>
      \/ phase[r] = "new" /\ phase'[r] = "live" /\ active' = active /\ handle'[r]
  BY DEF Monitor, StartRequest, vars, PlacesOK, Bookkeeping, TypeOK
<1>4. phase[r] = "new" => active[r] = <<>>
  BY DEF Bookkeeping, ActiveInOrder
<1>5. Len(calls[r]) = 0
  BY <1>2
<1>6. /\ Nested(r)' /\ FirstHolds(r)' /\ FirstCleared(r)' /\ TopKnows(r)' /\ FreedBelow(r)'
      /\ EndedOrLost(r)'
  BY <1>1, <1>2, <1>5 DEF Nested, FirstHolds, FirstCleared, TopKnows, FreedBelow, EndedOrLost,
                          InHandler
<1>7. NoneOpen(r)' /\ Kept(r)'
  BY <1>1, <1>2, <1>3, <1>4 DEF CallsAt, NoneOpen, Kept, Restorable
<1> QED
  BY <1>6, <1>7 DEF CallsAt

\* A handler that redirects is lowest, or the handle was lost before.
LEMMA RedirectCalls ==
  ASSUME Bookkeeping, PlacesOK, NEW r \in Requests, CallsAt(r), HandlerRedirects(r)
  PROVE  CallsAt(r)'
<1> DEFINE k == Len(calls[r])
<1> DEFINE f == Frame(r)
<1>1. /\ phase' = phase /\ active' = active /\ internal'[r] /\ ~handle'[r] /\ at'[r] = "rewrite"
      /\ InHandler(r) /\ calls[r] # <<>>
      /\ f.module \in {"index", "try_files"}
      /\ lost'[r] = (lost[r] \/ (handle[r] /\ (f.module = "try_files" \/ f.internal)))
  BY DEF HandlerRedirects, Redirected, InHandler, vars, PlacesOK
<1>2. k \in 1..k /\ k \in Nat /\ calls[r][k] = f /\ f \in FrameType
  BY <1>1, LastFrameType DEF Frame, PlacesOK
<1>3. calls' = [calls EXCEPT ![r] = [calls[r] EXCEPT ![k] = [f EXCEPT !.redirected = TRUE]]]
  BY DEF HandlerRedirects, Frame
<1>4. f.handle = handle[r] /\ ~f.redirected
  BY <1>1 DEF CallsAt, TopKnows, InHandler
<1> HIDE DEF f
<1>5. /\ calls'[r] # <<>> /\ Len(calls'[r]) = k
      /\ \A n \in 1..k : n # k => calls'[r][n] = calls[r][n]
      /\ calls'[r][k] = [f EXCEPT !.redirected = TRUE]
  <2>1. calls[r] \in Seq(FrameType)
    BY DEF PlacesOK
  <2>2. calls'[r] = [calls[r] EXCEPT ![k] = [f EXCEPT !.redirected = TRUE]]
    BY <1>3 DEF PlacesOK
  <2>3. Len(calls'[r]) = k
    BY <2>1, <2>2
  <2> QED
    BY <1>2, <2>1, <2>2, <2>3
<1>6. \A n \in 1..k : /\ calls'[r][n].module = calls[r][n].module
                      /\ calls'[r][n].internal = calls[r][n].internal
                      /\ calls'[r][n].handle = calls[r][n].handle
                      /\ calls'[r][n].span = calls[r][n].span
                      /\ calls[r][n].redirected => calls'[r][n].redirected
                      /\ n = k => calls'[r][n].redirected
                      /\ n # k => calls'[r][n].redirected = calls[r][n].redirected
  BY <1>2, <1>5 DEF FrameType
<1>7. 1 \in 1..k
  BY <1>2
<1>8. Nested(r)'
  BY <1>1, <1>5, <1>6 DEF CallsAt, Nested
<1>9. FirstHolds(r)' /\ FirstCleared(r)' /\ NoneOpen(r)' /\ FreedBelow(r)' /\ EndedOrLost(r)'
  BY <1>1, <1>5, <1>6, <1>7 DEF CallsAt, FirstHolds, FirstCleared, NoneOpen, FreedBelow, EndedOrLost
<1>10. TopKnows(r)'
  BY <1>2, <1>5, <1>6 DEF TopKnows, InHandler, Frame
<1>11. Kept(r)'
  <2>1. CASE handle[r] /\ ~f.internal /\ f.module = "index"
    <3>1. k = 1 /\ f = calls[r][1]
      BY <1>1, <2>1, Lone DEF CallsAt, f
    <3>2. Restorable(r)'
      BY <1>4, <1>5, <1>6, <1>7, <2>1, <3>1 DEF Restorable
    <3> QED
      BY <3>2 DEF Kept
  <2>2. CASE handle[r] /\ (f.internal \/ f.module = "try_files")
    BY <1>1, <2>2 DEF Kept
  <2>3. CASE ~handle[r] /\ phase[r] = "live" /\ ~lost[r]
    <3>1. Restorable(r)
      BY <2>3 DEF CallsAt, Kept
    <3>2. Restorable(r)'
      BY <1>5, <1>6, <1>7, <3>1 DEF Restorable
    <3> QED
      BY <3>2 DEF Kept
  <2> QED
    BY <1>1, <2>1, <2>2, <2>3 DEF Kept
<1> QED
  BY <1>8, <1>9, <1>10, <1>11 DEF CallsAt

LEMMA EnterCalls ==
  ASSUME Bookkeeping, PlacesOK, NEW r \in Requests, NEW m \in Modules, CallsAt(r), Enter(r, m)
  PROVE  CallsAt(r)'
<1> DEFINE k == Len(calls[r])
<1> DEFINE i == Len(spans[r]) + 1
<1> DEFINE f == [module |-> m, internal |-> internal[r], handle |-> handle[r],
                 span |-> IF Traced(r) THEN i ELSE 0, redirected |-> FALSE]
<1>1. /\ UNCHANGED <<at, internal, handle, enabled, lost>>
      /\ InCore(r) /\ AtEntry(r, m)
      /\ calls' = [calls EXCEPT ![r] = Append(calls[r], f)]
  BY DEF Enter
<1>2. phase' = phase
  BY DEF Enter, StartInteraction, vars
<1>3. calls[r] \in Seq(FrameType) /\ k \in Nat /\ calls'[r] = Append(calls[r], f)
  BY <1>1 DEF PlacesOK
<1>4. f.module = m /\ f.internal = internal[r] /\ f.handle = handle[r] /\ ~f.redirected
  OBVIOUS
<1>5. Traced(r) => /\ active' = [active EXCEPT ![r] = Append(active[r], i)] /\ f.span = i
  BY DEF Enter, StartInteraction
<1>6. ~Traced(r) => active' = active
  BY DEF Enter, vars
<1> HIDE DEF f
<1>7. /\ Len(calls'[r]) = k + 1 /\ calls'[r] # <<>>
      /\ \A n \in 1..k : calls'[r][n] = calls[r][n]
      /\ calls'[r][k + 1] = f
  BY <1>3
<1>8. k > 0 => Frame(r).redirected /\ calls[r][k] = Frame(r) /\ internal[r]
  <2>1. SUFFICES ASSUME k > 0 PROVE Frame(r).redirected /\ calls[r][k] = Frame(r) /\ internal[r]
    OBVIOUS
  <2>2. calls[r] # <<>>
    BY <2>1
  <2>3. Frame(r).redirected
    BY <1>1, <2>2 DEF InCore, InHandler
  <2>4. k \in 1..k
    BY <1>3, <2>1
  <2> QED
    BY <2>3, <2>4 DEF CallsAt, Nested, Frame
<1>9. k = 0 <=> calls[r] = <<>>
  BY <1>3
<1>10. \A n \in 1..(k + 1) : n \in 1..k \/ n = k + 1
  BY <1>3
<1>11. Nested(r)'
  <2>1. SUFFICES ASSUME NEW n \in 1..(k + 1)
                 PROVE  /\ n < k + 1 => calls'[r][n].redirected
                        /\ n > 1 => calls'[r][n].internal
                        /\ calls'[r][n].redirected \/ calls'[r][n].internal => internal[r]
    BY <1>1, <1>7 DEF Nested
  <2>2. CASE n = k + 1
    BY <1>3, <1>4, <1>7, <1>8, <2>2
  <2>3. CASE n \in 1..k
    <3>1. n < k => calls[r][n].redirected
      BY <2>3 DEF CallsAt, Nested
    <3>2. n = k => calls[r][n].redirected
      BY <1>3, <1>8, <2>3
    <3>3. n < k \/ n = k
      BY <1>3, <2>3
    <3> QED
      BY <1>7, <2>3, <3>1, <3>2, <3>3 DEF CallsAt, Nested
  <2> QED
    BY <1>10, <2>2, <2>3
<1>12. FirstHolds(r)' /\ FirstCleared(r)'
  <2>1. CASE k = 0
    <3>1. calls'[r][1] = f
      BY <1>7, <2>1
    <3>2. Traced(r) => active'[r] = <<i>>
      <4>1. Traced(r) => active[r] = <<>>
        BY <1>9, <2>1 DEF CallsAt, NoneOpen, Traced
      <4>2. Traced(r) => active'[r] = Append(active[r], i)
        BY <1>5 DEF Bookkeeping, TypeOK
      <4> QED
        BY <4>1, <4>2
    <3> QED
      BY <1>4, <1>5, <3>1, <3>2 DEF FirstHolds, FirstCleared, Traced
  <2>2. CASE k > 0
    <3>1. calls'[r][1] = calls[r][1] /\ calls[r] # <<>>
      BY <1>3, <1>7, <2>2
    <3>2. ~Traced(r)
      BY <1>8, <2>2 DEF Traced
    <3> QED
      BY <1>1, <1>6, <3>1, <3>2 DEF CallsAt, FirstHolds, FirstCleared
  <2> QED
    BY <1>3, <2>1, <2>2
<1>13. TopKnows(r)'
  BY <1>1, <1>4, <1>7 DEF TopKnows, InHandler, Frame, AtEntry
<1>14. NoneOpen(r)' /\ FreedBelow(r)' /\ EndedOrLost(r)'
  <2>1. at[r] \notin {"freed", "closed"}
    BY <1>1 DEF AtEntry, PhaseOf, Modules
  <2> QED
    BY <1>1, <1>7, <2>1 DEF NoneOpen, FreedBelow, EndedOrLost
<1>15. Kept(r)'
  <2>1. Restorable(r) => Restorable(r)'
    <3>1. ASSUME Restorable(r) PROVE Restorable(r)'
      <4>1. calls[r] # <<>>
        BY <3>1 DEF Restorable
      <4>2. 1 \in 1..k
        BY <1>3, <1>9, <4>1
      <4> QED
        BY <1>7, <3>1, <4>2 DEF Restorable
    <3> QED
      BY <3>1
  <2> QED
    BY <1>1, <1>2, <2>1 DEF CallsAt, Kept
<1> QED
  BY <1>11, <1>12, <1>13, <1>14, <1>15 DEF CallsAt

\* A handler returns, and what is below it is in a redirect.
LEMMA PopCalls ==
  ASSUME PlacesOK, NEW r \in Requests, CallsAt(r), calls[r] # <<>>, Return(r)
  PROVE  /\ Nested(r)' /\ TopKnows(r)'
         /\ Len(calls[r]) = 1 => calls'[r] = <<>>
         /\ Len(calls[r]) # 1 =>
              /\ calls'[r] # <<>> /\ calls'[r][1] = calls[r][1] /\ Frame(r).internal
              /\ internal[r]
<1> DEFINE k == Len(calls[r])
<1>1. k \in Nat /\ k >= 1 /\ k \in 1..k
  BY LastFrameType DEF PlacesOK
<1>2. /\ Len(calls'[r]) = k - 1 /\ calls'[r] \in Seq(FrameType)
      /\ \A n \in 1..(k - 1) : n \in 1..k /\ calls'[r][n] = calls[r][n]
  BY ReturnType
<1>3. internal' = internal
  BY DEF Return
<1> HIDE DEF k
<1>4. Nested(r)'
  <2>1. SUFFICES ASSUME NEW n \in 1..(k - 1)
                 PROVE  /\ n < k - 1 => calls'[r][n].redirected
                        /\ n > 1 => calls'[r][n].internal
                        /\ calls'[r][n].redirected \/ calls'[r][n].internal => internal[r]
    BY <1>2, <1>3 DEF Nested
  <2>2. n \in 1..k /\ calls'[r][n] = calls[r][n] /\ (n < k - 1 => n < k)
    BY <1>1, <1>2
  <2> QED
    BY <2>2 DEF CallsAt, Nested, k
<1>5. TopKnows(r)'
  <2>1. CASE k = 1
    BY <1>2, <2>1 DEF TopKnows, InHandler
  <2>2. CASE k # 1
    <3>1. k - 1 \in 1..(k - 1) /\ k - 1 \in 1..k /\ k - 1 < k
      BY <1>1, <2>2
    <3>2. calls'[r][k - 1].redirected
      BY <1>2, <3>1 DEF CallsAt, Nested, k
    <3> QED
      BY <1>2, <3>2 DEF TopKnows, InHandler, Frame
  <2> QED
    BY <2>1, <2>2
<1>6. k = 1 => calls'[r] = <<>>
  BY <1>2
<1>7. k # 1 => /\ calls'[r] # <<>> /\ calls'[r][1] = calls[r][1] /\ Frame(r).internal
               /\ internal[r]
  <2>1. SUFFICES ASSUME k # 1
                 PROVE  /\ calls'[r] # <<>> /\ calls'[r][1] = calls[r][1] /\ Frame(r).internal
                        /\ internal[r]
    OBVIOUS
  <2>2. k > 1 /\ k \in 1..k /\ 1 \in 1..(k - 1)
    BY <1>1, <2>1
  <2>3. Frame(r).internal /\ internal[r]
    BY <2>2 DEF CallsAt, Nested, Frame, k
  <2> QED
    BY <1>2, <2>2, <2>3
<1> QED
  BY <1>4, <1>5, <1>6, <1>7 DEF k

\* What remains to be shown of a return: the effect on handle and interaction.
LEMMA ReturnCalls ==
  ASSUME PlacesOK, NEW r \in Requests, CallsAt(r), calls[r] # <<>>, Return(r),
         phase' = phase, lost' = lost,
         Len(calls[r]) # 1 => active' = active /\ handle' = handle,
         Len(calls[r]) = 1 => NoneOpen(r)' /\ (phase[r] = "live" /\ ~lost[r] => handle'[r]),
         at'[r] # "freed",
         EndedOrLost(r)'
  PROVE  CallsAt(r)'
<1>1. CASE Len(calls[r]) = 1
  <2>1. calls'[r] = <<>> /\ Nested(r)' /\ TopKnows(r)'
    BY <1>1, PopCalls
  <2>2. FirstHolds(r)' /\ FirstCleared(r)' /\ FreedBelow(r)'
    BY <2>1 DEF FirstHolds, FirstCleared, FreedBelow
  <2> QED
    BY <1>1, <2>1, <2>2 DEF CallsAt, Kept
<1>2. CASE Len(calls[r]) # 1
  <2>1. /\ calls'[r] # <<>> /\ calls'[r][1] = calls[r][1]
        /\ Nested(r)' /\ TopKnows(r)'
    BY <1>2, PopCalls
  <2>2. FirstHolds(r)' /\ FirstCleared(r)' /\ FreedBelow(r)' /\ NoneOpen(r)' /\ Kept(r)'
    BY <1>2, <2>1 DEF CallsAt, FirstHolds, FirstCleared, FreedBelow, NoneOpen, Kept, Restorable
  <2> QED
    BY <2>1, <2>2 DEF CallsAt
<1> QED
  BY <1>1, <1>2

\* The interaction that a handler which stops one finds is its own.
LEMMA OwnInteraction ==
  ASSUME PlacesOK, NEW r \in Requests, CallsAt(r), calls[r] # <<>>,
         \/ Leave(r) /\ Traced(r)
         \/ LeaveIndex(r) /\ Frame(r).handle
         \/ LeaveTryFiles(r) /\ handle[r]
         \/ LeaveTryFilesFreed(r) /\ Frame(r).handle /\ ~Frame(r).internal
  PROVE  Len(calls[r]) = 1 /\ active[r] = <<Frame(r).span>>
<1>1. Len(calls[r]) \in 1..Len(calls[r])
  BY LastFrameType
<1>2. ~Frame(r).internal
  <2>1. Traced(r) => ~Frame(r).internal
    BY <1>1 DEF Traced, CallsAt, Nested, Frame
  <2> QED
    BY <2>1 DEF LeaveIndex, LeaveTryFiles
<1>3. Len(calls[r]) = 1 /\ Frame(r) = calls[r][1]
  BY <1>2, Lone DEF CallsAt
<1>4. Frame(r).handle
  <2>1. CASE Leave(r) /\ Traced(r)
    <3>1. ~Frame(r).redirected
      BY <1>1, <2>1 DEF Traced, CallsAt, Nested, Frame
    <3> QED
      BY <2>1, <3>1 DEF Traced, CallsAt, TopKnows, InHandler
  <2>2. CASE LeaveTryFiles(r) /\ handle[r]
    BY <1>3, <2>2 DEF LeaveTryFiles, CallsAt, FirstCleared
  <2> QED
    BY <2>1, <2>2
<1> QED
  BY <1>2, <1>3, <1>4 DEF CallsAt, FirstHolds

LEMMA LeaveCalls ==
  ASSUME Bookkeeping, PlacesOK, EndingInLog, NEW r \in Requests, CallsAt(r),
         Leave(r) \/ LeaveIndex(r) \/ LeaveTryFiles(r) \/ LeaveTryFilesFreed(r)
  PROVE  CallsAt(r)'
<1>1. calls[r] # <<>> /\ Return(r) /\ lost' = lost /\ enabled' = enabled /\ internal' = internal
  BY DEF Leave, LeaveIndex, LeaveTryFiles, LeaveTryFilesFreed, Return
<1>2. phase' = phase
  BY StopIsStep DEF Leave, LeaveIndex, LeaveTryFiles, LeaveTryFilesFreed, vars
<1>3. 1 \in 1..Len(calls[r])
  BY <1>1, LastFrameType DEF PlacesOK
<1>4. Len(calls[r]) # 1 => Frame(r).internal /\ internal[r]
  BY <1>1, PopCalls
<1>5. Len(calls[r]) = 1 => Frame(r) = calls[r][1]
  BY DEF Frame
<1>6. CASE Leave(r)
  <2>1. handle' = handle /\ at'[r] \in {"access", at[r]}
    BY <1>6 DEF Leave, PlacesOK
  <2>2. at'[r] # "freed"
    <3>1. at[r] # "freed"
      BY <1>5, <1>6 DEF Leave, CallsAt, FreedBelow, Waits
    <3> QED
      BY <2>1, <3>1
  <2>3. EndedOrLost(r)'
    BY <1>1, <1>2, <2>1 DEF CallsAt, EndedOrLost
  <2>4. ~Traced(r) => active' = active
    BY <1>6 DEF Leave, Stops, vars
  <2>5. Len(calls[r]) # 1 => active' = active
    BY <1>4, <2>4 DEF Traced
  <2>6. Len(calls[r]) = 1 => NoneOpen(r)'
    <3>1. CASE Traced(r)
      <4>1. active[r] = <<Frame(r).span>> /\ StopInteraction(r)
        BY <1>1, <1>6, <3>1, OwnInteraction DEF Leave, Stops
      <4>2. active'[r] = <<>>
        BY <4>1, StopEffect
      <4> QED
        BY <4>2 DEF NoneOpen
    <3>2. CASE ~Traced(r)
      BY <1>1, <2>1, <3>2 DEF NoneOpen, Traced
    <3> QED
      BY <3>1, <3>2
  <2>7. Len(calls[r]) = 1 /\ phase[r] = "live" /\ ~lost[r] => handle[r]
    BY <1>5, <1>6 DEF Leave, CallsAt, Kept, Restorable
  <2> QED
    BY <1>1, <1>2, <2>1, <2>2, <2>3, <2>5, <2>6, <2>7, ReturnCalls
<1>7. ASSUME LeaveIndex(r) \/ LeaveTryFiles(r) \/ at[r] = "freed"
      PROVE  Len(calls[r]) = 1 /\ calls[r][1].redirected /\ ~handle[r] /\ internal[r]
  <2>1. LeaveIndex(r) \/ LeaveTryFiles(r) => Len(calls[r]) = 1 /\ Frame(r).redirected
    BY <1>4 DEF LeaveIndex, LeaveTryFiles
  <2>2. Len(calls[r]) = 1 /\ calls[r][1].redirected
    BY <1>5, <1>7, <2>1 DEF CallsAt, FreedBelow
  <2> QED
    BY <1>1, <1>3, <2>2 DEF CallsAt, FirstCleared, Nested
<1>8. CASE LeaveIndex(r)
  <2>1. /\ Len(calls[r]) = 1 /\ ~handle[r] /\ internal[r]
        /\ handle'[r] = Frame(r).handle /\ at' = at /\ at[r] \notin {"freed", "closed"}
    BY <1>7, <1>8 DEF LeaveIndex, PlacesOK, Waits
  <2>2. NoneOpen(r)'
    BY <1>1, <2>1 DEF NoneOpen
  <2>3. phase[r] = "live" /\ ~lost[r] => handle'[r]
    BY <1>5, <2>1 DEF CallsAt, Kept, Restorable
  <2>4. EndedOrLost(r)'
    BY <2>1 DEF EndedOrLost
  <2> QED
    BY <1>1, <1>2, <2>1, <2>2, <2>3, <2>4, ReturnCalls
<1>9. CASE LeaveTryFiles(r) \/ LeaveTryFilesFreed(r)
  <2>1. /\ Len(calls[r]) = 1 /\ ~handle[r] /\ internal[r]
        /\ handle' = handle /\ at'[r] # "freed"
    BY <1>7, <1>9 DEF LeaveTryFiles, LeaveTryFilesFreed, PlacesOK, Waits
  <2>2. NoneOpen(r)'
    BY <1>1, <2>1 DEF NoneOpen
  <2>3. calls[r][1].module = "try_files"
    BY <1>5, <1>9, <2>1 DEF LeaveTryFiles, LeaveTryFilesFreed, CallsAt, FreedBelow
  <2>4. ~(phase[r] = "live" /\ ~lost[r])
    BY <2>1, <2>3 DEF CallsAt, Kept, Restorable
  <2>5. phase[r] # "ending" /\ phase[r] \in {"new", "live", "ending", "done"}
    BY <1>1 DEF EndingInLog, Bookkeeping, TypeOK
  <2>6. EndedOrLost(r)'
    BY <1>1, <1>2, <2>4, <2>5 DEF EndedOrLost
  <2> QED
    BY <1>1, <1>2, <2>1, <2>2, <2>4, <2>6, ReturnCalls
<1> QED
  BY <1>6, <1>8, <1>9

LEMMA LogCalls ==
  ASSUME Bookkeeping, PlacesOK, EndingInLog, NEW r \in Requests, CallsAt(r),
         LogHandler(r) \/ LogUnwinds(r) \/ LogFinishes(r)
  PROVE  CallsAt(r)'
<1>1. calls[r] = <<>> /\ UNCHANGED <<calls, internal, enabled, lost>>
  BY DEF LogHandler, LogUnwinds, LogFinishes, ngx, EndingInLog, EndRequestUnwind, EndRequestFinish
<1>2. Len(calls[r]) = 0
  BY <1>1
<1>3. /\ Nested(r)' /\ FirstHolds(r)' /\ FirstCleared(r)' /\ TopKnows(r)'
  BY <1>1, <1>2 DEF Nested, FirstHolds, FirstCleared, TopKnows, InHandler
<1>4. CASE LogHandler(r)
  <2>1. /\ handle' = handle
        /\ \/ /\ at'[r] = "ending" /\ phase'[r] = "ending" /\ active' = active
           \/ /\ at'[r] = "closed" /\ phase' = phase /\ active' = active /\ ~(enabled[r] /\ handle[r])
    BY <1>4 DEF LogHandler, EndRequest, vars, PlacesOK, Bookkeeping, TypeOK
  <2>2. NoneOpen(r)' /\ FreedBelow(r)' /\ Kept(r)'
    BY <1>1, <2>1 DEF CallsAt, NoneOpen, FreedBelow, Kept, Restorable
  <2>3. phase[r] # "ending" /\ phase[r] \in {"new", "live", "ending", "done"}
    BY <1>4 DEF LogHandler, EndingInLog, Bookkeeping, TypeOK
  <2>4. EndedOrLost(r)'
    BY <1>1, <2>1, <2>3 DEF CallsAt, EndedOrLost, Kept, Restorable
  <2> QED
    BY <1>3, <2>2, <2>4 DEF CallsAt
<1>5. CASE LogUnwinds(r)
  <2>1. /\ UNCHANGED <<handle, at, phase>> /\ at[r] = "ending" /\ phase[r] = "ending"
        /\ active[r] # <<>>
    BY <1>5 DEF LogUnwinds, EndRequestUnwind, ngx
  <2> QED
    BY <1>1, <1>3, <2>1 DEF CallsAt, NoneOpen, FreedBelow, Kept, EndedOrLost
<1>6. CASE LogFinishes(r)
  <2>1. ~handle'[r] /\ at'[r] = "closed" /\ phase'[r] = "done"
    BY <1>6 DEF LogFinishes, EndRequestFinish, PlacesOK, Bookkeeping, TypeOK
  <2> QED
    BY <1>1, <1>3, <2>1 DEF CallsAt, NoneOpen, FreedBelow, Kept, EndedOrLost
<1> QED
  BY <1>4, <1>5, <1>6

\* A step for one request leaves the calls and interactions of the others alone.
LEMMA OthersCalls ==
  ASSUME Bookkeeping, PlacesOK, NEW r \in Requests, NEW q \in Requests, q # r, CallsAt(q),
         /\ \A p \in Requests : p # r => active'[p] = active[p] /\ phase'[p] = phase[p]
         /\ \A p \in Requests : p # r => at'[p] = at[p] /\ calls'[p] = calls[p]
         /\ \A p \in Requests : p # r => internal'[p] = internal[p] /\ handle'[p] = handle[p]
         /\ \A p \in Requests : p # r => enabled'[p] = enabled[p] /\ lost'[p] = lost[p]
  PROVE  CallsAt(q)'
<1>1. /\ active'[q] = active[q] /\ phase'[q] = phase[q] /\ at'[q] = at[q] /\ calls'[q] = calls[q]
      /\ internal'[q] = internal[q] /\ handle'[q] = handle[q]
      /\ enabled'[q] = enabled[q] /\ lost'[q] = lost[q]
  OBVIOUS
<1>2. Nested(q)' /\ FirstHolds(q)' /\ FirstCleared(q)' /\ NoneOpen(q)'
  BY <1>1 DEF CallsAt, Nested, FirstHolds, FirstCleared, NoneOpen
<1>3. TopKnows(q)' /\ FreedBelow(q)' /\ Kept(q)' /\ EndedOrLost(q)'
  BY <1>1 DEF CallsAt, TopKnows, InHandler, Frame, AtEntry, FreedBelow, Kept, Restorable, EndedOrLost
<1> QED
  BY <1>2, <1>3 DEF CallsAt

LEMMA AgentOfOthers ==
  ASSUME Bookkeeping, NEW r \in Requests,
         \/ UNCHANGED vars
         \/ \E b \in BOOLEAN : StartRequest(r, b)
         \/ StartInteraction(r) \/ StopInteraction(r)
         \/ EndRequest(r) \/ EndRequestUnwind(r) \/ \E err \in Outcomes : EndRequestFinish(r, err)
  PROVE  \A p \in Requests : p # r => active'[p] = active[p] /\ phase'[p] = phase[p]
<1>1. active \in [Requests -> Seq(Nat)] /\ phase \in [Requests -> {"new", "live", "ending", "done"}]
  BY DEF Bookkeeping, TypeOK
<1>2. CASE UNCHANGED vars
  BY <1>2 DEF vars
<1>3. CASE \E b \in BOOLEAN : StartRequest(r, b)
  BY <1>1, <1>3 DEF StartRequest
<1>4. CASE StartInteraction(r)
  BY <1>1, <1>4 DEF StartInteraction
<1>5. CASE StopInteraction(r)
  BY <1>5, StopEffect
<1>6. CASE EndRequest(r) \/ EndRequestUnwind(r) \/ \E err \in Outcomes : EndRequestFinish(r, err)
  BY <1>1, <1>6 DEF EndRequest, EndRequestUnwind, EndRequestFinish, DropInteraction
<1> QED
  BY <1>2, <1>3, <1>4, <1>5, <1>6

LEMMA InitCalls == NgxInit => CallsInv
<1>1. ASSUME NgxInit, NEW r \in Requests
      PROVE  /\ calls[r] = <<>> /\ at[r] = "new" /\ ~internal[r] /\ ~handle[r]
             /\ active[r] = <<>> /\ phase[r] = "new"
  BY <1>1 DEF NgxInit, Init
<1>2. ASSUME NgxInit, NEW r \in Requests
      PROVE  CallsAt(r)
  <2>1. Len(calls[r]) = 0
    BY <1>1, <1>2
  <2> QED
    BY <1>1, <1>2, <2>1 DEF CallsAt, Nested, FirstHolds, FirstCleared, TopKnows, InHandler, NoneOpen,
                            FreedBelow, Kept, EndedOrLost
<1> QED
  BY <1>2 DEF CallsInv

\* One step of the module for request r.
Handles(r) ==
  \/ Accept(r) \/ Advance(r) \/ Wait(r) \/ Resume(r) \/ Respond(r)
  \/ ErrorPage(r) \/ Rewritten(r) \/ HandlerRedirects(r) \/ FreeInTryFiles(r)
  \/ Monitor(r)
  \/ \E m \in Modules : Enter(r, m)
  \/ Leave(r) \/ LeaveIndex(r) \/ LeaveTryFiles(r) \/ LeaveTryFilesFreed(r)
  \/ LogHandler(r) \/ LogUnwinds(r) \/ LogFinishes(r)

LEMMA HandlesOne ==
  ASSUME Bookkeeping, PlacesOK, NEW r \in Requests, Handles(r)
  PROVE  /\ \A p \in Requests : p # r => active'[p] = active[p] /\ phase'[p] = phase[p]
         /\ \A p \in Requests : p # r => at'[p] = at[p] /\ calls'[p] = calls[p]
         /\ \A p \in Requests : p # r => internal'[p] = internal[p] /\ handle'[p] = handle[p]
         /\ \A p \in Requests : p # r => enabled'[p] = enabled[p] /\ lost'[p] = lost[p]
<1>1. CASE Accept(r) \/ Advance(r) \/ Wait(r) \/ Resume(r) \/ Respond(r)
  BY <1>1 DEF Accept, Advance, Wait, Resume, Respond, vars, PlacesOK
<1>2. CASE ErrorPage(r) \/ Rewritten(r) \/ HandlerRedirects(r) \/ FreeInTryFiles(r)
  BY <1>2 DEF ErrorPage, Rewritten, HandlerRedirects, FreeInTryFiles, Redirected, vars, PlacesOK
<1>3. CASE Monitor(r)
  <2>1. UNCHANGED vars \/ \E b \in BOOLEAN : StartRequest(r, b)
    BY <1>3 DEF Monitor, vars
  <2>2. /\ at' = [at EXCEPT ![r] = "monitored"] /\ UNCHANGED <<calls, internal, enabled, lost>>
        /\ handle' \in {handle, [handle EXCEPT ![r] = TRUE]}
    BY <1>3 DEF Monitor
  <2> QED
    BY <2>1, <2>2, AgentOfOthers DEF PlacesOK
<1>4. CASE \E m \in Modules : Enter(r, m)
  <2>1. UNCHANGED vars \/ StartInteraction(r)
    BY <1>4 DEF Enter
  <2> QED
    BY <1>4, <2>1, AgentOfOthers DEF Enter, PlacesOK
<1>5. CASE Leave(r) \/ LeaveIndex(r) \/ LeaveTryFiles(r) \/ LeaveTryFilesFreed(r)
  <2>1. UNCHANGED vars \/ StopInteraction(r)
    BY <1>5 DEF Leave, LeaveIndex, LeaveTryFiles, LeaveTryFilesFreed
  <2>2. /\ \A p \in Requests : p # r => at'[p] = at[p] /\ calls'[p] = calls[p]
        /\ \A p \in Requests : p # r => internal'[p] = internal[p] /\ handle'[p] = handle[p]
        /\ \A p \in Requests : p # r => enabled'[p] = enabled[p] /\ lost'[p] = lost[p]
    BY <1>5 DEF Leave, LeaveIndex, LeaveTryFiles, LeaveTryFilesFreed, Return, PlacesOK
  <2> QED
    BY <2>1, <2>2, AgentOfOthers
<1>6. CASE LogHandler(r) \/ LogUnwinds(r) \/ LogFinishes(r)
  <2>1. \/ UNCHANGED vars \/ EndRequest(r) \/ EndRequestUnwind(r)
        \/ \E err \in Outcomes : EndRequestFinish(r, err)
    BY <1>6 DEF LogHandler, LogUnwinds, LogFinishes
  <2>2. /\ \A p \in Requests : p # r => at'[p] = at[p] /\ calls'[p] = calls[p]
        /\ \A p \in Requests : p # r => internal'[p] = internal[p] /\ handle'[p] = handle[p]
        /\ \A p \in Requests : p # r => enabled'[p] = enabled[p] /\ lost'[p] = lost[p]
    BY <1>6 DEF LogHandler, LogUnwinds, LogFinishes, ngx, PlacesOK
  <2> QED
    BY <2>1, <2>2, AgentOfOthers
<1> QED
  BY <1>1, <1>2, <1>3, <1>4, <1>5, <1>6 DEF Handles

LEMMA OwnCalls ==
  ASSUME Bookkeeping, PlacesOK, EndingInLog, NEW r \in Requests, CallsAt(r), Handles(r)
  PROVE  CallsAt(r)'
<1>1. CASE Accept(r) \/ Advance(r) \/ Wait(r) \/ Resume(r) \/ Respond(r)
  BY <1>1, CoreCalls
<1>2. CASE ErrorPage(r) \/ Rewritten(r) \/ FreeInTryFiles(r)
  BY <1>2, LooseCalls
<1>3. CASE HandlerRedirects(r)
  BY <1>3, RedirectCalls
<1>4. CASE Monitor(r)
  BY <1>4, MonitorCalls
<1>5. ASSUME NEW m \in Modules, Enter(r, m) PROVE CallsAt(r)'
  BY <1>5, EnterCalls
<1>6. CASE Leave(r) \/ LeaveIndex(r) \/ LeaveTryFiles(r) \/ LeaveTryFilesFreed(r)
  BY <1>6, LeaveCalls
<1>7. CASE LogHandler(r) \/ LogUnwinds(r) \/ LogFinishes(r)
  BY <1>7, LogCalls
<1> QED
  BY <1>1, <1>2, <1>3, <1>4, <1>5, <1>6, <1>7 DEF Handles

CallsFacts == Bookkeeping /\ NgxInv /\ CallsInv

LEMMA StepCalls == CallsFacts /\ [NgxNext]_allVars => CallsInv'
<1> SUFFICES ASSUME CallsFacts, [NgxNext]_allVars, NEW q \in Requests PROVE CallsAt(q)'
  BY DEF CallsInv
<1> USE DEF CallsFacts, NgxInv
<1>1. CallsAt(q)
  BY DEF CallsInv
<1>2. CASE UNCHANGED allVars
  BY <1>1, <1>2 DEF allVars, vars, ngx, CallsAt, Nested, FirstHolds, FirstCleared, TopKnows, InHandler,
                    Frame, AtEntry, NoneOpen, FreedBelow, Kept, Restorable, EndedOrLost
<1>3. ASSUME NEW r \in Requests, Handles(r) PROVE CallsAt(q)'
  <2>1. CASE q = r
    BY <1>1, <1>3, <2>1, OwnCalls
  <2>2. CASE q # r
    BY <1>1, <1>3, <2>2, HandlesOne, OthersCalls
  <2> QED
    BY <2>1, <2>2
<1> QED
  BY <1>2, <1>3 DEF NgxNext, Handles

LEMMA CallsFactsHold == NgxSpec => []CallsFacts
<1>1. NgxSpec => []Bookkeeping
  BY NginxDrivesAgent, BookkeepingHolds, PTL
<1>2. Bookkeeping /\ (TypeOK /\ NgxInv) /\ CallsInv <=> CallsFacts
  BY DEF CallsFacts, Bookkeeping
<1> QED
  BY <1>1, <1>2, InitCalls, StepCalls, NgxInvHolds, PTL DEF NgxSpec

\* While a request is not internal, the interactions it has open are those of
\* the handlers on the call stack: whatever was redirected before, a handler
\* that returned stopped exactly what it had started.
THEOREM InteractionsFollowCalls == NgxSpec => []InteractionsMirrorCalls
<1>1. ASSUME CallsFacts, NEW r \in Requests, handle[r], ~internal[r]
      PROVE  /\ Len(active[r]) = Len(calls[r])
             /\ \A n \in 1..Len(active[r]) : calls[r][n].span = active[r][n]
  <2>1. CallsAt(r) /\ PlacesOK
    BY <1>1 DEF CallsFacts, CallsInv, NgxInv
  <2>2. CASE calls[r] = <<>>
    BY <1>1, <2>1, <2>2 DEF CallsAt, NoneOpen
  <2>3. CASE calls[r] # <<>>
    <3>1. Len(calls[r]) \in 1..Len(calls[r])
      BY <2>1, <2>3, LastFrameType
    <3>2. ~Frame(r).internal /\ ~Frame(r).redirected
      BY <1>1, <2>1, <3>1 DEF CallsAt, Nested, Frame
    <3>3. Len(calls[r]) = 1 /\ Frame(r) = calls[r][1]
      BY <2>1, <2>3, <3>2, Lone DEF CallsAt
    <3>4. Frame(r).handle
      BY <1>1, <2>1, <2>3, <3>2 DEF CallsAt, TopKnows, InHandler
    <3>5. active[r] = <<calls[r][1].span>>
      BY <2>1, <2>3, <3>2, <3>3, <3>4 DEF CallsAt, FirstHolds
    <3>6. Len(active[r]) = 1 /\ active[r][1] = calls[r][1].span
      BY <3>5
    <3> QED
      BY <3>3, <3>6
  <2> QED
    BY <2>2, <2>3
<1>2. CallsFacts => InteractionsMirrorCalls
  BY <1>1 DEF InteractionsMirrorCalls
<1> QED
  BY <1>2, CallsFactsHold, PTL

\* nginx closes a monitored request only after endRequest, unless a redirect
\* lost the handle for good or led to a location with the agent disabled.
THEOREM RequestsEnd == NgxSpec => []EndedUnlessLost
<1>1. CallsFacts => EndedUnlessLost
  BY DEF CallsFacts, CallsInv, CallsAt, EndedOrLost, EndedUnlessLost
<1> QED
  BY <1>1, CallsFactsHold, PTL

LEMMA StopsOwnStep ==
  ASSUME CallsFacts, [NgxNext]_allVars, NEW q \in Requests,
         phase[q] = "live", Len(active'[q]) < Len(active[q])
  PROVE  calls[q] # <<>> /\ Frame(q).span = active[q][Len(active[q])]
<1>1. Bookkeeping /\ PlacesOK /\ CallsAt(q) /\ active[q] \in Seq(Nat) /\ Len(active[q]) \in Nat
  BY DEF CallsFacts, CallsInv, NgxInv, Bookkeeping, TypeOK
<1>2. active'[q] # active[q]
  BY <1>1
<1>3. PICK r \in Requests : Handles(r)
  BY <1>2 DEF NgxNext, Handles, allVars, vars
<1>4. r = q
  BY <1>1, <1>2, <1>3, HandlesOne
<1>5. ~UNCHANGED vars
  BY <1>2 DEF vars
<1>6. ~\E m \in Modules : Enter(q, m)
  <2>1. SUFFICES ASSUME StartInteraction(q) PROVE FALSE
    BY <1>5 DEF Enter
  <2>2. active'[q] = Append(active[q], Len(spans[q]) + 1)
    BY <1>1, <2>1 DEF StartInteraction, Bookkeeping, TypeOK
  <2>3. Len(active'[q]) = Len(active[q]) + 1
    BY <1>1, <2>2
  <2> QED
    BY <1>1, <2>3
<1>7. ~Monitor(q)
  BY <1>2 DEF Monitor, StartRequest, vars
<1>8. ~(LogHandler(q) \/ LogUnwinds(q) \/ LogFinishes(q))
  BY <1>2 DEF LogHandler, EndRequest, LogUnwinds, EndRequestUnwind, LogFinishes, EndRequestFinish, vars
<1>9. Leave(q) \/ LeaveIndex(q) \/ LeaveTryFiles(q) \/ LeaveTryFilesFreed(q)
  BY <1>3, <1>4, <1>5, <1>6, <1>7, <1>8, NgxStepIsStep DEF Handles
<1>10. calls[q] # <<>>
  BY <1>9 DEF Leave, LeaveIndex, LeaveTryFiles, LeaveTryFilesFreed
<1>11. \/ Leave(q) /\ Traced(q)
       \/ LeaveIndex(q) /\ Frame(q).handle
       \/ LeaveTryFiles(q) /\ handle[q]
       \/ LeaveTryFilesFreed(q) /\ Frame(q).handle /\ ~Frame(q).internal
  BY <1>5, <1>9 DEF Leave, LeaveIndex, LeaveTryFiles, LeaveTryFilesFreed, Stops
<1>12. active[q] = <<Frame(q).span>>
  BY <1>1, <1>10, <1>11, OwnInteraction
<1>13. active[q][Len(active[q])] = Frame(q).span
  BY <1>12
<1> QED
  BY <1>10, <1>13

\* otel_stopInteraction ends whatever interaction is last in the request's
\* context: before the log phase this is the one of the handler that calls it.
THEOREM HandlersStopTheirOwn == NgxSpec => StopsItsOwn
<1>1. CallsFacts /\ [NgxNext]_allVars =>
        \A r \in Requests :
          phase[r] = "live" /\ Len(active'[r]) < Len(active[r]) =>
            calls[r] # <<>> /\ Frame(r).span = active[r][Len(active[r])]
  BY StopsOwnStep
<1> QED
  BY <1>1, CallsFactsHold, PTL DEF NgxSpec, StopsItsOwn
=============================================================================
