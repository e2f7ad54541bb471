---------------------- MODULE RequestProcessing_proofs ----------------------
(***************************************************************************)
(* For any number of threads, requests and interactions: when a thread     *)
(* serves one request at a time, a trace never mixes requests and an idle  *)
(* thread keeps no context.  The argument is the inductive invariant       *)
(* OwnContext: the thread's context stack is exactly the token, the root   *)
(* and the active interactions of the one request it serves.               *)
(***************************************************************************)
EXTENDS RequestProcessing, WellFoundedInduction, TLAPS

-----------------------------------------------------------------------------
(* What Detach does to a stack whose occurrences of the token are known.   *)

\* The last occurrence is the greatest element of the set.
LEMMA LastOfIsGreatest ==
  ASSUME NEW S \in SUBSET Nat, NEW m \in S, \A j \in S : j <= m
  PROVE  LastOf(S) = m
<1>1. LastOf(S) \in S /\ \A j \in S : j <= LastOf(S)
  BY DEF LastOf
<1>2. LastOf(S) <= m /\ m <= LastOf(S)
  BY <1>1
<1>3. LastOf(S) \in Nat /\ m \in Nat
  BY <1>1
<1> QED
  BY <1>2, <1>3

\* A non-empty set of indexes has a greatest element.
LEMMA GreatestExists ==
  ASSUME NEW n \in Nat, NEW S \in SUBSET (1..n), S # {}
  PROVE  \E m \in S : \A j \in S : j <= m
<1> DEFINE T == {n - j : j \in S}
<1>1. T \subseteq Nat /\ T # {}
  <2>1. \A j \in S : j \in 1..n /\ n - j \in Nat
    OBVIOUS
  <2>2. PICK j \in S : TRUE
    OBVIOUS
  <2>3. n - j \in T
    BY <2>2
  <2> QED
    BY <2>1, <2>3
<1>2. PICK k \in T : \A j \in T : ~ (<<j, k>> \in OpToRel(<, Nat))
  BY <1>1, NatLessThanWellFounded, WFMin
<1>3. PICK m \in S : k = n - m
  OBVIOUS
<1>4. ASSUME NEW j \in S
      PROVE  j <= m
  <2>1. n - j \in T /\ n - j \in Nat /\ n - m \in Nat
    BY <1>1
  <2>2. ~ (n - j < n - m)
    BY <1>2, <1>3, <2>1 DEF OpToRel
  <2>3. j \in Nat /\ m \in Nat
    OBVIOUS
  <2> QED
    BY <2>2, <2>3
<1> QED
  BY <1>4

\* What Detach leaves is a prefix of the stack it was given.
LEMMA DetachIsPrefix ==
  ASSUME NEW C, NEW stk \in Seq(C), NEW ctx
  PROVE  \E n \in 0..Len(stk) : Detach(stk, ctx) = SubSeq(stk, 1, n)
<1>1. CASE Occurrences(stk, ctx) = {}
  <2>1. Detach(stk, ctx) = SubSeq(stk, 1, Len(stk))
    BY <1>1 DEF Detach
  <2> QED
    BY <2>1
<1>2. CASE Occurrences(stk, ctx) # {}
  <2> DEFINE S == Occurrences(stk, ctx)
  <2>1. S \in SUBSET (1..Len(stk)) /\ S # {}
    BY <1>2 DEF Occurrences
  <2>0. Len(stk) \in Nat
    OBVIOUS
  <2> HIDE DEF S
  <2>2. PICK m \in S : \A j \in S : j <= m
    BY <2>0, <2>1, GreatestExists
  <2>3. LastOf(S) = m
    BY <2>1, <2>2, LastOfIsGreatest
  <2>4. m \in 1..Len(stk) /\ m - 1 \in 0..Len(stk)
    BY <2>1
  <2>5. Detach(stk, ctx) = SubSeq(stk, 1, m - 1)
    BY <1>2, <2>3 DEF Detach, S
  <2> QED
    BY <2>4, <2>5
<1> QED
  BY <1>1, <1>2

\* Detach keeps a stack a stack of the same contexts.
LEMMA DetachType ==
  ASSUME NEW C, NEW stk \in Seq(C), NEW ctx
  PROVE  Detach(stk, ctx) \in Seq(C)
<1>1. PICK n \in 0..Len(stk) : Detach(stk, ctx) = SubSeq(stk, 1, n)
  BY DetachIsPrefix
<1> QED
  BY <1>1

\* Detaching a context that is not on the stack changes nothing.
LEMMA DetachAbsent ==
  ASSUME NEW C, NEW stk \in Seq(C), NEW ctx, \A i \in 1..Len(stk) : stk[i] # ctx
  PROVE  Detach(stk, ctx) = stk
BY DEF Detach, Occurrences

\* Detaching the context on top pops it and nothing else.
LEMMA DetachOnTop ==
  ASSUME NEW C, NEW stk \in Seq(C), NEW ctx, stk # <<>>, stk[Len(stk)] = ctx
  PROVE  Detach(stk, ctx) = SubSeq(stk, 1, Len(stk) - 1)
<1>1. Len(stk) \in Occurrences(stk, ctx)
  BY DEF Occurrences
<1>2. Occurrences(stk, ctx) \in SUBSET Nat /\ \A j \in Occurrences(stk, ctx) : j <= Len(stk)
  BY DEF Occurrences
<1>3. LastOf(Occurrences(stk, ctx)) = Len(stk)
  BY <1>1, <1>2, LastOfIsGreatest
<1> QED
  BY <1>1, <1>3 DEF Detach

\* Detaching a context that only lies at the bottom empties the stack.
LEMMA DetachAtBottom ==
  ASSUME NEW C, NEW stk \in Seq(C), NEW ctx, stk # <<>>, stk[1] = ctx,
         \A i \in 2..Len(stk) : stk[i] # ctx
  PROVE  Detach(stk, ctx) = <<>>
<1>1. Occurrences(stk, ctx) = {1}
  BY DEF Occurrences
<1>2. LastOf(Occurrences(stk, ctx)) = 1
  BY <1>1, LastOfIsGreatest
<1> QED
  BY <1>1, <1>2 DEF Detach

\* Detach leaves no trace of a context that lies on the stack at most once.
LEMMA DetachRemoves ==
  ASSUME NEW C, NEW stk \in Seq(C), NEW ctx,
         \A i, j \in 1..Len(stk) : stk[i] = ctx /\ stk[j] = ctx => i = j
  PROVE  \E n \in 0..Len(stk) :
           /\ Detach(stk, ctx) = SubSeq(stk, 1, n)
           /\ \A i \in 1..n : stk[i] # ctx
<1>0. Len(stk) \in Nat
  OBVIOUS
<1>1. CASE Occurrences(stk, ctx) = {}
  <2>1. Detach(stk, ctx) = SubSeq(stk, 1, Len(stk))
    BY <1>1 DEF Detach
  <2> QED
    BY <1>0, <1>1, <2>1 DEF Occurrences
<1>2. CASE Occurrences(stk, ctx) # {}
  <2>1. PICK m \in 1..Len(stk) : stk[m] = ctx
    BY <1>2 DEF Occurrences
  <2>2. Occurrences(stk, ctx) = {m}
    BY <2>1 DEF Occurrences
  <2>3. LastOf(Occurrences(stk, ctx)) = m
    BY <1>0, <2>2, LastOfIsGreatest
  <2>4. Detach(stk, ctx) = SubSeq(stk, 1, m - 1)
    BY <1>2, <2>3 DEF Detach
  <2>5. m - 1 \in 0..Len(stk) /\ \A i \in 1..(m - 1) : i \in 1..Len(stk) /\ i # m
    BY <1>0
  <2> QED
    BY <2>1, <2>2, <2>4, <2>5 DEF Occurrences
<1> QED
  BY <1>1, <1>2

-----------------------------------------------------------------------------
(* The agent.                                                              *)

\* The status an operation sets is one of the three the SDK knows.
LEMMA StatusTypes ==
  ASSUME NEW err
  PROVE  RootStatus(err) \in Statuses /\ InteractionStatus(err) \in Statuses
BY DEF RootStatus, InteractionStatus, Statuses

LEMMA SpanOfType ==
  ASSUME NEW ctx \in ContextType
  PROVE  SpanOf(ctx) \in {NoSpan} \cup {Remote(r) : r \in Requests} \cup (Requests \X Nat)
BY DEF ContextType, SpanOf, EmptyContext

LEMMA TopType ==
  ASSUME NEW stk \in Seq(ContextType)
  PROVE  Top(stk) \in ContextType
BY DEF Top, ContextType

LEMMA NewSpanType ==
  ASSUME NEW ctx \in ContextType
  PROVE  NewSpan(SpanOf(ctx)) \in SpanType
BY SpanOfType DEF NewSpan, SpanType, Statuses

-----------------------------------------------------------------------------
(* Types and the numbering of interactions hold however requests share     *)
(* threads.                                                                *)

Bookkeeping == TypeOK /\ ActiveInOrder

LEMMA InitBookkeeping == Init => Bookkeeping
BY DEF Init, Bookkeeping, TypeOK, ActiveInOrder, ContextType

LEMMA StartRequestBookkeeping ==
  ASSUME Bookkeeping, NEW r \in Requests, NEW b \in BOOLEAN, StartRequest(r, b)
  PROVE  Bookkeeping'
<1> DEFINE t == home[r]
<1> DEFINE ctx == IF ExtractKeeps /\ ~b THEN Top(stack[t]) ELSE Extracted(r, b)
<1> USE DEF Bookkeeping
<1>1. t \in Threads /\ stack[t] \in Seq(ContextType)
  BY DEF TypeOK
<1>2. ctx \in ContextType
  <2>1. Top(stack[t]) \in ContextType
    BY <1>1, TopType
  <2>2. Extracted(r, b) \in ContextType
    BY DEF Extracted, ContextType
  <2> QED
    BY <2>1, <2>2
<1>3. Scoped(r, 1) \in ContextType
  BY DEF Scoped, ContextType
<1>4. NewSpan(SpanOf(ctx)) \in SpanType
  BY <1>2, NewSpanType
<1> HIDE DEF ctx
<1>5. /\ token' = [token EXCEPT ![r] = ctx]
      /\ spans' = [spans EXCEPT ![r] = <<NewSpan(SpanOf(ctx))>>]
      /\ stack' = [stack EXCEPT ![t] = Append(Append(@, ctx), Scoped(r, 1))]
      /\ phase' = [phase EXCEPT ![r] = "live"]
      /\ UNCHANGED <<home, active>>
      /\ phase[r] = "new"
  BY DEF StartRequest, ctx, Attach
<1>6. TypeOK'
  BY <1>1, <1>2, <1>3, <1>4, <1>5 DEF TypeOK
<1>7. ActiveInOrder'
  BY SMTT(20), <1>5 DEF ActiveInOrder, TypeOK
<1> QED
  BY <1>6, <1>7

LEMMA StartInteractionBookkeeping ==
  ASSUME Bookkeeping, NEW r \in Requests, StartInteraction(r)
  PROVE  Bookkeeping'
<1> DEFINE t == home[r]
<1> DEFINE i == Len(spans[r]) + 1
<1> DEFINE span == NewSpan(SpanOf(Top(stack[t])))
<1> USE DEF Bookkeeping
<1>1. t \in Threads /\ stack[t] \in Seq(ContextType) /\ spans[r] \in Seq(SpanType)
  BY DEF TypeOK
<1>2. span \in SpanType
  BY <1>1, TopType, NewSpanType
<1>3. i \in Nat /\ Scoped(r, i) \in ContextType
  BY <1>1 DEF Scoped, ContextType
<1> HIDE DEF span
<1>4. /\ spans' = [spans EXCEPT ![r] = Append(@, span)]
      /\ stack' = [stack EXCEPT ![t] = Append(@, Scoped(r, i))]
      /\ active' = [active EXCEPT ![r] = Append(@, i)]
      /\ UNCHANGED <<phase, home, token>>
      /\ phase[r] = "live"
  BY DEF StartInteraction, span, Attach
<1>5. TypeOK'
  BY <1>1, <1>2, <1>3, <1>4 DEF TypeOK
<1>6. ActiveInOrder'
  <2>1. spans[r] # <<>> /\ i > 1
    BY <1>1, <1>4 DEF ActiveInOrder
  <2>2. Len(spans'[r]) = i /\ spans'[r] # <<>>
    BY <1>1, <1>2, <1>4 DEF TypeOK
  <2>3. ASSUME NEW n \in 1..Len(active'[r])
        PROVE  active'[r][n] \in 2..i /\ (n <= Len(active[r]) => active'[r][n] < i)
    BY <1>3, <1>4, <2>1 DEF ActiveInOrder, TypeOK
  <2>4. \A n \in 1..Len(active[r]) : active'[r][n] = active[r][n]
    BY <1>3, <1>4 DEF TypeOK
  <2>5. active'[r][Len(active[r]) + 1] = i /\ Len(active'[r]) = Len(active[r]) + 1
    BY <1>3, <1>4 DEF TypeOK
  <2>6. ASSUME NEW m \in 1..Len(active'[r]), NEW n \in 1..Len(active'[r]), m < n
        PROVE  active'[r][m] < active'[r][n]
    <3>1. Len(active[r]) \in Nat
      BY DEF TypeOK
    <3>2. CASE n <= Len(active[r])
      <4>1. m \in 1..Len(active[r]) /\ n \in 1..Len(active[r])
        BY <2>5, <2>6, <3>1, <3>2
      <4>2. active[r][m] < active[r][n]
        BY <2>6, <4>1 DEF ActiveInOrder
      <4> QED
        BY <2>4, <4>1, <4>2
    <3>3. CASE n = Len(active[r]) + 1
      BY <2>3, <2>5, <2>6, <3>1, <3>3
    <3> QED
      BY <2>5, <3>1, <3>2, <3>3
  <2> QED
    BY SMTT(20), <1>4, <2>2, <2>3, <2>6 DEF ActiveInOrder, TypeOK
<1> QED
  BY <1>5, <1>6

\* The interaction that is dropped is one of the request's spans.
LEMMA LastInteractionType ==
  ASSUME Bookkeeping, NEW r \in Requests, active[r] # <<>>
  PROVE  /\ Len(active[r]) \in Nat \ {0}
         /\ active[r][Len(active[r])] \in 2..Len(spans[r])
         /\ LastInteraction(r) \in SpanType
<1>1. active[r] \in Seq(Nat) /\ spans[r] \in Seq(SpanType)
  BY DEF Bookkeeping, TypeOK
<1>2. Len(active[r]) \in Nat \ {0}
  BY <1>1
<1>3. active[r][Len(active[r])] \in 2..Len(spans[r])
  BY <1>2 DEF Bookkeeping, ActiveInOrder
<1> QED
  BY <1>1, <1>2, <1>3 DEF LastInteraction

LEMMA DropBookkeeping ==
  ASSUME Bookkeeping, NEW r \in Requests, NEW span \in SpanType,
         active[r] # <<>>, DropInteraction(r, span), UNCHANGED <<phase, home, token>>
  PROVE  Bookkeeping'
<1> DEFINE t == home[r]
<1> DEFINE l == Len(active[r])
<1> DEFINE i == active[r][l]
<1> USE DEF Bookkeeping
<1>1. l \in Nat \ {0} /\ i \in 2..Len(spans[r])
  BY LastInteractionType
<1>2. t \in Threads /\ stack[t] \in Seq(ContextType) /\ spans[r] \in Seq(SpanType)
  BY DEF TypeOK
<1>3. Detach(stack[t], Scoped(r, i)) \in Seq(ContextType)
  BY <1>2, DetachType
<1>4. /\ spans' = [spans EXCEPT ![r] = [spans[r] EXCEPT ![i] = span]]
      /\ stack' = [stack EXCEPT ![t] = Detach(stack[t], Scoped(r, i))]
      /\ active' = [active EXCEPT ![r] = SubSeq(active[r], 1, l - 1)]
  BY DEF DropInteraction
<1> HIDE DEF i
<1>5. [spans[r] EXCEPT ![i] = span] \in Seq(SpanType)
  BY <1>1, <1>2
<1>6. SubSeq(active[r], 1, l - 1) \in Seq(Nat)
  BY <1>1 DEF TypeOK
<1>7. TypeOK'
  BY <1>2, <1>3, <1>4, <1>5, <1>6 DEF TypeOK
<1>8. ActiveInOrder'
  <2>1. Len(spans'[r]) = Len(spans[r]) /\ (spans'[r] # <<>>)
    BY <1>1, <1>2, <1>4 DEF TypeOK
  <2>2. Len(active'[r]) = l - 1 /\ \A n \in 1..(l - 1) : active'[r][n] = active[r][n]
    <3>1. active'[r] = SubSeq(active[r], 1, l - 1) /\ active[r] \in Seq(Nat)
      BY <1>4 DEF TypeOK
    <3> QED
      BY <1>1, <3>1, <1>6
  <2>3. \A n \in 1..(l - 1) : n \in 1..l
    BY <1>1
  <2>4. phase[r] \notin {"new", "done"}
    BY DEF ActiveInOrder
  <2>5. \A q \in Requests : q # r => spans'[q] = spans[q] /\ active'[q] = active[q]
    BY <1>4 DEF TypeOK
  <2>6. \A n \in 1..Len(active'[r]) : active'[r][n] \in 2..Len(spans'[r])
    BY <2>1, <2>2, <2>3 DEF ActiveInOrder
  <2>7. \A m, n \in 1..Len(active'[r]) : m < n => active'[r][m] < active'[r][n]
    BY <2>2, <2>3 DEF ActiveInOrder
  <2> QED
    BY <2>1, <2>4, <2>5, <2>6, <2>7 DEF ActiveInOrder
<1> QED
  BY <1>7, <1>8

LEMMA EndRequestFinishBookkeeping ==
  ASSUME Bookkeeping, NEW r \in Requests, NEW err, EndRequestFinish(r, err)
  PROVE  Bookkeeping'
<1> DEFINE t == home[r]
<1> DEFINE root == [spans[r][1] EXCEPT !.status = RootStatus(err), !.ended = TRUE]
<1> DEFINE left == Detach(Detach(Detach(stack[t], token[r]), token[r]), Scoped(r, 1))
<1> USE DEF Bookkeeping
<1>1. /\ spans' = [spans EXCEPT ![r] = [spans[r] EXCEPT ![1] = root]]
      /\ stack' = [stack EXCEPT ![t] = left]
      /\ phase' = [phase EXCEPT ![r] = "done"]
      /\ UNCHANGED <<home, token, active>>
      /\ phase[r] = "ending" /\ active[r] = <<>>
  BY DEF EndRequestFinish
<1>2. t \in Threads /\ stack[t] \in Seq(ContextType) /\ spans[r] \in Seq(SpanType)
  BY DEF TypeOK
<1>3. left \in Seq(ContextType)
  <2>1. Detach(stack[t], token[r]) \in Seq(ContextType)
    BY <1>2, DetachType
  <2>2. Detach(Detach(stack[t], token[r]), token[r]) \in Seq(ContextType)
    BY <2>1, DetachType
  <2> QED
    BY <2>2, DetachType
<1>4. spans[r] # <<>>
  BY <1>1 DEF ActiveInOrder
<1>5. spans[r][1] \in SpanType
  BY <1>2, <1>4
<1>6. root \in SpanType
  BY <1>5, StatusTypes DEF SpanType
<1> HIDE DEF root, left
<1>7. /\ [spans[r] EXCEPT ![1] = root] \in Seq(SpanType)
      /\ [spans[r] EXCEPT ![1] = root] # <<>>
  <2>1. [spans[r] EXCEPT ![1] = root] \in Seq(SpanType)
    BY <1>2, <1>4, <1>6
  <2>2. Len([spans[r] EXCEPT ![1] = root]) = Len(spans[r]) /\ Len(spans[r]) # 0
    BY <1>2, <1>4, <1>6
  <2> QED
    BY <2>1, <2>2
<1>8. TypeOK'
  BY <1>1, <1>2, <1>3, <1>7 DEF TypeOK
<1>9. ActiveInOrder'
  <2>1. \A q \in Requests : q # r => spans'[q] = spans[q] /\ phase'[q] = phase[q]
    BY <1>1 DEF TypeOK
  <2>2. spans'[r] # <<>> /\ phase'[r] = "done" /\ active'[r] = <<>> /\ Len(active'[r]) = 0
    BY <1>1, <1>7 DEF TypeOK
  <2>3. ASSUME NEW q \in Requests, q # r
        PROVE  /\ active'[q] = active[q] /\ spans'[q] = spans[q] /\ phase'[q] = phase[q]
    BY <1>1, <2>1, <2>3
  <2> QED
    BY <2>2, <2>3 DEF ActiveInOrder
<1> QED
  BY <1>8, <1>9

LEMMA StepBookkeeping ==
  ASSUME Bookkeeping, [Next]_vars
  PROVE  Bookkeeping'
<1>1. CASE UNCHANGED vars
  BY <1>1 DEF Bookkeeping, TypeOK, ActiveInOrder, vars
<1>2. ASSUME NEW r \in Requests, NEW b \in BOOLEAN, StartRequest(r, b)
      PROVE  Bookkeeping'
  BY <1>2, StartRequestBookkeeping
<1>3. ASSUME NEW r \in Requests, StartInteraction(r)
      PROVE  Bookkeeping'
  BY <1>3, StartInteractionBookkeeping
<1>4. ASSUME NEW r \in Requests, NEW err \in Outcomes, EndInteraction(r, err)
      PROVE  Bookkeeping'
  <2> DEFINE span == [LastInteraction(r) EXCEPT !.status = InteractionStatus(err),
                                                !.ended = TRUE]
  <2>1. span \in SpanType
    BY <1>4, LastInteractionType, StatusTypes DEF EndInteraction, SpanType
  <2> QED
    BY <1>4, <2>1, DropBookkeeping DEF EndInteraction
<1>5. ASSUME NEW r \in Requests, EndRequest(r)
      PROVE  Bookkeeping'
  BY <1>5 DEF EndRequest, Bookkeeping, TypeOK, ActiveInOrder
<1>6. ASSUME NEW r \in Requests, EndRequestUnwind(r)
      PROVE  Bookkeeping'
  <2>1. Closed(LastInteraction(r)) \in SpanType
    BY <1>6, LastInteractionType DEF EndRequestUnwind, Closed, SpanType
  <2> QED
    BY <1>6, <2>1, DropBookkeeping DEF EndRequestUnwind
<1>7. ASSUME NEW r \in Requests, NEW err \in Outcomes, EndRequestFinish(r, err)
      PROVE  Bookkeeping'
  BY <1>7, EndRequestFinishBookkeeping
<1> QED
  BY <1>1, <1>2, <1>3, <1>4, <1>5, <1>6, <1>7 DEF Next

LEMMA BookkeepingHolds == Spec => []Bookkeeping
<1>1. Init => Bookkeeping
  BY InitBookkeeping
<1>2. Bookkeeping /\ [Next]_vars => Bookkeeping'
  BY StepBookkeeping
<1> QED
  BY <1>1, <1>2, PTL DEF Spec

\* Type correctness, for every layout of requests over threads.
THEOREM TypeCorrect == Spec => []TypeOK
<1>1. Bookkeeping => TypeOK
  BY DEF Bookkeeping
<1> QED
  BY <1>1, BookkeepingHolds, PTL

-----------------------------------------------------------------------------
(* One request at a time per thread.                                       *)

Confined == Bookkeeping /\ OwnContext

\* What a thread's stack is while it serves r.
LEMMA ServedStack ==
  ASSUME Confined, NEW r \in Requests, phase[r] \in {"live", "ending"}
  PROVE  /\ home[r] \in Threads
         /\ Unfinished(home[r]) = {r}
         /\ HoldsStackOf(home[r], r)
         /\ stack[home[r]] \in Seq(ContextType)
         /\ active[r] \in Seq(Nat)
         /\ spans[r] \in Seq(SpanType) /\ spans[r] # <<>>
<1>1. home[r] \in Threads /\ stack[home[r]] \in Seq(ContextType)
  BY DEF Confined, Bookkeeping, TypeOK
<1>2. r \in Unfinished(home[r])
  BY DEF Unfinished
<1>3. OwnAt(home[r])
  BY <1>1 DEF Confined, OwnContext, StackIsOwn
<1>4. Unfinished(home[r]) = {r} /\ HoldsStackOf(home[r], r)
  BY <1>2, <1>3 DEF OwnAt
<1> QED
  BY <1>1, <1>4 DEF Confined, Bookkeeping, TypeOK, ActiveInOrder

\* A step of r leaves the other threads' stacks to their own requests.
LEMMA OtherThreads ==
  ASSUME NEW r \in Requests, NEW t \in Threads, t # home[r], OwnAt(t),
         home' = home, stack'[t] = stack[t],
         \A q \in Requests : q # r => /\ phase'[q] = phase[q]
                                      /\ active'[q] = active[q]
                                      /\ token'[q] = token[q]
  PROVE  OwnAt(t)'
<1>1. Unfinished(t)' = Unfinished(t)
  BY DEF Unfinished
<1>2. ASSUME NEW q \in Requests, Unfinished(t) = {q}, HoldsStackOf(t, q)
      PROVE  HoldsStackOf(t, q)'
  <2>1. q # r
    BY <1>2 DEF Unfinished
  <2> QED
    BY <1>2, <2>1 DEF HoldsStackOf
<1> QED
  BY <1>1, <1>2 DEF OwnAt

LEMMA StartRequestConfined ==
  ASSUME Confined, SharedThreads = FALSE, NEW r \in Requests, NEW b \in BOOLEAN,
         StartRequest(r, b)
  PROVE  /\ OwnContext'
         /\ spans' = [spans EXCEPT ![r] = <<NewSpan(IF b THEN Remote(r) ELSE NoSpan)>>]
<1>0. PICK t \in Threads : t = home[r]
  BY DEF Confined, Bookkeeping, TypeOK
<1> DEFINE ctx == IF ExtractKeeps /\ ~b THEN Top(stack[t]) ELSE Extracted(r, b)
<1>1. phase[r] = "new" /\ Unfinished(t) = {} /\ active[r] = <<>>
  BY <1>0 DEF StartRequest, Confined, Bookkeeping, TypeOK, ActiveInOrder
<1>2. stack[t] = <<>>
  BY <1>1 DEF Confined, OwnContext, StackIsOwn, OwnAt
<1>3. ctx = IF ExtractKeeps /\ ~b THEN EmptyContext ELSE Extracted(r, b)
  BY <1>2 DEF Top
<1>4. SpanOf(ctx) = IF b THEN Remote(r) ELSE NoSpan
  BY <1>3 DEF SpanOf, Extracted, EmptyContext
<1>5. ctx[1] # "scope"
  BY <1>3 DEF Extracted, EmptyContext
<1> HIDE DEF ctx
<1>6. /\ token' = [token EXCEPT ![r] = ctx]
      /\ spans' = [spans EXCEPT ![r] = <<NewSpan(SpanOf(ctx))>>]
      /\ stack' = [stack EXCEPT ![t] = Append(Append(stack[t], ctx), Scoped(r, 1))]
      /\ phase' = [phase EXCEPT ![r] = "live"]
      /\ UNCHANGED <<home, active>>
  BY <1>0 DEF StartRequest, ctx, Attach
<1>7. Len(stack'[t]) = 2 /\ stack'[t][1] = ctx /\ stack'[t][2] = Scoped(r, 1)
  <2>1. stack'[t] = Append(Append(<<>>, ctx), Scoped(r, 1))
    BY <1>2, <1>6 DEF Confined, Bookkeeping, TypeOK
  <2> QED
    BY <2>1
<1>8. HoldsStackOf(t, r)'
  <2>1. token'[r] = ctx /\ Len(active'[r]) = 0
    BY <1>1, <1>6 DEF Confined, Bookkeeping, TypeOK
  <2> QED
    BY <1>7, <2>1 DEF HoldsStackOf
<1>9. Unfinished(t)' = {r}
  BY <1>0, <1>1, <1>6 DEF Unfinished, Confined, Bookkeeping, TypeOK
<1>10. ASSUME NEW u \in Threads, u # t
       PROVE  OwnAt(u)'
  <2>1. /\ OwnAt(u) /\ stack'[u] = stack[u] /\ home' = home
        /\ \A q \in Requests : q # r => /\ phase'[q] = phase[q]
                                        /\ active'[q] = active[q]
                                        /\ token'[q] = token[q]
    BY <1>0, <1>6, <1>10 DEF Confined, Bookkeeping, TypeOK, OwnContext, StackIsOwn
  <2> QED
    BY <1>0, <1>10, <2>1, OtherThreads
<1>11. StackIsOwn'
  <2>1. OwnAt(t)'
    BY <1>8, <1>9 DEF OwnAt
  <2> QED
    BY <2>1, <1>10 DEF StackIsOwn
<1>12. TokenIsNoScope'
  BY <1>5, <1>6 DEF TokenIsNoScope, Confined, OwnContext, Bookkeeping, TypeOK
<1> QED
  BY <1>4, <1>6, <1>11, <1>12 DEF OwnContext

\* An interaction starts below the newest open span of its own request.
LEMMA StartInteractionConfined ==
  ASSUME Confined, NEW r \in Requests, StartInteraction(r)
  PROVE  /\ OwnContext'
         /\ \E j \in 1..Len(spans[r]) :
              spans' = [spans EXCEPT ![r] = Append(@, NewSpan(<<r, j>>))]
<1>0. PICK t \in Threads : t = home[r]
  BY DEF Confined, Bookkeeping, TypeOK
<1> DEFINE l == Len(active[r])
<1> DEFINE i == Len(spans[r]) + 1
<1>1. /\ phase[r] = "live"
      /\ spans' = [spans EXCEPT ![r] = Append(@, NewSpan(SpanOf(Top(stack[t]))))]
      /\ stack' = [stack EXCEPT ![t] = Append(stack[t], Scoped(r, i))]
      /\ active' = [active EXCEPT ![r] = Append(active[r], i)]
      /\ UNCHANGED <<phase, home, token>>
  BY <1>0 DEF StartInteraction, Attach
<1>2. /\ Unfinished(t) = {r}
      /\ HoldsStackOf(t, r)
      /\ stack[t] \in Seq(ContextType)
      /\ active[r] \in Seq(Nat)
      /\ spans[r] \in Seq(SpanType) /\ spans[r] # <<>>
  BY <1>0, <1>1, ServedStack
<1>3. l \in Nat /\ Len(spans[r]) \in Nat \ {0} /\ i \in Nat
  BY <1>2
<1>4. PICK j \in 1..Len(spans[r]) : Top(stack[t]) = Scoped(r, j)
  <2>1. Len(stack[t]) = l + 2 /\ stack[t] # <<>> /\ Top(stack[t]) = stack[t][l + 2]
    BY <1>2, <1>3 DEF HoldsStackOf, Top
  <2>2. CASE l = 0
    <3>1. Top(stack[t]) = Scoped(r, 1)
      BY <1>2, <2>1, <2>2 DEF HoldsStackOf
    <3> QED
      BY <1>3, <3>1
  <2>3. CASE l # 0
    <3>1. l \in 1..l
      BY <1>3, <2>3
    <3>2. stack[t][l + 2] = Scoped(r, active[r][l])
      BY <1>2, <3>1 DEF HoldsStackOf
    <3>3. active[r][l] \in 2..Len(spans[r])
      BY <3>1 DEF Confined, Bookkeeping, ActiveInOrder
    <3>4. active[r][l] \in 1..Len(spans[r])
      BY <1>3, <3>3
    <3> QED
      BY <2>1, <3>2, <3>4
  <2> QED
    BY <2>2, <2>3
<1>5. SpanOf(Top(stack[t])) = <<r, j>>
  BY <1>4 DEF SpanOf, Scoped
<1>6. HoldsStackOf(t, r)'
  <2>1. /\ active'[r] = Append(active[r], i)
        /\ stack'[t] = Append(stack[t], Scoped(r, i))
        /\ token'[r] = token[r]
    BY <1>1 DEF Confined, Bookkeeping, TypeOK
  <2> HIDE DEF i
  <2>2. /\ Len(active'[r]) = l + 1 /\ active'[r][l + 1] = i
        /\ \A n \in 1..l : active'[r][n] = active[r][n]
    BY <1>2, <1>3, <2>1
  <2>3. Len(stack[t]) = l + 2
    BY <1>2 DEF HoldsStackOf
  <2>4. Scoped(r, i) \in ContextType
    BY <1>3 DEF Scoped, ContextType
  <2>5. /\ Len(stack'[t]) = l + 3 /\ stack'[t][l + 3] = Scoped(r, i)
        /\ \A n \in 1..(l + 2) : stack'[t][n] = stack[t][n]
    BY <1>2, <1>3, <2>1, <2>3, <2>4
  <2>6. stack'[t][1] = token'[r] /\ stack'[t][2] = Scoped(r, 1)
    BY <1>2, <1>3, <2>1, <2>5 DEF HoldsStackOf
  <2>7. ASSUME NEW n \in 1..(l + 1)
        PROVE  stack'[t][n + 2] = Scoped(r, active'[r][n])
    <3>1. CASE n = l + 1
      BY <1>3, <2>2, <2>5, <3>1
    <3>2. CASE n \in 1..l
      <4>1. n + 2 \in 1..(l + 2)
        BY <1>3, <3>2
      <4> QED
        BY <1>2, <2>2, <2>5, <3>2, <4>1 DEF HoldsStackOf
    <3> QED
      BY <1>3, <3>1, <3>2
  <2>8. Len(stack'[t]) = Len(active'[r]) + 2
    BY <1>3, <2>2, <2>5
  <2> QED
    BY <2>2, <2>6, <2>7, <2>8 DEF HoldsStackOf
<1>7. Unfinished(t)' = {r}
  BY <1>1, <1>2 DEF Unfinished
<1>8. ASSUME NEW u \in Threads, u # t
      PROVE  OwnAt(u)'
  <2>1. /\ OwnAt(u) /\ stack'[u] = stack[u] /\ home' = home
        /\ \A q \in Requests : q # r => /\ phase'[q] = phase[q]
                                        /\ active'[q] = active[q]
                                        /\ token'[q] = token[q]
    BY <1>1, <1>8 DEF Confined, Bookkeeping, TypeOK, OwnContext, StackIsOwn
  <2> QED
    BY <1>0, <1>8, <2>1, OtherThreads
<1>9. StackIsOwn'
  <2>1. OwnAt(t)'
    BY <1>6, <1>7 DEF OwnAt
  <2> QED
    BY <2>1, <1>8 DEF StackIsOwn
<1>10. TokenIsNoScope'
  BY <1>1 DEF TokenIsNoScope, Confined, OwnContext
<1> QED
  BY <1>1, <1>4, <1>5, <1>9, <1>10 DEF OwnContext

\* Dropping the last interaction pops its scope from the thread's stack.
LEMMA DropConfined ==
  ASSUME Confined, NEW r \in Requests, NEW span, phase[r] \in {"live", "ending"},
         active[r] # <<>>, DropInteraction(r, span), UNCHANGED <<phase, home, token>>
  PROVE  OwnContext'
<1>0. PICK t \in Threads : t = home[r]
  BY DEF Confined, Bookkeeping, TypeOK
<1> DEFINE l == Len(active[r])
<1> DEFINE i == active[r][l]
<1>1. /\ stack' = [stack EXCEPT ![t] = Detach(stack[t], Scoped(r, i))]
      /\ active' = [active EXCEPT ![r] = SubSeq(active[r], 1, l - 1)]
      /\ UNCHANGED <<phase, home, token>>
  BY <1>0 DEF DropInteraction
<1>2. /\ Unfinished(t) = {r}
      /\ HoldsStackOf(t, r)
      /\ stack[t] \in Seq(ContextType)
      /\ active[r] \in Seq(Nat)
  BY <1>0, ServedStack
<1>3. l \in Nat \ {0}
  BY <1>2
<1>4. Len(stack[t]) = l + 2 /\ stack[t] # <<>> /\ stack[t][l + 2] = Scoped(r, i)
  <2>1. l \in 1..l
    BY <1>3
  <2>2. Len(stack[t]) = l + 2 /\ stack[t][l + 2] = Scoped(r, i)
    BY <1>2, <2>1 DEF HoldsStackOf
  <2>3. stack[t] # <<>>
    BY <1>2, <1>3, <2>2
  <2> QED
    BY <2>2, <2>3
<1>5. stack'[t] = SubSeq(stack[t], 1, l + 1)
  <2>1. Detach(stack[t], Scoped(r, i)) = SubSeq(stack[t], 1, Len(stack[t]) - 1)
    BY <1>2, <1>4, DetachOnTop
  <2>2. Len(stack[t]) - 1 = l + 1
    BY <1>3, <1>4
  <2> QED
    BY <1>1, <2>1, <2>2 DEF Confined, Bookkeeping, TypeOK
<1>6. Len(stack'[t]) = l + 1 /\ \A n \in 1..(l + 1) : stack'[t][n] = stack[t][n]
  BY <1>2, <1>3, <1>4, <1>5
<1>7. Len(active'[r]) = l - 1 /\ \A n \in 1..(l - 1) : active'[r][n] = active[r][n]
  <2>1. active'[r] = SubSeq(active[r], 1, l - 1)
    BY <1>1 DEF Confined, Bookkeeping, TypeOK
  <2> QED
    BY <1>2, <1>3, <2>1
<1>8. HoldsStackOf(t, r)'
  <2>1. Len(stack'[t]) = Len(active'[r]) + 2
    BY <1>3, <1>6, <1>7
  <2>2. stack'[t][1] = token'[r] /\ stack'[t][2] = Scoped(r, 1)
    BY SMTT(20), <1>1, <1>2, <1>3, <1>6 DEF HoldsStackOf
  <2>3. ASSUME NEW n \in 1..(l - 1)
        PROVE  stack'[t][n + 2] = Scoped(r, active'[r][n])
    <3>1. n \in 1..l /\ n + 2 \in 1..(l + 1)
      BY <1>3
    <3> QED
      BY <1>2, <1>6, <1>7, <3>1 DEF HoldsStackOf
  <2> QED
    BY <1>7, <2>1, <2>2, <2>3 DEF HoldsStackOf
<1>9. Unfinished(t)' = {r}
  BY <1>1, <1>2 DEF Unfinished
<1>10. ASSUME NEW u \in Threads, u # t
       PROVE  OwnAt(u)'
  <2>1. /\ OwnAt(u) /\ stack'[u] = stack[u] /\ home' = home
        /\ \A q \in Requests : q # r => /\ phase'[q] = phase[q]
                                        /\ active'[q] = active[q]
                                        /\ token'[q] = token[q]
    BY <1>1, <1>10 DEF Confined, Bookkeeping, TypeOK, OwnContext, StackIsOwn
  <2> QED
    BY <1>0, <1>10, <2>1, OtherThreads
<1>11. StackIsOwn'
  <2>1. OwnAt(t)'
    BY <1>8, <1>9 DEF OwnAt
  <2> QED
    BY <2>1, <1>10 DEF StackIsOwn
<1>12. TokenIsNoScope'
  BY <1>1 DEF TokenIsNoScope, Confined, OwnContext
<1> QED
  BY <1>11, <1>12 DEF OwnContext

LEMMA EndRequestConfined ==
  ASSUME Confined, NEW r \in Requests, EndRequest(r)
  PROVE  OwnContext'
<1>1. /\ phase[r] = "live"
      /\ phase' = [phase EXCEPT ![r] = "ending"]
      /\ UNCHANGED <<stack, home, token, active>>
  BY DEF EndRequest
<1>2. ASSUME NEW t \in Threads
      PROVE  Unfinished(t)' = Unfinished(t)
  BY <1>1 DEF Unfinished, Confined, Bookkeeping, TypeOK
<1>3. ASSUME NEW t \in Threads
      PROVE  OwnAt(t)'
  BY <1>1, <1>2 DEF OwnAt, HoldsStackOf, Confined, OwnContext, StackIsOwn
<1> QED
  BY <1>1, <1>3 DEF OwnContext, StackIsOwn, TokenIsNoScope, Confined

\* The end of a request empties its thread's stack: the token lies at the
\* bottom, so its first detach pops the root's scope with it.
LEMMA EndRequestFinishConfined ==
  ASSUME Confined, NEW r \in Requests, NEW err, EndRequestFinish(r, err)
  PROVE  OwnContext'
<1>0. PICK t \in Threads : t = home[r]
  BY DEF Confined, Bookkeeping, TypeOK
<1> DEFINE left == Detach(Detach(Detach(stack[t], token[r]), token[r]), Scoped(r, 1))
<1>1. /\ stack' = [stack EXCEPT ![t] = left]
      /\ phase' = [phase EXCEPT ![r] = "done"]
      /\ UNCHANGED <<home, token, active>>
      /\ phase[r] = "ending" /\ active[r] = <<>>
  BY <1>0 DEF EndRequestFinish
<1>2. /\ Unfinished(t) = {r}
      /\ HoldsStackOf(t, r)
      /\ stack[t] \in Seq(ContextType)
  BY <1>0, <1>1, ServedStack
<1>3. Len(stack[t]) = 2 /\ stack[t][1] = token[r] /\ stack[t][2] = Scoped(r, 1)
  BY <1>1, <1>2 DEF HoldsStackOf
<1>4. token[r][1] # "scope"
  BY DEF Confined, OwnContext, TokenIsNoScope
<1>5. Scoped(r, 1) # token[r]
  BY <1>4 DEF Scoped
<1>6. Detach(stack[t], token[r]) = <<>>
  BY <1>2, <1>3, <1>5, DetachAtBottom
<1>7. \A ctx : Detach(<<>>, ctx) = <<>>
  BY DEF Detach, Occurrences
<1>8. left = <<>>
  BY <1>6, <1>7
<1> HIDE DEF left
<1>9. stack'[t] = <<>>
  BY <1>1, <1>8 DEF Confined, Bookkeeping, TypeOK
<1>10. Unfinished(t)' = {}
  BY <1>0, <1>1, <1>2 DEF Unfinished, Confined, Bookkeeping, TypeOK
<1>11. ASSUME NEW u \in Threads, u # t
       PROVE  OwnAt(u)'
  <2>1. /\ OwnAt(u) /\ stack'[u] = stack[u] /\ home' = home
        /\ \A q \in Requests : q # r => /\ phase'[q] = phase[q]
                                        /\ active'[q] = active[q]
                                        /\ token'[q] = token[q]
    BY <1>1, <1>11 DEF Confined, Bookkeeping, TypeOK, OwnContext, StackIsOwn
  <2> QED
    BY <1>0, <1>11, <2>1, OtherThreads
<1>12. StackIsOwn'
  <2>1. OwnAt(t)'
    BY <1>9, <1>10 DEF OwnAt
  <2> QED
    BY <2>1, <1>11 DEF StackIsOwn
<1>13. TokenIsNoScope'
  BY <1>1 DEF TokenIsNoScope, Confined, OwnContext
<1> QED
  BY <1>12, <1>13 DEF OwnContext

LEMMA InitConfined == Init => Confined /\ OwnAncestry
<1> SUFFICES ASSUME Init
             PROVE  Confined /\ OwnAncestry
  OBVIOUS
<1>1. \A t \in Threads : Unfinished(t) = {} /\ stack[t] = <<>>
  BY DEF Init, Unfinished
<1>2. OwnContext
  BY <1>1 DEF Init, OwnContext, StackIsOwn, OwnAt, TokenIsNoScope, EmptyContext
<1>3. OwnAncestry
  BY DEF Init, OwnAncestry
<1> QED
  BY <1>2, <1>3, InitBookkeeping DEF Confined

\* A span that is rewritten keeps its place in the trace.
LEMMA SameParents ==
  ASSUME OwnAncestry, NEW r \in Requests, spans \in [Requests -> Seq(SpanType)],
         NEW i \in 1..Len(spans[r]), NEW span,
         span.parent = spans[r][i].parent,
         spans' = [spans EXCEPT ![r] = [spans[r] EXCEPT ![i] = span]]
  PROVE  OwnAncestry'
<1>1. ASSUME NEW q \in Requests
      PROVE  /\ Len(spans'[q]) = Len(spans[q])
             /\ \A k \in 1..Len(spans[q]) : spans'[q][k].parent = spans[q][k].parent
  <2>1. CASE q = r
    <3>1. spans'[r] = [spans[r] EXCEPT ![i] = span] /\ spans[r] \in Seq(SpanType)
      OBVIOUS
    <3>2. Len(spans'[r]) = Len(spans[r])
      BY <3>1
    <3>3. \A k \in 1..Len(spans[r]) : spans'[r][k] = IF k = i THEN span ELSE spans[r][k]
      BY <3>1
    <3> QED
      BY <2>1, <3>2, <3>3
  <2>2. CASE q # r
    BY <2>2
  <2> QED
    BY <2>1, <2>2
<1>2. ASSUME NEW q \in Requests, NEW k \in 1..Len(spans'[q])
      PROVE  HasOwnParent(q, k)'
  <2>1. k \in 1..Len(spans[q]) /\ spans'[q][k].parent = spans[q][k].parent
    BY <1>1
  <2>2. HasOwnParent(q, k)
    BY <2>1 DEF OwnAncestry
  <2> QED
    BY <2>1, <2>2 DEF HasOwnParent
<1> QED
  BY <1>2 DEF OwnAncestry

LEMMA StepConfined ==
  ASSUME Confined, OwnAncestry, SharedThreads = FALSE, [Next]_vars
  PROVE  Confined' /\ OwnAncestry'
<1>0. Bookkeeping' /\ spans \in [Requests -> Seq(SpanType)]
  BY StepBookkeeping DEF Confined, Bookkeeping, TypeOK
<1> SUFFICES OwnContext' /\ OwnAncestry'
  BY <1>0 DEF Confined
<1>1. CASE UNCHANGED vars
  <2>1. /\ stack' = stack /\ phase' = phase /\ home' = home
        /\ token' = token /\ active' = active /\ spans' = spans
    BY <1>1 DEF vars
  <2>2. \A t \in Threads : OwnAt(t)' <=> OwnAt(t)
    BY <2>1 DEF OwnAt, HoldsStackOf, Unfinished
  <2>3. OwnContext'
    BY <2>1, <2>2 DEF Confined, OwnContext, StackIsOwn, TokenIsNoScope
  <2> QED
    BY <2>1, <2>3 DEF OwnAncestry, HasOwnParent
<1>2. ASSUME NEW r \in Requests, NEW b \in BOOLEAN, StartRequest(r, b)
      PROVE  OwnContext' /\ OwnAncestry'
  <2> DEFINE root == NewSpan(IF b THEN Remote(r) ELSE NoSpan)
  <2>1. OwnContext' /\ spans' = [spans EXCEPT ![r] = <<root>>]
    BY <1>2, StartRequestConfined
  <2>2. root.parent \in {Remote(r), NoSpan}
    BY DEF NewSpan
  <2> HIDE DEF root
  <2>3. /\ Len(spans'[r]) = 1 /\ spans'[r][1] = root
        /\ \A q \in Requests : q # r => spans'[q] = spans[q]
    BY <1>0, <2>1
  <2>4. ASSUME NEW q \in Requests, NEW i \in 1..Len(spans'[q])
        PROVE  HasOwnParent(q, i)'
    <3>1. CASE q = r
      <4>1. Len(spans'[q]) = 1 /\ spans'[q][1] = root
        BY <2>3, <3>1
      <4>2. i = 1
        BY <4>1
      <4> QED
        BY <2>2, <3>1, <4>1, <4>2 DEF HasOwnParent
    <3>2. CASE q # r
      <4>1. spans'[q] = spans[q]
        BY <2>3, <3>2
      <4>2. HasOwnParent(q, i)
        BY <4>1 DEF OwnAncestry
      <4> QED
        BY <4>1, <4>2 DEF HasOwnParent
    <3> QED
      BY <3>1, <3>2
  <2> QED
    BY <2>1, <2>4 DEF OwnAncestry
<1>3. ASSUME NEW r \in Requests, StartInteraction(r)
      PROVE  OwnContext' /\ OwnAncestry'
  <2>1. OwnContext' /\ spans[r] # <<>>
    BY <1>3, StartInteractionConfined, ServedStack DEF StartInteraction
  <2>2. PICK j \in 1..Len(spans[r]) :
          spans' = [spans EXCEPT ![r] = Append(@, NewSpan(<<r, j>>))]
    BY <1>3, StartInteractionConfined
  <2> DEFINE span == NewSpan(<<r, j>>)
  <2>3. span.parent = <<r, j>>
    BY DEF NewSpan
  <2> HIDE DEF span
  <2>4. /\ spans'[r] = Append(spans[r], span) /\ spans[r] \in Seq(SpanType)
        /\ \A q \in Requests : q # r => spans'[q] = spans[q]
    BY <1>0, <2>2 DEF span
  <2>5. /\ Len(spans'[r]) = Len(spans[r]) + 1 /\ spans'[r][Len(spans[r]) + 1] = span
        /\ \A k \in 1..Len(spans[r]) : spans'[r][k] = spans[r][k]
        /\ Len(spans[r]) \in Nat \ {0}
    BY <2>1, <2>4
  <2>6. ASSUME NEW q \in Requests, NEW i \in 1..Len(spans'[q])
        PROVE  HasOwnParent(q, i)'
    <3>1. CASE q # r
      <4>1. spans'[q] = spans[q]
        BY <2>4, <3>1
      <4>2. HasOwnParent(q, i)
        BY <4>1 DEF OwnAncestry
      <4> QED
        BY <4>1, <4>2 DEF HasOwnParent
    <3>2. CASE q = r /\ i \in 1..Len(spans[r])
      <4>1. spans'[r][i] = spans[r][i]
        BY <2>5, <3>2
      <4>2. HasOwnParent(r, i)
        BY <3>2 DEF OwnAncestry
      <4> QED
        BY <3>2, <4>1, <4>2 DEF HasOwnParent
    <3>3. CASE q = r /\ i = Len(spans[r]) + 1
      <4>1. i # 1 /\ j \in 1..(i - 1)
        BY <2>5, <3>3
      <4>2. spans'[q][i].parent = <<q, j>>
        BY <2>3, <2>5, <3>3
      <4> QED
        BY <4>1, <4>2 DEF HasOwnParent
    <3> QED
      BY <2>5, <3>1, <3>2, <3>3
  <2> QED
    BY <2>1, <2>6 DEF OwnAncestry
<1>4. ASSUME NEW r \in Requests, NEW span, active[r] # <<>>,
             span.parent = LastInteraction(r).parent, DropInteraction(r, span)
      PROVE  OwnAncestry'
  <2> DEFINE i == active[r][Len(active[r])]
  <2>1. i \in 1..Len(spans[r])
    <3>1. i \in 2..Len(spans[r]) /\ Len(spans[r]) \in Nat
      BY <1>0, <1>4, LastInteractionType DEF Confined
    <3> QED
      BY <3>1
  <2>2. spans' = [spans EXCEPT ![r] = [spans[r] EXCEPT ![i] = span]]
    BY <1>4 DEF DropInteraction
  <2>3. span.parent = spans[r][i].parent
    BY <1>4 DEF LastInteraction
  <2> HIDE DEF i
  <2> QED
    BY <1>0, <2>1, <2>2, <2>3, SameParents
<1>5. ASSUME NEW r \in Requests, NEW err \in Outcomes, EndInteraction(r, err)
      PROVE  OwnContext' /\ OwnAncestry'
  <2> DEFINE span == [LastInteraction(r) EXCEPT !.status = InteractionStatus(err),
                                                !.ended = TRUE]
  <2>1. active[r] # <<>> /\ DropInteraction(r, span) /\ phase[r] = "live"
        /\ UNCHANGED <<phase, home, token>>
    BY <1>5 DEF EndInteraction
  <2>2. span.parent = LastInteraction(r).parent
    BY <2>1, LastInteractionType DEF Confined, SpanType
  <2> HIDE DEF span
  <2> QED
    BY <1>4, <2>1, <2>2, DropConfined
<1>6. ASSUME NEW r \in Requests, EndRequest(r)
      PROVE  OwnContext' /\ OwnAncestry'
  <2>1. spans' = spans
    BY <1>6 DEF EndRequest
  <2> QED
    BY <1>6, <2>1, EndRequestConfined DEF OwnAncestry, HasOwnParent
<1>7. ASSUME NEW r \in Requests, EndRequestUnwind(r)
      PROVE  OwnContext' /\ OwnAncestry'
  <2> DEFINE span == Closed(LastInteraction(r))
  <2>1. active[r] # <<>> /\ DropInteraction(r, span) /\ phase[r] = "ending"
        /\ UNCHANGED <<phase, home, token>>
    BY <1>7 DEF EndRequestUnwind
  <2>2. span.parent = LastInteraction(r).parent
    BY <2>1, LastInteractionType DEF Confined, SpanType, Closed
  <2> HIDE DEF span
  <2> QED
    BY <1>4, <2>1, <2>2, DropConfined
<1>8. ASSUME NEW r \in Requests, NEW err \in Outcomes, EndRequestFinish(r, err)
      PROVE  OwnContext' /\ OwnAncestry'
  <2> DEFINE root == [spans[r][1] EXCEPT !.status = RootStatus(err), !.ended = TRUE]
  <2>1. spans' = [spans EXCEPT ![r] = [spans[r] EXCEPT ![1] = root]] /\ phase[r] = "ending"
    BY <1>8 DEF EndRequestFinish
  <2>2. spans[r] \in Seq(SpanType) /\ spans[r] # <<>>
    BY <2>1, ServedStack
  <2>3. 1 \in 1..Len(spans[r]) /\ spans[r][1] \in SpanType
    BY <2>2
  <2>4. root.parent = spans[r][1].parent
    BY <2>3 DEF SpanType
  <2> HIDE DEF root
  <2>5. OwnAncestry'
    BY <1>0, <2>1, <2>3, <2>4, SameParents
  <2> QED
    BY <1>8, <2>5, EndRequestFinishConfined
<1> QED
  BY <1>1, <1>2, <1>3, <1>5, <1>6, <1>7, <1>8 DEF Next

LEMMA ConfinedHolds ==
  ASSUME SharedThreads = FALSE
  PROVE  Spec => [](Confined /\ OwnAncestry)
<1>1. Confined /\ OwnAncestry /\ [Next]_vars => (Confined /\ OwnAncestry)'
  BY StepConfined
<1> QED
  BY <1>1, InitConfined, PTL DEF Spec

\* Served one at a time, requests never share a trace: every interaction
\* hangs below an older span of its own request (SdkWrapper::CreateSpan takes
\* the parent from the thread, whatever the request).
THEOREM TracesStayApart ==
  ASSUME SharedThreads = FALSE
  PROVE  Spec => []OwnAncestry
BY ConfinedHolds, PTL

\* Served one at a time, requests leave their thread's context stack as they
\* found it, although endRequest detaches the token twice and the root's
\* scope after it.
THEOREM ThreadsEndClean ==
  ASSUME SharedThreads = FALSE
  PROVE  Spec => []IdleThreadIsClean
<1>1. Confined => IdleThreadIsClean
  BY DEF Confined, OwnContext, StackIsOwn, OwnAt, IdleThreadIsClean
<1> QED
  BY <1>1, ConfinedHolds, PTL

\* Served one at a time, a request finds on its thread's context stack its own
\* token, root and active interactions, and nothing that another request left
\* there.
THEOREM ContextStaysOwn ==
  ASSUME SharedThreads = FALSE
  PROVE  Spec => []OwnContext
<1>1. Confined => OwnContext
  BY DEF Confined
<1> QED
  BY <1>1, ConfinedHolds, PTL

-----------------------------------------------------------------------------
(* What is open is known, and what is closed stays as it is, however       *)
(* requests share threads.                                                 *)

Tracked(r, i) ==
  ~spans[r][i].ended <=>
    \/ i = 1 /\ phase[r] \in {"live", "ending"}
    \/ \E n \in 1..Len(active[r]) : active[r][n] = i

\* The spans of all requests but one are as they were.
LEMMA OthersTracked ==
  ASSUME TypeOK, OpenSpansAreTracked, NEW r \in Requests, NEW q \in Requests, q # r,
         spans'[q] = spans[q], phase'[q] = phase[q], active'[q] = active[q]
  PROVE  \A i \in 1..Len(spans'[q]) : Tracked(q, i)'
BY SMTT(20) DEF OpenSpansAreTracked, Tracked

\* An interaction that is dropped is the only span whose state changes.
LEMMA DropTracked ==
  ASSUME Bookkeeping, OpenSpansAreTracked, NEW r \in Requests, NEW span \in SpanType,
         span.ended, active[r] # <<>>, DropInteraction(r, span), UNCHANGED phase
  PROVE  OpenSpansAreTracked'
<1> DEFINE l == Len(active[r])
<1> DEFINE i == active[r][l]
<1>1. l \in Nat \ {0} /\ i \in 2..Len(spans[r])
  BY LastInteractionType
<1>2. spans[r] \in Seq(SpanType) /\ active[r] \in Seq(Nat)
  BY DEF Bookkeeping, TypeOK
<1>3. /\ spans' = [spans EXCEPT ![r] = [spans[r] EXCEPT ![i] = span]]
      /\ active' = [active EXCEPT ![r] = SubSeq(active[r], 1, l - 1)]
  BY DEF DropInteraction
<1>4. \A n \in 1..(l - 1) : active[r][n] < i /\ n \in 1..l
  BY SMTT(20), <1>1 DEF Bookkeeping, ActiveInOrder
<1> HIDE DEF i
<1>5. /\ Len(spans'[r]) = Len(spans[r])
      /\ \A k \in 1..Len(spans[r]) : spans'[r][k] = IF k = i THEN span ELSE spans[r][k]
  BY <1>2, <1>3 DEF Bookkeeping, TypeOK
<1>6. Len(active'[r]) = l - 1 /\ \A n \in 1..(l - 1) : active'[r][n] = active[r][n]
  <2>1. active'[r] = SubSeq(active[r], 1, l - 1)
    BY <1>3 DEF Bookkeeping, TypeOK
  <2> QED
    BY <1>1, <1>2, <2>1
<1>7. ASSUME NEW k \in 1..Len(spans'[r])
      PROVE  Tracked(r, k)'
  <2>1. k \in 1..Len(spans[r]) /\ Len(spans[r]) \in Nat
    BY <1>2, <1>5
  <2>2. CASE k = i
    <3>1. spans'[r][k].ended
      BY <1>5, <2>1, <2>2
    <3>2. ASSUME NEW n \in 1..Len(active'[r])
          PROVE  active'[r][n] # k
      <4>1. n \in 1..(l - 1) /\ active'[r][n] = active[r][n]
        BY <1>6
      <4>2. active[r][n] < i /\ n \in 1..l
        BY <1>4, <4>1
      <4>3. active[r][n] \in Nat
        BY <1>2, <4>2
      <4>4. i \in Nat
        BY <1>1, <1>2
      <4> HIDE DEF l
      <4> QED
        BY <2>2, <4>1, <4>2, <4>3, <4>4
    <3> QED
      BY <1>1, <2>2, <3>1, <3>2 DEF Tracked
  <2>3. CASE k # i
    <3>1. spans'[r][k] = spans[r][k] /\ Tracked(r, k)
      BY <1>5, <2>1, <2>3 DEF OpenSpansAreTracked, Tracked
    <3>2. (\E n \in 1..l : active[r][n] = k) <=> (\E n \in 1..(l - 1) : active'[r][n] = k)
      <4>1. ASSUME NEW n \in 1..l, active[r][n] = k
            PROVE  n \in 1..(l - 1) /\ active'[r][n] = k
        <5>1. n # l
          BY <2>3, <4>1 DEF i
        <5> QED
          BY <1>1, <1>6, <4>1, <5>1
      <4>2. ASSUME NEW n \in 1..(l - 1), active'[r][n] = k
            PROVE  n \in 1..l /\ active[r][n] = k
        BY <1>1, <1>6, <4>2
      <4> QED
        BY <4>1, <4>2
    <3> QED
      BY <1>6, <3>1, <3>2 DEF Tracked
  <2> QED
    BY <2>2, <2>3
<1>8. ASSUME NEW q \in Requests, q # r
      PROVE  spans'[q] = spans[q] /\ phase'[q] = phase[q] /\ active'[q] = active[q]
  BY <1>3, <1>8 DEF Bookkeeping, TypeOK
<1>9. \A q \in Requests : q # r => \A k \in 1..Len(spans'[q]) : Tracked(q, k)'
  BY <1>8, OthersTracked DEF Bookkeeping
<1>10. \A q \in Requests : \A k \in 1..Len(spans'[q]) : Tracked(q, k)'
  BY <1>7, <1>9
<1> QED
  BY <1>10 DEF OpenSpansAreTracked, Tracked

LEMMA StepTracked ==
  ASSUME Bookkeeping, OpenSpansAreTracked, [Next]_vars
  PROVE  OpenSpansAreTracked'
<1> USE DEF Bookkeeping
<1>1. CASE UNCHANGED vars
  BY <1>1 DEF vars, OpenSpansAreTracked
<1>2. ASSUME NEW r \in Requests, NEW b \in BOOLEAN, StartRequest(r, b)
      PROVE  OpenSpansAreTracked'
  <2>1. PICK s : spans' = [spans EXCEPT ![r] = <<NewSpan(s)>>]
    BY <1>2 DEF StartRequest
  <2>2. /\ phase' = [phase EXCEPT ![r] = "live"] /\ active' = active
        /\ phase[r] = "new" /\ active[r] = <<>>
    BY <1>2 DEF StartRequest, ActiveInOrder
  <2>3. Len(spans'[r]) = 1 /\ spans'[r][1] = NewSpan(s) /\ phase'[r] = "live"
    BY <2>1, <2>2 DEF TypeOK
  <2>4. \A i \in 1..Len(spans'[r]) : Tracked(r, i)'
    BY <2>3 DEF Tracked, NewSpan
  <2>5. \A q \in Requests : q # r => \A i \in 1..Len(spans'[q]) : Tracked(q, i)'
    BY <2>1, <2>2, OthersTracked DEF TypeOK
  <2>6. \A q \in Requests : \A i \in 1..Len(spans'[q]) : Tracked(q, i)'
    BY <2>4, <2>5
  <2> QED
    BY <2>6 DEF OpenSpansAreTracked, Tracked
<1>3. ASSUME NEW r \in Requests, StartInteraction(r)
      PROVE  OpenSpansAreTracked'
  <2> DEFINE span == NewSpan(SpanOf(Top(stack[home[r]])))
  <2> DEFINE i == Len(spans[r]) + 1
  <2>1. /\ spans' = [spans EXCEPT ![r] = Append(@, span)]
        /\ active' = [active EXCEPT ![r] = Append(@, i)]
        /\ phase' = phase /\ phase[r] = "live"
    BY <1>3 DEF StartInteraction
  <2>2. ~span.ended
    BY DEF NewSpan
  <2> HIDE DEF span
  <2>3. spans[r] \in Seq(SpanType) /\ active[r] \in Seq(Nat) /\ spans[r] # <<>>
    BY <2>1 DEF TypeOK, ActiveInOrder
  <2>4. /\ Len(spans[r]) \in Nat \ {0} /\ Len(spans'[r]) = i /\ spans'[r][i] = span
        /\ \A k \in 1..Len(spans[r]) : spans'[r][k] = spans[r][k]
    BY <2>1, <2>3 DEF TypeOK
  <2>5. /\ Len(active[r]) \in Nat /\ Len(active'[r]) = Len(active[r]) + 1
        /\ active'[r][Len(active[r]) + 1] = i
        /\ \A n \in 1..Len(active[r]) : active'[r][n] = active[r][n]
    BY <2>1, <2>3 DEF TypeOK
  <2>6. ASSUME NEW k \in 1..Len(spans'[r])
        PROVE  Tracked(r, k)'
    <3>1. CASE k = i
      <4>1. Len(active[r]) + 1 \in 1..Len(active'[r])
        BY <2>5
      <4>2. k # 1
        BY <2>4, <3>1
      <4> QED
        BY <2>2, <2>4, <2>5, <3>1, <4>1, <4>2 DEF Tracked
    <3>2. CASE k \in 1..Len(spans[r])
      <4>1. spans'[r][k] = spans[r][k] /\ Tracked(r, k)
        BY <2>4, <3>2 DEF OpenSpansAreTracked, Tracked
      <4>2. k # i
        BY <2>4, <3>2
      <4>3. (\E n \in 1..Len(active[r]) : active[r][n] = k)
              <=> (\E n \in 1..Len(active'[r]) : active'[r][n] = k)
        <5>1. ASSUME NEW n \in 1..Len(active'[r]), active'[r][n] = k
              PROVE  n \in 1..Len(active[r]) /\ active[r][n] = k
          BY SMTT(20), <2>5, <4>2, <5>1
        <5>2. ASSUME NEW n \in 1..Len(active[r]), active[r][n] = k
              PROVE  n \in 1..Len(active'[r]) /\ active'[r][n] = k
          BY <2>5, <5>2
        <5> QED
          BY <5>1, <5>2
      <4> QED
        BY <2>1, <4>1, <4>3 DEF Tracked
    <3> QED
      BY <2>4, <3>1, <3>2
  <2>7. \A q \in Requests : q # r => \A k \in 1..Len(spans'[q]) : Tracked(q, k)'
    BY <2>1, OthersTracked DEF TypeOK
  <2>8. \A q \in Requests : \A k \in 1..Len(spans'[q]) : Tracked(q, k)'
    BY <2>6, <2>7
  <2> QED
    BY <2>8 DEF OpenSpansAreTracked, Tracked
<1>4. ASSUME NEW r \in Requests, NEW err \in Outcomes, EndInteraction(r, err)
      PROVE  OpenSpansAreTracked'
  <2> DEFINE span == [LastInteraction(r) EXCEPT !.status = InteractionStatus(err),
                                                !.ended = TRUE]
  <2>1. span \in SpanType /\ span.ended
    BY <1>4, LastInteractionType, StatusTypes DEF EndInteraction, SpanType
  <2>2. active[r] # <<>> /\ DropInteraction(r, span) /\ UNCHANGED phase
    BY <1>4 DEF EndInteraction
  <2> QED
    BY <2>1, <2>2, DropTracked
<1>5. ASSUME NEW r \in Requests, EndRequest(r)
      PROVE  OpenSpansAreTracked'
  <2>1. /\ spans' = spans /\ active' = active
        /\ \A q \in Requests : phase'[q] \in {"live", "ending"} <=> phase[q] \in {"live", "ending"}
    BY <1>5 DEF EndRequest, TypeOK
  <2> QED
    BY <2>1 DEF OpenSpansAreTracked
<1>6. ASSUME NEW r \in Requests, EndRequestUnwind(r)
      PROVE  OpenSpansAreTracked'
  <2> DEFINE span == Closed(LastInteraction(r))
  <2>1. span \in SpanType /\ span.ended
    BY <1>6, LastInteractionType DEF EndRequestUnwind, Closed, SpanType
  <2>2. active[r] # <<>> /\ DropInteraction(r, span) /\ UNCHANGED phase
    BY <1>6 DEF EndRequestUnwind
  <2> QED
    BY <2>1, <2>2, DropTracked
<1>7. ASSUME NEW r \in Requests, NEW err \in Outcomes, EndRequestFinish(r, err)
      PROVE  OpenSpansAreTracked'
  <2> DEFINE root == [spans[r][1] EXCEPT !.status = RootStatus(err), !.ended = TRUE]
  <2>1. /\ spans' = [spans EXCEPT ![r] = [spans[r] EXCEPT ![1] = root]]
        /\ phase' = [phase EXCEPT ![r] = "done"] /\ active' = active
        /\ phase[r] = "ending" /\ active[r] = <<>>
    BY <1>7 DEF EndRequestFinish
  <2>2. spans[r] \in Seq(SpanType) /\ Len(spans[r]) \in Nat \ {0} /\ 1 \in 1..Len(spans[r])
    BY <2>1 DEF TypeOK, ActiveInOrder
  <2>3. root.ended
    BY <2>2 DEF SpanType
  <2> HIDE DEF root
  <2>4. /\ Len(spans'[r]) = Len(spans[r]) /\ phase'[r] = "done" /\ Len(active'[r]) = 0
        /\ \A k \in 1..Len(spans[r]) : spans'[r][k] = IF k = 1 THEN root ELSE spans[r][k]
    BY <2>1, <2>2 DEF TypeOK
  <2>5. ASSUME NEW k \in 1..Len(spans'[r])
        PROVE  Tracked(r, k)'
    <3>1. Tracked(r, k)
      BY <2>4 DEF OpenSpansAreTracked, Tracked
    <3>2. spans'[r][k].ended
      BY <2>1, <2>3, <2>4, <3>1 DEF Tracked
    <3> QED
      BY <2>4, <3>2 DEF Tracked
  <2>6. \A q \in Requests : q # r => \A k \in 1..Len(spans'[q]) : Tracked(q, k)'
    BY <2>1, OthersTracked DEF TypeOK
  <2>7. \A q \in Requests : \A k \in 1..Len(spans'[q]) : Tracked(q, k)'
    BY <2>5, <2>6
  <2> QED
    BY <2>7 DEF OpenSpansAreTracked, Tracked
<1> QED
  BY <1>1, <1>2, <1>3, <1>4, <1>5, <1>6, <1>7 DEF Next

\* Whatever requests share a thread, the spans still open are the root of an
\* unfinished request and the interactions in its RequestContext: endRequest
\* closes what a hook left open.
THEOREM OpenSpansAreKnown == Spec => []OpenSpansAreTracked
<1>1. Init => OpenSpansAreTracked
  BY DEF Init, OpenSpansAreTracked
<1>2. Bookkeeping /\ OpenSpansAreTracked /\ [Next]_vars => OpenSpansAreTracked'
  BY StepTracked
<1> QED
  BY <1>1, <1>2, BookkeepingHolds, PTL DEF Spec

KeepsClosed ==
  \A r \in Requests : \A i \in 1..Len(spans[r]) :
    spans[r][i].ended => spans'[r][i] = spans[r][i]

\* A step that rewrites one span, which is open, leaves the closed ones alone.
LEMMA RewriteKeepsClosed ==
  ASSUME TypeOK, NEW r \in Requests, NEW i \in 1..Len(spans[r]), NEW span,
         ~spans[r][i].ended, spans' = [spans EXCEPT ![r] = [spans[r] EXCEPT ![i] = span]]
  PROVE  KeepsClosed
<1>1. ASSUME NEW q \in Requests, NEW k \in 1..Len(spans[q]), spans[q][k].ended
      PROVE  spans'[q][k] = spans[q][k]
  <2>1. CASE q = r
    <3>1. k # i /\ spans[r] \in Seq(SpanType)
      BY <1>1, <2>1 DEF TypeOK
    <3>2. spans'[r] = [spans[r] EXCEPT ![i] = span]
      BY DEF TypeOK
    <3> QED
      BY <2>1, <3>1, <3>2
  <2>2. CASE q # r
    BY <2>2 DEF TypeOK
  <2> QED
    BY <2>1, <2>2
<1> QED
  BY <1>1 DEF KeepsClosed

LEMMA StepKeepsClosed ==
  ASSUME Bookkeeping, OpenSpansAreTracked, [Next]_vars
  PROVE  KeepsClosed
<1> USE DEF Bookkeeping
<1>1. CASE UNCHANGED vars
  BY <1>1 DEF vars, KeepsClosed
<1>2. ASSUME NEW r \in Requests, NEW b \in BOOLEAN, StartRequest(r, b)
      PROVE  KeepsClosed
  <2>1. PICK s : spans' = [spans EXCEPT ![r] = s]
    BY <1>2 DEF StartRequest
  <2>2. Len(spans[r]) = 0
    BY <1>2 DEF StartRequest, ActiveInOrder
  <2>3. \A q \in Requests : q # r => spans'[q] = spans[q]
    BY <2>1 DEF TypeOK
  <2> QED
    BY <2>2, <2>3 DEF KeepsClosed
<1>3. ASSUME NEW r \in Requests, StartInteraction(r)
      PROVE  KeepsClosed
  <2>1. PICK s : spans' = [spans EXCEPT ![r] = Append(@, s)]
    BY <1>3 DEF StartInteraction
  <2>2. \A k \in 1..Len(spans[r]) : spans'[r][k] = spans[r][k]
    BY <2>1 DEF TypeOK
  <2>3. \A q \in Requests : q # r => spans'[q] = spans[q]
    BY <2>1 DEF TypeOK
  <2> QED
    BY <2>2, <2>3 DEF KeepsClosed
<1>4. ASSUME NEW r \in Requests, NEW span, active[r] # <<>>, DropInteraction(r, span)
      PROVE  KeepsClosed
  <2> DEFINE i == active[r][Len(active[r])]
  <2>1. Len(active[r]) \in 1..Len(active[r]) /\ i \in 1..Len(spans[r])
    <3>1. Len(active[r]) \in Nat \ {0} /\ i \in 2..Len(spans[r]) /\ Len(spans[r]) \in Nat
      BY <1>4, LastInteractionType DEF TypeOK
    <3> QED
      BY <3>1
  <2>2. spans' = [spans EXCEPT ![r] = [spans[r] EXCEPT ![i] = span]]
    BY <1>4 DEF DropInteraction
  <2>3. ~spans[r][i].ended
    BY <2>1 DEF OpenSpansAreTracked
  <2> HIDE DEF i
  <2> QED
    BY <2>1, <2>2, <2>3, RewriteKeepsClosed
<1>5. ASSUME NEW r \in Requests, NEW err \in Outcomes, EndInteraction(r, err)
      PROVE  KeepsClosed
  BY <1>4, <1>5 DEF EndInteraction
<1>6. ASSUME NEW r \in Requests, EndRequest(r)
      PROVE  KeepsClosed
  BY <1>6 DEF EndRequest, KeepsClosed
<1>7. ASSUME NEW r \in Requests, EndRequestUnwind(r)
      PROVE  KeepsClosed
  BY <1>4, <1>7 DEF EndRequestUnwind
<1>8. ASSUME NEW r \in Requests, NEW err \in Outcomes, EndRequestFinish(r, err)
      PROVE  KeepsClosed
  <2>1. PICK root : spans' = [spans EXCEPT ![r] = [spans[r] EXCEPT ![1] = root]]
    BY <1>8 DEF EndRequestFinish
  <2>2. phase[r] = "ending"
    BY <1>8 DEF EndRequestFinish
  <2>3. 1 \in 1..Len(spans[r])
    BY <2>2 DEF TypeOK, ActiveInOrder
  <2>4. ~spans[r][1].ended
    BY <2>2, <2>3 DEF OpenSpansAreTracked
  <2> QED
    BY <2>1, <2>3, <2>4, RewriteKeepsClosed
<1> QED
  BY <1>1, <1>2, <1>3, <1>5, <1>6, <1>7, <1>8 DEF Next

\* Whatever requests share a thread, a span that was ended is never ended
\* again, moved or given another status.
THEOREM ClosedSpansStay == Spec => ClosedSpansAreFinal
<1>1. Bookkeeping /\ OpenSpansAreTracked /\ [Next]_vars => [KeepsClosed]_vars
  BY StepKeepsClosed
<1>2. Spec => [][KeepsClosed]_vars
  BY <1>1, BookkeepingHolds, OpenSpansAreKnown, PTL DEF Spec
<1> QED
  BY <1>2 DEF ClosedSpansAreFinal, KeepsClosed

-----------------------------------------------------------------------------
(* What lies on the stacks of the threads is open.                         *)

\* A scope on a stack is that of an open span of a request of the thread, and
\* lies there once.
ScopesOpen ==
  \A t \in Threads : \A q \in Requests : \A i \in Nat : \A n \in 1..Len(stack[t]) :
    stack[t][n] = Scoped(q, i) =>
      /\ home[q] = t
      /\ i \in 1..Len(spans[q])
      /\ ~spans[q][i].ended
      /\ \A m \in 1..Len(stack[t]) : stack[t][m] = Scoped(q, i) => m = n

\* Popping contexts keeps this, if the spans that end are among those popped.
LEMMA PopKeepsOpen ==
  ASSUME TypeOK, ScopesOpen, NEW t \in Threads, NEW k \in 0..Len(stack[t]),
         stack' = [stack EXCEPT ![t] = SubSeq(stack[t], 1, k)], home' = home,
         \A q \in Requests : Len(spans'[q]) = Len(spans[q]),
         \A q \in Requests : \A i \in 1..Len(spans[q]) :
           ~spans[q][i].ended =>
             \/ ~spans'[q][i].ended
             \/ home[q] = t /\ \A n \in 1..k : stack[t][n] # Scoped(q, i)
  PROVE  ScopesOpen'
<1>1. stack[t] \in Seq(ContextType)
  BY DEF TypeOK
<1>2. Len(stack[t]) \in Nat /\ \A n \in 1..k : n \in 1..Len(stack[t])
  BY <1>1
<1>3. /\ Len(stack'[t]) = k
      /\ \A n \in 1..k : stack'[t][n] = stack[t][n]
      /\ \A u \in Threads : u # t => stack'[u] = stack[u]
  BY <1>1, <1>2 DEF TypeOK
<1>4. SUFFICES ASSUME NEW u \in Threads, NEW q \in Requests, NEW i \in Nat,
                      NEW n \in 1..Len(stack'[u]), stack'[u][n] = Scoped(q, i)
               PROVE  /\ home'[q] = u
                      /\ i \in 1..Len(spans'[q])
                      /\ ~spans'[q][i].ended
                      /\ \A m \in 1..Len(stack'[u]) : stack'[u][m] = Scoped(q, i) => m = n
  BY DEF ScopesOpen
<1>5. n \in 1..Len(stack[u]) /\ stack[u][n] = Scoped(q, i)
  BY <1>2, <1>3, <1>4
<1>6. /\ home[q] = u
      /\ i \in 1..Len(spans[q])
      /\ ~spans[q][i].ended
      /\ \A m \in 1..Len(stack[u]) : stack[u][m] = Scoped(q, i) => m = n
  BY <1>5 DEF ScopesOpen
<1>7. ~spans'[q][i].ended
  BY <1>3, <1>4, <1>6
<1> QED
  BY <1>2, <1>3, <1>6, <1>7

\* Ending a span and detaching its scope, after any other contexts, keeps it.
LEMMA EndSpanKeepsOpen ==
  ASSUME TypeOK, ScopesOpen, NEW r \in Requests, NEW i \in 1..Len(spans[r]),
         NEW span \in SpanType, NEW k \in 0..Len(stack[home[r]]),
         spans' = [spans EXCEPT ![r] = [spans[r] EXCEPT ![i] = span]],
         stack' = [stack EXCEPT ![home[r]] = Detach(SubSeq(stack[home[r]], 1, k), Scoped(r, i))],
         home' = home
  PROVE  ScopesOpen'
<1> DEFINE t == home[r]
<1> DEFINE stk == SubSeq(stack[t], 1, k)
<1>1. t \in Threads /\ stack[t] \in Seq(ContextType) /\ i \in Nat
  BY DEF TypeOK
<1>2. /\ stk \in Seq(ContextType) /\ Len(stk) = k
      /\ \A n \in 1..k : n \in 1..Len(stack[t]) /\ stk[n] = stack[t][n]
  BY <1>1
<1>3. \A m, n \in 1..Len(stk) : stk[m] = Scoped(r, i) /\ stk[n] = Scoped(r, i) => m = n
  <2>1. \A m, n \in 1..Len(stack[t]) :
          stack[t][m] = Scoped(r, i) /\ stack[t][n] = Scoped(r, i) => m = n
    BY <1>1 DEF ScopesOpen
  <2> HIDE DEF stk, t
  <2>2. SUFFICES ASSUME NEW m \in 1..Len(stk), NEW n \in 1..Len(stk),
                        stk[m] = Scoped(r, i), stk[n] = Scoped(r, i)
                 PROVE  m = n
    OBVIOUS
  <2>3. m \in 1..Len(stack[t]) /\ stack[t][m] = Scoped(r, i)
    BY <1>2, <2>2
  <2>4. n \in 1..Len(stack[t]) /\ stack[t][n] = Scoped(r, i)
    BY <1>2, <2>2
  <2> QED
    BY <2>1, <2>3, <2>4
<1> HIDE DEF stk, t
<1>4. PICK n \in 0..Len(stk) : /\ Detach(stk, Scoped(r, i)) = SubSeq(stk, 1, n)
                               /\ \A m \in 1..n : stk[m] # Scoped(r, i)
  BY <1>2, <1>3, DetachRemoves
<1>5. n \in 0..Len(stack[t]) /\ SubSeq(stk, 1, n) = SubSeq(stack[t], 1, n)
  <2>1. Len(stack[t]) \in Nat /\ k \in 0..Len(stack[t]) /\ n \in 0..k
    BY <1>1, <1>2, <1>4 DEF t
  <2> QED
    BY <1>1, <2>1 DEF stk
<1>6. stack' = [stack EXCEPT ![t] = SubSeq(stack[t], 1, n)]
  BY <1>4, <1>5 DEF stk, t
<1>7. \A m \in 1..n : stack[t][m] # Scoped(r, i)
  BY <1>2, <1>4
<1>8. \A q \in Requests : Len(spans'[q]) = Len(spans[q])
  <2>1. spans[r] \in Seq(SpanType) /\ spans'[r] = [spans[r] EXCEPT ![i] = span]
    BY DEF TypeOK
  <2>2. Len(spans'[r]) = Len(spans[r])
    BY <2>1
  <2> QED
    BY <2>2 DEF TypeOK
<1>9. \A q \in Requests : \A j \in 1..Len(spans[q]) :
        ~spans[q][j].ended => ~spans'[q][j].ended \/ (q = r /\ j = i)
  <2>1. \A q \in Requests : q # r => spans'[q] = spans[q]
    BY DEF TypeOK
  <2>2. \A j \in 1..Len(spans[r]) : j # i => spans'[r][j] = spans[r][j]
    BY DEF TypeOK
  <2> QED
    BY <2>1, <2>2
<1>10. \A q \in Requests : \A j \in 1..Len(spans[q]) :
         ~spans[q][j].ended =>
           \/ ~spans'[q][j].ended
           \/ home[q] = t /\ \A m \in 1..n : stack[t][m] # Scoped(q, j)
  BY <1>7, <1>9 DEF t
<1> QED
  BY ZenonT(40), <1>1, <1>5, <1>6, <1>8, <1>10, PopKeepsOpen

LEMMA DropKeepsOpen ==
  ASSUME Bookkeeping, ScopesOpen, NEW r \in Requests, NEW span \in SpanType,
         active[r] # <<>>, DropInteraction(r, span), UNCHANGED <<phase, home, token>>
  PROVE  ScopesOpen'
<1> DEFINE i == active[r][Len(active[r])]
<1> DEFINE stk == stack[home[r]]
<1>1. i \in 1..Len(spans[r])
  <2>1. i \in 2..Len(spans[r]) /\ Len(spans[r]) \in Nat
    BY LastInteractionType DEF Bookkeeping, TypeOK
  <2> QED
    BY <2>1
<1>2. /\ spans' = [spans EXCEPT ![r] = [spans[r] EXCEPT ![i] = span]]
      /\ stack' = [stack EXCEPT ![home[r]] = Detach(stk, Scoped(r, i))]
  BY DEF DropInteraction
<1> HIDE DEF i
<1>3. stk \in Seq(ContextType)
  BY DEF Bookkeeping, TypeOK
<1>4. Len(stk) \in 0..Len(stk) /\ SubSeq(stk, 1, Len(stk)) = stk
  BY <1>3
<1> QED
  BY <1>1, <1>2, <1>4, EndSpanKeepsOpen DEF Bookkeeping

LEMMA FinishKeepsOpen ==
  ASSUME Bookkeeping, ScopesOpen, NEW r \in Requests, NEW err, EndRequestFinish(r, err)
  PROVE  ScopesOpen'
<1> DEFINE root == [spans[r][1] EXCEPT !.status = RootStatus(err), !.ended = TRUE]
<1> DEFINE stk == stack[home[r]]
<1> DEFINE ended == Detach(stk, token[r])
<1>1. 1 \in 1..Len(spans[r]) /\ spans[r][1] \in SpanType
  <2>1. spans[r] \in Seq(SpanType) /\ spans[r] # <<>>
    BY DEF Bookkeeping, TypeOK, ActiveInOrder, EndRequestFinish
  <2> QED
    BY <2>1
<1>2. root \in SpanType
  BY <1>1, StatusTypes DEF SpanType
<1>3. stk \in Seq(ContextType) /\ ended \in Seq(ContextType)
  BY DetachType DEF Bookkeeping, TypeOK
<1>4. /\ spans' = [spans EXCEPT ![r] = [spans[r] EXCEPT ![1] = root]]
      /\ stack' = [stack EXCEPT ![home[r]] = Detach(Detach(ended, token[r]), Scoped(r, 1))]
      /\ home' = home
  BY DEF EndRequestFinish
<1> HIDE DEF root
<1>5. PICK m \in 0..Len(stk) : ended = SubSeq(stk, 1, m)
  BY <1>3, DetachIsPrefix
<1>6. PICK n \in 0..Len(ended) : Detach(ended, token[r]) = SubSeq(ended, 1, n)
  BY <1>3, DetachIsPrefix
<1>7. n \in 0..Len(stk) /\ SubSeq(ended, 1, n) = SubSeq(stk, 1, n)
  <2> HIDE DEF stk, ended
  <2>1. Len(ended) = m /\ Len(stk) \in Nat
    BY <1>3, <1>5
  <2>2. n \in 0..m
    BY <1>6, <2>1
  <2> QED
    BY <1>3, <1>5, <2>1, <2>2
<1> QED
  BY <1>1, <1>2, <1>4, <1>6, <1>7, EndSpanKeepsOpen DEF Bookkeeping

\* A scope of a new span is attached, perhaps above a context that is no scope.
Attaches(r, d) ==
  LET t == home[r]
      l == Len(stack[t])
      k == Len(spans[r]) + 1
  IN /\ t \in Threads /\ l \in Nat /\ Len(spans[r]) \in Nat /\ home' = home
     /\ Len(stack'[t]) = l + d + 1
     /\ \A n \in 1..l : stack'[t][n] = stack[t][n]
     /\ d = 1 => stack'[t][l + 1][1] # "scope"
     /\ stack'[t][l + d + 1] = Scoped(r, k)
     /\ \A u \in Threads : u # t => stack'[u] = stack[u]
     /\ Len(spans'[r]) = k /\ ~spans'[r][k].ended
     /\ \A i \in 1..(k - 1) : spans'[r][i] = spans[r][i]
     /\ \A q \in Requests : q # r => spans'[q] = spans[q]

LEMMA AttachKeepsOpen ==
  ASSUME ScopesOpen, NEW r \in Requests, NEW d \in {0, 1}, Attaches(r, d)
  PROVE  ScopesOpen'
<1>1. PICK t, l, k : t = home[r] /\ l = Len(stack[t]) /\ k = Len(spans[r]) + 1
  OBVIOUS
<1>2. t \in Threads /\ l \in Nat /\ Len(stack[t]) = l /\ home[r] = t /\ home' = home
  BY <1>1, Zenon DEF Attaches
<1>3. k \in Nat \ {0} /\ Len(spans[r]) = k - 1
  <2>1. Len(spans[r]) \in Nat
    BY Zenon DEF Attaches
  <2> QED
    BY <1>1, <2>1
<1>4. /\ Len(stack'[t]) = l + d + 1
      /\ \A n \in 1..l : stack'[t][n] = stack[t][n]
      /\ d = 1 => stack'[t][l + 1][1] # "scope"
      /\ stack'[t][l + d + 1] = Scoped(r, k)
      /\ \A u \in Threads : u # t => stack'[u] = stack[u]
  BY <1>1, Zenon DEF Attaches
<1>5. /\ Len(spans'[r]) = k /\ ~spans'[r][k].ended
      /\ \A i \in 1..(k - 1) : spans'[r][i] = spans[r][i]
      /\ \A q \in Requests : q # r => spans'[q] = spans[q]
  BY <1>1, Zenon DEF Attaches
<1>6. \A q \in Requests : \A i \in Nat : Scoped(q, i)[1] = "scope" /\
        (Scoped(q, i) = Scoped(r, k) => q = r /\ i = k)
  BY DEF Scoped
<1>7. \A q \in Requests : \A i \in 1..Len(spans[q]) :
         i \in 1..Len(spans'[q]) /\ spans'[q][i] = spans[q][i]
  BY <1>3, <1>5
<1>8. \A n \in 1..l : stack[t][n] # Scoped(r, k)
  <2>1. k \notin 1..Len(spans[r])
    BY <1>3
  <2> QED
    BY <1>2, <1>3, <2>1 DEF ScopesOpen
<1>9. \A n \in 1..Len(stack'[t]) : n \in 1..l \/ (d = 1 /\ n = l + 1) \/ n = l + d + 1
  BY <1>2, <1>4
<1>10. ASSUME NEW u \in Threads, NEW q \in Requests, NEW i \in Nat,
             NEW n \in 1..Len(stack'[u]), stack'[u][n] = Scoped(q, i)
      PROVE  /\ home'[q] = u
             /\ i \in 1..Len(spans'[q])
             /\ ~spans'[q][i].ended
             /\ \A m \in 1..Len(stack'[u]) : stack'[u][m] = Scoped(q, i) => m = n
  <2>1. CASE u # t
    <3>1. stack'[u] = stack[u]
      BY <1>4, <2>1
    <3>2. /\ home[q] = u /\ i \in 1..Len(spans[q]) /\ ~spans[q][i].ended
          /\ \A m \in 1..Len(stack[u]) : stack[u][m] = Scoped(q, i) => m = n
      BY <1>10, <3>1 DEF ScopesOpen
    <3> QED
      BY <1>2, <1>7, <3>1, <3>2
  <2>2. CASE u = t /\ n \in 1..l
    <3>1. stack[t][n] = Scoped(q, i)
      BY <1>4, <1>10, <2>2
    <3>2. /\ home[q] = t /\ i \in 1..Len(spans[q]) /\ ~spans[q][i].ended
          /\ \A m \in 1..l : stack[t][m] = Scoped(q, i) => m = n
      BY <1>2, <2>2, <3>1 DEF ScopesOpen
    <3>3. Scoped(q, i) # Scoped(r, k)
      BY <1>8, <2>2, <3>1
    <3>4. ASSUME NEW m \in 1..Len(stack'[u]), stack'[u][m] = Scoped(q, i)
          PROVE  m = n
      <4>1. m \in 1..l
        BY <1>4, <1>6, <1>9, <2>2, <3>3, <3>4
      <4> QED
        BY <1>4, <2>2, <3>2, <3>4, <4>1
    <3> QED
      BY <1>2, <1>4, <1>7, <2>2, <3>2, <3>4
  <2>3. CASE u = t /\ n \notin 1..l
    <3>1. n = l + d + 1
      BY <1>4, <1>6, <1>9, <1>10, <2>3
    <3>2. q = r /\ i = k
      BY <1>4, <1>6, <1>10, <2>3, <3>1
    <3>3. ASSUME NEW m \in 1..Len(stack'[u]), stack'[u][m] = Scoped(q, i)
          PROVE  m = n
      <4>1. m \notin 1..l
        BY <1>4, <1>8, <2>3, <3>2, <3>3
      <4> QED
        BY <1>4, <1>6, <1>9, <2>3, <3>1, <3>3, <4>1
    <3> QED
      BY <1>2, <1>3, <1>5, <2>3, <3>2, <3>3
  <2> QED
    BY <2>1, <2>2, <2>3
<1> QED
  BY <1>10 DEF ScopesOpen

\* What ParentStillOpen says of one step.
StartsBelowOpen ==
  \A r \in Requests : Len(spans'[r]) > Len(spans[r]) =>
    LET parent == spans'[r][Len(spans'[r])].parent
    IN \A q \in Requests : \A j \in 1..Len(spans[q]) :
         parent = <<q, j>> => ~spans[q][j].ended

\* A parent is local only if it is a scope's span.
LEMMA LocalParent ==
  ASSUME NEW ctx \in ContextType, NEW q \in Requests, NEW j \in Nat, SpanOf(ctx) = <<q, j>>
  PROVE  ctx = Scoped(q, j)
<1>1. \A r \in Requests : Remote(r) # <<q, j>>
  BY DEF Remote
<1>2. NoSpan # <<q, j>>
  BY DEF NoSpan
<1>3. CASE ctx[1] = "scope"
  <2>1. PICK r \in Requests, i \in Nat : ctx = <<"scope", r, i>>
    BY <1>3 DEF ContextType, EmptyContext
  <2>2. <<r, i>> = <<q, j>>
    BY <2>1 DEF SpanOf
  <2>3. r = q /\ i = j
    BY <2>2
  <2> QED
    BY <2>1, <2>3 DEF Scoped
<1>4. CASE ctx[1] # "scope"
  <2>1. SpanOf(ctx) \in {NoSpan} \cup {Remote(r) : r \in Requests}
    BY <1>4 DEF ContextType, EmptyContext, SpanOf
  <2> QED
    BY <1>1, <1>2, <2>1
<1> QED
  BY <1>3, <1>4

LEMMA StartRequestOpen ==
  ASSUME Bookkeeping, ScopesOpen, SharedThreads = FALSE => StackIsOwn,
         SharedThreads = FALSE \/ ExtractKeeps = FALSE,
         NEW r \in Requests, NEW b \in BOOLEAN, StartRequest(r, b)
  PROVE  ScopesOpen' /\ StartsBelowOpen
<1> DEFINE t == home[r]
<1> DEFINE ctx == IF ExtractKeeps /\ ~b THEN Top(stack[t]) ELSE Extracted(r, b)
<1> DEFINE l == Len(stack[t])
<1> DEFINE span == NewSpan(SpanOf(ctx))
<1>1. /\ t \in Threads /\ stack[t] \in Seq(ContextType) /\ l \in Nat
      /\ spans[r] = <<>> /\ home' = home
      /\ spans' = [spans EXCEPT ![r] = <<span>>]
      /\ stack' = [stack EXCEPT ![t] = Attach(Attach(stack[t], ctx), Scoped(r, 1))]
  BY DEF Bookkeeping, TypeOK, ActiveInOrder, StartRequest
<1>2. ctx \in ContextType /\ ctx[1] # "scope"
  <2>1. CASE ExtractKeeps /\ ~b
    <3>1. SharedThreads = FALSE
      BY <2>1
    <3>2. Unfinished(t) = {}
      BY <3>1 DEF StartRequest
    <3>3. stack[t] = <<>>
      BY <1>1, <3>1, <3>2 DEF StackIsOwn, OwnAt
    <3> QED
      BY <2>1, <3>3 DEF Top, EmptyContext, ContextType
  <2>2. CASE ~(ExtractKeeps /\ ~b)
    BY <2>2 DEF Extracted, ContextType
  <2> QED
    BY <2>1, <2>2
<1>3. ~span.ended /\ span.parent = SpanOf(ctx)
  BY DEF NewSpan
<1> HIDE DEF ctx, span
<1>4. /\ spans'[r] = <<span>> /\ \A q \in Requests : q # r => spans'[q] = spans[q]
      /\ stack'[t] = Append(Append(stack[t], ctx), Scoped(r, 1))
      /\ \A u \in Threads : u # t => stack'[u] = stack[u]
  BY <1>1 DEF Bookkeeping, TypeOK, Attach
<1>5. /\ Len(stack'[t]) = l + 1 + 1
      /\ \A n \in 1..l : stack'[t][n] = stack[t][n]
      /\ stack'[t][l + 1] = ctx
      /\ stack'[t][l + 1 + 1] = Scoped(r, 1)
  <2>1. /\ Append(stack[t], ctx) \in Seq(ContextType)
        /\ Len(Append(stack[t], ctx)) = l + 1
        /\ \A n \in 1..l : Append(stack[t], ctx)[n] = stack[t][n]
        /\ Append(stack[t], ctx)[l + 1] = ctx
    BY <1>1, <1>2
  <2>2. PICK base : base = Append(stack[t], ctx)
    OBVIOUS
  <2>3. /\ Len(Append(base, Scoped(r, 1))) = l + 1 + 1
        /\ \A n \in 1..(l + 1) : Append(base, Scoped(r, 1))[n] = base[n]
        /\ Append(base, Scoped(r, 1))[l + 1 + 1] = Scoped(r, 1)
    BY <2>1, <2>2
  <2>4. 1..l \subseteq 1..(l + 1) /\ l + 1 \in 1..(l + 1)
    BY <1>1
  <2>5. stack'[t] = Append(base, Scoped(r, 1))
    BY <1>4, <2>2
  <2> HIDE DEF t, l
  <2> QED
    BY <2>1, <2>2, <2>3, <2>4, <2>5
<1>6. ScopesOpen'
  <2>1. /\ Len(spans'[r]) = 1 /\ ~spans'[r][1].ended /\ Len(spans[r]) + 1 = 1
        /\ \A i \in 1..(1 - 1) : spans'[r][i] = spans[r][i]
    BY <1>1, <1>3, <1>4
  <2>2. stack'[t][l + 1][1] # "scope"
    BY <1>2, <1>5
  <2>3. Attaches(r, 1)
    BY <1>1, <1>4, <1>5, <2>1, <2>2 DEF Attaches
  <2> QED
    BY <2>3, AttachKeepsOpen
<1>7. StartsBelowOpen
  <2>1. ASSUME NEW q \in Requests, NEW j \in 1..Len(spans[q]), span.parent = <<q, j>>
        PROVE  FALSE
    <3>1. j \in Nat /\ SpanOf(ctx) = <<q, j>>
      BY <1>3, <2>1
    <3> QED
      BY <1>2, <3>1, LocalParent DEF Scoped
  <2>2. Len(spans'[r]) = 1 /\ spans'[r][1] = span
    BY <1>4
  <2> QED
    BY SMTT(20), <1>4, <2>1, <2>2 DEF StartsBelowOpen
<1> QED
  BY <1>6, <1>7

LEMMA StartInteractionOpen ==
  ASSUME Bookkeeping, ScopesOpen, NEW r \in Requests, StartInteraction(r)
  PROVE  ScopesOpen' /\ StartsBelowOpen
<1> DEFINE t == home[r]
<1> DEFINE ctx == Top(stack[t])
<1> DEFINE l == Len(stack[t])
<1> DEFINE k == Len(spans[r]) + 1
<1> DEFINE span == NewSpan(SpanOf(ctx))
<1>1. /\ t \in Threads /\ stack[t] \in Seq(ContextType) /\ l \in Nat
      /\ spans[r] \in Seq(SpanType) /\ Len(spans[r]) \in Nat /\ home' = home
      /\ spans' = [spans EXCEPT ![r] = Append(spans[r], span)]
      /\ stack' = [stack EXCEPT ![t] = Attach(stack[t], Scoped(r, k))]
  BY DEF Bookkeeping, TypeOK, StartInteraction
<1>2. ctx \in ContextType
  BY <1>1, TopType
<1>3. ~span.ended /\ span.parent = SpanOf(ctx)
  BY DEF NewSpan
<1>4. k \in Nat \ {0} /\ Len(spans[r]) = k - 1
  BY <1>1
<1> HIDE DEF span
<1>5. /\ spans'[r] = Append(spans[r], span) /\ \A q \in Requests : q # r => spans'[q] = spans[q]
      /\ stack'[t] = Append(stack[t], Scoped(r, k))
      /\ \A u \in Threads : u # t => stack'[u] = stack[u]
  BY <1>1 DEF Bookkeeping, TypeOK, Attach
<1>6. /\ Len(spans'[r]) = k /\ spans'[r][k] = span
      /\ \A i \in 1..(k - 1) : spans'[r][i] = spans[r][i]
  BY <1>1, <1>5
<1>7. /\ Len(stack'[t]) = l + 0 + 1
      /\ \A n \in 1..l : stack'[t][n] = stack[t][n]
      /\ stack'[t][l + 0 + 1] = Scoped(r, k)
  <2> HIDE DEF t, k
  <2> QED
    BY <1>1, <1>5
<1>8. ScopesOpen'
  <2>1. ~spans'[r][k].ended
    BY <1>3, <1>6
  <2>2. Attaches(r, 0)
    BY <1>1, <1>4, <1>5, <1>6, <1>7, <2>1 DEF Attaches
  <2> QED
    BY <2>2, AttachKeepsOpen
<1>9. StartsBelowOpen
  <2>1. ASSUME NEW q \in Requests, NEW j \in 1..Len(spans[q]), span.parent = <<q, j>>
        PROVE  ~spans[q][j].ended
    <3>1. j \in Nat /\ SpanOf(ctx) = <<q, j>>
      BY <1>3, <2>1
    <3>2. ctx = Scoped(q, j)
      BY <1>2, <3>1, LocalParent
    <3>3. l \in 1..Len(stack[t]) /\ stack[t][l] = Scoped(q, j)
      BY <1>1, <3>2 DEF Top, Scoped, EmptyContext
    <3> QED
      BY <1>1, <3>1, <3>3 DEF ScopesOpen
  <2>2. \A p \in Requests : Len(spans'[p]) > Len(spans[p]) => p = r
    BY <1>1, <1>5 DEF Bookkeeping, TypeOK
  <2>3. spans'[r][Len(spans'[r])] = span
    BY <1>6
  <2> QED
    BY <2>1, <2>2, <2>3 DEF StartsBelowOpen
<1> QED
  BY <1>8, <1>9

LEMMA StepOpen ==
  ASSUME Bookkeeping, ScopesOpen, SharedThreads = FALSE => StackIsOwn,
         SharedThreads = FALSE \/ ExtractKeeps = FALSE, [Next]_vars
  PROVE  ScopesOpen' /\ StartsBelowOpen
<1>1. \A r \in Requests : Len(spans[r]) \in Nat
  BY DEF Bookkeeping, TypeOK
<1>2. CASE UNCHANGED vars
  BY <1>1, <1>2 DEF vars, ScopesOpen, StartsBelowOpen
<1>3. ASSUME NEW r \in Requests, NEW b \in BOOLEAN, StartRequest(r, b)
      PROVE  ScopesOpen' /\ StartsBelowOpen
  BY <1>3, StartRequestOpen
<1>4. ASSUME NEW r \in Requests, StartInteraction(r)
      PROVE  ScopesOpen' /\ StartsBelowOpen
  BY <1>4, StartInteractionOpen
<1>5. ASSUME NEW r \in Requests, NEW span \in SpanType,
             active[r] # <<>>, DropInteraction(r, span), UNCHANGED <<phase, home, token>>
      PROVE  ScopesOpen' /\ StartsBelowOpen
  <2>1. ScopesOpen'
    BY <1>5, DropKeepsOpen
  <2>2. PICK i \in 1..Len(spans[r]) : spans' = [spans EXCEPT ![r] = [spans[r] EXCEPT ![i] = span]]
    <3>1. active[r][Len(active[r])] \in 1..Len(spans[r])
      BY <1>1, <1>5, LastInteractionType
    <3> QED
      BY <1>5, <3>1 DEF DropInteraction
  <2>3. spans[r] \in Seq(SpanType) /\ spans'[r] = [spans[r] EXCEPT ![i] = span]
    BY <2>2 DEF Bookkeeping, TypeOK
  <2>4. Len(spans'[r]) = Len(spans[r])
    BY <2>3
  <2>5. \A q \in Requests : Len(spans'[q]) = Len(spans[q])
    BY <2>2, <2>4 DEF Bookkeeping, TypeOK
  <2> QED
    BY <1>1, <2>1, <2>5 DEF StartsBelowOpen
<1>6. ASSUME NEW r \in Requests, NEW err \in Outcomes, EndInteraction(r, err)
      PROVE  ScopesOpen' /\ StartsBelowOpen
  <2> DEFINE span == [LastInteraction(r) EXCEPT !.status = InteractionStatus(err), !.ended = TRUE]
  <2>1. active[r] # <<>> /\ DropInteraction(r, span) /\ UNCHANGED <<phase, home, token>>
    BY <1>6 DEF EndInteraction
  <2>2. span \in SpanType
    BY <2>1, LastInteractionType, StatusTypes DEF SpanType
  <2> QED
    BY <1>5, <2>1, <2>2
<1>7. ASSUME NEW r \in Requests, EndRequestUnwind(r)
      PROVE  ScopesOpen' /\ StartsBelowOpen
  <2>1. active[r] # <<>> /\ DropInteraction(r, Closed(LastInteraction(r)))
          /\ UNCHANGED <<phase, home, token>>
    BY <1>7 DEF EndRequestUnwind
  <2>2. Closed(LastInteraction(r)) \in SpanType
    BY <2>1, LastInteractionType DEF Closed, SpanType
  <2> QED
    BY <1>5, <2>1, <2>2
<1>8. ASSUME NEW r \in Requests, EndRequest(r)
      PROVE  ScopesOpen' /\ StartsBelowOpen
  BY <1>1, <1>8 DEF EndRequest, ScopesOpen, StartsBelowOpen
<1>9. ASSUME NEW r \in Requests, NEW err \in Outcomes, EndRequestFinish(r, err)
      PROVE  ScopesOpen' /\ StartsBelowOpen
  <2>1. ScopesOpen'
    BY <1>9, FinishKeepsOpen
  <2>2. PICK root : spans' = [spans EXCEPT ![r] = [spans[r] EXCEPT ![1] = root]]
    BY <1>9 DEF EndRequestFinish
  <2>3. \A q \in Requests : Len(spans'[q]) = Len(spans[q])
    <3>1. spans[r] \in Seq(SpanType) /\ spans'[r] = [spans[r] EXCEPT ![1] = root]
      BY <2>2 DEF Bookkeeping, TypeOK
    <3>2. Len(spans'[r]) = Len(spans[r])
      BY <3>1
    <3> QED
      BY <2>2, <3>2 DEF Bookkeeping, TypeOK
  <2> QED
    BY <1>1, <2>1, <2>3 DEF StartsBelowOpen
<1> QED
  BY <1>2, <1>3, <1>4, <1>6, <1>7, <1>8, <1>9 DEF Next

LEMMA ScopesOpenHolds ==
  ASSUME SharedThreads = FALSE \/ ExtractKeeps = FALSE
  PROVE  Spec => []ScopesOpen /\ [][StartsBelowOpen]_vars
<1>1. Init => ScopesOpen
  BY DEF Init, ScopesOpen
<1>2. CASE SharedThreads = FALSE
  <2>1. Bookkeeping /\ OwnContext /\ ScopesOpen /\ [Next]_vars => ScopesOpen' /\ StartsBelowOpen
    BY <1>2, StepOpen DEF OwnContext
  <2>2. Spec => []OwnContext
    BY <1>2, ContextStaysOwn
  <2> QED
    BY <1>1, <2>1, <2>2, BookkeepingHolds, PTL DEF Spec
<1>3. CASE SharedThreads # FALSE
  <2>1. Bookkeeping /\ ScopesOpen /\ [Next]_vars => ScopesOpen' /\ StartsBelowOpen
    BY <1>3, StepOpen
  <2> QED
    BY <1>1, <2>1, BookkeepingHolds, PTL DEF Spec
<1> QED
  BY <1>2, <1>3

\* However requests share a thread, a span starts below an open one, provided
\* no root is attached under a scope twice: with a propagator that hands back
\* the context on the stack, detaching the copy leaves the original of a span
\* that has ended.
THEOREM SpansStartBelowOpen ==
  ASSUME SharedThreads = FALSE \/ ExtractKeeps = FALSE
  PROVE  Spec => ParentStillOpen
<1>1. Spec => [][StartsBelowOpen]_vars
  BY ScopesOpenHolds, PTL
<1> QED
  BY <1>1 DEF ParentStillOpen, StartsBelowOpen
=============================================================================
