-------------------------- MODULE GypBuild_proofs --------------------------
(***************************************************************************)
(* Of every build that gyp writes, for any targets and by whichever        *)
(* generator: no step waits for what nothing makes or for itself, and what *)
(* is linked waits for every static library that goes into it.             *)
(***************************************************************************)
EXTENDS GypBuild, GypInput_proofs

\* What a linked target is to have among its dependencies in the end.
LinksListed(t) == Dict(t).type \in Linkables => LinkDependencies(t) \subseteq deps[t]

\* What the steps behind the list know of it: the targets kept depend on and import
\* targets kept, and as far as they are adjusted those that are linked
\* have what they link.
AdjustInv ==
  /\ stage \in {"load", "files", "targets", "generate"} => next = 1
  /\ stage \in Ordered => /\ next <= Len(flat) + 1
                          /\ ImportsFound(ToSet(flat))
                          /\ \A t \in ToSet(flat) : deps[t] \subseteq ToSet(flat)
  /\ stage = "adjust" => \A i \in 1..(next - 1) : LinksListed(flat[i])
  /\ stage \in {"generate", "write", "done"} => \A t \in ToSet(flat) : LinksListed(t)

-----------------------------------------------------------------------------
(* What is reached stays what it is, too.                                  *)

LEMMA ReachedStays ==
  ASSUME GraphsStay
  PROVE  /\ \A S : Imported(S)' = Imported(S)
         /\ \A t : LinkDependencies(t)' = LinkDependencies(t)
         /\ \A S : Unlinked(S)' = Unlinked(S)
<1>1. /\ Present' = Present /\ \A t : Dict(t)' = Dict(t)
      /\ \A t : Dependencies(t)' = Dependencies(t)
      /\ \A t : Exports(t)' = Exports(t)
  BY DEF GraphsStay
<1>2. \A S : Imported(S)' = Imported(S)
  BY <1>1 DEF Imported, Reached
<1>3. \A t : Traversed(t)' = Traversed(t) /\ Included(t)' = Included(t)
  BY <1>1 DEF Traversed, Included
<1>4. \A t : LinkedFrom(t)' = LinkedFrom(t) /\ Leading(t)' = Leading(t)
  BY <1>1, <1>3 DEF LinkedFrom, Leading
<1>5. \A t : LinkDependencies(t)' = LinkDependencies(t)
  BY <1>1, <1>3, <1>4 DEF LinkDependencies, Reached
<1>6. \A S : Unlinked(S)' = Unlinked(S)
  BY <1>1, <1>4 DEF Unlinked, Reached
<1> QED
  BY <1>2, <1>5, <1>6

\* What there is on a list that is ordered leads to what comes before it.
LEMMA ListedBefore ==
  ASSUME Listing(flat, TargetGraph), NEW i \in 1..Len(flat)
  PROVE  /\ flat[i] \in Present
         /\ Dependencies(flat[i]) \subseteq {flat[j] : j \in 1..(i-1)}
         /\ \A u \in {flat[j] : j \in 1..(i-1)} : Dependencies(u) \subseteq {flat[j] : j \in 1..(i-1)}
<1>1. /\ flat \in Seq(Present) /\ Len(flat) \in Nat /\ Behind(flat, TargetGraph)
      /\ \A u \in Present : TargetGraph[u] = Dependencies(u)
  BY DEF Listing, TargetGraph
<1>2. \A k \in 1..Len(flat) : flat[k] \in Present
  BY <1>1
<1>3. ASSUME NEW k \in 1..Len(flat), k <= i
      PROVE  Dependencies(flat[k]) \subseteq {flat[j] : j \in 1..(i-1)}
  <2> SUFFICES ASSUME NEW d \in Dependencies(flat[k])
               PROVE  d \in {flat[j] : j \in 1..(i-1)}
    OBVIOUS
  <2>1. PICK j \in 1..(k-1) : flat[j] = d
    BY <1>1, <1>2 DEF Behind
  <2>2. j \in 1..(i-1)
    BY <1>3
  <2> QED
    BY <2>1, <2>2
<1>4. ASSUME NEW k \in 1..(i-1)
      PROVE  k \in 1..Len(flat) /\ k <= i
  BY <1>1
<1>5. Dependencies(flat[i]) \subseteq {flat[j] : j \in 1..(i-1)}
  <2>1. i <= i
    BY <1>1
  <2> QED
    BY <1>3, <2>1
<1>6. ASSUME NEW u \in {flat[j] : j \in 1..(i-1)}
      PROVE  Dependencies(u) \subseteq {flat[j] : j \in 1..(i-1)}
  <2>1. PICK k \in 1..(i-1) : flat[k] = u
    OBVIOUS
  <2> QED
    BY <1>3, <1>4, <2>1
<1> QED
  BY <1>2, <1>5, <1>6

\* So do all that are linked or found on the way to what is.
LEMMA ReachedBefore ==
  ASSUME Listing(flat, TargetGraph), NEW i \in 1..Len(flat)
  PROVE  Unlinked(Dependencies(flat[i])) \subseteq {flat[j] : j \in 1..(i-1)}
<1> DEFINE B == {flat[j] : j \in 1..(i-1)}
           S == Dependencies(flat[i])
           named == S \cup UNION {Leading(u) : u \in Present}
           closed == {T \in SUBSET named : S \subseteq T /\ \A u \in T \cap Present : Leading(u) \subseteq T}
<1>1. S \subseteq B /\ \A u \in B : Dependencies(u) \subseteq B
  BY ListedBefore
<1>2. Unlinked(S) = {u \in named : \A T \in closed : u \in T}
  BY DEF Unlinked, Reached
<1>3. \A u : Leading(u) \subseteq Dependencies(u)
  BY DEF Leading
<1> HIDE DEF B, S
<1>4. B \cap named \in closed
  BY <1>1, <1>3
<1> HIDE DEF named, closed
<1>5. Unlinked(S) \subseteq B
  BY <1>2, <1>4
<1> QED
  BY <1>5 DEF B, S

-----------------------------------------------------------------------------
(* Adjusting.                                                              *)

\* Where neither list nor dependencies change.
LEMMA AdjustedStays ==
  ASSUME AdjustInv, GraphsStay, flat' = flat, deps' = deps
  PROVE  /\ ImportsFound(ToSet(flat))' = ImportsFound(ToSet(flat))
         /\ \A t : LinksListed(t)' = LinksListed(t)
<1>1. /\ \A S : Imported(S)' = Imported(S)
      /\ \A t : LinkDependencies(t)' = LinkDependencies(t)
  BY ReachedStays
<1>2. \A t : Dependencies(t)' = Dependencies(t) /\ Dict(t)' = Dict(t)
  BY DEF GraphsStay
<1> QED
  BY <1>1, <1>2 DEF ImportsFound, LinksListed

\* The list that the generators get is the one that was ordered, pruned and adjusted.
LEMMA ListBecomesFinal ==
  ASSUME InputInv, AdjustInv, InputInv', TargetsFlattened
  PROVE  AdjustInv'
<1>1. stage = "targets" /\ next = 1 /\ UNCHANGED loading
  BY DEF TargetsFlattened, AdjustInv
<1>2. CASE \E fault \in Faults : Fails(fault)
  BY <1>1, <1>2 DEF AdjustInv, Fails, Faults, Ordered
<1>3. CASE /\ stage' = "adjust" /\ flat' = PruneUnwanted /\ UNCHANGED <<zeros, next, deps>>
           /\ ImportsFound(ToSet(PruneUnwanted))
  <2>1. GraphsStay
    BY <1>1, LoadingIsOver
  <2>2. /\ Listing(flat', TargetGraph)
        /\ \A t \in Present : deps[t] = Dependencies(t)
    <3>1. Listing(flat, TargetGraph)'
      BY <1>3 DEF InputInv, StageInv, Ordered
    <3>2. TargetGraph' = TargetGraph
      BY <2>1 DEF GraphsStay
    <3>3. \A t \in Present : deps[t] = Dependencies(t)
      BY <1>1 DEF InputInv, StageInv
    <3> QED
      BY <3>1, <3>2, <3>3 DEF Listing
  <2>3. ImportsFound(ToSet(flat))'
    <3>1. \A S : Imported(S)' = Imported(S)
      BY <2>1, ReachedStays
    <3>2. \A t : Dependencies(t)' = Dependencies(t)
      BY <2>1 DEF GraphsStay
    <3> QED
      BY <1>3, <3>1, <3>2 DEF ImportsFound
  <2>4. /\ flat' \in Seq(Present) /\ Len(flat') \in Nat /\ Behind(flat', TargetGraph)
        /\ \A u \in Present : TargetGraph[u] = Dependencies(u)
    BY <2>2 DEF Listing, TargetGraph
  <2>5. ASSUME NEW t \in ToSet(flat')
        PROVE  deps'[t] \subseteq ToSet(flat')
    <3>1. PICK i \in 1..Len(flat') : flat'[i] = t
      BY <2>4 DEF ToSet
    <3>2. t \in Present /\ deps'[t] = TargetGraph[t]
      <4>1. t \in Present
        BY <2>4, <3>1
      <4>2. deps[t] = Dependencies(t) /\ TargetGraph[t] = Dependencies(t)
        BY <2>2, <2>4, <4>1
      <4> QED
        BY <1>3, <4>1, <4>2
    <3>3. \A d \in TargetGraph[t] : \E j \in 1..Len(flat') : flat'[j] = d
      BY SMTT(20), <2>4, <3>1 DEF Behind
    <3> QED
      BY <2>4, <3>2, <3>3 DEF ToSet
  <2> QED
    BY <1>1, <1>3, <2>3, <2>4, <2>5 DEF AdjustInv, Ordered
<1> QED
  BY <1>2, <1>3 DEF TargetsFlattened, KeepWanted, Faults

\* A turn of the adjustment keeps AdjustInv: one more target has what it links.
LEMMA AdjustGoesOn ==
  ASSUME InputInv, AdjustInv, Adjust
  PROVE  AdjustInv'
<1> DEFINE t == flat[next]
<1>1. /\ stage = "adjust" /\ stage' = stage /\ next \in Nat \ {0} /\ next <= Len(flat)
      /\ deps \in [Targets -> SUBSET Targets]
      /\ deps' = [deps EXCEPT ![t] = Adjusted(t)] /\ next' = next + 1
      /\ UNCHANGED loading /\ flat' = flat
  BY DEF Adjust, InputInv, InputTypes
<1>2. /\ Listing(flat, TargetGraph) /\ ImportsFound(ToSet(flat))
      /\ \A u \in ToSet(flat) : deps[u] \subseteq ToSet(flat)
      /\ \A i \in 1..(next - 1) : LinksListed(flat[i])
  BY <1>1 DEF InputInv, StageInv, AdjustInv, Ordered
<1>3. GraphsStay
  BY <1>1, LoadingIsOver
<1>4. /\ flat \in Seq(Present) /\ Len(flat) \in Nat /\ next \in 1..Len(flat)
      /\ \A i \in 1..Len(flat) : flat[i] \in Present
      /\ ToSet(flat) = {flat[i] : i \in 1..Len(flat)}
  <2>1. flat \in Seq(Present)
    BY <1>2 DEF Listing, TargetGraph
  <2> QED
    BY <1>1, <2>1 DEF ToSet
<1>5. t \in Present /\ t \in Targets /\ t \in ToSet(flat) /\ Dict(t) \in TargetDicts
  BY <1>4, Named DEF InputInv
<1>6. /\ Dependencies(t) \subseteq ToSet(flat)
      /\ LinkDependencies(t) \subseteq ToSet(flat)
      /\ Imported(Dependencies(t)) \subseteq ToSet(flat)
  <2>1. \A u \in ToSet(flat) : Dependencies(u) \subseteq ToSet(flat)
    <3> SUFFICES ASSUME NEW i \in 1..Len(flat)
                 PROVE  Dependencies(flat[i]) \subseteq ToSet(flat)
      BY <1>4
    <3>1. Dependencies(flat[i]) \subseteq {flat[j] : j \in 1..(i-1)}
      BY <1>2, ListedBefore
    <3>2. {flat[j] : j \in 1..(i-1)} \subseteq ToSet(flat)
      BY <1>4
    <3> QED
      BY <3>1, <3>2
  <2>2. LinkDependencies(t) \subseteq ToSet(flat)
    BY <1>5, <2>1, LinkedWithin
  <2>3. Imported(Dependencies(t)) \subseteq ToSet(flat)
    BY <1>2, <1>5 DEF ImportsFound
  <2> QED
    BY <1>5, <2>1, <2>2, <2>3
<1> HIDE DEF t
<1>7. /\ Adjusted(t) \subseteq ToSet(flat)
      /\ Dict(t).type \in Linkables => LinkDependencies(t) \subseteq Adjusted(t)
  <2>1. CASE Dict(t).type = "static_library"
    <3>1. Adjusted(t) = {d \in Imported(Dependencies(t)) :
                           HardStatic(d) \/ (Dict(d).type # "static_library" /\ d \in deps[t])}
      BY <2>1 DEF Adjusted, Linkables
    <3> QED
      BY <1>6, <2>1, <3>1 DEF Linkables
  <2>2. CASE Dict(t).type \in Linkables
    BY <1>2, <1>5, <1>6, <2>2 DEF Adjusted, Linkables
  <2>3. CASE Dict(t).type \notin {"static_library"} \cup Linkables
    BY <1>2, <1>5, <2>3 DEF Adjusted
  <2> QED
    BY <2>1, <2>2, <2>3
<1>8. \A u \in ToSet(flat) : deps'[u] \subseteq ToSet(flat)
  BY <1>1, <1>2, <1>5, <1>7
<1>9. /\ \A S : Imported(S)' = Imported(S)
      /\ \A u : LinkDependencies(u)' = LinkDependencies(u)
      /\ \A u : Dependencies(u)' = Dependencies(u) /\ Dict(u)' = Dict(u)
  BY <1>3, ReachedStays DEF GraphsStay
<1>10. ImportsFound(ToSet(flat))'
  BY <1>1, <1>2, <1>9 DEF ImportsFound
<1>11. ASSUME NEW i \in 1..next
       PROVE  LinksListed(flat[i])'
  <2>1. CASE flat[i] = t
    BY <1>1, <1>5, <1>7, <1>9, <2>1 DEF LinksListed
  <2>2. CASE flat[i] # t
    <3>1. i \in 1..(next - 1)
      BY <1>4, <2>2 DEF t
    <3>2. deps'[flat[i]] = deps[flat[i]]
      BY <1>1, <2>2
    <3>3. LinksListed(flat[i])
      BY <1>2, <3>1
    <3> QED
      BY <1>1, <1>9, <3>2, <3>3 DEF LinksListed
  <2> QED
    BY <2>1, <2>2
<1>12. next' - 1 = next /\ next' <= Len(flat) + 1
  BY <1>1, <1>4
<1>13. \A u \in ToSet(flat) : deps'[u] \subseteq ToSet(flat')
  BY <1>1, <1>8
<1> QED
  BY <1>1, <1>10, <1>11, <1>12, <1>13 DEF AdjustInv, Ordered

\* After the last turn all targets have what they link.
LEMMA AdjustingEnds ==
  ASSUME InputInv, AdjustInv, AdjustEnds
  PROVE  AdjustInv'
<1>1. /\ stage = "adjust" /\ stage' = "generate" /\ next \in Nat /\ next > Len(flat) /\ next' = 1
      /\ UNCHANGED loading /\ flat' = flat /\ deps' = deps
  BY DEF AdjustEnds, InputInv, InputTypes
<1>2. GraphsStay
  BY <1>1, LoadingIsOver
<1>3. /\ ImportsFound(ToSet(flat)) /\ \A t \in ToSet(flat) : deps[t] \subseteq ToSet(flat)
      /\ \A i \in 1..(next - 1) : LinksListed(flat[i])
      /\ flat \in Seq(Present) /\ Len(flat) \in Nat
  BY <1>1 DEF InputInv, StageInv, AdjustInv, Ordered, Listing, TargetGraph
<1>4. ToSet(flat) = {flat[i] : i \in 1..Len(flat)}
  BY <1>3 DEF ToSet
<1>5. \A t \in ToSet(flat) : LinksListed(t)
  BY <1>1, <1>3, <1>4
<1>6. ImportsFound(ToSet(flat))' /\ \A t \in ToSet(flat) : LinksListed(t)'
  BY <1>1, <1>2, <1>3, <1>5, AdjustedStays
<1> QED
  BY <1>1, <1>3, <1>6 DEF AdjustInv, Ordered

LEMMA AdjustInvKept ==
  ASSUME InputInv, AdjustInv, InputNext
  PROVE  AdjustInv'
<1>0. InputInv'
  BY InputInvInductive
<1>1. CASE LoadNext /\ UNCHANGED input
  <2>1. stage = "load"
    BY <1>1, LoadedStays DEF InputInv, StageInv
  <2> QED
    BY <1>1, <2>1 DEF AdjustInv, Ordered, input
<1>2. CASE ReadTargets \/ FilesFlattened \/ \E n \in zeros : Flatten(n)
  <2>1. /\ stage \in {"load", "files", "targets"} /\ next' = next
        /\ stage' \in {"files", "targets"} \cup Faults
    BY <1>2 DEF ReadTargets, FilesFlattened, Flatten, BuildDependencyList, Fails, Faults
  <2> QED
    BY <2>1 DEF AdjustInv, Ordered, Faults
<1>3. CASE TargetsFlattened
  BY <1>0, <1>3, ListBecomesFinal
<1>4. CASE Adjust
  BY <1>4, AdjustGoesOn
<1>5. CASE AdjustEnds
  BY <1>5, AdjustingEnds
<1> QED
  BY <1>1, <1>2, <1>3, <1>4, <1>5 DEF InputNext

-----------------------------------------------------------------------------
(* The steps of one target.                                                *)

FileKinds ==
  {"action", "rule", "rule_2", "support", "copy", "object", "binary", "installed", "target"}

\* Of what is waited for, the files made before the target, M, are there, and so are
\* its own that come before the k-th in order.
Ready(M, own, waits, k) == \A f \in waits : f \in M \/ (f \in own /\ Order(f[2]) < k)

\* The steps make files of the target's own, when what they wait for is ready.
Fits(M, own, es) == \A e \in es : e.out \in own /\ Ready(M, own, e.needs, Order(e.out[2]))

\* Steps that wait for something more.
Delayed(es, w) == {Edge(e.out, e.needs \cup w) : e \in es}

\* The places of the kinds of files within a target.
LEMMA OrderValues ==
  /\ Order("action") = 1 /\ Order("rule") = 2 /\ Order("rule_2") = 3 /\ Order("support") = 4
  /\ Order("copy") = 5 /\ Order("object") = 6 /\ Order("binary") = 7 /\ Order("installed") = 8
  /\ Order("target") = 9
<1>1. Order("action") = 1 /\ Order("rule") = 2 /\ Order("rule_2") = 3
  BY DEF Order
<1>2. Order("support") = 4 /\ Order("copy") = 5 /\ Order("object") = 6
  BY DEF Order
<1>3. Order("binary") = 7 /\ Order("installed") = 8 /\ Order("target") = 9
  BY DEF Order
<1> QED
  BY <1>1, <1>2, <1>3

\* A step by its parts.
LEMMA EdgeParts ==
  ASSUME NEW f, NEW w
  PROVE  Edge(f, w).out = f /\ Edge(f, w).needs = w
BY DEF Edge

\* Waiting for more changes nothing in what is made.
LEMMA MadeDelayed ==
  ASSUME NEW es, NEW w
  PROVE  Made(Delayed(es, w)) = Made(es)
<1>1. ASSUME NEW x \in Made(Delayed(es, w)) PROVE x \in Made(es)
  <2>1. PICK d \in Delayed(es, w) : x = d.out
    BY DEF Made
  <2>2. PICK e \in es : d = Edge(e.out, e.needs \cup w)
    BY DEF Delayed
  <2>3. d.out = e.out
    BY <2>2, EdgeParts
  <2> QED
    BY <2>1, <2>3 DEF Made
<1>2. ASSUME NEW x \in Made(es) PROVE x \in Made(Delayed(es, w))
  <2>1. PICK e \in es : x = e.out
    BY DEF Made
  <2>2. Edge(e.out, e.needs \cup w) \in Delayed(es, w)
    BY DEF Delayed
  <2>3. Edge(e.out, e.needs \cup w).out = x
    BY <2>1, EdgeParts
  <2> QED
    BY <2>2, <2>3 DEF Made
<1> QED
  BY <1>1, <1>2

LEMMA MadeOf ==
  /\ \A A, B : Made(A \cup B) = Made(A) \cup Made(B)
  /\ \A F, w : Made(EdgesTo(F, w)) = F
  /\ \A f, w : Made({Edge(f, w)}) = {f}
  /\ \A f, w, es : Made(Whole(f, w, es)) = Made(es) \cup {f}
  /\ Made({}) = {}
<1>1. \A f, w : Edge(f, w).out = f /\ Edge(f, w).needs = w
  BY DEF Edge
<1>2. \A A, B : Made(A \cup B) = Made(A) \cup Made(B)
  BY DEF Made
<1>3. \A F, w : Made(EdgesTo(F, w)) = F
  BY <1>1 DEF Made, EdgesTo
<1>4. \A f, w : Made({Edge(f, w)}) = {f}
  BY <1>1 DEF Made
<1>5. ASSUME NEW f, NEW w, NEW es
      PROVE  Made(Whole(f, w, es)) = Made(es) \cup {f}
  <2>1. Whole(f, w, es) = Delayed(es, w) \cup {Edge(f, Made(es) \cup w)}
    BY DEF Whole, Delayed
  <2>2. Made(Delayed(es, w)) = Made(es)
    BY MadeDelayed
  <2>3. Made({Edge(f, Made(es) \cup w)}) = {f}
    BY <1>4
  <2> QED
    BY <1>2, <2>1, <2>2, <2>3
<1>6. Made({}) = {}
  BY DEF Made
<1> QED
  BY <1>2, <1>3, <1>4, <1>5, <1>6

LEMMA MadeOfThree ==
  ASSUME NEW A, NEW B, NEW C
  PROVE  Made(A \cup B \cup C) = Made(A) \cup Made(B) \cup Made(C)
<1>1. Made(A \cup B) = Made(A) \cup Made(B)
  BY MadeOf
<1>2. Made((A \cup B) \cup C) = Made(A \cup B) \cup Made(C)
  BY MadeOf
<1> QED
  BY <1>1, <1>2

\* The steps of a target that is built as a whole.
LEMMA WholeParts ==
  ASSUME NEW f, NEW w, NEW es, NEW e \in Whole(f, w, es), e.out # f
  PROVE  \E b \in es : e.out = b.out /\ b.needs \subseteq e.needs
<1>1. e \in Delayed(es, w) \cup {Edge(f, Made(es) \cup w)}
  BY DEF Whole, Delayed
<1>2. e \in Delayed(es, w)
  BY <1>1, EdgeParts
<1>3. PICK b \in es : e = Edge(b.out, b.needs \cup w)
  BY <1>2 DEF Delayed
<1> QED
  BY <1>3, EdgeParts

\* How what fits is put together.
LEMMA ReadyTogether ==
  ASSUME NEW M, NEW own, NEW v, NEW w, NEW k, Ready(M, own, v, k), Ready(M, own, w, k)
  PROVE  Ready(M, own, v \cup w, k)
BY DEF Ready

\* Steps that fit also fit together.
LEMMA FitsTogether ==
  ASSUME NEW M, NEW own, NEW A, NEW B, Fits(M, own, A), Fits(M, own, B)
  PROVE  Fits(M, own, A \cup B)
BY DEF Fits

LEMMA StepsFit ==
  ASSUME NEW M, NEW own, NEW F, NEW w, F \subseteq own,
         \A f \in F : Ready(M, own, w, Order(f[2]))
  PROVE  Fits(M, own, EdgesTo(F, w))
BY DEF Fits, EdgesTo, Edge

LEMMA StepFits ==
  ASSUME NEW M, NEW own, NEW f, NEW w, f \in own, Ready(M, own, w, Order(f[2]))
  PROVE  Fits(M, own, {Edge(f, w)})
BY DEF Fits, Edge

LEMMA MoreFits ==
  ASSUME NEW M, NEW own, NEW es, NEW w, Fits(M, own, es),
         \A f \in Made(es) : Ready(M, own, w, Order(f[2]))
  PROVE  Fits(M, own, Delayed(es, w))
<1> SUFFICES ASSUME NEW d \in Delayed(es, w)
             PROVE  d.out \in own /\ Ready(M, own, d.needs, Order(d.out[2]))
  BY DEF Fits
<1>1. PICK e \in es : d = Edge(e.out, e.needs \cup w)
  BY DEF Delayed
<1>2. d.out = e.out /\ d.needs = e.needs \cup w
  BY <1>1, EdgeParts
<1>3. e.out \in own /\ Ready(M, own, e.needs, Order(e.out[2]))
  BY DEF Fits
<1>4. Ready(M, own, w, Order(e.out[2]))
  BY DEF Made
<1>5. Ready(M, own, e.needs \cup w, Order(e.out[2]))
  BY <1>3, <1>4, ReadyTogether
<1> QED
  BY <1>2, <1>3, <1>5

LEMMA WholeFits ==
  ASSUME NEW M, NEW own, NEW es, NEW w, NEW f, f \in own, Fits(M, own, es),
         \A g \in Made(es) : /\ Ready(M, own, w, Order(g[2]))
                             /\ Order(g[2]) < Order(f[2]),
         Ready(M, own, w, Order(f[2]))
  PROVE  Fits(M, own, Whole(f, w, es))
<1>1. Fits(M, own, Delayed(es, w))
  <2>1. \A g \in Made(es) : Ready(M, own, w, Order(g[2]))
    OBVIOUS
  <2> QED
    BY <2>1, MoreFits
<1>2. Made(es) \subseteq own
  BY DEF Made, Fits
<1>3. Ready(M, own, Made(es) \cup w, Order(f[2]))
  BY <1>2 DEF Ready
<1>4. Fits(M, own, {Edge(f, Made(es) \cup w)})
  BY <1>3, StepFits
<1>5. Whole(f, w, es) = Delayed(es, w) \cup {Edge(f, Made(es) \cup w)}
  BY DEF Whole, Delayed
<1>6. Fits(M, own, Delayed(es, w) \cup {Edge(f, Made(es) \cup w)})
  BY <1>1, <1>4 DEF Fits
<1> QED
  BY <1>5, <1>6

\* The files of a target.
LEMMA OwnFiles ==
  ASSUME NEW t
  PROVE  /\ Actions(t) \subseteq {File(t, "action")}
         /\ Rules(t) \subseteq {File(t, "rule"), File(t, "rule_2")}
         /\ File(t, "rule_2") \in Rules(t) => File(t, "rule") \in Rules(t)
         /\ Copies(t) \subseteq {File(t, "copy")}
         /\ StepFiles(t) = Actions(t) \cup Rules(t) \cup Copies(t)
         /\ Objects(t) \subseteq {File(t, "object")}
         /\ \A kind : File(t, kind)[1] = t /\ File(t, kind)[2] = kind
<1>1. \A kind : File(t, kind)[1] = t /\ File(t, kind)[2] = kind
  BY DEF File
<1>2. Rules(t) \subseteq {File(t, "rule"), File(t, "rule_2")}
      /\ (File(t, "rule_2") \in Rules(t) => File(t, "rule") \in Rules(t))
  BY DEF Rules
<1> QED
  BY <1>1, <1>2 DEF Actions, Copies, StepFiles, Objects

LEMMA OwnOrders ==
  ASSUME NEW t
  PROVE  /\ \A f \in Actions(t) : Order(f[2]) = 1
         /\ \A f \in Rules(t) : Order(f[2]) \in {2, 3}
         /\ \A f \in Copies(t) : Order(f[2]) = 5
         /\ \A f \in StepFiles(t) : Order(f[2]) \in {1, 2, 3, 5}
         /\ \A f \in Objects(t) : Order(f[2]) = 6
         /\ Order(File(t, "rule")[2]) = 2 /\ Order(File(t, "rule_2")[2]) = 3
         /\ Order(File(t, "support")[2]) = 4 /\ Order(File(t, "binary")[2]) = 7
         /\ Order(File(t, "installed")[2]) = 8 /\ Order(File(t, "target")[2]) = 9
<1>1. \A kind : Order(File(t, kind)[2]) = Order(kind)
  <2> SUFFICES ASSUME NEW kind PROVE Order(File(t, kind)[2]) = Order(kind)
    OBVIOUS
  <2>1. File(t, kind)[2] = kind
    BY OwnFiles
  <2> QED
    BY <2>1
<1>2. Order(File(t, "action")[2]) = 1 /\ Order(File(t, "rule")[2]) = 2 /\ Order(File(t, "rule_2")[2]) = 3
  BY <1>1, OrderValues
<1>3. Order(File(t, "copy")[2]) = 5 /\ Order(File(t, "object")[2]) = 6
  BY <1>1, OrderValues
<1>4. /\ Order(File(t, "support")[2]) = 4 /\ Order(File(t, "binary")[2]) = 7
      /\ Order(File(t, "installed")[2]) = 8 /\ Order(File(t, "target")[2]) = 9
  BY <1>1, OrderValues
<1>5. ASSUME NEW f \in Actions(t) PROVE Order(f[2]) = 1
  <2>1. f = File(t, "action")
    BY OwnFiles
  <2> QED
    BY <1>2, <2>1
<1>6. ASSUME NEW f \in Rules(t) PROVE Order(f[2]) \in {2, 3}
  <2>1. f = File(t, "rule") \/ f = File(t, "rule_2")
    BY OwnFiles
  <2> QED
    BY <1>2, <2>1
<1>7. ASSUME NEW f \in Copies(t) PROVE Order(f[2]) = 5
  <2>1. f = File(t, "copy")
    BY OwnFiles
  <2> QED
    BY <1>3, <2>1
<1>8. ASSUME NEW f \in Objects(t) PROVE Order(f[2]) = 6
  <2>1. f = File(t, "object")
    BY OwnFiles
  <2> QED
    BY <1>3, <2>1
<1>9. \A f \in StepFiles(t) : Order(f[2]) \in {1, 2, 3, 5}
  BY <1>5, <1>6, <1>7 DEF StepFiles
<1> QED
  BY <1>2, <1>3, <1>4, <1>5, <1>6, <1>7, <1>8, <1>9

\* They are all of the target.
LEMMA OwnKinds ==
  ASSUME NEW t
  PROVE  /\ \A kind \in FileKinds : File(t, kind) \in {t} \X FileKinds
         /\ StepFiles(t) \cup Objects(t) \subseteq {t} \X FileKinds
<1>1. \A kind \in FileKinds : File(t, kind) \in {t} \X FileKinds
  BY DEF File
<1>2. {"action", "rule", "rule_2", "copy", "object"} \subseteq FileKinds
  BY DEF FileKinds
<1>3. {File(t, "action"), File(t, "rule"), File(t, "rule_2"), File(t, "copy"), File(t, "object")}
        \subseteq {t} \X FileKinds
  BY <1>1, <1>2
<1> QED
  BY <1>1, <1>3, OwnFiles

\* What is waited for is from before, or comes before in the same target.
LEMMA ReadyFromBefore ==
  ASSUME NEW M, NEW own, NEW w, w \subseteq M
  PROVE  \A k : Ready(M, own, w, k)
BY DEF Ready

LEMMA ReadyFromOwn ==
  ASSUME NEW M, NEW own, NEW w, w \subseteq own, NEW k, \A f \in w : Order(f[2]) < k
  PROVE  Ready(M, own, w, k)
BY DEF Ready

-----------------------------------------------------------------------------
(* The invariant of a build that is written.                               *)

WrittenTargets == {flat[i] : i \in 1..(next - 1)}

\* The first half of BuildNeverStuck.
Orderly ==
  ExportsKept \/ generator \notin {"cmake", "msvs"} =>
    \A e \in edges : \A f \in e.needs : f \in Made(edges) /\ ComesBefore(f, e.out)

StepsOfTargets == \A e \in edges : e.out \in WrittenTargets \X FileKinds

\* LinksComplete, of what is written.
LinkedSteps ==
  \A t \in WrittenTargets : Dict(t).type \in Linkables =>
    \A e \in edges : e.out = File(t, "binary") =>
      \A u \in Unlinked(Dependencies(t)) :
        Dict(u).type = "static_library" /\ File(u, "binary") \in Made(edges) =>
          File(u, "binary") \in e.needs

\* What each generator keeps of a target, or expects of it: ninja Target objects, make
\* and android tables, and the others that a file stands for the whole.
NinjaKept ==
  /\ \A d \in DOMAIN outputs :
       /\ outputs[d].preaction \cup outputs[d].precompile \subseteq Made(edges)
       /\ outputs[d].actions \cup outputs[d].binary \subseteq Made(edges)
  /\ \A d \in WrittenTargets : File(d, "binary") \in Made(edges) =>
       d \in DOMAIN outputs /\ outputs[d].binary = {File(d, "binary")}

TablesKept ==
  /\ DOMAIN outputs = WrittenTargets
  /\ \A d \in WrittenTargets :
       /\ outputs[d].output \cup outputs[d].link \subseteq Made(edges)
       /\ Dict(d).type \in Libraries => outputs[d].link = {File(d, "binary")}

WholesKept ==
  \A d \in WrittenTargets :
    /\ File(d, "target") \in Made(edges)
    /\ StepFiles(d) \subseteq Made(edges)
    /\ Dict(d).type \in Libraries => File(d, "binary") \in Made(edges)

OutputsKept ==
  /\ generator = "ninja" => NinjaKept
  /\ generator \in {"make", "android"} => TablesKept
  /\ generator = "xcode" => DOMAIN outputs = WrittenTargets
  /\ generator \in {"cmake", "xcode", "msvs"} => WholesKept

Refusals == {"unwritten", "not_supported", "objects"}

BuildInv ==
  /\ stage \notin {"write", "done"} \cup Refusals => edges = {} /\ outputs = <<>>
  /\ ExportsKept => stage # "unwritten"
  /\ Orderly
  /\ stage \in {"write", "done"} =>
       /\ generator \in Formats
       /\ needed \subseteq ToSet(flat)
       /\ StepsOfTargets /\ LinkedSteps /\ OutputsKept
  /\ stage = "done" => next = Len(flat) + 1

GypInv == InputInv /\ AdjustInv /\ BuildInv

-----------------------------------------------------------------------------
(* What there is when it is a target's turn.                               *)

\* Static libraries are found on the way to what is linked only if they are linked.
LEMMA StaticIsLinked ==
  ASSUME NEW t \in Present, NEW u \in Unlinked(Dependencies(t)), Dict(u).type = "static_library"
  PROVE  u \in LinkDependencies(t)
<1> DEFINE S == Dependencies(t)
           L == {d \in Dependencies(t) : Included(d)}
           named == S \cup UNION {Leading(v) : v \in Present}
           closed == {T \in SUBSET named : S \subseteq T /\ \A v \in T \cap Present : Leading(v) \subseteq T}
           linked == L \cup UNION {LinkedFrom(v) : v \in Present}
           closedL == {T \in SUBSET linked : L \subseteq T /\ \A v \in T \cap Present : LinkedFrom(v) \subseteq T}
<1>1. Unlinked(S) = {v \in named : \A T \in closed : v \in T}
  BY DEF Unlinked, Reached
<1>2. LinkDependencies(t) = {v \in linked : \A T \in closedL : v \in T}
  BY DEF LinkDependencies, Reached
<1>3. \A v : LinkedFrom(v) = {d \in Leading(v) : Included(d)}
  BY DEF LinkedFrom, Leading
<1>4. linked = {d \in named : Included(d)}
  BY <1>3
<1>5. Included(u)
  BY DEF Included
<1>6. u \in linked
  BY <1>1, <1>4, <1>5
<1>7. ASSUME NEW T \in closedL
      PROVE  u \in T
  <2> DEFINE more == T \cup {x \in named : ~Included(x)}
  <2>1. more \subseteq named /\ S \subseteq more
    BY <1>4
  <2>2. ASSUME NEW v \in more \cap Present
        PROVE  Leading(v) \subseteq more
    <3>1. CASE v \in T
      <4>1. LinkedFrom(v) \subseteq T /\ Leading(v) \subseteq named
        BY <3>1
      <4> QED
        BY <1>3, <4>1
    <3>2. CASE ~Included(v)
      <4>1. ~Traversed(v)
        BY <3>2 DEF Included, Traversed, Linkables
      <4> QED
        BY <4>1 DEF Leading
    <3> QED
      BY <3>1, <3>2
  <2>3. more \in closed
    BY <2>1, <2>2
  <2> QED
    BY <1>1, <1>5, <2>3
<1> HIDE DEF linked, closedL
<1> QED
  BY <1>2, <1>6, <1>7

\* What there is when it is a target's turn: all it depends on has been written.
LEMMA TheTurn ==
  ASSUME GypInv, NEW format, NEW t, Turn(format, t)
  PROVE  /\ stage = "write" /\ generator = format
         /\ next \in 1..Len(flat) /\ Len(flat) \in Nat /\ t = flat[next]
         /\ \A i \in 1..Len(flat) : flat[i] \in Present
         /\ t \in Present /\ t \in Targets /\ t \notin WrittenTargets /\ Dict(t) \in TargetDicts
         /\ WrittenTargets \subseteq Present
         /\ ExportsKept => deps[t] \subseteq WrittenTargets
         /\ \A i \in 1..next : Unlinked(Dependencies(flat[i])) \subseteq {flat[j] : j \in 1..(i-1)}
         /\ Dict(t).type \in Linkables =>
              \A u \in Unlinked(Dependencies(t)) :
                Dict(u).type = "static_library" => u \in deps[t] \cap WrittenTargets
<1>1. stage = "write" /\ generator = format /\ next <= Len(flat) /\ t = flat[next]
  BY DEF Turn
<1>2. /\ next \in Nat \ {0} /\ Listing(flat, TargetGraph) /\ (ExportsKept => DepsBehind)
      /\ \A u \in ToSet(flat) : LinksListed(u)
  BY <1>1 DEF GypInv, InputInv, InputTypes, StageInv, AdjustInv, Ordered
<1>3. /\ flat \in Seq(Present) /\ Len(flat) \in Nat /\ Distinct(flat)
  BY <1>2 DEF Listing, TargetGraph
<1>4. /\ next \in 1..Len(flat) /\ \A i \in 1..Len(flat) : flat[i] \in Present /\ flat[i] \in ToSet(flat)
      /\ \A i \in 1..(next - 1) : i \in 1..Len(flat) /\ i # next
      /\ \A i \in 1..next : i \in 1..Len(flat)
  BY <1>1, <1>2, <1>3 DEF ToSet
<1>5. t \notin WrittenTargets /\ WrittenTargets \subseteq Present
  BY <1>1, <1>3, <1>4 DEF WrittenTargets, Distinct
<1>6. t \in Present /\ t \in Targets /\ Dict(t) \in TargetDicts
  BY <1>1, <1>4, Named DEF GypInv, InputInv
<1>7. ASSUME ExportsKept
      PROVE  deps[t] \subseteq WrittenTargets
  BY <1>1, <1>2, <1>4, <1>7 DEF DepsBehind, Behind, WrittenTargets
<1>8. \A i \in 1..next : Unlinked(Dependencies(flat[i])) \subseteq {flat[j] : j \in 1..(i-1)}
  BY <1>2, <1>4, ReachedBefore
<1>9. ASSUME Dict(t).type \in Linkables, NEW u \in Unlinked(Dependencies(t)),
             Dict(u).type = "static_library"
      PROVE  u \in deps[t] \cap WrittenTargets
  <2>1. u \in LinkDependencies(t)
    BY <1>6, <1>9, StaticIsLinked
  <2>2. u \in deps[t]
    BY <1>1, <1>2, <1>4, <1>9, <2>1 DEF LinksListed
  <2>3. u \in WrittenTargets
    <3>1. next \in 1..next
      BY <1>2
    <3>2. Unlinked(Dependencies(flat[next])) \subseteq WrittenTargets
      BY <1>8, <3>1 DEF WrittenTargets
    <3> QED
      BY <1>1, <3>2
  <2> QED
    BY <2>2, <2>3
<1> QED
  BY <1>1, <1>3, <1>4, <1>5, <1>6, <1>7, <1>8, <1>9

\* A file made in a target before is there, and comes before all of the target.
LEMMA EarlierComesBefore ==
  ASSUME NEW i \in 1..Len(flat), DOMAIN flat = 1..Len(flat), Len(flat) \in Nat,
         NEW file, file[1] \in {flat[j] : j \in 1..(i-1)},
         NEW other, other[1] = flat[i]
  PROVE  ComesBefore(file, other)
BY DEF ComesBefore

\* What a target that is written adds to a build.
LEMMA StepsAdded ==
  ASSUME GypInv, NEW format, NEW t, Turn(format, t),
         NEW es, NEW record, Written(t, es, record),
         Made(es) \subseteq {t} \X FileKinds,
         ExportsKept \/ generator \notin {"cmake", "msvs"} => Fits(Made(edges), Made(es), es),
         Dict(t).type \in Linkables =>
           \A e \in es : e.out = File(t, "binary") =>
             \A u \in deps[t] \cap WrittenTargets :
               Dict(u).type = "static_library" /\ File(u, "binary") \in Made(edges) =>
                 File(u, "binary") \in e.needs
  PROVE  /\ WrittenTargets' = WrittenTargets \cup {t}
         /\ Made(edges)' = Made(edges) \cup Made(es)
         /\ \A d \in WrittenTargets, kind \in FileKinds : File(d, kind) \notin Made(es)
         /\ \A kind \in FileKinds : File(t, kind) \notin Made(edges)
         /\ Orderly' /\ StepsOfTargets' /\ LinkedSteps'
         /\ GraphsStay
<1>1. /\ stage = "write" /\ generator = format
      /\ next \in 1..Len(flat) /\ Len(flat) \in Nat /\ t = flat[next]
      /\ t \in Present /\ t \notin WrittenTargets
      /\ \A i \in 1..next : Unlinked(Dependencies(flat[i])) \subseteq {flat[j] : j \in 1..(i-1)}
      /\ Dict(t).type \in Linkables =>
           \A u \in Unlinked(Dependencies(t)) :
             Dict(u).type = "static_library" => u \in deps[t] \cap WrittenTargets
  BY TheTurn
<1>2. /\ next' = next + 1 /\ edges' = edges \cup es
      /\ UNCHANGED <<loading, stage, flat, zeros, deps, generator, needed>>
  BY DEF Written
<1>3. Orderly /\ StepsOfTargets /\ LinkedSteps
  BY <1>1 DEF GypInv, BuildInv
<1>4. GraphsStay
  BY <1>2, LoadingIsOver DEF GypInv
<1>5. DOMAIN flat = 1..Len(flat)
  <2>1. Listing(flat, TargetGraph)
    BY <1>1 DEF GypInv, InputInv, StageInv, Ordered
  <2> QED
    BY <2>1 DEF Listing
<1>6. WrittenTargets' = WrittenTargets \cup {t}
  <2>1. next' - 1 = next /\ 1..next = (1..(next - 1)) \cup {next}
    BY <1>1, <1>2
  <2> QED
    BY <1>1, <1>2, <2>1 DEF WrittenTargets
<1>7. Made(edges)' = Made(edges) \cup Made(es)
  BY <1>2, MadeOf
<1>8. \A f \in Made(edges) : f \in WrittenTargets \X FileKinds
  BY <1>3 DEF StepsOfTargets, Made
<1>9. /\ \A d \in WrittenTargets, kind \in FileKinds : File(d, kind) \notin Made(es)
      /\ \A kind \in FileKinds : File(t, kind) \notin Made(edges)
  BY <1>1, <1>8 DEF File
<1>10. StepsOfTargets'
  <2>1. \A e \in es : e.out \in {t} \X FileKinds
    BY DEF Made
  <2> QED
    BY <1>2, <1>3, <1>6, <2>1 DEF StepsOfTargets
<1>11. Orderly'
  <2> SUFFICES ASSUME ExportsKept \/ generator \notin {"cmake", "msvs"},
                      NEW e \in edges', NEW f \in e.needs
               PROVE  f \in Made(edges)' /\ ComesBefore(f, e.out)'
    BY <1>2, <1>4 DEF Orderly, GraphsStay
  <2>1. CASE e \in edges
    <3>1. f \in Made(edges) /\ ComesBefore(f, e.out)
      BY <1>3, <2>1 DEF Orderly
    <3> QED
      BY <1>2, <1>7, <3>1 DEF ComesBefore
  <2>2. CASE e \in es
    <3>1. Ready(Made(edges), Made(es), e.needs, Order(e.out[2])) /\ e.out \in Made(es)
      BY <2>2 DEF Fits
    <3>2. e.out[1] = t
      BY <3>1
    <3>3. CASE f \in Made(edges)
      <4>1. f[1] \in {flat[j] : j \in 1..(next - 1)}
        BY <1>8, <3>3 DEF WrittenTargets
      <4>2. ComesBefore(f, e.out)
        BY <1>1, <1>5, <3>2, <4>1, EarlierComesBefore
      <4> QED
        BY <1>2, <1>7, <3>3, <4>2 DEF ComesBefore
    <3>4. CASE f \in Made(es) /\ Order(f[2]) < Order(e.out[2])
      <4>1. f[1] = t
        BY <3>4
      <4> QED
        BY <1>7, <3>2, <3>4, <4>1 DEF ComesBefore
    <3> QED
      BY <3>1, <3>3, <3>4 DEF Ready
  <2> QED
    BY <1>2, <2>1, <2>2
<1>12. LinkedSteps'
  <2>1. /\ \A u : Dict(u)' = Dict(u) /\ Dependencies(u)' = Dependencies(u)
        /\ \A S : Unlinked(S)' = Unlinked(S)
    BY <1>4, ReachedStays DEF GraphsStay
  <2> SUFFICES ASSUME NEW d \in WrittenTargets \cup {t}, Dict(d).type \in Linkables,
                      NEW e \in edges \cup es, e.out = File(d, "binary"),
                      NEW u \in Unlinked(Dependencies(d)),
                      Dict(u).type = "static_library", File(u, "binary") \in Made(edges) \cup Made(es)
               PROVE  File(u, "binary") \in e.needs
    BY <1>2, <1>6, <1>7, <2>1 DEF LinkedSteps
  <2>2. u \in WrittenTargets
    <3>1. PICK i \in 1..next : d = flat[i]
      BY <1>1 DEF WrittenTargets
    <3>2. u \in {flat[j] : j \in 1..(i-1)}
      BY <1>1, <3>1
    <3>3. \A j \in 1..(i-1) : j \in 1..(next - 1)
      BY <1>1
    <3> QED
      BY <3>2, <3>3 DEF WrittenTargets
  <2>3. File(u, "binary") \in Made(edges)
    BY <1>9, <2>2 DEF FileKinds
  <2>4. CASE d = t
    <3>1. File(t, "binary") \notin Made(edges)
      BY <1>9 DEF FileKinds
    <3>2. e \in es
      BY <2>4, <3>1 DEF Made
    <3> QED
      BY <1>1, <2>2, <2>3, <2>4, <3>2
  <2>5. CASE d \in WrittenTargets
    <3>1. File(d, "binary") \notin Made(es)
      BY <1>9, <2>5 DEF FileKinds
    <3>2. e \in edges
      BY <3>1 DEF Made
    <3> QED
      BY <1>3, <2>3, <2>5, <3>2 DEF LinkedSteps
  <2> QED
    BY <2>4, <2>5
<1> QED
  BY <1>4, <1>6, <1>7, <1>9, <1>10, <1>11, <1>12

\* The generators leave the input alone.
LEMMA GeneratorKeepsInput ==
  ASSUME InputInv, AdjustInv, UNCHANGED <<loading, flat, deps>>,
         stage \in {"generate", "write", "done"}, stage' \in {"write", "done"} \cup Refusals,
         next' \in 1..(Len(flat) + 1)
  PROVE  InputInv' /\ AdjustInv' /\ GraphsStay
<1>1. LoadInv' /\ GraphsStay /\ main' = main /\ project' = project
  BY LoadingIsOver
<1>2. /\ Listing(flat, TargetGraph) /\ (ExportsKept => DepsBehind)
      /\ FilesAcyclic /\ Acyclic(Present, TargetGraph) /\ main = "loaded"
      /\ deps \in [Targets -> SUBSET Targets]
  BY DEF InputInv, StageInv, InputTypes, Ordered
<1>3. /\ Listing(flat, TargetGraph)' /\ FilesAcyclic' /\ Acyclic(Present, TargetGraph)'
      /\ (ExportsKept => DepsBehind)'
  BY <1>1, <1>2 DEF GraphsStay, DepsBehind, FilesAcyclic
<1>4. Len(flat) \in Nat /\ flat' = flat /\ deps' = deps
  BY <1>2 DEF Listing
<1>5. InputTypes'
  <2>1. stage' \in Stages
    BY DEF Stages, Faults, Refusals
  <2>2. next' \in Nat \ {0}
    BY <1>4
  <2> QED
    BY <1>2, <1>4, <2>1, <2>2 DEF InputTypes
<1>6. StageInv'
  BY <1>1, <1>2, <1>3 DEF StageInv, Ordered, Refusals
<1>7. /\ ImportsFound(ToSet(flat)) /\ \A t \in ToSet(flat) : LinksListed(t)
      /\ \A t \in ToSet(flat) : deps[t] \subseteq ToSet(flat)
  BY DEF AdjustInv, Ordered
<1>8. ImportsFound(ToSet(flat))' /\ \A t \in ToSet(flat) : LinksListed(t)'
  BY <1>1, <1>4, <1>7, AdjustedStays
<1>9. AdjustInv'
  <2>1. stage' \notin {"load", "files", "targets", "generate", "adjust"}
    BY DEF Refusals
  <2>2. next' <= Len(flat') + 1
    BY <1>4
  <2>3. \A t \in ToSet(flat') : deps'[t] \subseteq ToSet(flat')
    BY <1>4, <1>7
  <2>4. \A t \in ToSet(flat)' : LinksListed(t)'
    BY <1>4, <1>8
  <2> QED
    BY <1>8, <2>1, <2>2, <2>3, <2>4 DEF AdjustInv
<1> QED
  BY <1>1, <1>5, <1>6, <1>9 DEF InputInv

\* After a turn one more target is written.
LEMMA TargetIsWritten ==
  ASSUME GypInv, NEW format, NEW t, Turn(format, t), NEW es, NEW record, Written(t, es, record),
         Orderly', StepsOfTargets', LinkedSteps', OutputsKept'
  PROVE  GypInv'
<1>1. /\ next' = next + 1 /\ stage = "write" /\ stage' = stage
      /\ UNCHANGED <<loading, flat, deps, generator, needed>>
  BY DEF Written, Turn
<1>2. next' \in 1..(Len(flat) + 1)
  BY <1>1, TheTurn
<1>3. InputInv' /\ AdjustInv'
  BY <1>1, <1>2, GeneratorKeepsInput DEF GypInv, Refusals
<1>4. BuildInv'
  BY <1>1 DEF GypInv, BuildInv, Refusals
<1> QED
  BY <1>3, <1>4 DEF GypInv

LEMMA RecordKept ==
  ASSUME NEW t, NEW es, NEW record, Written(t, es, {record})
  PROVE  /\ DOMAIN outputs' = DOMAIN outputs \cup {t}
         /\ outputs'[t] = record
         /\ \A u \in DOMAIN outputs \ {t} : outputs'[u] = outputs[u]
BY DEF Written

\* An exception in a generator.
LEMMA RefusedKeeps ==
  ASSUME GypInv, stage = "write", NEW fault \in Refusals, Refused(fault),
         ExportsKept => fault # "unwritten"
  PROVE  GypInv'
<1>1. stage' = fault /\ UNCHANGED <<loading, flat, next, deps, generator, needed, outputs, edges>>
  BY DEF Refused, Fails, build
<1>2. next \in 1..(Len(flat) + 1)
  <2>1. next \in Nat \ {0} /\ next <= Len(flat) + 1 /\ Len(flat) \in Nat
    BY DEF GypInv, InputInv, InputTypes, StageInv, AdjustInv, Ordered, Listing
  <2> QED
    BY <2>1
<1>3. InputInv' /\ AdjustInv' /\ GraphsStay
  BY <1>1, <1>2, GeneratorKeepsInput DEF GypInv
<1>4. Orderly'
  BY <1>1, <1>3 DEF GypInv, BuildInv, Orderly, Made, ComesBefore, GraphsStay
<1>5. BuildInv'
  BY <1>1, <1>3, <1>4 DEF BuildInv, Refusals, GraphsStay
<1> QED
  BY <1>3, <1>5 DEF GypInv

-----------------------------------------------------------------------------
(* make and android                                                        *)

\* The tables have what is there of the dependencies.
LEMMA TablesOfDependencies ==
  ASSUME GypInv, NEW format \in {"make", "android"}, NEW t, Turn(format, t),
         deps[t] \subseteq DOMAIN outputs
  PROVE  /\ TablesKept
         /\ UNION {outputs[d].link : d \in deps[t]} \subseteq Made(edges)
         /\ UNION {outputs[d].output : d \in deps[t]} \subseteq Made(edges)
         /\ \A u \in deps[t] : Dict(u).type = "static_library" =>
              File(u, "binary") \in UNION {outputs[d].link : d \in deps[t]}
<1>1. stage = "write" /\ generator = format
  BY DEF Turn
<1>2. TablesKept
  BY <1>1 DEF GypInv, BuildInv, OutputsKept
<1>3. \A d \in deps[t] : /\ outputs[d].output \cup outputs[d].link \subseteq Made(edges)
                         /\ Dict(d).type \in Libraries => outputs[d].link = {File(d, "binary")}
  BY <1>2 DEF TablesKept
<1> QED
  BY <1>2, <1>3 DEF Libraries

\* A target is entered, with files of its own.
LEMMA TablesGoOn ==
  ASSUME GypInv, NEW t, NEW es, NEW record, Written(t, es, {record}), TablesKept,
         WrittenTargets' = WrittenTargets \cup {t}, t \notin WrittenTargets, GraphsStay,
         Made(edges)' = Made(edges) \cup Made(es),
         record.output \cup record.link \subseteq Made(es),
         Dict(t).type \in Libraries => record.link = {File(t, "binary")}
  PROVE  TablesKept'
<1>1. /\ DOMAIN outputs' = DOMAIN outputs \cup {t} /\ outputs'[t] = record
      /\ \A u \in DOMAIN outputs \ {t} : outputs'[u] = outputs[u]
  BY RecordKept
<1>2. \A u : Dict(u)' = Dict(u)
  BY DEF GraphsStay
<1>3. \A u \in WrittenTargets : u \in DOMAIN outputs \ {t}
  BY DEF TablesKept
<1>4. ASSUME NEW u \in WrittenTargets
      PROVE  /\ outputs'[u].output \cup outputs'[u].link \subseteq Made(edges)'
             /\ Dict(u).type \in Libraries => outputs'[u].link = {File(u, "binary")}
  <2>1. outputs'[u] = outputs[u]
    BY <1>1, <1>3
  <2> QED
    BY <2>1 DEF TablesKept
<1>5. /\ outputs'[t].output \cup outputs'[t].link \subseteq Made(edges)'
      /\ Dict(t).type \in Libraries => outputs'[t].link = {File(t, "binary")}
  BY <1>1
<1>6. DOMAIN outputs' = WrittenTargets'
  BY <1>1 DEF TablesKept
<1> QED
  BY <1>2, <1>4, <1>5, <1>6 DEF TablesKept

\* A target of the make generator: tables say what stands for it and what is linked of it.
LEMMA MakeGoesOn ==
  ASSUME GypInv, NEW t, MakeWrite(t)
  PROVE  GypInv'
<1> DEFINE steps == MakeActions(t) \cup MakeRules(t) \cup MakeCopies(t)
           es == MakeStepEdges(t) \cup MakeObjectEdges(t) \cup MakeBinaryEdges(t) \cup InstallEdges(t)
           M == Made(edges)
           own == Made(es)
<1>1. Turn("make", t)
  BY DEF MakeWrite
<1>2. /\ stage = "write" /\ generator = "make" /\ t \notin WrittenTargets
      /\ ExportsKept => deps[t] \subseteq WrittenTargets
      /\ Dict(t) \in TargetDicts
  BY <1>1, TheTurn
<1>3. CASE ~(deps[t] \subseteq DOMAIN outputs)
  <2>1. DOMAIN outputs = WrittenTargets
    BY <1>2 DEF GypInv, BuildInv, OutputsKept, TablesKept
  <2>2. Refused("unwritten") /\ ~ExportsKept
    BY <1>2, <1>3, <2>1 DEF MakeWrite
  <2> QED
    BY <1>2, <2>2, RefusedKeeps DEF Refusals
<1>4. CASE deps[t] \subseteq DOMAIN outputs
  <2>1. Written(t, es, {MakeOutput(t)})
    BY <1>4 DEF MakeWrite
  <2>2. /\ TablesKept /\ LinkDeps(t) \subseteq M /\ MakeDeps(t) \subseteq M
        /\ \A u \in deps[t] : Dict(u).type = "static_library" => File(u, "binary") \in LinkDeps(t)
    BY <1>1, <1>4, TablesOfDependencies DEF LinkDeps, MakeDeps
  <2>3. /\ MakeActions(t) = EdgesTo(Actions(t), {}) /\ MakeRules(t) = EdgesTo(Rules(t), {})
        /\ MakeCopies(t) = EdgesTo(Copies(t), {}) /\ MakeStepEdges(t) = Delayed(steps, MakeDeps(t))
        /\ MakeObjectEdges(t) = EdgesTo(Objects(t), MakeDeps(t) \cup StepFiles(t))
    BY DEF MakeActions, MakeRules, MakeCopies, MakeRule, MakeStepEdges, Delayed, MakeObjectEdges
  <2>4. /\ Made(MakeActions(t)) = Actions(t) /\ Made(MakeRules(t)) = Rules(t)
        /\ Made(MakeCopies(t)) = Copies(t) /\ Made(MakeObjectEdges(t)) = Objects(t)
        /\ Made(MakeBinaryEdges(t)) = {File(t, "binary")}
    BY <2>3, MadeOf DEF MakeBinaryEdges, MakeRule
  <2>5. Made(MakeStepEdges(t)) = StepFiles(t)
    <3>1. Made(steps) = Made(MakeActions(t)) \cup Made(MakeRules(t)) \cup Made(MakeCopies(t))
      BY MadeOfThree
    <3> QED
      BY <2>3, <2>4, <3>1, MadeDelayed DEF StepFiles
  <2>6. Made(InstallEdges(t)) = IF Installed(t) THEN {File(t, "installed")} ELSE {}
    BY MadeOf DEF InstallEdges, MakeRule
  <2>7. /\ own = StepFiles(t) \cup Objects(t) \cup {File(t, "binary")} \cup Made(InstallEdges(t))
        /\ own \subseteq {t} \X FileKinds
    <3>1. own = Made(MakeStepEdges(t)) \cup Made(MakeObjectEdges(t)) \cup Made(MakeBinaryEdges(t))
                  \cup Made(InstallEdges(t))
      <4> DEFINE first == MakeStepEdges(t) \cup MakeObjectEdges(t) \cup MakeBinaryEdges(t)
      <4>1. Made(first) = Made(MakeStepEdges(t)) \cup Made(MakeObjectEdges(t)) \cup Made(MakeBinaryEdges(t))
        BY MadeOfThree
      <4> HIDE DEF first
      <4>2. Made(first \cup InstallEdges(t)) = Made(first) \cup Made(InstallEdges(t))
        BY MadeOf
      <4> QED
        BY <4>1, <4>2 DEF first
    <3>2. File(t, "binary") \in {t} \X FileKinds /\ File(t, "installed") \in {t} \X FileKinds
      BY OwnKinds DEF FileKinds
    <3>3. Made(InstallEdges(t)) \subseteq {t} \X FileKinds
      BY <2>6, <3>2
    <3> HIDE DEF own
    <3> QED
      BY <2>4, <2>5, <3>1, <3>2, <3>3, OwnKinds
  <2> HIDE DEF es, M, own
  <2>8. Fits(M, own, MakeStepEdges(t))
    <3>1. \A k : Ready(M, own, {}, k) /\ Ready(M, own, MakeDeps(t), k)
      BY <2>2 DEF Ready
    <3>2. StepFiles(t) = Actions(t) \cup Rules(t) \cup Copies(t)
      BY DEF StepFiles
    <3>3. ASSUME NEW F, F \subseteq StepFiles(t)
          PROVE  Fits(M, own, EdgesTo(F, {}))
      BY <2>7, <3>1, <3>3, StepsFit
    <3>4. Fits(M, own, MakeActions(t)) /\ Fits(M, own, MakeRules(t)) /\ Fits(M, own, MakeCopies(t))
      BY <2>3, <3>2, <3>3
    <3>5. Fits(M, own, steps)
      BY <3>4, FitsTogether
    <3> QED
      BY <2>3, <3>1, <3>5, MoreFits
  <2>9. Fits(M, own, MakeObjectEdges(t))
    <3>1. Ready(M, own, MakeDeps(t), 6)
      BY <2>2, ReadyFromBefore
    <3>2. Ready(M, own, StepFiles(t), 6)
      BY <2>7, OwnOrders, ReadyFromOwn
    <3>3. Ready(M, own, MakeDeps(t) \cup StepFiles(t), 6)
      BY <3>1, <3>2, ReadyTogether
    <3> QED
      BY <2>3, <2>7, <3>3, OwnOrders, StepsFit
  <2>10. Fits(M, own, MakeBinaryEdges(t))
    <3> DEFINE waits == IF Dict(t).type = "none" THEN MakeDeps(t) ELSE Objects(t) \cup LinkDeps(t)
    <3>1. Ready(M, own, StepFiles(t), 7) /\ Ready(M, own, Objects(t), 7)
      BY <2>7, OwnOrders, ReadyFromOwn
    <3>2. Ready(M, own, MakeDeps(t), 7) /\ Ready(M, own, LinkDeps(t), 7)
      BY <2>2, ReadyFromBefore
    <3>3. Ready(M, own, Objects(t) \cup LinkDeps(t), 7)
      BY <3>1, <3>2, ReadyTogether
    <3>4. Ready(M, own, waits, 7)
      BY <3>2, <3>3
    <3> HIDE DEF waits
    <3>5. Ready(M, own, StepFiles(t) \cup waits, 7)
      BY <3>1, <3>4, ReadyTogether
    <3>6. Fits(M, own, EdgesTo({File(t, "binary")}, StepFiles(t) \cup waits))
      <4>1. {File(t, "binary")} \subseteq own
        BY <2>7
      <4>2. \A f \in {File(t, "binary")} : Ready(M, own, StepFiles(t) \cup waits, Order(f[2]))
        BY <3>5, OwnOrders
      <4> QED
        BY <4>1, <4>2, StepsFit
    <3> QED
      BY <3>6 DEF MakeBinaryEdges, MakeRule, waits
  <2>11. Fits(M, own, InstallEdges(t))
    <3>1. CASE Installed(t)
      <4>1. {File(t, "installed")} \subseteq own /\ {File(t, "binary")} \subseteq own
        BY <2>6, <2>7, <3>1
      <4>2. Ready(M, own, {File(t, "binary")}, 8)
        BY <4>1, OwnOrders DEF Ready
      <4>3. \A f \in {File(t, "installed")} : Ready(M, own, {File(t, "binary")}, Order(f[2]))
        BY <4>2, OwnOrders
      <4>4. InstallEdges(t) = EdgesTo({File(t, "installed")}, {File(t, "binary")})
        BY <3>1 DEF InstallEdges, MakeRule
      <4> QED
        BY <4>1, <4>3, <4>4, StepsFit
    <3>2. CASE ~Installed(t)
      BY <3>2 DEF InstallEdges, Fits
    <3> QED
      BY <3>1, <3>2
  <2>12. Fits(M, own, es)
    BY <2>8, <2>9, <2>10, <2>11, FitsTogether DEF es
  <2>13. ASSUME Dict(t).type \in Linkables, NEW e \in es, e.out = File(t, "binary")
         PROVE  LinkDeps(t) \subseteq e.needs
    <3>1. /\ \A f \in Made(MakeStepEdges(t)) : Order(f[2]) # 7
          /\ \A f \in Made(MakeObjectEdges(t)) : Order(f[2]) # 7
          /\ \A f \in Made(InstallEdges(t)) : Order(f[2]) # 7
          /\ Order(e.out[2]) = 7
      BY <2>4, <2>5, <2>6, <2>13, OwnOrders
    <3>2. e \in MakeBinaryEdges(t)
      BY <3>1 DEF es, Made
    <3>3. MakeBinaryEdges(t) = EdgesTo({File(t, "binary")}, StepFiles(t) \cup (Objects(t) \cup LinkDeps(t)))
      BY <2>13 DEF MakeBinaryEdges, MakeRule, Linkables
    <3>4. e.needs = StepFiles(t) \cup (Objects(t) \cup LinkDeps(t))
      BY <3>2, <3>3, EdgeParts DEF EdgesTo
    <3> QED
      BY <3>4
  <2>14. /\ WrittenTargets' = WrittenTargets \cup {t}
         /\ Made(edges)' = Made(edges) \cup Made(es)
         /\ Orderly' /\ StepsOfTargets' /\ LinkedSteps' /\ GraphsStay
    BY <1>1, <2>1, <2>2, <2>7, <2>12, <2>13, StepsAdded DEF M, own
  <2>15. /\ MakeOutput(t).output \cup MakeOutput(t).link \subseteq Made(es)
         /\ Dict(t).type \in Libraries => MakeOutput(t).link = {File(t, "binary")}
    <3>1. File(t, "binary") \in own /\ (Installed(t) => File(t, "installed") \in own)
      BY <2>6, <2>7
    <3>2. MakeOutput(t).output = {File(t, IF Installed(t) THEN "installed" ELSE "binary")}
      BY DEF MakeOutput
    <3>3. MakeOutput(t).link = IF Dict(t).type \in Libraries THEN {File(t, "binary")} ELSE {}
      BY DEF MakeOutput
    <3>4. MakeOutput(t).output \subseteq own /\ MakeOutput(t).link \subseteq own
      BY <3>1, <3>2, <3>3
    <3> QED
      BY <3>3, <3>4 DEF own
  <2>16. TablesKept'
    BY <1>2, <2>1, <2>2, <2>14, <2>15, TablesGoOn
  <2>17. OutputsKept'
    BY <1>2, <2>1, <2>16 DEF OutputsKept, Written
  <2> QED
    BY <1>1, <2>1, <2>14, <2>17, TargetIsWritten
<1> QED
  BY <1>3, <1>4

\* A target of the android generator, with the same tables.
LEMMA AndroidGoesOn ==
  ASSUME GypInv, NEW t, AndroidWrite(t)
  PROVE  GypInv'
<1> DEFINE steps == AndroidActions(t) \cup AndroidRules(t) \cup AndroidCopies(t)
           binary == {AndroidBinaryEdge(t)}
           es == AndroidActions(t) \cup AndroidRules(t) \cup AndroidCopies(t)
                   \cup AndroidObjects(t) \cup {AndroidBinaryEdge(t)}
           M == Made(edges)
           own == Made(es)
<1>1. Turn("android", t)
  BY DEF AndroidWrite
<1>2. /\ stage = "write" /\ generator = "android" /\ t \notin WrittenTargets
      /\ ExportsKept => deps[t] \subseteq WrittenTargets
  BY <1>1, TheTurn
<1>3. CASE ~(deps[t] \subseteq DOMAIN outputs)
  <2>1. DOMAIN outputs = WrittenTargets
    BY <1>2 DEF GypInv, BuildInv, OutputsKept, TablesKept
  <2>2. Refused("unwritten") /\ ~ExportsKept
    BY <1>2, <1>3, <2>1 DEF AndroidWrite
  <2> QED
    BY <1>2, <2>2, RefusedKeeps DEF Refusals
<1>4. CASE deps[t] \subseteq DOMAIN outputs /\ Dict(t).type = "loadable_module"
  <2>1. Refused("not_supported")
    BY <1>4 DEF AndroidWrite
  <2> QED
    BY <1>2, <2>1, RefusedKeeps DEF Refusals
<1>5. CASE deps[t] \subseteq DOMAIN outputs /\ Dict(t).type # "loadable_module"
  <2>1. Written(t, es, {AndroidOutput(t)})
    BY <1>5 DEF AndroidWrite
  <2>2. /\ TablesKept /\ LocalLibraries(t) \subseteq M /\ TargetDependencies(t) \subseteq M
        /\ \A u \in deps[t] : Dict(u).type = "static_library" => File(u, "binary") \in LocalLibraries(t)
    BY <1>1, <1>5, TablesOfDependencies DEF LocalLibraries, TargetDependencies
  <2>3. /\ AndroidActions(t) = EdgesTo(Actions(t), TargetDependencies(t))
        /\ AndroidRules(t) = EdgesTo(Rules(t), TargetDependencies(t))
        /\ AndroidCopies(t) = EdgesTo(Copies(t), TargetDependencies(t))
        /\ AndroidObjects(t) = EdgesTo(Objects(t), TargetDependencies(t) \cup StepFiles(t))
    BY DEF AndroidActions, AndroidRules, AndroidCopies, AndroidObjects, AdditionalDependencies
  <2>4. /\ Made(AndroidActions(t)) = Actions(t) /\ Made(AndroidRules(t)) = Rules(t)
        /\ Made(AndroidCopies(t)) = Copies(t) /\ Made(AndroidObjects(t)) = Objects(t)
        /\ Made(binary) = {File(t, "binary")}
    BY <2>3, MadeOf DEF AndroidBinaryEdge
  <2> HIDE DEF binary
  <2>5. Made(steps) = StepFiles(t)
    <3>1. Made(steps) = Made(AndroidActions(t)) \cup Made(AndroidRules(t)) \cup Made(AndroidCopies(t))
      BY MadeOfThree
    <3> QED
      BY <2>4, <3>1 DEF StepFiles
  <2> HIDE DEF steps
  <2>6. es = steps \cup AndroidObjects(t) \cup binary
    BY DEF steps, binary
  <2>7. /\ own = StepFiles(t) \cup Objects(t) \cup {File(t, "binary")}
        /\ own \subseteq {t} \X FileKinds
    <3>1. own = Made(steps) \cup Made(AndroidObjects(t)) \cup Made(binary)
      BY <2>6, MadeOfThree
    <3>2. File(t, "binary") \in {t} \X FileKinds
      BY OwnKinds DEF FileKinds
    <3> HIDE DEF own
    <3> QED
      BY <2>4, <2>5, <3>1, <3>2, OwnKinds
  <2> HIDE DEF es, M, own
  <2>8. Fits(M, own, steps)
    <3>1. \A k : Ready(M, own, TargetDependencies(t), k)
      BY <2>2, ReadyFromBefore
    <3>2. StepFiles(t) = Actions(t) \cup Rules(t) \cup Copies(t)
      BY DEF StepFiles
    <3>3. ASSUME NEW F, F \subseteq StepFiles(t)
          PROVE  Fits(M, own, EdgesTo(F, TargetDependencies(t)))
      BY <2>7, <3>1, <3>3, StepsFit
    <3>4. /\ Fits(M, own, AndroidActions(t)) /\ Fits(M, own, AndroidRules(t))
          /\ Fits(M, own, AndroidCopies(t))
      BY <2>3, <3>2, <3>3
    <3> QED
      BY <3>4, FitsTogether DEF steps
  <2>9. Ready(M, own, TargetDependencies(t) \cup StepFiles(t), 6)
        /\ Ready(M, own, TargetDependencies(t) \cup StepFiles(t), 7)
    <3>1. /\ Ready(M, own, TargetDependencies(t), 6) /\ Ready(M, own, TargetDependencies(t), 7)
      BY <2>2, ReadyFromBefore
    <3>2. Ready(M, own, StepFiles(t), 6) /\ Ready(M, own, StepFiles(t), 7)
      BY <2>7, OwnOrders, ReadyFromOwn
    <3> QED
      BY <3>1, <3>2, ReadyTogether
  <2>10. Fits(M, own, AndroidObjects(t))
    BY <2>3, <2>7, <2>9, OwnOrders, StepsFit
  <2>11. Fits(M, own, binary)
    <3> DEFINE waits == IF Dict(t).type = "none" THEN AdditionalDependencies(t)
                        ELSE Objects(t) \cup LocalLibraries(t)
    <3>1. Ready(M, own, Objects(t), 7)
      BY <2>7, OwnOrders, ReadyFromOwn
    <3>2. Ready(M, own, LocalLibraries(t), 7)
      BY <2>2, ReadyFromBefore
    <3>3. Ready(M, own, Objects(t) \cup LocalLibraries(t), 7)
      BY <3>1, <3>2, ReadyTogether
    <3>4. Ready(M, own, waits, 7)
      BY <2>9, <3>3 DEF AdditionalDependencies
    <3> HIDE DEF waits
    <3>5. Fits(M, own, {Edge(File(t, "binary"), waits)})
      BY <2>7, <3>4, OwnOrders, StepFits
    <3> QED
      BY <3>5 DEF binary, waits, AndroidBinaryEdge
  <2>12. Fits(M, own, es)
    BY <2>6, <2>8, <2>10, <2>11, FitsTogether
  <2>13. ASSUME Dict(t).type \in Linkables, NEW e \in es, e.out = File(t, "binary")
         PROVE  LocalLibraries(t) \subseteq e.needs
    <3>1. /\ \A f \in Made(steps) : Order(f[2]) # 7
          /\ \A f \in Made(AndroidObjects(t)) : Order(f[2]) # 7
          /\ Order(e.out[2]) = 7
      BY <2>4, <2>5, <2>13, OwnOrders
    <3>2. e \in binary
      BY <2>6, <3>1 DEF Made
    <3>3. e = Edge(File(t, "binary"), Objects(t) \cup LocalLibraries(t))
      BY <2>13, <3>2 DEF binary, AndroidBinaryEdge, Linkables
    <3> QED
      BY <3>3, EdgeParts
  <2>14. /\ WrittenTargets' = WrittenTargets \cup {t}
         /\ Made(edges)' = Made(edges) \cup Made(es)
         /\ Orderly' /\ StepsOfTargets' /\ LinkedSteps' /\ GraphsStay
    BY <1>1, <2>1, <2>2, <2>7, <2>12, <2>13, StepsAdded DEF M, own
  <2>15. /\ AndroidOutput(t).output \cup AndroidOutput(t).link \subseteq Made(es)
         /\ Dict(t).type \in Libraries => AndroidOutput(t).link = {File(t, "binary")}
    <3>1. AndroidOutput(t).output = {File(t, "binary")}
      BY DEF AndroidOutput
    <3>2. AndroidOutput(t).link = IF Dict(t).type \in Libraries THEN {File(t, "binary")} ELSE {}
      BY DEF AndroidOutput
    <3> QED
      BY <2>7, <3>1, <3>2 DEF own
  <2>16. TablesKept'
    BY <1>2, <2>1, <2>2, <2>14, <2>15, TablesGoOn
  <2>17. OutputsKept'
    BY <1>2, <2>1, <2>16 DEF OutputsKept, Written
  <2> QED
    BY <1>1, <2>1, <2>14, <2>17, TargetIsWritten
<1> QED
  BY <1>3, <1>4, <1>5
-----------------------------------------------------------------------------
(* cmake, xcode and msvs                                                   *)

\* A target stands for the whole, and the libraries among them are there.
LEMMA WholesOfDependencies ==
  ASSUME WholesKept, NEW t, deps[t] \subseteq WrittenTargets
  PROVE  TargetsBefore(t) \subseteq Made(edges) /\ LinkedBefore(t) \subseteq Made(edges)
<1>1. \A d \in deps[t] : /\ File(d, "target") \in Made(edges)
                         /\ Dict(d).type \in Libraries => File(d, "binary") \in Made(edges)
  BY DEF WholesKept
<1> QED
  BY <1>1 DEF TargetsBefore, LinkedBefore

\* cmake links the static libraries that a target depends on.
LEMMA StaticBefore ==
  ASSUME NEW t, Dict(t).type \in Linkables, NEW u \in deps[t], Dict(u).type = "static_library"
  PROVE  File(u, "binary") \in LinkedBefore(t)
BY DEF LinkedBefore, Libraries

\* With one more target written as a whole, each target written is one.
LEMMA WholesGoOn ==
  ASSUME NEW t, NEW es, NEW record, Written(t, es, record), WholesKept,
         WrittenTargets' = WrittenTargets \cup {t}, GraphsStay,
         Made(edges)' = Made(edges) \cup Made(es),
         File(t, "target") \in Made(es), StepFiles(t) \subseteq Made(es),
         Dict(t).type \in Libraries => File(t, "binary") \in Made(es)
  PROVE  WholesKept'
<1>1. \A u : Dict(u)' = Dict(u)
  BY DEF GraphsStay
<1>2. \A u : StepFiles(u)' = StepFiles(u)
  BY <1>1 DEF StepFiles, Actions, Rules, Copies
<1> QED
  BY <1>1, <1>2 DEF WholesKept

\* A target of the cmake generator: names of targets stand for all their steps.
LEMMA CMakeGoesOn ==
  ASSUME GypInv, NEW t, CMakeWrite(t)
  PROVE  GypInv'
<1> DEFINE steps == CMakeActions(t) \cup CMakeRules(t) \cup CMakeCopies(t)
           inner == CMakeObjects(t) \cup CMakeBinaryEdges(t)
           w == TargetsBefore(t) \cup StepFiles(t)
           whole == Whole(File(t, "target"), w, inner)
           es == CustomTargets(t) \cup whole
           M == Made(edges)
           own == Made(es)
<1>1. Turn("cmake", t) /\ Written(t, es, {})
  BY DEF CMakeWrite
<1>2. /\ stage = "write" /\ generator = "cmake" /\ t \notin WrittenTargets
      /\ ExportsKept => deps[t] \subseteq WrittenTargets
  BY <1>1, TheTurn
<1>3. WholesKept
  BY <1>2 DEF GypInv, BuildInv, OutputsKept
<1>4. /\ CMakeActions(t) = EdgesTo(Actions(t), {}) /\ CMakeRules(t) = EdgesTo(Rules(t), {})
      /\ CMakeCopies(t) = EdgesTo(Copies(t), {}) /\ CMakeObjects(t) = EdgesTo(Objects(t), {})
      /\ CustomTargets(t) = Delayed(steps, TargetsBefore(t))
  BY DEF CMakeActions, CMakeRules, CMakeCopies, CMakeObjects, CustomTargets, Delayed
<1>5. /\ Made(CMakeActions(t)) = Actions(t) /\ Made(CMakeRules(t)) = Rules(t)
      /\ Made(CMakeCopies(t)) = Copies(t) /\ Made(CMakeObjects(t)) = Objects(t)
  BY <1>4, MadeOf
<1>6. Made(CustomTargets(t)) = StepFiles(t)
  <2>1. Made(steps) = Made(CMakeActions(t)) \cup Made(CMakeRules(t)) \cup Made(CMakeCopies(t))
    BY MadeOfThree
  <2> QED
    BY <1>4, <1>5, <2>1, MadeDelayed DEF StepFiles
<1>7. Made(CMakeBinaryEdges(t)) = IF CMakeType(t) = "none" THEN {} ELSE {File(t, "binary")}
  BY MadeOf DEF CMakeBinaryEdges
<1>8. Made(inner) = Objects(t) \cup Made(CMakeBinaryEdges(t))
  BY <1>5, MadeOf
<1> HIDE DEF inner, w
<1>9. Made(whole) = Made(inner) \cup {File(t, "target")}
  BY MadeOf
<1> HIDE DEF whole
<1>10. /\ own = StepFiles(t) \cup Made(inner) \cup {File(t, "target")}
       /\ own \subseteq {t} \X FileKinds
  <2>1. own = Made(CustomTargets(t)) \cup Made(whole)
    BY MadeOf
  <2>2. File(t, "binary") \in {t} \X FileKinds /\ File(t, "target") \in {t} \X FileKinds
    BY OwnKinds DEF FileKinds
  <2>3. Made(CMakeBinaryEdges(t)) \subseteq {t} \X FileKinds
    BY <1>7, <2>2
  <2>4. Made(inner) \subseteq {t} \X FileKinds
    BY <1>8, <2>3, OwnKinds
  <2> HIDE DEF own
  <2> QED
    BY <1>6, <1>9, <2>1, <2>2, <2>4, OwnKinds
<1>11. \A f \in Made(inner) : Order(f[2]) \in {6, 7}
  BY <1>7, <1>8, OwnOrders
<1> HIDE DEF es, M, own
<1>12. ASSUME ExportsKept
       PROVE  Fits(M, own, es)
  <2>1. TargetsBefore(t) \subseteq M /\ LinkedBefore(t) \subseteq M
    BY <1>2, <1>3, <1>12, WholesOfDependencies DEF M
  <2>2. StepFiles(t) = Actions(t) \cup Rules(t) \cup Copies(t)
    BY DEF StepFiles
  <2>3. \A k : Ready(M, own, {}, k) /\ Ready(M, own, TargetsBefore(t), k) /\ Ready(M, own, LinkedBefore(t), k)
    BY <2>1, ReadyFromBefore
  <2>4. ASSUME NEW F, F \subseteq own
        PROVE  Fits(M, own, EdgesTo(F, {}))
    BY <2>3, <2>4, StepsFit
  <2>5. Fits(M, own, CMakeActions(t)) /\ Fits(M, own, CMakeRules(t)) /\ Fits(M, own, CMakeCopies(t))
    BY <1>4, <1>10, <2>2, <2>4
  <2>6. Fits(M, own, steps)
    BY <2>5, FitsTogether
  <2>7. Fits(M, own, CustomTargets(t))
    BY <1>4, <2>3, <2>6, MoreFits
  <2>8. Fits(M, own, CMakeObjects(t))
    BY <1>4, <1>8, <1>10, <2>4
  <2>9. Fits(M, own, CMakeBinaryEdges(t))
    <3>1. CASE CMakeType(t) = "none"
      BY <3>1 DEF CMakeBinaryEdges, Fits
    <3>2. CASE CMakeType(t) # "none"
      <4>1. Ready(M, own, Objects(t), 7)
        BY <1>8, <1>10, OwnOrders, ReadyFromOwn
      <4>2. Ready(M, own, Objects(t) \cup LinkedBefore(t), 7)
        BY <2>3, <4>1, ReadyTogether
      <4>3. File(t, "binary") \in own
        BY <1>7, <1>8, <1>10, <3>2
      <4>4. Fits(M, own, {Edge(File(t, "binary"), Objects(t) \cup LinkedBefore(t))})
        BY <4>2, <4>3, OwnOrders, StepFits
      <4> QED
        BY <3>2, <4>4 DEF CMakeBinaryEdges
    <3> QED
      BY <3>1, <3>2
  <2>10. Fits(M, own, inner)
    BY <2>8, <2>9, FitsTogether DEF inner
  <2>11. ASSUME NEW k \in {6, 7, 9}
         PROVE  Ready(M, own, w, k)
    <3>1. Ready(M, own, StepFiles(t), k)
      BY <1>10, OwnOrders, ReadyFromOwn
    <3> QED
      BY <2>3, <3>1, ReadyTogether DEF w
  <2>12. Fits(M, own, whole)
    <3>1. Order(File(t, "target")[2]) = 9 /\ File(t, "target") \in own
      BY <1>10, OwnOrders
    <3>2. \A g \in Made(inner) : Ready(M, own, w, Order(g[2])) /\ Order(g[2]) < Order(File(t, "target")[2])
      BY <1>11, <2>11, <3>1
    <3>3. Ready(M, own, w, Order(File(t, "target")[2]))
      BY <2>11, <3>1
    <3> QED
      BY <2>10, <3>1, <3>2, <3>3, WholeFits DEF whole
  <2> QED
    BY <2>7, <2>12, FitsTogether DEF es
<1>13. ASSUME Dict(t).type \in Linkables, NEW e \in es, e.out = File(t, "binary")
       PROVE  LinkedBefore(t) \subseteq e.needs
  <2>1. /\ \A f \in Made(CustomTargets(t)) : Order(f[2]) # 7
        /\ \A f \in Made(CMakeObjects(t)) : Order(f[2]) # 7
        /\ Order(e.out[2]) = 7 /\ e.out # File(t, "target")
    <3>1. Order(e.out[2]) = 7 /\ Order(File(t, "target")[2]) = 9
      BY <1>13, OwnOrders
    <3> QED
      BY <1>5, <1>6, <3>1, OwnOrders
  <2>2. e \in whole
    BY <2>1 DEF es, Made
  <2>3. PICK b \in inner : e.out = b.out /\ b.needs \subseteq e.needs
    BY <2>1, <2>2, WholeParts DEF whole
  <2>4. b \in CMakeBinaryEdges(t)
    BY <2>1, <2>3 DEF inner, Made
  <2>5. b = Edge(File(t, "binary"), Objects(t) \cup LinkedBefore(t))
    BY <2>4 DEF CMakeBinaryEdges
  <2> QED
    BY <2>3, <2>5, EdgeParts
<1>14. /\ WrittenTargets' = WrittenTargets \cup {t}
       /\ Made(edges)' = Made(edges) \cup Made(es)
       /\ Orderly' /\ StepsOfTargets' /\ LinkedSteps' /\ GraphsStay
  <2>1. ExportsKept \/ generator \notin {"cmake", "msvs"} => Fits(Made(edges), Made(es), es)
    BY <1>2, <1>12 DEF M, own
  <2>2. Dict(t).type \in Linkables =>
          \A e \in es : e.out = File(t, "binary") =>
            \A u \in deps[t] \cap WrittenTargets :
              Dict(u).type = "static_library" /\ File(u, "binary") \in Made(edges) =>
                File(u, "binary") \in e.needs
    BY <1>13, StaticBefore
  <2>3. Made(es) \subseteq {t} \X FileKinds
    BY <1>10 DEF own
  <2> QED
    BY <1>1, <2>1, <2>2, <2>3, StepsAdded
<1>15. WholesKept'
  <2>1. Dict(t).type \in Libraries => File(t, "binary") \in own
    BY <1>7, <1>8, <1>10 DEF CMakeType, Libraries
  <2> QED
    BY <1>1, <1>3, <1>10, <1>14, <2>1, WholesGoOn DEF own
<1>16. OutputsKept'
  BY <1>1, <1>2, <1>15 DEF OutputsKept, Written
<1> QED
  BY <1>1, <1>14, <1>16, TargetIsWritten

\* A target of the msvs generator: a project, with references to those it depends on.
LEMMA MsvsGoesOn ==
  ASSUME GypInv, NEW t, MsvsWrite(t)
  PROVE  GypInv'
<1> DEFINE inner == CustomBuilds(t) \cup MsvsObjects(t) \cup MsvsOutput(t)
           es == Whole(File(t, "target"), ProjectReferences(t), inner)
           M == Made(edges)
           own == Made(es)
<1>1. Turn("msvs", t) /\ Written(t, es, {})
  BY DEF MsvsWrite
<1>2. /\ stage = "write" /\ generator = "msvs" /\ t \notin WrittenTargets
      /\ ExportsKept => deps[t] \subseteq WrittenTargets
  BY <1>1, TheTurn
<1>3. WholesKept
  BY <1>2 DEF GypInv, BuildInv, OutputsKept
<1>4. CustomBuilds(t) = EdgesTo(StepFiles(t), {})
  BY DEF CustomBuilds, MsvsActions, MsvsRules, MsvsCopies, StepFiles
<1>5. Made(CustomBuilds(t)) = StepFiles(t)
  BY <1>4, MadeOf
<1>6. MsvsObjects(t) = EdgesTo(Objects(t), StepFiles(t))
  BY <1>5 DEF MsvsObjects
<1>7. Made(MsvsObjects(t)) = Objects(t)
  BY <1>6, MadeOf
<1>8. Made(MsvsOutput(t)) = IF Dict(t).type = "none" THEN {} ELSE {File(t, "binary")}
  BY MadeOf DEF MsvsOutput
<1>9. Made(inner) = StepFiles(t) \cup Objects(t) \cup Made(MsvsOutput(t))
  BY <1>5, <1>7, MadeOfThree
<1> HIDE DEF inner
<1>10. /\ own = Made(inner) \cup {File(t, "target")}
       /\ own \subseteq {t} \X FileKinds
  <2>1. own = Made(inner) \cup {File(t, "target")}
    BY MadeOf
  <2>2. File(t, "binary") \in {t} \X FileKinds /\ File(t, "target") \in {t} \X FileKinds
    BY OwnKinds DEF FileKinds
  <2>3. Made(MsvsOutput(t)) \subseteq {t} \X FileKinds
    BY <1>8, <2>2
  <2>4. Made(inner) \subseteq {t} \X FileKinds
    BY <1>9, <2>3, OwnKinds
  <2> HIDE DEF own
  <2> QED
    BY <2>1, <2>2, <2>4
<1>11. \A f \in Made(inner) : Order(f[2]) \in 1..7
  <2>1. \A f \in StepFiles(t) \cup Objects(t) : Order(f[2]) \in {1, 2, 3, 5, 6}
    BY OwnOrders
  <2>2. \A f \in Made(MsvsOutput(t)) : Order(f[2]) = 7
    BY <1>8, OwnOrders
  <2> QED
    BY <1>9, <2>1, <2>2
<1> HIDE DEF es, M, own
<1>12. ASSUME ExportsKept
       PROVE  Fits(M, own, es)
  <2>1. TargetsBefore(t) \subseteq M /\ LinkedBefore(t) \subseteq M
    BY <1>2, <1>3, <1>12, WholesOfDependencies DEF M
  <2>2. \A k : Ready(M, own, {}, k) /\ Ready(M, own, TargetsBefore(t), k) /\ Ready(M, own, LinkedBefore(t), k)
    BY <2>1, ReadyFromBefore
  <2>3. Ready(M, own, StepFiles(t), 6) /\ Ready(M, own, StepFiles(t), 7) /\ Ready(M, own, Objects(t), 7)
    <3>1. StepFiles(t) \subseteq own /\ Objects(t) \subseteq own
      BY <1>9, <1>10
    <3>2. Ready(M, own, StepFiles(t), 6) /\ Ready(M, own, StepFiles(t), 7)
      BY <3>1, OwnOrders, ReadyFromOwn
    <3>3. Ready(M, own, Objects(t), 7)
      BY <3>1, OwnOrders, ReadyFromOwn
    <3> QED
      BY <3>2, <3>3
  <2>4. Fits(M, own, CustomBuilds(t))
    <3>1. StepFiles(t) \subseteq own /\ \A f \in StepFiles(t) : Ready(M, own, {}, Order(f[2]))
      BY <1>9, <1>10, <2>2
    <3>2. Fits(M, own, EdgesTo(StepFiles(t), {}))
      BY <3>1, StepsFit
    <3> QED
      BY <1>4, <3>2
  <2>5. Fits(M, own, MsvsObjects(t))
    BY <1>6, <1>9, <1>10, <2>3, OwnOrders, StepsFit
  <2>6. Fits(M, own, MsvsOutput(t))
    <3>1. CASE Dict(t).type = "none"
      BY <3>1 DEF MsvsOutput, Fits
    <3>2. CASE Dict(t).type # "none"
      <4>1. Ready(M, own, Objects(t) \cup StepFiles(t) \cup LinkedBefore(t), 7)
        BY <2>2, <2>3, ReadyTogether
      <4>2. File(t, "binary") \in own
        BY <1>8, <1>9, <1>10, <3>2
      <4>3. Fits(M, own, {Edge(File(t, "binary"), Objects(t) \cup StepFiles(t) \cup LinkedBefore(t))})
        BY <4>1, <4>2, OwnOrders, StepFits
      <4> QED
        BY <1>5, <3>2, <4>3 DEF MsvsOutput
    <3> QED
      BY <3>1, <3>2
  <2>7. Fits(M, own, inner)
    BY <2>4, <2>5, <2>6, FitsTogether DEF inner
  <2>8. Order(File(t, "target")[2]) = 9 /\ File(t, "target") \in own
    BY <1>10, OwnOrders
  <2>9. \A g \in Made(inner) : /\ Ready(M, own, TargetsBefore(t), Order(g[2]))
                               /\ Order(g[2]) < Order(File(t, "target")[2])
    BY <1>11, <2>2, <2>8
  <2>10. Ready(M, own, TargetsBefore(t), Order(File(t, "target")[2]))
    BY <2>2
  <2> QED
    BY <2>7, <2>8, <2>9, <2>10, WholeFits DEF es, ProjectReferences
<1>13. ASSUME Dict(t).type \in Linkables, NEW e \in es, e.out = File(t, "binary")
       PROVE  LinkedBefore(t) \subseteq e.needs
  <2>1. /\ \A f \in Made(CustomBuilds(t)) : Order(f[2]) # 7
        /\ \A f \in Made(MsvsObjects(t)) : Order(f[2]) # 7
        /\ Order(e.out[2]) = 7 /\ e.out # File(t, "target")
    <3>1. Order(e.out[2]) = 7 /\ Order(File(t, "target")[2]) = 9
      BY <1>13, OwnOrders
    <3> QED
      BY <1>5, <1>7, <3>1, OwnOrders
  <2>2. PICK b \in inner : e.out = b.out /\ b.needs \subseteq e.needs
    BY <2>1, WholeParts DEF es
  <2>3. b \in MsvsOutput(t)
    BY <2>1, <2>2 DEF inner, Made
  <2>4. b = Edge(File(t, "binary"), Objects(t) \cup Made(CustomBuilds(t)) \cup LinkedBefore(t))
    BY <2>3 DEF MsvsOutput
  <2> QED
    BY <2>2, <2>4, EdgeParts
<1>14. /\ WrittenTargets' = WrittenTargets \cup {t}
       /\ Made(edges)' = Made(edges) \cup Made(es)
       /\ Orderly' /\ StepsOfTargets' /\ LinkedSteps' /\ GraphsStay
  <2>1. ExportsKept \/ generator \notin {"cmake", "msvs"} => Fits(Made(edges), Made(es), es)
    BY <1>2, <1>12 DEF M, own
  <2>2. Dict(t).type \in Linkables =>
          \A e \in es : e.out = File(t, "binary") =>
            \A u \in deps[t] \cap WrittenTargets :
              Dict(u).type = "static_library" /\ File(u, "binary") \in Made(edges) =>
                File(u, "binary") \in e.needs
    BY <1>13, StaticBefore
  <2>3. Made(es) \subseteq {t} \X FileKinds
    BY <1>10 DEF own
  <2> QED
    BY <1>1, <2>1, <2>2, <2>3, StepsAdded
<1>15. WholesKept'
  <2>1. Dict(t).type \in Libraries => File(t, "binary") \in own
    BY <1>8, <1>9, <1>10 DEF Libraries
  <2> QED
    BY <1>1, <1>3, <1>9, <1>10, <1>14, <2>1, WholesGoOn DEF own
<1>16. OutputsKept'
  BY <1>1, <1>2, <1>15 DEF OutputsKept, Written
<1> QED
  BY <1>1, <1>14, <1>16, TargetIsWritten

\* The phases of scripts, in xcode: actions, and then rules in their order.
LEMMA ScriptPhasesFit ==
  ASSUME NEW t, NEW M, NEW own, Actions(t) \cup Rules(t) \subseteq own
  PROVE  /\ Made(ScriptPhases(t)) = Actions(t) \cup Rules(t)
         /\ Fits(M, own, ScriptPhases(t))
<1>1. ActionPhases(t) = EdgesTo(Actions(t), {})
  BY DEF ActionPhases
<1>2. Made(ActionPhases(t)) = Actions(t)
  BY <1>1, MadeOf
<1> DEFINE waits(f) == Actions(t) \cup (IF f = File(t, "rule_2") THEN {File(t, "rule")} ELSE {})
<1>3. RulePhases(t) = {Edge(f, waits(f)) : f \in Rules(t)}
  BY <1>2 DEF RulePhases
<1> HIDE DEF waits
<1>4. Made(RulePhases(t)) = Rules(t)
  BY <1>3, EdgeParts DEF Made
<1>5. Made(ScriptPhases(t)) = Actions(t) \cup Rules(t)
  BY <1>2, <1>4, MadeOf DEF ScriptPhases
<1>6. Fits(M, own, ActionPhases(t))
  <2>1. \A k : Ready(M, own, {}, k)
    BY DEF Ready
  <2> QED
    BY <1>1, <2>1, StepsFit
<1>7. Fits(M, own, RulePhases(t))
  <2> SUFFICES ASSUME NEW e \in RulePhases(t)
               PROVE  e.out \in own /\ Ready(M, own, e.needs, Order(e.out[2]))
    BY DEF Fits
  <2>1. PICK f \in Rules(t) : e = Edge(f, waits(f))
    BY <1>3
  <2>2. e.out = f /\ e.needs = waits(f) /\ f \in own
    BY <2>1, EdgeParts
  <2>3. Order(f[2]) \in {2, 3}
    BY OwnOrders
  <2>4. Ready(M, own, Actions(t), Order(f[2]))
    <3>1. \A a \in Actions(t) : Order(a[2]) = 1
      BY OwnOrders
    <3> QED
      BY <2>3, <3>1, ReadyFromOwn
  <2>5. CASE f = File(t, "rule_2")
    <3>1. File(t, "rule") \in own
      BY <2>5, OwnFiles
    <3>2. Order(f[2]) = 3 /\ Order(File(t, "rule")[2]) = 2
      BY <2>5, OwnOrders
    <3>3. Ready(M, own, {File(t, "rule")}, Order(f[2]))
      BY <3>1, <3>2 DEF Ready
    <3>4. Ready(M, own, Actions(t) \cup {File(t, "rule")}, Order(f[2]))
      BY <2>4, <3>3, ReadyTogether
    <3> QED
      BY <2>2, <2>5, <3>4 DEF waits
  <2>6. CASE f # File(t, "rule_2")
    BY <2>2, <2>4, <2>6 DEF waits
  <2> QED
    BY <2>5, <2>6
<1>8. Fits(M, own, ScriptPhases(t))
  BY <1>6, <1>7, FitsTogether DEF ScriptPhases
<1> QED
  BY <1>5, <1>8

\* A target of the xcode generator, with the support target for its scripts.
LEMMA XcodeGoesOn ==
  ASSUME GypInv, NEW t, XcodeWrite(t)
  PROVE  GypInv'
<1> DEFINE inner == FirstPhases(t) \cup SourcesPhase(t) \cup FrameworksPhase(t)
           w == TargetsBefore(t) \cup Support(t)
           whole == Whole(File(t, "target"), w, inner)
           es == SupportEdges(t) \cup whole
           M == Made(edges)
           own == Made(es)
<1>1. Turn("xcode", t)
  BY DEF XcodeWrite
<1>2. /\ stage = "write" /\ generator = "xcode" /\ t \notin WrittenTargets
      /\ ExportsKept => deps[t] \subseteq WrittenTargets
  BY <1>1, TheTurn
<1>3. WholesKept /\ DOMAIN outputs = WrittenTargets
  BY <1>2 DEF GypInv, BuildInv, OutputsKept
<1>4. CASE ~(deps[t] \subseteq DOMAIN outputs)
  <2>1. Refused("unwritten") /\ ~ExportsKept
    BY <1>2, <1>3, <1>4 DEF XcodeWrite
  <2> QED
    BY <1>2, <2>1, RefusedKeeps DEF Refusals
<1>5. CASE deps[t] \subseteq DOMAIN outputs
  <2>1. Written(t, es, {"xct"})
    BY <1>5 DEF XcodeWrite
  <2>2. TargetsBefore(t) \subseteq M /\ LinkedBefore(t) \subseteq M
    BY <1>3, <1>5, WholesOfDependencies
  <2>3. StepFiles(t) = Actions(t) \cup Rules(t) \cup Copies(t)
    BY DEF StepFiles
  <2>4. Made(ScriptPhases(t)) = Actions(t) \cup Rules(t)
    BY ScriptPhasesFit
  <2>5. /\ CopyPhases(t) = EdgesTo(Copies(t), {}) /\ Made(CopyPhases(t)) = Copies(t)
        /\ SourcesPhase(t) = EdgesTo(Objects(t), Made(FirstPhases(t)))
        /\ Made(SourcesPhase(t)) = Objects(t)
    BY MadeOf DEF CopyPhases, SourcesPhase
  <2>6. Made(FirstPhases(t)) = Copies(t) \cup (IF Supported(t) THEN {} ELSE Actions(t) \cup Rules(t))
    BY <2>4, <2>5, MadeOf DEF FirstPhases
  <2>7. Made(SupportEdges(t)) = IF Supported(t) THEN Actions(t) \cup Rules(t) \cup Support(t) ELSE {}
    <3>1. CASE Supported(t)
      <4>1. Made(Whole(File(t, "support"), TargetsBefore(t), ScriptPhases(t)))
              = Made(ScriptPhases(t)) \cup {File(t, "support")}
        BY MadeOf
      <4> QED
        BY <2>4, <3>1, <4>1 DEF SupportEdges, Support
    <3>2. CASE ~Supported(t)
      BY <3>2, MadeOf DEF SupportEdges
    <3> QED
      BY <3>1, <3>2
  <2>8. Made(FrameworksPhase(t)) = IF Native(t) THEN {File(t, "binary")} ELSE {}
    BY MadeOf DEF FrameworksPhase
  <2>9. Made(inner) = Made(FirstPhases(t)) \cup Objects(t) \cup Made(FrameworksPhase(t))
    BY <2>5, MadeOfThree
  <2> HIDE DEF inner, w
  <2>10. Made(whole) = Made(inner) \cup {File(t, "target")}
    BY MadeOf
  <2> HIDE DEF whole
  <2>11. own = Made(SupportEdges(t)) \cup Made(inner) \cup {File(t, "target")}
    <3>1. own = Made(SupportEdges(t)) \cup Made(whole)
      BY MadeOf
    <3> QED
      BY <2>10, <3>1
  <2> HIDE DEF es, M, own
  <2>12. /\ StepFiles(t) \subseteq own /\ Support(t) \subseteq own /\ Objects(t) \subseteq own
         /\ Made(FirstPhases(t)) \subseteq own /\ Made(FrameworksPhase(t)) \subseteq own
         /\ File(t, "target") \in own
    <3>1. Supported(t) \/ Support(t) = {}
      BY DEF Support
    <3> QED
      BY <2>3, <2>6, <2>7, <2>9, <2>11, <3>1
  <2>13. own \subseteq {t} \X FileKinds
    <3>1. {File(t, "binary"), File(t, "target"), File(t, "support")} \subseteq {t} \X FileKinds
      BY OwnKinds DEF FileKinds
    <3>2. Support(t) \subseteq {t} \X FileKinds
      BY <3>1 DEF Support
    <3>3. Made(FrameworksPhase(t)) \subseteq {t} \X FileKinds
      BY <2>8, <3>1
    <3>4. Made(SupportEdges(t)) \subseteq {t} \X FileKinds
      BY <2>3, <2>7, <3>2, OwnKinds
    <3>5. Made(inner) \subseteq {t} \X FileKinds
      BY <2>3, <2>6, <2>9, <3>3, OwnKinds
    <3> QED
      BY <2>11, <3>1, <3>4, <3>5
  <2>14. /\ \A f \in Made(FirstPhases(t)) : Order(f[2]) \in 1..5 /\ (Supported(t) => Order(f[2]) = 5)
         /\ \A f \in Objects(t) : Order(f[2]) = 6
         /\ \A f \in Made(FrameworksPhase(t)) : Order(f[2]) = 7
    <3>1. \A f \in Copies(t) : Order(f[2]) = 5
      BY OwnOrders
    <3>2. \A f \in Actions(t) \cup Rules(t) : Order(f[2]) \in 1..5
      BY OwnOrders
    <3>3. \A f \in Made(FrameworksPhase(t)) : Order(f[2]) = 7
      BY <2>8, OwnOrders
    <3> QED
      BY <2>6, <3>1, <3>2, <3>3, OwnOrders
  <2>15. /\ \A f \in Made(inner) : Order(f[2]) \in 1..7 /\ (Supported(t) => Order(f[2]) > 4)
         /\ \A f \in Made(SupportEdges(t)) : Order(f[2]) \in 1..4
         /\ \A f \in Support(t) : Order(f[2]) = 4
    <3>1. \A f \in Support(t) : Order(f[2]) = 4
      BY OwnOrders DEF Support
    <3>2. \A f \in Actions(t) \cup Rules(t) : Order(f[2]) \in 1..4
      BY OwnOrders
    <3> QED
      BY <2>7, <2>9, <2>14, <3>1, <3>2
  <2>16. \A k : /\ Ready(M, own, {}, k) /\ Ready(M, own, TargetsBefore(t), k)
                /\ Ready(M, own, LinkedBefore(t), k)
    BY <2>2, ReadyFromBefore
  <2>17. Fits(M, own, ScriptPhases(t))
    BY <2>3, <2>12, ScriptPhasesFit
  <2>18. Fits(M, own, SupportEdges(t))
    <3>1. CASE Supported(t)
      <4>1. Order(File(t, "support")[2]) = 4 /\ File(t, "support") \in own
        BY <2>12, <3>1, OwnOrders DEF Support
      <4>2. \A g \in Made(ScriptPhases(t)) : Order(g[2]) \in 1..3
        BY <2>4, OwnOrders
      <4>3. \A g \in Made(ScriptPhases(t)) : /\ Ready(M, own, TargetsBefore(t), Order(g[2]))
                                            /\ Order(g[2]) < Order(File(t, "support")[2])
        BY <2>16, <4>1, <4>2
      <4>4. Ready(M, own, TargetsBefore(t), Order(File(t, "support")[2]))
        BY <2>16
      <4>5. Fits(M, own, Whole(File(t, "support"), TargetsBefore(t), ScriptPhases(t)))
        BY <2>17, <4>1, <4>3, <4>4, WholeFits
      <4> QED
        BY <3>1, <4>5 DEF SupportEdges
    <3>2. CASE ~Supported(t)
      BY <3>2 DEF SupportEdges, Fits
    <3> QED
      BY <3>1, <3>2
  <2>19. Fits(M, own, FirstPhases(t))
    <3>1. Fits(M, own, CopyPhases(t))
      BY <2>3, <2>5, <2>12, <2>16, StepsFit
    <3>2. Fits(M, own, {})
      BY DEF Fits
    <3>3. Fits(M, own, IF Supported(t) THEN {} ELSE ScriptPhases(t))
      BY <2>17, <3>2
    <3> QED
      BY <3>1, <3>3, FitsTogether DEF FirstPhases
  <2>20. Ready(M, own, Made(FirstPhases(t)), 6) /\ Ready(M, own, Made(FirstPhases(t)), 7)
    <3>1. \A f \in Made(FirstPhases(t)) : Order(f[2]) < 6 /\ Order(f[2]) < 7
      BY <2>14
    <3> QED
      BY <2>12, <3>1, ReadyFromOwn
  <2>21. Fits(M, own, SourcesPhase(t))
    BY <2>5, <2>12, <2>14, <2>20, StepsFit
  <2>22. Fits(M, own, FrameworksPhase(t))
    <3> DEFINE waits == Objects(t) \cup Made(FirstPhases(t)) \cup LinkedBefore(t)
    <3>1. CASE Native(t)
      <4>1. Ready(M, own, Objects(t), 7)
        BY <2>12, OwnOrders, ReadyFromOwn
      <4>2. Ready(M, own, Objects(t) \cup Made(FirstPhases(t)), 7)
        BY <2>20, <4>1, ReadyTogether
      <4>3. Ready(M, own, waits, 7)
        BY <2>16, <4>2, ReadyTogether
      <4> HIDE DEF waits
      <4>4. File(t, "binary") \in own
        BY <2>8, <2>12, <3>1
      <4>5. Fits(M, own, {Edge(File(t, "binary"), waits)})
        BY <4>3, <4>4, OwnOrders, StepFits
      <4> QED
        BY <3>1, <4>5 DEF FrameworksPhase, waits
    <3>2. CASE ~Native(t)
      BY <3>2 DEF FrameworksPhase, Fits
    <3> QED
      BY <3>1, <3>2
  <2>23. Fits(M, own, inner)
    BY <2>19, <2>21, <2>22, FitsTogether DEF inner
  <2>24. Fits(M, own, whole)
    <3>1. Order(File(t, "target")[2]) = 9
      BY OwnOrders
    <3>2. ASSUME NEW k \in 1..9, Supported(t) => k > 4
          PROVE  Ready(M, own, w, k)
      <4>1. Ready(M, own, Support(t), k)
        <5>1. \A f \in Support(t) : Order(f[2]) < k
          BY <2>15, <3>2 DEF Support
        <5> QED
          BY <2>12, <5>1, ReadyFromOwn
      <4> QED
        BY <2>16, <4>1, ReadyTogether DEF w
    <3>3. \A g \in Made(inner) : Ready(M, own, w, Order(g[2])) /\ Order(g[2]) < Order(File(t, "target")[2])
      BY <2>15, <3>1, <3>2
    <3>4. Ready(M, own, w, Order(File(t, "target")[2]))
      BY <3>1, <3>2
    <3> QED
      BY <2>12, <2>23, <3>3, <3>4, WholeFits DEF whole
  <2>25. Fits(M, own, es)
    BY <2>18, <2>24, FitsTogether DEF es
  <2>26. ASSUME Dict(t).type \in Linkables, NEW e \in es, e.out = File(t, "binary")
         PROVE  LinkedBefore(t) \subseteq e.needs
    <3>1. Order(e.out[2]) = 7 /\ e.out # File(t, "target")
      <4>1. Order(e.out[2]) = 7 /\ Order(File(t, "target")[2]) = 9
        BY <2>26, OwnOrders
      <4> QED
        BY <4>1
    <3>2. e \in whole
      BY <2>15, <3>1 DEF es, Made
    <3>3. PICK b \in inner : e.out = b.out /\ b.needs \subseteq e.needs
      BY <3>1, <3>2, WholeParts DEF whole
    <3>4. b \notin FirstPhases(t) /\ b \notin SourcesPhase(t)
      <4>1. b.out \notin Made(FirstPhases(t)) /\ b.out \notin Made(SourcesPhase(t))
        BY <2>5, <2>14, <3>1, <3>3
      <4> QED
        BY <4>1 DEF Made
    <3>5. b = Edge(File(t, "binary"), Objects(t) \cup Made(FirstPhases(t)) \cup LinkedBefore(t))
      BY <3>4 DEF inner, FrameworksPhase
    <3> QED
      BY <3>3, <3>5, EdgeParts
  <2>27. /\ WrittenTargets' = WrittenTargets \cup {t}
         /\ Made(edges)' = Made(edges) \cup Made(es)
         /\ Orderly' /\ StepsOfTargets' /\ LinkedSteps' /\ GraphsStay
    <3>1. Fits(Made(edges), Made(es), es) /\ Made(es) \subseteq {t} \X FileKinds
      BY <2>13, <2>25 DEF M, own
    <3>2. Dict(t).type \in Linkables =>
            \A e \in es : e.out = File(t, "binary") =>
              \A u \in deps[t] \cap WrittenTargets :
                Dict(u).type = "static_library" /\ File(u, "binary") \in Made(edges) =>
                  File(u, "binary") \in e.needs
      BY <2>26, StaticBefore
    <3> QED
      BY <1>1, <2>1, <3>1, <3>2, StepsAdded
  <2>28. WholesKept'
    <3>1. Dict(t).type \in Libraries => File(t, "binary") \in own
      BY <2>8, <2>12 DEF Native, Libraries
    <3> QED
      BY <1>3, <2>1, <2>12, <2>27, <3>1, WholesGoOn DEF own
  <2>29. DOMAIN outputs' = WrittenTargets'
    BY <1>3, <2>1, <2>27, RecordKept
  <2>30. OutputsKept'
    BY <1>2, <2>1, <2>28, <2>29 DEF OutputsKept, Written
  <2> QED
    BY <1>1, <2>1, <2>27, <2>30, TargetIsWritten
<1> QED
  BY <1>4, <1>5
-----------------------------------------------------------------------------
(* ninja                                                                   *)

\* What Target objects say is to be waited for is there.
LEMMA NinjaWaits ==
  ASSUME NinjaKept, NEW t
  PROVE  /\ AllOf(Outputs(t), PreActionInput) \subseteq Made(edges)
         /\ AllOf(Outputs(t), PreCompileInput) \subseteq Made(edges)
         /\ AllOf(Outputs(t), FinalOutput) \subseteq Made(edges)
         /\ \A u \in deps[t] \cap DOMAIN outputs :
              FinalOutput(outputs[u]) \subseteq AllOf(Outputs(t), FinalOutput)
<1>1. ASSUME NEW o \in Outputs(t)
      PROVE  /\ PreActionInput(o) \subseteq Made(edges) /\ PreCompileInput(o) \subseteq Made(edges)
             /\ FinalOutput(o) \subseteq Made(edges)
  <2>1. PICK d \in DOMAIN outputs : o = outputs[d]
    BY DEF Outputs
  <2>2. /\ o.preaction \subseteq Made(edges) /\ o.precompile \subseteq Made(edges)
        /\ o.actions \subseteq Made(edges) /\ o.binary \subseteq Made(edges)
    BY <2>1 DEF NinjaKept
  <2> QED
    BY <2>2 DEF PreActionInput, PreCompileInput, FinalOutput
<1>2. \A u \in deps[t] \cap DOMAIN outputs : outputs[u] \in Outputs(t)
  BY DEF Outputs
<1>3. AllOf(Outputs(t), PreActionInput) \subseteq Made(edges)
  BY <1>1 DEF AllOf
<1>4. AllOf(Outputs(t), PreCompileInput) \subseteq Made(edges)
  BY <1>1 DEF AllOf
<1>5. AllOf(Outputs(t), FinalOutput) \subseteq Made(edges)
  BY <1>1 DEF AllOf
<1>6. \A u \in deps[t] \cap DOMAIN outputs :
        FinalOutput(outputs[u]) \subseteq AllOf(Outputs(t), FinalOutput)
  BY <1>2 DEF AllOf
<1> QED
  BY <1>3, <1>4, <1>5, <1>6

\* The steps of actions, rules and copies.
LEMMA NinjaStepsFit ==
  ASSUME NEW t, NEW M, NEW own, NEW w, w \subseteq M, StepFiles(t) \subseteq own
  PROVE  /\ Made(ActionsRulesCopies(t, w)) = StepFiles(t)
         /\ Fits(M, own, ActionsRulesCopies(t, w))
<1> DEFINE waits(f) == IF Dict(t).steps = "many_rules" /\ f = File(t, "rule_2") THEN {} ELSE w
<1>1. /\ NinjaActions(t, w) = EdgesTo(Actions(t), w) /\ NinjaCopies(t, w) = EdgesTo(Copies(t), w)
      /\ NinjaRules(t, w) = {Edge(f, waits(f)) : f \in Rules(t)}
  BY DEF NinjaActions, NinjaCopies, NinjaRules
<1>2. \A f : waits(f) \subseteq M
  OBVIOUS
<1> HIDE DEF waits
<1>3. Made(NinjaRules(t, w)) = Rules(t)
  BY <1>1, EdgeParts DEF Made
<1>4. Made(NinjaActions(t, w)) = Actions(t) /\ Made(NinjaCopies(t, w)) = Copies(t)
  BY <1>1, MadeOf
<1>5. StepFiles(t) = Actions(t) \cup Rules(t) \cup Copies(t)
  BY DEF StepFiles
<1>6. Made(ActionsRulesCopies(t, w)) = StepFiles(t)
  <2>1. Made(NinjaActions(t, w) \cup NinjaRules(t, w) \cup NinjaCopies(t, w))
          = Made(NinjaActions(t, w)) \cup Made(NinjaRules(t, w)) \cup Made(NinjaCopies(t, w))
    BY MadeOfThree
  <2> QED
    BY <1>3, <1>4, <1>5, <2>1 DEF ActionsRulesCopies
<1>7. \A k : Ready(M, own, w, k)
  BY ReadyFromBefore
<1>8. Fits(M, own, NinjaActions(t, w))
  <2>1. Actions(t) \subseteq own /\ \A f \in Actions(t) : Ready(M, own, w, Order(f[2]))
    BY <1>5, <1>7
  <2> QED
    BY <1>1, <2>1, StepsFit
<1>9. Fits(M, own, NinjaCopies(t, w))
  <2>1. Copies(t) \subseteq own /\ \A f \in Copies(t) : Ready(M, own, w, Order(f[2]))
    BY <1>5, <1>7
  <2> QED
    BY <1>1, <2>1, StepsFit
<1>10. Fits(M, own, NinjaRules(t, w))
  <2> SUFFICES ASSUME NEW e \in NinjaRules(t, w)
               PROVE  e.out \in own /\ Ready(M, own, e.needs, Order(e.out[2]))
    BY DEF Fits
  <2>1. PICK f \in Rules(t) : e = Edge(f, waits(f))
    BY <1>1
  <2>2. e.out = f /\ e.needs = waits(f) /\ f \in own
    BY <1>5, <2>1, EdgeParts
  <2> QED
    BY <1>2, <2>2, ReadyFromBefore
<1> QED
  BY <1>6, <1>8, <1>9, <1>10, FitsTogether DEF ActionsRulesCopies

\* A Target object is kept of what has something to be waited for.
LEMMA NinjaGoesOn ==
  ASSUME GypInv, NEW t, WriteSpec(t)
  PROVE  GypInv'
<1> DEFINE pre == AllOf(Outputs(t), PreActionInput)
           precompile == AllOf(Outputs(t), PreCompileInput)
           final == AllOf(Outputs(t), FinalOutput)
           actions == StepFiles(t)
           waited == IF actions # {} THEN actions ELSE pre
           b == Binary(t, Objects(t), waited)
           x == IF actions # {} THEN actions ELSE precompile
           file == File(t, "binary")
           arc == ActionsRulesCopies(t, pre)
           es == arc \cup b.edges \cup NinjaObjects(t, x)
           object == TargetObject(b.type, pre, precompile, actions, b.binary)
           record == IF b.binary = {} THEN {} ELSE {object}
           M == Made(edges)
           own == Made(es)
<1>1. Turn("ninja", t) /\ Written(t, es, record)
  BY DEF WriteSpec
<1>2. stage = "write" /\ generator = "ninja" /\ t \notin WrittenTargets
  BY <1>1, TheTurn
<1>3. NinjaKept
  BY <1>2 DEF GypInv, BuildInv, OutputsKept
<1>4. /\ pre \subseteq M /\ precompile \subseteq M /\ final \subseteq M
      /\ \A u \in deps[t] \cap DOMAIN outputs : FinalOutput(outputs[u]) \subseteq final
  BY <1>3, NinjaWaits
<1>5. \/ b.edges = {} /\ b.binary = waited
      \/ /\ b.binary = {file}
         /\ b.edges = {IF Dict(t).type = "static_library" THEN Edge(file, Objects(t) \cup waited)
                       ELSE Edge(file, Objects(t) \cup final)}
  <2> HIDE DEF waited
  <2> QED
    BY DEF Binary, Link, LinkWaits
<1> HIDE DEF b
<1>6. /\ NinjaObjects(t, x) = EdgesTo(Objects(t), x)
      /\ Made(NinjaObjects(t, x)) = Objects(t)
      /\ Made(b.edges) = IF b.edges = {} THEN {} ELSE {file}
  <2>1. NinjaObjects(t, x) = EdgesTo(Objects(t), x)
    BY DEF NinjaObjects
  <2>2. Made(EdgesTo(Objects(t), x)) = Objects(t)
    BY MadeOf
  <2>3. Made(b.edges) = IF b.edges = {} THEN {} ELSE {file}
    <3>1. CASE b.edges = {}
      BY <3>1, MadeOf
    <3>2. CASE b.edges # {}
      <4>1. PICK w : b.edges = {Edge(file, w)}
        BY <1>5, <3>2
      <4>2. Made({Edge(file, w)}) = {file}
        BY MadeOf
      <4> QED
        BY <3>2, <4>1, <4>2
    <3> QED
      BY <3>1, <3>2
  <2> QED
    BY <2>1, <2>2, <2>3
<1>7. Made(arc) = StepFiles(t)
  BY <1>4, NinjaStepsFit
<1> HIDE DEF arc, x, pre, precompile, final
<1>8. /\ own = StepFiles(t) \cup Made(b.edges) \cup Objects(t)
      /\ own \subseteq {t} \X FileKinds
  <2>1. own = Made(arc) \cup Made(b.edges) \cup Made(NinjaObjects(t, x))
    BY MadeOfThree
  <2>2. file \in {t} \X FileKinds
    BY OwnKinds DEF FileKinds
  <2>3. Made(b.edges) \subseteq {t} \X FileKinds
    BY <1>6, <2>2
  <2> HIDE DEF own
  <2> QED
    BY <1>6, <1>7, <2>1, <2>3, OwnKinds
<1> HIDE DEF es, M, own, record
<1>9. Fits(M, own, arc)
  BY <1>4, <1>8, NinjaStepsFit DEF arc
<1>10. Ready(M, own, StepFiles(t), 6) /\ Ready(M, own, StepFiles(t), 7) /\ Ready(M, own, Objects(t), 7)
  <2>1. StepFiles(t) \subseteq own /\ Objects(t) \subseteq own
    BY <1>8
  <2>2. Ready(M, own, StepFiles(t), 6) /\ Ready(M, own, StepFiles(t), 7)
    BY <2>1, OwnOrders, ReadyFromOwn
  <2>3. Ready(M, own, Objects(t), 7)
    BY <2>1, OwnOrders, ReadyFromOwn
  <2> QED
    BY <2>2, <2>3
<1>11. /\ \A k : Ready(M, own, pre, k) /\ Ready(M, own, precompile, k) /\ Ready(M, own, final, k)
       /\ Ready(M, own, waited, 7) /\ Ready(M, own, x, 6)
  <2>1. \A k : Ready(M, own, pre, k) /\ Ready(M, own, precompile, k) /\ Ready(M, own, final, k)
    BY <1>4, ReadyFromBefore
  <2> QED
    BY <1>10, <2>1 DEF x
<1>12. Fits(M, own, NinjaObjects(t, x))
  <2>1. Objects(t) \subseteq own /\ \A f \in Objects(t) : Ready(M, own, x, Order(f[2]))
    BY <1>8, <1>11, OwnOrders
  <2> QED
    BY <1>6, <2>1, StepsFit
<1>13. waited \subseteq M \cup own
  BY <1>4, <1>8
<1> HIDE DEF waited
<1>14. Fits(M, own, b.edges)
  <2>1. CASE b.edges = {}
    BY <2>1 DEF Fits
  <2>2. CASE b.edges # {}
    <3>1. file \in own
      BY <1>6, <1>8, <2>2
    <3>2. Ready(M, own, Objects(t) \cup waited, 7) /\ Ready(M, own, Objects(t) \cup final, 7)
      BY <1>10, <1>11, ReadyTogether
    <3>3. Fits(M, own, {Edge(file, Objects(t) \cup waited)})
      BY <3>1, <3>2, OwnOrders, StepFits
    <3>4. Fits(M, own, {Edge(file, Objects(t) \cup final)})
      BY <3>1, <3>2, OwnOrders, StepFits
    <3> QED
      BY <1>5, <2>2, <3>3, <3>4
  <2> QED
    BY <2>1, <2>2
<1>15. Fits(M, own, es)
  BY <1>9, <1>12, <1>14, FitsTogether DEF es
<1>16. ASSUME Dict(t).type \in Linkables, NEW e \in es, e.out = file
       PROVE  final \subseteq e.needs
  <2>1. /\ \A f \in Made(arc) : Order(f[2]) # 7
        /\ \A f \in Made(NinjaObjects(t, x)) : Order(f[2]) # 7
        /\ Order(e.out[2]) = 7
    BY <1>6, <1>7, <1>16, OwnOrders
  <2>2. e \in b.edges
    BY <2>1 DEF es, Made
  <2>3. e = Edge(file, Objects(t) \cup final)
    BY <1>5, <1>16, <2>2 DEF Linkables
  <2> QED
    BY <2>3, EdgeParts
<1>17. /\ WrittenTargets' = WrittenTargets \cup {t}
       /\ Made(edges)' = Made(edges) \cup Made(es)
       /\ \A d \in WrittenTargets, kind \in FileKinds : File(d, kind) \notin Made(es)
       /\ \A kind \in FileKinds : File(t, kind) \notin Made(edges)
       /\ Orderly' /\ StepsOfTargets' /\ LinkedSteps' /\ GraphsStay
  <2>1. Fits(Made(edges), Made(es), es) /\ Made(es) \subseteq {t} \X FileKinds
    BY <1>8, <1>15 DEF M, own
  <2>2. ASSUME Dict(t).type \in Linkables, NEW e \in es, e.out = File(t, "binary"),
               NEW u \in deps[t] \cap WrittenTargets, File(u, "binary") \in Made(edges)
        PROVE  File(u, "binary") \in e.needs
    <3>1. u \in DOMAIN outputs /\ outputs[u].binary = {File(u, "binary")}
      BY <1>3, <2>2 DEF NinjaKept
    <3>2. File(u, "binary") \in FinalOutput(outputs[u])
      BY <3>1 DEF FinalOutput
    <3> QED
      BY <1>4, <1>16, <2>2, <3>1, <3>2
  <2> QED
    BY <1>1, <2>1, <2>2, StepsAdded
<1>18. NinjaKept'
  <2>1. File(t, "binary") \in Made(edges)' => b.edges # {}
    <3>1. File(t, "binary") \notin Made(edges)
      BY <1>17 DEF FileKinds
    <3>2. \A f \in StepFiles(t) \cup Objects(t) : Order(f[2]) # 7
      BY OwnOrders
    <3>3. Order(File(t, "binary")[2]) = 7
      BY OwnOrders
    <3> QED
      BY <1>6, <1>8, <1>17, <3>1, <3>2, <3>3 DEF own
  <2>2. ASSUME NEW d \in WrittenTargets, File(d, "binary") \in Made(edges)'
        PROVE  /\ d # t /\ d \in DOMAIN outputs /\ outputs[d].binary = {File(d, "binary")}
    <3>1. File(d, "binary") \in Made(edges)
      BY <1>17, <2>2 DEF FileKinds
    <3> QED
      BY <1>2, <1>3, <2>2, <3>1 DEF NinjaKept
  <2>3. b.binary \subseteq Made(edges)'
    <3>1. CASE b.edges = {}
      BY <1>5, <1>13, <1>17, <3>1 DEF M, own
    <3>2. CASE b.edges # {}
      BY <1>5, <1>6, <1>8, <1>17, <3>2 DEF own
    <3> QED
      BY <3>1, <3>2
  <2>4. CASE b.binary = {}
    <3>1. outputs' = outputs
      BY <1>1, <2>4 DEF Written, record
    <3>2. b.edges = {}
      BY <1>5, <2>4
    <3>3. \A d \in DOMAIN outputs :
            /\ outputs[d].preaction \cup outputs[d].precompile \subseteq Made(edges)'
            /\ outputs[d].actions \cup outputs[d].binary \subseteq Made(edges)'
      BY <1>3, <1>17 DEF NinjaKept
    <3> QED
      BY <1>17, <2>1, <2>2, <3>1, <3>2, <3>3 DEF NinjaKept
  <2>5. CASE b.binary # {}
    <3>1. Written(t, es, {object})
      BY <1>1, <2>5 DEF record
    <3>2. object = TargetObject(b.type, pre, precompile, StepFiles(t), b.binary)
      OBVIOUS
    <3> HIDE DEF object
    <3>3. /\ DOMAIN outputs' = DOMAIN outputs \cup {t} /\ outputs'[t] = object
          /\ \A u \in DOMAIN outputs \ {t} : outputs'[u] = outputs[u]
      BY <3>1, RecordKept
    <3>4. /\ object.preaction = pre /\ object.precompile = precompile
          /\ object.actions = StepFiles(t) /\ object.binary = b.binary
      BY <3>2 DEF TargetObject
    <3>5. /\ outputs'[t].preaction \cup outputs'[t].precompile \subseteq Made(edges)'
          /\ outputs'[t].actions \cup outputs'[t].binary \subseteq Made(edges)'
      BY <1>4, <1>8, <1>17, <2>3, <3>3, <3>4 DEF M, own
    <3>6. \A d \in DOMAIN outputs \ {t} :
            /\ outputs'[d].preaction \cup outputs'[d].precompile \subseteq Made(edges)'
            /\ outputs'[d].actions \cup outputs'[d].binary \subseteq Made(edges)'
      BY <1>3, <1>17, <3>3 DEF NinjaKept
    <3>7. File(t, "binary") \in Made(edges)' => outputs'[t].binary = {File(t, "binary")}
      BY <1>5, <2>1, <3>3, <3>4
    <3>8. \A d \in WrittenTargets : File(d, "binary") \in Made(edges)' =>
            d \in DOMAIN outputs' /\ outputs'[d].binary = {File(d, "binary")}
      BY <2>2, <3>3
    <3> QED
      BY <1>17, <3>3, <3>5, <3>6, <3>7, <3>8 DEF NinjaKept
  <2> QED
    BY <2>4, <2>5
<1>19. OutputsKept'
  BY <1>1, <1>2, <1>18 DEF OutputsKept, Written
<1> QED
  BY <1>1, <1>17, <1>19, TargetIsWritten
-----------------------------------------------------------------------------
(* The other steps.                                                        *)

\* All that building all builds is on the list.
LEMMA NeededListed ==
  ASSUME GypInv, stage = "generate", NEW format
  PROVE  NeededBy(format) \subseteq ToSet(flat)
<1> DEFINE F == ToSet(flat)
<1>1. /\ Listing(flat, TargetGraph) /\ \A t \in F : deps[t] \subseteq F
  BY DEF GypInv, InputInv, StageInv, AdjustInv, Ordered
<1>2. flat \in Seq(Present) /\ Len(flat) \in Nat
  BY <1>1 DEF Listing, TargetGraph
<1>3. F = {flat[i] : i \in 1..Len(flat)}
  BY <1>2 DEF ToSet
<1>4. ASSUME NEW t \in F
      PROVE  ListedDependencies(t) \subseteq F
  <2>1. PICK i \in 1..Len(flat) : flat[i] = t
    BY <1>3
  <2>2. Dependencies(t) \subseteq {flat[j] : j \in 1..(i-1)}
    BY <1>1, <2>1, ListedBefore
  <2>3. {flat[j] : j \in 1..(i-1)} \subseteq F
    BY <1>2, <1>3
  <2>4. OriginalDependencies(t) \subseteq F
    BY <2>2, <2>3 DEF OriginalDependencies
  <2> QED
    BY <1>1, <2>4 DEF ListedDependencies
<1> HIDE DEF F
<1>5. ASSUME NEW roots, roots \subseteq F
      PROVE  DeepDependencyTargets(roots) \subseteq F
  <2> DEFINE named == roots \cup UNION {ListedDependencies(t) : t \in Present}
             closed == {T \in SUBSET named :
                          roots \subseteq T /\ \A t \in T \cap Present : ListedDependencies(t) \subseteq T}
  <2>1. DeepDependencyTargets(roots) = {t \in named : \A T \in closed : t \in T}
    BY DEF DeepDependencyTargets, Reached
  <2>2. F \cap named \in closed
    BY <1>4, <1>5
  <2> HIDE DEF named, closed
  <2> QED
    BY <2>1, <2>2
<1>6. \A files : UNION {BuildFileTargets(f) : f \in files} \subseteq F
  BY DEF BuildFileTargets, F
<1>7. \A files : AllTargets(files) \subseteq F
  BY <1>5, <1>6 DEF AllTargets
<1> QED
  BY <1>7 DEF NeededBy, F

\* The generator begins with nothing written.
LEMMA GenerateGoesOn ==
  ASSUME GypInv, Generate
  PROVE  GypInv'
<1>1. /\ stage = "generate" /\ stage' = "write" /\ next = 1 /\ next' = 1
      /\ UNCHANGED <<loading, flat, deps, outputs, edges>>
      /\ edges = {} /\ outputs = <<>>
  <2>1. /\ stage = "generate" /\ stage' = "write" /\ next' = next
        /\ UNCHANGED <<loading, flat, deps, outputs, edges>>
    BY DEF Generate
  <2>2. next = 1
    BY <2>1 DEF GypInv, AdjustInv
  <2>3. edges = {} /\ outputs = <<>>
    BY <2>1 DEF GypInv, BuildInv, Refusals
  <2> QED
    BY <2>1, <2>2, <2>3
<1>2. PICK format \in project.formats : generator' = format /\ needed' = NeededBy(format)
  BY DEF Generate
<1>3. generator' \in Formats
  <2>1. project \in Projects
    BY DEF GypInv, InputInv, LoadInv, LoadTypeOK
  <2> QED
    BY <1>2, <2>1, TargetsAssumption
<1>4. needed' \subseteq ToSet(flat')
  BY <1>1, <1>2, NeededListed
<1>5. InputInv' /\ AdjustInv'
  <2>1. Len(flat) \in Nat
    BY <1>1 DEF GypInv, InputInv, StageInv, Ordered, Listing
  <2>2. next' \in 1..(Len(flat) + 1)
    BY <1>1, <2>1
  <2> QED
    BY <1>1, <2>2, GeneratorKeepsInput DEF GypInv
<1>6. WrittenTargets' = {} /\ Made(edges)' = {} /\ DOMAIN outputs' = {} /\ edges' = {}
  BY <1>1, MadeOf DEF WrittenTargets
<1>7. Orderly' /\ StepsOfTargets' /\ LinkedSteps'
  BY <1>6 DEF Orderly, StepsOfTargets, LinkedSteps
<1>8. OutputsKept'
  BY <1>6 DEF OutputsKept, NinjaKept, TablesKept, WholesKept
<1>9. BuildInv'
  BY <1>1, <1>3, <1>4, <1>7, <1>8 DEF BuildInv, Refusals
<1> QED
  BY <1>5, <1>9 DEF GypInv

\* What a stage that comes after the writing knows.
LEMMA StageGoesOn ==
  ASSUME GypInv, stage \in {"write", "done"}, stage' \in {"done", "objects"},
         UNCHANGED <<loading, flat, next, deps, build>>,
         stage' = "done" => next = Len(flat) + 1
  PROVE  GypInv'
<1>1. UNCHANGED <<loading, flat, next, deps, generator, needed, outputs, edges>>
  BY DEF build
<1>2. next \in 1..(Len(flat) + 1)
  <2>1. next \in Nat \ {0} /\ next <= Len(flat) + 1 /\ Len(flat) \in Nat
    BY DEF GypInv, InputInv, InputTypes, StageInv, AdjustInv, Ordered, Listing
  <2> QED
    BY <2>1
<1>3. InputInv' /\ AdjustInv' /\ GraphsStay
  BY <1>1, <1>2, GeneratorKeepsInput DEF GypInv, Refusals
<1>4. Orderly'
  BY <1>1, <1>3 DEF GypInv, BuildInv, Orderly, Made, ComesBefore, GraphsStay
<1>5. WrittenTargets' = WrittenTargets /\ Made(edges)' = Made(edges)
  BY <1>1 DEF WrittenTargets, Made
<1>6. /\ \A u : Dict(u)' = Dict(u) /\ Dependencies(u)' = Dependencies(u)
      /\ \A S : Unlinked(S)' = Unlinked(S)
  BY <1>3, ReachedStays DEF GraphsStay
<1>7. StepsOfTargets' /\ LinkedSteps'
  BY <1>1, <1>5, <1>6 DEF GypInv, BuildInv, StepsOfTargets, LinkedSteps
<1>8. OutputsKept'
  <2>1. \A u : StepFiles(u)' = StepFiles(u)
    BY <1>6 DEF StepFiles, Actions, Rules, Copies
  <2>2. OutputsKept
    BY DEF GypInv, BuildInv
  <2>3. (NinjaKept => NinjaKept') /\ (TablesKept => TablesKept') /\ (WholesKept => WholesKept')
    BY <1>1, <1>5, <1>6, <2>1 DEF NinjaKept, TablesKept, WholesKept
  <2> QED
    BY <1>1, <1>5, <2>2, <2>3 DEF OutputsKept
<1>9. BuildInv'
  BY <1>1, <1>4, <1>7, <1>8 DEF GypInv, BuildInv, Refusals
<1> QED
  BY <1>3, <1>9 DEF GypInv

\* Nothing is built while files are read and targets ordered.
LEMMA NothingBuiltYet ==
  ASSUME GypInv, InputNext, UNCHANGED build
  PROVE  GypInv'
<1>1. InputInv' /\ AdjustInv'
  BY InputInvInductive, AdjustInvKept DEF GypInv
<1>2. /\ stage \notin {"write", "done"} \cup Refusals
      /\ stage' \notin {"write", "done"} \cup Refusals
  <2>1. CASE LoadNext /\ UNCHANGED input
    <3>1. stage = "load" /\ stage' = stage
      BY <2>1, LoadedStays DEF GypInv, InputInv, StageInv, input
    <3> QED
      BY <3>1 DEF Refusals
  <2>2. CASE ReadTargets \/ FilesFlattened \/ TargetsFlattened
    <3>1. /\ stage \in {"load", "files", "targets"}
          /\ stage' \in {"files", "targets", "adjust", "exports", "wildcard", "not_found", "file_cycle",
                        "cycle", "unknown_target"}
      BY <2>2 DEF ReadTargets, FilesFlattened, TargetsFlattened, KeepWanted, BuildDependencyList, Fails
    <3> QED
      BY <3>1 DEF Refusals
  <2>3. CASE (\E n \in zeros : Flatten(n)) \/ Adjust \/ AdjustEnds
    <3>1. /\ stage \in {"files", "targets", "adjust"}
          /\ stage' \in {"files", "targets", "adjust", "generate"}
      BY <2>3 DEF Flatten, Adjust, AdjustEnds
    <3> QED
      BY <3>1 DEF Refusals
  <2> QED
    BY <2>1, <2>2, <2>3 DEF InputNext
<1>3. edges = {} /\ outputs = <<>> /\ edges' = {} /\ outputs' = <<>>
  BY <1>2 DEF GypInv, BuildInv, build
<1>4. Orderly'
  BY <1>3 DEF Orderly
<1>5. BuildInv'
  BY <1>2, <1>3, <1>4 DEF BuildInv, Refusals
<1> QED
  BY <1>1, <1>5 DEF GypInv

-----------------------------------------------------------------------------
(* The invariant holds.                                                    *)

LEMMA InitGypInv == GypInit => GypInv
<1> SUFFICES ASSUME GypInit PROVE GypInv
  OBVIOUS
<1>1. InputInv
  BY InitInputInv DEF GypInit
<1>2. stage = "load" /\ next = 1 /\ edges = {} /\ outputs = <<>>
  BY DEF GypInit, InputInit
<1>3. AdjustInv
  BY <1>2 DEF AdjustInv, Ordered
<1>4. BuildInv
  BY <1>2 DEF BuildInv, Refusals, Orderly
<1> QED
  BY <1>1, <1>3, <1>4 DEF GypInv

\* A step that changes nothing keeps the invariant.
LEMMA NothingHappens ==
  ASSUME GypInv, UNCHANGED gyp
  PROVE  GypInv'
<1>1. /\ UNCHANGED <<loading, input>>
      /\ UNCHANGED <<stage, flat, next, deps, generator, needed, outputs, edges>>
  BY DEF gyp, input, build
<1>2. InputInv' /\ GraphsStay
  BY <1>1, InputInvInductive, LoadingIsOver DEF GypInv
<1>3. AdjustInv'
  <2>1. ImportsFound(ToSet(flat))' = ImportsFound(ToSet(flat)) /\ \A t : LinksListed(t)' = LinksListed(t)
    BY <1>1, <1>2, AdjustedStays DEF GypInv
  <2> QED
    BY <1>1, <2>1 DEF GypInv, AdjustInv
<1>4. BuildInv'
  <2>1. Orderly'
    BY <1>1, <1>2 DEF GypInv, BuildInv, Orderly, Made, ComesBefore, GraphsStay
  <2>2. WrittenTargets' = WrittenTargets /\ Made(edges)' = Made(edges)
    BY <1>1 DEF WrittenTargets, Made
  <2>3. /\ \A u : Dict(u)' = Dict(u) /\ Dependencies(u)' = Dependencies(u)
        /\ \A S : Unlinked(S)' = Unlinked(S)
    BY <1>2, ReachedStays DEF GraphsStay
  <2>4. (StepsOfTargets => StepsOfTargets') /\ (LinkedSteps => LinkedSteps')
    BY <1>1, <2>2, <2>3 DEF StepsOfTargets, LinkedSteps
  <2>5. \A u : StepFiles(u)' = StepFiles(u)
    BY <2>3 DEF StepFiles, Actions, Rules, Copies
  <2>6. OutputsKept => OutputsKept'
    <3>1. (NinjaKept => NinjaKept') /\ (TablesKept => TablesKept') /\ (WholesKept => WholesKept')
      BY <1>1, <2>2, <2>3, <2>5 DEF NinjaKept, TablesKept, WholesKept
    <3> QED
      BY <1>1, <2>2, <3>1 DEF OutputsKept
  <2>7. ExportsKept' = ExportsKept
    BY <1>2 DEF GraphsStay
  <2> QED
    BY <1>1, <2>1, <2>4, <2>6, <2>7 DEF GypInv, BuildInv
<1> QED
  BY <1>2, <1>3, <1>4 DEF GypInv

\* Each action keeps the invariant.
LEMMA GypInvInductive == GypInv /\ [GypNext]_gyp => GypInv'
<1> SUFFICES ASSUME GypInv, [GypNext]_gyp PROVE GypInv'
  OBVIOUS
<1>1. CASE InputNext /\ UNCHANGED build
  BY <1>1, NothingBuiltYet
<1>2. CASE Generate
  BY <1>2, GenerateGoesOn
<1>3. ASSUME NEW t \in ToSet(flat), Write(t)
      PROVE  GypInv'
  <2>1. CASE WriteSpec(t)
    BY <2>1, NinjaGoesOn
  <2>2. CASE MakeWrite(t)
    BY <2>2, MakeGoesOn
  <2>3. CASE AndroidWrite(t)
    BY <2>3, AndroidGoesOn
  <2>4. CASE CMakeWrite(t)
    BY <2>4, CMakeGoesOn
  <2>5. CASE XcodeWrite(t)
    BY <2>5, XcodeGoesOn
  <2>6. CASE MsvsWrite(t)
    BY <2>6, MsvsGoesOn
  <2> QED
    BY <1>3, <2>1, <2>2, <2>3, <2>4, <2>5, <2>6 DEF Write
<1>4. CASE WriteEnds
  <2>1. /\ stage = "write" /\ stage' = "done" /\ next > Len(flat)
        /\ UNCHANGED <<loading, flat, next, deps, build>>
    BY <1>4 DEF WriteEnds
  <2>2. next = Len(flat) + 1
    <3>1. next \in Nat /\ next <= Len(flat) + 1 /\ Len(flat) \in Nat
      BY <2>1 DEF GypInv, InputInv, InputTypes, StageInv, AdjustInv, Ordered, Listing
    <3> QED
      BY <2>1, <3>1
  <2> QED
    BY <2>1, <2>2, StageGoesOn
<1>5. CASE Raised
  <2>1. /\ stage \in {"write", "done"} /\ stage' = "objects"
        /\ UNCHANGED <<loading, flat, next, deps, build>>
    BY <1>5 DEF Raised
  <2> QED
    BY <2>1, StageGoesOn
<1>6. CASE UNCHANGED gyp
  BY <1>6, NothingHappens
<1> QED
  BY <1>1, <1>2, <1>3, <1>4, <1>5, <1>6 DEF GypNext

LEMMA GypInvHolds == GypSpec => []GypInv
BY InitGypInv, GypInvInductive, PTL DEF GypSpec

-----------------------------------------------------------------------------
\* Every generator writes the targets in the order that Load found, which has each
\* of them behind what it depends on, and none of them changes it.
THEOREM WrittenInOrder == GypSpec => []FlatOrdered
<1>1. GypInv => FlatOrdered
  BY OrderedByInv DEF GypInv
<1> QED
  BY <1>1, GypInvHolds, PTL

\* A cycle is reported if and only if there is one, also when gyp is seen to its end.
THEOREM CyclesStayFound == GypSpec => []CyclesFound
<1>1. GypInv => CyclesFound
  BY CyclesByInv DEF GypInv
<1> QED
  BY <1>1, GypInvHolds, PTL

\* What is linked waits, by whichever generator, for every static library that goes
\* into it, though AdjustStaticLibraryDependencies took the dependencies between
\* static libraries away.
THEOREM LinksAreComplete == GypSpec => []LinksComplete
<1>1. GypInv => LinksComplete
  <2> SUFFICES ASSUME GypInv, stage = "done",
                      NEW t \in ToSet(flat), Dict(t).type \in Linkables,
                      NEW b \in FilesOf(t, {"binary"}), NEW e \in edges, e.out = b,
                      NEW s \in Unlinked(Dependencies(t)), Dict(s).type = "static_library",
                      NEW f \in FilesOf(s, {"binary"})
               PROVE  f \in e.needs
    BY DEF LinksComplete
  <2>1. StepsOfTargets /\ LinkedSteps /\ WrittenTargets = ToSet(flat)
    <3>1. next = Len(flat) + 1 /\ StepsOfTargets /\ LinkedSteps
      BY DEF GypInv, BuildInv
    <3>2. Listing(flat, TargetGraph)
      BY DEF GypInv, InputInv, StageInv, Ordered
    <3>3. flat \in Seq(Present) /\ Len(flat) \in Nat
      BY <3>2 DEF Listing, TargetGraph
    <3>4. WrittenTargets = {flat[i] : i \in 1..Len(flat)}
      BY <3>1, <3>3 DEF WrittenTargets
    <3> QED
      BY <3>1, <3>3, <3>4 DEF ToSet
  <2>2. ASSUME NEW x, NEW g \in FilesOf(x, {"binary"})
        PROVE  g \in Made(edges) /\ g = File(x, "binary")
    <3>1. g \in Made(edges) /\ g[1] = x /\ g[2] = "binary"
      BY DEF FilesOf
    <3>2. PICK d \in edges : g = d.out
      BY <3>1 DEF Made
    <3>3. g \in WrittenTargets \X FileKinds
      BY <2>1, <3>2 DEF StepsOfTargets
    <3> QED
      BY <3>1, <3>3 DEF File
  <2>3. e.out = File(t, "binary") /\ f = File(s, "binary") /\ f \in Made(edges)
    BY <2>2
  <2> QED
    BY <2>1, <2>3 DEF LinkedSteps
<1> QED
  BY <1>1, GypInvHolds, PTL

\* No generator looks up what it has not written, while exports are dependencies; no
\* step waits for what none makes, or for what is made behind it; and all that is to
\* be built is made.
THEOREM BuildsAreNotStuck == GypSpec => []BuildNeverStuck
<1>1. GypInv => BuildNeverStuck
  <2> SUFFICES ASSUME GypInv PROVE BuildNeverStuck
    OBVIOUS
  <2>1. Orderly /\ (ExportsKept => stage # "unwritten")
    BY DEF GypInv, BuildInv
  <2>2. ASSUME stage = "done"
        PROVE  All \subseteq Made(edges)
    <3>1. /\ next = Len(flat) + 1 /\ generator \in Formats /\ needed \subseteq ToSet(flat)
          /\ OutputsKept
      BY <2>2 DEF GypInv, BuildInv
    <3>2. ToSet(flat) = WrittenTargets
      <4>1. Listing(flat, TargetGraph)
        BY <2>2 DEF GypInv, InputInv, StageInv, Ordered
      <4>2. flat \in Seq(Present) /\ Len(flat) \in Nat
        BY <4>1 DEF Listing, TargetGraph
      <4>3. WrittenTargets = {flat[i] : i \in 1..Len(flat)}
        BY <3>1, <4>2 DEF WrittenTargets
      <4> QED
        BY <4>2, <4>3 DEF ToSet
    <3>3. needed \subseteq WrittenTargets
      BY <3>1, <3>2
    <3>4. CASE generator = "ninja"
      <4>1. \A d \in DOMAIN outputs : outputs[d].actions \cup outputs[d].binary \subseteq Made(edges)
        BY <3>1, <3>4 DEF OutputsKept, NinjaKept
      <4>2. \A d \in DOMAIN outputs : FinalOutput(outputs[d]) \subseteq Made(edges)
        BY <4>1 DEF FinalOutput
      <4>3. NinjaAll \subseteq Made(edges)
        BY <4>2 DEF NinjaAll, AllOf
      <4> QED
        BY <3>4, <4>3 DEF All
    <3>5. CASE generator \in {"make", "android"}
      <4>1. \A d \in WrittenTargets : outputs[d].output \subseteq Made(edges)
        BY <3>1, <3>5 DEF OutputsKept, TablesKept
      <4>2. MakeAll \subseteq Made(edges) /\ AndroidAll \subseteq Made(edges)
        BY <3>3, <4>1 DEF MakeAll, AndroidAll
      <4> QED
        BY <3>5, <4>2 DEF All
    <3>6. CASE generator \in {"cmake", "xcode", "msvs"}
      <4>1. \A d \in WrittenTargets : File(d, "target") \in Made(edges) /\ StepFiles(d) \subseteq Made(edges)
        BY <3>1, <3>6 DEF OutputsKept, WholesKept
      <4>2. CMakeAll \subseteq Made(edges) /\ XcodeAll \subseteq Made(edges) /\ MsvsAll \subseteq Made(edges)
        BY <3>3, <4>1 DEF CMakeAll, XcodeAll, MsvsAll
      <4> QED
        BY <3>6, <4>2 DEF All
    <3> QED
      BY <3>1, <3>4, <3>5, <3>6 DEF Formats
  <2> QED
    BY <2>1, <2>2 DEF BuildNeverStuck, Orderly
<1> QED
  BY <1>1, GypInvHolds, PTL

\* The place of a target's file, counted through the targets as they are listed.
LEMMA FilesNumbered ==
  ASSUME GypInv, stage \in {"write", "done"}, ExportsKept \/ generator \notin {"cmake", "msvs"}
  PROVE  \E number \in [Made(edges) -> 1..(9 * Len(flat))] :
           \A e \in edges : \A f \in e.needs : f \in Made(edges) /\ number[f] < number[e.out]
<1> DEFINE Place(t) == CHOOSE i \in 1..Len(flat) : flat[i] = t
           number == [f \in Made(edges) |-> 9 * (Place(f[1]) - 1) + Order(f[2])]
<1>1. /\ Listing(flat, TargetGraph) /\ StepsOfTargets
      /\ next \in Nat \ {0} /\ next <= Len(flat) + 1
      /\ \A e \in edges : \A f \in e.needs : f \in Made(edges) /\ ComesBefore(f, e.out)
  BY DEF GypInv, InputInv, InputTypes, StageInv, AdjustInv, BuildInv, Ordered, Orderly
<1>2. /\ Len(flat) \in Nat /\ DOMAIN flat = 1..Len(flat)
      /\ \A i, j \in 1..Len(flat) : flat[i] = flat[j] => i = j
  BY <1>1 DEF Listing, Distinct
<1>3. ASSUME NEW i \in 1..Len(flat)
      PROVE  Place(flat[i]) = i
  <2>1. Place(flat[i]) \in 1..Len(flat) /\ flat[Place(flat[i])] = flat[i]
    OBVIOUS
  <2> HIDE DEF Place
  <2> QED
    BY <1>2, <2>1
<1> HIDE DEF Place
<1>4. ASSUME NEW f \in Made(edges)
      PROVE  Place(f[1]) \in 1..Len(flat) /\ Order(f[2]) \in 1..9
  <2>1. PICK e \in edges : f = e.out
    BY DEF Made
  <2>2. f \in WrittenTargets \X FileKinds
    BY <1>1, <2>1 DEF StepsOfTargets
  <2>3. PICK i \in 1..(next - 1) : f[1] = flat[i]
    BY <2>2 DEF WrittenTargets
  <2>4. i \in 1..Len(flat)
    BY <1>1, <1>2
  <2>5. f[2] \in FileKinds
    BY <2>2
  <2>6. Order(f[2]) \in 1..9
    BY <2>5, OrderValues DEF FileKinds
  <2> QED
    BY <1>3, <2>3, <2>4, <2>6
<1>5. number \in [Made(edges) -> 1..(9 * Len(flat))]
  <2>1. \A i \in 1..Len(flat), k \in 1..9 : 9 * (i - 1) + k \in 1..(9 * Len(flat))
    BY <1>2
  <2> QED
    BY <1>4, <2>1
<1>6. ASSUME NEW f \in Made(edges), NEW g \in Made(edges), ComesBefore(f, g)
      PROVE  number[f] < number[g]
  <2>1. /\ number[f] = 9 * (Place(f[1]) - 1) + Order(f[2])
        /\ number[g] = 9 * (Place(g[1]) - 1) + Order(g[2])
    BY <1>6
  <2> HIDE DEF number
  <2>2. Order(f[2]) \in 1..9 /\ Order(g[2]) \in 1..9 /\ Place(f[1]) \in Nat /\ Place(g[1]) \in Nat
    BY <1>2, <1>4, <1>6
  <2>3. CASE f[1] = g[1] /\ Order(f[2]) < Order(g[2])
    BY <2>1, <2>2, <2>3
  <2>4. CASE \E j \in DOMAIN flat : flat[j] = g[1] /\ \E i \in 1..(j-1) : flat[i] = f[1]
    <3>1. PICK j \in 1..Len(flat) : flat[j] = g[1] /\ \E i \in 1..(j-1) : flat[i] = f[1]
      BY <1>2, <2>4
    <3>2. PICK i \in 1..(j-1) : flat[i] = f[1]
      BY <3>1
    <3>3. i \in 1..Len(flat) /\ i \in Nat /\ j \in Nat /\ i < j
      BY <1>2
    <3>4. Place(g[1]) = j /\ Place(f[1]) = i
      BY <1>3, <3>1, <3>2, <3>3
    <3>5. \A a, c \in 1..9 : 9 * (i - 1) + a < 9 * (j - 1) + c
      BY <3>3
    <3> QED
      BY <2>1, <2>2, <3>4, <3>5
  <2> QED
    BY <1>6, <2>3, <2>4 DEF ComesBefore
<1>7. \A e \in edges : \A f \in e.needs : f \in Made(edges) /\ number[f] < number[e.out]
  <2>1. \A e \in edges : e.out \in Made(edges)
    BY DEF Made
  <2> HIDE DEF number
  <2> QED
    BY <1>1, <1>6, <2>1
<1> HIDE DEF number
<1> QED
  BY <1>5, <1>7

\* The files can be numbered such that every step waits for lower numbers only.
Numbered ==
  stage \in {"write", "done"} /\ (ExportsKept \/ generator \notin {"cmake", "msvs"}) =>
    \E number \in [Made(edges) -> Nat] :
      \A e \in edges : \A f \in e.needs : f \in Made(edges) /\ number[f] < number[e.out]

\* No step waits for itself, through however many others, in what any generator has
\* written so far: the numbers are the place of the target, and in it that of the file.
THEOREM NoStepWaitsForItself == GypSpec => []Numbered
<1>1. GypInv => Numbered
  <2> SUFFICES ASSUME GypInv, stage \in {"write", "done"},
                      ExportsKept \/ generator \notin {"cmake", "msvs"}
               PROVE  \E number \in [Made(edges) -> Nat] :
                        \A e \in edges : \A f \in e.needs :
                          f \in Made(edges) /\ number[f] < number[e.out]
    BY DEF Numbered
  <2>1. PICK number \in [Made(edges) -> 1..(9 * Len(flat))] :
          \A e \in edges : \A f \in e.needs : f \in Made(edges) /\ number[f] < number[e.out]
    BY FilesNumbered
  <2>2. \A f \in Made(edges) : number[f] \in Nat
    OBVIOUS
  <2>3. number \in [Made(edges) -> Nat]
    BY <2>2
  <2> QED
    BY <2>1, <2>3
<1> QED
  BY <1>1, GypInvHolds, PTL
=============================================================================
