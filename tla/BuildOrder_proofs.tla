------------------------ MODULE BuildOrder_proofs ------------------------
(***************************************************************************)
(* Of every build that gyp writes, for any targets and by whichever        *)
(* generator: the order in which its steps can run is the one that the     *)
(* dependencies of the targets demand, and building everything builds all  *)
(* that was asked for.                                                     *)
(***************************************************************************)
EXTENDS XcodeTurns, GypBuild_proofs, WellFoundedInduction

-----------------------------------------------------------------------------
(* What comes before a set of files.                                       *)

\* A set of numbers that has 0 and with each number the next has them all.
LEMMA AllNumbers ==
  ASSUME NEW A, 0 \in A, \A n \in Nat : n \in A => n + 1 \in A
  PROVE  Nat \subseteq A
<1> SUFFICES ASSUME ~(Nat \subseteq A) PROVE FALSE
  OBVIOUS
<1> DEFINE T == Nat \ A
<1>1. T \subseteq Nat /\ T # {}
  OBVIOUS
<1>2. PICK k \in T : \A j \in T : ~(<<j, k>> \in OpToRel(<, Nat))
  <2> HIDE DEF T
  <2> QED
    BY <1>1, NatLessThanWellFounded, WFMin
<1>3. k \in Nat /\ k - 1 \in Nat
  BY <1>1
<1>4. k - 1 \notin T
  <2>1. k - 1 < k
    BY <1>3
  <2> QED
    BY <1>2, <1>3, <2>1 DEF OpToRel
<1>5. k - 1 \in A /\ k - 1 + 1 = k
  BY <1>3, <1>4
<1> QED
  BY <1>3, <1>5

\* Steps can be taken any number of times.
LEMMA StepsTaken ==
  ASSUME NEW D, NEW S \in D, NEW step \in [D -> D]
  PROVE  \E g \in [Nat -> D] : g[0] = S /\ \A n \in Nat : g[n + 1] = step[g[n]]
<1> DEFINE Up(n) == {h \in [0..n -> D] : h[0] = S /\ \A k \in 0..(n - 1) : h[k + 1] = step[h[k]]}
           A == {n \in Nat : Up(n) # {}}
<1>1. 0 \in A
  <2>1. [k \in 0..0 |-> S] \in Up(0)
    OBVIOUS
  <2> QED
    BY <2>1
<1>2. ASSUME NEW n \in Nat, n \in A PROVE n + 1 \in A
  <2>1. PICK h \in Up(n) : TRUE
    BY <1>2
  <2> DEFINE h1 == [k \in 0..(n + 1) |-> IF k = n + 1 THEN step[h[n]] ELSE h[k]]
  <2>2. h1 \in [0..(n + 1) -> D]
    BY <2>1
  <2>3. h1[0] = S
    BY <2>1
  <2>4. ASSUME NEW k \in 0..(n + 1 - 1) PROVE h1[k + 1] = step[h1[k]]
    <3>1. k \in 0..n /\ k + 1 \in 0..(n + 1) /\ k \in 0..(n + 1)
      OBVIOUS
    <3>2. CASE k = n
      BY <3>1, <3>2
    <3>3. CASE k # n
      <4>1. k \in 0..(n - 1) /\ k # n + 1 /\ k + 1 # n + 1
        BY <3>1, <3>3
      <4>2. h1[k + 1] = h[k + 1] /\ h1[k] = h[k]
        BY <3>1, <4>1
      <4> HIDE DEF h1
      <4> QED
        BY <2>1, <4>1, <4>2
    <3> QED
      BY <3>2, <3>3
  <2> HIDE DEF h1
  <2>5. h1 \in Up(n + 1)
    BY <2>2, <2>3, <2>4
  <2> HIDE DEF Up
  <2> QED
    BY <2>5
<1>3. \A n \in Nat : Up(n) # {}
  BY <1>1, <1>2, AllNumbers
<1>4. ASSUME NEW n \in Nat, NEW h \in Up(n), NEW i \in Up(n + 1)
      PROVE  h[n] = i[n]
  <2> DEFINE B == {k \in Nat : k <= n => h[k] = i[k]}
  <2>1. 0 \in B
    OBVIOUS
  <2>2. ASSUME NEW k \in Nat, k \in B PROVE k + 1 \in B
    <3>1. CASE k + 1 <= n
      <4>1. k \in 0..(n - 1) /\ k \in 0..(n + 1 - 1) /\ h[k] = i[k]
        BY <2>2, <3>1
      <4>2. h[k + 1] = step[h[k]] /\ i[k + 1] = step[i[k]]
        BY <4>1
      <4> QED
        BY <4>1, <4>2
    <3>2. CASE ~(k + 1 <= n)
      BY <3>2
    <3> QED
      BY <3>1, <3>2
  <2>3. Nat \subseteq B
    <3> HIDE DEF B
    <3> QED
      BY <2>1, <2>2, AllNumbers
  <2> QED
    BY <2>3
<1> DEFINE up(n) == CHOOSE h : h \in Up(n)
           g == [n \in Nat |-> up(n)[n]]
<1>5. \A n \in Nat : up(n) \in Up(n)
  BY <1>3
<1> HIDE DEF up
<1>6. g \in [Nat -> D]
  <2>1. ASSUME NEW n \in Nat PROVE up(n)[n] \in D
    <3>1. up(n) \in [0..n -> D]
      BY <1>5
    <3>2. n \in 0..n
      OBVIOUS
    <3> QED
      BY <3>1, <3>2
  <2> QED
    BY <2>1
<1>7. g[0] = S
  <2>1. up(0)[0] = S
    BY <1>5
  <2> QED
    BY <2>1
<1>8. ASSUME NEW n \in Nat PROVE g[n + 1] = step[g[n]]
  <2>1. n + 1 \in Nat /\ n \in 0..(n + 1 - 1)
    OBVIOUS
  <2>2. up(n) \in Up(n) /\ up(n + 1) \in Up(n + 1)
    BY <1>5, <2>1
  <2>3. up(n + 1)[n + 1] = step[up(n + 1)[n]]
    BY <2>1, <2>2
  <2>4. up(n)[n] = up(n + 1)[n]
    BY <1>4, <2>1, <2>2
  <2> HIDE DEF Up
  <2> QED
    BY <2>1, <2>3, <2>4
<1> HIDE DEF g
<1> QED
  BY <1>6, <1>7, <1>8

\* What a set waits for, in steps back from it.
LEMMA BeforeInSteps ==
  ASSUME NEW S
  PROVE  \E b : /\ b[0] = S /\ \A n \in Nat : b[n + 1] = WithNeeds(b[n])
                /\ Before(S) = b[9 * Len(flat)]
<1> DEFINE U == S \cup UNION {e.needs : e \in edges}
           D == SUBSET U
           step == [T \in D |-> WithNeeds(T)]
<1>1. step \in [D -> D]
  BY DEF WithNeeds
<1>2. S \in D
  OBVIOUS
<1> HIDE DEF D, step
<1>3. PICK g \in [Nat -> D] : g[0] = S /\ \A n \in Nat : g[n + 1] = step[g[n]]
  BY <1>1, <1>2, StepsTaken
<1>4. \A n \in Nat : g[n + 1] = WithNeeds(g[n])
  BY <1>3 DEF step
<1> DEFINE Chain(b) == b = [n \in Nat |-> IF n = 0 THEN S ELSE WithNeeds(b[n - 1])]
           chain == CHOOSE b : Chain(b)
<1>5. Chain(g)
  <2>1. \A n \in Nat : g[n] = IF n = 0 THEN S ELSE WithNeeds(g[n - 1])
    <3> SUFFICES ASSUME NEW n \in Nat, n # 0 PROVE g[n] = WithNeeds(g[n - 1])
      BY <1>3
    <3>1. n - 1 \in Nat /\ n - 1 + 1 = n
      OBVIOUS
    <3> QED
      BY <1>4, <3>1
  <2> HIDE DEF U
  <2> QED
    BY <1>3, <2>1
<1>6. Chain(chain)
  BY <1>5
<1>7. Before(S) = chain[9 * Len(flat)]
  BY DEF Before
<1>8. chain[0] = S /\ \A n \in Nat : chain[n + 1] = WithNeeds(chain[n])
  <2> HIDE DEF chain
  <2>1. \A n \in Nat : chain[n] = IF n = 0 THEN S ELSE WithNeeds(chain[n - 1])
    BY <1>6
  <2>2. \A n \in Nat : n + 1 \in Nat /\ n + 1 # 0 /\ n + 1 - 1 = n
    OBVIOUS
  <2> QED
    BY <2>1, <2>2
<1> HIDE DEF chain
<1> QED
  BY <1>7, <1>8

\* What a set has to wait for is part of it.
Closed(T) == \A e \in edges : e.out \in T => e.needs \subseteq T

\* So many steps back, nothing is left that a set waits for: the files on the way have
\* ever lower numbers.
LEMMA BeforeClosed ==
  ASSUME GypInv, stage \in {"write", "done"}, ExportsKept \/ generator \notin {"cmake", "msvs"},
         NEW S
  PROVE  S \subseteq Before(S) /\ Closed(Before(S))
<1> DEFINE M == 9 * Len(flat)
<1>1. M \in Nat
  BY DEF GypInv, InputInv, StageInv, Ordered, Listing
<1>2. PICK number \in [Made(edges) -> 1..M] :
        \A e \in edges : \A f \in e.needs : f \in Made(edges) /\ number[f] < number[e.out]
  BY FilesNumbered
<1>3. PICK b : b[0] = S /\ (\A n \in Nat : b[n + 1] = WithNeeds(b[n])) /\ Before(S) = b[M]
  BY BeforeInSteps
<1> HIDE DEF M
<1>4. ASSUME NEW k \in Nat
      PROVE  \A n \in Nat : k <= n => b[k] \subseteq b[n]
  <2> DEFINE A == {n \in Nat : k <= n => b[k] \subseteq b[n]}
  <2>1. 0 \in A
    BY <1>4
  <2>2. ASSUME NEW n \in Nat, n \in A PROVE n + 1 \in A
    <3>1. k <= n + 1 => k <= n \/ k = n + 1
      BY <1>4
    <3>2. b[n] \subseteq b[n + 1]
      BY <1>3 DEF WithNeeds
    <3> QED
      BY <2>2, <3>1, <3>2
  <2>3. Nat \subseteq A
    <3> HIDE DEF A
    <3> QED
      BY <2>1, <2>2, AllNumbers
  <2> QED
    BY <2>3
<1>5. \A e \in edges : e.out \in Made(edges)
  BY DEF Made
<1> DEFINE A == {n \in Nat : \A f \in b[n] \cap Made(edges) :
                   \E k \in Nat : k <= M - number[f] /\ f \in b[k]}
<1>6. 0 \in A
  <2>1. \A f \in Made(edges) : 0 <= M - number[f]
    BY <1>1, <1>2
  <2> QED
    BY <2>1
<1>7. ASSUME NEW n \in Nat, n \in A PROVE n + 1 \in A
  <2> SUFFICES ASSUME NEW f \in b[n + 1] \cap Made(edges)
               PROVE  \E k \in Nat : k <= M - number[f] /\ f \in b[k]
    OBVIOUS
  <2>1. CASE f \in b[n]
    BY <1>7, <2>1
  <2>2. CASE f \notin b[n]
    <3>1. PICK e \in edges : e.out \in b[n] /\ f \in e.needs
      BY <1>3, <2>2 DEF WithNeeds
    <3>2. PICK k \in Nat : k <= M - number[e.out] /\ e.out \in b[k]
      BY <1>5, <1>7, <3>1
    <3>3. f \in b[k + 1]
      BY <1>3, <3>1, <3>2 DEF WithNeeds
    <3>4. number[f] < number[e.out] /\ number[f] \in 1..M /\ number[e.out] \in 1..M
      BY <1>2, <1>5, <3>1
    <3>5. k + 1 \in Nat /\ k + 1 <= M - number[f]
      BY <1>1, <3>2, <3>4
    <3> QED
      BY <3>3, <3>5
  <2> QED
    BY <2>1, <2>2
<1>8. Nat \subseteq A
  <2> HIDE DEF A
  <2> QED
    BY <1>6, <1>7, AllNumbers
<1>9. S \subseteq b[M]
  BY <1>1, <1>3, <1>4
<1>10. ASSUME NEW e \in edges, e.out \in b[M]
       PROVE  e.needs \subseteq b[M]
  <2>1. PICK k \in Nat : k <= M - number[e.out] /\ e.out \in b[k]
    BY <1>1, <1>5, <1>8, <1>10
  <2>2. e.needs \subseteq b[k + 1]
    BY <1>3, <1>10, <2>1 DEF WithNeeds
  <2>3. number[e.out] \in 1..M
    BY <1>2, <1>5, <1>10
  <2>4. k + 1 \in Nat /\ k + 1 <= M
    BY <1>1, <2>1, <2>3
  <2>5. b[k + 1] \subseteq b[M]
    BY <1>1, <1>4, <2>4
  <2> QED
    BY <2>2, <2>5
<1> QED
  BY <1>3, <1>9, <1>10 DEF Closed

-----------------------------------------------------------------------------
(* What adjusting leaves of the dependencies.                              *)

\* What a target follows it depends on: in the list it has from then on, in the graph
\* before it is its turn.
Listed(t) == Follows(t) \subseteq deps[t]

FollowsKept ==
  /\ stage = "adjust" => \A i \in 1..Len(flat) :
       IF i < next THEN Listed(flat[i]) ELSE deps[flat[i]] = Dependencies(flat[i])
  /\ stage \in {"generate", "write", "done"} => \A t \in ToSet(flat) : Listed(t)

\* What is followed stays what it is.
LEMMA FollowsStays ==
  ASSUME GraphsStay
  PROVE  \A t : Follows(t)' = Follows(t)
<1>1. \A t : Dict(t)' = Dict(t) /\ Dependencies(t)' = Dependencies(t)
  BY DEF GraphsStay
<1>2. \A S : Imported(S)' = Imported(S)
  BY ReachedStays
<1>3. \A t : HardStatic(t)' = HardStatic(t)
  BY <1>1 DEF HardStatic
<1> QED
  BY <1>1, <1>2, <1>3 DEF Follows

\* The first dependencies are imported, too.
LEMMA ImportedHas ==
  ASSUME NEW S
  PROVE  S \subseteq Imported(S)
BY DEF Imported, Reached

\* Adjusting leaves a target the dependencies that it follows.
LEMMA AdjustedFollows ==
  ASSUME NEW t, Dict(t) \in TargetDicts, deps[t] = Dependencies(t)
  PROVE  Follows(t) \subseteq Adjusted(t)
<1>1. Dependencies(t) \subseteq Imported(Dependencies(t))
  BY ImportedHas
<1>2. CASE Dict(t).type = "static_library"
  <2>1. Adjusted(t) = {d \in Imported(Dependencies(t)) :
                         HardStatic(d) \/ (Dict(d).type # "static_library" /\ d \in deps[t])}
    BY <1>2 DEF Adjusted, Linkables
  <2> QED
    BY <1>1, <1>2, <2>1 DEF Follows
<1>3. CASE Dict(t).type # "static_library"
  BY <1>3 DEF Adjusted, Follows
<1> QED
  BY <1>2, <1>3

\* The list begins with the dependencies of the graph.
LEMMA FollowsBegin ==
  ASSUME InputInv, InputInv', TargetsFlattened, AdjustInv
  PROVE  FollowsKept'
<1>1. stage = "targets" /\ next = 1 /\ UNCHANGED loading
  BY DEF TargetsFlattened, AdjustInv
<1>2. CASE \E fault \in Faults : Fails(fault)
  BY <1>2 DEF FollowsKept, Fails, Faults
<1>3. CASE stage' = "adjust" /\ UNCHANGED <<zeros, next, deps>>
  <2>1. GraphsStay
    BY <1>1, LoadingIsOver
  <2>2. \A t \in Present : deps[t] = Dependencies(t)
    BY <1>1 DEF InputInv, StageInv
  <2>3. flat' \in Seq(Present)
    <3>1. Listing(flat, TargetGraph)'
      BY <1>3 DEF InputInv, StageInv, Ordered
    <3>2. TargetGraph' = TargetGraph
      BY <2>1 DEF GraphsStay
    <3> QED
      BY <3>1, <3>2 DEF Listing, TargetGraph
  <2>4. \A i \in 1..Len(flat') : flat'[i] \in Present /\ ~(i < next')
    <3>1. next' = 1 /\ Len(flat') \in Nat
      BY <1>1, <1>3, <2>3
    <3>2. \A i \in 1..Len(flat') : flat'[i] \in Present
      BY <2>3
    <3> QED
      BY <3>1, <3>2
  <2>5. \A t : Dependencies(t)' = Dependencies(t)
    BY <2>1 DEF GraphsStay
  <2>6. (\A i \in 1..Len(flat) : deps[flat[i]] = Dependencies(flat[i]))'
    BY <1>3, <2>2, <2>4, <2>5
  <2> QED
    BY <1>3, <2>4, <2>6 DEF FollowsKept
<1> QED
  BY <1>2, <1>3 DEF TargetsFlattened, KeepWanted, Faults

\* One turn.
LEMMA FollowsGoOn ==
  ASSUME InputInv, FollowsKept, Adjust
  PROVE  FollowsKept'
<1> DEFINE t == flat[next]
<1>1. /\ stage = "adjust" /\ stage' = stage /\ next \in Nat \ {0} /\ next <= Len(flat)
      /\ deps \in [Targets -> SUBSET Targets]
      /\ deps' = [deps EXCEPT ![t] = Adjusted(t)] /\ next' = next + 1
      /\ UNCHANGED loading /\ flat' = flat
  BY DEF Adjust, InputInv, InputTypes
<1>2. Listing(flat, TargetGraph)
  BY <1>1 DEF InputInv, StageInv, Ordered
<1>3. /\ Len(flat) \in Nat /\ next \in 1..Len(flat)
      /\ \A i, j \in 1..Len(flat) : flat[i] = flat[j] => i = j
      /\ \A i \in 1..Len(flat) : flat[i] \in Present
  BY <1>1, <1>2 DEF Listing, TargetGraph, Distinct
<1>4. t \in Present /\ t \in Targets /\ Dict(t) \in TargetDicts /\ deps[t] = Dependencies(t)
  <2>1. Present \subseteq Targets /\ \A u \in Present : Dict(u) \in TargetDicts
    BY Named DEF InputInv
  <2>2. deps[t] = Dependencies(t)
    BY <1>1, <1>3 DEF FollowsKept
  <2> QED
    BY <1>3, <2>1, <2>2
<1>5. Follows(t) \subseteq Adjusted(t)
  BY <1>4, AdjustedFollows
<1>6. /\ \A u : Follows(u)' = Follows(u)
      /\ \A u : Dependencies(u)' = Dependencies(u)
  <2>1. GraphsStay
    BY <1>1, LoadingIsOver
  <2> QED
    BY <2>1, FollowsStays DEF GraphsStay
<1>7. deps'[t] = Adjusted(t)
  BY <1>1, <1>4
<1>8. ASSUME NEW i \in 1..Len(flat)
      PROVE  IF i < next + 1 THEN Follows(flat[i]) \subseteq deps'[flat[i]]
             ELSE deps'[flat[i]] = Dependencies(flat[i])
  <2>1. CASE i = next
    BY <1>1, <1>5, <1>7, <2>1
  <2>2. CASE i # next
    <3>1. deps'[flat[i]] = deps[flat[i]]
      BY <1>1, <1>3, <2>2
    <3>2. i < next + 1 <=> i < next
      BY <1>1, <2>2
    <3> QED
      BY <1>1, <3>1, <3>2 DEF FollowsKept, Listed
  <2> QED
    BY <2>1, <2>2
<1> HIDE DEF t
<1>9. \A i \in 1..Len(flat) : IF i < next + 1 THEN Listed(flat[i])'
                            ELSE deps'[flat[i]] = Dependencies(flat[i])'
  BY <1>1, <1>6, <1>8 DEF Listed
<1> QED
  BY <1>1, <1>9 DEF FollowsKept

\* After the last turn.
LEMMA FollowsEnd ==
  ASSUME InputInv, FollowsKept, AdjustEnds
  PROVE  FollowsKept'
<1>1. /\ stage = "adjust" /\ stage' = "generate" /\ next \in Nat /\ next > Len(flat)
      /\ UNCHANGED loading /\ flat' = flat /\ deps' = deps
  BY DEF AdjustEnds, InputInv, InputTypes
<1>2. flat \in Seq(Present) /\ Len(flat) \in Nat
  BY <1>1 DEF InputInv, StageInv, Ordered, Listing, TargetGraph
<1>3. \A i \in 1..Len(flat) : Listed(flat[i])
  BY <1>1, <1>2 DEF FollowsKept
<1>4. \A t \in ToSet(flat) : Listed(t)
  BY <1>2, <1>3 DEF ToSet
<1>5. \A t : Follows(t)' = Follows(t)
  BY <1>1, LoadingIsOver, FollowsStays
<1> QED
  BY <1>1, <1>4, <1>5 DEF FollowsKept, Listed

-----------------------------------------------------------------------------
(* What each generator writes of a target, in terms of what it keeps of    *)
(* the targets before.                                                     *)

NinjaPreaction(t) == AllOf(Outputs(t), PreActionInput)
NinjaPrecompile(t) == AllOf(Outputs(t), PreCompileInput)
NinjaWaited(t) == IF StepFiles(t) # {} THEN StepFiles(t) ELSE NinjaPreaction(t)
NinjaPredepends(t) == IF StepFiles(t) # {} THEN StepFiles(t) ELSE NinjaPrecompile(t)
NinjaBinary(t) == Binary(t, Objects(t), NinjaWaited(t))
NinjaSteps(t) ==
  ActionsRulesCopies(t, NinjaPreaction(t)) \cup NinjaBinary(t).edges
    \cup NinjaObjects(t, NinjaPredepends(t))
NinjaRecord(t) ==
  IF NinjaBinary(t).binary = {} THEN {}
  ELSE {TargetObject(NinjaBinary(t).type, NinjaPreaction(t), NinjaPrecompile(t), StepFiles(t),
                     NinjaBinary(t).binary)}

MakeSteps(t) ==
  MakeStepEdges(t) \cup MakeObjectEdges(t) \cup MakeBinaryEdges(t) \cup InstallEdges(t)

AndroidSteps(t) ==
  AndroidActions(t) \cup AndroidRules(t) \cup AndroidCopies(t)
    \cup AndroidObjects(t) \cup {AndroidBinaryEdge(t)}

CMakeSteps(t) ==
  CustomTargets(t) \cup Whole(File(t, "target"), TargetsBefore(t) \cup StepFiles(t),
                              CMakeObjects(t) \cup CMakeBinaryEdges(t))

XcodeSteps(t) ==
  SupportEdges(t) \cup Whole(File(t, "target"), TargetsBefore(t) \cup Support(t),
                             FirstPhases(t) \cup SourcesPhase(t) \cup FrameworksPhase(t))

MsvsSteps(t) ==
  Whole(File(t, "target"), ProjectReferences(t), CustomBuilds(t) \cup MsvsObjects(t) \cup MsvsOutput(t))

StepsOf(t) ==
  CASE generator = "ninja" -> NinjaSteps(t)
    [] generator = "make" -> MakeSteps(t)
    [] generator = "android" -> AndroidSteps(t)
    [] generator = "cmake" -> CMakeSteps(t)
    [] generator = "xcode" -> XcodeSteps(t)
    [] generator = "msvs" -> MsvsSteps(t)

RecordOf(t) ==
  CASE generator = "ninja" -> NinjaRecord(t)
    [] generator = "make" -> {MakeOutput(t)}
    [] generator = "android" -> {AndroidOutput(t)}
    [] generator = "xcode" -> {"xct"}
    [] generator \in {"cmake", "msvs"} -> {}

\* A turn writes these, unless it ends in an exception.
LEMMA TurnWrites ==
  ASSUME NEW t, Write(t)
  PROVE  /\ Turn(generator, t) /\ generator \in Formats
         /\ Written(t, StepsOf(t), RecordOf(t)) \/ \E fault \in Refusals : Refused(fault)
<1>1. CASE WriteSpec(t)
  <2>1. generator = "ninja" /\ Turn("ninja", t)
    BY <1>1 DEF WriteSpec, Turn
  <2>2. Written(t, NinjaSteps(t), NinjaRecord(t))
    BY <1>1 DEF WriteSpec, NinjaSteps, NinjaRecord, NinjaBinary, NinjaWaited, NinjaPredepends,
                NinjaPreaction, NinjaPrecompile
  <2> QED
    BY <2>1, <2>2 DEF StepsOf, RecordOf, Formats
<1>2. CASE MakeWrite(t)
  <2>1. generator = "make" /\ Turn("make", t)
    BY <1>2 DEF MakeWrite, Turn
  <2>2. Written(t, MakeSteps(t), {MakeOutput(t)}) \/ Refused("unwritten")
    BY <1>2 DEF MakeWrite, MakeSteps
  <2> QED
    BY <2>1, <2>2 DEF StepsOf, RecordOf, Formats, Refusals
<1>3. CASE AndroidWrite(t)
  <2>1. generator = "android" /\ Turn("android", t)
    BY <1>3 DEF AndroidWrite, Turn
  <2>2. \/ Written(t, AndroidSteps(t), {AndroidOutput(t)})
        \/ Refused("unwritten") \/ Refused("not_supported")
    BY <1>3 DEF AndroidWrite, AndroidSteps
  <2> QED
    BY <2>1, <2>2 DEF StepsOf, RecordOf, Formats, Refusals
<1>4. CASE CMakeWrite(t)
  <2>1. generator = "cmake" /\ Turn("cmake", t)
    BY <1>4 DEF CMakeWrite, Turn
  <2>2. Written(t, CMakeSteps(t), {})
    BY <1>4 DEF CMakeWrite, CMakeSteps
  <2> QED
    BY <2>1, <2>2 DEF StepsOf, RecordOf, Formats
<1>5. CASE XcodeWrite(t)
  <2>1. generator = "xcode" /\ Turn("xcode", t)
    BY <1>5 DEF XcodeWrite, Turn
  <2>2. Written(t, XcodeSteps(t), {"xct"}) \/ Refused("unwritten")
    BY <1>5 DEF XcodeWrite, XcodeSteps
  <2> QED
    BY <2>1, <2>2 DEF StepsOf, RecordOf, Formats, Refusals
<1>6. CASE MsvsWrite(t)
  <2>1. generator = "msvs" /\ Turn("msvs", t)
    BY <1>6 DEF MsvsWrite, Turn
  <2>2. Written(t, MsvsSteps(t), {})
    BY <1>6 DEF MsvsWrite, MsvsSteps
  <2> QED
    BY <2>1, <2>2 DEF StepsOf, RecordOf, Formats
<1> QED
  BY <1>1, <1>2, <1>3, <1>4, <1>5, <1>6 DEF Write

\* They depend on what is kept of the targets before, and on nothing else that the
\* generators change.
LEMMA StepsStay ==
  ASSUME NEW t, project' = project, deps' = deps, generator' = generator,
         deps[t] \cap DOMAIN outputs' = deps[t] \cap DOMAIN outputs,
         \A d \in deps[t] \cap DOMAIN outputs : outputs'[d] = outputs[d],
         generator \in {"make", "android"} => deps[t] \subseteq DOMAIN outputs
  PROVE  StepsOf(t)' = StepsOf(t) /\ RecordOf(t)' = RecordOf(t)
<1>1. /\ \A u : Dict(u)' = Dict(u)
      /\ \A u : Actions(u)' = Actions(u) /\ Rules(u)' = Rules(u) /\ Copies(u)' = Copies(u)
      /\ \A u : Objects(u)' = Objects(u)
  BY DEF Dict, Actions, Rules, Copies, Objects
<1>2. \A u : StepFiles(u)' = StepFiles(u)
  BY <1>1 DEF StepFiles
<1>3. NinjaSteps(t)' = NinjaSteps(t) /\ NinjaRecord(t)' = NinjaRecord(t)
  <2>1. Outputs(t)' = Outputs(t)
    BY DEF Outputs
  <2>2. NinjaPreaction(t)' = NinjaPreaction(t) /\ NinjaPrecompile(t)' = NinjaPrecompile(t)
    BY <2>1 DEF NinjaPreaction, NinjaPrecompile, AllOf
  <2>3. NinjaWaited(t)' = NinjaWaited(t) /\ NinjaPredepends(t)' = NinjaPredepends(t)
    BY <1>2, <2>2 DEF NinjaWaited, NinjaPredepends
  <2>4. NinjaBinary(t)' = NinjaBinary(t)
    BY <1>1, <2>1, <2>3 DEF NinjaBinary, Binary, Link, LinkWaits
  <2>5. ActionsRulesCopies(t, NinjaPreaction(t))' = ActionsRulesCopies(t, NinjaPreaction(t))
    BY <1>1, <2>2 DEF ActionsRulesCopies, NinjaActions, NinjaRules, NinjaCopies
  <2>6. NinjaObjects(t, NinjaPredepends(t))' = NinjaObjects(t, NinjaPredepends(t))
    BY <1>1, <2>3 DEF NinjaObjects
  <2> QED
    BY <1>2, <2>2, <2>4, <2>5, <2>6 DEF NinjaSteps, NinjaRecord
<1>4. ASSUME generator = "make"
      PROVE  MakeSteps(t)' = MakeSteps(t) /\ MakeOutput(t)' = MakeOutput(t)
  <2>0. \A d \in deps[t] : outputs'[d] = outputs[d]
    BY <1>4
  <2>1. LinkDeps(t)' = LinkDeps(t) /\ MakeDeps(t)' = MakeDeps(t)
    BY <2>0 DEF LinkDeps, MakeDeps
  <2>2. MakeStepEdges(t)' = MakeStepEdges(t)
    BY <1>1, <2>1 DEF MakeStepEdges, MakeActions, MakeRules, MakeCopies
  <2>3. MakeObjectEdges(t)' = MakeObjectEdges(t) /\ MakeBinaryEdges(t)' = MakeBinaryEdges(t)
    BY <1>1, <1>2, <2>1 DEF MakeObjectEdges, MakeBinaryEdges
  <2>4. InstallEdges(t)' = InstallEdges(t) /\ MakeOutput(t)' = MakeOutput(t)
    BY <1>1 DEF InstallEdges, MakeOutput, Installed
  <2> QED
    BY <2>2, <2>3, <2>4 DEF MakeSteps
<1>5. ASSUME generator = "android"
      PROVE  AndroidSteps(t)' = AndroidSteps(t) /\ AndroidOutput(t)' = AndroidOutput(t)
  <2>0. \A d \in deps[t] : outputs'[d] = outputs[d]
    BY <1>5
  <2>1. TargetDependencies(t)' = TargetDependencies(t) /\ LocalLibraries(t)' = LocalLibraries(t)
    BY <2>0 DEF TargetDependencies, LocalLibraries
  <2>2. /\ AndroidActions(t)' = AndroidActions(t) /\ AndroidRules(t)' = AndroidRules(t)
        /\ AndroidCopies(t)' = AndroidCopies(t)
    BY <1>1, <2>1 DEF AndroidActions, AndroidRules, AndroidCopies
  <2>3. AndroidObjects(t)' = AndroidObjects(t) /\ AndroidBinaryEdge(t)' = AndroidBinaryEdge(t)
    BY <1>1, <1>2, <2>1 DEF AndroidObjects, AndroidBinaryEdge, AdditionalDependencies
  <2>4. AndroidOutput(t)' = AndroidOutput(t)
    BY <1>1 DEF AndroidOutput
  <2> QED
    BY <2>2, <2>3, <2>4 DEF AndroidSteps
<1>6. TargetsBefore(t)' = TargetsBefore(t) /\ LinkedBefore(t)' = LinkedBefore(t)
  BY <1>1 DEF TargetsBefore, LinkedBefore
<1>7. CMakeSteps(t)' = CMakeSteps(t)
  <2>1. CustomTargets(t)' = CustomTargets(t)
    BY <1>1, <1>6 DEF CustomTargets, CMakeActions, CMakeRules, CMakeCopies
  <2>2. CMakeObjects(t)' = CMakeObjects(t) /\ CMakeBinaryEdges(t)' = CMakeBinaryEdges(t)
    BY <1>1, <1>6 DEF CMakeObjects, CMakeBinaryEdges, CMakeType
  <2> QED
    BY <1>2, <1>6, <2>1, <2>2 DEF CMakeSteps
<1>8. XcodeSteps(t)' = XcodeSteps(t)
  <2>1. ScriptPhases(t)' = ScriptPhases(t) /\ CopyPhases(t)' = CopyPhases(t)
    BY <1>1 DEF ScriptPhases, ActionPhases, RulePhases, CopyPhases
  <2>2. Supported(t)' = Supported(t) /\ Native(t)' = Native(t)
    BY <1>1, <2>1 DEF Supported, Native
  <2>3. Support(t)' = Support(t) /\ SupportEdges(t)' = SupportEdges(t) /\ FirstPhases(t)' = FirstPhases(t)
    BY <1>6, <2>1, <2>2 DEF Support, SupportEdges, FirstPhases
  <2>4. SourcesPhase(t)' = SourcesPhase(t) /\ FrameworksPhase(t)' = FrameworksPhase(t)
    BY <1>1, <1>6, <2>2, <2>3 DEF SourcesPhase, FrameworksPhase
  <2> QED
    BY <1>6, <2>3, <2>4 DEF XcodeSteps
<1>9. MsvsSteps(t)' = MsvsSteps(t)
  <2>1. CustomBuilds(t)' = CustomBuilds(t)
    BY <1>1 DEF CustomBuilds, MsvsActions, MsvsRules, MsvsCopies
  <2>2. MsvsObjects(t)' = MsvsObjects(t) /\ MsvsOutput(t)' = MsvsOutput(t)
    BY <1>1, <1>6, <2>1 DEF MsvsObjects, MsvsOutput
  <2> QED
    BY <1>6, <2>1, <2>2 DEF MsvsSteps, ProjectReferences
<1> QED
  BY <1>3, <1>4, <1>5, <1>7, <1>8, <1>9 DEF StepsOf, RecordOf

-----------------------------------------------------------------------------
(* The steps of a target, file by file.                                    *)

\* One of the steps makes a file, and waits for w first.
Makes(es, file, w) == \E e \in es : e.out = file /\ w \subseteq e.needs

LEMMA MakesParts ==
  /\ \A F, w : \A f \in F : Makes(EdgesTo(F, w), f, w)
  /\ \A f, w : Makes({Edge(f, w)}, f, w)
  /\ \A A, B, f, w : Makes(A, f, w) => Makes(A \cup B, f, w) /\ Makes(B \cup A, f, w)
<1>1. ASSUME NEW F, NEW w, NEW f \in F
      PROVE  Makes(EdgesTo(F, w), f, w)
  <2>1. Edge(f, w) \in EdgesTo(F, w)
    BY DEF EdgesTo
  <2> QED
    BY <2>1, EdgeParts DEF Makes
<1>2. \A f, w : Makes({Edge(f, w)}, f, w)
  BY EdgeParts DEF Makes
<1>3. \A A, B, f, w : Makes(A, f, w) => Makes(A \cup B, f, w) /\ Makes(B \cup A, f, w)
  BY DEF Makes
<1> QED
  BY <1>1, <1>2, <1>3

\* What is built as a whole.
LEMMA WholeMakes ==
  ASSUME NEW whole, NEW before, NEW es
  PROVE  /\ Makes(Whole(whole, before, es), whole, Made(es) \cup before)
         /\ \A f \in Made(es) : Makes(Whole(whole, before, es), f, before)
         /\ \A f, w : Makes(es, f, w) => Makes(Whole(whole, before, es), f, w \cup before)
<1>1. Whole(whole, before, es) = Delayed(es, before) \cup {Edge(whole, Made(es) \cup before)}
  BY DEF Whole, Delayed
<1>2. Makes(Whole(whole, before, es), whole, Made(es) \cup before)
  <2>1. Makes({Edge(whole, Made(es) \cup before)}, whole, Made(es) \cup before)
    BY MakesParts
  <2> QED
    BY <1>1, <2>1 DEF Makes
<1>3. ASSUME NEW f, NEW w, Makes(es, f, w)
      PROVE  Makes(Whole(whole, before, es), f, w \cup before)
  <2>1. PICK e \in es : e.out = f /\ w \subseteq e.needs
    BY <1>3 DEF Makes
  <2>2. Edge(e.out, e.needs \cup before) \in Whole(whole, before, es)
    BY <1>1 DEF Delayed
  <2>3. /\ Edge(e.out, e.needs \cup before).out = f
        /\ Edge(e.out, e.needs \cup before).needs = e.needs \cup before
    BY <2>1, EdgeParts
  <2>4. w \cup before \subseteq e.needs \cup before
    BY <2>1
  <2> QED
    BY <2>2, <2>3, <2>4 DEF Makes
<1>4. ASSUME NEW f \in Made(es)
      PROVE  Makes(Whole(whole, before, es), f, before)
  <2>1. Makes(es, f, {})
    BY DEF Made, Makes
  <2>2. Makes(Whole(whole, before, es), f, {} \cup before)
    BY <1>3, <2>1
  <2>3. {} \cup before = before
    OBVIOUS
  <2> QED
    BY <2>2, <2>3
<1> QED
  BY <1>2, <1>3, <1>4

\* make
LEMMA MakeStepsAre ==
  ASSUME NEW t
  PROVE  /\ \A f \in StepFiles(t) : Makes(MakeSteps(t), f, MakeDeps(t))
         /\ \A f \in Objects(t) : Makes(MakeSteps(t), f, MakeDeps(t) \cup StepFiles(t))
         /\ Makes(MakeSteps(t), File(t, "binary"),
                  StepFiles(t) \cup
                    (IF Dict(t).type = "none" THEN MakeDeps(t) ELSE Objects(t) \cup LinkDeps(t)))
         /\ Installed(t) => Makes(MakeSteps(t), File(t, "installed"), {File(t, "binary")})
         /\ Made(MakeSteps(t)) = StepFiles(t) \cup Objects(t) \cup {File(t, "binary")}
                                 \cup (IF Installed(t) THEN {File(t, "installed")} ELSE {})
<1> DEFINE w == MakeDeps(t)
           plain == MakeActions(t) \cup MakeRules(t) \cup MakeCopies(t)
           waits == StepFiles(t) \cup (IF Dict(t).type = "none" THEN w ELSE Objects(t) \cup LinkDeps(t))
<1>1. MakeStepEdges(t) = Delayed(plain, w)
  BY DEF MakeStepEdges, Delayed
<1>2. plain = EdgesTo(StepFiles(t), {})
  BY DEF MakeActions, MakeRules, MakeCopies, MakeRule, EdgesTo, StepFiles
<1> HIDE DEF w, plain, waits
<1>3. Made(MakeStepEdges(t)) = StepFiles(t)
  BY <1>1, <1>2, MadeDelayed, MadeOf
<1>4. ASSUME NEW f \in StepFiles(t)
      PROVE  Makes(MakeStepEdges(t), f, w)
  <2>1. PICK e \in plain : e.out = f
    BY <1>2, <1>4, EdgeParts DEF EdgesTo
  <2>2. Edge(e.out, e.needs \cup w) \in MakeStepEdges(t)
    BY <1>1, <2>1 DEF Delayed
  <2>3. /\ Edge(e.out, e.needs \cup w).out = f
        /\ Edge(e.out, e.needs \cup w).needs = e.needs \cup w
    BY <2>1, EdgeParts
  <2> QED
    BY <2>2, <2>3 DEF Makes
<1>5. MakeObjectEdges(t) = EdgesTo(Objects(t), w \cup StepFiles(t))
  BY DEF MakeObjectEdges, MakeRule, w
<1>6. MakeBinaryEdges(t) = EdgesTo({File(t, "binary")}, waits)
  BY DEF MakeBinaryEdges, MakeRule, waits, w
<1>7. InstallEdges(t) = EdgesTo(IF Installed(t) THEN {File(t, "installed")} ELSE {}, {File(t, "binary")})
  BY DEF InstallEdges, MakeRule, EdgesTo
<1>8. /\ \A f \in Objects(t) : Makes(MakeObjectEdges(t), f, w \cup StepFiles(t))
      /\ Makes(MakeBinaryEdges(t), File(t, "binary"), waits)
      /\ Installed(t) => Makes(InstallEdges(t), File(t, "installed"), {File(t, "binary")})
  <2>1. \A F, v : \A f \in F : Makes(EdgesTo(F, v), f, v)
    BY MakesParts
  <2> QED
    BY <1>5, <1>6, <1>7, <2>1
<1>9. /\ Made(MakeObjectEdges(t)) = Objects(t)
      /\ Made(MakeBinaryEdges(t)) = {File(t, "binary")}
      /\ Made(InstallEdges(t)) = IF Installed(t) THEN {File(t, "installed")} ELSE {}
  BY <1>5, <1>6, <1>7, MadeOf
<1>10. MakeSteps(t) =
         MakeStepEdges(t) \cup MakeObjectEdges(t) \cup MakeBinaryEdges(t) \cup InstallEdges(t)
  BY DEF MakeSteps
<1>11. Made(MakeSteps(t)) = StepFiles(t) \cup Objects(t) \cup {File(t, "binary")}
                              \cup (IF Installed(t) THEN {File(t, "installed")} ELSE {})
  <2>1. Made(MakeSteps(t)) =
          Made(MakeStepEdges(t) \cup MakeObjectEdges(t) \cup MakeBinaryEdges(t))
            \cup Made(InstallEdges(t))
    BY <1>10, MadeOf
  <2> QED
    BY <1>3, <1>9, <2>1, MadeOfThree
<1>12. \A f, v : \/ Makes(MakeStepEdges(t), f, v) \/ Makes(MakeObjectEdges(t), f, v)
                \/ Makes(MakeBinaryEdges(t), f, v) \/ Makes(InstallEdges(t), f, v)
                => Makes(MakeSteps(t), f, v)
  BY <1>10 DEF Makes
<1> QED
  BY <1>4, <1>8, <1>11, <1>12 DEF w, waits

\* android
LEMMA AndroidStepsAre ==
  ASSUME NEW t
  PROVE  /\ \A f \in StepFiles(t) : Makes(AndroidSteps(t), f, TargetDependencies(t))
         /\ \A f \in Objects(t) : Makes(AndroidSteps(t), f, AdditionalDependencies(t))
         /\ Makes(AndroidSteps(t), File(t, "binary"),
                  IF Dict(t).type = "none" THEN AdditionalDependencies(t)
                  ELSE Objects(t) \cup LocalLibraries(t))
         /\ Made(AndroidSteps(t)) = StepFiles(t) \cup Objects(t) \cup {File(t, "binary")}
<1> DEFINE waits == IF Dict(t).type = "none" THEN AdditionalDependencies(t)
                    ELSE Objects(t) \cup LocalLibraries(t)
<1>1. AndroidActions(t) \cup AndroidRules(t) \cup AndroidCopies(t)
        = EdgesTo(StepFiles(t), TargetDependencies(t))
  BY DEF AndroidActions, AndroidRules, AndroidCopies, EdgesTo, StepFiles
<1>2. AndroidObjects(t) = EdgesTo(Objects(t), AdditionalDependencies(t))
  BY DEF AndroidObjects
<1>3. AndroidBinaryEdge(t) = Edge(File(t, "binary"), waits)
  BY DEF AndroidBinaryEdge
<1> HIDE DEF waits
<1>4. AndroidSteps(t) = EdgesTo(StepFiles(t), TargetDependencies(t)) \cup AndroidObjects(t)
                          \cup {AndroidBinaryEdge(t)}
  BY <1>1 DEF AndroidSteps
<1>5. Made(AndroidSteps(t)) = StepFiles(t) \cup Objects(t) \cup {File(t, "binary")}
  <2>1. /\ Made(EdgesTo(StepFiles(t), TargetDependencies(t))) = StepFiles(t)
        /\ Made(AndroidObjects(t)) = Objects(t)
        /\ Made({AndroidBinaryEdge(t)}) = {File(t, "binary")}
    BY <1>2, <1>3, MadeOf
  <2> QED
    BY <1>4, <2>1, MadeOfThree
<1>6. /\ \A f \in StepFiles(t) : Makes(EdgesTo(StepFiles(t), TargetDependencies(t)), f, TargetDependencies(t))
      /\ \A f \in Objects(t) : Makes(AndroidObjects(t), f, AdditionalDependencies(t))
      /\ Makes({AndroidBinaryEdge(t)}, File(t, "binary"), waits)
  BY <1>2, <1>3, MakesParts
<1>7. \A f, v : \/ Makes(EdgesTo(StepFiles(t), TargetDependencies(t)), f, v)
               \/ Makes(AndroidObjects(t), f, v) \/ Makes({AndroidBinaryEdge(t)}, f, v)
               => Makes(AndroidSteps(t), f, v)
  BY <1>4 DEF Makes
<1> QED
  BY <1>5, <1>6, <1>7 DEF waits

\* Where targets are built as a whole: all that a target consists of waits for all that
\* the target depends on, and what waits for the target waits for all of it.
Entire(es, t) ==
  /\ \A T : /\ \A e \in es : e.out \in T => e.needs \subseteq T
            /\ File(t, "target") \in T
            => Made(es) \cup TargetsBefore(t) \subseteq T
  /\ \A f \in StepFiles(t) \cup Objects(t) : Makes(es, f, TargetsBefore(t))
  /\ Made(es) \subseteq
       StepFiles(t) \cup Objects(t) \cup {File(t, "support"), File(t, "binary"), File(t, "target")}

LEMMA MadeTo ==
  ASSUME NEW T, NEW es, \A e \in es : e.out \in T => e.needs \subseteq T,
         NEW f \in T, NEW w, Makes(es, f, w)
  PROVE  w \subseteq T
BY DEF Makes

\* cmake
LEMMA CMakeStepsAre ==
  ASSUME NEW t
  PROVE  Entire(CMakeSteps(t), t)
<1> DEFINE b == TargetsBefore(t)
           before == b \cup StepFiles(t)
           plain == CMakeActions(t) \cup CMakeRules(t) \cup CMakeCopies(t)
           es == CMakeObjects(t) \cup CMakeBinaryEdges(t)
           whole == Whole(File(t, "target"), before, es)
<1>1. CustomTargets(t) = Delayed(plain, b)
  BY DEF CustomTargets, Delayed
<1>2. plain = EdgesTo(StepFiles(t), {})
  BY DEF CMakeActions, CMakeRules, CMakeCopies, EdgesTo, StepFiles
<1>3. CMakeSteps(t) = CustomTargets(t) \cup whole
  BY DEF CMakeSteps
<1>4. Made(CMakeObjects(t)) = Objects(t)
  BY MadeOf DEF CMakeObjects
<1>5. Made(CMakeBinaryEdges(t)) \subseteq {File(t, "binary")}
  BY MadeOf DEF CMakeBinaryEdges
<1> HIDE DEF b, plain
<1>6. Made(CustomTargets(t)) = StepFiles(t)
  BY <1>1, <1>2, MadeDelayed, MadeOf
<1>7. Made(es) = Objects(t) \cup Made(CMakeBinaryEdges(t))
  BY <1>4, MadeOf
<1> HIDE DEF es
<1>8. Made(whole) = Made(es) \cup {File(t, "target")}
  BY MadeOf
<1> HIDE DEF before
<1>9. /\ Makes(whole, File(t, "target"), Made(es) \cup before)
      /\ \A f \in Made(es) : Makes(whole, f, before)
  BY WholeMakes
<1> HIDE DEF whole
<1>10. Made(CMakeSteps(t)) = StepFiles(t) \cup Made(es) \cup {File(t, "target")}
  BY <1>3, <1>6, <1>8, MadeOf
<1>11. ASSUME NEW f \in StepFiles(t)
       PROVE  Makes(CMakeSteps(t), f, b)
  <2>1. PICK e \in plain : e.out = f
    BY <1>2, <1>11, EdgeParts DEF EdgesTo
  <2>2. Edge(e.out, e.needs \cup b) \in CustomTargets(t)
    BY <1>1, <2>1 DEF Delayed
  <2>3. /\ Edge(e.out, e.needs \cup b).out = f
        /\ Edge(e.out, e.needs \cup b).needs = e.needs \cup b
    BY <2>1, EdgeParts
  <2> QED
    BY <1>3, <2>2, <2>3 DEF Makes
<1>12. ASSUME NEW f \in Objects(t)
       PROVE  Makes(CMakeSteps(t), f, b)
  BY <1>3, <1>7, <1>9, <1>12 DEF Makes, before
<1>13. Makes(CMakeSteps(t), File(t, "target"), Made(es) \cup before)
  BY <1>3, <1>9 DEF Makes
<1>14. ASSUME NEW T, \A e \in CMakeSteps(t) : e.out \in T => e.needs \subseteq T,
              File(t, "target") \in T
       PROVE  Made(CMakeSteps(t)) \cup b \subseteq T
  <2>1. Made(es) \cup before \subseteq T
    BY <1>13, <1>14, MadeTo
  <2> QED
    BY <1>10, <1>14, <2>1 DEF before
<1> QED
  BY <1>5, <1>7, <1>10, <1>11, <1>12, <1>14 DEF Entire, b

\* msvs
LEMMA MsvsStepsAre ==
  ASSUME NEW t
  PROVE  Entire(MsvsSteps(t), t)
<1> DEFINE b == TargetsBefore(t)
           es == CustomBuilds(t) \cup MsvsObjects(t) \cup MsvsOutput(t)
           target == File(t, "target")
<1>1. MsvsSteps(t) = Whole(target, b, es)
  BY DEF MsvsSteps, ProjectReferences
<1>2. Made(CustomBuilds(t)) = StepFiles(t)
  BY MadeOf DEF CustomBuilds, MsvsActions, MsvsRules, MsvsCopies, StepFiles
<1>3. Made(MsvsObjects(t)) = Objects(t)
  BY MadeOf DEF MsvsObjects
<1>4. Made(MsvsOutput(t)) \subseteq {File(t, "binary")}
  BY MadeOf DEF MsvsOutput
<1>5. Made(es) = StepFiles(t) \cup Objects(t) \cup Made(MsvsOutput(t))
  BY <1>2, <1>3, MadeOfThree
<1> HIDE DEF es, target, b
<1>6. Made(MsvsSteps(t)) = Made(es) \cup {target}
  BY <1>1, MadeOf
<1>7. /\ Makes(MsvsSteps(t), target, Made(es) \cup b)
      /\ \A f \in Made(es) : Makes(MsvsSteps(t), f, b)
  BY <1>1, WholeMakes
<1>8. ASSUME NEW T, \A e \in MsvsSteps(t) : e.out \in T => e.needs \subseteq T, target \in T
      PROVE  Made(MsvsSteps(t)) \cup b \subseteq T
  <2>1. Made(es) \cup b \subseteq T
    BY <1>7, <1>8, MadeTo
  <2> QED
    BY <1>6, <1>8, <2>1
<1> QED
  BY <1>4, <1>5, <1>6, <1>7, <1>8 DEF Entire, b, target

\* xcode
LEMMA XcodeStepsAre ==
  ASSUME NEW t
  PROVE  Entire(XcodeSteps(t), t)
<1> DEFINE b == TargetsBefore(t)
           target == File(t, "target")
           support == File(t, "support")
           es == FirstPhases(t) \cup SourcesPhase(t) \cup FrameworksPhase(t)
           whole == Whole(target, b \cup Support(t), es)
<1>1. XcodeSteps(t) = SupportEdges(t) \cup whole
  BY DEF XcodeSteps
<1>2. Made(ScriptPhases(t)) = Actions(t) \cup Rules(t)
  BY ScriptPhasesFit
<1>3. Made(CopyPhases(t)) = Copies(t)
  BY MadeOf DEF CopyPhases
<1>4. Made(FirstPhases(t)) = Copies(t) \cup (IF Supported(t) THEN {} ELSE Actions(t) \cup Rules(t))
  BY <1>2, <1>3, MadeOf DEF FirstPhases
<1>5. Made(SourcesPhase(t)) = Objects(t)
  BY MadeOf DEF SourcesPhase
<1>6. Made(FrameworksPhase(t)) \subseteq {File(t, "binary")}
  BY MadeOf DEF FrameworksPhase
<1>7. Made(es) = Made(FirstPhases(t)) \cup Objects(t) \cup Made(FrameworksPhase(t))
  BY <1>5, MadeOfThree
<1> HIDE DEF es
<1>8. Made(whole) = Made(es) \cup {target}
  BY MadeOf
<1>9. /\ Makes(whole, target, Made(es) \cup (b \cup Support(t)))
      /\ \A f \in Made(es) : Makes(whole, f, b \cup Support(t))
  BY WholeMakes
<1> HIDE DEF whole, b, target, support
<1>10. CASE Supported(t)
  <2>1. SupportEdges(t) = Whole(support, b, ScriptPhases(t)) /\ Support(t) = {support}
    BY <1>10 DEF SupportEdges, Support, b, support
  <2>2. Made(SupportEdges(t)) = Made(ScriptPhases(t)) \cup {support}
    BY <2>1, MadeOf
  <2>3. /\ Makes(SupportEdges(t), support, Made(ScriptPhases(t)) \cup b)
        /\ \A f \in Made(ScriptPhases(t)) : Makes(SupportEdges(t), f, b)
    BY <2>1, WholeMakes
  <2>4. /\ Made(XcodeSteps(t)) = Made(ScriptPhases(t)) \cup {support} \cup Made(es) \cup {target}
        /\ \A f \in Made(ScriptPhases(t)) \cup Made(es) : Makes(XcodeSteps(t), f, b)
        /\ Makes(XcodeSteps(t), support, Made(ScriptPhases(t)))
        /\ Makes(XcodeSteps(t), target, Made(es) \cup b \cup {support})
    <3>1. Made(XcodeSteps(t)) = Made(SupportEdges(t)) \cup Made(whole)
      BY <1>1, MadeOf
    <3>2. \A f \in Made(ScriptPhases(t)) \cup Made(es) : Makes(XcodeSteps(t), f, b)
      BY <1>1, <1>9, <2>3 DEF Makes
    <3>3. Makes(XcodeSteps(t), support, Made(ScriptPhases(t)))
      BY <1>1, <2>3 DEF Makes
    <3>4. Makes(XcodeSteps(t), target, Made(es) \cup b \cup {support})
      BY <1>1, <1>9, <2>1 DEF Makes
    <3> QED
      BY <1>8, <2>2, <3>1, <3>2, <3>3, <3>4
  <2>5. ASSUME NEW T, \A e \in XcodeSteps(t) : e.out \in T => e.needs \subseteq T, target \in T
        PROVE  Made(XcodeSteps(t)) \cup b \subseteq T
    <3>1. Made(es) \cup b \cup {support} \subseteq T
      BY <2>4, <2>5, MadeTo
    <3>2. Made(ScriptPhases(t)) \subseteq T
      BY <2>4, <2>5, <3>1, MadeTo
    <3> QED
      BY <2>4, <2>5, <3>1, <3>2
  <2>6. StepFiles(t) \cup Objects(t) \subseteq Made(ScriptPhases(t)) \cup Made(es)
    BY <1>2, <1>4, <1>7, <1>10 DEF StepFiles
  <2>7. Made(XcodeSteps(t)) \subseteq
          StepFiles(t) \cup Objects(t) \cup {support, File(t, "binary"), target}
    BY <1>2, <1>4, <1>6, <1>7, <1>10, <2>4 DEF StepFiles
  <2> QED
    BY <2>4, <2>5, <2>6, <2>7 DEF Entire, b, target, support
<1>11. CASE ~Supported(t)
  <2>1. SupportEdges(t) = {} /\ Support(t) = {}
    BY <1>11 DEF SupportEdges, Support
  <2>2. XcodeSteps(t) = whole
    BY <1>1, <2>1
  <2>3. ASSUME NEW T, \A e \in XcodeSteps(t) : e.out \in T => e.needs \subseteq T, target \in T
        PROVE  Made(XcodeSteps(t)) \cup b \subseteq T
    <3>1. Made(es) \cup (b \cup Support(t)) \subseteq T
      BY <1>9, <2>2, <2>3, MadeTo
    <3> QED
      BY <1>8, <2>2, <2>3, <3>1
  <2>4. /\ Made(es) = StepFiles(t) \cup Objects(t) \cup Made(FrameworksPhase(t))
        /\ \A f \in Made(es) : Makes(XcodeSteps(t), f, b)
    <3>1. b \cup Support(t) = b
      BY <2>1
    <3> QED
      BY <1>4, <1>7, <1>9, <1>11, <2>2, <3>1 DEF StepFiles
  <2>5. Made(XcodeSteps(t)) \subseteq
          StepFiles(t) \cup Objects(t) \cup {support, File(t, "binary"), target}
    BY <1>6, <1>8, <2>2, <2>4
  <2> QED
    BY <2>3, <2>4, <2>5 DEF Entire, b, target, support
<1> QED
  BY <1>10, <1>11

\* ninja.  That the second of many rules waits for nothing is the exception that
\* ActionsAfterDependencies makes.
Unwaited(t, f) == Dict(t).steps = "many_rules" /\ f = File(t, "rule_2")

NinjaWaitsLinked(t) ==
  Objects(t) \cup (IF Dict(t).type = "static_library" THEN NinjaWaited(t)
                   ELSE AllOf(Outputs(t), FinalOutput))

LEMMA NinjaStepsAre ==
  ASSUME NEW t
  PROVE  /\ \A f \in StepFiles(t) : ~Unwaited(t, f) => Makes(NinjaSteps(t), f, NinjaPreaction(t))
         /\ \A f \in Objects(t) : Makes(NinjaSteps(t), f, NinjaPredepends(t))
         /\ \/ /\ NinjaBinary(t).binary = NinjaWaited(t)
               /\ Dict(t).type = "none" \/ Objects(t) = {}
               /\ Made(NinjaSteps(t)) = StepFiles(t) \cup Objects(t)
            \/ /\ NinjaBinary(t).binary = {File(t, "binary")}
               /\ Dict(t).type # "none"
               /\ Makes(NinjaSteps(t), File(t, "binary"), NinjaWaitsLinked(t))
               /\ Made(NinjaSteps(t)) = StepFiles(t) \cup Objects(t) \cup {File(t, "binary")}
<1> DEFINE pre == NinjaPreaction(t)
           arc == ActionsRulesCopies(t, pre)
           objects == NinjaObjects(t, NinjaPredepends(t))
           b == NinjaBinary(t)
           file == File(t, "binary")
<1>1. NinjaSteps(t) = arc \cup b.edges \cup objects
  BY DEF NinjaSteps
<1>2. objects = EdgesTo(Objects(t), NinjaPredepends(t))
  BY DEF NinjaObjects
<1>3. \/ /\ b.binary = NinjaWaited(t) /\ b.edges = {}
         /\ Dict(t).type = "none" \/ Objects(t) = {}
      \/ /\ b.binary = {file} /\ b.edges = {Edge(file, NinjaWaitsLinked(t))}
         /\ Dict(t).type # "none"
  BY DEF NinjaBinary, Binary, Link, LinkWaits, NinjaWaitsLinked
<1>4. Made(arc) = StepFiles(t)
  <2>1. pre \subseteq pre /\ StepFiles(t) \subseteq StepFiles(t)
    OBVIOUS
  <2> QED
    BY <2>1, NinjaStepsFit
<1>5. ASSUME NEW f \in StepFiles(t), ~Unwaited(t, f)
      PROVE  Makes(arc, f, pre)
  <2>1. CASE f \in Actions(t) \cup Copies(t)
    <3>1. Edge(f, pre) \in arc
      BY <2>1 DEF ActionsRulesCopies, NinjaActions, NinjaCopies, EdgesTo
    <3> QED
      BY <3>1, EdgeParts DEF Makes
  <2>2. CASE f \in Rules(t)
    <3>1. Edge(f, pre) \in NinjaRules(t, pre)
      BY <1>5, <2>2 DEF NinjaRules, Unwaited
    <3>2. Edge(f, pre) \in arc
      BY <3>1 DEF ActionsRulesCopies
    <3> QED
      BY <3>2, EdgeParts DEF Makes
  <2> QED
    BY <1>5, <2>1, <2>2 DEF StepFiles
<1> HIDE DEF b, arc, pre, objects
<1>6. Made(objects) = Objects(t) /\ \A f \in Objects(t) : Makes(objects, f, NinjaPredepends(t))
  BY <1>2, MadeOf, MakesParts
<1>7. Made(NinjaSteps(t)) = StepFiles(t) \cup Made(b.edges) \cup Objects(t)
  BY <1>1, <1>4, <1>6, MadeOfThree
<1>8. \A f, w : Makes(arc, f, w) \/ Makes(b.edges, f, w) \/ Makes(objects, f, w)
                => Makes(NinjaSteps(t), f, w)
  BY <1>1 DEF Makes
<1>9. CASE b.edges = {}
  BY <1>3, <1>5, <1>6, <1>7, <1>8, <1>9, MadeOf DEF b, pre
<1>10. CASE b.edges # {}
  <2>1. /\ b.binary = {file} /\ b.edges = {Edge(file, NinjaWaitsLinked(t))}
        /\ Dict(t).type # "none"
    BY <1>3, <1>10
  <2>2. Made(b.edges) = {file} /\ Makes(b.edges, file, NinjaWaitsLinked(t))
    BY <2>1, MadeOf, MakesParts
  <2> QED
    BY <1>5, <1>6, <1>7, <1>8, <2>1, <2>2 DEF b, pre
<1> QED
  BY <1>9, <1>10

\* Whichever generator it is, the steps of a target make files of that target.
LEMMA OwnSteps ==
  ASSUME generator \in Formats, NEW t
  PROVE  Made(StepsOf(t)) \subseteq
           StepFiles(t) \cup Objects(t)
             \cup {File(t, kind) : kind \in {"binary", "installed", "target", "support"}}
<1> DEFINE own == StepFiles(t) \cup Objects(t)
                    \cup {File(t, kind) : kind \in {"binary", "installed", "target", "support"}}
<1>1. CASE generator = "ninja"
  BY <1>1, NinjaStepsAre DEF StepsOf
<1>2. CASE generator = "make"
  BY <1>2, MakeStepsAre DEF StepsOf
<1>3. CASE generator = "android"
  BY <1>3, AndroidStepsAre DEF StepsOf
<1>4. ASSUME NEW es, Entire(es, t)
      PROVE  Made(es) \subseteq own
  BY <1>4 DEF Entire
<1>5. CASE generator = "cmake"
  BY <1>4, <1>5, CMakeStepsAre DEF StepsOf
<1>6. CASE generator = "xcode"
  BY <1>4, <1>6, XcodeStepsAre DEF StepsOf
<1>7. CASE generator = "msvs"
  BY <1>4, <1>7, MsvsStepsAre DEF StepsOf
<1> QED
  BY <1>1, <1>2, <1>3, <1>5, <1>6, <1>7 DEF Formats

LEMMA StepsOwned ==
  ASSUME generator \in Formats, NEW t, NEW e \in StepsOf(t)
  PROVE  e.out[1] = t
<1>1. e.out \in Made(StepsOf(t))
  BY DEF Made
<1>2. \A f \in StepFiles(t) \cup Objects(t) : f[1] = t
  BY OwnFiles
<1>3. \A kind : File(t, kind)[1] = t
  BY OwnFiles
<1> QED
  BY <1>1, <1>2, <1>3, OwnSteps

-----------------------------------------------------------------------------
(* The invariant: what gyp has written so far are the steps of the targets *)
(* whose turn it was, and building everything builds what was asked for.   *)

NeededKept == stage \in {"write", "done"} => needed = NeededBy(generator)

AsWritten(t) ==
  /\ {e \in edges : e.out[1] = t} = StepsOf(t)
  /\ IF RecordOf(t) = {} THEN t \notin DOMAIN outputs
     ELSE t \in DOMAIN outputs /\ RecordOf(t) = {outputs[t]}

StepsKept ==
  stage \in {"write", "done"} /\ ExportsKept =>
    /\ DOMAIN outputs \subseteq WrittenTargets
    /\ \A t \in WrittenTargets : AsWritten(t)

OrderInv == FollowsKept /\ NeededKept /\ StepsKept

\* What was asked for stays what it is.
LEMMA NeededStays ==
  ASSUME GraphsStay, UNCHANGED <<loading, flat, deps>>
  PROVE  \A format : NeededBy(format)' = NeededBy(format)
<1>1. /\ Present' = Present /\ \A t : Dict(t)' = Dict(t) /\ Dependencies(t)' = Dependencies(t)
      /\ project' = project /\ loaded' = loaded /\ flat' = flat /\ deps' = deps
  <2>1. UNCHANGED <<project, loaded>> /\ UNCHANGED <<flat, deps>>
    BY DEF loading, shared
  <2> QED
    BY <2>1 DEF GraphsStay
<1>2. \A t : ListedDependencies(t)' = ListedDependencies(t)
  BY <1>1 DEF ListedDependencies, OriginalDependencies
<1>3. \A roots : DeepDependencyTargets(roots)' = DeepDependencyTargets(roots)
  BY <1>1, <1>2 DEF DeepDependencyTargets, Reached
<1>4. \A f : BuildFileTargets(f)' = BuildFileTargets(f)
  BY <1>1 DEF BuildFileTargets
<1>5. \A files : AllTargets(files)' = AllTargets(files)
  BY <1>3, <1>4 DEF AllTargets
<1> QED
  BY <1>1, <1>5 DEF NeededBy

\* All that a target depends on that is written is written, too.
LEMMA WrittenLed ==
  ASSUME GypInv, stage \in {"write", "done"}, ExportsKept
  PROVE  /\ \A t \in WrittenTargets : deps[t] \subseteq WrittenTargets
         /\ generator \in {"make", "android"} => DOMAIN outputs = WrittenTargets
<1>1. /\ Listing(flat, TargetGraph) /\ Behind(flat, deps)
      /\ next \in Nat \ {0} /\ next <= Len(flat) + 1
  BY DEF GypInv, InputInv, InputTypes, StageInv, AdjustInv, Ordered, DepsBehind
<1>2. Len(flat) \in Nat
  BY <1>1 DEF Listing
<1>3. ASSUME NEW i \in 1..(next - 1), NEW d \in deps[flat[i]]
      PROVE  d \in WrittenTargets
  <2>1. i \in 1..Len(flat)
    BY <1>1, <1>2
  <2>2. PICK j \in 1..(i - 1) : flat[j] = d
    BY <1>1, <1>3, <2>1 DEF Behind
  <2>3. j \in 1..(next - 1)
    BY <1>1
  <2> QED
    BY <2>2, <2>3 DEF WrittenTargets
<1>4. \A t \in WrittenTargets : deps[t] \subseteq WrittenTargets
  BY <1>3 DEF WrittenTargets
<1>5. generator \in {"make", "android"} => DOMAIN outputs = WrittenTargets
  BY DEF GypInv, BuildInv, OutputsKept, TablesKept
<1> QED
  BY <1>4, <1>5

\* Where only the stage changes.
LEMMA BuildRests ==
  ASSUME GypInv, OrderInv, UNCHANGED <<loading, flat, next, deps, build>>,
         stage' = stage \/ (stage = "write" /\ stage' = "done")
  PROVE  OrderInv'
<1>1. /\ UNCHANGED <<loading, flat, next, deps, generator, needed, outputs, edges>>
      /\ UNCHANGED <<project, loaded>>
  <2>1. UNCHANGED <<project, loaded>>
    BY DEF loading, shared
  <2>2. UNCHANGED <<loading, flat, next, deps, generator, needed, outputs, edges>>
    BY DEF build
  <2> QED
    BY <2>1, <2>2
<1>2. GraphsStay
  BY <1>1, GraphsKept
<1>3. FollowsKept'
  <2>1. \A t : Dependencies(t)' = Dependencies(t) /\ Listed(t)' = Listed(t)
    BY <1>1, <1>2, FollowsStays DEF GraphsStay, Listed
  <2> QED
    BY <1>1, <2>1 DEF OrderInv, FollowsKept
<1>4. NeededKept'
  BY <1>1, <1>2, NeededStays DEF OrderInv, NeededKept
<1>5. StepsKept'
  <2> SUFFICES ASSUME stage \in {"write", "done"}, ExportsKept
               PROVE  /\ DOMAIN outputs \subseteq WrittenTargets
                      /\ \A t \in WrittenTargets : AsWritten(t)'
    <3>1. WrittenTargets' = WrittenTargets /\ ExportsKept' = ExportsKept
      BY <1>1, <1>2 DEF WrittenTargets, GraphsStay
    <3> QED
      BY <1>1, <3>1 DEF StepsKept
  <2>1. /\ DOMAIN outputs \subseteq WrittenTargets
        /\ \A t \in WrittenTargets : AsWritten(t)
    BY DEF OrderInv, StepsKept
  <2>2. ASSUME NEW t \in WrittenTargets
        PROVE  StepsOf(t)' = StepsOf(t) /\ RecordOf(t)' = RecordOf(t)
    BY <1>1, WrittenLed, StepsStay
  <2> QED
    BY <1>1, <2>1, <2>2 DEF AsWritten
<1> QED
  BY <1>3, <1>4, <1>5 DEF OrderInv

\* A turn adds one target's steps, and those of the others stay what they are.
LEMMA TurnGoesOn ==
  ASSUME GypInv, OrderInv, NEW t, Turn(generator, t), generator \in Formats,
         Written(t, StepsOf(t), RecordOf(t))
  PROVE  OrderInv'
<1>1. /\ UNCHANGED <<loading, stage, flat, deps, generator, needed>> /\ next' = next + 1
      /\ edges' = edges \cup StepsOf(t)
      /\ outputs' = IF RecordOf(t) = {} THEN outputs
                    ELSE [u \in DOMAIN outputs \cup {t} |->
                            IF u = t THEN CHOOSE r \in RecordOf(t) : TRUE ELSE outputs[u]]
  BY DEF Written
<1>2. UNCHANGED <<project, loaded>>
  BY <1>1 DEF loading, shared
<1>3. GraphsStay
  BY <1>2, GraphsKept
<1>4. FollowsKept'
  <2>1. stage = "write"
    BY DEF Turn
  <2>2. \A u : Listed(u)' = Listed(u)
    BY <1>1, <1>3, FollowsStays DEF Listed
  <2> QED
    BY <1>1, <2>1, <2>2 DEF OrderInv, FollowsKept
<1>5. NeededKept'
  BY <1>1, <1>3, NeededStays DEF OrderInv, NeededKept
<1>6. StepsKept'
  <2> SUFFICES ASSUME ExportsKept
               PROVE  /\ DOMAIN outputs' \subseteq WrittenTargets'
                      /\ \A u \in WrittenTargets' : AsWritten(u)'
    <3>1. ExportsKept' = ExportsKept
      BY <1>3 DEF GraphsStay
    <3> QED
      BY <3>1 DEF StepsKept
  <2>1. /\ stage = "write" /\ next \in 1..Len(flat) /\ Len(flat) \in Nat /\ t = flat[next]
        /\ t \notin WrittenTargets /\ deps[t] \subseteq WrittenTargets
    BY TheTurn
  <2>2. WrittenTargets' = WrittenTargets \cup {t}
    <3>1. next' - 1 = next /\ 1..next = 1..(next - 1) \cup {next}
      BY <1>1, <2>1
    <3> QED
      BY <1>1, <2>1, <3>1 DEF WrittenTargets
  <2>3. /\ \A u \in WrittenTargets : deps[u] \subseteq WrittenTargets
        /\ generator \in {"make", "android"} => DOMAIN outputs = WrittenTargets
    BY <2>1, WrittenLed
  <2>4. /\ DOMAIN outputs \subseteq WrittenTargets
        /\ \A u \in WrittenTargets : AsWritten(u)
    BY <2>1 DEF OrderInv, StepsKept
  <2>5. RecordOf(t) = {} \/ \E r : RecordOf(t) = {r}
    BY DEF RecordOf, NinjaRecord, Formats
  <2>6. /\ \A d \in WrittenTargets : (d \in DOMAIN outputs' <=> d \in DOMAIN outputs)
        /\ \A d \in DOMAIN outputs : outputs'[d] = outputs[d]
        /\ IF RecordOf(t) = {} THEN t \notin DOMAIN outputs'
           ELSE t \in DOMAIN outputs' /\ RecordOf(t) = {outputs'[t]}
    BY <1>1, <2>1, <2>4, <2>5
  <2>7. DOMAIN outputs' \subseteq WrittenTargets \cup {t}
    BY <1>1, <2>4
  <2>8. ASSUME NEW u, deps[u] \subseteq WrittenTargets
        PROVE  StepsOf(u)' = StepsOf(u) /\ RecordOf(u)' = RecordOf(u)
    <3>1. deps[u] \cap DOMAIN outputs' = deps[u] \cap DOMAIN outputs
      BY <2>6, <2>8
    <3>2. \A d \in deps[u] \cap DOMAIN outputs : outputs'[d] = outputs[d]
      BY <2>6
    <3>3. generator \in {"make", "android"} => deps[u] \subseteq DOMAIN outputs
      BY <2>3, <2>8
    <3> QED
      BY <1>1, <1>2, <3>1, <3>2, <3>3, StepsStay
  <2>9. \A e \in StepsOf(t) : e.out[1] = t
    BY StepsOwned
  <2>10. \A e \in edges : e.out[1] \in WrittenTargets
    <3>1. StepsOfTargets
      BY <2>1 DEF GypInv, BuildInv
    <3> QED
      BY <3>1 DEF StepsOfTargets
  <2>11. AsWritten(t)'
    <3>1. {e \in edges' : e.out[1] = t} = StepsOf(t)
      BY <1>1, <2>1, <2>9, <2>10
    <3> QED
      BY <2>1, <2>6, <2>8, <3>1 DEF AsWritten
  <2>12. ASSUME NEW u \in WrittenTargets
         PROVE  AsWritten(u)'
    <3>1. {e \in edges' : e.out[1] = u} = {e \in edges : e.out[1] = u}
      BY <1>1, <2>1, <2>9
    <3>2. StepsOf(u)' = StepsOf(u) /\ RecordOf(u)' = RecordOf(u)
      BY <2>3, <2>8
    <3> QED
      BY <2>4, <2>6, <3>1, <3>2 DEF AsWritten
  <2> QED
    BY <2>2, <2>7, <2>11, <2>12
<1> QED
  BY <1>4, <1>5, <1>6 DEF OrderInv

\* The generator is chosen, and with it what is needed.
LEMMA GenerateKeeps ==
  ASSUME GypInv, OrderInv, Generate
  PROVE  OrderInv'
<1>1. /\ stage = "generate" /\ stage' = "write" /\ next' = 1
      /\ UNCHANGED <<loading, flat, deps, outputs, edges>>
      /\ outputs = <<>>
  <2>1. stage = "generate" /\ next = 1 /\ outputs = <<>>
    BY DEF Generate, GypInv, AdjustInv, BuildInv, Refusals
  <2> QED
    BY <2>1 DEF Generate
<1>2. GraphsStay
  <2>1. UNCHANGED <<project, loaded>>
    BY <1>1 DEF loading, shared
  <2> QED
    BY <2>1, GraphsKept
<1>3. FollowsKept'
  <2>1. \A t : Listed(t)' = Listed(t)
    BY <1>1, <1>2, FollowsStays DEF Listed
  <2> QED
    BY <1>1, <2>1 DEF OrderInv, FollowsKept
<1>4. NeededKept'
  <2>1. PICK format : generator' = format /\ needed' = NeededBy(format)
    BY DEF Generate
  <2>2. NeededBy(generator') = NeededBy(generator)'
    BY <1>1, <1>2, NeededStays
  <2> QED
    BY <2>1, <2>2 DEF NeededKept
<1>5. StepsKept'
  <2>1. WrittenTargets' = {} /\ DOMAIN outputs' = {}
    BY <1>1 DEF WrittenTargets
  <2> QED
    BY <2>1 DEF StepsKept
<1> QED
  BY <1>3, <1>4, <1>5 DEF OrderInv

\* Reading and ordering the targets.
LEMMA InputKeepsOrder ==
  ASSUME GypInv, GypInv', OrderInv, InputNext
  PROVE  OrderInv'
<1>1. ASSUME FollowsKept', stage' \notin {"write", "done"}
      PROVE  OrderInv'
  BY <1>1 DEF OrderInv, NeededKept, StepsKept
<1>2. CASE LoadNext /\ UNCHANGED input
  <2>1. stage = "load"
    BY <1>2, LoadedStays DEF GypInv, InputInv, StageInv
  <2>2. stage' = "load"
    BY <1>2, <2>1 DEF input
  <2> QED
    BY <1>1, <2>2 DEF FollowsKept
<1>3. CASE ReadTargets \/ FilesFlattened \/ \E n \in zeros : Flatten(n)
  <2>1. stage' \in {"files", "targets"} \cup Faults
    BY <1>3 DEF ReadTargets, FilesFlattened, Flatten, BuildDependencyList, Fails, Faults
  <2> QED
    BY <1>1, <2>1 DEF FollowsKept, Faults
<1>4. CASE TargetsFlattened
  <2>1. FollowsKept'
    BY <1>4, FollowsBegin DEF GypInv
  <2>2. stage' \in {"adjust"} \cup Faults
    BY <1>4 DEF TargetsFlattened, KeepWanted, Fails, Faults
  <2> QED
    BY <1>1, <2>1, <2>2 DEF Faults
<1>5. CASE Adjust
  <2>1. FollowsKept'
    BY <1>5, FollowsGoOn DEF GypInv, OrderInv
  <2>2. stage' = "adjust"
    BY <1>5 DEF Adjust
  <2> QED
    BY <1>1, <2>1, <2>2
<1>6. CASE AdjustEnds
  <2>1. FollowsKept'
    BY <1>6, FollowsEnd DEF GypInv, OrderInv
  <2>2. stage' = "generate"
    BY <1>6 DEF AdjustEnds
  <2> QED
    BY <1>1, <2>1, <2>2
<1> QED
  BY <1>2, <1>3, <1>4, <1>5, <1>6 DEF InputNext

\* Each action keeps the invariant.
LEMMA OrderInvInductive == GypInv /\ GypInv' /\ OrderInv /\ [GypNext]_gyp => OrderInv'
<1> SUFFICES ASSUME GypInv, GypInv', OrderInv, [GypNext]_gyp PROVE OrderInv'
  OBVIOUS
<1>1. CASE InputNext
  BY <1>1, InputKeepsOrder
<1>2. CASE Generate
  BY <1>2, GenerateKeeps
<1>3. ASSUME stage' \in Refusals
      PROVE  OrderInv'
  BY <1>3 DEF OrderInv, FollowsKept, NeededKept, StepsKept, Refusals
<1>4. ASSUME NEW t, Write(t)
      PROVE  OrderInv'
  <2>1. CASE Written(t, StepsOf(t), RecordOf(t))
    BY <1>4, <2>1, TurnWrites, TurnGoesOn
  <2>2. CASE \E fault \in Refusals : Refused(fault)
    BY <1>3, <2>2 DEF Refused, Fails
  <2> QED
    BY <1>4, <2>1, <2>2, TurnWrites
<1>5. CASE WriteEnds
  BY <1>5, BuildRests DEF WriteEnds
<1>6. CASE Raised
  BY <1>3, <1>6 DEF Raised, Refusals
<1>7. CASE UNCHANGED gyp
  <2>1. UNCHANGED <<loading, flat, next, deps, build>> /\ stage' = stage
    BY <1>7 DEF gyp, input
  <2> QED
    BY <2>1, BuildRests
<1> QED
  BY <1>1, <1>2, <1>4, <1>5, <1>6, <1>7 DEF GypNext

LEMMA OrderInvHolds == GypSpec => [](GypInv /\ OrderInv)
<1>1. GypInit => OrderInv
  BY DEF GypInit, InputInit, OrderInv, FollowsKept, NeededKept, StepsKept
<1> QED
  BY <1>1, GypInvHolds, OrderInvInductive, PTL DEF GypSpec

-----------------------------------------------------------------------------
(* What waits for what, in a build that is written.                        *)

\* Whatever waits for S waits for F.
Brings(S, F) == \A T : Closed(T) /\ S \subseteq T => F \subseteq T

\* The files that stand for a target to those that depend on it, and, where sources are
\* compiled as soon as what they include is there, the files that stand for that.
Stand(t) ==
  CASE generator = "ninja" -> IF t \in DOMAIN outputs THEN FinalOutput(outputs[t]) ELSE {}
    [] generator \in {"make", "android"} -> outputs[t].output
    [] generator \in {"cmake", "xcode", "msvs"} -> {File(t, "target")}

CompileStand(t) ==
  IF generator = "ninja"
  THEN IF t \in DOMAIN outputs THEN PreCompileInput(outputs[t]) ELSE {}
  ELSE Stand(t)

Needs(file) == UNION {e.needs : e \in {d \in edges : d.out = file}}

\* What stands for a target brings what the target makes for others, and what stands for
\* those that the target passes on; its steps wait for what stands for those it follows.
InOrder(t) ==
  /\ Brings(Stand(t), FilesOf(t, UsedProducts(t)))
  /\ ~LinkedOnly(t) => /\ Brings(Stand(t), FilesOf(t, Steps))
                       /\ Brings(CompileStand(t), FilesOf(t, Steps))
  /\ \A d \in Passes(t) :
       /\ Brings(Stand(t), Stand(d))
       /\ Brings(CompileStand(t), CompileStand(d)) \/ Brings(CompileStand(t), Stand(d))
  /\ \A a \in FilesOf(t, Steps) :
       \/ generator = "ninja" /\ Unwaited(t, a)
       \/ \A d \in Follows(t) : Brings(Needs(a), Stand(d))
  /\ \A o \in FilesOf(t, {"object"}) : \A d \in Follows(t) :
       Brings(Needs(o), CompileStand(d)) \/ Brings(Needs(o), Stand(d))

\* What is known of a target at the end.
Finished(t) ==
  /\ stage = "done" /\ ExportsKept /\ generator \in Formats
  /\ t \in Present /\ Dict(t) \in TargetDicts
  /\ Follows(t) \subseteq deps[t] /\ deps[t] \subseteq ToSet(flat)
  /\ \A u \in ToSet(flat) : AsWritten(u)

LEMMA AllFinished ==
  ASSUME GypInv, OrderInv, stage = "done", ExportsKept
  PROVE  \A t \in ToSet(flat) : Finished(t)
<1>1. /\ generator \in Formats /\ next = Len(flat) + 1
      /\ \A t \in ToSet(flat) : deps[t] \subseteq ToSet(flat)
      /\ flat \in Seq(Present)
  BY DEF GypInv, BuildInv, AdjustInv, InputInv, StageInv, Ordered, Listing, TargetGraph
<1>2. Len(flat) \in Nat /\ WrittenTargets = ToSet(flat) /\ ToSet(flat) \subseteq Present
  <2>1. Len(flat) \in Nat /\ next - 1 = Len(flat)
    BY <1>1
  <2> QED
    BY <1>1, <2>1 DEF WrittenTargets, ToSet
<1>3. \A t \in ToSet(flat) : AsWritten(t)
  BY <1>2 DEF OrderInv, StepsKept
<1>4. \A t \in ToSet(flat) : Listed(t)
  BY DEF OrderInv, FollowsKept
<1>5. \A t \in Present : Dict(t) \in TargetDicts
  BY Named DEF GypInv, InputInv
<1> QED
  BY <1>1, <1>2, <1>3, <1>4, <1>5 DEF Finished, Listed

\* A target's files are those of its steps.
LEMMA FilesMade ==
  ASSUME NEW t, AsWritten(t), NEW kinds, NEW f \in FilesOf(t, kinds)
  PROVE  f \in Made(StepsOf(t)) /\ f[2] \in kinds
<1>1. PICK e \in edges : e.out = f /\ f[1] = t /\ f[2] \in kinds
  BY DEF FilesOf, Made
<1>2. e \in StepsOf(t)
  BY <1>1 DEF AsWritten
<1> QED
  BY <1>1, <1>2 DEF Made

\* Whatever has a file has what its step waits for.
LEMMA MadeBrings ==
  ASSUME NEW t, AsWritten(t), NEW f, NEW w, Makes(StepsOf(t), f, w)
  PROVE  /\ \A T : Closed(T) /\ f \in T => w \subseteq T
         /\ w \subseteq Needs(f)
<1>1. PICK e \in edges : e.out = f /\ w \subseteq e.needs
  BY DEF Makes, AsWritten
<1> QED
  BY <1>1 DEF Closed, Needs

\* The kinds of the files that targets make.
LEMMA KindsMade ==
  ASSUME generator \in Formats, NEW t, NEW f \in Made(StepsOf(t))
  PROVE  /\ f[2] \in Steps => f \in StepFiles(t)
         /\ f[2] = "object" => f \in Objects(t)
         /\ f[2] \in Products => f \in Objects(t) \cup {File(t, "binary"), File(t, "installed"), File(t, "target")}
<1>1. /\ \A g \in StepFiles(t) : g[2] \in {"action", "rule", "rule_2", "copy"}
      /\ \A g \in Objects(t) : g[2] = "object"
  <2>1. \A g \in Actions(t) \cup Rules(t) \cup Copies(t) : g[2] \in {"action", "rule", "rule_2", "copy"}
    BY OwnFiles
  <2> QED
    BY <2>1, OwnFiles
<1>2. f \in StepFiles(t) \cup Objects(t)
             \cup {File(t, kind) : kind \in {"binary", "installed", "target", "support"}}
  BY OwnSteps
<1>3. \A kind : File(t, kind)[2] = kind
  BY OwnFiles
<1> QED
  BY <1>1, <1>2, <1>3 DEF Steps, Products

\* So a target's files are these.
LEMMA FilesAre ==
  ASSUME generator \in Formats, NEW t, AsWritten(t)
  PROVE  /\ FilesOf(t, Steps) \subseteq StepFiles(t)
         /\ FilesOf(t, {"object"}) \subseteq Objects(t)
         /\ \A f \in FilesOf(t, UsedProducts(t)) :
              /\ f \in Made(StepsOf(t))
              /\ \/ f \in Objects(t) /\ ~(Dict(t).type = "none" /\ generator \in {"ninja", "make", "android"})
                 \/ f \in {File(t, "binary"), File(t, "installed"), File(t, "target")}
<1>1. UsedProducts(t) \subseteq Products
  BY DEF UsedProducts
<1>2. \A o \in Objects(t) : o[2] = "object"
  BY OwnFiles
<1>3. FilesOf(t, Steps) \subseteq StepFiles(t)
  BY FilesMade, KindsMade
<1>4. FilesOf(t, {"object"}) \subseteq Objects(t)
  BY FilesMade, KindsMade
<1>5. ASSUME NEW f \in FilesOf(t, UsedProducts(t))
      PROVE  /\ f \in Made(StepsOf(t))
             /\ \/ f \in Objects(t) /\ ~(Dict(t).type = "none" /\ generator \in {"ninja", "make", "android"})
                \/ f \in {File(t, "binary"), File(t, "installed"), File(t, "target")}
  <2>1. f \in Made(StepsOf(t)) /\ f[2] \in UsedProducts(t)
    BY FilesMade
  <2>2. f \in Objects(t) \cup {File(t, "binary"), File(t, "installed"), File(t, "target")}
    BY <1>1, <2>1, KindsMade
  <2>3. f \in Objects(t) => ~(Dict(t).type = "none" /\ generator \in {"ninja", "make", "android"})
    BY <1>2, <2>1 DEF UsedProducts
  <2> QED
    BY <2>1, <2>2, <2>3
<1> QED
  BY <1>3, <1>4, <1>5

\* make: all that depends on a target looks its output up.
LEMMA MakeInOrder ==
  ASSUME generator = "make", NEW t \in ToSet(flat), Finished(t)
  PROVE  InOrder(t)
<1> DEFINE binary == File(t, "binary")
<1>1. generator \in Formats /\ AsWritten(t) /\ Follows(t) \subseteq deps[t]
  BY DEF Finished
<1>2. \A u \in ToSet(flat) : outputs[u] = MakeOutput(u)
  <2>1. \A u \in ToSet(flat) : AsWritten(u) /\ RecordOf(u) = {MakeOutput(u)}
    BY DEF Finished, RecordOf
  <2>2. ASSUME NEW u \in ToSet(flat)
        PROVE  RecordOf(u) = {outputs[u]}
    <3>1. RecordOf(u) # {}
      BY <2>1
    <3> QED
      BY <2>1, <3>1 DEF AsWritten
  <2> QED
    BY <2>1, <2>2
<1> DEFINE out(u) == {File(u, IF Installed(u) THEN "installed" ELSE "binary")}
           link(u) == IF Dict(u).type \in Libraries THEN {File(u, "binary")} ELSE {}
<1>3. \A u \in ToSet(flat) : outputs[u].output = out(u) /\ outputs[u].link = link(u)
  <2>1. \A u : MakeOutput(u) = [output |-> out(u), link |-> link(u)]
    BY DEF MakeOutput
  <2> HIDE DEF out, link
  <2>2. \A u : MakeOutput(u).output = out(u) /\ MakeOutput(u).link = link(u)
    BY <2>1
  <2> QED
    BY <1>2, <2>2
<1>4. Stand(t) = out(t) /\ CompileStand(t) = Stand(t)
  <2> HIDE DEF out, link
  <2>1. Stand(t) = outputs[t].output /\ CompileStand(t) = Stand(t)
    BY DEF Stand, CompileStand
  <2> QED
    BY <1>3, <2>1
<1>5. \A d \in Follows(t) : Stand(d) \subseteq MakeDeps(t)
  BY <1>1 DEF Stand, MakeDeps
<1>6. StepsOf(t) = MakeSteps(t) /\ ~LinkedOnly(t)
  BY DEF StepsOf, LinkedOnly
<1>7. ASSUME NEW T, Closed(T)
      PROVE  /\ \A f \in StepFiles(t) : f \in T => MakeDeps(t) \subseteq T
             /\ \A f \in Objects(t) : f \in T => MakeDeps(t) \cup StepFiles(t) \subseteq T
             /\ binary \in T =>
                  StepFiles(t) \cup (IF Dict(t).type = "none" THEN MakeDeps(t)
                                     ELSE Objects(t) \cup LinkDeps(t)) \subseteq T
             /\ Stand(t) \subseteq T => binary \in T
  <2>1. \A f, w : Makes(MakeSteps(t), f, w) => (f \in T => w \subseteq T)
    BY <1>1, <1>6, <1>7, MadeBrings
  <2>2. Installed(t) /\ File(t, "installed") \in T => binary \in T
    BY <2>1, MakeStepsAre
  <2> QED
    BY <1>4, <2>1, <2>2, MakeStepsAre
<1>8. Brings(Stand(t), FilesOf(t, UsedProducts(t)))
  <2> SUFFICES ASSUME NEW T, Closed(T), Stand(t) \subseteq T, NEW f \in FilesOf(t, UsedProducts(t))
               PROVE  f \in T
    BY DEF Brings
  <2>1. binary \in T /\ (Dict(t).type # "none" => Objects(t) \subseteq T)
    BY <1>7
  <2>2. CASE f \in Objects(t)
    <3>1. f[2] = "object"
      BY <2>2, OwnFiles
    <3>2. f[2] # "binary" /\ f[2] # "installed" /\ f[2] # "target"
      BY <3>1
    <3>3. f # binary /\ f # File(t, "installed") /\ f # File(t, "target")
      BY <3>2, OwnFiles
    <3> QED
      BY <1>1, <2>1, <2>2, <3>3, FilesAre
  <2>3. CASE f \notin Objects(t)
    <3>1. f \in StepFiles(t) \cup {binary} \cup (IF Installed(t) THEN {File(t, "installed")} ELSE {})
      BY <1>1, <1>6, <2>3, FilesAre, MakeStepsAre
    <3>2. f \in {binary, File(t, "installed"), File(t, "target")}
      BY <1>1, <2>3, FilesAre
    <3>3. \A g \in StepFiles(t) : g[2] \in {"action", "rule", "rule_2", "copy"}
      BY OwnFiles
    <3>4. f \notin StepFiles(t)
      BY <3>2, <3>3, OwnFiles
    <3> QED
      BY <1>4, <2>1, <3>1, <3>4
  <2> QED
    BY <2>2, <2>3
<1>9. Brings(Stand(t), FilesOf(t, Steps))
  BY <1>1, <1>7, FilesAre DEF Brings
<1>10. ASSUME NEW d \in Passes(t)
      PROVE  Brings(Stand(t), Stand(d))
  <2> SUFFICES ASSUME NEW T, Closed(T), Stand(t) \subseteq T PROVE Stand(d) \subseteq T
    BY DEF Brings
  <2>1. d \in Follows(t) /\ d \in deps[t] /\ d \in ToSet(flat)
    BY <1>1, <1>10 DEF Passes, Finished
  <2>2. CASE StepFiles(t) # {} \/ Dict(t).type = "none" \/ Objects(t) # {}
    <3>1. MakeDeps(t) \subseteq T
      BY <1>7, <2>2
    <3> QED
      BY <1>5, <2>1, <3>1
  <2>3. CASE StepFiles(t) = {} /\ Dict(t).type # "none" /\ Objects(t) = {}
    <3>1. Hollow(t)
      <4>1. ~Dict(t).sources
        BY <2>3 DEF Objects
      <4> QED
        BY <2>3, <4>1 DEF Hollow
    <3>2. Dict(d).type = "static_library"
      BY <1>10, <3>1 DEF Passes
    <3>3. outputs[d].output = outputs[d].link
      BY <1>3, <2>1, <3>2 DEF Installed, Libraries
    <3>4. LinkDeps(t) \subseteq T
      BY <1>7, <2>3
    <3> QED
      BY <2>1, <3>3, <3>4 DEF Stand, LinkDeps
  <2> QED
    BY <2>2, <2>3
<1>11. ASSUME NEW f \in StepFiles(t) \cup Objects(t), NEW d \in Follows(t)
       PROVE  Brings(Needs(f), Stand(d))
  <2>1. Makes(StepsOf(t), f, MakeDeps(t)) \/ Makes(StepsOf(t), f, MakeDeps(t) \cup StepFiles(t))
    BY <1>6, MakeStepsAre
  <2>2. MakeDeps(t) \subseteq Needs(f)
    BY <1>1, <2>1, MadeBrings
  <2> QED
    BY <1>5, <2>2 DEF Brings
<1> QED
  BY <1>1, <1>4, <1>8, <1>9, <1>10, <1>11, FilesAre DEF InOrder

\* android: so does all that depends on a target here, and what is linked comes from
\* the libraries alone.
LEMMA AndroidInOrder ==
  ASSUME generator = "android", NEW t \in ToSet(flat), Finished(t)
  PROVE  InOrder(t)
<1> DEFINE binary == File(t, "binary")
           link(u) == IF Dict(u).type \in Libraries THEN {File(u, "binary")} ELSE {}
<1>1. generator \in Formats /\ AsWritten(t) /\ Follows(t) \subseteq deps[t]
  BY DEF Finished
<1>2. \A u \in ToSet(flat) : outputs[u].output = {File(u, "binary")} /\ outputs[u].link = link(u)
  <2>1. \A u \in ToSet(flat) : AsWritten(u) /\ RecordOf(u) = {AndroidOutput(u)}
    BY DEF Finished, RecordOf
  <2>2. ASSUME NEW u \in ToSet(flat)
        PROVE  RecordOf(u) = {outputs[u]}
    <3>1. RecordOf(u) # {}
      BY <2>1
    <3> QED
      BY <2>1, <3>1 DEF AsWritten
  <2>3. \A u \in ToSet(flat) : outputs[u] = AndroidOutput(u)
    BY <2>1, <2>2
  <2>4. \A u : AndroidOutput(u) = [output |-> {File(u, "binary")}, link |-> link(u)]
    BY DEF AndroidOutput
  <2> HIDE DEF link
  <2>5. \A u : AndroidOutput(u).output = {File(u, "binary")} /\ AndroidOutput(u).link = link(u)
    BY <2>4
  <2> QED
    BY <2>3, <2>5
<1>3. Stand(t) = {binary} /\ CompileStand(t) = Stand(t)
  <2>1. Stand(t) = outputs[t].output /\ CompileStand(t) = Stand(t)
    BY DEF Stand, CompileStand
  <2> QED
    BY <1>2, <2>1
<1>4. \A d \in Follows(t) : Stand(d) \subseteq TargetDependencies(t)
  BY <1>1 DEF Stand, TargetDependencies
<1>5. StepsOf(t) = AndroidSteps(t)
  BY DEF StepsOf
<1>6. TargetDependencies(t) \cup StepFiles(t) = AdditionalDependencies(t)
  BY DEF AdditionalDependencies
<1>7. ASSUME NEW T, Closed(T)
      PROVE  /\ \A f \in Objects(t) : f \in T => AdditionalDependencies(t) \subseteq T
             /\ binary \in T => (IF Dict(t).type = "none" THEN AdditionalDependencies(t)
                                 ELSE Objects(t) \cup LocalLibraries(t)) \subseteq T
  <2>1. \A f, w : Makes(AndroidSteps(t), f, w) => (f \in T => w \subseteq T)
    BY <1>1, <1>5, <1>7, MadeBrings
  <2> QED
    BY <2>1, AndroidStepsAre
<1>8. Brings(Stand(t), FilesOf(t, UsedProducts(t)))
  <2> SUFFICES ASSUME NEW T, Closed(T), Stand(t) \subseteq T, NEW f \in FilesOf(t, UsedProducts(t))
               PROVE  f \in T
    BY DEF Brings
  <2>1. binary \in T /\ (Dict(t).type # "none" => Objects(t) \subseteq T)
    BY <1>3, <1>7
  <2>2. CASE f \in Objects(t)
    <3>1. f[2] = "object"
      BY <2>2, OwnFiles
    <3>2. f[2] # "binary" /\ f[2] # "installed" /\ f[2] # "target"
      BY <3>1
    <3>3. f # binary /\ f # File(t, "installed") /\ f # File(t, "target")
      BY <3>2, OwnFiles
    <3> QED
      BY <1>1, <2>1, <2>2, <3>3, FilesAre
  <2>3. CASE f \notin Objects(t)
    <3>1. f \in StepFiles(t) \cup {binary}
      BY <1>1, <1>5, <2>3, FilesAre, AndroidStepsAre
    <3>2. f \in {binary, File(t, "installed"), File(t, "target")}
      BY <1>1, <2>3, FilesAre
    <3>3. \A g \in StepFiles(t) : g[2] \in {"action", "rule", "rule_2", "copy"}
      BY OwnFiles
    <3>4. f \notin StepFiles(t)
      BY <3>2, <3>3, OwnFiles
    <3> QED
      BY <2>1, <3>1, <3>4
  <2> QED
    BY <2>2, <2>3
<1>9. ~Hollow(t) => Brings(Stand(t), TargetDependencies(t) \cup StepFiles(t))
  <2> SUFFICES ASSUME ~Hollow(t), NEW T, Closed(T), binary \in T
               PROVE  AdditionalDependencies(t) \subseteq T
    BY <1>3, <1>6 DEF Brings
  <2>1. Dict(t).type = "none" \/ Objects(t) # {}
    BY DEF Hollow, Objects
  <2> QED
    BY <1>7, <2>1
<1>10. ~LinkedOnly(t) => Brings(Stand(t), FilesOf(t, Steps))
  <2>1. ~LinkedOnly(t) => ~Hollow(t)
    BY DEF LinkedOnly
  <2>2. FilesOf(t, Steps) \subseteq StepFiles(t)
    BY <1>1, FilesAre
  <2> QED
    BY <1>9, <2>1, <2>2 DEF Brings
<1>11. ASSUME NEW d \in Passes(t)
       PROVE  Brings(Stand(t), Stand(d))
  <2> SUFFICES ASSUME NEW T, Closed(T), Stand(t) \subseteq T PROVE Stand(d) \subseteq T
    BY DEF Brings
  <2>1. d \in Follows(t) /\ d \in deps[t] /\ d \in ToSet(flat)
    BY <1>1, <1>11 DEF Passes, Finished
  <2>2. CASE ~Hollow(t)
    BY <1>4, <1>9, <2>1, <2>2 DEF Brings
  <2>3. CASE Hollow(t)
    <3>1. Dict(d).type = "static_library" /\ Dict(t).type # "none"
      BY <1>11, <2>3 DEF Passes, Hollow
    <3>2. Stand(d) = outputs[d].output /\ outputs[d].output = outputs[d].link
      BY <1>2, <2>1, <3>1 DEF Libraries, Stand
    <3>3. LocalLibraries(t) \subseteq T
      BY <1>3, <1>7, <3>1
    <3> QED
      BY <2>1, <3>2, <3>3 DEF LocalLibraries
  <2> QED
    BY <2>2, <2>3
<1>12. ASSUME NEW f \in StepFiles(t) \cup Objects(t), NEW d \in Follows(t)
       PROVE  Brings(Needs(f), Stand(d))
  <2>1. Makes(StepsOf(t), f, TargetDependencies(t)) \/ Makes(StepsOf(t), f, AdditionalDependencies(t))
    BY <1>5, AndroidStepsAre
  <2>2. TargetDependencies(t) \subseteq Needs(f)
    BY <1>1, <1>6, <2>1, MadeBrings
  <2> QED
    BY <1>4, <2>2 DEF Brings
<1> QED
  BY <1>1, <1>3, <1>8, <1>10, <1>11, <1>12, FilesAre DEF InOrder

\* cmake, xcode and msvs: targets wait for targets.
LEMMA WholesInOrder ==
  ASSUME generator \in {"cmake", "xcode", "msvs"}, NEW t \in ToSet(flat), Finished(t)
  PROVE  InOrder(t)
<1> DEFINE target == File(t, "target")
<1>1. generator \in Formats /\ AsWritten(t) /\ Follows(t) \subseteq deps[t]
  BY DEF Finished
<1>2. Entire(StepsOf(t), t)
  BY CMakeStepsAre, XcodeStepsAre, MsvsStepsAre DEF StepsOf
<1>3. \A d : Stand(d) = {File(d, "target")} /\ CompileStand(d) = Stand(d)
  BY DEF Stand, CompileStand
<1>4. \A d \in Follows(t) : Stand(d) \subseteq TargetsBefore(t)
  BY <1>1, <1>3 DEF TargetsBefore
<1>5. Brings(Stand(t), Made(StepsOf(t)) \cup TargetsBefore(t))
  <2> SUFFICES ASSUME NEW T, Closed(T), target \in T
               PROVE  Made(StepsOf(t)) \cup TargetsBefore(t) \subseteq T
    BY <1>3 DEF Brings
  <2>1. \A e \in StepsOf(t) : e.out \in T => e.needs \subseteq T
    BY <1>1 DEF AsWritten, Closed
  <2> QED
    BY <1>2, <2>1 DEF Entire
<1>6. Brings(Stand(t), FilesOf(t, UsedProducts(t))) /\ Brings(Stand(t), FilesOf(t, Steps))
  <2>1. FilesOf(t, UsedProducts(t)) \subseteq Made(StepsOf(t)) /\ FilesOf(t, Steps) \subseteq Made(StepsOf(t))
    BY <1>1, FilesMade
  <2> QED
    BY <1>5, <2>1 DEF Brings
<1>7. \A d \in Passes(t) : Brings(Stand(t), Stand(d))
  <2>1. \A d \in Passes(t) : d \in Follows(t)
    BY DEF Passes
  <2> QED
    BY <1>4, <1>5, <2>1 DEF Brings
<1>8. ASSUME NEW f \in StepFiles(t) \cup Objects(t), NEW d \in Follows(t)
      PROVE  Brings(Needs(f), Stand(d))
  <2>1. Makes(StepsOf(t), f, TargetsBefore(t))
    BY <1>2 DEF Entire
  <2>2. TargetsBefore(t) \subseteq Needs(f)
    BY <1>1, <2>1, MadeBrings
  <2> QED
    BY <1>4, <2>2 DEF Brings
<1> QED
  BY <1>1, <1>3, <1>6, <1>7, <1>8, FilesAre DEF InOrder

\* ninja: what a Target object says of a target, and what stands for it.
LEMMA NinjaRecords ==
  ASSUME generator = "ninja", NEW u, AsWritten(u)
  PROVE  /\ Stand(u) = NinjaBinary(u).binary
         /\ CompileStand(u) = IF NinjaBinary(u).binary = {} THEN {} ELSE NinjaPredepends(u)
         /\ u \in DOMAIN outputs => /\ FinalOutput(outputs[u]) = Stand(u)
                                    /\ PreActionInput(outputs[u]) = Stand(u)
                                    /\ PreCompileInput(outputs[u]) = CompileStand(u)
         /\ u \notin DOMAIN outputs => Stand(u) = {} /\ CompileStand(u) = {}
<1> DEFINE b == NinjaBinary(u)
           o == TargetObject(b.type, NinjaPreaction(u), NinjaPrecompile(u), StepFiles(u), b.binary)
<1>1. RecordOf(u) = IF b.binary = {} THEN {} ELSE {o}
  BY DEF RecordOf, NinjaRecord
<1>2. /\ o.binary = b.binary /\ o.actions = StepFiles(u)
      /\ o.preaction = NinjaPreaction(u) /\ o.precompile = NinjaPrecompile(u)
  BY DEF TargetObject
<1>3. NinjaPredepends(u) = IF StepFiles(u) # {} THEN StepFiles(u) ELSE NinjaPrecompile(u)
  BY DEF NinjaPredepends
<1> HIDE DEF o, b
<1>4. CASE b.binary = {}
  <2>1. u \notin DOMAIN outputs
    BY <1>1, <1>4 DEF AsWritten
  <2>2. Stand(u) = {} /\ CompileStand(u) = {}
    BY <2>1 DEF Stand, CompileStand
  <2> QED
    BY <1>4, <2>1, <2>2 DEF b
<1>5. CASE b.binary # {}
  <2>1. u \in DOMAIN outputs /\ outputs[u] = o
    <3>1. RecordOf(u) = {o} /\ RecordOf(u) # {}
      BY <1>1, <1>5
    <3>2. u \in DOMAIN outputs /\ RecordOf(u) = {outputs[u]}
      BY <3>1 DEF AsWritten
    <3> QED
      BY <3>1, <3>2
  <2>2. /\ FinalOutput(o) = b.binary /\ PreActionInput(o) = b.binary
        /\ PreCompileInput(o) = NinjaPredepends(u)
    BY <1>2, <1>3, <1>5 DEF FinalOutput, PreActionInput, PreCompileInput
  <2>3. Stand(u) = FinalOutput(o) /\ CompileStand(u) = PreCompileInput(o)
    BY <2>1 DEF Stand, CompileStand
  <2> QED
    BY <1>5, <2>1, <2>2, <2>3 DEF b
<1> QED
  BY <1>4, <1>5

\* Of many rules, the first waits.
LEMMA NinjaStepsWait ==
  ASSUME generator = "ninja", NEW t, AsWritten(t), NEW T, Closed(T), NinjaWaited(t) \subseteq T
  PROVE  StepFiles(t) \cup NinjaPreaction(t) \subseteq T
<1>1. CASE StepFiles(t) = {}
  BY <1>1 DEF NinjaWaited
<1>2. CASE StepFiles(t) # {}
  <2>1. StepFiles(t) \subseteq T
    BY <1>2 DEF NinjaWaited
  <2>2. PICK f \in StepFiles(t) : ~Unwaited(t, f)
    <3>1. PICK g \in StepFiles(t) : TRUE
      BY <1>2
    <3>2. CASE ~Unwaited(t, g)
      BY <3>2
    <3>3. CASE Unwaited(t, g)
      <4>1. g = File(t, "rule_2") /\ g[2] = "rule_2"
        BY <3>3, OwnFiles DEF Unwaited
      <4>2. g \in Rules(t)
        <5>1. g # File(t, "action") /\ g # File(t, "copy")
          BY <4>1, OwnFiles
        <5> QED
          BY <3>1, <5>1, OwnFiles
      <4>3. File(t, "rule") \in StepFiles(t) /\ File(t, "rule") # File(t, "rule_2")
        BY <4>1, <4>2, OwnFiles
      <4> QED
        BY <4>3 DEF Unwaited
    <3> QED
      BY <3>2, <3>3
  <2>3. Makes(StepsOf(t), f, NinjaPreaction(t))
    BY <2>2, NinjaStepsAre DEF StepsOf
  <2> QED
    BY <2>1, <2>2, <2>3, MadeBrings
<1> QED
  BY <1>1, <1>2

LEMMA NinjaInOrder ==
  ASSUME generator = "ninja", NEW t \in ToSet(flat), Finished(t)
  PROVE  InOrder(t)
<1> DEFINE binary == File(t, "binary")
           b == NinjaBinary(t).binary
<1>1. /\ generator \in Formats /\ AsWritten(t) /\ Follows(t) \subseteq deps[t]
      /\ \A d \in deps[t] : AsWritten(d)
      /\ StepsOf(t) = NinjaSteps(t)
      /\ Stand(t) = b /\ CompileStand(t) = IF b = {} THEN {} ELSE NinjaPredepends(t)
  <2>1. generator \in Formats /\ AsWritten(t) /\ Follows(t) \subseteq deps[t]
        /\ \A d \in deps[t] : AsWritten(d)
    BY DEF Finished
  <2> QED
    BY <2>1, NinjaRecords DEF StepsOf
<1>2. ASSUME NEW d \in deps[t]
      PROVE  /\ Stand(d) \subseteq NinjaPreaction(t)
             /\ Stand(d) \subseteq AllOf(Outputs(t), FinalOutput)
             /\ CompileStand(d) \subseteq NinjaPrecompile(t)
             /\ Stand(d) = {} => CompileStand(d) = {}
  <2>1. AsWritten(d)
    BY <1>1
  <2>2. CASE d \in DOMAIN outputs
    <3>1. outputs[d] \in Outputs(t)
      BY <2>2 DEF Outputs
    <3>2. /\ PreActionInput(outputs[d]) = Stand(d) /\ FinalOutput(outputs[d]) = Stand(d)
          /\ PreCompileInput(outputs[d]) = CompileStand(d)
      BY <2>1, <2>2, NinjaRecords
    <3>3. Stand(d) = {} => CompileStand(d) = {}
      BY <2>1, NinjaRecords
    <3> QED
      BY <3>1, <3>2, <3>3 DEF NinjaPreaction, NinjaPrecompile, AllOf
  <2>3. CASE d \notin DOMAIN outputs
    BY <2>1, <2>3, NinjaRecords
  <2> QED
    BY <2>2, <2>3
<1>3. \/ /\ b = NinjaWaited(t)
         /\ Dict(t).type = "none" \/ Objects(t) = {}
         /\ Made(NinjaSteps(t)) = StepFiles(t) \cup Objects(t)
      \/ /\ b = {binary} /\ Dict(t).type # "none"
         /\ Makes(NinjaSteps(t), binary, NinjaWaitsLinked(t))
         /\ Made(NinjaSteps(t)) = StepFiles(t) \cup Objects(t) \cup {binary}
  BY NinjaStepsAre
<1> HIDE DEF b, binary
<1>4. Brings(NinjaWaited(t), StepFiles(t) \cup NinjaPreaction(t))
  BY <1>1, NinjaStepsWait DEF Brings
<1>5. \/ StepFiles(t) # {} /\ NinjaPredepends(t) = NinjaWaited(t)
      \/ StepFiles(t) = {} /\ NinjaPredepends(t) = NinjaPrecompile(t)
  BY DEF NinjaPredepends, NinjaWaited
<1>6. Brings(NinjaPredepends(t), StepFiles(t))
  BY <1>4, <1>5 DEF Brings
<1>7. ASSUME b = {}
      PROVE  StepFiles(t) = {} /\ NinjaPreaction(t) = {}
  <2>1. NinjaWaited(t) = {}
    BY <1>3, <1>7
  <2> QED
    BY <2>1 DEF NinjaWaited
\* What is linked has waited for the objects and what the target depends on.
<1>8. ASSUME NEW T, Closed(T), b = {binary}, Dict(t).type # "none", binary \in T,
             Makes(NinjaSteps(t), binary, NinjaWaitsLinked(t))
      PROVE  /\ Objects(t) \subseteq T
             /\ \A d \in deps[t] : Stand(d) \subseteq T
             /\ ~LinkedOnly(t) => StepFiles(t) \subseteq T
  <2>1. NinjaWaitsLinked(t) \subseteq T
    BY <1>1, <1>8, MadeBrings
  <2>2. Objects(t) \subseteq T
    BY <2>1 DEF NinjaWaitsLinked
  <2>3. CASE Dict(t).type = "static_library"
    <3>1. NinjaWaited(t) \subseteq T
      BY <2>1, <2>3 DEF NinjaWaitsLinked
    <3>2. StepFiles(t) \cup NinjaPreaction(t) \subseteq T
      BY <1>4, <1>8, <3>1 DEF Brings
    <3> QED
      BY <1>2, <2>2, <3>2
  <2>4. CASE Dict(t).type # "static_library"
    <3>1. AllOf(Outputs(t), FinalOutput) \subseteq T
      BY <2>1, <2>4 DEF NinjaWaitsLinked
    <3>2. Dict(t).type \in Linkables
      <4>1. Dict(t).type \in TargetTypes
        BY DEF Finished, TargetDicts
      <4> QED
        BY <1>8, <2>4, <4>1 DEF TargetTypes, Linkables
    <3>3. ASSUME ~LinkedOnly(t)
          PROVE  StepFiles(t) \subseteq T
      <4>1. PICK o \in Objects(t) : TRUE
        BY <3>2, <3>3 DEF LinkedOnly, Objects
      <4>2. Makes(StepsOf(t), o, NinjaPredepends(t))
        BY <1>1, NinjaStepsAre
      <4>3. NinjaPredepends(t) \subseteq T
        BY <1>1, <1>8, <2>2, <4>2, MadeBrings
      <4> QED
        BY <1>6, <1>8, <4>3 DEF Brings
    <3> QED
      BY <1>2, <2>2, <3>1, <3>3
  <2> QED
    BY <2>3, <2>4
<1>9. Brings(Stand(t), FilesOf(t, UsedProducts(t)))
  <2> SUFFICES ASSUME NEW T, Closed(T), b \subseteq T, NEW f \in FilesOf(t, UsedProducts(t))
               PROVE  f \in T
    BY <1>1 DEF Brings
  <2>1. \A g \in StepFiles(t) : g[2] \in {"action", "rule", "rule_2", "copy"}
    BY OwnFiles
  <2>2. \A g \in Objects(t) : g[2] = "object"
    BY OwnFiles
  <2>3. CASE f \in {File(t, "binary"), File(t, "installed"), File(t, "target")}
    <3>1. f[2] \in {"binary", "installed", "target"}
      BY <2>3, OwnFiles
    <3>2. f \notin StepFiles(t) /\ f \notin Objects(t)
      BY <2>1, <2>2, <3>1
    <3>3. f \in Made(NinjaSteps(t))
      BY <1>1, FilesAre
    <3> QED
      BY <1>3, <3>2, <3>3
  <2>4. CASE f \in Objects(t) /\ Dict(t).type # "none"
    BY <1>3, <1>8, <2>4
  <2> QED
    BY <1>1, <2>3, <2>4, FilesAre
<1>10. ~LinkedOnly(t) => Brings(Stand(t), FilesOf(t, Steps)) /\ Brings(CompileStand(t), FilesOf(t, Steps))
  <2>1. FilesOf(t, Steps) \subseteq StepFiles(t)
    BY <1>1, FilesAre
  <2>2. ~LinkedOnly(t) => Brings(b, StepFiles(t))
    <3> SUFFICES ASSUME ~LinkedOnly(t), NEW T, Closed(T), b \subseteq T
                 PROVE  StepFiles(t) \subseteq T
      BY DEF Brings
    <3>1. CASE b = NinjaWaited(t)
      BY <1>4, <3>1 DEF Brings
    <3> QED
      BY <1>3, <1>8, <3>1
  <2>3. Brings(CompileStand(t), StepFiles(t))
    BY <1>1, <1>6, <1>7 DEF Brings
  <2> QED
    BY <1>1, <2>1, <2>2, <2>3 DEF Brings
<1>11. \A d \in deps[t] : Brings(Stand(t), Stand(d))
  <2> SUFFICES ASSUME NEW d \in deps[t], NEW T, Closed(T), b \subseteq T
               PROVE  Stand(d) \subseteq T
    BY <1>1 DEF Brings
  <2>1. CASE b = NinjaWaited(t)
    <3>1. NinjaPreaction(t) \subseteq T
      BY <1>4, <2>1 DEF Brings
    <3> QED
      BY <1>2, <3>1
  <2> QED
    BY <1>3, <1>8, <2>1
\* Objects wait for what the target's own steps waited for, or as these would.
<1>12. \A d \in deps[t] : \/ Brings(NinjaPredepends(t), CompileStand(d))
                          \/ Brings(NinjaPredepends(t), Stand(d))
  <2> SUFFICES ASSUME NEW d \in deps[t]
               PROVE  \/ Brings(NinjaPredepends(t), CompileStand(d))
                      \/ Brings(NinjaPredepends(t), Stand(d))
    OBVIOUS
  <2>1. Stand(d) \subseteq NinjaPreaction(t) /\ CompileStand(d) \subseteq NinjaPrecompile(t)
    BY <1>2
  <2> QED
    BY <1>4, <1>5, <2>1 DEF Brings
<1>13. \A d \in deps[t] : Brings(CompileStand(t), CompileStand(d)) \/ Brings(CompileStand(t), Stand(d))
  <2>1. CASE b = {}
    <3>1. \A d \in deps[t] : Stand(d) = {}
      BY <1>2, <1>7, <2>1
    <3> QED
      BY <3>1 DEF Brings
  <2>2. CASE b # {}
    BY <1>1, <1>12, <2>2
  <2> QED
    BY <2>1, <2>2
<1>14. ASSUME NEW a \in FilesOf(t, Steps), ~Unwaited(t, a), NEW d \in deps[t]
       PROVE  Brings(Needs(a), Stand(d))
  <2>1. a \in StepFiles(t)
    BY <1>1, FilesAre
  <2>2. Makes(StepsOf(t), a, NinjaPreaction(t))
    BY <1>1, <1>14, <2>1, NinjaStepsAre
  <2>3. Stand(d) \subseteq Needs(a)
    BY <1>1, <1>2, <2>2, MadeBrings
  <2> QED
    BY <2>3 DEF Brings
<1>15. ASSUME NEW o \in FilesOf(t, {"object"}), NEW d \in deps[t]
       PROVE  Brings(Needs(o), CompileStand(d)) \/ Brings(Needs(o), Stand(d))
  <2>1. o \in Objects(t)
    BY <1>1, FilesAre
  <2>2. Makes(StepsOf(t), o, NinjaPredepends(t))
    BY <1>1, <2>1, NinjaStepsAre
  <2>3. NinjaPredepends(t) \subseteq Needs(o)
    BY <1>1, <2>2, MadeBrings
  <2>4. Brings(NinjaPredepends(t), CompileStand(d)) \/ Brings(NinjaPredepends(t), Stand(d))
    BY <1>12
  <2> QED
    BY <2>3, <2>4 DEF Brings
<1>16. Passes(t) \subseteq Follows(t)
  BY DEF Passes
<1> QED
  BY <1>1, <1>9, <1>10, <1>11, <1>13, <1>14, <1>15, <1>16 DEF InOrder

LEMMA AllInOrder ==
  ASSUME NEW t \in ToSet(flat), Finished(t)
  PROVE  InOrder(t)
BY NinjaInOrder, MakeInOrder, AndroidInOrder, WholesInOrder DEF Finished, Formats

-----------------------------------------------------------------------------
(* What is far behind a target.                                            *)

LEMMA FollowedWithin ==
  ASSUME NEW S, NEW B, S \subseteq B, \A t \in B \cap Present : Passes(t) \subseteq B
  PROVE  FollowsAll(S) \subseteq B
<1> DEFINE named == S \cup UNION {Passes(u) : u \in Present}
           closed == {T \in SUBSET named :
                        S \subseteq T /\ \A u \in T \cap Present : Passes(u) \subseteq T}
<1>1. FollowsAll(S) = {u \in named : \A T \in closed : u \in T}
  BY DEF FollowsAll, Reached
<1>2. B \cap named \in closed
  OBVIOUS
<1> HIDE DEF named, closed
<1> QED
  BY <1>1, <1>2

LEMMA DeepWithin ==
  ASSUME NEW S, NEW B, S \subseteq B, \A t \in B \cap Present : Dependencies(t) \subseteq B
  PROVE  Deep(S) \subseteq B
<1> DEFINE named == S \cup UNION {Dependencies(u) : u \in Present}
           closed == {T \in SUBSET named :
                        S \subseteq T /\ \A u \in T \cap Present : Dependencies(u) \subseteq T}
<1>1. Deep(S) = {u \in named : \A T \in closed : u \in T}
  BY DEF Deep, Reached
<1>2. B \cap named \in closed
  OBVIOUS
<1> HIDE DEF named, closed
<1> QED
  BY <1>1, <1>2

LEMMA ListedClosed ==
  ASSUME NEW S
  PROVE  /\ S \subseteq DeepDependencyTargets(S)
         /\ \A t \in DeepDependencyTargets(S) \cap Present :
              ListedDependencies(t) \subseteq DeepDependencyTargets(S)
<1> DEFINE named == S \cup UNION {ListedDependencies(u) : u \in Present}
           closed == {T \in SUBSET named :
                        S \subseteq T /\ \A u \in T \cap Present : ListedDependencies(u) \subseteq T}
<1>1. DeepDependencyTargets(S) = {u \in named : \A T \in closed : u \in T}
  BY DEF DeepDependencyTargets, Reached
<1>2. \A t \in Present : ListedDependencies(t) \subseteq named
  OBVIOUS
<1>3. \A T \in closed : S \subseteq T /\ \A u \in T \cap Present : ListedDependencies(u) \subseteq T
  OBVIOUS
<1>4. S \subseteq named
  OBVIOUS
<1> HIDE DEF named, closed
<1> QED
  BY <1>1, <1>2, <1>3, <1>4

\* Whoever waits for what stands for the targets that one follows waits for what all that
\* precede it make: each stands for, or compiles behind, the next.
LEMMA PrecedingMade ==
  ASSUME \A u \in ToSet(flat) : Finished(u), NEW t \in ToSet(flat), NEW T, Closed(T),
         \A d \in Follows(t) : Stand(d) \subseteq T \/ CompileStand(d) \subseteq T
  PROVE  /\ \A u \in Precedes(t) : FilesOf(u, Steps) \subseteq T
         /\ (\A d \in Follows(t) : Stand(d) \subseteq T) =>
              \A u \in Precedes(t) : FilesOf(u, Steps \cup UsedProducts(u)) \subseteq T
<1> DEFINE G == {u \in ToSet(flat) : Stand(u) \subseteq T \/ CompileStand(u) \subseteq T}
           H == {u \in ToSet(flat) : Stand(u) \subseteq T}
<1>1. \A u \in ToSet(flat) : InOrder(u)
  BY AllInOrder
<1>2. \A u \in ToSet(flat) : Passes(u) \subseteq Follows(u) /\ Follows(u) \subseteq ToSet(flat)
  BY DEF Finished, Passes
<1>3. ASSUME NEW u \in ToSet(flat)
      PROVE  /\ Stand(u) \subseteq T => FilesOf(u, UsedProducts(u)) \subseteq T
             /\ ~LinkedOnly(u) /\ (Stand(u) \subseteq T \/ CompileStand(u) \subseteq T) =>
                  FilesOf(u, Steps) \subseteq T
             /\ Stand(u) \subseteq T => \A d \in Passes(u) : Stand(d) \subseteq T
             /\ CompileStand(u) \subseteq T =>
                  \A d \in Passes(u) : Stand(d) \subseteq T \/ CompileStand(d) \subseteq T
  BY <1>1 DEF InOrder, Brings
<1>4. FollowsAll(Follows(t)) \subseteq G
  <2>1. Follows(t) \subseteq G
    BY <1>2
  <2>2. \A u \in G : Passes(u) \subseteq G
    BY <1>2, <1>3
  <2> HIDE DEF G
  <2> QED
    BY <2>1, <2>2, FollowedWithin
<1>5. ASSUME \A d \in Follows(t) : Stand(d) \subseteq T
      PROVE  FollowsAll(Follows(t)) \subseteq H
  <2>1. Follows(t) \subseteq H
    BY <1>2, <1>5
  <2>2. \A u \in H : Passes(u) \subseteq H
    BY <1>2, <1>3
  <2> HIDE DEF H
  <2> QED
    BY <2>1, <2>2, FollowedWithin
<1>6. \A u \in Precedes(t) : FilesOf(u, Steps) \subseteq T
  BY <1>3, <1>4 DEF Precedes
<1>7. ASSUME \A d \in Follows(t) : Stand(d) \subseteq T, NEW u \in Precedes(t)
      PROVE  FilesOf(u, Steps \cup UsedProducts(u)) \subseteq T
  <2>1. FilesOf(u, UsedProducts(u)) \subseteq T
    BY <1>3, <1>5, <1>7 DEF Precedes
  <2>2. FilesOf(u, Steps \cup UsedProducts(u)) = FilesOf(u, Steps) \cup FilesOf(u, UsedProducts(u))
    BY DEF FilesOf
  <2> QED
    BY <1>6, <2>1, <2>2
<1> QED
  BY <1>6, <1>7

\* What waits for a file's needs has, and is closed.
LEMMA WaitsClosed ==
  ASSUME GypInv, stage = "done", ExportsKept, NEW file
  PROVE  Needs(file) \subseteq Waits(file) /\ Closed(Waits(file))
<1>1. Waits(file) = Before(Needs(file))
  BY DEF Waits, Needs
<1> QED
  BY <1>1, BeforeClosed

LEMMA CompileAfterActionsByInv == GypInv /\ OrderInv => CompileAfterActions
<1> SUFFICES ASSUME GypInv, OrderInv, stage = "done", ExportsKept,
                    NEW t \in ToSet(flat), NEW o \in FilesOf(t, {"object"}), NEW d \in Precedes(t)
             PROVE  FilesOf(d, Steps) \subseteq Waits(o)
  BY DEF CompileAfterActions
<1>1. \A u \in ToSet(flat) : Finished(u)
  BY AllFinished
<1>2. Needs(o) \subseteq Waits(o) /\ Closed(Waits(o))
  BY WaitsClosed
<1>3. \A u \in Follows(t) : Stand(u) \subseteq Waits(o) \/ CompileStand(u) \subseteq Waits(o)
  <2>1. \A u \in Follows(t) : Brings(Needs(o), CompileStand(u)) \/ Brings(Needs(o), Stand(u))
    BY <1>1, AllInOrder DEF InOrder
  <2> QED
    BY <1>2, <2>1 DEF Brings
<1> QED
  BY <1>1, <1>2, <1>3, PrecedingMade

LEMMA ActionsAfterDependenciesByInv == GypInv /\ OrderInv => ActionsAfterDependencies
<1> SUFFICES ASSUME GypInv, OrderInv, stage = "done", ExportsKept,
                    NEW t \in ToSet(flat), NEW a \in FilesOf(t, Steps),
                    ~(generator = "ninja" /\ Unwaited(t, a)), NEW d \in Precedes(t)
             PROVE  FilesOf(d, Steps \cup UsedProducts(d)) \subseteq Waits(a)
  BY DEF ActionsAfterDependencies, Unwaited
<1>1. \A u \in ToSet(flat) : Finished(u)
  BY AllFinished
<1>2. Needs(a) \subseteq Waits(a) /\ Closed(Waits(a))
  BY WaitsClosed
<1>3. \A u \in Follows(t) : Stand(u) \subseteq Waits(a)
  <2>1. \A u \in Follows(t) : Brings(Needs(a), Stand(u))
    BY <1>1, AllInOrder DEF InOrder
  <2> QED
    BY <1>2, <2>1 DEF Brings
<1> QED
  BY <1>1, <1>2, <1>3, PrecedingMade

\* What was asked for is needed: a static library still has what it gave up on its list,
\* anything else has kept its dependencies.
LEMMA AskedIsNeeded ==
  ASSUME GypInv, OrderInv, stage = "done", ExportsKept
  PROVE  Deep({u \in ToSet(flat) : BuildFile(u) \in project.roots}) \subseteq needed
<1> DEFINE R == {u \in ToSet(flat) : BuildFile(u) \in project.roots}
           files == IF generator \in {"xcode", "msvs"} THEN loaded ELSE project.roots
           S == UNION {BuildFileTargets(f) : f \in files}
<1>1. needed = DeepDependencyTargets(S)
  BY DEF OrderInv, NeededKept, NeededBy, AllTargets
<1>2. needed \subseteq ToSet(flat)
  BY DEF GypInv, BuildInv
<1>3. \A t \in ToSet(flat) : Finished(t)
  BY AllFinished
<1>4. R \subseteq S
  <2> SUFFICES ASSUME NEW u \in R PROVE BuildFile(u) \in files
    BY DEF BuildFileTargets
  <2>1. BuildFile(u) \in loaded
    BY <1>3 DEF Finished, Present
  <2> QED
    BY <2>1
<1>5. ASSUME NEW t \in ToSet(flat)
      PROVE  Dependencies(t) \subseteq ListedDependencies(t)
  <2>1. Follows(t) \subseteq deps[t]
    BY <1>3 DEF Finished
  <2> QED
    BY <2>1 DEF Follows, ListedDependencies, OriginalDependencies
<1> HIDE DEF R, S
<1>6. R \subseteq needed /\ \A t \in needed \cap Present : Dependencies(t) \subseteq needed
  BY <1>1, <1>2, <1>4, <1>5, ListedClosed
<1>7. Deep(R) \subseteq needed
  BY <1>6, DeepWithin
<1> QED
  BY <1>7 DEF R

LEMMA AllBuildsByInv == GypInv /\ OrderInv => AllBuilds
<1> SUFFICES ASSUME GypInv, OrderInv, stage = "done", ExportsKept, NEW t \in Asked
             PROVE  FilesOf(t, UsedProducts(t) \cup (IF LinkedOnly(t) THEN {} ELSE Steps)) \subseteq Before(All)
  BY DEF AllBuilds
<1>1. /\ t \in needed /\ t \in ToSet(flat) /\ Finished(t)
      /\ generator \in {"android", "xcode"} => ~Dict(t).suppressWildcard
  <2>1. t \in needed /\ (generator \in {"android", "xcode"} => ~Dict(t).suppressWildcard)
    BY AskedIsNeeded DEF Asked
  <2>2. needed \subseteq ToSet(flat)
    BY DEF GypInv, BuildInv
  <2> QED
    BY <2>1, <2>2, AllFinished
<1>2. All \subseteq Before(All) /\ Closed(Before(All))
  BY BeforeClosed
<1>3. Stand(t) \subseteq All
  <2>1. CASE generator = "ninja"
    BY <1>1, <2>1 DEF Stand, All, NinjaAll, AllOf
  <2>2. CASE generator = "make"
    BY <1>1, <2>2 DEF Stand, All, MakeAll
  <2>3. CASE generator = "android"
    BY <1>1, <2>3 DEF Stand, All, AndroidAll
  <2>4. CASE generator = "cmake"
    BY <1>1, <2>4 DEF Stand, All, CMakeAll
  <2>5. CASE generator = "xcode"
    BY <1>1, <2>5 DEF Stand, All, XcodeAll
  <2>6. CASE generator = "msvs"
    BY <1>1, <2>6 DEF Stand, All, MsvsAll
  <2> QED
    BY <1>1, <2>1, <2>2, <2>3, <2>4, <2>5, <2>6 DEF Finished, Formats
<1>4. /\ FilesOf(t, UsedProducts(t)) \subseteq Before(All)
      /\ ~LinkedOnly(t) => FilesOf(t, Steps) \subseteq Before(All)
  <2>1. InOrder(t)
    BY <1>1, AllInOrder
  <2> QED
    BY <1>2, <1>3, <2>1 DEF InOrder, Brings
<1>5. FilesOf(t, UsedProducts(t) \cup Steps) = FilesOf(t, UsedProducts(t)) \cup FilesOf(t, Steps)
  BY DEF FilesOf
<1>6. FilesOf(t, UsedProducts(t) \cup {}) = FilesOf(t, UsedProducts(t))
  BY DEF FilesOf
<1> QED
  BY <1>4, <1>5, <1>6

-----------------------------------------------------------------------------
\* Whichever generator writes the build, nothing of a target is compiled before the
\* sources and headers that any target it follows, however far behind, generates are
\* there.
THEOREM CompiledAfterActions == GypSpec => []CompileAfterActions
BY OrderInvHolds, CompileAfterActionsByInv, PTL

\* The actions of a target, its copies and its rules, but for the rule that ninja lets
\* run at once, wait for all that the targets it follows make for others.
THEOREM ActedAfterDependencies == GypSpec => []ActionsAfterDependencies
BY OrderInvHolds, ActionsAfterDependenciesByInv, PTL

\* Building everything builds every target that was asked for, or that one asked for
\* depends on, though static libraries no longer wait for each other.
THEOREM AllIsBuilt == GypSpec => []AllBuilds
BY OrderInvHolds, AllBuildsByInv, PTL

\* When the generator of xcode makes objects, target by target and then project by
\* project, it goes on and ends as GypSpec says, so that all of this holds of it as well.
THEOREM TurnsFollowGyp == TurnsSpec => GypSpec
<1>1. ASSUME Control
      PROVE  GypNext \/ UNCHANGED gyp
  <2>1. CASE Elsewhere
    BY <2>1 DEF Elsewhere, build, GypNext
  <2>2. CASE Begin
    BY <2>2 DEF Begin, GypNext
  <2>3. CASE \E t \in ToSet(flat) : OneTarget(t)
    BY <2>3 DEF OneTarget, GypNext
  <2>4. CASE \E f \in Files : CompleteOne(f) \/ IdentifyOne(f)
    BY <2>4 DEF CompleteOne, IdentifyOne
  <2>5. CASE WriteAll
    BY <2>5 DEF WriteAll, GypNext
  <2>6. CASE Abort
    BY <2>6 DEF Abort, GypNext
  <2> QED
    BY <1>1, <2>1, <2>2, <2>3, <2>4, <2>5, <2>6 DEF Control
<1>2. UNCHANGED control => UNCHANGED gyp
  BY DEF control
<1> QED
  BY <1>1, <1>2, PTL DEF TurnsSpec, GypSpec
=============================================================================
