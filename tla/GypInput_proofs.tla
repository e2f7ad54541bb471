-------------------------- MODULE GypInput_proofs --------------------------
(***************************************************************************)
(* For any build files and any targets in them, in every order in which    *)
(* targets may be taken: gyp's list has each target once and behind all it *)
(* depends on, and a cycle is reported if and only if there is one.        *)
(***************************************************************************)
EXTENDS GypInput, BuildFileLoading_proofs

\* A sequence has each of its elements once; and each behind the elements that
\* the function D leads to from it, none of which is then part of a cycle.
Distinct(s) == \A i, j \in 1..Len(s) : s[i] = s[j] => i = j
Behind(s, D) == \A i \in 1..Len(s) : \A d \in D[s[i]] : \E j \in 1..(i-1) : s[j] = d
Acyclic(N, D) == \A S \in SUBSET N : S # {} => \E n \in S : D[n] \cap S = {}

\* What may come next.
Free(N, s, D) == {n \in N \ ToSet(s) : D[n] \subseteq ToSet(s)}

-----------------------------------------------------------------------------
(* Lists that grow by what has no dependencies outside of them.            *)

LEMMA ElementsAppended ==
  ASSUME NEW N, NEW s \in Seq(N), NEW n \in N
  PROVE  /\ Append(s, n) \in Seq(N)
         /\ Len(Append(s, n)) = Len(s) + 1
         /\ \A i \in 1..Len(s) : Append(s, n)[i] = s[i]
         /\ Append(s, n)[Len(s) + 1] = n
         /\ ToSet(Append(s, n)) = ToSet(s) \cup {n}
<1> DEFINE t == Append(s, n)
<1>1. /\ t \in Seq(N) /\ Len(s) \in Nat
      /\ Len(t) = Len(s) + 1
      /\ \A i \in 1..Len(s) : t[i] = s[i]
      /\ t[Len(s) + 1] = n
  OBVIOUS
<1>2. DOMAIN s = 1..Len(s) /\ DOMAIN t = 1..(Len(s) + 1)
  BY <1>1
<1>3. 1..(Len(s) + 1) = (1..Len(s)) \cup {Len(s) + 1}
  BY <1>1
<1> HIDE DEF t
<1>4. ToSet(t) = ToSet(s) \cup {n}
  BY <1>1, <1>2, <1>3 DEF ToSet
<1> QED
  BY <1>1, <1>4 DEF t

LEMMA Appended ==
  ASSUME NEW N, NEW D \in [N -> SUBSET N], NEW s \in Seq(N),
         Distinct(s), Behind(s, D), Acyclic(ToSet(s), D), NEW n \in Free(N, s, D)
  PROVE  /\ Distinct(Append(s, n))
         /\ Behind(Append(s, n), D)
         /\ Acyclic(ToSet(Append(s, n)), D)
         /\ Free(N, Append(s, n), D) =
              (Free(N, s, D) \ {n}) \cup
                {m \in N : n \in D[m] /\ D[m] \subseteq ToSet(Append(s, n))}
<1> DEFINE t == Append(s, n)
<1>1. n \in N /\ n \notin ToSet(s) /\ D[n] \subseteq ToSet(s) /\ Len(s) \in Nat
  BY DEF Free
<1>2. /\ Len(t) = Len(s) + 1
      /\ \A i \in 1..Len(s) : t[i] = s[i]
      /\ t[Len(s) + 1] = n
      /\ ToSet(t) = ToSet(s) \cup {n}
  BY <1>1, ElementsAppended
<1>3. /\ \A i \in 1..Len(s) : s[i] \in ToSet(s)
      /\ \A e \in ToSet(s) : \E i \in 1..Len(s) : s[i] = e
  BY DEF ToSet
<1>4. \A e \in ToSet(s) : e \in N /\ D[e] \subseteq ToSet(s)
  <2>1. \A i \in 1..Len(s) : s[i] \in N
    OBVIOUS
  <2>2. \A i \in 1..Len(s) : \A j \in 1..(i-1) : j \in 1..Len(s)
    BY <1>1
  <2> QED
    BY <1>3, <2>1, <2>2 DEF Behind
<1> HIDE DEF t
<1>5. Distinct(t)
  BY <1>1, <1>2, <1>3 DEF Distinct
<1>6. Behind(t, D)
  <2> SUFFICES ASSUME NEW i \in 1..Len(t), NEW d \in D[t[i]]
               PROVE  \E j \in 1..(i-1) : t[j] = d
    BY DEF Behind
  <2>1. CASE i \in 1..Len(s)
    <3>1. PICK j \in 1..(i-1) : s[j] = d
      BY <1>2, <2>1 DEF Behind
    <3> QED
      BY <1>1, <1>2, <2>1, <3>1
  <2>2. CASE i = Len(s) + 1
    <3>1. PICK j \in 1..Len(s) : s[j] = d
      BY <1>1, <1>2, <1>3, <2>2
    <3> QED
      BY <1>1, <1>2, <2>2, <3>1
  <2> QED
    BY <1>1, <1>2, <2>1, <2>2
<1>7. Acyclic(ToSet(t), D)
  <2> SUFFICES ASSUME NEW S \in SUBSET ToSet(t), S # {}
               PROVE  \E m \in S : D[m] \cap S = {}
    BY DEF Acyclic
  <2>1. CASE S \subseteq {n}
    BY <1>1, <2>1
  <2>2. CASE ~(S \subseteq {n})
    <3>1. S \ {n} \in SUBSET ToSet(s) /\ S \ {n} # {}
      BY <1>2, <2>2
    <3>2. PICK m \in S \ {n} : D[m] \cap (S \ {n}) = {}
      BY <3>1 DEF Acyclic
    <3>3. n \notin D[m]
      BY <1>1, <1>4, <3>1, <3>2
    <3> QED
      BY <3>2, <3>3
  <2> QED
    BY <2>1, <2>2
<1>8. Free(N, t, D) = (Free(N, s, D) \ {n}) \cup {m \in N : n \in D[m] /\ D[m] \subseteq ToSet(t)}
  <2>1. ASSUME NEW m \in Free(N, t, D)
        PROVE  m \in Free(N, s, D) \ {n} \/ n \in D[m]
    BY <1>2, <2>1 DEF Free
  <2>2. ASSUME NEW m \in N, n \in D[m], D[m] \subseteq ToSet(t)
        PROVE  m \in Free(N, t, D)
    <3>1. m \notin ToSet(s) /\ m # n
      BY <1>1, <1>4, <2>2
    <3> QED
      BY <1>2, <2>2, <3>1 DEF Free
  <2>3. \A m \in Free(N, s, D) \ {n} : m \in Free(N, t, D)
    BY <1>2 DEF Free
  <2>4. \A m \in Free(N, t, D) : m \in N /\ D[m] \subseteq ToSet(t)
    BY DEF Free
  <2> QED
    BY <2>1, <2>2, <2>3, <2>4
<1> QED
  BY <1>5, <1>6, <1>7, <1>8 DEF t

\* A list without repetitions is as long as it has elements.
LEMMA DistinctCounts ==
  ASSUME NEW N, NEW s \in Seq(N), Distinct(s)
  PROVE  IsFiniteSet(ToSet(s)) /\ Cardinality(ToSet(s)) = Len(s)
<1>1. DOMAIN s = 1..Len(s) /\ Len(s) \in Nat
  OBVIOUS
<1>2. s \in [1..Len(s) -> ToSet(s)]
  BY <1>1 DEF ToSet
<1>3. s \in Bijection(1..Len(s), ToSet(s))
  <2>1. \A i, j \in 1..Len(s) : s[i] = s[j] => i = j
    BY DEF Distinct
  <2>2. \A e \in ToSet(s) : \E i \in 1..Len(s) : s[i] = e
    BY <1>1 DEF ToSet
  <2> QED
    BY <1>2, <2>1, <2>2 DEF Bijection, Injection, Surjection, IsInjective
<1>4. ExistsBijection(1..Len(s), ToSet(s))
  BY <1>3 DEF ExistsBijection
<1>5. IsFiniteSet(1..Len(s)) /\ Cardinality(1..Len(s)) = Len(s)
  BY SMTT(20), <1>1, FS_Interval
<1> QED
  BY <1>4, <1>5, FS_Bijection

-----------------------------------------------------------------------------
(* Lists of which some elements are kept.                                  *)

\* The rank is how many of K there are up to i.
LEMMA RanksGrow ==
  ASSUME NEW K \in SUBSET Int, IsFiniteSet(K), NEW i \in K, NEW k \in K, i < k
  PROVE  Rank(K, i) < Rank(K, k)
<1> DEFINE I == {j \in K : j <= i}
           J == {j \in K : j <= k}
<1>1. I \subseteq J /\ J \subseteq K /\ k \in J /\ k \notin I
  <2>1. i \in Int /\ k \in Int /\ \A j \in K : j \in Int
    OBVIOUS
  <2>2. (\A j \in K : j <= i => j <= k) /\ k <= k /\ ~(k <= i)
    BY <2>1
  <2>3. I \subseteq J /\ J \subseteq K
    BY <2>2
  <2>4. k \in J /\ k \notin I
    BY <2>2
  <2> QED
    BY <2>3, <2>4
<1>2. IsFiniteSet(J)
  BY <1>1, FS_Subset
<1>3. IsFiniteSet(I) /\ Cardinality(I) <= Cardinality(J)
      /\ (Cardinality(J) = Cardinality(I) => J = I)
  BY <1>1, <1>2, FS_Subset
<1>4. Cardinality(I) \in Nat /\ Cardinality(J) \in Nat /\ I # J
  BY <1>1, <1>2, <1>3, FS_CardinalityType
<1> HIDE DEF I, J
<1>5. Cardinality(I) < Cardinality(J)
  BY <1>3, <1>4
<1> QED
  BY <1>5 DEF Rank, I, J

\* Ranks count through the set.
LEMMA RanksCount ==
  ASSUME NEW K \in SUBSET Int, IsFiniteSet(K)
  PROVE  /\ Cardinality(K) \in Nat
         /\ \A i \in K : Rank(K, i) \in 1..Cardinality(K)
         /\ \A n \in 1..Cardinality(K) : \E i \in K : Rank(K, i) = n
<1> DEFINE c == Cardinality(K)
           f == [i \in K |-> Rank(K, i)]
<1>1. c \in Nat
  BY FS_CardinalityType
<1>2. ASSUME NEW i \in K
      PROVE  Rank(K, i) \in 1..c
  <2> DEFINE I == {j \in K : j <= i}
  <2>1. I \in SUBSET K /\ i \in I
    OBVIOUS
  <2>2. IsFiniteSet(I) /\ Cardinality(I) <= c
    BY <2>1, FS_Subset
  <2>3. Cardinality(I) \in Nat /\ Cardinality(I) # 0
    BY <2>1, <2>2, FS_CardinalityType, FS_EmptySet
  <2> HIDE DEF I, c
  <2>4. Cardinality(I) \in 1..c
    BY <1>1, <2>2, <2>3
  <2> QED
    BY <2>4 DEF Rank, I
<1>3. \A i, k \in K : Rank(K, i) = Rank(K, k) => i = k
  <2> SUFFICES ASSUME NEW i \in K, NEW k \in K, Rank(K, i) = Rank(K, k), i # k
               PROVE  FALSE
    OBVIOUS
  <2>1. Rank(K, i) \in Int /\ Rank(K, k) \in Int
    BY <1>1, <1>2
  <2>2. i < k \/ k < i
    OBVIOUS
  <2> QED
    BY <2>1, <2>2, RanksGrow
<1>4. f \in Injection(K, 1..c)
  BY <1>2, <1>3 DEF Injection, IsInjective
<1>5. IsFiniteSet(1..c) /\ Cardinality(1..c) = c
  BY <1>1, FS_Interval
<1>6. f \in Surjection(K, 1..c)
  BY <1>4, <1>5, FS_Injection
<1>7. \A n \in 1..c : \E i \in K : f[i] = n
  BY <1>6 DEF Surjection
<1> QED
  BY <1>1, <1>2, <1>7

\* g are the places in s, in their order, of the elements that W keeps; and t has them.
Places(g, s, W) ==
  /\ \A m, n \in DOMAIN g : g[m] < g[n] => m < n
  /\ \A m, n \in DOMAIN g : g[m] = g[n] => m = n
  /\ \A i \in 1..Len(s) : s[i] \in W <=> \E n \in DOMAIN g : g[n] = i
Selected(t, g, s) == Len(t) = Len(g) /\ \A n \in 1..Len(g) : t[n] = s[g[n]]

\* Keeping some of a list, what these lead to included, leaves it a list of that
\* kind.
LEMMA KeptPlaces ==
  ASSUME NEW N, NEW D \in [N -> SUBSET N], NEW s \in Seq(N), Distinct(s), Behind(s, D),
         NEW W, \A n \in W \cap N : D[n] \subseteq W,
         NEW g \in Seq(1..Len(s)), Places(g, s, W),
         NEW t \in Seq(N), Selected(t, g, s)
  PROVE  Distinct(t) /\ Behind(t, D) /\ ToSet(t) = ToSet(s) \cap W
<1> DEFINE c == Len(g)
<1>1. /\ Len(s) \in Nat /\ DOMAIN s = 1..Len(s)
      /\ c \in Nat /\ DOMAIN g = 1..c /\ \A n \in 1..c : g[n] \in 1..Len(s)
  OBVIOUS
<1> HIDE DEF c
<1>2. /\ Len(t) = c /\ DOMAIN t = 1..c
      /\ \A n \in 1..c : t[n] = s[g[n]] /\ t[n] \in W \cap N
  <2>1. Len(t) = c /\ DOMAIN t = 1..c /\ \A n \in 1..c : t[n] = s[g[n]] /\ t[n] \in N
    BY <1>1 DEF Selected, c
  <2>2. \A n \in 1..c : s[g[n]] \in W
    BY <1>1 DEF Places
  <2> QED
    BY <2>1, <2>2
<1>3. /\ \A m, n \in 1..c : g[m] < g[n] => m < n
      /\ \A m, n \in 1..c : g[m] = g[n] => m = n
      /\ \A i \in 1..Len(s) : s[i] \in W => \E n \in 1..c : g[n] = i
  BY <1>1 DEF Places
<1>4. Distinct(t)
  BY <1>1, <1>2, <1>3 DEF Distinct
<1>5. Behind(t, D)
  <2> SUFFICES ASSUME NEW n \in 1..c, NEW d \in D[t[n]]
               PROVE  \E m \in 1..(n-1) : t[m] = d
    BY <1>2 DEF Behind
  <2>1. PICK j \in 1..(g[n] - 1) : s[j] = d
    BY <1>1, <1>2 DEF Behind
  <2>2. j \in 1..Len(s) /\ j < g[n]
    BY <1>1, <1>2
  <2>3. d \in W
    BY <1>2
  <2>4. PICK m \in 1..c : g[m] = j
    BY <1>3, <2>1, <2>2, <2>3
  <2>5. m < n
    BY <1>3, <2>2, <2>4
  <2>6. m \in 1..(n-1)
    BY <1>1, <2>5
  <2> QED
    BY <1>2, <2>1, <2>4, <2>6
<1>6. ToSet(t) = ToSet(s) \cap W
  <2>1. ASSUME NEW e \in ToSet(t)
        PROVE  e \in ToSet(s) \cap W
    <3>1. PICK n \in 1..c : t[n] = e
      BY <1>2, <2>1 DEF ToSet
    <3> QED
      BY <1>1, <1>2, <3>1 DEF ToSet
  <2>2. ASSUME NEW e \in ToSet(s) \cap W
        PROVE  e \in ToSet(t)
    <3>1. PICK i \in 1..Len(s) : s[i] = e
      BY <1>1, <2>2 DEF ToSet
    <3>2. PICK n \in 1..c : g[n] = i
      BY <1>3, <2>2, <3>1
    <3>3. t[n] = e /\ n \in DOMAIN t
      BY <1>2, <3>1, <3>2
    <3> QED
      BY <3>3 DEF ToSet
  <2> QED
    BY <2>1, <2>2
<1> QED
  BY <1>4, <1>5, <1>6

\* The n-th that is kept is the one of rank n.
Where(s, W) == {i \in DOMAIN s : s[i] \in W}
ByRank(s, K) == [n \in 1..Cardinality(K) |-> s[CHOOSE i \in K : Rank(K, i) = n]]

LEMMA KeptByRank ==
  ASSUME NEW N, NEW D \in [N -> SUBSET N], NEW s \in Seq(N), Distinct(s), Behind(s, D),
         NEW W, \A n \in W \cap N : D[n] \subseteq W,
         NEW K, K = Where(s, W)
  PROVE  LET t == ByRank(s, K)
         IN  t \in Seq(N) /\ Distinct(t) /\ Behind(t, D) /\ ToSet(t) = ToSet(s) \cap W
<1>1. Len(s) \in Nat /\ DOMAIN s = 1..Len(s) /\ \A i \in 1..Len(s) : s[i] \in N
  OBVIOUS
<1>2. K \in SUBSET (1..Len(s)) /\ K \in SUBSET Int /\ IsFiniteSet(K)
  <2>1. K \in SUBSET (1..Len(s)) /\ IsFiniteSet(1..Len(s))
    BY <1>1, FS_Interval DEF Where
  <2> QED
    BY <2>1, FS_Subset
<1> DEFINE c == Cardinality(K)
           Index(n) == CHOOSE i \in K : Rank(K, i) = n
           g == [n \in 1..c |-> Index(n)]
           t == [n \in 1..c |-> s[Index(n)]]
<1>3. c \in Nat /\ \A n \in 1..c : Index(n) \in K /\ Rank(K, Index(n)) = n
  BY <1>2, RanksCount
<1>4. \A i \in K : Rank(K, i) \in 1..c
  BY <1>2, RanksCount
<1> HIDE DEF Index, c
<1>5. /\ g \in [1..c -> K]
      /\ \A n \in 1..c : Rank(K, g[n]) = n
  BY <1>3
<1>6. t \in [1..c -> N] /\ \A n \in 1..c : t[n] = s[g[n]]
  BY <1>1, <1>2, <1>3
<1> HIDE DEF g, t
<1>7. \A i \in K : g[Rank(K, i)] = i
  <2> SUFFICES ASSUME NEW i \in K
               PROVE  g[Rank(K, i)] = i
    OBVIOUS
  <2>1. Rank(K, i) \in 1..c
    BY <1>4
  <2>2. g[Rank(K, i)] \in K /\ Rank(K, g[Rank(K, i)]) = Rank(K, i)
    BY <1>5, <2>1
  <2>3. ~(g[Rank(K, i)] < i) /\ ~(i < g[Rank(K, i)])
    <3>1. Rank(K, i) \in Int
      BY <1>3, <2>1
    <3> QED
      BY <1>2, <2>2, <3>1, RanksGrow
  <2> QED
    BY <1>2, <2>1, <2>2, <2>3
<1>8. \A m, n \in 1..c : g[m] < g[n] => m < n
  <2> SUFFICES ASSUME NEW m \in 1..c, NEW n \in 1..c, g[m] < g[n]
               PROVE  m < n
    OBVIOUS
  <2>1. Rank(K, g[m]) < Rank(K, g[n])
    BY <1>2, <1>5, RanksGrow
  <2> QED
    BY <1>5, <2>1
<1>9. \A m, n \in 1..c : g[m] = g[n] => m = n
  BY <1>5
<1>10. \A i \in 1..Len(s) : s[i] \in W <=> \E n \in 1..c : g[n] = i
  <2>1. ASSUME NEW i \in K PROVE \E n \in 1..c : g[n] = i
    BY <1>4, <1>7
  <2>2. \A n \in 1..c : g[n] \in K
    BY <1>5
  <2>3. \A i \in 1..Len(s) : s[i] \in W <=> i \in K
    BY <1>1 DEF Where
  <2> QED
    BY <2>1, <2>2, <2>3
<1>11. t \in Seq(N) /\ Len(t) = c /\ Len(g) = c /\ DOMAIN g = 1..c
  BY <1>3, <1>5, <1>6
<1>12. g \in Seq(1..Len(s))
  BY <1>2, <1>3, <1>5
<1>13. Places(g, s, W)
  BY <1>8, <1>9, <1>10, <1>11 DEF Places
<1>14. Selected(t, g, s)
  BY <1>6, <1>11 DEF Selected
<1>15. Distinct(t) /\ Behind(t, D) /\ ToSet(t) = ToSet(s) \cap W
  BY <1>11, <1>12, <1>13, <1>14, KeptPlaces
<1>16. t = ByRank(s, K)
  BY DEF ByRank, t, Index, c
<1> QED
  BY <1>11, <1>15, <1>16

LEMMA Kept ==
  ASSUME NEW N, NEW D \in [N -> SUBSET N], NEW s \in Seq(N), Distinct(s), Behind(s, D),
         NEW W, \A n \in W \cap N : D[n] \subseteq W
  PROVE  LET t == Selection(s, W)
         IN  t \in Seq(N) /\ Distinct(t) /\ Behind(t, D) /\ ToSet(t) = ToSet(s) \cap W
<1>1. Selection(s, W) = ByRank(s, Where(s, W))
  BY DEF Selection, ByRank, Where
<1> QED
  BY <1>1, KeptByRank

-----------------------------------------------------------------------------
(* The graphs, which loading leaves as they are once it has ended.         *)

FileGraph == [f \in FileNodes |-> FileDependencies(f)]
TargetGraph == [t \in Present |-> Dependencies(t)]

\* What stays while what was loaded stays.
GraphsStay ==
  /\ Present' = Present /\ FileNodes' = FileNodes
  /\ \A t : Dict(t)' = Dict(t) /\ Dependencies(t)' = Dependencies(t) /\ Exports(t)' = Exports(t)
  /\ \A f : FileDependencies(f)' = FileDependencies(f)
  /\ FileGraph' = FileGraph /\ TargetGraph' = TargetGraph
  /\ ExportsKept' = ExportsKept

LEMMA GraphsKept ==
  ASSUME UNCHANGED <<project, loaded>>
  PROVE  GraphsStay
<1>1. Present' = Present
  BY DEF Present
<1>2. FileNodes' = FileNodes
  BY <1>1 DEF FileNodes
<1>3. \A t : Dict(t)' = Dict(t)
  BY DEF Dict
<1>4. \A t : Wild(t)' = Wild(t)
  BY <1>1, <1>3 DEF Wild
<1>5. \A t : Dependencies(t)' = Dependencies(t) /\ Exports(t)' = Exports(t)
  BY <1>1, <1>3, <1>4 DEF Dependencies, Exports, Pruned
<1>6. \A f : FileDependencies(f)' = FileDependencies(f)
  BY <1>1, <1>5 DEF FileDependencies
<1>7. FileGraph' = FileGraph /\ TargetGraph' = TargetGraph
  BY <1>1, <1>2, <1>5, <1>6 DEF FileGraph, TargetGraph
<1>8. ExportsKept' = ExportsKept
  BY <1>1, <1>5 DEF ExportsKept
<1> QED
  BY <1>1, <1>2, <1>3, <1>5, <1>6, <1>7, <1>8 DEF GraphsStay

\* When the main thread goes on, no call of the pool is left to change anything.
LEMMA LoadedStays ==
  ASSUME LoadInv, main = "loaded"
  PROVE  ~LoadNext
<1>1. \A i \in DOMAIN jobs : jobs[i].state \in {"handled", "failed"}
  <2>1. CASE project.parallel
    BY <2>1 DEF LoadInv, Parallel, Endings, Ended
  <2>2. CASE ~project.parallel
    BY <2>2 DEF LoadInv, Sequential
  <2> QED
    BY <2>1, <2>2
<1>2. ~(\E f \in Files : LoadFile(f) \/ Submit(f))
  BY DEF LoadFile, Submit
<1>3. ~(Finish \/ Wait \/ Resume \/ Leave \/ Join)
  BY DEF Finish, Wait, Resume, Leave, Join
<1>4. ~(\E i \in DOMAIN jobs : Take(i) \/ Return(i) \/ CallbackFails(i) \/ Callback(i))
  BY <1>1 DEF Take, Return, CallbackFails, Callback
<1> QED
  BY <1>2, <1>3, <1>4 DEF LoadNext

\* The types of what targets name.
LEMMA Named ==
  ASSUME LoadInv
  PROVE  /\ Present \subseteq Targets /\ IsFiniteSet(Present)
         /\ FileNodes \subseteq Files /\ IsFiniteSet(FileNodes)
         /\ \A t \in Present : /\ Dict(t) \in TargetDicts
                               /\ Dependencies(t) \subseteq Targets
                               /\ Exports(t) \subseteq Targets
<1>1. project \in Projects
  BY DEF LoadInv, LoadTypeOK
<1>2. /\ DOMAIN project.targets \subseteq Targets /\ IsFiniteSet(DOMAIN project.targets)
      /\ \A t \in DOMAIN project.targets : project.targets[t] \in TargetDicts
      /\ \A t \in Targets : BuildFile(t) \in Files
  BY <1>1, TargetsAssumption
<1>3. Present \subseteq DOMAIN project.targets
  BY DEF Present
<1>4. IsFiniteSet(Present)
  BY <1>2, <1>3, FS_Subset
<1>5. FileNodes \subseteq Files
  BY <1>2, <1>3 DEF FileNodes
<1>6. IsFiniteSet(FileNodes)
  BY <1>5, FilesAssumption, FS_Subset
<1>7. ASSUME NEW t \in Present
      PROVE  /\ Dict(t) \in TargetDicts
             /\ Dependencies(t) \subseteq Targets
             /\ Exports(t) \subseteq Targets
  <2>1. Dict(t) \in TargetDicts
    BY <1>2, <1>3 DEF Dict
  <2>2. Dict(t).deps \subseteq Targets /\ Dict(t).exports \subseteq Targets
    BY <2>1 DEF TargetDicts
  <2>3. Wild(t) \subseteq Targets
    BY <1>2, <1>3 DEF Wild
  <2> QED
    BY <2>1, <2>2, <2>3 DEF Dependencies, Exports, Pruned
<1> QED
  BY <1>2, <1>3, <1>4, <1>5, <1>6, <1>7

-----------------------------------------------------------------------------
(* What can be reached.                                                    *)

LEMMA DeepClosed ==
  ASSUME NEW S, NEW t \in Deep(S), t \in Present
  PROVE  Dependencies(t) \subseteq Deep(S)
<1> DEFINE named == S \cup UNION {Dependencies(u) : u \in Present}
           closed == {T \in SUBSET named :
                        S \subseteq T /\ \A u \in T \cap Present : Dependencies(u) \subseteq T}
<1>1. Deep(S) = {u \in named : \A T \in closed : u \in T}
  BY DEF Deep, Reached
<1>2. Dependencies(t) \subseteq named
  OBVIOUS
<1>3. \A T \in closed : Dependencies(t) \subseteq T
  BY <1>1
<1> HIDE DEF named, closed
<1> QED
  BY <1>1, <1>2, <1>3

LEMMA ImportedWithin ==
  ASSUME NEW S, NEW B, S \subseteq B, \A t \in B \cap Present : Exports(t) \subseteq B
  PROVE  Imported(S) \subseteq B
<1> DEFINE named == S \cup UNION {Exports(u) : u \in Present}
           closed == {T \in SUBSET named :
                        S \subseteq T /\ \A u \in T \cap Present : Exports(u) \subseteq T}
<1>1. Imported(S) = {u \in named : \A T \in closed : u \in T}
  BY DEF Imported, Reached
<1>2. B \cap named \in closed
  OBVIOUS
<1> HIDE DEF named, closed
<1> QED
  BY <1>1, <1>2

LEMMA LinkedWithin ==
  ASSUME NEW t, NEW B, Dependencies(t) \subseteq B,
         \A u \in B \cap Present : Dependencies(u) \subseteq B
  PROVE  LinkDependencies(t) \subseteq B
<1> DEFINE S == {d \in Dependencies(t) : Included(d)}
           named == S \cup UNION {LinkedFrom(u) : u \in Present}
           closed == {T \in SUBSET named :
                        S \subseteq T /\ \A u \in T \cap Present : LinkedFrom(u) \subseteq T}
<1>1. LinkDependencies(t) = {u \in named : \A T \in closed : u \in T}
  BY DEF LinkDependencies, Reached
<1>2. \A u : LinkedFrom(u) \subseteq Dependencies(u)
  BY DEF LinkedFrom
<1>3. B \cap named \in closed
  BY <1>2
<1> HIDE DEF named, closed
<1> QED
  BY <1>1, <1>3

\* Adjusting the dependencies of a target adds none from outside of a set that
\* has those it had and those of the graph, and what its members lead to.
LEMMA AdjustedWithin ==
  ASSUME NEW t \in Present, Dict(t) \in TargetDicts,
         NEW B, deps[t] \subseteq B, Dependencies(t) \subseteq B,
         \A u \in B \cap Present : Dependencies(u) \subseteq B /\ Exports(u) \subseteq B
  PROVE  Adjusted(t) \subseteq B
<1>1. LinkDependencies(t) \subseteq B
  BY LinkedWithin
<1>2. Imported(Dependencies(t)) \subseteq B
  BY ImportedWithin
<1>3. CASE Dict(t).type = "static_library"
  <2>1. Adjusted(t) = {d \in Imported(Dependencies(t)) :
                         HardStatic(d) \/ (Dict(d).type # "static_library" /\ d \in deps[t])}
    BY <1>3 DEF Adjusted, Linkables
  <2> QED
    BY <1>2, <2>1
<1>4. CASE Dict(t).type \in Linkables
  BY <1>1, <1>4 DEF Adjusted, Linkables
<1>5. CASE Dict(t).type \notin {"static_library"} \cup Linkables
  BY <1>5 DEF Adjusted
<1> QED
  BY <1>3, <1>4, <1>5

-----------------------------------------------------------------------------
(* The invariant.                                                          *)

Ordered == {"adjust", "generate", "write", "done"}

\* The nodes lead to nodes, and the list has some of them, as it should.
Listing(s, D) ==
  /\ IsFiniteSet(DOMAIN D)
  /\ D \in [DOMAIN D -> SUBSET DOMAIN D]
  /\ s \in Seq(DOMAIN D)
  /\ Distinct(s) /\ Behind(s, D)

\* While the list grows.
Flattening(s, free, D) ==
  /\ Listing(s, D)
  /\ free = Free(DOMAIN D, s, D)
  /\ Acyclic(ToSet(s), D)

\* The dependencies of what is listed are as Load has them by now.
DepsBehind == Behind(flat, deps)

FilesAcyclic == project.check => Acyclic(FileNodes, FileGraph)

InputTypes ==
  /\ stage \in Stages
  /\ next \in Nat \ {0}
  /\ deps \in [Targets -> SUBSET Targets]

\* What Load knows at each stage.
StageInv ==
  /\ stage = "load" => flat = <<>>
  /\ stage # "load" => main = "loaded"
  /\ stage = "files" => Flattening(flat, zeros, FileGraph)
  /\ stage = "targets" => /\ Flattening(flat, zeros, TargetGraph)
                          /\ \A t \in Present : deps[t] = Dependencies(t)
                          /\ FilesAcyclic
  /\ stage \in Ordered => /\ Listing(flat, TargetGraph)
                          /\ ExportsKept => DepsBehind
                          /\ FilesAcyclic
                          /\ Acyclic(Present, TargetGraph)
  /\ stage = "file_cycle" => ~Acyclic(FileNodes, FileGraph)
  /\ stage = "cycle" => ~Acyclic(Present, TargetGraph)

InputInv == LoadInv /\ InputTypes /\ StageInv

\* The list when nothing more is free.
LEMMA ListEnds ==
  ASSUME NEW D, NEW s, Flattening(s, {}, D)
  PROVE  /\ Len(s) # Cardinality(DOMAIN D) => ~Acyclic(DOMAIN D, D)
         /\ Len(s) = Cardinality(DOMAIN D) => Acyclic(DOMAIN D, D)
<1> DEFINE N == DOMAIN D
<1>1. /\ IsFiniteSet(N) /\ D \in [N -> SUBSET N] /\ s \in Seq(N)
      /\ Distinct(s) /\ Behind(s, D)
      /\ Free(N, s, D) = {} /\ Acyclic(ToSet(s), D)
  BY DEF Flattening, Listing
<1>2. ToSet(s) \subseteq N
  <2>1. \A i \in DOMAIN s : s[i] \in N
    BY <1>1
  <2> QED
    BY <2>1 DEF ToSet
<1> HIDE DEF N
<1>3. IsFiniteSet(ToSet(s)) /\ Cardinality(ToSet(s)) = Len(s)
  BY <1>1, DistinctCounts
<1>4. ASSUME Len(s) # Cardinality(N)
      PROVE  ~Acyclic(N, D)
  <2> DEFINE S == N \ ToSet(s)
  <2>1. S \in SUBSET N /\ S # {}
    <3>1. ToSet(s) # N
      BY <1>3, <1>4
    <3> QED
      BY <1>2, <3>1
  <2>2. ASSUME NEW n \in S
        PROVE  D[n] \cap S # {}
    <3>1. n \in N /\ D[n] \subseteq N /\ n \notin ToSet(s)
      BY <1>1
    <3>2. ~(D[n] \subseteq ToSet(s))
      BY <1>1, <3>1 DEF Free
    <3> QED
      BY <3>1, <3>2
  <2> QED
    BY <2>1, <2>2 DEF Acyclic
<1>5. ASSUME Len(s) = Cardinality(N)
      PROVE  Acyclic(N, D)
  <2>1. ToSet(s) = N
    BY <1>1, <1>2, <1>3, <1>5, FS_Subset
  <2> QED
    BY <1>1, <2>1
<1> QED
  BY <1>4, <1>5 DEF N

\* A list that begins.
LEMMA ListBegins ==
  ASSUME NEW D, IsFiniteSet(DOMAIN D), D \in [DOMAIN D -> SUBSET DOMAIN D],
         NEW s, s = <<>>, NEW free, free = {n \in DOMAIN D : D[n] = {}}
  PROVE  Flattening(s, free, D)
<1>1. s \in Seq(DOMAIN D) /\ Len(s) = 0 /\ DOMAIN s = {}
  OBVIOUS
<1>2. ToSet(s) = {}
  BY <1>1 DEF ToSet
<1>3. Distinct(s) /\ Behind(s, D)
  BY <1>1 DEF Distinct, Behind
<1>4. Acyclic(ToSet(s), D)
  BY <1>2 DEF Acyclic
<1>5. free = Free(DOMAIN D, s, D)
  BY <1>2 DEF Free
<1> QED
  BY <1>1, <1>3, <1>4, <1>5 DEF Flattening, Listing

-----------------------------------------------------------------------------
(* The steps of Load.                                                      *)

LEMMA InitInputInv == InputInit => InputInv
<1> SUFFICES ASSUME InputInit PROVE InputInv
  OBVIOUS
<1>1. LoadInv
  BY InitLoadInv DEF InputInit
<1>2. InputTypes
  BY DEF InputInit, InputTypes, Stages
<1>3. StageInv
  BY DEF InputInit, StageInv, Ordered
<1> QED
  BY <1>1, <1>2, <1>3 DEF InputInv

LEMMA LoadingKeeps ==
  ASSUME InputInv, LoadNext, UNCHANGED input
  PROVE  InputInv'
<1>1. LoadInv'
  BY LoadInvInductive DEF InputInv
<1>2. stage = "load"
  BY LoadedStays DEF InputInv, StageInv
<1>3. UNCHANGED <<stage, flat, zeros, next, deps>>
  BY DEF input
<1>4. InputTypes'
  BY <1>3 DEF InputInv, InputTypes
<1>5. StageInv'
  BY <1>2, <1>3 DEF InputInv, StageInv, Ordered
<1> QED
  BY <1>1, <1>4, <1>5 DEF InputInv

LEMMA LoadingIsOver ==
  ASSUME InputInv, UNCHANGED loading
  PROVE  LoadInv' /\ GraphsStay /\ main' = main /\ project' = project
<1>1. UNCHANGED <<project, main, loaded>>
  BY DEF loading, shared
<1>2. GraphsStay
  BY <1>1, GraphsKept
<1>3. LoadInv'
  BY LoadInvInductive DEF InputInv
<1> QED
  BY <1>1, <1>2, <1>3

LEMMA FailsKeep ==
  ASSUME InputInv, UNCHANGED loading, main = "loaded", NEW fault \in Faults, Fails(fault),
         fault = "file_cycle" => ~Acyclic(FileNodes, FileGraph),
         fault = "cycle" => ~Acyclic(Present, TargetGraph)
  PROVE  InputInv'
<1>1. LoadInv' /\ GraphsStay /\ main' = main
  BY LoadingIsOver
<1>2. stage' = fault /\ UNCHANGED <<flat, zeros, next, deps>>
  BY DEF Fails
<1>3. InputTypes'
  BY <1>2 DEF InputInv, InputTypes, Stages
<1>4. stage' \notin {"load", "files", "targets"} \cup Ordered
  BY <1>2 DEF Faults, Ordered
<1>5. StageInv'
  <2>1. FileNodes' = FileNodes /\ FileGraph' = FileGraph
        /\ Present' = Present /\ TargetGraph' = TargetGraph
    BY <1>1 DEF GraphsStay
  <2> QED
    BY <1>1, <1>2, <1>4, <2>1 DEF StageInv
<1> QED
  BY <1>1, <1>3, <1>5 DEF InputInv

LEMMA ListOfTargetsBegins ==
  ASSUME InputInv, UNCHANGED loading, main = "loaded", FilesAcyclic, BuildDependencyList
  PROVE  InputInv'
<1>1. CASE \E t \in Present : ~(Dependencies(t) \subseteq Present)
  <2>1. Fails("not_found")
    BY <1>1 DEF BuildDependencyList
  <2> QED
    BY <2>1, FailsKeep DEF Faults
<1>2. CASE ~(\E t \in Present : ~(Dependencies(t) \subseteq Present))
  <2>1. LoadInv' /\ GraphsStay /\ main' = main /\ project' = project
    BY LoadingIsOver
  <2>2. /\ stage' = "targets" /\ flat' = <<>> /\ next' = next
        /\ zeros' = {t \in Present : Dependencies(t) = {}}
        /\ deps' = [t \in Targets |-> IF t \in Present THEN Dependencies(t) ELSE {}]
    BY <1>2 DEF BuildDependencyList
  <2>3. /\ Present \subseteq Targets /\ IsFiniteSet(Present)
        /\ \A t \in Present : Dependencies(t) \subseteq Targets
    BY Named DEF InputInv
  <2>4. InputTypes'
    <3>1. deps' \in [Targets -> SUBSET Targets]
      BY <2>2, <2>3
    <3> QED
      BY <2>2, <3>1 DEF InputInv, InputTypes, Stages
  <2>5. DOMAIN TargetGraph = Present /\ TargetGraph \in [Present -> SUBSET Present]
        /\ \A t \in Present : TargetGraph[t] = Dependencies(t)
    BY <1>2 DEF TargetGraph
  <2>6. Flattening(flat', zeros', TargetGraph)
    <3>1. zeros' = {t \in DOMAIN TargetGraph : TargetGraph[t] = {}}
      BY <2>2, <2>5
    <3> QED
      BY <2>2, <2>3, <2>5, <3>1, ListBegins
  <2>7. \A t \in Present : deps'[t] = Dependencies(t)
    BY <2>2, <2>3
  <2>8. StageInv'
    <3>1. /\ TargetGraph' = TargetGraph /\ Present' = Present
          /\ FileGraph' = FileGraph /\ FileNodes' = FileNodes
          /\ \A t : Dependencies(t)' = Dependencies(t)
      BY <2>1 DEF GraphsStay
    <3>2. FilesAcyclic'
      BY <2>1, <3>1 DEF FilesAcyclic
    <3>3. Flattening(flat, zeros, TargetGraph)'
      BY <2>6, <3>1
    <3>4. (\A t \in Present : deps[t] = Dependencies(t))'
      BY <2>7, <3>1
    <3> QED
      BY <2>1, <2>2, <3>2, <3>3, <3>4 DEF StageInv, Ordered
  <2> QED
    BY <2>1, <2>4, <2>8 DEF InputInv
<1> QED
  BY <1>1, <1>2

LEMMA ReadTargetsKeeps ==
  ASSUME InputInv, ReadTargets
  PROVE  InputInv'
<1>1. stage = "load" /\ main = "loaded" /\ UNCHANGED loading /\ flat = <<>>
  BY DEF ReadTargets, InputInv, StageInv
<1>2. CASE Fails("exports") \/ Fails("wildcard") \/ Fails("not_found")
  <2>1. PICK fault \in {"exports", "wildcard", "not_found"} : Fails(fault)
    BY <1>2
  <2> QED
    BY <1>1, <2>1, FailsKeep DEF Faults
<1>3. CASE ~project.check /\ BuildDependencyList
  BY <1>1, <1>3, ListOfTargetsBegins DEF FilesAcyclic
<1>4. CASE /\ ~(\E f \in FileNodes : ~(FileDependencies(f) \subseteq FileNodes))
           /\ stage' = "files"
           /\ zeros' = {f \in FileNodes : FileDependencies(f) = {}}
           /\ UNCHANGED <<flat, next, deps>>
  <2>1. LoadInv' /\ GraphsStay /\ main' = main /\ project' = project
    BY <1>1, LoadingIsOver
  <2>2. InputTypes'
    BY <1>4 DEF InputInv, InputTypes, Stages
  <2>3. IsFiniteSet(FileNodes)
    BY Named DEF InputInv
  <2>4. DOMAIN FileGraph = FileNodes /\ FileGraph \in [FileNodes -> SUBSET FileNodes]
        /\ \A f \in FileNodes : FileGraph[f] = FileDependencies(f)
    BY <1>4 DEF FileGraph
  <2>5. Flattening(flat', zeros', FileGraph)
    <3>1. zeros' = {f \in DOMAIN FileGraph : FileGraph[f] = {}} /\ flat' = <<>>
      BY <1>1, <1>4, <2>4
    <3> QED
      BY <2>3, <2>4, <3>1, ListBegins
  <2>6. Flattening(flat, zeros, FileGraph)'
    BY <2>1, <2>5 DEF GraphsStay
  <2>7. StageInv'
    BY <1>1, <1>4, <2>1, <2>6 DEF StageInv, Ordered
  <2> QED
    BY <2>1, <2>2, <2>7 DEF InputInv
<1> QED
  BY <1>2, <1>3, <1>4 DEF ReadTargets

\* One more node, of either graph.
LEMMA FlatteningGoesOn ==
  ASSUME NEW D, NEW s, NEW free, Flattening(s, free, D), NEW n \in free,
         NEW after, after = (free \ {n}) \cup
           {m \in DOMAIN D : n \in D[m] /\ D[m] \subseteq ToSet(Append(s, n))}
  PROVE  Flattening(Append(s, n), after, D)
<1> DEFINE N == DOMAIN D
<1>1. /\ IsFiniteSet(N) /\ D \in [N -> SUBSET N] /\ s \in Seq(N)
      /\ Distinct(s) /\ Behind(s, D) /\ Acyclic(ToSet(s), D)
      /\ free = Free(N, s, D)
  BY DEF Flattening, Listing
<1>2. n \in Free(N, s, D) /\ n \in N
  BY <1>1 DEF Free
<1>3. Append(s, n) \in Seq(N)
  BY <1>1, <1>2, ElementsAppended
<1> HIDE DEF N
<1>4. /\ Distinct(Append(s, n)) /\ Behind(Append(s, n), D)
      /\ Acyclic(ToSet(Append(s, n)), D)
      /\ Free(N, Append(s, n), D) = (Free(N, s, D) \ {n}) \cup
           {m \in N : n \in D[m] /\ D[m] \subseteq ToSet(Append(s, n))}
  BY <1>1, <1>2, Appended
<1>5. after = Free(N, Append(s, n), D)
  BY <1>1, <1>4 DEF N
<1> QED
  BY <1>1, <1>3, <1>4, <1>5 DEF Flattening, Listing, N

LEMMA FlattenKeeps ==
  ASSUME InputInv, NEW n \in zeros, Flatten(n)
  PROVE  InputInv'
<1>1. /\ stage \in {"files", "targets"} /\ stage' = stage /\ next' = next /\ deps' = deps
      /\ UNCHANGED loading /\ flat' = Append(flat, n)
      /\ zeros' = (zeros \ {n}) \cup
           {m \in Nodes : n \in DependenciesOf(m) /\ DependenciesOf(m) \subseteq ToSet(flat')}
  BY DEF Flatten
<1>2. LoadInv' /\ GraphsStay /\ main' = main /\ project' = project
  BY <1>1, LoadingIsOver
<1>3. InputTypes'
  BY <1>1 DEF InputInv, InputTypes
<1>4. CASE stage = "files"
  <2>1. zeros' = (zeros \ {n}) \cup
          {m \in DOMAIN FileGraph :
             n \in FileGraph[m] /\ FileGraph[m] \subseteq ToSet(Append(flat, n))}
    BY <1>1, <1>4 DEF Nodes, DependenciesOf, FileGraph
  <2>2. Flattening(flat, zeros, FileGraph)
    BY <1>4 DEF InputInv, StageInv
  <2>3. Flattening(flat', zeros', FileGraph)
    BY <1>1, <2>1, <2>2, FlatteningGoesOn
  <2>4. Flattening(flat, zeros, FileGraph)'
    BY <1>2, <2>3 DEF GraphsStay
  <2>5. StageInv'
    BY <1>1, <1>2, <1>4, <2>4 DEF InputInv, StageInv, Ordered
  <2> QED
    BY <1>2, <1>3, <2>5 DEF InputInv
<1>5. CASE stage = "targets"
  <2>1. zeros' = (zeros \ {n}) \cup
          {m \in DOMAIN TargetGraph :
             n \in TargetGraph[m] /\ TargetGraph[m] \subseteq ToSet(Append(flat, n))}
    BY <1>1, <1>5 DEF Nodes, DependenciesOf, TargetGraph
  <2>2. Flattening(flat, zeros, TargetGraph)
    BY <1>5 DEF InputInv, StageInv
  <2>3. Flattening(flat', zeros', TargetGraph)
    BY <1>1, <2>1, <2>2, FlatteningGoesOn
  <2>4. Flattening(flat, zeros, TargetGraph)' /\ FilesAcyclic' = FilesAcyclic
    BY <1>2, <2>3 DEF GraphsStay, FilesAcyclic
  <2>5. (\A t \in Present : deps[t] = Dependencies(t))'
    BY <1>1, <1>2, <1>5 DEF GraphsStay, InputInv, StageInv
  <2>6. StageInv'
    BY <1>1, <1>2, <1>5, <2>4, <2>5 DEF InputInv, StageInv, Ordered
  <2> QED
    BY <1>2, <1>3, <2>6 DEF InputInv
<1> QED
  BY <1>1, <1>4, <1>5

LEMMA FilesFlattenedKeeps ==
  ASSUME InputInv, FilesFlattened
  PROVE  InputInv'
<1>1. /\ stage = "files" /\ zeros = {} /\ UNCHANGED loading /\ main = "loaded"
      /\ Flattening(flat, {}, FileGraph)
  BY DEF FilesFlattened, InputInv, StageInv
<1>2. DOMAIN FileGraph = FileNodes
  BY DEF FileGraph
<1>3. CASE Len(flat) # Cardinality(FileNodes)
  <2>1. ~Acyclic(FileNodes, FileGraph)
    BY <1>1, <1>2, <1>3, ListEnds
  <2>2. Fails("file_cycle")
    BY <1>3 DEF FilesFlattened
  <2> QED
    BY <1>1, <2>1, <2>2, FailsKeep DEF Faults
<1>4. CASE Len(flat) = Cardinality(FileNodes)
  <2>1. Acyclic(FileNodes, FileGraph)
    BY <1>1, <1>2, <1>4, ListEnds
  <2>2. BuildDependencyList
    BY <1>4 DEF FilesFlattened
  <2> QED
    BY <1>1, <2>1, <2>2, ListOfTargetsBegins DEF FilesAcyclic
<1> QED
  BY <1>3, <1>4

\* Dropping targets leaves a list of that kind.
LEMMA PrunedListing ==
  ASSUME Listing(flat, TargetGraph)
  PROVE  Listing(PruneUnwanted, TargetGraph)
<1>1. /\ DOMAIN TargetGraph = Present
      /\ TargetGraph \in [Present -> SUBSET Present]
      /\ flat \in Seq(Present) /\ Distinct(flat) /\ Behind(flat, TargetGraph)
      /\ IsFiniteSet(Present)
  BY DEF Listing, TargetGraph
<1>2. CASE project.wanted = {}
  BY <1>2 DEF PruneUnwanted
<1>3. CASE project.wanted # {}
  <2> DEFINE W == Deep(project.wanted)
  <2>1. \A t \in W \cap Present : TargetGraph[t] \subseteq W
    BY DeepClosed DEF TargetGraph
  <2>2. PruneUnwanted = Selection(flat, W)
    BY <1>3 DEF PruneUnwanted
  <2> HIDE DEF W
  <2>3. /\ Selection(flat, W) \in Seq(Present)
        /\ Distinct(Selection(flat, W)) /\ Behind(Selection(flat, W), TargetGraph)
    BY <1>1, <2>1, Kept
  <2> QED
    BY <1>1, <2>2, <2>3 DEF Listing
<1> QED
  BY <1>2, <1>3

LEMMA TargetsFlattenedKeeps ==
  ASSUME InputInv, TargetsFlattened
  PROVE  InputInv'
<1>1. /\ stage = "targets" /\ zeros = {} /\ UNCHANGED loading /\ main = "loaded"
      /\ Flattening(flat, {}, TargetGraph) /\ FilesAcyclic
      /\ \A t \in Present : deps[t] = Dependencies(t)
  BY DEF TargetsFlattened, InputInv, StageInv
<1>2. DOMAIN TargetGraph = Present
  BY DEF TargetGraph
<1>3. CASE Len(flat) # Cardinality(Present)
  <2>1. ~Acyclic(Present, TargetGraph)
    BY <1>1, <1>2, <1>3, ListEnds
  <2>2. Fails("cycle")
    BY <1>3 DEF TargetsFlattened
  <2> QED
    BY <1>1, <2>1, <2>2, FailsKeep DEF Faults
<1>4. CASE Fails("unknown_target") \/ Fails("not_found")
  <2>1. PICK fault \in {"unknown_target", "not_found"} : Fails(fault)
    BY <1>4
  <2> QED
    BY <1>1, <2>1, FailsKeep DEF Faults
<1>5. CASE /\ Len(flat) = Cardinality(Present)
           /\ stage' = "adjust" /\ flat' = PruneUnwanted /\ UNCHANGED <<zeros, next, deps>>
  <2>1. LoadInv' /\ GraphsStay /\ main' = main /\ project' = project
    BY <1>1, LoadingIsOver
  <2>2. InputTypes'
    BY <1>5 DEF InputInv, InputTypes, Stages
  <2>3. Acyclic(Present, TargetGraph)
    BY <1>1, <1>2, <1>5, ListEnds
  <2>4. Listing(flat', TargetGraph)
    BY <1>1, <1>5, PrunedListing DEF Flattening
  <2>5. Behind(flat', deps')
    <3>1. \A i \in 1..Len(flat') : flat'[i] \in Present
      BY <1>2, <2>4 DEF Listing
    <3>2. \A t \in Present : deps'[t] = TargetGraph[t]
      BY <1>1, <1>5 DEF TargetGraph
    <3> QED
      BY <2>4, <3>1, <3>2 DEF Behind, Listing
  <2>6. /\ Listing(flat, TargetGraph)' /\ DepsBehind' /\ FilesAcyclic'
        /\ Acyclic(Present, TargetGraph)'
    BY <1>1, <2>1, <2>3, <2>4, <2>5 DEF GraphsStay, DepsBehind, FilesAcyclic
  <2>7. StageInv'
    BY <1>1, <1>5, <2>1, <2>6 DEF StageInv, Ordered
  <2> QED
    BY <2>1, <2>2, <2>7 DEF InputInv
<1> QED
  BY <1>3, <1>4, <1>5 DEF TargetsFlattened, KeepWanted

\* While lists of dependencies are rewritten, they stay within what comes before.
LEMMA AdjustKeeps ==
  ASSUME InputInv, Adjust
  PROVE  InputInv'
<1> DEFINE t == flat[next]
           before == {flat[j] : j \in 1..(next - 1)}
<1>1. /\ stage = "adjust" /\ stage' = stage /\ next \in Nat \ {0} /\ next <= Len(flat)
      /\ deps \in [Targets -> SUBSET Targets]
      /\ deps' = [deps EXCEPT ![t] = Adjusted(t)] /\ next' = next + 1
      /\ UNCHANGED loading /\ flat' = flat /\ zeros' = zeros
  BY DEF Adjust, InputInv, InputTypes
<1>2. /\ Listing(flat, TargetGraph) /\ (ExportsKept => DepsBehind)
      /\ FilesAcyclic /\ Acyclic(Present, TargetGraph)
  BY <1>1 DEF InputInv, StageInv, Ordered
<1>3. LoadInv' /\ GraphsStay /\ main' = main /\ project' = project
  BY <1>1, LoadingIsOver
<1>4. /\ DOMAIN TargetGraph = Present /\ TargetGraph \in [Present -> SUBSET Present]
      /\ \A u \in Present : TargetGraph[u] = Dependencies(u)
      /\ flat \in Seq(Present) /\ Distinct(flat) /\ Behind(flat, TargetGraph)
  BY <1>2 DEF Listing, TargetGraph
<1>5. /\ next \in 1..Len(flat) /\ Len(flat) \in Nat
      /\ \A i \in 1..Len(flat) : flat[i] \in Present
  BY <1>1, <1>4
<1>6. /\ t \in Present /\ t \in Targets /\ Present \subseteq Targets /\ Dict(t) \in TargetDicts
      /\ \A u \in Present : Dependencies(u) \subseteq Targets /\ Exports(u) \subseteq Targets
  BY <1>5, Named DEF InputInv
<1> HIDE DEF t
<1>7. Adjusted(t) \subseteq Targets
  BY <1>1, <1>6, AdjustedWithin
<1>8. InputTypes'
  <2>1. deps' \in [Targets -> SUBSET Targets]
    BY <1>1, <1>7
  <2> QED
    BY <1>1, <2>1 DEF InputInv, InputTypes
<1>9. ASSUME ExportsKept
      PROVE  Behind(flat, deps')
  <2>1. /\ deps[t] \subseteq before
        /\ Dependencies(t) \subseteq before
    BY <1>2, <1>4, <1>5, <1>6, <1>9 DEF DepsBehind, Behind, t
  <2>2. ASSUME NEW u \in before \cap Present
        PROVE  Dependencies(u) \subseteq before
    <3>1. PICK j \in 1..(next - 1) : flat[j] = u
      OBVIOUS
    <3>2. j \in 1..Len(flat) /\ \A k \in 1..(j - 1) : k \in 1..(next - 1)
      BY <1>5
    <3> QED
      BY <1>4, <3>1, <3>2 DEF Behind
  <2>3. \A u \in before \cap Present : Exports(u) \subseteq before
    BY <1>9, <2>2 DEF ExportsKept
  <2> HIDE DEF before
  <2>4. Adjusted(t) \subseteq before
    BY <1>6, <2>1, <2>2, <2>3, AdjustedWithin
  <2> SUFFICES ASSUME NEW i \in 1..Len(flat), NEW d \in deps'[flat[i]]
               PROVE  \E j \in 1..(i-1) : flat[j] = d
    BY DEF Behind
  <2>5. CASE i = next
    BY <1>1, <1>6, <2>4, <2>5 DEF before, t
  <2>6. CASE i # next
    <3>1. flat[i] # t
      BY <1>4, <1>5, <2>6 DEF Distinct, t
    <3>2. d \in deps[flat[i]]
      BY <1>1, <1>5, <1>6, <3>1
    <3> QED
      BY <1>2, <1>9, <3>2 DEF DepsBehind, Behind
  <2> QED
    BY <2>5, <2>6
<1>10. /\ Listing(flat, TargetGraph)' /\ FilesAcyclic' /\ Acyclic(Present, TargetGraph)'
       /\ (ExportsKept => DepsBehind)'
  BY <1>1, <1>2, <1>3, <1>9 DEF GraphsStay, DepsBehind, FilesAcyclic
<1>11. StageInv'
  BY <1>1, <1>3, <1>10 DEF InputInv, StageInv, Ordered
<1> QED
  BY <1>3, <1>8, <1>11 DEF InputInv

LEMMA AdjustEndsKeeps ==
  ASSUME InputInv, AdjustEnds
  PROVE  InputInv'
<1>1. /\ stage = "adjust" /\ stage' = "generate" /\ next' = 1
      /\ UNCHANGED loading /\ flat' = flat /\ deps' = deps
  BY DEF AdjustEnds
<1>2. LoadInv' /\ GraphsStay /\ main' = main /\ project' = project
  BY <1>1, LoadingIsOver
<1>3. InputTypes'
  BY <1>1 DEF InputInv, InputTypes, Stages
<1>4. /\ Listing(flat, TargetGraph) /\ (ExportsKept => DepsBehind)
      /\ FilesAcyclic /\ Acyclic(Present, TargetGraph) /\ main = "loaded"
  BY <1>1 DEF InputInv, StageInv, Ordered
<1>5. /\ Listing(flat, TargetGraph)' /\ FilesAcyclic' /\ Acyclic(Present, TargetGraph)'
      /\ (ExportsKept => DepsBehind)'
  BY <1>1, <1>2, <1>4 DEF GraphsStay, DepsBehind, FilesAcyclic
<1>6. StageInv'
  BY <1>1, <1>2, <1>4, <1>5 DEF StageInv, Ordered
<1> QED
  BY <1>2, <1>3, <1>6 DEF InputInv

LEMMA InputInvInductive == InputInv /\ [InputNext]_<<loading, input>> => InputInv'
<1> SUFFICES ASSUME InputInv, [InputNext]_<<loading, input>> PROVE InputInv'
  OBVIOUS
<1>1. CASE UNCHANGED <<loading, input>>
  <2>1. LoadInv' /\ GraphsStay /\ main' = main /\ project' = project
    BY <1>1, LoadingIsOver
  <2>2. UNCHANGED <<stage, flat, zeros, next, deps>>
    BY <1>1 DEF input
  <2>3. InputTypes' /\ StageInv'
    BY <2>1, <2>2 DEF InputInv, InputTypes, StageInv, GraphsStay, DepsBehind, FilesAcyclic
  <2> QED
    BY <2>1, <2>3 DEF InputInv
<1>2. CASE LoadNext /\ UNCHANGED input
  BY <1>2, LoadingKeeps
<1>3. CASE ReadTargets
  BY <1>3, ReadTargetsKeeps
<1>4. ASSUME NEW n \in zeros, Flatten(n) PROVE InputInv'
  BY <1>4, FlattenKeeps
<1>5. CASE FilesFlattened
  BY <1>5, FilesFlattenedKeeps
<1>6. CASE TargetsFlattened
  BY <1>6, TargetsFlattenedKeeps
<1>7. CASE Adjust
  BY <1>7, AdjustKeeps
<1>8. CASE AdjustEnds
  BY <1>8, AdjustEndsKeeps
<1> QED
  BY <1>1, <1>2, <1>3, <1>4, <1>5, <1>6, <1>7, <1>8 DEF InputNext

LEMMA InputInvHolds == InputSpec => []InputInv
BY InitInputInv, InputInvInductive, PTL DEF InputSpec

-----------------------------------------------------------------------------
LEMMA OrderedByInv == InputInv => FlatOrdered
<1> SUFFICES ASSUME InputInv,
                    stage \in {"targets", "adjust", "generate", "write", "done"}, ExportsKept
             PROVE  \A i \in DOMAIN flat :
                      /\ \A j \in DOMAIN flat : flat[i] = flat[j] => i = j
                      /\ \A d \in deps[flat[i]] : \E j \in 1..(i-1) : flat[j] = d
  BY DEF FlatOrdered
<1>1. Listing(flat, TargetGraph) /\ DOMAIN TargetGraph = Present
  BY DEF InputInv, StageInv, Ordered, Flattening, TargetGraph
<1>2. Behind(flat, deps)
  <2>1. CASE stage = "targets"
    <3>1. \A t \in Present : deps[t] = TargetGraph[t]
      BY <2>1 DEF InputInv, StageInv, TargetGraph
    <3>2. \A i \in 1..Len(flat) : flat[i] \in Present
      BY <1>1 DEF Listing
    <3> QED
      BY <1>1, <3>1, <3>2 DEF Listing, Behind
  <2>2. CASE stage \in Ordered
    BY <2>2 DEF InputInv, StageInv, DepsBehind
  <2> QED
    BY <2>1, <2>2 DEF Ordered
<1>3. DOMAIN flat = 1..Len(flat)
  BY <1>1 DEF Listing
<1> QED
  BY <1>1, <1>2, <1>3 DEF Listing, Distinct, Behind

\* The list that the generators go by has each target once, behind all that its
\* dependencies say, while it grows, after targets were dropped and in the midst
\* of rewriting dependencies, if exports are dependencies still.
THEOREM TargetsAreOrdered == InputSpec => []FlatOrdered
BY OrderedByInv, InputInvHolds, PTL

LEMMA CyclesByInv == InputInv => CyclesFound
<1> SUFFICES ASSUME InputInv PROVE CyclesFound
  OBVIOUS
<1> DEFINE FileCycle == \E S \in (SUBSET FileNodes) \ {{}} :
                          \A f \in S : FileDependencies(f) \cap S # {}
           Cycle == \E S \in (SUBSET Present) \ {{}} : \A t \in S : Dependencies(t) \cap S # {}
<1>1. Acyclic(FileNodes, FileGraph) <=> ~FileCycle
  <2>1. \A f \in FileNodes : FileGraph[f] = FileDependencies(f)
    BY DEF FileGraph
  <2>2. ASSUME Acyclic(FileNodes, FileGraph), NEW S \in SUBSET FileNodes, S # {}
        PROVE  \E f \in S : FileDependencies(f) \cap S = {}
    BY <2>1, <2>2 DEF Acyclic
  <2>3. ASSUME NEW S \in SUBSET FileNodes, S # {}, \A f \in S : FileGraph[f] \cap S # {}
        PROVE  FileCycle
    BY <2>1, <2>3
  <2>4. ASSUME Acyclic(FileNodes, FileGraph), FileCycle
        PROVE  FALSE
    <3>1. PICK S \in (SUBSET FileNodes) \ {{}} : \A f \in S : FileDependencies(f) \cap S # {}
      BY <2>4
    <3> QED
      BY <2>2, <2>4, <3>1
  <2>5. ASSUME ~Acyclic(FileNodes, FileGraph)
        PROVE  FileCycle
    <3>1. PICK S \in SUBSET FileNodes : S # {} /\ ~(\E f \in S : FileGraph[f] \cap S = {})
      BY <2>5 DEF Acyclic
    <3> QED
      BY <2>3, <3>1
  <2> QED
    BY <2>4, <2>5
<1>2. Acyclic(Present, TargetGraph) <=> ~Cycle
  <2>1. \A t \in Present : TargetGraph[t] = Dependencies(t)
    BY DEF TargetGraph
  <2>2. ASSUME Acyclic(Present, TargetGraph), NEW S \in SUBSET Present, S # {}
        PROVE  \E t \in S : Dependencies(t) \cap S = {}
    BY <2>1, <2>2 DEF Acyclic
  <2>3. ASSUME NEW S \in SUBSET Present, S # {}, \A t \in S : TargetGraph[t] \cap S # {}
        PROVE  Cycle
    BY <2>1, <2>3
  <2>4. ASSUME Acyclic(Present, TargetGraph), Cycle
        PROVE  FALSE
    <3>1. PICK S \in (SUBSET Present) \ {{}} : \A t \in S : Dependencies(t) \cap S # {}
      BY <2>4
    <3> QED
      BY <2>2, <2>4, <3>1
  <2>5. ASSUME ~Acyclic(Present, TargetGraph)
        PROVE  Cycle
    <3>1. PICK S \in SUBSET Present : S # {} /\ ~(\E t \in S : TargetGraph[t] \cap S = {})
      BY <2>5 DEF Acyclic
    <3> QED
      BY <2>3, <3>1
  <2> QED
    BY <2>4, <2>5
<1> HIDE DEF FileCycle, Cycle
<1>3. /\ stage = "file_cycle" => FileCycle
      /\ stage = "cycle" => Cycle
      /\ stage \in Ordered => ~Cycle /\ (project.check => ~FileCycle)
  BY <1>1, <1>2 DEF InputInv, StageInv, FilesAcyclic
<1> QED
  BY <1>3 DEF CyclesFound, Cyclic, Ordered, FileCycle, Cycle

\* gyp reports a cycle of targets, or of files when it looks for one, if there is
\* one, and only then, whichever target it takes first.
THEOREM CyclesAreFound == InputSpec => []CyclesFound
BY CyclesByInv, InputInvHolds, PTL
=============================================================================
