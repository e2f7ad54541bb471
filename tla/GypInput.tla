------------------------------ MODULE GypInput ------------------------------
(***************************************************************************)
(* What gyp makes of the build files it has loaded (Load in input.py): it  *)
(* checks the files for cycles, puts the targets in an order in which all  *)
(* come after their dependencies, drops those nobody asked for, and then   *)
(* rewrites the dependencies, so that static libraries do not wait for one *)
(* another and what links them gets all of them.                           *)
(*                                                                         *)
(* A target is named by its file and its name.  Of its dictionary the      *)
(* model keeps what decides about order, with lists as sets.               *)
(***************************************************************************)
EXTENDS BuildFileLoading, SequencesExt

CONSTANT Targets   \* names of targets, defined or not, each <<file, name>>

\* The generators there are, which a project may ask for.
Formats == {"ninja", "make", "android", "cmake", "xcode", "msvs"}

BuildFile(t) == t[1]

TargetTypes == {"executable", "loadable_module", "shared_library", "static_library", "none"}

\* linkable_types
Linkables == {"executable", "loadable_module", "shared_library"}

\* deps is dependencies and wild the files of which it names all targets, without
\* is the list "dependencies!" and exports is export_dependent_settings; hard is
\* hard_dependency, traverse dependencies_traverse, linkOnly link_dependency and
\* pruneSelf prune_self_dependency; sources says whether the target compiles
\* anything, and steps what actions, rules and copies it has.
TargetDicts ==
  [type : TargetTypes, deps : SUBSET Targets, wild : SUBSET Files, without : SUBSET Targets,
   exports : SUBSET Targets, hard : BOOLEAN, traverse : BOOLEAN, linkOnly : BOOLEAN,
   pruneSelf : BOOLEAN, suppressWildcard : BOOLEAN, sources : BOOLEAN,
   steps : {"none", "action", "rules", "many_rules", "copy"}]

ASSUME TargetsAssumption ==
  \A p \in Projects :
    /\ DOMAIN p.targets \subseteq Targets /\ IsFiniteSet(DOMAIN p.targets)
    /\ \A t \in DOMAIN p.targets : p.targets[t] \in TargetDicts
    /\ \A t \in Targets : BuildFile(t) \in Files
    /\ \A t \in DOMAIN p.targets :
         {BuildFile(d) : d \in p.targets[t].deps} \cup p.targets[t].wild
           \subseteq p.depends[BuildFile(t)]
    /\ p.wanted \subseteq Targets
    /\ p.check \in BOOLEAN
    /\ p.formats \subseteq Formats

VARIABLES
  stage,   \* what Load is about
  flat,    \* flat_list
  zeros,   \* in_degree_zeros
  next,    \* the index in flat of the next target
  deps     \* target -> its dependencies now

input == <<stage, flat, zeros, next, deps>>

Faults == {"exports", "wildcard", "not_found", "file_cycle", "cycle", "unknown_target",
           "unwritten", "not_supported", "objects"}
Stages == {"load", "files", "targets", "adjust", "generate", "write", "done"} \cup Faults

Dict(t) == project.targets[t]

\* BuildTargetsDict
Present == {t \in DOMAIN project.targets : BuildFile(t) \in loaded}

InputInit ==
  /\ LoadInit
  /\ stage = "load"
  /\ flat = <<>>
  /\ zeros = {}
  /\ next = 1
  /\ deps = [t \in Targets |-> {}]

-----------------------------------------------------------------------------
(* The links between targets, as the files give them and as Load resolves  *)
(* them before it builds a graph.                                          *)

\* RemoveSelfDependencies and RemoveLinkDependenciesFromNoneTargets, on one of
\* the sections that link to other targets.
Pruned(t, section) ==
  {d \in section :
     /\ Dict(t).pruneSelf => d # t
     /\ Dict(t).type = "none" /\ d \in Present => ~Dict(d).linkOnly}

\* ExpandWildcardDependencies
Wild(t) == {d \in Present : BuildFile(d) \in Dict(t).wild /\ ~Dict(d).suppressWildcard}

\* An exclusion list works on its own section only.
Dependencies(t) == Pruned(t, Dict(t).deps \cup Wild(t)) \ Dict(t).without
Exports(t) == Pruned(t, Dict(t).exports)

FileNodes == {BuildFile(t) : t \in Present}

\* What a lookup of a target, or of the targets of a file, does not find.
Unresolved(t) ==
  \/ Dict(t).type = "none" /\ ~(Dict(t).deps \subseteq Present)
  \/ ~(Dict(t).wild \subseteq FileNodes)

-----------------------------------------------------------------------------
(* The graph of files, and then that of targets.                           *)

FileDependencies(f) ==
  {BuildFile(d) : d \in UNION {Dependencies(t) : t \in {u \in Present : BuildFile(u) = f}}} \ {f}

Nodes == IF stage = "files" THEN FileNodes ELSE Present
DependenciesOf(n) == IF stage = "files" THEN FileDependencies(n) ELSE Dependencies(n)

Fails(fault) == stage' = fault /\ UNCHANGED <<flat, zeros, next, deps>>

\* BuildDependencyList, up to FlattenToList.
BuildDependencyList ==
  IF \E t \in Present : ~(Dependencies(t) \subseteq Present) THEN Fails("not_found")
  ELSE /\ stage' = "targets"
       /\ flat' = <<>>
       /\ zeros' = {t \in Present : Dependencies(t) = {}}
       /\ deps' = [t \in Targets |-> IF t \in Present THEN Dependencies(t) ELSE {}]
       /\ UNCHANGED next

\* The targets of all files are collected, and their files checked if asked for.
ReadTargets ==
  /\ stage = "load" /\ main = "loaded"
  /\ IF \E t \in Present : ~(Dict(t).exports \subseteq Dict(t).deps) THEN Fails("exports")
     ELSE IF \E t \in Present : BuildFile(t) \in Dict(t).wild THEN Fails("wildcard")
     ELSE IF \E t \in Present : Unresolved(t) THEN Fails("not_found")
     ELSE IF ~project.check THEN BuildDependencyList
     ELSE IF \E f \in FileNodes : ~(FileDependencies(f) \subseteq FileNodes)
     THEN Fails("not_found")
     ELSE /\ stage' = "files"
          /\ zeros' = {f \in FileNodes : FileDependencies(f) = {}}
          /\ UNCHANGED <<flat, next, deps>>
  /\ UNCHANGED loading

\* Defect: a node is taken when one of its dependencies was.
FlattenEagerly(n) ==
  /\ stage \in {"files", "targets"}
  /\ n \in zeros
  /\ flat' = Append(flat, n)
  /\ zeros' = (zeros \ {n}) \cup
       {m \in Nodes : n \in DependenciesOf(m) /\ m \notin ToSet(flat')}
  /\ UNCHANGED <<loading, stage, next, deps>>

\* One round of FlattenToList, which takes any node without dependencies that
\* are not in the list.
Flatten(n) ==
  /\ stage \in {"files", "targets"}
  /\ n \in zeros
  /\ flat' = Append(flat, n)
  /\ zeros' = (zeros \ {n}) \cup
       {m \in Nodes : n \in DependenciesOf(m) /\ DependenciesOf(m) \subseteq ToSet(flat')}
  /\ UNCHANGED <<loading, stage, next, deps>>

\* VerifyNoGYPFileCircularDependencies, from the list on.
FilesFlattened ==
  /\ stage = "files" /\ zeros = {}
  /\ IF Len(flat) # Cardinality(FileNodes) THEN Fails("file_cycle") ELSE BuildDependencyList
  /\ UNCHANGED loading

\* What there is to be found from a set, when a target that is found leads to others,
\* defined or not: the least set closed under that.
Reached(S, Leads(_)) ==
  LET named == S \cup UNION {Leads(t) : t \in Present}
      closed == {T \in SUBSET named : S \subseteq T /\ \A t \in T \cap Present : Leads(t) \subseteq T}
  IN {t \in named : \A T \in closed : t \in T}

\* DeepDependencies, of all targets of a set, with these.
Deep(S) == Reached(S, Dependencies)

\* What s has of W, in its order.
Rank(K, i) == Cardinality({j \in K : j <= i})
Selection(s, W) ==
  LET K == {i \in DOMAIN s : s[i] \in W}
  IN [n \in 1..Cardinality(K) |-> s[CHOOSE i \in K : Rank(K, i) = n]]

\* PruneUnwantedTargets
PruneUnwanted ==
  IF project.wanted = {} THEN flat ELSE Selection(flat, Deep(project.wanted))

\* _AddImportedDependencies
Imported(S) == Reached(S, Exports)

\* DoDependentSettings looks up, in the targets kept, all that a target imports.
ImportsFound(kept) == \A t \in kept : Imported(Dependencies(t)) \subseteq kept

\* The list is as far as it goes: targets are dropped, and settings handed on.
KeepWanted ==
  IF ~(project.wanted \subseteq ToSet(flat)) THEN Fails("unknown_target")
  ELSE IF ~ImportsFound(ToSet(PruneUnwanted)) THEN Fails("not_found")
  ELSE stage' = "adjust" /\ flat' = PruneUnwanted /\ UNCHANGED <<zeros, next, deps>>

\* Defect: the list is not compared with the targets.
TargetsFlattenedUnchecked ==
  /\ stage = "targets" /\ zeros = {}
  /\ KeepWanted
  /\ UNCHANGED loading

\* BuildDependencyList, from the list on, and what Load does with that.
TargetsFlattened ==
  /\ stage = "targets" /\ zeros = {}
  /\ IF Len(flat) # Cardinality(Present) THEN Fails("cycle") ELSE KeepWanted
  /\ UNCHANGED loading

-----------------------------------------------------------------------------
(* AdjustStaticLibraryDependencies.  The dependencies it follows are those *)
(* of the graph, not the ones it has rewritten.                            *)

\* _LinkDependenciesInternal: what is linked already is not looked at, or
\* looked into, again.
Included(t) == Dict(t).type \notin {"executable", "loadable_module"}
Traversed(t) == Dict(t).type \notin Linkables /\ (Dict(t).type = "none" => Dict(t).traverse)

LinkedFrom(t) == IF Traversed(t) THEN {d \in Dependencies(t) : Included(d)} ELSE {}

\* Defect: it follows the dependencies as they were rewritten.
LinkDependenciesNow(t) ==
  LET Follow(S) == S \cup {d \in UNION {deps[u] : u \in {v \in S : Traversed(v)}} : Included(d)}
  IN Follow(Follow(Follow({d \in deps[t] : Included(d)})))

\* DependenciesToLinkAgainst
LinkDependencies(t) == Reached({d \in Dependencies(t) : Included(d)}, LinkedFrom)

HardStatic(d) == Dict(d).type = "static_library" /\ Dict(d).hard

\* Defect: what dependencies export is left out.
AdjustedWithoutExports(t) ==
  CASE Dict(t).type = "static_library" ->
         {d \in Dependencies(t) : HardStatic(d) \/ Dict(d).type # "static_library"}
    [] Dict(t).type \in Linkables -> deps[t] \cup LinkDependencies(t)
    [] OTHER -> deps[t]

Adjusted(t) ==
  CASE Dict(t).type = "static_library" ->
         {d \in Imported(Dependencies(t)) :
            HardStatic(d) \/ (Dict(d).type # "static_library" /\ d \in deps[t])}
    [] Dict(t).type \in Linkables -> deps[t] \cup LinkDependencies(t)
    [] OTHER -> deps[t]

Adjust ==
  /\ stage = "adjust"
  /\ next <= Len(flat)
  /\ deps' = [deps EXCEPT ![flat[next]] = Adjusted(flat[next])]
  /\ next' = next + 1
  /\ UNCHANGED <<loading, stage, flat, zeros>>

AdjustEnds ==
  /\ stage = "adjust"
  /\ next > Len(flat)
  /\ stage' = "generate"
  /\ next' = 1
  /\ UNCHANGED <<loading, flat, zeros, deps>>

InputNext ==
  \/ LoadNext /\ UNCHANGED input
  \/ ReadTargets
  \/ \E n \in zeros : Flatten(n)
  \/ FilesFlattened \/ TargetsFlattened
  \/ Adjust \/ AdjustEnds

InputSpec == InputInit /\ [][InputNext]_<<loading, input>>

-----------------------------------------------------------------------------
\* Exports are compared with the dependencies before exclusion lists are applied,
\* each to its own section: a target may export one it no longer depends on.
ExportsKept == \A t \in Present : Exports(t) \subseteq Dependencies(t)

\* In every order in which targets may be taken, the list that gyp goes by has
\* each once, behind all it depends on: while it grows, when it was pruned,
\* and with the dependencies that adjusting static libraries added, in the
\* middle of which it goes through the same list.  That takes exports that
\* are dependencies still.
FlatOrdered ==
  stage \in {"targets", "adjust", "generate", "write", "done"} /\ ExportsKept =>
    \A i \in DOMAIN flat :
      /\ \A j \in DOMAIN flat : flat[i] = flat[j] => i = j
      /\ \A d \in deps[flat[i]] : \E j \in 1..(i-1) : flat[j] = d

\* Some set of nodes has a dependency within it for each of its members.
Cyclic(N, D(_)) == \E S \in (SUBSET N) \ {{}} : \A n \in S : D(n) \cap S # {}

\* Whatever the order, a cycle is reported if and only if there is one, of
\* targets or, when asked for, of different files: with targets that depend
\* on each other across files the first check may find one the second does not.
CyclesFound ==
  LET TargetDependencies(t) == Dependencies(t)
  IN /\ stage = "file_cycle" => Cyclic(FileNodes, FileDependencies)
     /\ stage = "cycle" => Cyclic(Present, TargetDependencies)
     /\ stage \in {"adjust", "generate", "write", "done"} =>
          /\ ~Cyclic(Present, TargetDependencies)
          /\ project.check => ~Cyclic(FileNodes, FileDependencies)
=============================================================================
