----------------------------- MODULE BuildOrder -----------------------------
(***************************************************************************)
(* In what order the steps that gyp writes can run, and what building      *)
(* everything runs: what the dependencies between targets demand, whatever *)
(* was done to them and whichever generator writes the build.              *)
(***************************************************************************)
EXTENDS GypBuild

Steps == {"action", "copy", "rule", "rule_2"}
Products == {"object", "binary", "installed", "target"}

\* The files that must be made before those of a set can be.  A chain of steps
\* has at most one for each kind of file of each target.
WithNeeds(S) == S \cup UNION {e.needs : e \in {d \in edges : d.out \in S}}
Before(S) ==
  LET before[n \in Nat] == IF n = 0 THEN S ELSE WithNeeds(before[n - 1])
  IN before[9 * Len(flat)]
Waits(file) == Before(UNION {e.needs : e \in {d \in edges : d.out = file}})

\* A target keeps its order behind what it depends on, but that a static
\* library gives up static libraries that are not hard; the hard ones these
\* export it keeps.
Follows(t) ==
  IF Dict(t).type # "static_library" THEN Dependencies(t)
  ELSE {d \in Dependencies(t) : HardStatic(d) \/ Dict(d).type # "static_library"} \cup
       {d \in Imported(Dependencies(t)) : HardStatic(d)}

\* Without sources of its own, a binary may wait for nothing but what is linked
\* into it: what others wait for through it is then the libraries.
Hollow(t) ==
  /\ Dict(t).type # "none" /\ ~Dict(t).sources
  /\ generator = "make" => StepFiles(t) = {}
  /\ generator \in {"make", "android"}

Passes(t) ==
  IF Hollow(t) THEN {d \in Follows(t) : Dict(d).type = "static_library"} ELSE Follows(t)

FollowsAll(S) == Reached(S, Passes)

\* Nor does it wait for its own actions.
LinkedOnly(t) ==
  \/ generator = "ninja" /\ Dict(t).type \in Linkables /\ ~Dict(t).sources
  \/ generator = "android" /\ Hollow(t)

Precedes(t) == {u \in FollowsAll(Follows(t)) : ~LinkedOnly(u)}

\* What a target makes that is for others.  Of a target of type "none" nothing is linked,
\* and where steps wait for files nothing waits for its objects.
UsedProducts(t) ==
  IF Dict(t).type = "none" /\ generator \in {"ninja", "make", "android"}
  THEN Products \ {"object"} ELSE Products

\* Nothing of a target is compiled before the sources and headers that any
\* target behind it generates are there: through libraries without actions,
\* and past dependencies between static libraries that were dropped.
CompileAfterActions ==
  stage = "done" /\ ExportsKept =>
    \A t \in ToSet(flat) : \A o \in FilesOf(t, {"object"}) :
      \A d \in Precedes(t) : FilesOf(d, Steps) \subseteq Waits(o)

\* An action runs when the targets behind it are built, and so can run them or
\* read what they made.  Where ninja is used that escapes a rule that follows
\* one with many sources and inputs, which waits for nothing.
ActionsAfterDependencies ==
  stage = "done" /\ ExportsKept =>
    \A t \in ToSet(flat) : \A a \in FilesOf(t, Steps) :
      \/ generator = "ninja" /\ Dict(t).steps = "many_rules" /\ a = File(t, "rule_2")
      \/ \A d \in Precedes(t) : FilesOf(d, Steps \cup UsedProducts(d)) \subseteq Waits(a)

\* The targets of the files gyp was called with, and all they depend on, but
\* those that two of the generators leave out because no wildcard takes them in.
Asked ==
  {t \in Deep({u \in ToSet(flat) : BuildFile(u) \in project.roots}) :
     generator \in {"android", "xcode"} => ~Dict(t).suppressWildcard}

\* Building everything builds all that was asked for, up to the last library of
\* which nothing is linked: static libraries no longer wait for each other, and
\* what is linked needs no targets that only generate.
AllBuilds ==
  stage = "done" /\ ExportsKept =>
    \A t \in Asked :
      FilesOf(t, UsedProducts(t) \cup (IF LinkedOnly(t) THEN {} ELSE Steps)) \subseteq Before(All)
=============================================================================
