----------------------------- MODULE CMakeWriter -----------------------------
(***************************************************************************)
(* The cmake generator of gyp (generator/cmake.py).  It makes a target of  *)
(* CMake of each target, and of each action, rule and set of copies, and   *)
(* names dependencies between these, without a look at what it wrote       *)
(* before.  That a target is built after those it was made to depend on or *)
(* links is CMake's part.                                                  *)
(***************************************************************************)
EXTENDS BuildSteps

\* WriteTarget takes an executable without sources for "none".
CMakeType(t) ==
  IF Dict(t).type = "executable" /\ ~Dict(t).sources THEN "none" ELSE Dict(t).type

\* WriteActions, WriteRules and WriteCopies: a custom target for each.
CMakeActions(t) == EdgesTo(Actions(t), {})
CMakeRules(t) == EdgesTo(Rules(t), {})
CMakeCopies(t) == EdgesTo(Copies(t), {})

\* WriteTarget has these, the extra_deps, depend on all that the target depends on.
CustomTargets(t) ==
  {Edge(e.out, e.needs \cup TargetsBefore(t)) :
     e \in CMakeActions(t) \cup CMakeRules(t) \cup CMakeCopies(t)}

\* add_library and add_executable, in WriteTarget.
CMakeObjects(t) == EdgesTo(Objects(t), {})

\* target_link_libraries, in WriteTarget.
CMakeBinaryEdges(t) ==
  IF CMakeType(t) = "none" THEN {}
  ELSE {Edge(File(t, "binary"), Objects(t) \cup LinkedBefore(t))}

\* WriteTarget
CMakeWrite(t) ==
  /\ Turn("cmake", t)
  /\ Written(t, CustomTargets(t)
                  \cup Whole(File(t, "target"), TargetsBefore(t) \cup StepFiles(t),
                             CMakeObjects(t) \cup CMakeBinaryEdges(t)), {})

\* What WriteTarget does not exclude from CMake's "all".
CMakeAll == UNION {{File(t, "target")} \cup StepFiles(t) : t \in needed}
=============================================================================
