----------------------------- MODULE MsvsWriter -----------------------------
(***************************************************************************)
(* The msvs generator of gyp (generator/msvs.py): a project of Visual      *)
(* Studio for each target.  A project is built after those it refers to,   *)
(* and in it what is custom before anything is compiled, which is Visual   *)
(* Studio's part.                                                          *)
(***************************************************************************)
EXTENDS BuildSteps

\* _AddActions, _GenerateExternalRules and _AddCopies collect actions by the
\* input they are attached to.
MsvsActions(t) == Actions(t)
MsvsRules(t) == Rules(t)
MsvsCopies(t) == Copies(t)

\* _GenerateActionsForMSBuild and _AddAccumulatedActionsToMSVS make custom build
\* steps of them.
CustomBuilds(t) == EdgesTo(MsvsActions(t) \cup MsvsRules(t) \cup MsvsCopies(t), {})

\* _GetMSBuildSources
MsvsObjects(t) == EdgesTo(Objects(t), Made(CustomBuilds(t)))

\* The linker is given the libraries of the projects referred to.
MsvsOutput(t) ==
  IF Dict(t).type = "none" THEN {}
  ELSE {Edge(File(t, "binary"), Objects(t) \cup Made(CustomBuilds(t)) \cup LinkedBefore(t))}

\* _GetMSBuildProjectReferences, or the dependencies in the solution.
ProjectReferences(t) == TargetsBefore(t)

\* _GenerateProject, for one target.
MsvsWrite(t) ==
  /\ Turn("msvs", t)
  /\ Written(t, Whole(File(t, "target"), ProjectReferences(t),
                      CustomBuilds(t) \cup MsvsObjects(t) \cup MsvsOutput(t)), {})

\* The projects of all solutions.
MsvsAll == {File(t, "target") : t \in needed}
=============================================================================
