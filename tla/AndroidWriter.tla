---------------------------- MODULE AndroidWriter ----------------------------
(***************************************************************************)
(* The android generator of gyp (generator/android.py), a make file per    *)
(* target for the build system of Android.  That is external: by its rules *)
(* an object waits for LOCAL_ADDITIONAL_DEPENDENCIES and what is linked    *)
(* for its objects and the libraries named, but not for the additional     *)
(* dependencies.                                                           *)
(***************************************************************************)
EXTENDS BuildSteps

\* ComputeDeps: GYP_TARGET_DEPENDENCIES.
TargetDependencies(t) == UNION {outputs[d].output : d \in deps[t]}

\* WriteTargetFlags: LOCAL_STATIC_LIBRARIES and LOCAL_SHARED_LIBRARIES.
LocalLibraries(t) == UNION {outputs[d].link : d \in deps[t]}

\* WriteActions, WriteRules and WriteCopies
AndroidActions(t) == EdgesTo(Actions(t), TargetDependencies(t))
AndroidRules(t) == EdgesTo(Rules(t), TargetDependencies(t))
AndroidCopies(t) == EdgesTo(Copies(t), TargetDependencies(t))

\* LOCAL_ADDITIONAL_DEPENDENCIES
AdditionalDependencies(t) == TargetDependencies(t) \cup StepFiles(t)

\* WriteSources: LOCAL_SRC_FILES and LOCAL_GENERATED_SOURCES.
AndroidObjects(t) == EdgesTo(Objects(t), AdditionalDependencies(t))

\* WriteTarget
AndroidBinaryEdge(t) ==
  Edge(File(t, "binary"),
       IF Dict(t).type = "none" THEN AdditionalDependencies(t)
       ELSE Objects(t) \cup LocalLibraries(t))

\* What Write enters into the tables.
AndroidOutput(t) ==
  [output |-> {File(t, "binary")},
   link |-> IF Dict(t).type \in Libraries THEN {File(t, "binary")} ELSE {}]

\* Write.  A dependency that is not in the tables yet is an exception, and a
\* loadable module one in ComputeOutputParts.
AndroidWrite(t) ==
  /\ Turn("android", t)
  /\ IF ~(deps[t] \subseteq DOMAIN outputs) THEN Refused("unwritten")
     ELSE IF Dict(t).type = "loadable_module" THEN Refused("not_supported")
     ELSE Written(t, AndroidActions(t) \cup AndroidRules(t) \cup AndroidCopies(t)
                       \cup AndroidObjects(t) \cup {AndroidBinaryEdge(t)}, {AndroidOutput(t)})

\* gyp_all_modules.  What no wildcard takes in is not part of it.
AndroidAll ==
  UNION {outputs[t].output : t \in {u \in needed : ~Dict(u).suppressWildcard}}
=============================================================================
