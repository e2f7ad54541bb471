----------------------------- MODULE XcodeWriter -----------------------------
(***************************************************************************)
(* The xcode generator of gyp (generator/xcode.py, with the objects of     *)
(* xcodeproj_file.py).  A target of Xcode is built when those are built    *)
(* that it depends on, and goes through its phases one by one.             *)
(***************************************************************************)
EXTENDS BuildSteps

\* A PBXNativeTarget and not a PBXAggregateTarget.
Native(t) == Dict(t).type # "none"

\* The phases that run actions and then rules, one after the other.
ActionPhases(t) == EdgesTo(Actions(t), {})
RulePhases(t) ==
  {Edge(f, Made(ActionPhases(t)) \cup (IF f = File(t, "rule_2") THEN {File(t, "rule")} ELSE {})) :
     f \in Rules(t)}
ScriptPhases(t) == ActionPhases(t) \cup RulePhases(t)

\* They have a target to themselves, unless nothing is compiled.
Supported(t) == Native(t) /\ ScriptPhases(t) # {}
Support(t) == IF Supported(t) THEN {File(t, "support")} ELSE {}

\* The support target gets the dependencies of the target it is for.
SupportEdges(t) ==
  IF Supported(t) THEN Whole(File(t, "support"), TargetsBefore(t), ScriptPhases(t)) ELSE {}

\* Phases of scripts, if there is no support target, and copies, come first.
CopyPhases(t) == EdgesTo(Copies(t), {})
FirstPhases(t) == CopyPhases(t) \cup (IF Supported(t) THEN {} ELSE ScriptPhases(t))

\* The phase of sources, and that of frameworks, to which AddDependency of
\* PBXNativeTarget adds libraries.
SourcesPhase(t) == EdgesTo(Objects(t), Made(FirstPhases(t)))
FrameworksPhase(t) ==
  IF Native(t)
  THEN {Edge(File(t, "binary"), Objects(t) \cup Made(FirstPhases(t)) \cup LinkedBefore(t))} ELSE {}

\* One target of GenerateOutput, with what depends on it by AddDependency.
\* A dependency without a target yet, in xcode_targets, is an exception.
XcodeWrite(t) ==
  /\ Turn("xcode", t)
  /\ IF deps[t] \subseteq DOMAIN outputs
     THEN Written(t, SupportEdges(t)
                       \cup Whole(File(t, "target"), TargetsBefore(t) \cup Support(t),
                                  FirstPhases(t) \cup SourcesPhase(t) \cup FrameworksPhase(t)),
                  {"xct"})
     ELSE Refused("unwritten")

\* Finalize1: the target "All" of each project or, in one that does without, the
\* one target that would be in it.
XcodeAll == {File(t, "target") : t \in {u \in needed : ~Dict(u).suppressWildcard}}
=============================================================================
