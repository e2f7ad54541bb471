----------------------------- MODULE BuildSteps -----------------------------
(***************************************************************************)
(* What the generators of gyp have in common: gyp_main (__init__.py) gives *)
(* each format the targets in the order of Load, and the generator writes, *)
(* one target after the other, the steps that build it, with the files     *)
(* each step must wait for.                                                *)
(*                                                                         *)
(* A file is what a target's action, copy or rule makes, its object, its   *)
(* binary, the installed copy of that or, where the build tool goes by     *)
(* whole targets, the target itself or the target that is to support it.   *)
(* The absence of a file is the empty set.  The tool that builds is        *)
(* external: it runs a step at any time after the files it waits for are   *)
(* there.                                                                  *)
(***************************************************************************)
EXTENDS GypInput

VARIABLES
  generator,   \* the format that is generated, once it is chosen
  needed,      \* the targets that building all is to build
  outputs,     \* target -> what its generator keeps of a target it has written
  edges        \* the steps written: the file made and the files waited for

build == <<generator, needed, outputs, edges>>
gyp == <<loading, input, build>>

GypInit ==
  /\ InputInit
  /\ generator = "none"
  /\ needed = {}
  /\ outputs = <<>>
  /\ edges = {}

-----------------------------------------------------------------------------
(* What "all" is: a build file's targets, and all they depend on.          *)

\* A static library still has the dependencies it gave up in dependencies_original.
OriginalDependencies(t) == IF Dict(t).type = "static_library" THEN Dependencies(t) ELSE {}
ListedDependencies(t) == deps[t] \cup OriginalDependencies(t)

\* DeepDependencyTargets, with the roots.
DeepDependencyTargets(roots) == Reached(roots, ListedDependencies)

\* Defect: the dependencies that were given up are not looked at.
DeepDependencyTargetsNow(roots) ==
  LET DependenciesNow(t) == deps[t] IN Reached(roots, DependenciesNow)

BuildFileTargets(f) == {t \in ToSet(flat) : BuildFile(t) = f}

\* Defect: all is what is left of the dependencies.
AllTargetsNow(files) == DeepDependencyTargetsNow(UNION {BuildFileTargets(f) : f \in files})

\* AllTargets, of all these files.
AllTargets(files) == DeepDependencyTargets(UNION {BuildFileTargets(f) : f \in files})

\* Those of the files gyp was called with or, where each file has a project
\* or a solution of its own, of every file.
NeededBy(format) == AllTargets(IF format \in {"xcode", "msvs"} THEN loaded ELSE project.roots)

\* GenerateOutput begins with one format of options.formats.  Load runs for each
\* format, with one result for all of these generators, so that the choice may
\* come behind it.
Generate ==
  /\ stage = "generate"
  /\ \E format \in project.formats :
       /\ generator' = format
       /\ needed' = NeededBy(format)
  /\ stage' = "write"
  /\ UNCHANGED <<loading, flat, zeros, next, deps, outputs, edges>>

-----------------------------------------------------------------------------
File(t, what) == <<t, what>>
Edge(file, waits) == [out |-> file, needs |-> waits]
EdgesTo(files, waits) == {Edge(f, waits) : f \in files}
Made(es) == {e.out : e \in es}

\* What a target's actions, rules and copies make, and its sources.
Actions(t) == IF Dict(t).steps = "action" THEN {File(t, "action")} ELSE {}
Rules(t) ==
  IF Dict(t).steps \in {"rules", "many_rules"} THEN {File(t, "rule"), File(t, "rule_2")} ELSE {}
Copies(t) == IF Dict(t).steps = "copy" THEN {File(t, "copy")} ELSE {}
StepFiles(t) == Actions(t) \cup Rules(t) \cup Copies(t)
Objects(t) == IF Dict(t).sources THEN {File(t, "object")} ELSE {}

\* Libraries that a linker is given the files of.
Libraries == {"static_library", "shared_library"}

-----------------------------------------------------------------------------
(* Some tools build whole targets, each when those are built that it is    *)
(* said to depend on.                                                      *)

TargetsBefore(t) == {File(d, "target") : d \in deps[t]}

\* All the steps es of a whole wait for what is before it, and it for all of them.
Whole(whole, before, es) ==
  {Edge(e.out, e.needs \cup before) : e \in es} \cup {Edge(whole, Made(es) \cup before)}

\* The binaries among them that a linker is given.
LinkedBefore(t) ==
  IF Dict(t).type \notin Linkables THEN {}
  ELSE {File(d, "binary") : d \in {u \in deps[t] : Dict(u).type \in Libraries}}

-----------------------------------------------------------------------------
\* It is the turn of a target.
Turn(format, t) ==
  /\ stage = "write" /\ generator = format
  /\ next <= Len(flat) /\ t = flat[next]

\* A target is written, with the steps es, and kept as those in record say.
Written(t, es, record) ==
  /\ next' = next + 1
  /\ edges' = edges \cup es
  /\ outputs' = IF record = {} THEN outputs
                ELSE [u \in DOMAIN outputs \cup {t} |->
                        IF u = t THEN CHOOSE r \in record : TRUE ELSE outputs[u]]
  /\ UNCHANGED <<loading, stage, flat, zeros, deps, generator, needed>>

\* The generator ends in an exception.
Refused(fault) == Fails(fault) /\ UNCHANGED <<loading, build>>

WriteEnds ==
  /\ stage = "write"
  /\ next > Len(flat)
  /\ stage' = "done"
  /\ UNCHANGED <<loading, flat, zeros, next, deps, build>>
=============================================================================
