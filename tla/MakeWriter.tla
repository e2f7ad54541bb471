----------------------------- MODULE MakeWriter -----------------------------
(***************************************************************************)
(* The make generator of gyp (generator/make.py) for Linux.  For what a    *)
(* target waits for it looks the targets it depends on up in two global    *)
(* tables, one of the files others may use and one of what they may link.  *)
(***************************************************************************)
EXTENDS BuildSteps

\* ComputeDeps, from target_link_deps and target_outputs.
LinkDeps(t) == UNION {outputs[d].link : d \in deps[t]}
MakeDeps(t) == LinkDeps(t) \cup UNION {outputs[d].output : d \in deps[t]}

\* WriteMakeRule, whether the files are waited for or only come first.
MakeRule(files, inputs) == EdgesTo(files, inputs)

\* WriteActions, WriteRules and WriteCopies name the inputs only.
MakeActions(t) == MakeRule(Actions(t), {})
MakeRules(t) == MakeRule(Rules(t), {})
MakeCopies(t) == MakeRule(Copies(t), {})

\* WriteTarget has all their outputs, the extra outputs, wait for the dependencies.
MakeStepEdges(t) ==
  {Edge(e.out, e.needs \cup MakeDeps(t)) : e \in MakeActions(t) \cup MakeRules(t) \cup MakeCopies(t)}

\* WriteSources: objects wait, in order, for the dependencies and the actions.
MakeObjectEdges(t) == MakeRule(Objects(t), MakeDeps(t) \cup StepFiles(t))

\* WriteTarget: a stamp waits for the dependencies, anything else for what it
\* links, and both for the extra outputs.
MakeBinaryEdges(t) ==
  MakeRule({File(t, "binary")},
           StepFiles(t) \cup
             (IF Dict(t).type = "none" THEN MakeDeps(t) ELSE Objects(t) \cup LinkDeps(t)))

\* WriteTarget: libraries are copied from where they are linked to where they
\* are used; executables are linked there.
Installed(t) == Dict(t).type \in {"shared_library", "loadable_module"}
InstallEdges(t) ==
  IF Installed(t) THEN MakeRule({File(t, "installed")}, {File(t, "binary")}) ELSE {}

\* What Write enters into the tables.
MakeOutput(t) ==
  [output |-> {File(t, IF Installed(t) THEN "installed" ELSE "binary")},
   link |-> IF Dict(t).type \in Libraries THEN {File(t, "binary")} ELSE {}]

\* Write.  A dependency that is not in the tables yet is an exception.
MakeWrite(t) ==
  /\ Turn("make", t)
  /\ IF deps[t] \subseteq DOMAIN outputs
     THEN Written(t, MakeStepEdges(t) \cup MakeObjectEdges(t) \cup MakeBinaryEdges(t)
                       \cup InstallEdges(t), {MakeOutput(t)})
     ELSE Refused("unwritten")

\* What WriteTarget has "all" wait for, of the targets GenerateOutput says.
MakeAll == UNION {outputs[t].output : t \in needed}
=============================================================================
