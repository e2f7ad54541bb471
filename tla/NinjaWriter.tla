----------------------------- MODULE NinjaWriter -----------------------------
(***************************************************************************)
(* The ninja generator of gyp (generator/ninja.py) for Linux.  What a      *)
(* target must wait for it takes from the Target objects of those it       *)
(* depends on, which it has as far as they were written before.  A stamp   *)
(* that stands for several files is the set of these files.                *)
(***************************************************************************)
EXTENDS BuildSteps

-----------------------------------------------------------------------------
(* What others may ask of a Target.                                        *)

\* A Target object: of its steps, in this order, what is to be waited for.
TargetObject(type, preaction, precompile, actions, binary) ==
  [type |-> type, preaction |-> preaction, precompile |-> precompile,
   actions |-> actions, binary |-> binary]

FinalOutput(o) == IF o.binary # {} THEN o.binary ELSE o.actions
PreActionInput(o) == IF FinalOutput(o) # {} THEN FinalOutput(o) ELSE o.preaction
PreCompileInput(o) == IF o.actions # {} THEN o.actions ELSE o.precompile

Linkable(o) == o.type \in Libraries

\* The dependencies that have outputs, and what f says of them.
Outputs(t) == {outputs[d] : d \in deps[t] \cap DOMAIN outputs}
AllOf(os, f(_)) == UNION {f(o) : o \in os}

-----------------------------------------------------------------------------
(* What WriteSpec writes for one target.                                   *)

\* WriteActions
NinjaActions(t, prebuild) == EdgesTo(Actions(t), prebuild)

\* WriteRules.  A first rule with many sources and inputs leaves what its
\* target waits for to a stamp of its inputs, and the second rule then waits
\* for nothing.
NinjaRules(t, prebuild) ==
  {Edge(f, IF Dict(t).steps = "many_rules" /\ f = File(t, "rule_2") THEN {} ELSE prebuild) :
     f \in Rules(t)}

\* WriteCopies
NinjaCopies(t, prebuild) == EdgesTo(Copies(t), prebuild)

\* Defect: actions wait for nothing.
ActionsRulesCopiesAtOnce(t, prebuild) ==
  NinjaActions(t, {}) \cup NinjaRules(t, prebuild) \cup NinjaCopies(t, prebuild)

\* WriteActionsRulesCopies
ActionsRulesCopies(t, prebuild) ==
  NinjaActions(t, prebuild) \cup NinjaRules(t, prebuild) \cup NinjaCopies(t, prebuild)

\* WriteSourcesForArch
NinjaObjects(t, predepends) == EdgesTo(Objects(t), predepends)

\* WriteLinkForArch: the libraries that go into the link, and the rest there is.
LinkWaits(os, objects) == objects \cup AllOf(os, FinalOutput)
Link(t, os, objects) == Edge(File(t, "binary"), LinkWaits(os, objects))

\* Defect: every target of a library type has a binary.
BinaryAlways(t, objects, compileDeps) ==
  LET file == File(t, "binary")
  IN IF Dict(t).type = "none"
     THEN [type |-> "none", binary |-> compileDeps, edges |-> {}]
     ELSE [type |-> Dict(t).type, binary |-> {file},
           edges |-> IF objects = {} THEN {} ELSE {Link(t, Outputs(t), objects)}]

\* WriteTarget and WriteLink: the binary, a type and the step that makes it.
\* Without objects or libraries the binary is what the target waited for.
Binary(t, objects, compileDeps) ==
  LET os == Outputs(t)
      file == File(t, "binary")
      type == Dict(t).type
  IN IF type = "none" \/ (objects = {} /\ ~\E o \in os : Linkable(o))
     THEN [type |-> "none", binary |-> compileDeps, edges |-> {}]
     ELSE [type |-> type, binary |-> {file},
           edges |-> {IF type = "static_library" THEN Edge(file, objects \cup compileDeps)
                      ELSE Link(t, os, objects)}]

\* WriteSpec, for one target of GenerateOutputForConfig.  An object waits for
\* the target's own actions or, without any, for those of the targets it
\* depends on.
WriteSpec(t) ==
  LET os == Outputs(t)
      preaction == AllOf(os, PreActionInput)
      precompile == AllOf(os, PreCompileInput)
      actions == StepFiles(t)
      waited == IF actions # {} THEN actions ELSE preaction
      b == Binary(t, Objects(t), waited)
  IN /\ Turn("ninja", t)
     /\ Written(t, ActionsRulesCopies(t, preaction) \cup b.edges
                     \cup NinjaObjects(t, IF actions # {} THEN actions ELSE precompile),
                IF b.binary = {} THEN {}
                ELSE {TargetObject(b.type, preaction, precompile, actions, b.binary)})

\* all_outputs, of GenerateOutputForConfig.
NinjaAll == AllOf({outputs[t] : t \in needed \cap DOMAIN outputs}, FinalOutput)
=============================================================================
