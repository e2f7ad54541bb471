----------------------------- MODULE XcodeTurns -----------------------------
(***************************************************************************)
(* What gyp does next when its xcode generator makes objects: the turns of *)
(* GenerateOutput of generator/xcode.py, whatever the objects are.  All    *)
(* that a turn depends on of these is whether an operation on them ended   *)
(* in an exception.  XcodeProjects says what each turn does to them.       *)
(***************************************************************************)
EXTENDS BuildOrder

VARIABLES
  unready,  \* the files whose projects are to be completed, a first and a second time
  xcode     \* the heap; projects by file; targets, with support targets and those that
            \* run them; and ids

control == <<gyp, unready>>

Followed == generator = "xcode" /\ DOMAIN project.contents # {}

Fault == xcode.heap.fault # "none"

\* gyp up to the generator, and other generators.
Elsewhere == ~Fault /\ InputNext /\ UNCHANGED <<build, unready>>

Begin ==
  /\ ~Fault /\ Generate
  /\ unready' = [unready EXCEPT !.first = IF Followed' /\ stage' = "write" THEN loaded ELSE {}]

OneTarget(t) == ~Fault /\ Write(t) /\ UNCHANGED unready

Finishing == ~Fault /\ stage = "write" /\ next > Len(flat) /\ Followed

CompleteOne(f) ==
  /\ Finishing /\ f \in unready.first
  /\ unready' = [first |-> unready.first \ {f}, second |-> IF unready.first = {f} THEN loaded ELSE {}]
  /\ UNCHANGED gyp

IdentifyOne(f) ==
  /\ Finishing /\ f \in unready.second
  /\ unready' = [unready EXCEPT !.second = @ \ {f}]
  /\ UNCHANGED gyp

\* XcodeProject.Write of all projects, or the end of another generator.
WriteAll ==
  /\ ~Fault /\ unready.first \cup unready.second = {}
  /\ WriteEnds /\ UNCHANGED unready

\* An exception in an operation on objects ends gyp.
Abort == Fault /\ Raised /\ UNCHANGED unready

Control ==
  \/ Elsewhere
  \/ Begin
  \/ \E t \in ToSet(flat) : OneTarget(t)
  \/ \E f \in Files : CompleteOne(f) \/ IdentifyOne(f)
  \/ WriteAll
  \/ Abort

TurnsSpec == GypInit /\ unready = [first |-> {}, second |-> {}] /\ [][Control]_control
=============================================================================
