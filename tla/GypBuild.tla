------------------------------ MODULE GypBuild ------------------------------
(***************************************************************************)
(* gyp as a whole: build files are loaded, targets are ordered and their   *)
(* dependencies rewritten, and a generator turns them into steps.          *)
(* Whichever it is, the steps are to run in an order that the dependencies *)
(* of the targets demand.                                                  *)
(***************************************************************************)
EXTENDS NinjaWriter, MakeWriter, AndroidWriter, CMakeWriter, XcodeWriter, MsvsWriter

\* One target of GenerateOutput, of the generator that was chosen.
Write(t) ==
  \/ WriteSpec(t) \/ MakeWrite(t) \/ AndroidWrite(t)
  \/ CMakeWrite(t) \/ XcodeWrite(t) \/ MsvsWrite(t)

\* What building everything builds.
All ==
  CASE generator = "ninja" -> NinjaAll
    [] generator = "make" -> MakeAll
    [] generator = "android" -> AndroidAll
    [] generator = "cmake" -> CMakeAll
    [] generator = "xcode" -> XcodeAll
    [] generator = "msvs" -> MsvsAll

\* The xcode generator makes objects of the steps, which may end in an exception.
Raised ==
  /\ generator = "xcode" /\ stage \in {"write", "done"}
  /\ stage' = "objects"
  /\ UNCHANGED <<loading, flat, zeros, next, deps, build>>

GypNext ==
  \/ InputNext /\ UNCHANGED build
  \/ Generate
  \/ \E t \in ToSet(flat) : Write(t)
  \/ WriteEnds
  \/ Raised

GypSpec == GypInit /\ [][GypNext]_gyp

-----------------------------------------------------------------------------
FilesOf(t, kinds) == {f \in Made(edges) : f[1] = t /\ f[2] \in kinds}

\* From a target that is not linked itself, one comes to what it depends on.
Leading(t) == IF Traversed(t) THEN Dependencies(t) ELSE {}
Unlinked(S) == Reached(S, Leading)

\* What is linked waits for every static library it needs, however many static
\* libraries, which no longer depend on each other, are in between.
LinksComplete ==
  stage = "done" =>
    \A t \in ToSet(flat) : Dict(t).type \in Linkables =>
      \A b \in FilesOf(t, {"binary"}) :
        \A e \in {d \in edges : d.out = b} :
          UNION {FilesOf(s, {"binary"}) :
                   s \in {u \in Unlinked(Dependencies(t)) : Dict(u).type = "static_library"}}
            \subseteq e.needs

\* The order in which the files of one target may be made.
Order(kind) ==
  CASE kind = "action" -> 1
    [] kind = "rule" -> 2
    [] kind = "rule_2" -> 3
    [] kind = "support" -> 4
    [] kind = "copy" -> 5
    [] kind = "object" -> 6
    [] kind = "binary" -> 7
    [] kind = "installed" -> 8
    [] kind = "target" -> 9

\* A file comes before another if its target does in the list, or it is made before
\* the other in the same target.  This leads from no file back to it.
ComesBefore(file, other) ==
  \/ file[1] = other[1] /\ Order(file[2]) < Order(other[2])
  \/ \E j \in DOMAIN flat : flat[j] = other[1] /\ \E i \in 1..(j-1) : flat[i] = file[1]

\* The build can come to its end: no dependency is missing where one is looked
\* up, and neither it nor a step waits for a file that no step makes, nor, through
\* however many others, a step for its own.  Tools
\* that are told names get them from dependencies, without a look whether
\* these are there, and exports that are no dependencies may break that.
BuildNeverStuck ==
  /\ ExportsKept => stage # "unwritten"
  /\ ExportsKept \/ generator \notin {"cmake", "msvs"} =>
       /\ \A e \in edges : \A f \in e.needs : f \in Made(edges) /\ ComesBefore(f, e.out)
       /\ stage = "done" => All \subseteq Made(edges)

\* gyp comes to an end: the main thread misses no notification and does not
\* wait for a process that reported an error, and the targets are ordered,
\* rewritten and written, or an error is reported.
GypEnds == <>(stage \in {"done"} \cup Faults \/ main = "failed")
=============================================================================
