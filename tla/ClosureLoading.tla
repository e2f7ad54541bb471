--------------------------- MODULE ClosureLoading ---------------------------
(***************************************************************************)
(* What gyp promises of loading build files, however it goes about it: the *)
(* files it is given are loaded, and the files that targets of loaded ones *)
(* depend on, each once and no others.  Loading succeeds only if that is   *)
(* all of them, and fails only if one of them cannot be read.              *)
(***************************************************************************)
CONSTANTS
  Files,      \* paths of build files, whether or not they can be read
  Projects    \* what the build files may hold

VARIABLES
  project,    \* the project: given files, files depended on, unreadable files
  files,      \* the files loaded
  outcome     \* "loading", "loaded" or "failed"

vars == <<project, files, outcome>>

\* A set of files that holds the given ones and, with each readable file of
\* its own, the files its targets depend on.
Closed(p, S) ==
  /\ p.roots \subseteq S
  /\ \A f \in S \ p.broken : p.depends[f] \subseteq S

\* The least such set.
Needed(p) == {f \in Files : \A S \in SUBSET Files : Closed(p, S) => f \in S}

Init ==
  /\ project \in Projects
  /\ files = {}
  /\ outcome = "loading"

LoadFile(f) ==
  /\ outcome = "loading"
  /\ f \in Needed(project) \ (files \cup project.broken)
  /\ files' = files \cup {f}
  /\ UNCHANGED <<project, outcome>>

Succeed ==
  /\ outcome = "loading"
  /\ files = Needed(project)
  /\ outcome' = "loaded"
  /\ UNCHANGED <<project, files>>

Fail ==
  /\ outcome = "loading"
  /\ Needed(project) \cap project.broken # {}
  /\ outcome' = "failed"
  /\ UNCHANGED <<project, files>>

Next == (\E f \in Files : LoadFile(f)) \/ Succeed \/ Fail

Spec == Init /\ [][Next]_vars
=============================================================================
