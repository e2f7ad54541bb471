-------------------------- MODULE BuildFileLoading --------------------------
(***************************************************************************)
(* How gyp loads build files (input.py).  Sequentially, one file after the *)
(* other, calling on to the files each depends on; or in parallel, the     *)
(* default: the main thread farms the files out to a pool of processes,    *)
(* and the pool's thread hands each result to a callback that schedules    *)
(* the files it asks for.  Main thread and callback share the state under  *)
(* one condition variable, which the main thread holds but while it waits. *)
(*                                                                         *)
(* The pool itself is external.  Which of the files due is loaded first,   *)
(* and in which order processes finish, is left open.                      *)
(***************************************************************************)
EXTENDS Integers, Sequences, FiniteSets

CONSTANTS
  Files,      \* paths of build files, whether or not they can be read
  Projects,   \* what the build files may hold
  PoolSize    \* processes in the pool: 8 in the code

ASSUME FilesAssumption == IsFiniteSet(Files)
ASSUME PoolAssumption == PoolSize \in Nat \ {0}

\* Of a project, loading sees the given files, the files that targets of a file
\* depend on, the files that cannot be read, and the option for parallel loading.
ASSUME ProjectsAssumption ==
  \A p \in Projects :
    /\ p.roots \subseteq Files /\ p.roots # {}
    /\ p.depends \in [Files -> SUBSET Files]
    /\ p.broken \subseteq Files
    /\ p.parallel \in BOOLEAN

VARIABLES
  project,        \* the project
  main,           \* where the main thread is
  dependencies,   \* files still to be loaded, or still to be scheduled
  scheduled,      \* files that were scheduled
  pending,        \* parallel calls outstanding
  jobs,           \* the calls made so far: their files and what became of them
  loaded,         \* data['target_build_files']
  error           \* a process reported an error

shared == <<dependencies, scheduled, pending, loaded, error>>
loading == <<project, main, shared, jobs>>

JobStates == {"queued", "running", "good", "bad", "handled", "failed"}
Ended == {"loaded", "failed"}

LoadInit ==
  /\ project \in Projects
  /\ main = "loop"
  /\ dependencies = project.roots
  /\ scheduled = project.roots
  /\ pending = 0
  /\ jobs = <<>>
  /\ loaded = {}
  /\ error = FALSE

-----------------------------------------------------------------------------
(* One after the other (LoadTargetBuildFile with load_dependencies).       *)

\* A file that is loaded already is passed over.
LoadFile(f) ==
  /\ ~project.parallel /\ main = "loop"
  /\ f \in dependencies
  /\ IF f \in loaded
     THEN dependencies' = dependencies \ {f} /\ UNCHANGED <<main, loaded>>
     ELSE /\ loaded' = loaded \cup {f}
          /\ IF f \in project.broken
             THEN main' = "failed" /\ UNCHANGED dependencies
             ELSE /\ dependencies' = (dependencies \ {f}) \cup project.depends[f]
                  /\ UNCHANGED main
  /\ UNCHANGED <<project, scheduled, pending, jobs, error>>

Finish ==
  /\ ~project.parallel /\ main = "loop"
  /\ dependencies = {}
  /\ main' = "loaded"
  /\ UNCHANGED <<project, shared, jobs>>

-----------------------------------------------------------------------------
(* The main thread (LoadTargetBuildFilesParallel).                         *)

Submit(f) ==
  /\ project.parallel /\ main = "loop"
  /\ ~error
  /\ f \in dependencies
  /\ dependencies' = dependencies \ {f}
  /\ pending' = pending + 1
  /\ jobs' = Append(jobs, [file |-> f, state |-> "queued"])
  /\ UNCHANGED <<project, main, scheduled, loaded, error>>

Wait ==
  /\ project.parallel /\ main = "loop"
  /\ ~error
  /\ dependencies = {} /\ pending > 0
  /\ main' = "waiting"
  /\ UNCHANGED <<project, shared, jobs>>

\* It was notified, and gets the lock back.
Resume ==
  /\ main = "woken"
  /\ main' = "loop"
  /\ UNCHANGED <<project, shared, jobs>>

\* Defect: calls that may still bring new files are not waited for.
LeaveEarly ==
  /\ project.parallel /\ main = "loop"
  /\ error \/ dependencies = {}
  /\ main' = "joining"
  /\ UNCHANGED <<project, shared, jobs>>

\* The loop ends, the condition is released and the pool closed.
Leave ==
  /\ project.parallel /\ main = "loop"
  /\ error \/ (dependencies = {} /\ pending = 0)
  /\ main' = "joining"
  /\ UNCHANGED <<project, shared, jobs>>

\* pool.join returns when the last result was handled.
Join ==
  /\ main = "joining"
  /\ \A i \in DOMAIN jobs : jobs[i].state \in {"handled", "failed"}
  /\ main' = IF error THEN "failed" ELSE "loaded"
  /\ UNCHANGED <<project, shared, jobs>>

-----------------------------------------------------------------------------
(* The processes of the pool, and the callback.                            *)

\* A process gets a call, with what target_build_files holds by then; a file
\* it finds there makes it return False.
Take(i) ==
  /\ jobs[i].state = "queued"
  /\ Cardinality({j \in DOMAIN jobs : jobs[j].state = "running"}) < PoolSize
  /\ jobs' = [jobs EXCEPT ![i].state = IF jobs[i].file \in loaded THEN "bad" ELSE "running"]
  /\ UNCHANGED <<project, main, shared>>

\* CallLoadTargetBuildFile returns None if it caught an exception.
Return(i) ==
  /\ jobs[i].state = "running"
  /\ jobs' = [jobs EXCEPT ![i].state = IF jobs[i].file \in project.broken THEN "bad" ELSE "good"]
  /\ UNCHANGED <<project, main, shared>>

Unlocked == main # "loop"

Notified == IF main = "waiting" THEN "woken" ELSE main

\* Defect: the main thread is not told of an error.
CallbackFailsSilently(i) ==
  /\ jobs[i].state = "bad"
  /\ Unlocked
  /\ error' = TRUE
  /\ jobs' = [jobs EXCEPT ![i].state = "failed"]
  /\ UNCHANGED <<project, main, dependencies, scheduled, pending, loaded>>

\* LoadTargetBuildFileCallback, for a result that is None or False.
CallbackFails(i) ==
  /\ jobs[i].state = "bad"
  /\ Unlocked
  /\ error' = TRUE
  /\ jobs' = [jobs EXCEPT ![i].state = "failed"]
  /\ main' = Notified
  /\ UNCHANGED <<project, dependencies, scheduled, pending, loaded>>

\* Defect: a file is scheduled whenever another one depends on it.
CallbackSchedulesAgain(i) ==
  LET f == jobs[i].file
      new == project.depends[f]
  IN /\ jobs[i].state = "good"
     /\ Unlocked
     /\ loaded' = loaded \cup {f}
     /\ scheduled' = scheduled \cup new
     /\ dependencies' = dependencies \cup new
     /\ pending' = pending - 1
     /\ jobs' = [jobs EXCEPT ![i].state = "handled"]
     /\ main' = Notified
     /\ UNCHANGED <<project, error>>

Callback(i) ==
  LET f == jobs[i].file
      new == project.depends[f] \ scheduled
  IN /\ jobs[i].state = "good"
     /\ Unlocked
     /\ loaded' = loaded \cup {f}
     /\ scheduled' = scheduled \cup new
     /\ dependencies' = dependencies \cup new
     /\ pending' = pending - 1
     /\ jobs' = [jobs EXCEPT ![i].state = "handled"]
     /\ main' = Notified
     /\ UNCHANGED <<project, error>>

LoadNext ==
  \/ \E f \in Files : LoadFile(f) \/ Submit(f)
  \/ Finish \/ Wait \/ Resume \/ Leave \/ Join
  \/ \E i \in DOMAIN jobs : Take(i) \/ Return(i) \/ CallbackFails(i) \/ Callback(i)

LoadSpec == LoadInit /\ [][LoadNext]_loading

-----------------------------------------------------------------------------
\* Every variable holds a value of its type.
LoadTypeOK ==
  /\ project \in Projects
  /\ main \in {"loop", "waiting", "woken", "joining"} \cup Ended
  /\ dependencies \in SUBSET Files
  /\ scheduled \in SUBSET Files
  /\ pending \in Nat
  /\ jobs \in Seq([file : Files, state : JobStates])
  /\ loaded \in SUBSET Files
  /\ error \in BOOLEAN

\* No file is loaded by two processes, though files depend on each other in
\* cycles and results come in while others are scheduled: so no process finds
\* its file loaded already, which would be taken for an error.
LoadsOnce ==
  /\ \A i, j \in DOMAIN jobs : jobs[i].file = jobs[j].file => i = j
  /\ \A i \in DOMAIN jobs : jobs[i].state # "handled" => jobs[i].file \notin loaded

\* Both ways of loading do what ClosureLoading says, so they come to the same
\* files.  A file that is being read when its process fails does not count.
Closure == INSTANCE ClosureLoading WITH
  files <- loaded \ project.broken,
  outcome <- IF main \in Ended THEN main ELSE "loading"

LoadingSpec == Closure!Spec
=============================================================================
