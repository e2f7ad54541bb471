---------------------- MODULE BuildFileLoading_proofs ----------------------
(***************************************************************************)
(* For any set of build files, any way in which they depend on each other  *)
(* and any size of the pool: no file is loaded twice, and both ways of     *)
(* loading implement ClosureLoading.                                       *)
(***************************************************************************)
EXTENDS BuildFileLoading, FiniteSetTheorems, TLAPS

Jobs == [file : Files, state : JobStates]
Needed == Closure!Needed(project)

\* The calls that are outstanding.
Outstanding == {i \in DOMAIN jobs : jobs[i].state # "handled"}

\* In parallel, a file that was scheduled is either still to be submitted or has
\* its job; only handled jobs count as loaded, and the others are outstanding.
Submissions ==
  /\ \A i \in DOMAIN jobs : jobs[i].file \in scheduled \ dependencies
  /\ \A f \in scheduled \ dependencies : \E i \in DOMAIN jobs : jobs[i].file = f
  /\ dependencies \subseteq scheduled
  /\ \A i \in DOMAIN jobs : jobs[i].state = "handled" => jobs[i].file \in loaded
  /\ \A f \in loaded : \E i \in DOMAIN jobs : jobs[i].file = f /\ jobs[i].state = "handled"
  /\ IsFiniteSet(Outstanding)
  /\ pending = Cardinality(Outstanding)

\* What was scheduled is needed, and is all that the loaded files depend on; and
\* a job fails only if its file cannot be read.
Results ==
  /\ project.roots \subseteq scheduled
  /\ scheduled \subseteq Needed
  /\ \A i \in DOMAIN jobs :
       /\ jobs[i].state \in {"good", "handled"} => jobs[i].file \notin project.broken
       /\ jobs[i].state = "handled" => project.depends[jobs[i].file] \subseteq scheduled
       /\ jobs[i].state \in {"bad", "failed"} => jobs[i].file \in project.broken
       /\ jobs[i].state = "failed" => error
  /\ error => Needed \cap project.broken # {}

\* The main thread joins the pool after an error, or when nothing is left to do,
\* and goes on when every result was handled.
Endings ==
  /\ main = "joining" => error \/ (dependencies = {} /\ pending = 0)
  /\ main \in Ended => \A i \in DOMAIN jobs : jobs[i].state \in {"handled", "failed"}

Parallel == project.parallel => Submissions /\ Results /\ Endings

\* One after the other, a file that is needed is either loaded or on the way to be.
Sequential ==
  ~project.parallel =>
    /\ jobs = <<>>
    /\ main \in {"loop"} \cup Ended
    /\ project.roots \subseteq dependencies \cup loaded
    /\ dependencies \cup loaded \subseteq Needed
    /\ \A f \in loaded \ project.broken : project.depends[f] \subseteq dependencies \cup loaded
    /\ main # "failed" => loaded \cap project.broken = {}

LoadInv == LoadTypeOK /\ LoadsOnce /\ Parallel /\ Sequential

-----------------------------------------------------------------------------
(* What is needed.                                                         *)

LEMMA RootsNeeded ==
  ASSUME NEW p \in Projects
  PROVE  p.roots \subseteq Closure!Needed(p)
BY ProjectsAssumption DEF Closure!Needed, Closure!Closed

LEMMA DependsNeeded ==
  ASSUME NEW p \in Projects, NEW f \in Closure!Needed(p), f \notin p.broken
  PROVE  p.depends[f] \subseteq Closure!Needed(p)
BY ProjectsAssumption DEF Closure!Needed, Closure!Closed

\* A set of needed files that is closed holds all needed files.
LEMMA ClosedIsNeeded ==
  ASSUME NEW p \in Projects, NEW S \in SUBSET Files,
         Closure!Closed(p, S), S \subseteq Closure!Needed(p)
  PROVE  S = Closure!Needed(p)
BY DEF Closure!Needed

-----------------------------------------------------------------------------
(* What the actions do to the jobs.                                        *)

LEMMA JobAppended ==
  ASSUME jobs \in Seq(Jobs), NEW job \in Jobs, jobs' = Append(jobs, job)
  PROVE  /\ jobs' \in Seq(Jobs)
         /\ DOMAIN jobs' = DOMAIN jobs \cup {Len(jobs) + 1}
         /\ Len(jobs) + 1 \notin DOMAIN jobs
         /\ \A i \in DOMAIN jobs : jobs'[i] = jobs[i]
         /\ jobs'[Len(jobs) + 1] = job
OBVIOUS

LEMMA JobMoved ==
  ASSUME jobs \in Seq(Jobs), NEW i \in DOMAIN jobs, NEW s \in JobStates,
         jobs' = [jobs EXCEPT ![i].state = s]
  PROVE  /\ jobs' \in Seq(Jobs)
         /\ DOMAIN jobs' = DOMAIN jobs
         /\ \A j \in DOMAIN jobs : jobs'[j].file = jobs[j].file
         /\ \A j \in DOMAIN jobs : j # i => jobs'[j].state = jobs[j].state
         /\ jobs'[i].state = s
<1>1. jobs[i] \in Jobs
  OBVIOUS
<1>2. [jobs[i] EXCEPT !.state = s] \in Jobs
  BY <1>1 DEF Jobs
<1>3. jobs' = [jobs EXCEPT ![i] = [jobs[i] EXCEPT !.state = s]]
  OBVIOUS
<1>4. jobs' \in Seq(Jobs) /\ DOMAIN jobs' = DOMAIN jobs
  BY <1>2, <1>3
<1>5. \A j \in DOMAIN jobs : j # i => jobs'[j] = jobs[j]
  BY <1>3
<1>6. jobs'[i] = [jobs[i] EXCEPT !.state = s]
  BY <1>3
<1> QED
  BY <1>1, <1>4, <1>5, <1>6 DEF Jobs

-----------------------------------------------------------------------------
LEMMA InitLoadInv == LoadInit => LoadInv
<1> SUFFICES ASSUME LoadInit PROVE LoadInv
  OBVIOUS
<1> USE DEF LoadInit
<1>1. LoadTypeOK
  <2>1. project.roots \in SUBSET Files
    BY ProjectsAssumption
  <2>2. jobs \in Seq([file : Files, state : JobStates])
    OBVIOUS
  <2>3. error \in BOOLEAN
    OBVIOUS
  <2> QED
    BY <2>1, <2>2, <2>3 DEF LoadTypeOK
<1>2. DOMAIN jobs = {}
  OBVIOUS
<1>3. LoadsOnce
  BY <1>2 DEF LoadsOnce
<1>4. Submissions
  <2>1. Outstanding = {}
    BY <1>2 DEF Outstanding
  <2> QED
    BY <1>2, <2>1, FS_EmptySet DEF Submissions
<1>5. Results
  BY <1>2, RootsNeeded DEF Results, Needed
<1>6. Sequential
  BY RootsNeeded DEF Sequential, Needed
<1> QED
  BY <1>1, <1>2, <1>3, <1>4, <1>5, <1>6 DEF LoadInv, Parallel, Endings, Ended

LEMMA LoadFileKeeps ==
  ASSUME LoadInv, NEW f \in Files, LoadFile(f)
  PROVE  LoadInv'
<1> USE DEF LoadFile
<1>1. project \in Projects /\ ~project.parallel /\ f \in Needed /\ jobs = <<>>
  BY DEF LoadInv, LoadTypeOK, Sequential
<1>2. project.depends[f] \in SUBSET Files
  BY <1>1, ProjectsAssumption
<1>3. LoadTypeOK'
  BY <1>2 DEF LoadInv, LoadTypeOK, Ended
<1>4. LoadsOnce'
  BY <1>1 DEF LoadsOnce
<1>5. f \notin project.broken => project.depends[f] \subseteq Needed
  BY <1>1, DependsNeeded DEF Needed
<1>6. Sequential'
  <2>1. Needed' = Needed
    BY DEF Needed
  <2>2. CASE f \in loaded
    BY <1>1, <2>1, <2>2 DEF LoadInv, Sequential
  <2>3. CASE f \notin loaded /\ f \in project.broken
    BY <1>1, <2>1, <2>3 DEF LoadInv, Sequential, Ended
  <2>4. CASE f \notin loaded /\ f \notin project.broken
    BY <1>1, <1>5, <2>1, <2>4 DEF LoadInv, Sequential
  <2> QED
    BY <2>2, <2>3, <2>4
<1> QED
  BY <1>1, <1>3, <1>4, <1>6 DEF LoadInv, Parallel

\* The steps that only move the main thread.
LEMMA MainKeeps ==
  ASSUME LoadInv, Finish \/ Wait \/ Resume \/ Leave \/ Join
  PROVE  LoadInv'
<1> USE DEF Finish, Wait, Resume, Leave, Join
<1>1. UNCHANGED <<project, shared, jobs>>
  OBVIOUS
<1>2. UNCHANGED <<project, dependencies, scheduled, pending, loaded, error, jobs>>
  BY <1>1 DEF shared
<1>3. LoadTypeOK'
  BY <1>2 DEF LoadInv, LoadTypeOK, Ended
<1>4. LoadsOnce'
  BY <1>2 DEF LoadInv, LoadsOnce
<1>5. Parallel'
  <2> SUFFICES ASSUME project.parallel PROVE (Submissions /\ Results /\ Endings)'
    BY <1>2 DEF Parallel
  <2>1. Submissions' /\ Results'
    BY <1>2 DEF LoadInv, Parallel, Submissions, Results, Outstanding, Needed
  <2>2. Endings'
    BY <1>2 DEF LoadInv, Parallel, Endings, Ended
  <2> QED
    BY <2>1, <2>2
<1>6. Sequential'
  BY <1>2 DEF LoadInv, Sequential, Needed, Ended
<1> QED
  BY <1>3, <1>4, <1>5, <1>6 DEF LoadInv

LEMMA SubmitKeeps ==
  ASSUME LoadInv, NEW f \in Files, Submit(f)
  PROVE  LoadInv'
<1> DEFINE n == Len(jobs) + 1
<1> USE DEF Submit
<1>1. project.parallel /\ Submissions /\ Results /\ LoadTypeOK /\ LoadsOnce
  BY DEF LoadInv, Parallel
<1>2. jobs \in Seq(Jobs) /\ [file |-> f, state |-> "queued"] \in Jobs
  BY <1>1 DEF LoadTypeOK, Jobs, JobStates
<1>3. /\ jobs' \in Seq(Jobs)
      /\ DOMAIN jobs' = DOMAIN jobs \cup {n}
      /\ n \notin DOMAIN jobs
      /\ \A i \in DOMAIN jobs : jobs'[i] = jobs[i]
      /\ jobs'[n] = [file |-> f, state |-> "queued"]
  BY <1>2, JobAppended
<1>4. LoadTypeOK'
  BY <1>1, <1>3 DEF LoadTypeOK, Jobs
<1>5. f \in dependencies /\ f \in scheduled /\ f \notin loaded
      /\ \A i \in DOMAIN jobs : jobs[i].file # f
  BY <1>1 DEF Submissions
<1>6. LoadsOnce'
  BY <1>1, <1>3, <1>5 DEF LoadsOnce
<1>7. Submissions'
  <2>1. Outstanding' = Outstanding \cup {n} /\ n \notin Outstanding
    BY <1>3 DEF Outstanding
  <2>2. IsFiniteSet(Outstanding') /\ pending' = Cardinality(Outstanding')
    BY <1>1, <2>1, FS_AddElement DEF Submissions
  <2>3. \A i \in DOMAIN jobs' : jobs'[i].file \in (scheduled \ dependencies)'
    BY <1>1, <1>3, <1>5 DEF Submissions
  <2>4. \A g \in (scheduled \ dependencies)' : \E i \in DOMAIN jobs' : jobs'[i].file = g
    BY <1>1, <1>3 DEF Submissions
  <2>5. \A i \in DOMAIN jobs' : jobs'[i].state = "handled" => jobs'[i].file \in loaded'
    BY <1>1, <1>3 DEF Submissions
  <2>6. \A g \in loaded' : \E i \in DOMAIN jobs' :
          jobs'[i].file = g /\ jobs'[i].state = "handled"
    BY <1>1, <1>3 DEF Submissions
  <2> QED
    BY <1>1, <2>2, <2>3, <2>4, <2>5, <2>6 DEF Submissions
<1>8. Results'
  BY <1>1, <1>3 DEF Results, Needed
<1>9. Endings'
  BY DEF Endings, Ended
<1> QED
  BY <1>1, <1>4, <1>6, <1>7, <1>8, <1>9 DEF LoadInv, Parallel, Sequential

\* A job goes from one state to another, neither being "handled".
LEMMA MovesKeep ==
  ASSUME LoadInv, NEW i \in DOMAIN jobs, Take(i) \/ Return(i) \/ CallbackFails(i)
  PROVE  LoadInv'
<1> USE DEF Take, Return, CallbackFails
<1>1. project.parallel /\ Submissions /\ Results /\ Endings /\ LoadTypeOK /\ LoadsOnce
  <2>1. DOMAIN jobs # {}
    OBVIOUS
  <2> QED
    BY <2>1 DEF LoadInv, Parallel, Sequential
<1>2. PICK s \in JobStates :
        /\ jobs' = [jobs EXCEPT ![i].state = s]
        /\ s \in {"running", "good", "bad", "failed"}
        /\ s = "good" => jobs[i].file \notin project.broken
        /\ s \in {"bad", "failed"} => jobs[i].file \in project.broken
        /\ s = "failed" => error'
        /\ main \in Ended => FALSE
  <2>1. main \notin Ended
    BY <1>1 DEF Endings
  <2>2. CASE Take(i)
    <3>1. jobs[i].file \notin loaded
      BY <1>1, <2>2 DEF LoadsOnce
    <3>2. jobs' = [jobs EXCEPT ![i].state = "running"]
      BY <2>2, <3>1
    <3> QED
      BY <2>1, <3>2 DEF JobStates
  <2>3. CASE Return(i)
    <3>1. CASE jobs[i].file \in project.broken
      <4>1. jobs' = [jobs EXCEPT ![i].state = "bad"]
        BY <2>3, <3>1
      <4> QED
        BY <2>1, <3>1, <4>1 DEF JobStates
    <3>2. CASE jobs[i].file \notin project.broken
      <4>1. jobs' = [jobs EXCEPT ![i].state = "good"]
        BY <2>3, <3>2
      <4> QED
        BY <2>1, <3>2, <4>1 DEF JobStates
    <3> QED
      BY <3>1, <3>2
  <2>4. CASE CallbackFails(i)
    <3>1. jobs[i].file \in project.broken
      BY <1>1, <2>4 DEF Results
    <3>2. jobs' = [jobs EXCEPT ![i].state = "failed"] /\ error'
      BY <2>4
    <3> QED
      BY <2>1, <3>1, <3>2 DEF JobStates
  <2> QED
    BY <2>2, <2>3, <2>4
<1>3. /\ jobs' \in Seq(Jobs)
      /\ DOMAIN jobs' = DOMAIN jobs
      /\ \A j \in DOMAIN jobs : jobs'[j].file = jobs[j].file
      /\ \A j \in DOMAIN jobs : j # i => jobs'[j].state = jobs[j].state
      /\ jobs'[i].state = s
  <2>1. jobs \in Seq(Jobs)
    BY <1>1 DEF LoadTypeOK, Jobs
  <2> QED
    BY <1>2, <2>1, JobMoved
<1>4. /\ UNCHANGED <<project, dependencies, scheduled, pending, loaded>>
      /\ error => error'
      /\ error' => error \/ jobs[i].file \in project.broken
      /\ error' \in BOOLEAN
      /\ main' = main \/ (main' = "woken" /\ main = "waiting")
  <2>1. CASE Take(i) \/ Return(i)
    <3>1. UNCHANGED <<project, main, dependencies, scheduled, pending, loaded, error>>
      BY <2>1 DEF shared
    <3>2. error \in BOOLEAN
      BY <1>1 DEF LoadTypeOK
    <3> QED
      BY <3>1, <3>2
  <2>2. CASE CallbackFails(i)
    <3>1. jobs[i].file \in project.broken
      BY <1>1, <2>2 DEF Results
    <3>2. error' = TRUE /\ main' = Notified
      BY <2>2
    <3>3. UNCHANGED <<project, dependencies, scheduled, pending, loaded>>
      BY <2>2
    <3> QED
      BY <3>1, <3>2, <3>3 DEF Notified
  <2> QED
    BY <2>1, <2>2
<1>5. jobs[i].state # "handled"
  OBVIOUS
<1>6. LoadTypeOK'
  BY <1>1, <1>3, <1>4 DEF LoadTypeOK, Jobs
<1>7. LoadsOnce'
  BY <1>1, <1>3, <1>4, <1>5 DEF LoadsOnce
<1>8. Submissions'
  <2>1. Outstanding' = Outstanding
    BY <1>2, <1>3, <1>5 DEF Outstanding
  <2>2. \A j \in DOMAIN jobs : jobs'[j].state = "handled" <=> jobs[j].state = "handled"
    BY <1>2, <1>3, <1>5
  <2>3. IsFiniteSet(Outstanding') /\ pending' = Cardinality(Outstanding')
    BY <1>1, <1>4, <2>1 DEF Submissions
  <2>4. \A j \in DOMAIN jobs' : jobs'[j].file \in (scheduled \ dependencies)'
    BY <1>1, <1>3, <1>4 DEF Submissions
  <2>5. \A g \in (scheduled \ dependencies)' : \E j \in DOMAIN jobs' : jobs'[j].file = g
    BY <1>1, <1>3, <1>4 DEF Submissions
  <2>6. \A j \in DOMAIN jobs' : jobs'[j].state = "handled" => jobs'[j].file \in loaded'
    BY <1>1, <1>3, <1>4, <2>2 DEF Submissions
  <2>7. \A g \in loaded' : \E j \in DOMAIN jobs' :
          jobs'[j].file = g /\ jobs'[j].state = "handled"
    BY <1>1, <1>3, <1>4, <2>2 DEF Submissions
  <2>8. (dependencies \subseteq scheduled)'
    BY <1>1, <1>4 DEF Submissions
  <2> QED
    BY <2>3, <2>4, <2>5, <2>6, <2>7, <2>8 DEF Submissions
<1>9. Results'
  <2>1. Needed' = Needed
    BY <1>4 DEF Needed
  <2>2. jobs[i].file \in Needed
    BY <1>1 DEF Submissions, Results
  <2> QED
    BY <1>1, <1>2, <1>3, <1>4, <2>1, <2>2 DEF Results
<1>10. Endings'
  <2>1. main' \notin Ended
    BY <1>2, <1>4 DEF Ended
  <2>2. main' = "joining" => main = "joining"
    BY <1>4
  <2> QED
    BY <1>1, <1>4, <2>1, <2>2 DEF Endings
<1> QED
  BY <1>1, <1>4, <1>6, <1>7, <1>8, <1>9, <1>10 DEF LoadInv, Parallel, Sequential

LEMMA CallbackKeeps ==
  ASSUME LoadInv, NEW i \in DOMAIN jobs, Callback(i)
  PROVE  LoadInv'
<1> DEFINE f == jobs[i].file
           new == project.depends[f] \ scheduled
<1> USE DEF Callback
<1>1. project.parallel /\ Submissions /\ Results /\ Endings /\ LoadTypeOK /\ LoadsOnce
  <2>1. DOMAIN jobs # {}
    OBVIOUS
  <2> QED
    BY <2>1 DEF LoadInv, Parallel, Sequential
<1>2. /\ jobs' \in Seq(Jobs)
      /\ DOMAIN jobs' = DOMAIN jobs
      /\ \A j \in DOMAIN jobs : jobs'[j].file = jobs[j].file
      /\ \A j \in DOMAIN jobs : j # i => jobs'[j].state = jobs[j].state
      /\ jobs'[i].state = "handled"
  <2>1. jobs \in Seq(Jobs) /\ "handled" \in JobStates
    BY <1>1 DEF LoadTypeOK, Jobs, JobStates
  <2> QED
    BY <2>1, JobMoved
<1>3. /\ loaded' = loaded \cup {f}
      /\ scheduled' = scheduled \cup new
      /\ dependencies' = dependencies \cup new
      /\ pending' = pending - 1
      /\ UNCHANGED <<project, error>>
      /\ main' = main \/ (main' = "woken" /\ main = "waiting")
  BY DEF Notified
<1>4. f \in Files /\ project \in Projects
  <2>1. jobs \in Seq(Jobs) /\ project \in Projects
    BY <1>1 DEF LoadTypeOK, Jobs
  <2>2. jobs[i] \in Jobs
    BY <2>1
  <2> QED
    BY <2>1, <2>2 DEF Jobs
<1>5. f \notin project.broken /\ f \in Needed
  BY <1>1 DEF Results, Submissions
<1>6. new \subseteq Files /\ new \subseteq Needed
  BY <1>4, <1>5, DependsNeeded, ProjectsAssumption DEF Needed
<1>7. /\ IsFiniteSet(Outstanding')
      /\ pending' = Cardinality(Outstanding')
      /\ pending' \in Nat
      /\ pending # 0
  <2>1. Outstanding' = Outstanding \ {i} /\ i \in Outstanding
    BY <1>2 DEF Outstanding
  <2>2. IsFiniteSet(Outstanding) /\ pending = Cardinality(Outstanding)
    BY <1>1 DEF Submissions
  <2>3. /\ IsFiniteSet(Outstanding')
        /\ Cardinality(Outstanding') = Cardinality(Outstanding) - 1
    BY <2>1, <2>2, FS_RemoveElement
  <2>4. Cardinality(Outstanding') \in Nat /\ Cardinality(Outstanding) \in Nat
    BY <2>2, <2>3, FS_CardinalityType
  <2> QED
    BY <1>3, <2>2, <2>3, <2>4
<1>8. LoadTypeOK'
  BY <1>1, <1>2, <1>3, <1>4, <1>6, <1>7 DEF LoadTypeOK, Jobs
<1>9. LoadsOnce'
  <2>1. \A j \in DOMAIN jobs : j # i => jobs[j].file # f
    BY <1>1 DEF LoadsOnce
  <2> QED
    BY <1>1, <1>2, <1>3, <2>1 DEF LoadsOnce
<1>10. Submissions'
  <2>1. \A j \in DOMAIN jobs' : jobs'[j].file \in (scheduled \ dependencies)'
    BY <1>1, <1>2, <1>3 DEF Submissions
  <2>2. \A g \in (scheduled \ dependencies)' : \E j \in DOMAIN jobs' : jobs'[j].file = g
    <3>1. (scheduled \ dependencies)' = scheduled \ dependencies
      BY <1>1, <1>3 DEF Submissions
    <3> QED
      BY <1>1, <1>2, <3>1 DEF Submissions
  <2>3. (dependencies \subseteq scheduled)'
    BY <1>1, <1>3 DEF Submissions
  <2>4. \A j \in DOMAIN jobs' : jobs'[j].state = "handled" => jobs'[j].file \in loaded'
    BY <1>1, <1>2, <1>3 DEF Submissions
  <2>5. \A g \in loaded' : \E j \in DOMAIN jobs' :
          jobs'[j].file = g /\ jobs'[j].state = "handled"
    <3> SUFFICES ASSUME NEW g \in loaded'
                 PROVE  \E j \in DOMAIN jobs' : jobs'[j].file = g /\ jobs'[j].state = "handled"
      OBVIOUS
    <3>1. CASE g = f
      BY <1>2, <3>1
    <3>2. CASE g \in loaded
      <4>1. PICK j \in DOMAIN jobs : jobs[j].file = g /\ jobs[j].state = "handled"
        BY <1>1, <3>2 DEF Submissions
      <4>2. j # i
        BY <4>1
      <4> QED
        BY <1>2, <4>1, <4>2
    <3> QED
      BY <1>3, <3>1, <3>2
  <2> QED
    BY <1>7, <2>1, <2>2, <2>3, <2>4, <2>5 DEF Submissions
<1>11. Results'
  <2>1. Needed' = Needed
    BY <1>3 DEF Needed
  <2>2. project.depends[f] \subseteq scheduled'
    BY <1>3
  <2> QED
    BY <1>1, <1>2, <1>3, <1>5, <1>6, <2>1, <2>2 DEF Results
<1>12. Endings'
  <2>1. main \notin Ended
    BY <1>1 DEF Endings
  <2>2. main = "joining" => error
    BY <1>1, <1>7 DEF Endings
  <2> QED
    BY <1>3, <2>1, <2>2 DEF Endings, Ended
<1> QED
  BY <1>1, <1>3, <1>8, <1>9, <1>10, <1>11, <1>12 DEF LoadInv, Parallel, Sequential

LEMMA LoadInvInductive == LoadInv /\ [LoadNext]_loading => LoadInv'
<1> SUFFICES ASSUME LoadInv, [LoadNext]_loading PROVE LoadInv'
  OBVIOUS
<1>1. CASE UNCHANGED loading
  <2>1. UNCHANGED <<project, main, dependencies, scheduled, pending, loaded, error, jobs>>
    BY <1>1 DEF loading, shared
  <2> QED
    BY <2>1 DEF LoadInv, LoadTypeOK, LoadsOnce, Parallel, Sequential, Submissions, Results,
                Endings, Outstanding, Needed
<1>2. ASSUME NEW f \in Files, LoadFile(f) PROVE LoadInv'
  BY <1>2, LoadFileKeeps
<1>3. ASSUME NEW f \in Files, Submit(f) PROVE LoadInv'
  BY <1>3, SubmitKeeps
<1>4. CASE Finish \/ Wait \/ Resume \/ Leave \/ Join
  BY <1>4, MainKeeps
<1>5. ASSUME NEW i \in DOMAIN jobs, Take(i) \/ Return(i) \/ CallbackFails(i) PROVE LoadInv'
  BY <1>5, MovesKeep
<1>6. ASSUME NEW i \in DOMAIN jobs, Callback(i) PROVE LoadInv'
  BY <1>6, CallbackKeeps
<1> QED
  BY <1>1, <1>2, <1>3, <1>4, <1>5, <1>6 DEF LoadNext

LEMMA LoadInvHolds == LoadSpec => []LoadInv
BY InitLoadInv, LoadInvInductive, PTL DEF LoadSpec

\* Every variable of the loader keeps its type; in particular the count of
\* outstanding calls, which callbacks of any number of processes decrement,
\* never falls below zero.
THEOREM LoadingIsTyped == LoadSpec => []LoadTypeOK
<1>1. LoadInv => LoadTypeOK
  BY DEF LoadInv
<1> QED
  BY <1>1, LoadInvHolds, PTL

\* No file is loaded by two processes, and none finds its file loaded already.
THEOREM FilesAreLoadedOnce == LoadSpec => []LoadsOnce
<1>1. LoadInv => LoadsOnce
  BY DEF LoadInv
<1> QED
  BY <1>1, LoadInvHolds, PTL

-----------------------------------------------------------------------------
(* Every step is one of ClosureLoading, or changes nothing that it sees.   *)

Outcome == IF main \in Ended THEN main ELSE "loading"
Readable == loaded \ project.broken

LEMMA SilentSteps ==
  ASSUME UNCHANGED <<project, loaded>>, Outcome' = Outcome
  PROVE  UNCHANGED Closure!vars
BY DEF Closure!vars, Outcome

LEMMA LoadFileRefines ==
  ASSUME LoadInv, NEW f \in Files, LoadFile(f)
  PROVE  [Closure!Next]_Closure!vars
<1> USE DEF LoadFile
<1>1. f \in Needed /\ project \in Projects /\ main = "loop"
  BY DEF LoadInv, LoadTypeOK, Sequential
<1>2. CASE f \in loaded
  BY <1>2, SilentSteps DEF Outcome
<1>3. CASE f \notin loaded /\ f \in project.broken
  <2>1. Readable' = Readable
    BY <1>3 DEF Readable
  <2>2. Closure!Fail
    BY <1>1, <1>3, <2>1 DEF Closure!Fail, Needed, Readable, Ended
  <2> QED
    BY <2>2 DEF Closure!Next
<1>4. CASE f \notin loaded /\ f \notin project.broken
  <2>1. Closure!LoadFile(f)
    BY <1>1, <1>4 DEF Closure!LoadFile, Needed, Ended
  <2> QED
    BY <2>1 DEF Closure!Next
<1> QED
  BY <1>2, <1>3, <1>4

LEMMA CallbackRefines ==
  ASSUME LoadInv, NEW i \in DOMAIN jobs, Callback(i)
  PROVE  [Closure!Next]_Closure!vars
<1> DEFINE f == jobs[i].file
<1> USE DEF Callback
<1>1. DOMAIN jobs # {}
  OBVIOUS
<1>2. Submissions /\ Results /\ Endings /\ LoadsOnce /\ LoadTypeOK
  BY <1>1 DEF LoadInv, Parallel, Sequential
<1>3. f \in Files /\ f \in Needed /\ f \notin project.broken /\ f \notin loaded
  BY <1>2 DEF Submissions, Results, LoadsOnce, LoadTypeOK
<1>4. main \notin Ended /\ main' \notin Ended
  BY <1>2 DEF Endings, Notified, Ended
<1>5. loaded' = loaded \cup {f} /\ project' = project
  OBVIOUS
<1>6. Closure!LoadFile(f)
  BY <1>3, <1>4, <1>5 DEF Closure!LoadFile, Needed
<1> QED
  BY <1>3, <1>6 DEF Closure!Next

\* The files are closed when the sequential loader finishes, and when the
\* parallel one has neither files nor calls left.
LEMMA FinishRefines ==
  ASSUME LoadInv, Finish
  PROVE  [Closure!Next]_Closure!vars
<1> USE DEF Finish
<1>1. Sequential /\ project \in Projects /\ loaded \in SUBSET Files
  BY DEF LoadInv, LoadTypeOK
<1>2. Readable = loaded /\ Readable' = Readable
  BY <1>1 DEF Sequential, Readable, shared
<1>3. Closure!Closed(project, loaded) /\ loaded \subseteq Needed
  BY <1>1 DEF Closure!Closed, Sequential
<1>4. loaded = Closure!Needed(project)
  BY <1>1, <1>3, ClosedIsNeeded DEF Needed
<1>5. Closure!Succeed
  BY <1>2, <1>4 DEF Closure!Succeed, Readable, Ended, shared
<1> QED
  BY <1>5 DEF Closure!Next

LEMMA JoinRefines ==
  ASSUME LoadInv, Join
  PROVE  [Closure!Next]_Closure!vars
<1> USE DEF Join
<1>1. project.parallel
  BY DEF LoadInv, Sequential, Ended
<1>2. Submissions /\ Results /\ Endings /\ project \in Projects /\ LoadTypeOK
  BY <1>1 DEF LoadInv, Parallel, LoadTypeOK
<1>3. UNCHANGED <<project, loaded>>
  BY DEF shared
<1>4. CASE error
  <2>1. Closure!Fail
    BY <1>2, <1>3, <1>4 DEF Closure!Fail, Results, Needed, Ended
  <2> QED
    BY <2>1 DEF Closure!Next
<1>5. CASE ~error
  <2>1. dependencies = {} /\ pending = 0
    BY <1>2, <1>5 DEF Endings
  <2>2. Outstanding = {}
    BY <1>2, <2>1, FS_EmptySet DEF Submissions
  <2>3. \A i \in DOMAIN jobs : jobs[i].state = "handled"
    BY <2>2 DEF Outstanding
  <2>4. loaded = scheduled
    <3>1. scheduled \subseteq loaded
      BY <1>2, <2>1, <2>3 DEF Submissions
    <3>2. loaded \subseteq scheduled
      BY <1>2 DEF Submissions
    <3> QED
      BY <3>1, <3>2
  <2>5. loaded \cap project.broken = {}
    BY <1>2 DEF Submissions, Results
  <2>6. \A f \in loaded : project.depends[f] \subseteq loaded
    BY <1>2, <2>4 DEF Submissions, Results
  <2>7. Closure!Closed(project, loaded)
    BY <1>2, <2>4, <2>6 DEF Closure!Closed, Results
  <2>8. loaded = Closure!Needed(project)
    BY <1>2, <2>4, <2>7, ClosedIsNeeded DEF Results, Needed, LoadTypeOK
  <2>9. Readable = loaded
    BY <2>5 DEF Readable
  <2>10. Closure!Succeed
    BY <1>3, <1>5, <2>8, <2>9 DEF Closure!Succeed, Readable, Ended
  <2> QED
    BY <2>10 DEF Closure!Next
<1> QED
  BY <1>4, <1>5

LEMMA LoadStepRefines == LoadInv /\ [LoadNext]_loading => [Closure!Next]_Closure!vars
<1> SUFFICES ASSUME LoadInv, [LoadNext]_loading PROVE [Closure!Next]_Closure!vars
  OBVIOUS
<1>1. CASE UNCHANGED loading
  BY <1>1, SilentSteps DEF loading, shared, Outcome
<1>2. ASSUME NEW f \in Files, LoadFile(f) PROVE [Closure!Next]_Closure!vars
  BY <1>2, LoadFileRefines
<1>3. ASSUME NEW f \in Files, Submit(f) PROVE [Closure!Next]_Closure!vars
  BY <1>3, SilentSteps DEF Submit, Outcome
<1>4. CASE Finish
  BY <1>4, FinishRefines
<1>5. CASE Wait \/ Resume \/ Leave
  BY <1>5, SilentSteps DEF Wait, Resume, Leave, shared, Outcome, Ended
<1>6. CASE Join
  BY <1>6, JoinRefines
<1>7. ASSUME NEW i \in DOMAIN jobs, Take(i) \/ Return(i) \/ CallbackFails(i)
      PROVE  [Closure!Next]_Closure!vars
  BY <1>7, SilentSteps DEF Take, Return, CallbackFails, Notified, shared, Outcome, Ended
<1>8. ASSUME NEW i \in DOMAIN jobs, Callback(i) PROVE [Closure!Next]_Closure!vars
  BY <1>8, CallbackRefines
<1> QED
  BY <1>1, <1>2, <1>3, <1>4, <1>5, <1>6, <1>7, <1>8 DEF LoadNext

\* Sequentially and in parallel, whichever process is first and whichever call
\* fails: the files needed are loaded, each once, and loading succeeds only when
\* that is all of them, and fails only if one cannot be read.
THEOREM LoadingRefinesClosure == LoadSpec => LoadingSpec
<1>1. LoadInit => Closure!Init
  BY DEF LoadInit, Closure!Init, Ended
<1> QED
  BY <1>1, LoadStepRefines, LoadInvHolds, PTL DEF LoadSpec, LoadingSpec, Closure!Spec
=============================================================================
