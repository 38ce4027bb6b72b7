--------------------------- MODULE IsolatedProofs ---------------------------
(***************************************************************************)
(* Proofs about IsolatedExecution, for any callers, queries, storage       *)
(* modes, worker images and numbers of events.                             *)
(***************************************************************************)
EXTENDS IsolatedExecution, TLAPS

USE IsolationAssumptions

-----------------------------------------------------------------------------
(* Types.                                                                  *)

\* NoJob is told from every Job by its owner.
LEMMA NoJobIsNoJob == NoJob \notin Job /\ NoJob.owner \notin Caller
BY DEF NoJob, Job

\* The manifest is a Job of its caller.
LEMMA BuildJobType ==
    ASSUME NEW c \in Caller
    PROVE  build_job(c) \in Job /\ build_job(c).owner = c
BY DEF build_job, Job

\* Spending leaves a budget.
LEMMA SpendType ==
    ASSUME TypeOK, NEW e \in Events, Spend(e)
    PROVE  budget' \in [Events -> Nat]
BY DEF TypeOK, Spend

\* Moving the driver on, or failing it, leaves drivers.
LEMMA DriverType ==
    ASSUME TypeOK, NEW c \in Caller
    PROVE  /\ \A pc \in {"create", "wait", "do_get", "streaming", "over"} :
                 Goto(c, pc) => driver' \in [Caller -> Driver]
           /\ \A e \in Result : Fail(c, e) => driver' \in [Caller -> Driver]
           /\ \A p \in Caller :
                 driver' = [driver EXCEPT ![c].pc = "connect", ![c].pod = p]
                     => driver' \in [Caller -> Driver]
<1>1. driver[c] \in Driver /\ driver \in [Caller -> Driver]
  BY DEF TypeOK
<1>2. ASSUME NEW pc \in {"create", "wait", "do_get", "streaming", "over"},
             Goto(c, pc)
      PROVE  driver' \in [Caller -> Driver]
  <2>1. [driver[c] EXCEPT !.pc = pc] \in Driver
    BY <1>1 DEF Driver
  <2>2. QED
    BY <1>1, <1>2, <2>1 DEF Goto
<1>3. ASSUME NEW e \in Result, Fail(c, e) PROVE driver' \in [Caller -> Driver]
  <2>1. [[driver[c] EXCEPT !.pc = "error"] EXCEPT !.result = e] \in Driver
    BY <1>1 DEF Driver
  <2>2. driver' = [driver EXCEPT ![c] =
                     [[driver[c] EXCEPT !.pc = "error"] EXCEPT !.result = e]]
    BY <1>1, <1>3 DEF Fail
  <2>3. QED
    BY <1>1, <2>1, <2>2
<1>4. ASSUME NEW p \in Caller,
             driver' = [driver EXCEPT ![c].pc = "connect", ![c].pod = p]
      PROVE  driver' \in [Caller -> Driver]
  <2>1. [[driver[c] EXCEPT !.pc = "connect"] EXCEPT !.pod = p] \in Driver
    BY <1>1 DEF Driver
  <2>2. driver' = [driver EXCEPT ![c] =
                     [[driver[c] EXCEPT !.pc = "connect"] EXCEPT !.pod = p]]
    BY <1>1, <1>4
  <2>3. QED
    BY <1>1, <2>1, <2>2
<1>5. QED
  BY <1>2, <1>3, <1>4

\* A Job that exists is one, and its owner a caller.
LEMMA OwnerType ==
    ASSUME TypeOK, NEW q \in Query, jobs[q] # NoJob
    PROVE  jobs[q] \in Job /\ jobs[q].owner \in Caller
BY DEF TypeOK, Job

\* Deleting a Job, creating one and ending one leave Jobs.
LEMMA JobsType ==
    ASSUME TypeOK, NEW c \in Caller
    PROVE  /\ delete_job_background(c) => jobs' \in [Query -> Job \cup {NoJob}]
           /\ jobs' = [jobs EXCEPT ![job_name_for(c)] = build_job(c)]
                => jobs' \in [Query -> Job \cup {NoJob}]
           /\ \A phase \in {"failed", "complete"} :
                 SetPhase(c, phase) => jobs' \in [Query -> Job \cup {NoJob}]
<1>1. job_name_for(c) \in Query
  BY DEF job_name_for
<1>2. delete_job_background(c) => jobs' \in [Query -> Job \cup {NoJob}]
  BY <1>1 DEF delete_job_background, TypeOK
<1>3. jobs' = [jobs EXCEPT ![job_name_for(c)] = build_job(c)]
        => jobs' \in [Query -> Job \cup {NoJob}]
  BY <1>1, BuildJobType DEF TypeOK
<1>4. ASSUME NEW phase \in {"failed", "complete"}, SetPhase(c, phase)
      PROVE  jobs' \in [Query -> Job \cup {NoJob}]
  <2>1. CASE ~Exists(c)
    BY <1>4, <2>1 DEF SetPhase, TypeOK
  <2>2. CASE Exists(c)
    <3>1. jobs[job_name_for(c)] \in Job
      BY <1>1, <2>2, NoJobIsNoJob DEF Exists, TypeOK
    <3>2. [jobs[job_name_for(c)] EXCEPT !.phase = phase] \in Job
      BY <3>1 DEF Job
    <3>3. jobs' = [jobs EXCEPT ![job_name_for(c)].phase = phase]
      BY <1>4, <2>2 DEF SetPhase
    <3>4. QED
      BY <1>1, <3>2, <3>3 DEF TypeOK
  <2>3. QED
    BY <2>1, <2>2
<1>5. QED
  BY <1>2, <1>3, <1>4

\* The steps of a call of spawn keep the types.
LEMMA DriverTypes ==
    ASSUME TypeOK, NEW c \in Caller,
           Spawn(c) \/ DriverStep(c) \/ CleanupStream(c)
    PROVE  TypeOK'
<1>1. CASE Spawn(c)
  <2>1. driver' \in [Caller -> Driver]
    BY <1>1, DriverType DEF Spawn, Result
  <2>2. QED
    BY <1>1, <2>1 DEF Spawn, TypeOK
<1>2. CASE CreateJob(c)
  <2>1. driver' \in [Caller -> Driver]
    BY <1>2, DriverType DEF CreateJob
  <2>2. jobs' \in [Query -> Job \cup {NoJob}]
    BY <1>2, JobsType DEF CreateJob
  <2>3. QED
    BY <1>2, <2>1, <2>2 DEF CreateJob, TypeOK, PodPhase, Task
<1>3. CASE CreateFails(c)
  <2>1. driver' \in [Caller -> Driver]
    BY <1>3, DriverType DEF CreateFails, Result
  <2>2. jobs' \in [Query -> Job \cup {NoJob}]
    BY <1>3, JobsType DEF CreateFails, TypeOK
  <2>3. budget' \in [Events -> Nat]
    BY <1>3, SpendType DEF CreateFails, TypeOK, Events
  <2>4. pods' \in [Caller -> PodPhase] /\ unanswered' \subseteq Caller
    BY <1>3 DEF CreateFails, TypeOK, PodPhase
  <2>5. QED
    BY <1>3, <2>1, <2>2, <2>3, <2>4 DEF CreateFails, TypeOK
<1>4. CASE PodFound(c)
  <2>1. PICK p \in SelectedPods(c) :
            \/ Fail(c, "WorkerFailure")
            \/ driver' = [driver EXCEPT ![c].pc = "connect", ![c].pod = p]
    BY <1>4 DEF PodFound
  <2>2. p \in Caller
    BY DEF SelectedPods
  <2>3. driver' \in [Caller -> Driver]
    BY <2>1, <2>2, DriverType DEF Result
  <2>4. QED
    BY <1>4, <2>3 DEF PodFound, TypeOK
<1>5. CASE WaitTimesOut(c) \/ CancelWait(c) \/ Connect(c) \/ DoGetRefused(c)
  <2>1. driver' \in [Caller -> Driver]
    BY <1>5, DriverType DEF WaitTimesOut, CancelWait, Connect, DoGetRefused, Result
  <2>2. QED
    BY <1>5, <2>1 DEF WaitTimesOut, CancelWait, Connect, DoGetRefused, TypeOK
<1>6. CASE CallFails(c)
  <2>1. driver' \in [Caller -> Driver]
    BY <1>6, DriverType DEF CallFails, Result
  <2>2. budget' \in [Events -> Nat]
    BY <1>6, SpendType DEF CallFails, Events
  <2>3. QED
    BY <1>6, <2>1, <2>2 DEF CallFails, TypeOK
<1>7. CASE DoGet(c)
  <2>1. driver' \in [Caller -> Driver]
    BY <1>7, DriverType DEF DoGet
  <2>2. QED
    BY <1>7, <2>1 DEF DoGet, TypeOK, PodPhase
<1>8. CASE CleanupStream(c)
  <2>1. driver' \in [Caller -> Driver]
    BY <1>8, DriverType DEF CleanupStream
  <2>2. QED
    BY <1>8, <2>1 DEF CleanupStream, TypeOK, Task
<1>9. QED
  BY <1>1, <1>2, <1>3, <1>4, <1>5, <1>6, <1>7, <1>8 DEF DriverStep

\* The background tasks and the owners of tokens keep the types.
LEMMA TaskTypes ==
    ASSUME TypeOK, NEW c \in Caller,
           CancelDelete(c) \/ CleanupDelete(c) \/ Cancel(c)
    PROVE  TypeOK'
<1>1. CASE CancelDelete(c)
  <2>1. /\ jobs' \in [Query -> Job \cup {NoJob}]
        /\ budget' \in [Events -> Nat]
    BY <1>1, JobsType, SpendType DEF CancelDelete, TypeOK, Events
  <2>2. QED
    BY <1>1, <2>1 DEF CancelDelete, TypeOK, Task
<1>2. CASE CleanupDelete(c)
  <2>1. /\ jobs' \in [Query -> Job \cup {NoJob}]
        /\ budget' \in [Events -> Nat]
    BY <1>2, JobsType, SpendType DEF CleanupDelete, TypeOK, Events
  <2>2. QED
    BY <1>2, <2>1 DEF CleanupDelete, TypeOK, Task
<1>3. CASE Cancel(c)
  <2>1. budget' \in [Events -> Nat]
    BY <1>3, SpendType DEF Cancel, Events
  <2>2. QED
    BY <1>3, <2>1 DEF Cancel, TypeOK
<1>4. QED
  BY <1>1, <1>2, <1>3

\* Kubernetes keeps the types.
LEMMA KubernetesTypes ==
    ASSUME TypeOK,
           \/ \E c \in Caller : Kubelet(c) \/ PodFails(c)
           \/ \E q \in Query : Controller(q)
    PROVE  TypeOK'
<1>1. ASSUME NEW c \in Caller, PodStarts(c) \/ CollectPod(c) PROVE TypeOK'
  BY <1>1 DEF PodStarts, CollectPod, TypeOK, PodPhase
<1>2. ASSUME NEW c \in Caller, PodSucceeds(c) PROVE TypeOK'
  <2>1. jobs' \in [Query -> Job \cup {NoJob}]
    BY <1>2, JobsType DEF PodSucceeds
  <2>2. QED
    BY <1>2, <2>1 DEF PodSucceeds, TypeOK, PodPhase
<1>3. ASSUME NEW c \in Caller, PodFails(c) PROVE TypeOK'
  <2>1. /\ jobs' \in [Query -> Job \cup {NoJob}]
        /\ budget' \in [Events -> Nat]
    BY <1>3, JobsType, SpendType DEF PodFails, Events
  <2>2. QED
    BY <1>3, <2>1 DEF PodFails, TypeOK, PodPhase
<1>4. ASSUME NEW q \in Query, DeadlineExceeded(q) PROVE TypeOK'
  <2>1. jobs[q] \in Job /\ jobs[q].owner \in Caller
    BY <1>4, OwnerType DEF DeadlineExceeded
  <2>2. [jobs[q] EXCEPT !.phase = "failed"] \in Job
    BY <2>1 DEF Job
  <2>3. jobs' \in [Query -> Job \cup {NoJob}]
    BY <1>4, <2>2 DEF DeadlineExceeded, TypeOK
  <2>4. pods' \in [Caller -> PodPhase]
    BY <1>4, <2>1 DEF DeadlineExceeded, TypeOK, PodPhase
  <2>5. QED
    BY <1>4, <2>3, <2>4 DEF DeadlineExceeded, TypeOK
<1>5. ASSUME NEW q \in Query, TtlExpires(q) PROVE TypeOK'
  BY <1>5 DEF TtlExpires, TypeOK
<1>6. QED
  BY <1>1, <1>2, <1>3, <1>4, <1>5 DEF Kubelet, Controller

\* Every step keeps the types.
LEMMA TypeStep == TypeOK /\ [Next]_vars => TypeOK'
<1>1. TypeOK /\ UNCHANGED vars => TypeOK'
  BY DEF TypeOK, vars
<1>2. QED
  BY <1>1, DriverTypes, TaskTypes, KubernetesTypes DEF Next

(***************************************************************************)
(* Every variable keeps its type: in particular a pod the driver connects  *)
(* to is the pod of some caller, and every Job bears a storage mode.       *)
(***************************************************************************)
THEOREM TypeCorrect == Spec => []TypeOK
<1>1. Init => TypeOK
  BY DEF Init, TypeOK, PodPhase, Driver, Result, Task
<1>2. QED
  BY <1>1, TypeStep, PTL DEF Spec

-----------------------------------------------------------------------------
(* Jobs of no more use.                                                    *)

\* What watches over the Job of a caller: the task that waits for its token,
\* and from the end of its stream on the task that deletes it.
Watched(c) ==
    Exists(c) =>
        /\ c \in unanswered \/ watcher[c] \in {"armed", "failed"}
        /\ driver[c].pc = "over" => cleanup[c] \in {"armed", "failed"}

AllWatched == \A c \in Caller : Watched(c)

\* Deleting by name leaves nobody's Job of that name.
LEMMA DeletedIsGone ==
    ASSUME TypeOK, NEW c \in Caller, NEW d \in Caller, delete_job_background(c)
    PROVE  /\ Exists(d)' => Exists(d)
           /\ ~Exists(c)'
<1>1. job_name_for(c) \in Query /\ job_name_for(d) \in Query
  BY DEF job_name_for
<1>2. QED
  BY <1>1, NoJobIsNoJob DEF delete_job_background, Exists, TypeOK

\* A new Job belongs to the caller that creates it.
LEMMA CreatedIsOwn ==
    ASSUME TypeOK, NEW c \in Caller, NEW d \in Caller, c # d,
           jobs' = [jobs EXCEPT ![job_name_for(c)] = build_job(c)]
    PROVE  Exists(d)' => Exists(d)
<1>1. job_name_for(c) \in Query /\ job_name_for(d) \in Query
  BY DEF job_name_for
<1>2. QED
  BY <1>1, BuildJobType DEF Exists, TypeOK

\* What becomes of a Job does not change its owner.
LEMMA PhaseKeepsOwner ==
    ASSUME TypeOK, NEW d \in Caller
    PROVE  /\ \A c \in Caller, phase \in {"failed", "complete"} :
                 SetPhase(c, phase) => (Exists(d)' => Exists(d))
           /\ \A q \in Query : Controller(q) => (Exists(d)' => Exists(d))
<1>1. job_name_for(d) \in Query
  BY DEF job_name_for
<1>2. ASSUME NEW c \in Caller, NEW phase \in {"failed", "complete"},
             SetPhase(c, phase)
      PROVE  Exists(d)' => Exists(d)
  <2>1. CASE ~Exists(c)
    BY <1>2, <2>1 DEF SetPhase, Exists
  <2>2. CASE Exists(c)
    <3>1. job_name_for(c) \in Query /\ jobs[job_name_for(c)] \in Job
      BY <2>2, NoJobIsNoJob DEF Exists, TypeOK, job_name_for
    <3>2. [jobs[job_name_for(c)] EXCEPT !.phase = phase].owner = c
      BY <2>2, <3>1 DEF Job, Exists
    <3>3. jobs' = [jobs EXCEPT ![job_name_for(c)] =
                     [jobs[job_name_for(c)] EXCEPT !.phase = phase]]
      BY <1>2, <2>2 DEF SetPhase
    <3>4. QED
      BY <1>1, <2>2, <3>1, <3>2, <3>3 DEF Exists, TypeOK
  <2>3. QED
    BY <2>1, <2>2
<1>3. ASSUME NEW q \in Query, DeadlineExceeded(q) PROVE Exists(d)' => Exists(d)
  <2>1. jobs[q] \in Job
    BY <1>3, OwnerType DEF DeadlineExceeded
  <2>2. [jobs[q] EXCEPT !.phase = "failed"].owner = jobs[q].owner
    BY <2>1 DEF Job
  <2>3. jobs' = [jobs EXCEPT ![q] = [jobs[q] EXCEPT !.phase = "failed"]]
    BY <1>3 DEF DeadlineExceeded
  <2>4. QED
    BY <1>1, <2>2, <2>3 DEF Exists, TypeOK
<1>4. ASSUME NEW q \in Query, TtlExpires(q) PROVE Exists(d)' => Exists(d)
  BY <1>1, <1>4, NoJobIsNoJob DEF TtlExpires, Exists, TypeOK
<1>5. QED
  BY <1>2, <1>3, <1>4 DEF Controller

\* Moving a driver on does not end another stream, nor, unless it says so,
\* its own.
LEMMA DriverEnds ==
    ASSUME TypeOK, NEW c \in Caller, NEW d \in Caller
    PROVE  /\ \A pc \in {"create", "wait", "do_get", "streaming"} :
                 Goto(c, pc) => (driver'[d].pc = "over" => driver[d].pc = "over")
           /\ Goto(c, "over") /\ c # d
                 => (driver'[d].pc = "over" => driver[d].pc = "over")
           /\ \A e : Fail(c, e) => (driver'[d].pc = "over" => driver[d].pc = "over")
           /\ \A p \in Caller :
                 driver' = [driver EXCEPT ![c].pc = "connect", ![c].pod = p]
                     => (driver'[d].pc = "over" => driver[d].pc = "over")
<1>1. driver[c] \in Driver /\ driver \in [Caller -> Driver]
  BY DEF TypeOK
<1>2. QED
  BY <1>1 DEF Goto, Fail, Driver

\* Every step keeps every Job watched.
LEMMA WatchedStep ==
    ASSUME TypeOK, AllWatched, [Next]_vars
    PROVE  AllWatched'
<1> SUFFICES ASSUME NEW d \in Caller PROVE Watched(d)'
  BY DEF AllWatched
<1>1. Watched(d)
  BY DEF AllWatched
<1>2. CASE UNCHANGED vars
  BY <1>1, <1>2 DEF Watched, Exists, vars
<1>3. ASSUME NEW c \in Caller, CreateJob(c) PROVE Watched(d)'
  <2>1. CASE d = c
    <3>1. watcher'[d] = "armed"
      BY <1>3, <2>1 DEF CreateJob, TypeOK
    <3>2. driver'[d].pc # "over"
      BY <1>3, <2>1 DEF CreateJob, Goto, TypeOK, Driver
    <3>3. QED
      BY <3>1, <3>2 DEF Watched
  <2>2. CASE d # c
    <3>1. Exists(d)' => Exists(d)
      BY <1>3, <2>2, CreatedIsOwn DEF CreateJob
    <3>2. watcher'[d] = watcher[d] /\ cleanup'[d] = cleanup[d]
      BY <1>3, <2>2 DEF CreateJob, TypeOK
    <3>3. driver'[d].pc = "over" => driver[d].pc = "over"
      BY <1>3, DriverEnds DEF CreateJob
    <3>4. unanswered' = unanswered
      BY <1>3 DEF CreateJob
    <3>5. QED
      BY <1>1, <3>1, <3>2, <3>3, <3>4 DEF Watched
  <2>3. QED
    BY <2>1, <2>2
<1>4. ASSUME NEW c \in Caller, CreateFails(c) PROVE Watched(d)'
  <2>1. /\ watcher' = watcher /\ cleanup' = cleanup
        /\ unanswered \subseteq unanswered'
    BY <1>4 DEF CreateFails
  <2>2. driver'[d].pc = "over" => driver[d].pc = "over"
    BY <1>4, DriverEnds DEF CreateFails
  <2>3. CASE d = c /\ d \in unanswered'
    <3>1. driver'[d].pc # "over"
      BY <1>4, <2>3 DEF CreateFails, Fail, TypeOK, Driver
    <3>2. QED
      BY <2>3, <3>1 DEF Watched
  <2>4. CASE ~(d = c /\ d \in unanswered')
    <3>1. Exists(d)' => Exists(d)
      BY <1>4, <2>4, CreatedIsOwn DEF CreateFails, Exists
    <3>2. QED
      BY <1>1, <2>1, <2>2, <3>1 DEF Watched
  <2>5. QED
    BY <2>3, <2>4
<1>5. ASSUME NEW c \in Caller,
             \/ Spawn(c) \/ PodFound(c) \/ WaitTimesOut(c) \/ CancelWait(c)
             \/ CallFails(c) \/ Connect(c) \/ DoGet(c) \/ DoGetRefused(c)
      PROVE  Watched(d)'
  <2>1. UNCHANGED <<jobs, watcher, cleanup, unanswered>>
    BY <1>5 DEF Spawn, PodFound, WaitTimesOut, CancelWait, CallFails, Connect,
       DoGet, DoGetRefused
  <2>2. driver'[d].pc = "over" => driver[d].pc = "over"
    <3>1. CASE PodFound(c)
      <4>1. PICK p \in SelectedPods(c) :
                \/ Fail(c, "WorkerFailure")
                \/ driver' = [driver EXCEPT ![c].pc = "connect", ![c].pod = p]
        BY <3>1 DEF PodFound
      <4>2. p \in Caller
        BY DEF SelectedPods
      <4>3. QED
        BY <4>1, <4>2, DriverEnds
    <3>2. CASE ~PodFound(c)
      BY <1>5, <3>2, DriverEnds DEF Spawn, WaitTimesOut, CancelWait, CallFails,
         Connect, DoGet, DoGetRefused
    <3>3. QED
      BY <3>1, <3>2
  <2>3. QED
    BY <1>1, <2>1, <2>2 DEF Watched, Exists
<1>6. ASSUME NEW c \in Caller, CleanupStream(c) PROVE Watched(d)'
  <2>1. UNCHANGED <<jobs, watcher, unanswered>>
    BY <1>6 DEF CleanupStream
  <2>2. CASE d = c
    BY <1>1, <1>6, <2>1, <2>2 DEF CleanupStream, Watched, Exists, TypeOK
  <2>3. CASE d # c
    <3>1. cleanup'[d] = cleanup[d]
      BY <1>6, <2>3 DEF CleanupStream, TypeOK
    <3>2. driver'[d].pc = "over" => driver[d].pc = "over"
      BY <1>6, <2>3, DriverEnds DEF CleanupStream
    <3>3. QED
      BY <1>1, <2>1, <3>1, <3>2 DEF Watched, Exists
  <2>4. QED
    BY <2>2, <2>3
<1>7. ASSUME NEW c \in Caller, CancelDelete(c) \/ CleanupDelete(c)
      PROVE  Watched(d)'
  <2>1. UNCHANGED <<driver, unanswered>>
    BY <1>7 DEF CancelDelete, CleanupDelete
  <2>2. CASE delete_job_background(c)
    <3>1. (Exists(d)' => Exists(d)) /\ ~Exists(c)'
      BY <2>2, DeletedIsGone
    <3>2. d # c => watcher'[d] = watcher[d] /\ cleanup'[d] = cleanup[d]
      BY <1>7 DEF CancelDelete, CleanupDelete, TypeOK
    <3>3. QED
      BY <1>1, <2>1, <3>1, <3>2 DEF Watched
  <2>3. CASE ~delete_job_background(c)
    <3>1. /\ UNCHANGED jobs
          /\ watcher'[d] = watcher[d] \/ watcher'[d] = "failed"
          /\ cleanup'[d] = cleanup[d] \/ cleanup'[d] = "failed"
      BY <1>7, <2>3 DEF CancelDelete, CleanupDelete, TypeOK
    <3>2. QED
      BY <1>1, <2>1, <3>1 DEF Watched, Exists
  <2>4. QED
    BY <2>2, <2>3
<1>8. ASSUME NEW c \in Caller,
             Cancel(c) \/ PodStarts(c) \/ CollectPod(c)
      PROVE  Watched(d)'
  BY <1>1, <1>8 DEF Cancel, PodStarts, CollectPod, Watched, Exists
<1>9. ASSUME Exists(d)' => Exists(d),
             UNCHANGED <<driver, watcher, cleanup, unanswered>>
      PROVE  Watched(d)'
  BY <1>1, <1>9 DEF Watched
<1>10. ASSUME NEW c \in Caller, PodSucceeds(c) \/ PodFails(c) PROVE Watched(d)'
  BY <1>9, <1>10, PhaseKeepsOwner DEF PodSucceeds, PodFails
<1>11. ASSUME NEW q \in Query, Controller(q) PROVE Watched(d)'
  <2>1. UNCHANGED <<driver, watcher, cleanup, unanswered>>
    BY <1>11 DEF Controller, DeadlineExceeded, TtlExpires
  <2>2. QED
    BY <1>9, <1>11, <2>1, PhaseKeepsOwner
<1>12. QED
  BY <1>2, <1>3, <1>4, <1>5, <1>6, <1>7, <1>8, <1>10, <1>11
     DEF Next, DriverStep, Kubelet

(***************************************************************************)
(* A Job of no more use is about to be deleted by the task spawn or        *)
(* CleanupStream left behind, whatever the number of callers that share    *)
(* its name and whenever their tokens fire.                                *)
(***************************************************************************)
THEOREM NoAbandonedJobCorrect == Spec => []NoAbandonedJob
<1>1. Init => TypeOK /\ AllWatched
  <2>1. Init => TypeOK
    BY DEF Init, TypeOK, PodPhase, Driver, Result, Task
  <2>2. Init => AllWatched
    BY NoJobIsNoJob DEF Init, AllWatched, Watched, Exists, job_name_for
  <2>3. QED
    BY <2>1, <2>2
<1>2. TypeOK /\ AllWatched /\ [Next]_vars => (TypeOK /\ AllWatched)'
  BY TypeStep, WatchedStep
<1>3. AllWatched => NoAbandonedJob
  BY DEF AllWatched, Watched, NoAbandonedJob
<1>4. QED
  BY <1>1, <1>2, <1>3, PTL DEF Spec
=============================================================================
