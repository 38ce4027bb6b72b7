------------------------- MODULE IsolatedExecution --------------------------
(***************************************************************************)
(* A query that runs in a Job of its own: the Kubernetes driver of         *)
(* crates/queryfabric-runtime-k8s creates the Job, waits for its pod,      *)
(* connects to the one-shot worker of crates/queryfabric-worker and hands  *)
(* the stream to its caller; background tasks delete the Job when the      *)
(* caller's token fires and when the stream is over.  API calls fail,      *)
(* their answers get lost, pods fail, and callers of the same query share  *)
(* a Job name.                                                             *)
(*                                                                         *)
(* A caller is one call of spawn.  Kubernetes is external: it is modelled  *)
(* by the manifest the driver builds (one pod that is never restarted, an  *)
(* active deadline, a TTL) and by deletion in the background, which        *)
(* removes the Job at once and its pod later.                              *)
(***************************************************************************)
EXTENDS Naturals

CONSTANTS
    Caller,
    Query,
    QueryOf,            \* the query of each caller
    StorageOf,          \* the storage mode of each caller's IsolatedJobSpec
    SnapshotClone,      \* is the feature of that name compiled in?
    TicketsOf,          \* what the worker image of each caller's driver takes
                        \* for a ticket: WorkerFlightService only a query_hash
    NoCaller,
    Budget              \* how many events of each kind a behaviour contains

\* API calls that fail, answers to create that are lost, tokens that fire,
\* pods that fail by themselves.
Events == {"fault", "lost", "cancel", "podfail"}

StorageMode == {"replicated-read-only", "snapshot-clone", "object-store"}
Tickets == {"query_json", "query_hash"}

ASSUME IsolationAssumptions ==
    /\ QueryOf \in [Caller -> Query]
    /\ StorageOf \in [Caller -> StorageMode]
    /\ SnapshotClone \in BOOLEAN
    /\ TicketsOf \in [Caller -> SUBSET Tickets]
    /\ NoCaller \notin Caller
    /\ Budget \in [Events -> Nat]

VARIABLES
    jobs,       \* the Job objects of the namespace, by name
    pods,       \* the pod of the Job each caller created
    driver,     \* where the call of spawn, and then its stream, is
    token,      \* which CancellationTokens have fired
    watcher,    \* the tasks of spawn_cancel_delete_task
    cleanup,    \* the tasks of CleanupStream::schedule_cleanup
    unanswered, \* history: callers whose create succeeded without an answer
    budget

vars == <<jobs, pods, driver, token, watcher, cleanup, unanswered, budget>>

-----------------------------------------------------------------------------
(* Types.                                                                  *)

\* backoff_limit is 0 and restart_policy Never, so a Job has one pod and ends
\* with it.
Job == [owner : Caller, phase : {"active", "failed", "complete"},
        deadline : BOOLEAN, ttl : BOOLEAN, mode : StorageMode]
NoJob == [owner |-> NoCaller]

\* A "serving" worker answers DoGet; a "draining" one has signalled its
\* shutdown and only finishes the streams it has opened.
PodPhase == {"none", "pending", "serving", "draining", "succeeded", "failed"}

\* DriverError, and "none".
Result == {"none", "Spawn", "Timeout", "Cancelled", "WorkerFailure"}
Driver == [pc : {"idle", "create", "wait", "connect", "do_get", "streaming",
                 "over", "error"},
           pod : Caller \cup {NoCaller}, result : Result]

Task == {"none", "armed", "done", "failed"}

TypeOK ==
    /\ jobs \in [Query -> Job \cup {NoJob}]
    /\ pods \in [Caller -> PodPhase]
    /\ driver \in [Caller -> Driver]
    /\ token \in [Caller -> BOOLEAN]
    /\ watcher \in [Caller -> Task]
    /\ cleanup \in [Caller -> Task]
    /\ unanswered \subseteq Caller
    /\ budget \in [Events -> Nat]

-----------------------------------------------------------------------------
(* Helpers.                                                                *)

Spend(event) == /\ budget[event] > 0
                /\ budget' = [budget EXCEPT ![event] = @ - 1]

\* The name of a Job is derived from the query hash alone.
job_name_for(c) == QueryOf[c]

Exists(c) == jobs[job_name_for(c)].owner = c

\* The ticket the driver sends is the serialized query.
DriverTicket == "query_json"

\* Storage for the worker: a snapshot clone needs the feature.
storage_artifacts(c) ==
    StorageOf[c] # "snapshot-clone" \/ SnapshotClone

\* The pods job_label_selector finds: every pod that carries the name, the pod
\* of a Job of that name that has been deleted too.
SelectedPods(c) ==
    {p \in Caller : job_name_for(p) = job_name_for(c) /\ pods[p] # "none"}
pod_is_failed(p) == pods[p] = "failed"
pod_is_ready(p) == pods[p] \in {"serving", "draining"}

Goto(c, pc) == driver' = [driver EXCEPT ![c].pc = pc]
Fail(c, error) ==
    driver' = [driver EXCEPT ![c].pc = "error", ![c].result = error]

\* delete_job_background: deletes by name, and a missing Job is no error.
\* With background propagation the pod stays until it is collected.
delete_job_background(c) ==
    jobs' = [jobs EXCEPT ![job_name_for(c)] = NoJob]

-----------------------------------------------------------------------------
(* Faulty variants of definitions below.                                   *)

\* The manifest has no ttl_seconds_after_finished.
build_job_Untimed(c) ==
    [owner |-> c, phase |-> "active", deadline |-> TRUE, ttl |-> FALSE,
     mode |-> StorageOf[c]]

\* The stream ends without deleting its Job.
CleanupStream_Forgets(c) ==
    /\ driver[c].pc = "streaming"
    /\ Goto(c, "over")
    /\ UNCHANGED <<jobs, pods, token, watcher, cleanup, unanswered, budget>>

\* The driver waits for ever for a pod.
WaitTimesOut_Never(c) == FALSE /\ UNCHANGED vars

-----------------------------------------------------------------------------
(* The driver.                                                             *)

\* The manifest of the Job.  It tells the worker the storage mode in an
\* environment variable.
build_job(c) ==
    [owner |-> c, phase |-> "active", deadline |-> TRUE, ttl |-> TRUE,
     mode |-> StorageOf[c]]

\* spawn up to its first await.
Spawn(c) ==
    /\ driver[c].pc = "idle"
    /\ \/ token[c] /\ Fail(c, "Cancelled")
       \/ ~token[c] /\ ~storage_artifacts(c) /\ Fail(c, "Spawn")
       \/ ~token[c] /\ storage_artifacts(c) /\ Goto(c, "create")
    /\ UNCHANGED <<jobs, pods, token, watcher, cleanup, unanswered, budget>>

\* jobs.create succeeds, and the cancellation watcher is spawned.
CreateJob(c) ==
    /\ driver[c].pc = "create"
    /\ jobs[job_name_for(c)] = NoJob
    /\ jobs' = [jobs EXCEPT ![job_name_for(c)] = build_job(c)]
    /\ pods' = [pods EXCEPT ![c] = "pending"]
    /\ watcher' = [watcher EXCEPT ![c] = "armed"]
    /\ Goto(c, "wait")
    /\ UNCHANGED <<token, cleanup, unanswered, budget>>

\* jobs.create fails: the name is taken, the API refuses, or its answer is
\* lost and the Job exists all the same.
CreateFails(c) ==
    /\ driver[c].pc = "create"
    /\ \/ /\ jobs[job_name_for(c)] # NoJob
          /\ UNCHANGED <<jobs, pods, unanswered, budget>>
       \/ Spend("fault") /\ UNCHANGED <<jobs, pods, unanswered>>
       \/ /\ jobs[job_name_for(c)] = NoJob
          /\ Spend("lost")
          /\ jobs' = [jobs EXCEPT ![job_name_for(c)] = build_job(c)]
          /\ pods' = [pods EXCEPT ![c] = "pending"]
          /\ unanswered' = unanswered \cup {c}
    /\ Fail(c, "Spawn")
    /\ UNCHANGED <<token, watcher, cleanup>>

\* wait_for_ready_pod returns the first pod in the list that is failed or
\* ready.  The token may have fired since it was looked at.
PodFound(c) ==
    /\ driver[c].pc = "wait"
    /\ \E p \in SelectedPods(c) :
          \/ pod_is_failed(p) /\ Fail(c, "WorkerFailure")
          \/ /\ pod_is_ready(p)
             /\ driver' = [driver EXCEPT ![c].pc = "connect", ![c].pod = p]
    /\ UNCHANGED <<jobs, pods, token, watcher, cleanup, unanswered, budget>>

\* The deadline of wait_for_ready_pod.
WaitTimesOut(c) ==
    /\ driver[c].pc = "wait" /\ ~token[c]
    /\ Fail(c, "Timeout")
    /\ UNCHANGED <<jobs, pods, token, watcher, cleanup, unanswered, budget>>

\* Waiting and DoGet are given up when the token fires.
CancelWait(c) ==
    /\ driver[c].pc \in {"wait", "do_get"} /\ token[c]
    /\ Fail(c, "Cancelled")
    /\ UNCHANGED <<jobs, pods, token, watcher, cleanup, unanswered, budget>>

\* Listing pods, connecting or DoGet fails with an error of the API or of the
\* transport.
CallFails(c) ==
    /\ driver[c].pc \in {"wait", "connect", "do_get"}
    /\ Spend("fault")
    /\ Fail(c, "Spawn")
    /\ UNCHANGED <<jobs, pods, token, watcher, cleanup, unanswered>>

\* connect_flight: a worker that has gone, or that has signalled its shutdown,
\* takes no new connection.
Connect(c) ==
    /\ driver[c].pc = "connect"
    /\ IF pods[driver[c].pod] = "serving" THEN Goto(c, "do_get")
                                          ELSE Fail(c, "Spawn")
    /\ UNCHANGED <<jobs, pods, token, watcher, cleanup, unanswered, budget>>

\* WorkerFlightService::do_get: an accepted ticket is executed, and the worker
\* signals its shutdown as it returns the stream.  A draining worker still
\* answers on a connection it has.
DoGet(c) ==
    LET p == driver[c].pod IN
    /\ driver[c].pc = "do_get"
    /\ pods[p] \in {"serving", "draining"}
    /\ DriverTicket \in TicketsOf[p]
    /\ pods' = [pods EXCEPT ![p] = "draining"]
    /\ Goto(c, "streaming")
    /\ UNCHANGED <<jobs, token, watcher, cleanup, unanswered, budget>>

\* DoGet is refused: the ticket does not match, or the worker is no more.
DoGetRefused(c) ==
    /\ driver[c].pc = "do_get"
    /\ \/ DriverTicket \notin TicketsOf[driver[c].pod]
       \/ pods[driver[c].pod] \notin {"serving", "draining"}
    /\ Fail(c, "Spawn")
    /\ UNCHANGED <<jobs, pods, token, watcher, cleanup, unanswered, budget>>

\* The stream returns None, or its consumer drops it, which it does at any
\* time and after an error: either way schedule_cleanup spawns its task once.
CleanupStream(c) ==
    /\ driver[c].pc = "streaming"
    /\ Goto(c, "over")
    /\ cleanup' = [cleanup EXCEPT ![c] = "armed"]
    /\ UNCHANGED <<jobs, pods, token, watcher, unanswered, budget>>

-----------------------------------------------------------------------------
(* The two background tasks.  Neither tries again.                         *)

CancelDelete(c) ==
    /\ watcher[c] = "armed" /\ token[c]
    /\ \/ /\ delete_job_background(c)
          /\ watcher' = [watcher EXCEPT ![c] = "done"]
          /\ UNCHANGED budget
       \/ /\ Spend("fault")
          /\ watcher' = [watcher EXCEPT ![c] = "failed"]
          /\ UNCHANGED jobs
    /\ UNCHANGED <<pods, driver, token, cleanup, unanswered>>

CleanupDelete(c) ==
    /\ cleanup[c] = "armed"
    /\ \/ /\ delete_job_background(c)
          /\ cleanup' = [cleanup EXCEPT ![c] = "done"]
          /\ UNCHANGED budget
       \/ /\ Spend("fault")
          /\ cleanup' = [cleanup EXCEPT ![c] = "failed"]
          /\ UNCHANGED jobs
    /\ UNCHANGED <<pods, driver, token, watcher, unanswered>>

\* The owner of a token cancels it, before, during or after the call.
Cancel(c) ==
    /\ ~token[c] /\ Spend("cancel")
    /\ token' = [token EXCEPT ![c] = TRUE]
    /\ UNCHANGED <<jobs, pods, driver, watcher, cleanup, unanswered>>

-----------------------------------------------------------------------------
(* Kubernetes.                                                             *)

SetPhase(c, phase) ==
    jobs' = IF Exists(c)
            THEN [jobs EXCEPT ![job_name_for(c)].phase = phase] ELSE jobs

PodStarts(c) ==
    /\ pods[c] = "pending" /\ Exists(c)
    /\ pods' = [pods EXCEPT ![c] = "serving"]
    /\ UNCHANGED <<jobs, driver, token, watcher, cleanup, unanswered, budget>>

PodFails(c) ==
    /\ pods[c] \in {"pending", "serving", "draining"}
    /\ Spend("podfail")
    /\ pods' = [pods EXCEPT ![c] = "failed"]
    /\ SetPhase(c, "failed")
    /\ UNCHANGED <<driver, token, watcher, cleanup, unanswered>>

\* The server waits for its open streams, then the worker exits.
PodSucceeds(c) ==
    /\ pods[c] = "draining"
    /\ \A d \in Caller : driver[d].pod = c => driver[d].pc # "streaming"
    /\ pods' = [pods EXCEPT ![c] = "succeeded"]
    /\ SetPhase(c, "complete")
    /\ UNCHANGED <<driver, token, watcher, cleanup, unanswered, budget>>

\* active_deadline_seconds: the pod is killed and the Job has failed.
DeadlineExceeded(q) ==
    /\ jobs[q] # NoJob /\ jobs[q].phase = "active" /\ jobs[q].deadline
    /\ jobs' = [jobs EXCEPT ![q].phase = "failed"]
    /\ pods' = [pods EXCEPT ![jobs[q].owner] = "none"]
    /\ UNCHANGED <<driver, token, watcher, cleanup, unanswered, budget>>

\* ttl_seconds_after_finished.
TtlExpires(q) ==
    /\ jobs[q] # NoJob /\ jobs[q].phase # "active" /\ jobs[q].ttl
    /\ jobs' = [jobs EXCEPT ![q] = NoJob]
    /\ UNCHANGED <<pods, driver, token, watcher, cleanup, unanswered, budget>>

\* The pod of a deleted Job is collected.
CollectPod(c) ==
    /\ pods[c] # "none" /\ ~Exists(c)
    /\ pods' = [pods EXCEPT ![c] = "none"]
    /\ UNCHANGED <<jobs, driver, token, watcher, cleanup, unanswered, budget>>

-----------------------------------------------------------------------------
Init ==
    /\ jobs = [q \in Query |-> NoJob]
    /\ pods = [c \in Caller |-> "none"]
    /\ driver = [c \in Caller |->
                    [pc |-> "idle", pod |-> NoCaller, result |-> "none"]]
    /\ token = [c \in Caller |-> FALSE]
    /\ watcher = [c \in Caller |-> "none"]
    /\ cleanup = [c \in Caller |-> "none"]
    /\ unanswered = {}
    /\ budget = Budget

DriverStep(c) ==
    \/ CreateJob(c) \/ CreateFails(c) \/ PodFound(c) \/ WaitTimesOut(c)
    \/ CancelWait(c) \/ CallFails(c) \/ Connect(c) \/ DoGet(c)
    \/ DoGetRefused(c)

Kubelet(c) == PodStarts(c) \/ PodSucceeds(c) \/ CollectPod(c)

Controller(q) == DeadlineExceeded(q) \/ TtlExpires(q)

Next ==
    \/ \E c \in Caller :
          \/ Spawn(c) \/ DriverStep(c) \/ CleanupStream(c)
          \/ CancelDelete(c) \/ CleanupDelete(c) \/ Cancel(c)
          \/ Kubelet(c) \/ PodFails(c)
    \/ \E q \in Query : Controller(q)

Spec == Init /\ [][Next]_vars

\* Tokio polls the tasks, Kubernetes' controllers run, and time passes for
\* deadlines.  Nobody has to call spawn, to cancel or to drop a stream.
FairSpec ==
    /\ Spec
    /\ \A c \in Caller :
          /\ WF_vars(DriverStep(c))
          /\ WF_vars(CancelDelete(c))
          /\ WF_vars(CleanupDelete(c))
          /\ WF_vars(CollectPod(c))
    /\ \A q \in Query : WF_vars(Controller(q))

-----------------------------------------------------------------------------
(* Properties.                                                             *)

\* A Job that is of no more use - its stream is over, or its caller's token
\* has fired - is about to be deleted by the task spawn or CleanupStream left
\* behind, unless the API refused the deletion, or spawn never learnt that it
\* had created the Job.  In particular a token that fires between the check at
\* the beginning of spawn and the creation of the Job is not overlooked.
NoAbandonedJob ==
    \A c \in Caller :
        /\ Exists(c)
        /\ token[c] \/ driver[c].pc = "over"
        => \/ c \in unanswered
           \/ token[c] /\ watcher[c] \in {"armed", "failed"}
           \/ driver[c].pc = "over" /\ cleanup[c] \in {"armed", "failed"}

\* Whatever fails - also when spawn fails after it has created the Job, where
\* neither task deletes it - every Job is gone in the end, because the
\* manifest bounds its run and its rest.
EveryJobIsDeleted == \A c \in Caller : Exists(c) ~> ~Exists(c)

\* A call of spawn that has begun returns a stream or an error.
SpawnReturns ==
    \A c \in Caller :
        driver[c].pc = "create" ~> driver[c].pc \in {"streaming", "over", "error"}
=============================================================================
