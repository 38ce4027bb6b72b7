------------------------------ MODULE JobQueue ------------------------------
(***************************************************************************)
(* The priority job queue of crates/queryfabric-job-queue: the actor and   *)
(* its mailbox (src/actor.rs), the PriorityRunner it owns                  *)
(* (src/priority.rs), the worker task that each dispatch spawns, the job   *)
(* rows and result objects behind the storage traits (src/traits.rs, with  *)
(* the behaviour of the implementations in src/lib.rs), the host that      *)
(* submits and cancels jobs, and the crash and restart of the process that *)
(* contains all of them but the rows and the objects.                      *)
(*                                                                         *)
(* A semaphore permit is the worker slot it stands for: worker[p] is the   *)
(* task that owns permit p, and p is available iff worker[p].pc = "idle".  *)
(* The cancellation token of a running job is named by the permit of its   *)
(* worker; the token of a worker that died without calling finish is       *)
(* "dead".                                                                 *)
(***************************************************************************)
EXTENDS Integers, FiniteSets, Sequences

CONSTANTS
    Jobs,       \* job ids the host may submit, each at most once (Uuid::now_v7)
    Permits,    \* permits of the semaphore in JobQueueArgs
    Priority,   \* the priority of each job; a lower number dispatches first
    NoJob,      \* the absent job id
    Budgets     \* how many events of each kind a behaviour may contain

\* Bounded events: submissions, process crashes, CancelJob and CleanupExpired
\* messages, failing storage calls, panicking executors.
Events == {"submit", "crash", "cancel", "sweep", "fault", "panic"}

ASSUME JobQueueAssumptions ==
    /\ NoJob \notin Jobs
    /\ Priority \in [Jobs -> Int]
    /\ Budgets \subseteq [Events -> Nat]
    /\ {"none", "dead"} \cap Permits = {}

VARIABLES
    row,        \* status column of each job's row, or "New" / "Deleted"
    path,       \* path[j]: the row's result_path is set
    objects,    \* jobs whose result object is in the result store
    phase,      \* how far on_start has come; "up": messages are handled
    boot,       \* pending_jobs() entries on_start has not yet sent to itself
    mailbox,    \* the actor's mailbox
    handler,    \* the handler the actor is suspended in, at a storage call
    pending,    \* the entries of PriorityRunner.pending
    seq,        \* PriorityRunner.seq
    running,    \* PriorityRunner.running: job -> cancellation token
    worker,     \* the worker task that owns each permit
    inflight,   \* jobs the host has inserted and not yet sent to the actor
    abandoned,  \* history: jobs whose outcome a storage error or panic lost
    swept,      \* history: jobs that some expired_jobs() has returned
    twice,      \* history: jobs on_start found although the host is submitting them
    budget      \* how many events of each kind are left

storage == <<row, path, objects, swept>>
runner  == <<pending, seq, running>>
vars == <<row, path, objects, phase, boot, twice, mailbox, handler, pending, seq,
          running, worker, inflight, abandoned, swept, budget>>

-----------------------------------------------------------------------------
(* Types.                                                                  *)

Terminal  == {"Completed", "Failed", "Cancelled"}
JobStatus == {"Pending", "Running"} \cup Terminal
\* A row that was never inserted is "New", one that cleanup removed "Deleted".
RowState  == JobStatus \cup {"New", "Deleted"}

Message == [type : {"SubmitJob", "CancelJob"}, job : Jobs]
           \cup [type : {"DispatchNext", "CleanupExpired"}, job : {NoJob}]
SubmitJob(j)   == [type |-> "SubmitJob", job |-> j]
CancelJob(j)   == [type |-> "CancelJob", job |-> j]
DispatchNext   == [type |-> "DispatchNext", job |-> NoJob]
CleanupExpired == [type |-> "CleanupExpired", job |-> NoJob]

Entry == [job : Jobs, seq : Nat]
Token == Permits \cup {"none", "dead"}

\* "result" is what the executor returned: the status of an Ok result, or
\* "error" for an Err, of the executor or of a storage call on the way.
\* Exactly an idle worker has no job, and a worker that is about to call
\* complete_job has a terminal status to store.
WorkerPc == {"idle", "mark", "load", "exec", "complete", "finish", "fail",
             "tell", "release"}
Worker   == {w \in [pc : WorkerPc, job : Jobs \cup {NoJob},
                    cancelled : BOOLEAN,
                    result : {"none", "error"} \cup Terminal] :
                 /\ w.pc = "idle" <=> w.job = NoJob
                 /\ w.pc = "complete" => w.result \in Terminal}
IdleWorker == [pc |-> "idle", job |-> NoJob, cancelled |-> FALSE,
               result |-> "none"]

\* "cancel": in CancelJob before storage.cancel_job; "sweep": in
\* CleanupExpired before the result of the next expired job is deleted;
\* "sweeprow": before delete_job of handler.job.
Handler == [op : {"cancel", "sweeprow"}, job : Jobs,
            todo : SUBSET (Jobs \X BOOLEAN)]
           \cup [op : {"idle", "sweep"}, job : {NoJob},
                 todo : SUBSET (Jobs \X BOOLEAN)]
IdleHandler == [op |-> "idle", job |-> NoJob, todo |-> {}]

-----------------------------------------------------------------------------
(* Helpers.                                                                *)

Exists(j) == row[j] \in JobStatus

SetRow(j, status) == row' = [row EXCEPT ![j] = status]

Spend(event) == /\ budget[event] > 0
                /\ budget' = [budget EXCEPT ![event] = @ - 1]

Tell(m) == mailbox' = Append(mailbox, m)

\* The actor takes a message of the given type out of its mailbox.
Receive(type) == /\ phase = "up"
                 /\ handler.op = "idle"
                 /\ mailbox # <<>>
                 /\ Head(mailbox).type = type

FreePermits == {p \in Permits : worker[p].pc = "idle"}

\* Entry::cmp, reversed for the max-heap: the entry that pop returns first.
Before(e, f) == \/ Priority[e.job] < Priority[f.job]
                \/ Priority[e.job] = Priority[f.job] /\ e.seq < f.seq
IsTop(e) == e \in pending /\ \A f \in pending \ {e} : Before(e, f)

Holds(s, m) == \E i \in 1..Len(s) : s[i] = m

At(p, pc) == worker[p].pc = pc

\* Worker p goes on to pc with result res.
Goto(p, pc, res) == worker' = [worker EXCEPT ![p].pc = pc, ![p].result = res]

Fault == Spend("fault")
NoFault == UNCHANGED budget

-----------------------------------------------------------------------------
(* Faulty variants of definitions below, each one slip away from the code: *)
(* the properties must tell them from it.                                  *)

\* The sweep of stale rows at startup is skipped.
MarkStale_Skipped ==
    /\ phase = "starting"
    /\ phase' = "loading"
    /\ UNCHANGED <<storage, boot, twice, mailbox, handler, runner, worker, inflight,
                   abandoned, budget>>

\* Startup re-queues failed jobs as well.
LoadPending_AlsoFailed ==
    /\ phase = "loading"
    /\ boot' = {j \in Jobs : row[j] \in {"Pending", "Failed"}}
    /\ twice' = {j \in boot' : j \in inflight \/ Holds(mailbox, SubmitJob(j))}
    /\ phase' = "requeue"
    /\ UNCHANGED <<storage, mailbox, handler, runner, worker, inflight,
                   abandoned, budget>>


\* The popped entry stays in the heap.
HandleDispatchNext_Peeks(p) ==
    /\ Receive("DispatchNext")
    /\ p \in FreePermits
    /\ \E e \in pending :
        /\ IsTop(e)
        /\ running' = [running EXCEPT ![e.job] = p]
        /\ worker' = [worker EXCEPT ![p] = [IdleWorker EXCEPT !.pc = "mark",
                                                              !.job = e.job]]
    /\ mailbox' = Tail(mailbox)
    /\ UNCHANGED <<storage, phase, boot, twice, handler, pending, seq, inflight,
                   abandoned, budget>>

\* try_dispatch pops before it tries to acquire a permit.
HandleDispatchNothing_Pops ==
    /\ Receive("DispatchNext")
    /\ FreePermits = {} \/ pending = {}
    /\ pending' = {e \in pending : ~IsTop(e)}
    /\ mailbox' = Tail(mailbox)
    /\ UNCHANGED <<storage, phase, boot, twice, handler, seq, running, worker,
                   inflight, abandoned, budget>>

\* cancel forgets the token of a running job without cancelling it.
HandleCancelJob_DropsToken ==
    /\ Receive("CancelJob")
    /\ LET j == Head(mailbox).job
       IN  /\ running' = [running EXCEPT ![j] = "none"]
           /\ pending' = {e \in pending : e.job # j}
           /\ handler' = [IdleHandler EXCEPT !.op = "cancel", !.job = j]
    /\ mailbox' = Tail(mailbox)
    /\ UNCHANGED <<storage, phase, boot, twice, seq, worker, inflight, abandoned,
                   budget>>

\* Every result is stored as Completed.
WorkerComplete_IgnoresStatus(p) ==
    LET j == worker[p].job IN
    /\ At(p, "complete")
    /\ \/ /\ NoFault
          /\ Exists(j)
          /\ SetRow(j, "Completed")
          /\ path' = [path EXCEPT ![j] = TRUE]
          /\ Goto(p, "finish", worker[p].result)
       \/ /\ Fault \/ (NoFault /\ ~Exists(j))
          /\ UNCHANGED <<row, path>>
          /\ Goto(p, "finish", "error")
    /\ UNCHANGED <<objects, swept, phase, boot, twice, mailbox, handler, runner,
                   inflight, abandoned>>

-----------------------------------------------------------------------------
(* The host: JobApi::submit inserts the row and then tells the actor;      *)
(* JobApi::cancel sends CancelJob.                                         *)

HostInsert(j) ==
    /\ row[j] = "New"
    /\ Spend("submit")
    /\ SetRow(j, "Pending")
    /\ inflight' = inflight \cup {j}
    /\ UNCHANGED <<path, objects, swept, phase, boot, twice, mailbox, handler, runner,
                   worker, abandoned>>

HostTell(j) ==
    /\ j \in inflight
    /\ Tell(SubmitJob(j))
    /\ inflight' = inflight \ {j}
    /\ UNCHANGED <<storage, phase, boot, twice, handler, runner, worker, abandoned,
                   budget>>

HostCancel(j) ==
    /\ Exists(j)
    /\ Spend("cancel")
    /\ Tell(CancelJob(j))
    /\ UNCHANGED <<storage, phase, boot, twice, handler, runner, worker, inflight,
                   abandoned>>

\* The cleanup ticker, which runs from spawn_and_start on.
Tick ==
    /\ Spend("sweep")
    /\ Tell(CleanupExpired)
    /\ UNCHANGED <<storage, phase, boot, twice, handler, runner, worker, inflight,
                   abandoned>>

-----------------------------------------------------------------------------
(* on_start.  The mailbox accepts messages all the while.                  *)

\* mark_stale_running_failed; an error is only logged.
MarkStale ==
    /\ phase = "starting"
    /\ row' = [j \in Jobs |-> IF row[j] = "Running" THEN "Failed" ELSE row[j]]
    /\ phase' = "loading"
    /\ UNCHANGED <<path, objects, swept, boot, twice, mailbox, handler, runner, worker,
                   inflight, abandoned, budget>>

MarkStaleFails ==
    /\ phase = "starting"
    /\ Spend("fault")
    /\ abandoned' = abandoned \cup {j \in Jobs : row[j] = "Running"}
    /\ phase' = "loading"
    /\ UNCHANGED <<storage, boot, twice, mailbox, handler, runner, worker, inflight>>

\* pending_jobs; an error is only logged and nothing is re-queued.
LoadPending ==
    /\ phase = "loading"
    /\ boot' = {j \in Jobs : row[j] = "Pending"}
    /\ twice' = {j \in boot' : j \in inflight \/ Holds(mailbox, SubmitJob(j))}
    /\ phase' = "requeue"
    /\ UNCHANGED <<storage, mailbox, handler, runner, worker, inflight,
                   abandoned, budget>>

LoadPendingFails ==
    /\ phase = "loading"
    /\ Spend("fault")
    /\ abandoned' = abandoned \cup {j \in Jobs : row[j] = "Pending"}
    /\ phase' = "requeue"
    /\ UNCHANGED <<storage, boot, twice, mailbox, handler, runner, worker, inflight>>

\* The trait promises no order of pending_jobs, so any entry may come next.
Requeue ==
    /\ phase = "requeue"
    /\ \E j \in boot : /\ Tell(SubmitJob(j))
                       /\ boot' = boot \ {j}
    /\ UNCHANGED <<storage, phase, twice, handler, runner, worker, inflight,
                   abandoned, budget>>

Started ==
    /\ phase = "requeue"
    /\ boot = {}
    /\ phase' = "up"
    /\ UNCHANGED <<storage, boot, twice, mailbox, handler, runner, worker, inflight,
                   abandoned, budget>>

\* Only rows and objects survive the process.  The next process starts.
Crash ==
    /\ Spend("crash")
    /\ phase' = "starting"
    /\ boot' = {}
    /\ twice' = {}
    /\ mailbox' = <<>>
    /\ handler' = IdleHandler
    /\ pending' = {}
    /\ seq' = 0
    /\ running' = [j \in Jobs |-> "none"]
    /\ worker' = [p \in Permits |-> IdleWorker]
    /\ inflight' = {}
    /\ abandoned' = {}
    /\ UNCHANGED storage

-----------------------------------------------------------------------------
(* Message handlers of the actor.                                          *)

HandleSubmitJob ==
    /\ Receive("SubmitJob")
    /\ seq' = seq + 1
    /\ pending' = pending \cup {[job |-> Head(mailbox).job, seq |-> seq + 1]}
    /\ mailbox' = Append(Tail(mailbox), DispatchNext)
    /\ UNCHANGED <<storage, phase, boot, twice, handler, running, worker, inflight,
                   abandoned, budget>>

\* try_dispatch found a permit and an entry: the worker task is spawned.
HandleDispatchNext(p) ==
    /\ Receive("DispatchNext")
    /\ p \in FreePermits
    /\ \E e \in pending :
        /\ IsTop(e)
        /\ pending' = pending \ {e}
        /\ running' = [running EXCEPT ![e.job] = p]
        /\ worker' = [worker EXCEPT ![p] = [IdleWorker EXCEPT !.pc = "mark",
                                                              !.job = e.job]]
    /\ mailbox' = Tail(mailbox)
    /\ UNCHANGED <<storage, phase, boot, twice, handler, seq, inflight, abandoned,
                   budget>>

\* try_dispatch returned None: saturated, or nothing pending.
HandleDispatchNothing ==
    /\ Receive("DispatchNext")
    /\ FreePermits = {} \/ pending = {}
    /\ mailbox' = Tail(mailbox)
    /\ UNCHANGED <<storage, phase, boot, twice, handler, runner, worker, inflight,
                   abandoned, budget>>

\* PriorityRunner::cancel, up to the handler's first storage call.
HandleCancelJob ==
    /\ Receive("CancelJob")
    /\ LET j == Head(mailbox).job
       IN  /\ running' = [running EXCEPT ![j] = "none"]
           /\ pending' = IF running[j] = "none"
                           THEN {e \in pending : e.job # j}
                           ELSE pending
           /\ worker' = IF running[j] \in Permits
                          THEN [worker EXCEPT ![running[j]].cancelled = TRUE]
                          ELSE worker
           /\ handler' = [IdleHandler EXCEPT !.op = "cancel", !.job = j]
    /\ mailbox' = Tail(mailbox)
    /\ UNCHANGED <<storage, phase, boot, twice, seq, inflight, abandoned, budget>>

\* load_job only feeds the metrics; cancel_job overwrites any status and
\* answers NotFound when there is no row.
CancelRow ==
    /\ handler.op = "cancel"
    /\ row' = IF Exists(handler.job)
                THEN [row EXCEPT ![handler.job] = "Cancelled"]
                ELSE row
    /\ handler' = IdleHandler
    /\ UNCHANGED <<path, objects, swept, phase, boot, twice, mailbox, runner, worker,
                   inflight, abandoned, budget>>

\* load_job or cancel_job fails: the caller gets the error, the queue has
\* already let go of the job.
CancelRowFails ==
    /\ handler.op = "cancel"
    /\ Spend("fault")
    /\ handler' = IdleHandler
    /\ abandoned' = IF row[handler.job] = "Pending"
                      THEN abandoned \cup {handler.job}
                      ELSE abandoned
    /\ UNCHANGED <<storage, phase, boot, twice, mailbox, runner, worker, inflight>>

\* expired_jobs: terminal rows past expires_at; which ones is up to the
\* clock.  A failing query is the same as an empty answer.
HandleCleanupExpired ==
    /\ Receive("CleanupExpired")
    /\ \E expired \in SUBSET {j \in Jobs : row[j] \in Terminal} :
        /\ swept' = swept \cup expired
        /\ handler' = IF expired = {}
                        THEN IdleHandler
                        ELSE [op |-> "sweep", job |-> NoJob,
                              todo |-> {<<j, path[j]>> : j \in expired}]
    /\ mailbox' = Tail(mailbox)
    /\ UNCHANGED <<row, path, objects, phase, boot, twice, runner, worker, inflight, abandoned,
                   budget>>

\* result_store.delete of the path read by expired_jobs.
SweepResult ==
    /\ handler.op = "sweep"
    /\ \E t \in handler.todo :
        /\ objects' = IF t[2] THEN objects \ {t[1]} ELSE objects
        /\ handler' = [op |-> "sweeprow", job |-> t[1],
                       todo |-> handler.todo \ {t}]
    /\ UNCHANGED <<row, path, swept, phase, boot, twice, mailbox, runner, worker, inflight,
                   abandoned, budget>>

SweepResultFails ==
    /\ handler.op = "sweep"
    /\ Spend("fault")
    /\ \E t \in handler.todo :
        /\ t[2]
        /\ handler' = [op |-> "sweeprow", job |-> t[1],
                       todo |-> handler.todo \ {t}]
    /\ UNCHANGED <<storage, phase, boot, twice, mailbox, runner, worker, inflight,
                   abandoned>>

\* The loop goes on with the next expired job, or the handler returns.
AfterRow == IF handler.todo = {} THEN IdleHandler
            ELSE [handler EXCEPT !.op = "sweep", !.job = NoJob]

SweepRow ==
    /\ handler.op = "sweeprow"
    /\ SetRow(handler.job, "Deleted")
    /\ path' = [path EXCEPT ![handler.job] = FALSE]
    /\ handler' = AfterRow
    /\ UNCHANGED <<objects, swept, phase, boot, twice, mailbox, runner, worker, inflight,
                   abandoned, budget>>

SweepRowFails ==
    /\ handler.op = "sweeprow"
    /\ Spend("fault")
    /\ handler' = AfterRow
    /\ UNCHANGED <<storage, phase, boot, twice, mailbox, runner, worker, inflight,
                   abandoned>>

-----------------------------------------------------------------------------
(* The worker task.                                                        *)

\* storage.mark_running: overwrites any status, NotFound without a row.
WorkerMark(p) ==
    LET j == worker[p].job IN
    /\ At(p, "mark")
    /\ \/ /\ NoFault
          /\ Exists(j)
          /\ SetRow(j, "Running")
          /\ Goto(p, "load", "none")
       \/ /\ Fault \/ (NoFault /\ ~Exists(j))
          /\ UNCHANGED row
          /\ Goto(p, "finish", "error")
    /\ UNCHANGED <<path, objects, swept, phase, boot, twice, mailbox, handler, runner,
                   inflight, abandoned>>

WorkerLoad(p) ==
    /\ At(p, "load")
    /\ \/ NoFault /\ Exists(worker[p].job) /\ Goto(p, "exec", "none")
       \/ /\ Fault \/ (NoFault /\ ~Exists(worker[p].job))
          /\ Goto(p, "finish", "error")
    /\ UNCHANGED <<storage, phase, boot, twice, mailbox, handler, runner, inflight,
                   abandoned>>

\* The executor is the host's.  It may write the result object and report
\* Completed, report Failed, report Cancelled once its token is cancelled, or
\* return an error; it need not notice the cancellation.
WorkerExecute(p) ==
    /\ At(p, "exec")
    /\ \/ /\ Goto(p, "complete", "Completed")
          /\ objects' = objects \cup {worker[p].job}
       \/ /\ Goto(p, "complete", "Failed")
          /\ UNCHANGED objects
       \/ /\ worker[p].cancelled
          /\ Goto(p, "complete", "Cancelled")
          /\ UNCHANGED objects
       \/ /\ Goto(p, "finish", "error")
          /\ UNCHANGED objects
    /\ UNCHANGED <<row, path, swept, phase, boot, twice, mailbox, handler, runner,
                   inflight, abandoned, budget>>

\* storage.complete_job.
WorkerComplete(p) ==
    LET j == worker[p].job IN
    /\ At(p, "complete")
    /\ \/ /\ NoFault
          /\ Exists(j)
          /\ SetRow(j, worker[p].result)
          /\ path' = [path EXCEPT ![j] = worker[p].result = "Completed"]
          /\ Goto(p, "finish", worker[p].result)
       \/ /\ Fault \/ (NoFault /\ ~Exists(j))
          /\ UNCHANGED <<row, path>>
          /\ Goto(p, "finish", "error")
    /\ UNCHANGED <<objects, swept, phase, boot, twice, mailbox, handler, runner,
                   inflight, abandoned>>

\* RunnerHandle::finish removes the job's entry, whoever's token it holds.
WorkerFinish(p) ==
    /\ At(p, "finish")
    /\ Goto(p, IF worker[p].result = "error" THEN "fail" ELSE "tell",
            worker[p].result)
    /\ running' = [running EXCEPT ![worker[p].job] = "none"]
    /\ UNCHANGED <<storage, phase, boot, twice, mailbox, handler, pending, seq,
                   inflight, abandoned, budget>>

\* storage.fail_job; its own error is dropped.
WorkerFail(p) ==
    LET j == worker[p].job IN
    /\ At(p, "fail")
    /\ Goto(p, "tell", "error")
    /\ \/ /\ NoFault
          /\ row' = IF Exists(j) THEN [row EXCEPT ![j] = "Failed"] ELSE row
          /\ UNCHANGED abandoned
       \/ /\ Fault
          /\ abandoned' = abandoned \cup {j}
          /\ UNCHANGED row
    /\ UNCHANGED <<path, objects, swept, phase, boot, twice, mailbox, handler, runner,
                   inflight>>

\* actor_ref.tell(DispatchNext), while the task still owns its permit.
WorkerTell(p) ==
    /\ At(p, "tell")
    /\ Goto(p, "release", worker[p].result)
    /\ Tell(DispatchNext)
    /\ UNCHANGED <<storage, phase, boot, twice, handler, runner, inflight, abandoned,
                   budget>>

\* The task ends and drops _permit.
WorkerRelease(p) ==
    /\ At(p, "release")
    /\ worker' = [worker EXCEPT ![p] = IdleWorker]
    /\ UNCHANGED <<storage, phase, boot, twice, mailbox, handler, runner, inflight,
                   abandoned, budget>>

\* execute panics: spawn_traced catches it, the permit is dropped in the
\* unwinding, and neither finish nor DispatchNext happens.
WorkerPanic(p) ==
    LET j == worker[p].job IN
    /\ At(p, "exec")
    /\ Spend("panic")
    /\ running' = [running EXCEPT ![j] = IF @ = p THEN "dead" ELSE @]
    /\ worker' = [worker EXCEPT ![p] = IdleWorker]
    /\ abandoned' = abandoned \cup {j}
    /\ UNCHANGED <<storage, phase, boot, twice, mailbox, handler, pending, seq,
                   inflight>>

-----------------------------------------------------------------------------
Init ==
    /\ row = [j \in Jobs |-> "New"]
    /\ path = [j \in Jobs |-> FALSE]
    /\ objects = {}
    /\ phase = "starting"
    /\ boot = {}
    /\ twice = {}
    /\ mailbox = <<>>
    /\ handler = IdleHandler
    /\ pending = {}
    /\ seq = 0
    /\ running = [j \in Jobs |-> "none"]
    /\ worker = [p \in Permits |-> IdleWorker]
    /\ inflight = {}
    /\ abandoned = {}
    /\ swept = {}
    /\ budget \in Budgets

OnStart == \/ MarkStale \/ MarkStaleFails \/ LoadPending \/ LoadPendingFails
           \/ Requeue \/ Started

Handle == \/ HandleSubmitJob \/ HandleDispatchNothing \/ HandleCancelJob
          \/ HandleCleanupExpired \/ CancelRow \/ CancelRowFails
          \/ SweepResult \/ SweepResultFails \/ SweepRow \/ SweepRowFails
          \/ \E p \in Permits : HandleDispatchNext(p)

Work(p) == \/ WorkerMark(p) \/ WorkerLoad(p) \/ WorkerExecute(p)
           \/ WorkerComplete(p) \/ WorkerFinish(p) \/ WorkerFail(p)
           \/ WorkerTell(p) \/ WorkerRelease(p)

Next == \/ \E j \in Jobs : HostInsert(j) \/ HostTell(j) \/ HostCancel(j)
        \/ Tick
        \/ OnStart
        \/ Handle
        \/ \E p \in Permits : Work(p) \/ WorkerPanic(p)
        \/ Crash

Spec == Init /\ [][Next]_vars

\* The runtime keeps polling the actor and every worker task, an executor
\* returns, and a host that inserted a row goes on to tell the actor.
Fairness == /\ WF_vars(OnStart)
            /\ WF_vars(Handle)
            /\ \A p \in Permits : WF_vars(Work(p))
            /\ \A j \in Jobs : WF_vars(HostTell(j))

FairSpec == Spec /\ Fairness
-----------------------------------------------------------------------------
(* Properties.                                                             *)

\* Every variable has its type.
TypeOK ==
    /\ row \in [Jobs -> RowState]
    /\ path \in [Jobs -> BOOLEAN]
    /\ objects \in SUBSET Jobs
    /\ phase \in {"starting", "loading", "requeue", "up"}
    /\ boot \in SUBSET Jobs
    /\ twice \in SUBSET Jobs
    /\ mailbox \in Seq(Message)
    /\ handler \in Handler
    /\ pending \in SUBSET Entry
    /\ seq \in Nat
    /\ running \in [Jobs -> Token]
    /\ worker \in [Permits -> Worker]
    /\ inflight \in SUBSET Jobs
    /\ abandoned \in SUBSET Jobs
    /\ swept \in SUBSET Jobs
    /\ budget \in [Events -> Nat]

\* The worker of p has yet to write an outcome into its job's row.
Owns(p) == \/ worker[p].pc \in {"mark", "load", "exec", "complete", "fail"}
           \/ worker[p].pc = "finish" /\ worker[p].result = "error"

OwnedBy(j, p) == worker[p].job = j /\ Owns(p)

\* Some part of the process still has job j to do.
Tracked(j) == \/ j \in inflight \cup boot
              \/ Holds(mailbox, SubmitJob(j))
              \/ \E e \in pending : e.job = j
              \/ \E p \in Permits : OwnedBy(j, p)

\* Once on_start has dealt with the rows of the previous process, a row that
\* says Running belongs to a worker that will still write its outcome, unless
\* a panic or a storage error lost that outcome: no crash, cancellation,
\* cleanup or second run leaves a row Running for ever.
RunningHasWorker ==
    phase # "starting" =>
        \A j \in Jobs : row[j] = "Running" =>
            j \in abandoned \/ \E p \in Permits : OwnedBy(j, p)

\* No accepted job is forgotten: once on_start has read the pending rows, a
\* row that says Pending is on its way to a worker or to being cancelled,
\* unless a storage error dropped it.
PendingIsTracked ==
    phase \in {"requeue", "up"} =>
        \A j \in Jobs : row[j] = "Pending" =>
            \/ j \in abandoned
            \/ Tracked(j)
            \/ handler.op = "cancel" /\ handler.job = j

\* A terminal row that no part of the process tracks is final: no step, not a
\* restart either, revives the job; its row may only be cancelled or deleted.
SettledIsFinal ==
    [][\A j \in Jobs : row[j] \in Terminal /\ ~Tracked(j) =>
           /\ row'[j] \in {row[j], "Cancelled", "Deleted"}
           /\ ~Tracked(j)']_vars

\* The result object of a Completed job stays in the result store until a
\* sweep has found the job expired.
ResultUntilExpiry ==
    \A j \in Jobs : row[j] = "Completed" => j \in objects \cup swept

\* A job has at most one worker at a time, but for the ones that the host
\* submitted while on_start was reading the rows (actor.rs:183) and that are
\* therefore queued twice.
NoDoubleRun ==
    \A p, q \in Permits :
        p # q /\ worker[p].pc # "idle" /\ worker[p].job = worker[q].job
            => worker[p].job \in twice

\* A worker that has not been cancelled can be: until it calls finish, the
\* running map holds its token, so that CancelJob reaches it.  Of a job queued
\* twice the worker that ends first takes the other's token (priority.rs:205).
TokenTracksWorker ==
    \A p \in Permits :
        /\ worker[p].pc \in {"mark", "load", "exec", "complete", "finish"}
        /\ ~worker[p].cancelled /\ worker[p].job \notin twice
        => running[worker[p].job] = p

\* Every accepted job is dispatched and reaches a terminal state, unless a
\* storage error or a panic lost its outcome.
EveryJobSettles ==
    \A j \in Jobs : row[j] \in {"Pending", "Running"}
                        ~> row[j] \in Terminal \cup {"Deleted"} \/ j \in abandoned

\* A dispatch is asked for while every permit is taken.
TurnedDown == Receive("DispatchNext") /\ FreePermits = {} /\ pending # {}

\* Nothing will ask for a dispatch, although every permit is free.
Asleep ==
    /\ phase = "up" /\ handler.op = "idle" /\ mailbox = <<>>
    /\ inflight = {} /\ FreePermits = Permits

=============================================================================
