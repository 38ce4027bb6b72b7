--------------------------- MODULE JobQueueProofs ---------------------------
(***************************************************************************)
(* Theorems about JobQueue, for every set of jobs and permits and every    *)
(* budget of submissions, crashes, cancellations, sweeps, faults and       *)
(* panics.                                                                 *)
(***************************************************************************)
EXTENDS JobQueue, TLAPS

\* Facts about the mailbox, a sequence of messages.
LEMMA MailboxTail ==
    ASSUME mailbox \in Seq(Message), mailbox # <<>>
    PROVE  /\ Head(mailbox) \in Message
           /\ Tail(mailbox) \in Seq(Message)
  OBVIOUS

\* Appending a message keeps the mailbox a sequence of messages.
LEMMA MailboxAppend ==
    ASSUME NEW s \in Seq(Message), NEW m \in Message
    PROVE  Append(s, m) \in Seq(Message)
  OBVIOUS

\* What the actor may send.
LEMMA MessageTypes ==
    /\ DispatchNext \in Message
    /\ CleanupExpired \in Message
    /\ \A j \in Jobs : SubmitJob(j) \in Message /\ CancelJob(j) \in Message
  BY DEF Message, DispatchNext, CleanupExpired, SubmitJob, CancelJob

\* The idle worker and the idle handler are well-formed.
LEMMA IdleTypes == IdleWorker \in Worker /\ IdleHandler \in Handler
  BY DEF IdleWorker, Worker, WorkerPc, IdleHandler, Handler, Terminal

\* A worker step that changes pc and result keeps the worker well-formed.
LEMMA GotoType ==
    ASSUME TypeOK, NEW p \in Permits, worker[p].pc # "idle",
           NEW pc \in WorkerPc \ {"idle"},
           NEW res \in {"none", "error"} \cup Terminal,
           pc = "complete" => res \in Terminal,
           Goto(p, pc, res)
    PROVE  worker' \in [Permits -> Worker]
  <1> DEFINE w == [worker[p] EXCEPT !.pc = pc, !.result = res]
  <1>1. worker[p] \in Worker
    BY DEF TypeOK
  <1>2. w \in Worker
    BY <1>1 DEF Worker
  <1>3. worker' = [worker EXCEPT ![p] = w]
    BY DEF Goto, TypeOK
  <1> QED
    BY <1>2, <1>3 DEF TypeOK

\* A busy worker has a job.
LEMMA BusyWorker ==
    ASSUME TypeOK, NEW p \in Permits, worker[p].pc # "idle"
    PROVE  /\ worker[p].job \in Jobs
           /\ worker[p].result \in {"none", "error"} \cup Terminal
           /\ worker[p].pc = "complete" => worker[p].result \in Terminal
  BY DEF TypeOK, Worker

\* The suspended handlers that work on one job.
LEMMA HandlerJob ==
    ASSUME TypeOK, handler.op \in {"cancel", "sweeprow"}
    PROVE  /\ handler.job \in Jobs
           /\ handler.todo \in SUBSET (Jobs \X BOOLEAN)
           /\ AfterRow \in Handler
  BY IdleTypes DEF TypeOK, Handler, AfterRow

\* The handler of CleanupExpired with jobs left to delete.
LEMMA HandlerSweep ==
    ASSUME TypeOK, NEW t \in handler.todo
    PROVE  /\ t[1] \in Jobs
           /\ [op |-> "sweeprow", job |-> t[1], todo |-> handler.todo \ {t}]
                  \in Handler
  BY DEF TypeOK, Handler

\* The initial state is well-typed.
LEMMA TypeInit == Init => TypeOK
  BY IdleTypes, JobQueueAssumptions DEF Init, TypeOK, RowState, Token

\* The host, through JobApi, preserves the types.
LEMMA TypeHost ==
    ASSUME TypeOK, NEW j \in Jobs, HostInsert(j) \/ HostTell(j) \/ HostCancel(j)
    PROVE  TypeOK'
  <1> USE DEF TypeOK, storage, runner
  <1>1. CASE HostInsert(j)
    BY <1>1 DEF HostInsert, SetRow, RowState, JobStatus, Spend, Events
  <1>2. CASE HostTell(j)
    BY <1>2, MessageTypes, MailboxAppend DEF HostTell, Tell
  <1>3. CASE HostCancel(j)
    BY <1>3, MessageTypes, MailboxAppend DEF HostCancel, Spend, Tell, Events
  <1> QED
    BY <1>1, <1>2, <1>3

\* Startup, the cleanup ticker and a crash preserve the types.
LEMMA TypeStart ==
    ASSUME TypeOK, Tick \/ OnStart \/ Crash
    PROVE  TypeOK'
  <1> USE DEF TypeOK, storage, runner
  <1>1. CASE Tick
    BY <1>1, MessageTypes, MailboxAppend DEF Tick, Spend, Tell, Events
  <1>2. CASE MarkStale
    <2>1. row' \in [Jobs -> RowState]
      BY <1>2 DEF MarkStale, RowState, JobStatus, Terminal
    <2> QED
      BY <1>2, <2>1 DEF MarkStale
  <1>3. CASE MarkStaleFails
    BY <1>3 DEF MarkStaleFails, Spend, Events
  <1>4. CASE LoadPending
    BY <1>4 DEF LoadPending
  <1>5. CASE LoadPendingFails
    BY <1>5 DEF LoadPendingFails, Spend, Events
  <1>6. CASE Requeue
    BY <1>6, MessageTypes, MailboxAppend DEF Requeue, Tell
  <1>7. CASE Started
    BY <1>7 DEF Started
  <1>8. CASE Crash
    BY <1>8, IdleTypes DEF Crash, Spend, Events, Token
  <1> QED
    BY <1>1, <1>2, <1>3, <1>4, <1>5, <1>6, <1>7, <1>8 DEF OnStart

\* The handlers of the actor preserve the types.
LEMMA TypeHandle ==
    ASSUME TypeOK, Handle
    PROVE  TypeOK'
  <1> USE DEF TypeOK, storage, runner
  <1>1. CASE HandleSubmitJob
    <2>1. Head(mailbox).job \in Jobs
      BY <1>1, MailboxTail DEF HandleSubmitJob, Receive, Message
    <2>2. pending' \in SUBSET Entry /\ seq' \in Nat
      BY <1>1, <2>1 DEF HandleSubmitJob, Entry
    <2> QED
      BY <1>1, <2>2, MailboxTail, MailboxAppend, MessageTypes
      DEF HandleSubmitJob, Receive
  <1>2. CASE HandleDispatchNothing
    BY <1>2, MailboxTail DEF HandleDispatchNothing, Receive
  <1>3. CASE HandleCancelJob
    <2> DEFINE j == Head(mailbox).job
    <2>1. j \in Jobs /\ mailbox' \in Seq(Message)
      BY <1>3, MailboxTail DEF HandleCancelJob, Receive, Message
    <2>2. pending' \in SUBSET Entry /\ running' \in [Jobs -> Token]
      BY <1>3, <2>1 DEF HandleCancelJob, Token
    <2>3. worker' \in [Permits -> Worker]
      BY <1>3 DEF HandleCancelJob, Worker
    <2>4. handler' \in Handler
      BY <1>3, <2>1 DEF HandleCancelJob, Handler, IdleHandler
    <2> QED
      BY <1>3, <2>1, <2>2, <2>3, <2>4 DEF HandleCancelJob
  <1>4. CASE HandleCleanupExpired
    <2>1. handler' \in Handler /\ swept' \in SUBSET Jobs
      BY <1>4, IdleTypes DEF HandleCleanupExpired, Handler
    <2> QED
      BY <1>4, <2>1, MailboxTail DEF HandleCleanupExpired, Receive
  <1>5. CASE CancelRow
    <2>1. row' \in [Jobs -> RowState]
      BY <1>5, HandlerJob DEF CancelRow, RowState, JobStatus, Terminal
    <2> QED
      BY <1>5, <2>1, IdleTypes DEF CancelRow
  <1>6. CASE CancelRowFails
    BY <1>6, HandlerJob, IdleTypes DEF CancelRowFails, Spend, Events
  <1>7. CASE SweepResult
    BY <1>7, HandlerSweep DEF SweepResult
  <1>8. CASE SweepResultFails
    BY <1>8, HandlerSweep DEF SweepResultFails, Spend, Events
  <1>9. CASE SweepRow
    BY <1>9, HandlerJob DEF SweepRow, SetRow, RowState
  <1>10. CASE SweepRowFails
    BY <1>10, HandlerJob DEF SweepRowFails, Spend, Events
  <1>11. ASSUME NEW p \in Permits, HandleDispatchNext(p)
         PROVE  TypeOK'
    <2>1. PICK e \in pending :
              /\ pending' = pending \ {e}
              /\ running' = [running EXCEPT ![e.job] = p]
              /\ worker' = [worker EXCEPT ![p] =
                     [IdleWorker EXCEPT !.pc = "mark", !.job = e.job]]
      BY <1>11 DEF HandleDispatchNext
    <2>2. e.job \in Jobs
      BY DEF Entry
    <2>3. [IdleWorker EXCEPT !.pc = "mark", !.job = e.job] \in Worker
      BY <2>2, JobQueueAssumptions DEF IdleWorker, Worker, WorkerPc
    <2>4. running' \in [Jobs -> Token]
      BY <2>1, <2>2 DEF Token
    <2> QED
      BY <1>11, <2>1, <2>3, <2>4, MailboxTail DEF HandleDispatchNext, Receive
  <1> QED
    BY <1>1, <1>2, <1>3, <1>4, <1>5, <1>6, <1>7, <1>8, <1>9, <1>10, <1>11
    DEF Handle

\* The worker tasks preserve the types.
LEMMA TypeWork ==
    ASSUME TypeOK, NEW p \in Permits, Work(p) \/ WorkerPanic(p)
    PROVE  TypeOK'
  <1> USE DEF storage, runner
  <1>0. /\ \A e \in Events : Spend(e) => budget' \in [Events -> Nat]
        /\ NoFault => budget' \in [Events -> Nat]
        /\ Fault => budget' \in [Events -> Nat]
    <2>1. \A e \in Events : Spend(e) => budget' \in [Events -> Nat]
      BY DEF TypeOK, Spend
    <2>2. NoFault => budget' \in [Events -> Nat]
      BY DEF TypeOK, NoFault
    <2>3. Fault => budget' \in [Events -> Nat]
      BY <2>1 DEF Fault, Events
    <2> QED
      BY <2>1, <2>2, <2>3
  <1>1. CASE WorkerMark(p)
    <2>1. worker' \in [Permits -> Worker]
      BY <1>1, GotoType DEF WorkerMark, At, WorkerPc
    <2>2. row' \in [Jobs -> RowState] /\ budget' \in [Events -> Nat]
      BY <1>0, <1>1 DEF TypeOK, WorkerMark, SetRow, RowState, JobStatus
    <2> QED
      BY <1>1, <2>1, <2>2 DEF TypeOK, WorkerMark
  <1>2. CASE WorkerLoad(p)
    <2>1. worker' \in [Permits -> Worker]
      BY <1>2, GotoType DEF WorkerLoad, At, WorkerPc
    <2> QED
      BY <1>0, <1>2, <2>1 DEF TypeOK, WorkerLoad
  <1>3. CASE WorkerExecute(p)
    <2>1. worker' \in [Permits -> Worker]
      BY <1>3, GotoType DEF WorkerExecute, At, WorkerPc, Terminal
    <2>2. objects' \in SUBSET Jobs
      BY <1>3, BusyWorker DEF TypeOK, WorkerExecute, At
    <2> QED
      BY <1>3, <2>1, <2>2 DEF TypeOK, WorkerExecute
  <1>4. CASE WorkerComplete(p)
    <2>1. worker' \in [Permits -> Worker]
      BY <1>4, GotoType, BusyWorker DEF WorkerComplete, At, WorkerPc
    <2>2. row' \in [Jobs -> RowState] /\ path' \in [Jobs -> BOOLEAN]
      BY <1>4, BusyWorker
      DEF TypeOK, WorkerComplete, At, SetRow, RowState, JobStatus
    <2> QED
      BY <1>0, <1>4, <2>1, <2>2 DEF TypeOK, WorkerComplete
  <1>5. CASE WorkerFinish(p)
    <2>1. worker' \in [Permits -> Worker]
      BY <1>5, GotoType, BusyWorker DEF WorkerFinish, At, WorkerPc
    <2> QED
      BY <1>5, <2>1 DEF TypeOK, WorkerFinish, Token
  <1>6. CASE WorkerFail(p)
    <2>1. worker' \in [Permits -> Worker]
      BY <1>6, GotoType DEF WorkerFail, At, WorkerPc
    <2>2. row' \in [Jobs -> RowState] /\ abandoned' \in SUBSET Jobs
      BY <1>6, BusyWorker
      DEF TypeOK, WorkerFail, At, RowState, JobStatus, Terminal
    <2> QED
      BY <1>0, <1>6, <2>1, <2>2 DEF TypeOK, WorkerFail
  <1>7. CASE WorkerTell(p)
    <2>1. worker' \in [Permits -> Worker]
      BY <1>7, GotoType, BusyWorker DEF WorkerTell, At, WorkerPc
    <2> QED
      BY <1>7, <2>1, MessageTypes, MailboxAppend DEF TypeOK, WorkerTell, Tell
  <1>8. CASE WorkerRelease(p)
    BY <1>8, IdleTypes DEF TypeOK, WorkerRelease
  <1>9. CASE WorkerPanic(p)
    BY <1>0, <1>9, IdleTypes, BusyWorker
    DEF TypeOK, WorkerPanic, At, Token, Events
  <1> QED
    BY <1>1, <1>2, <1>3, <1>4, <1>5, <1>6, <1>7, <1>8, <1>9 DEF Work

\* Every step preserves the types.
LEMMA TypeStep == TypeOK /\ [Next]_vars => TypeOK'
  <1> SUFFICES ASSUME TypeOK, [Next]_vars PROVE TypeOK'
    OBVIOUS
  <1>1. CASE UNCHANGED vars
    BY <1>1 DEF vars, TypeOK
  <1> QED
    BY <1>1, TypeHost, TypeStart, TypeHandle, TypeWork DEF Next

\* Every reachable state of the job queue is well typed.
THEOREM TypeCorrect == Spec => []TypeOK
  BY TypeInit, TypeStep, PTL DEF Spec

-----------------------------------------------------------------------------
(* Rows that say Running.                                                  *)

\* What a Goto leaves of each worker.
LEMMA GotoFields ==
    ASSUME TypeOK, NEW p \in Permits, NEW pc, NEW res, Goto(p, pc, res)
    PROVE  /\ worker'[p].pc = pc
           /\ worker'[p].result = res
           /\ worker'[p].job = worker[p].job
           /\ \A q \in Permits \ {p} : worker'[q] = worker[q]
  BY DEF TypeOK, Worker, Goto

\* CancelJob changes no more of a worker than its token.
LEMMA CancelFields ==
    ASSUME TypeOK, HandleCancelJob
    PROVE  \A q \in Permits : /\ worker'[q].pc = worker[q].pc
                              /\ worker'[q].job = worker[q].job
                              /\ worker'[q].result = worker[q].result
  BY DEF TypeOK, Worker, HandleCancelJob

\* The worker that a dispatch starts, and the others.
LEMMA DispatchFields ==
    ASSUME TypeOK, NEW p \in Permits, HandleDispatchNext(p)
    PROVE  /\ ~Owns(p)
           /\ \A q \in Permits \ {p} : worker'[q] = worker[q]
           /\ \E e \in pending : /\ pending' = pending \ {e}
                                 /\ worker'[p].job = e.job
                                 /\ worker'[p].pc = "mark"
  BY DEF TypeOK, HandleDispatchNext, FreePermits, Owns, IdleWorker

\* A step keeps RunningHasWorker if it makes no row Running and every worker
\* that stops owning a Running row leaves its job abandoned.
LEMMA RunningFrame ==
    ASSUME RunningHasWorker,
           phase' # "starting" => phase # "starting",
           abandoned \subseteq abandoned',
           \A j \in Jobs : row'[j] = "Running" => row[j] = "Running",
           \A j \in Jobs, p \in Permits :
               row'[j] = "Running" /\ OwnedBy(j, p)
                   => OwnedBy(j, p)' \/ j \in abandoned'
    PROVE  RunningHasWorker'
  BY DEF RunningHasWorker

\* A step that leaves the workers alone keeps RunningHasWorker.
LEMMA RunningQuiet ==
    ASSUME RunningHasWorker, UNCHANGED worker,
           phase' # "starting" => phase # "starting",
           abandoned \subseteq abandoned',
           \A j \in Jobs : row'[j] = "Running" => row[j] = "Running"
    PROVE  RunningHasWorker'
  BY DEF RunningHasWorker, OwnedBy, Owns

\* The host makes no row Running.
LEMMA RunningHost ==
    ASSUME TypeOK, RunningHasWorker, NEW j \in Jobs,
           HostInsert(j) \/ HostTell(j) \/ HostCancel(j)
    PROVE  RunningHasWorker'
  BY RunningQuiet
  DEF HostInsert, HostTell, HostCancel, SetRow, storage, TypeOK

\* Startup leaves no Running row of the previous process behind.
LEMMA RunningStart ==
    ASSUME TypeOK, RunningHasWorker, Tick \/ OnStart \/ Crash
    PROVE  RunningHasWorker'
  <1>1. CASE Tick \/ LoadPending \/ LoadPendingFails \/ Requeue \/ Started
    BY <1>1, RunningQuiet
    DEF Tick, LoadPending, LoadPendingFails, Requeue, Started, storage
  <1>2. CASE MarkStale
    BY <1>2 DEF MarkStale, RunningHasWorker
  <1>3. CASE MarkStaleFails
    BY <1>3 DEF MarkStaleFails, RunningHasWorker, storage
  <1>4. CASE Crash
    BY <1>4 DEF Crash, RunningHasWorker
  <1> QED
    BY <1>1, <1>2, <1>3, <1>4 DEF OnStart

\* The handlers of the actor make no row Running.
LEMMA RunningHandle ==
    ASSUME TypeOK, RunningHasWorker, Handle
    PROVE  RunningHasWorker'
  <1>1. CASE HandleSubmitJob \/ HandleDispatchNothing \/ HandleCleanupExpired
             \/ SweepResult \/ SweepResultFails \/ SweepRowFails
             \/ CancelRowFails
    BY <1>1, RunningQuiet
    DEF HandleSubmitJob, HandleDispatchNothing, HandleCleanupExpired,
        SweepResult, SweepResultFails, SweepRowFails, CancelRowFails, storage
  <1>2. CASE CancelRow \/ SweepRow
    BY <1>2, RunningQuiet, HandlerJob DEF CancelRow, SweepRow, SetRow, TypeOK
  <1>3. CASE HandleCancelJob
    BY <1>3, RunningFrame, CancelFields
    DEF HandleCancelJob, storage, OwnedBy, Owns
  <1>4. ASSUME NEW p \in Permits, HandleDispatchNext(p)
        PROVE  RunningHasWorker'
    <2>1. \A j \in Jobs, q \in Permits : OwnedBy(j, q) => OwnedBy(j, q)'
      BY <1>4, DispatchFields DEF OwnedBy, Owns
    <2> QED
      BY <1>4, <2>1, RunningFrame DEF HandleDispatchNext, storage
  <1> QED
    BY <1>1, <1>2, <1>3, <1>4 DEF Handle

\* A worker makes a row Running that it owns, and disowns none that is.
LEMMA RunningWork ==
    ASSUME TypeOK, RunningHasWorker, NEW p \in Permits,
           Work(p) \/ WorkerPanic(p)
    PROVE  RunningHasWorker'
  <1>1. CASE WorkerMark(p)
    <2>1. \A j \in Jobs, q \in Permits : OwnedBy(j, q) => OwnedBy(j, q)'
      BY <1>1, GotoFields DEF WorkerMark, OwnedBy, Owns, At
    <2>2. worker[p].job \in Jobs
      BY <1>1, BusyWorker DEF WorkerMark, At
    <2>3. CASE UNCHANGED row
      BY <1>1, <2>1, <2>3, RunningFrame DEF WorkerMark
    <2>4. CASE SetRow(worker[p].job, "Running") /\ Goto(p, "load", "none")
      <3>1. \A j \in Jobs : j = worker[p].job => OwnedBy(j, p)'
        BY <2>4, GotoFields DEF OwnedBy, Owns
      <3>2. \A j \in Jobs \ {worker[p].job} : row'[j] = row[j]
        BY <2>4 DEF SetRow, TypeOK
      <3>3. phase' = phase /\ abandoned' = abandoned
        BY <1>1 DEF WorkerMark
      <3> SUFFICES ASSUME phase' # "starting", NEW j \in Jobs,
                          row'[j] = "Running"
                   PROVE  j \in abandoned' \/ \E q \in Permits : OwnedBy(j, q)'
        BY DEF RunningHasWorker
      <3>4. CASE j = worker[p].job
        BY <3>1, <3>4
      <3>5. CASE j # worker[p].job
        <4>1. j \in abandoned \/ \E q \in Permits : OwnedBy(j, q)
          BY <3>2, <3>3, <3>5 DEF RunningHasWorker
        <4> QED
          BY <2>1, <3>3, <4>1
      <3> QED
        BY <3>4, <3>5
    <2> QED
      BY <1>1, <2>3, <2>4 DEF WorkerMark
  <1>2. CASE WorkerLoad(p)
    BY <1>2, GotoFields, RunningFrame DEF WorkerLoad, storage, OwnedBy, Owns, At
  <1>3. CASE WorkerExecute(p)
    BY <1>3, GotoFields, RunningFrame DEF WorkerExecute, OwnedBy, Owns, At
  <1>4. CASE WorkerComplete(p)
    <2>1. /\ worker[p].job \in Jobs
          /\ worker[p].result \in Terminal
      BY <1>4, BusyWorker DEF WorkerComplete, At
    <2>2. \A j \in Jobs : row'[j] = "Running" => row[j] = "Running"
      BY <1>4, <2>1 DEF WorkerComplete, SetRow, TypeOK, Terminal
    <2>3. \A j \in Jobs, q \in Permits :
              row'[j] = "Running" /\ OwnedBy(j, q) => OwnedBy(j, q)'
      BY <1>4, <2>1, GotoFields
      DEF WorkerComplete, SetRow, TypeOK, Terminal, OwnedBy, Owns, At
    <2> QED
      BY <1>4, <2>2, <2>3, RunningFrame DEF WorkerComplete
  <1>5. CASE WorkerFinish(p)
    BY <1>5, GotoFields, RunningFrame
    DEF WorkerFinish, storage, OwnedBy, Owns, At
  <1>6. CASE WorkerFail(p)
    <2>1. worker[p].job \in Jobs
      BY <1>6, BusyWorker DEF WorkerFail, At
    <2>2. \A j \in Jobs : row'[j] = "Running" => row[j] = "Running"
      BY <1>6, <2>1 DEF WorkerFail, TypeOK
    <2>3. \A j \in Jobs, q \in Permits :
              row'[j] = "Running" /\ OwnedBy(j, q)
                  => OwnedBy(j, q)' \/ j \in abandoned'
      BY <1>6, <2>1, GotoFields
      DEF WorkerFail, TypeOK, Exists, JobStatus, OwnedBy, Owns, At
    <2> QED
      BY <1>6, <2>2, <2>3, RunningFrame DEF WorkerFail
  <1>7. CASE WorkerTell(p)
    BY <1>7, GotoFields, RunningFrame DEF WorkerTell, storage, OwnedBy, Owns, At
  <1>8. CASE WorkerRelease(p)
    BY <1>8, RunningFrame
    DEF WorkerRelease, storage, OwnedBy, Owns, At, TypeOK
  <1>9. CASE WorkerPanic(p)
    BY <1>9, RunningFrame DEF WorkerPanic, storage, OwnedBy, Owns, At, TypeOK
  <1> QED
    BY <1>1, <1>2, <1>3, <1>4, <1>5, <1>6, <1>7, <1>8, <1>9 DEF Work

\* A row says Running only while a worker is going to write its outcome,
\* unless a panic or a storage error lost the outcome.
THEOREM RunningHasWorkerCorrect == Spec => []RunningHasWorker
  <1>1. Init => RunningHasWorker
    BY DEF Init, RunningHasWorker
  <1>2. TypeOK /\ RunningHasWorker /\ [Next]_vars => RunningHasWorker'
    <2> SUFFICES ASSUME TypeOK, RunningHasWorker, [Next]_vars
                 PROVE  RunningHasWorker'
      OBVIOUS
    <2>1. CASE UNCHANGED vars
      BY <2>1, RunningQuiet DEF vars
    <2> QED
      BY <2>1, RunningHost, RunningStart, RunningHandle, RunningWork DEF Next
  <1> QED
    BY <1>1, <1>2, TypeCorrect, PTL DEF Spec

-----------------------------------------------------------------------------
(* Rows that say Pending.                                                  *)

\* Membership in a mailbox that has lost its head or gained a message.
LEMMA HoldsAppend ==
    ASSUME NEW s \in Seq(Message), NEW x \in Message, NEW m
    PROVE  Holds(Append(s, x), m) <=> Holds(s, m) \/ x = m
  <1>1. /\ Len(Append(s, x)) = Len(s) + 1
        /\ \A i \in 1..Len(s) : Append(s, x)[i] = s[i]
        /\ Append(s, x)[Len(s) + 1] = x
    OBVIOUS
  <1>2. Len(s) \in Nat
    OBVIOUS
  <1> QED
    BY <1>1, <1>2 DEF Holds

\* What the mailbox holds is its head and what is behind it.
LEMMA HoldsTail ==
    ASSUME NEW s \in Seq(Message), s # <<>>, NEW m
    PROVE  Holds(s, m) <=> Head(s) = m \/ Holds(Tail(s), m)
  <1>1. /\ Len(s) \in Nat \ {0}
        /\ Len(Tail(s)) = Len(s) - 1
        /\ \A i \in 1..Len(Tail(s)) : Tail(s)[i] = s[i + 1]
        /\ Head(s) = s[1]
    OBVIOUS
  <1>2. ASSUME NEW i \in 1..Len(s), i # 1, s[i] = m
        PROVE  Holds(Tail(s), m)
    <2>1. i - 1 \in 1..Len(Tail(s)) /\ Tail(s)[i - 1] = s[i]
      BY <1>1, <1>2
    <2> QED
      BY <1>2, <2>1 DEF Holds
  <1>3. ASSUME NEW i \in 1..Len(Tail(s)), Tail(s)[i] = m
        PROVE  Holds(s, m)
    <2>1. i + 1 \in 1..Len(s) /\ s[i + 1] = m
      BY <1>1, <1>3
    <2> QED
      BY <2>1 DEF Holds
  <1>4. Head(s) = m => Holds(s, m)
    BY <1>1 DEF Holds
  <1> QED
    BY <1>1, <1>2, <1>3, <1>4 DEF Holds

\* Which SubmitJob messages the mailbox holds after each kind of step.
LEMMA MailboxSubmits ==
    ASSUME TypeOK, NEW j \in Jobs
    PROVE  /\ \A m \in Message : Tell(m) =>
                 (Holds(mailbox', SubmitJob(j))
                    <=> Holds(mailbox, SubmitJob(j)) \/ m = SubmitJob(j))
           /\ Receive("SubmitJob")
                /\ mailbox' = Append(Tail(mailbox), DispatchNext) =>
                 (Holds(mailbox, SubmitJob(j))
                    <=> Head(mailbox).job = j \/ Holds(mailbox', SubmitJob(j)))
           /\ \A t \in {"DispatchNext", "CancelJob", "CleanupExpired"} :
                Receive(t) /\ mailbox' = Tail(mailbox) =>
                 (Holds(mailbox, SubmitJob(j))
                    <=> Holds(mailbox', SubmitJob(j)))
  <1>0. mailbox \in Seq(Message)
    BY DEF TypeOK
  <1>1. ASSUME NEW m \in Message, Tell(m)
        PROVE  Holds(mailbox', SubmitJob(j))
                 <=> Holds(mailbox, SubmitJob(j)) \/ m = SubmitJob(j)
    BY <1>0, <1>1, HoldsAppend DEF Tell
  <1>2. ASSUME Receive("SubmitJob"),
               mailbox' = Append(Tail(mailbox), DispatchNext)
        PROVE  Holds(mailbox, SubmitJob(j))
                 <=> Head(mailbox).job = j \/ Holds(mailbox', SubmitJob(j))
    <2>1. /\ Head(mailbox) \in Message
          /\ Tail(mailbox) \in Seq(Message)
          /\ mailbox # <<>>
      BY <1>0, <1>2, MailboxTail DEF Receive
    <2>2. Head(mailbox).job = j <=> Head(mailbox) = SubmitJob(j)
      BY <1>2, <2>1 DEF Receive, SubmitJob, Message
    <2>3. DispatchNext # SubmitJob(j) /\ DispatchNext \in Message
      BY MessageTypes DEF DispatchNext, SubmitJob
    <2> QED
      BY <1>0, <1>2, <2>1, <2>2, <2>3, HoldsAppend, HoldsTail
  <1>3. ASSUME NEW t \in {"DispatchNext", "CancelJob", "CleanupExpired"},
               Receive(t), mailbox' = Tail(mailbox)
        PROVE  Holds(mailbox, SubmitJob(j)) <=> Holds(mailbox', SubmitJob(j))
    <2>1. mailbox # <<>> /\ Head(mailbox) # SubmitJob(j)
      BY <1>3 DEF Receive, SubmitJob
    <2> QED
      BY <1>0, <1>3, <2>1, HoldsTail
  <1> QED
    BY <1>1, <1>2, <1>3

\* A worker step that gives up a job leaves it settled or abandoned.
LEMMA OwnedWork ==
    ASSUME TypeOK, NEW p \in Permits, Work(p) \/ WorkerPanic(p),
           NEW j \in Jobs, NEW q \in Permits, OwnedBy(j, q),
           row'[j] = "Pending"
    PROVE  OwnedBy(j, q)' \/ j \in abandoned'
  <1> USE DEF OwnedBy, Owns, At
  <1>1. CASE WorkerMark(p)
    BY <1>1, GotoFields DEF WorkerMark
  <1>2. CASE WorkerLoad(p)
    BY <1>2, GotoFields DEF WorkerLoad
  <1>3. CASE WorkerExecute(p)
    BY <1>3, GotoFields DEF WorkerExecute
  <1>4. CASE WorkerComplete(p)
    BY <1>4, BusyWorker, GotoFields
    DEF WorkerComplete, SetRow, TypeOK, Terminal
  <1>5. CASE WorkerFinish(p)
    BY <1>5, GotoFields DEF WorkerFinish
  <1>6. CASE WorkerFail(p)
    BY <1>6, BusyWorker, GotoFields
    DEF WorkerFail, TypeOK, Exists, JobStatus
  <1>7. CASE WorkerTell(p)
    BY <1>7, GotoFields DEF WorkerTell
  <1>8. CASE WorkerRelease(p)
    BY <1>8 DEF WorkerRelease, TypeOK
  <1>9. CASE WorkerPanic(p)
    BY <1>9 DEF WorkerPanic, TypeOK
  <1> QED
    BY <1>1, <1>2, <1>3, <1>4, <1>5, <1>6, <1>7, <1>8, <1>9 DEF Work

\* No worker step makes a row Pending.
LEMMA PendingWork ==
    ASSUME TypeOK, NEW p \in Permits, Work(p) \/ WorkerPanic(p),
           NEW j \in Jobs, row'[j] = "Pending"
    PROVE  row[j] = "Pending"
  <1>1. CASE WorkerMark(p)
    BY <1>1, BusyWorker DEF WorkerMark, At, SetRow, TypeOK
  <1>2. CASE WorkerComplete(p)
    BY <1>2, BusyWorker DEF WorkerComplete, At, SetRow, TypeOK, Terminal
  <1>3. CASE WorkerFail(p)
    BY <1>3, BusyWorker DEF WorkerFail, At, TypeOK
  <1> QED
    BY <1>1, <1>2, <1>3
    DEF Work, WorkerLoad, WorkerExecute, WorkerFinish, WorkerTell,
        WorkerRelease, WorkerPanic, storage

\* The three ways in which a Pending row is accounted for.
AtHand(j) == \/ j \in abandoned
             \/ Tracked(j)
             \/ handler.op = "cancel" /\ handler.job = j

\* A step keeps PendingIsTracked if no row becomes Pending in it and every
\* job that stays Pending stays accounted for.
LEMMA PendingFrame ==
    ASSUME PendingIsTracked,
           phase' \in {"requeue", "up"} => phase \in {"requeue", "up"},
           \A j \in Jobs : row'[j] = "Pending" =>
               row[j] = "Pending" /\ (AtHand(j) => AtHand(j)')
    PROVE  PendingIsTracked'
  BY DEF PendingIsTracked, AtHand

\* Ownership does not change with the worker variable unchanged.
LEMMA OwnedQuiet ==
    ASSUME UNCHANGED worker, NEW j \in Jobs, NEW q \in Permits
    PROVE  OwnedBy(j, q)' <=> OwnedBy(j, q)
  BY DEF OwnedBy, Owns

\* The host keeps what it has inserted until it has told the actor.
LEMMA PendingHost ==
    ASSUME TypeOK, PendingIsTracked, NEW k \in Jobs,
           HostInsert(k) \/ HostTell(k) \/ HostCancel(k)
    PROVE  PendingIsTracked'
  <1>1. CASE HostInsert(k)
    <2>1. \A j \in Jobs \ {k} : row'[j] = row[j]
      BY <1>1 DEF HostInsert, SetRow, TypeOK
    <2>2. \A j \in Jobs : AtHand(j) => AtHand(j)'
      BY <1>1, OwnedQuiet DEF HostInsert, AtHand, Tracked, runner
    <2>3. AtHand(k)'
      BY <1>1 DEF HostInsert, AtHand, Tracked
    <2>4. phase' = phase
      BY <1>1 DEF HostInsert
    <2> QED
      BY <2>1, <2>2, <2>3, <2>4 DEF PendingIsTracked, AtHand
  <1>2. CASE HostTell(k)
    <2>1. \A j \in Jobs : AtHand(j) => AtHand(j)'
      BY <1>2, OwnedQuiet, MailboxSubmits, MessageTypes
      DEF HostTell, AtHand, Tracked, runner
    <2> QED
      BY <1>2, <2>1, PendingFrame DEF HostTell, storage
  <1>3. CASE HostCancel(k)
    <2>1. \A j \in Jobs : AtHand(j) => AtHand(j)'
      BY <1>3, OwnedQuiet, MailboxSubmits, MessageTypes
      DEF HostCancel, AtHand, Tracked, runner
    <2> QED
      BY <1>3, <2>1, PendingFrame DEF HostCancel, storage
  <1> QED
    BY <1>1, <1>2, <1>3

\* Startup takes every Pending row up.
LEMMA PendingStart ==
    ASSUME TypeOK, PendingIsTracked, Tick \/ OnStart \/ Crash
    PROVE  PendingIsTracked'
  <1>1. CASE Tick
    <2>1. \A j \in Jobs : AtHand(j) => AtHand(j)'
      BY <1>1, OwnedQuiet, MailboxSubmits, MessageTypes
      DEF Tick, AtHand, Tracked, runner
    <2> QED
      BY <1>1, <2>1, PendingFrame DEF Tick, storage
  <1>2. CASE MarkStale \/ MarkStaleFails \/ Crash
    BY <1>2 DEF MarkStale, MarkStaleFails, Crash, PendingIsTracked
  <1>3. CASE LoadPending
    BY <1>3 DEF LoadPending, PendingIsTracked, Tracked, storage
  <1>4. CASE LoadPendingFails
    BY <1>4 DEF LoadPendingFails, PendingIsTracked, storage
  <1>5. CASE Requeue
    <2>1. \A j \in Jobs : AtHand(j) => AtHand(j)'
      BY <1>5, OwnedQuiet, MailboxSubmits, MessageTypes
      DEF Requeue, AtHand, Tracked, runner, TypeOK
    <2> QED
      BY <1>5, <2>1, PendingFrame DEF Requeue, storage
  <1>6. CASE Started
    <2>1. \A j \in Jobs : AtHand(j) => AtHand(j)'
      BY <1>6, OwnedQuiet DEF Started, AtHand, Tracked, runner
    <2> QED
      BY <1>6, <2>1, PendingFrame DEF Started, storage
  <1> QED
    BY <1>1, <1>2, <1>3, <1>4, <1>5, <1>6 DEF OnStart

\* The handlers of the actor let go of a job only to run or cancel it.
LEMMA PendingHandle ==
    ASSUME TypeOK, PendingIsTracked, Handle
    PROVE  PendingIsTracked'
  <1>1. CASE HandleSubmitJob
    <2>1. \A j \in Jobs : Holds(mailbox, SubmitJob(j)) =>
              Head(mailbox).job = j \/ Holds(mailbox', SubmitJob(j))
      BY <1>1, MailboxSubmits DEF HandleSubmitJob
    <2>2. /\ pending \subseteq pending'
          /\ \E e \in pending' : e.job = Head(mailbox).job
      <3> DEFINE new == [job |-> Head(mailbox).job, seq |-> seq + 1]
      <3>1. pending' = pending \cup {new}
        BY <1>1 DEF HandleSubmitJob
      <3>2. new.job = Head(mailbox).job
        OBVIOUS
      <3> QED
        BY <3>1, <3>2
    <2>3. UNCHANGED <<inflight, boot, worker, handler, abandoned>>
      BY <1>1 DEF HandleSubmitJob
    <2>4. \A j \in Jobs : Tracked(j) => Tracked(j)'
      BY <2>1, <2>2, <2>3, OwnedQuiet DEF Tracked
    <2>5. \A j \in Jobs : AtHand(j) => AtHand(j)'
      BY <2>3, <2>4 DEF AtHand
    <2> QED
      BY <1>1, <2>5, PendingFrame DEF HandleSubmitJob, storage
  <1>2. CASE HandleDispatchNothing
    <2>1. \A j \in Jobs : AtHand(j) => AtHand(j)'
      BY <1>2, OwnedQuiet, MailboxSubmits
      DEF HandleDispatchNothing, AtHand, Tracked, runner
    <2> QED
      BY <1>2, <2>1, PendingFrame DEF HandleDispatchNothing, storage
  <1>3. CASE HandleCancelJob
    <2>1. \A j \in Jobs, q \in Permits : OwnedBy(j, q) => OwnedBy(j, q)'
      BY <1>3, CancelFields DEF OwnedBy, Owns
    <2>2. \A j \in Jobs :
              Holds(mailbox, SubmitJob(j)) => Holds(mailbox', SubmitJob(j))
      BY <1>3, MailboxSubmits DEF HandleCancelJob
    <2>3. ASSUME NEW j \in Jobs, AtHand(j) PROVE AtHand(j)'
      <3>1. CASE j = Head(mailbox).job
        BY <1>3, <3>1 DEF HandleCancelJob, AtHand, IdleHandler
      <3>2. CASE j # Head(mailbox).job
        BY <1>3, <2>1, <2>2, <2>3, <3>2
        DEF HandleCancelJob, AtHand, Tracked, Receive
      <3> QED
        BY <3>1, <3>2
    <2> QED
      BY <1>3, <2>3, PendingFrame DEF HandleCancelJob, storage
  <1>4. CASE HandleCleanupExpired
    <2>1. \A j \in Jobs : AtHand(j) => AtHand(j)'
      BY <1>4, OwnedQuiet, MailboxSubmits
      DEF HandleCleanupExpired, Receive, AtHand, Tracked, runner
    <2> QED
      BY <1>4, <2>1, PendingFrame DEF HandleCleanupExpired
  <1>5. CASE CancelRow
    <2>1. handler.job \in Jobs
      BY <1>5, HandlerJob DEF CancelRow
    <2>2. \A j \in Jobs : j # handler.job => (AtHand(j) => AtHand(j)')
      BY <1>5, OwnedQuiet DEF CancelRow, AtHand, Tracked, runner
    <2>3. \A j \in Jobs : row'[j] = "Pending" =>
              row[j] = "Pending" /\ j # handler.job
      BY <1>5, <2>1 DEF CancelRow, Exists, JobStatus, TypeOK
    <2> QED
      BY <1>5, <2>2, <2>3, PendingFrame DEF CancelRow
  <1>6. CASE CancelRowFails
    <2>1. \A j \in Jobs : row[j] = "Pending" => (AtHand(j) => AtHand(j)')
      BY <1>6, OwnedQuiet DEF CancelRowFails, AtHand, Tracked, runner
    <2> QED
      BY <1>6, <2>1, PendingFrame DEF CancelRowFails, storage
  <1>7. CASE SweepResult \/ SweepResultFails \/ SweepRowFails
    <2>1. \A j \in Jobs : AtHand(j) => AtHand(j)'
      BY <1>7, OwnedQuiet
      DEF SweepResult, SweepResultFails, SweepRowFails, AtHand, Tracked, runner
    <2> QED
      BY <1>7, <2>1, PendingFrame
      DEF SweepResult, SweepResultFails, SweepRowFails, storage
  <1>8. CASE SweepRow
    <2>1. \A j \in Jobs : AtHand(j) => AtHand(j)'
      BY <1>8, OwnedQuiet DEF SweepRow, AtHand, Tracked, runner
    <2>2. \A j \in Jobs : row'[j] = "Pending" => row[j] = "Pending"
      BY <1>8, HandlerJob DEF SweepRow, SetRow, TypeOK
    <2> QED
      BY <1>8, <2>1, <2>2, PendingFrame DEF SweepRow
  <1>9. ASSUME NEW p \in Permits, HandleDispatchNext(p)
        PROVE  PendingIsTracked'
    <2>1. \A j \in Jobs, q \in Permits : OwnedBy(j, q) => OwnedBy(j, q)'
      BY <1>9, DispatchFields DEF OwnedBy, Owns
    <2>2. \A j \in Jobs :
              Holds(mailbox, SubmitJob(j)) => Holds(mailbox', SubmitJob(j))
      BY <1>9, MailboxSubmits DEF HandleDispatchNext
    <2>3. PICK e \in pending : /\ pending' = pending \ {e}
                               /\ worker'[p].job = e.job
                               /\ worker'[p].pc = "mark"
      BY <1>9, DispatchFields
    <2>4. OwnedBy(e.job, p)'
      BY <2>3 DEF OwnedBy, Owns
    <2>5. \A j \in Jobs : (\E f \in pending : f.job = j) =>
              (\E f \in pending' : f.job = j) \/ OwnedBy(j, p)'
      BY <2>3 DEF OwnedBy, Owns
    <2>6. \A j \in Jobs : AtHand(j) => AtHand(j)'
      BY <1>9, <2>1, <2>2, <2>5 DEF HandleDispatchNext, AtHand, Tracked
    <2> QED
      BY <1>9, <2>6, PendingFrame DEF HandleDispatchNext, storage
  <1> QED
    BY <1>1, <1>2, <1>3, <1>4, <1>5, <1>6, <1>7, <1>8, <1>9 DEF Handle

\* A worker leaves no row Pending that nobody tracks.
LEMMA PendingWorker ==
    ASSUME TypeOK, PendingIsTracked, NEW p \in Permits,
           Work(p) \/ WorkerPanic(p)
    PROVE  PendingIsTracked'
  <1>1. /\ UNCHANGED <<phase, boot, handler, pending, inflight>>
        /\ abandoned \subseteq abandoned'
    BY DEF Work, WorkerMark, WorkerLoad, WorkerExecute, WorkerComplete,
           WorkerFinish, WorkerFail, WorkerTell, WorkerRelease, WorkerPanic,
           runner
  <1>2. \A j \in Jobs :
            Holds(mailbox, SubmitJob(j)) => Holds(mailbox', SubmitJob(j))
    <2>1. UNCHANGED mailbox \/ Tell(DispatchNext)
      BY DEF Work, WorkerMark, WorkerLoad, WorkerExecute, WorkerComplete,
             WorkerFinish, WorkerFail, WorkerTell, WorkerRelease, WorkerPanic
    <2> QED
      BY <2>1, MailboxSubmits, MessageTypes
  <1>3. \A j \in Jobs : row'[j] = "Pending" => (AtHand(j) => AtHand(j)')
    BY <1>1, <1>2, OwnedWork DEF AtHand, Tracked
  <1> QED
    BY <1>1, <1>3, PendingWork, PendingFrame

\* No accepted job is forgotten: a Pending row is on its way to a worker or
\* to being cancelled, unless a storage error dropped it.
THEOREM PendingIsTrackedCorrect == Spec => []PendingIsTracked
  <1>1. Init => PendingIsTracked
    BY DEF Init, PendingIsTracked
  <1>2. TypeOK /\ PendingIsTracked /\ [Next]_vars => PendingIsTracked'
    <2> SUFFICES ASSUME TypeOK, PendingIsTracked, [Next]_vars
                 PROVE  PendingIsTracked'
      OBVIOUS
    <2>1. CASE UNCHANGED vars
      <3>1. \A j \in Jobs : AtHand(j) => AtHand(j)'
        BY <2>1, OwnedQuiet DEF vars, AtHand, Tracked
      <3> QED
        BY <2>1, <3>1, PendingFrame DEF vars
    <2> QED
      BY <2>1, PendingHost, PendingStart, PendingHandle, PendingWorker DEF Next
  <1> QED
    BY <1>1, <1>2, TypeCorrect, PTL DEF Spec

-----------------------------------------------------------------------------
(* Settled jobs.                                                           *)

\* A worker step takes up no job, and changes only the row of its own job,
\* which it owns.
LEMMA WorkOwn ==
    ASSUME TypeOK, NEW p \in Permits, Work(p) \/ WorkerPanic(p),
           NEW j \in Jobs, ~Tracked(j)
    PROVE  /\ row'[j] = row[j]
           /\ ~Tracked(j)'
  <1>1. \A q \in Permits : ~OwnedBy(j, q)
    BY DEF Tracked
  <1>2. UNCHANGED <<boot, pending, inflight>>
    BY DEF Work, WorkerMark, WorkerLoad, WorkerExecute, WorkerComplete,
           WorkerFinish, WorkerFail, WorkerTell, WorkerRelease, WorkerPanic,
           runner
  <1>3. ~Holds(mailbox', SubmitJob(j))
    <2>1. UNCHANGED mailbox \/ Tell(DispatchNext)
      BY DEF Work, WorkerMark, WorkerLoad, WorkerExecute, WorkerComplete,
             WorkerFinish, WorkerFail, WorkerTell, WorkerRelease, WorkerPanic
    <2>2. DispatchNext # SubmitJob(j)
      BY DEF DispatchNext, SubmitJob
    <2> QED
      BY <2>1, <2>2, MailboxSubmits, MessageTypes DEF Tracked
  <1>4. row'[j] = row[j] /\ \A q \in Permits : ~OwnedBy(j, q)'
    <2> USE DEF OwnedBy, Owns, At
    <2>1. CASE WorkerMark(p)
      <3>1. worker[p].job # j
        BY <1>1, <2>1 DEF WorkerMark
      <3>2. row'[j] = row[j]
        BY <2>1, <3>1 DEF WorkerMark, SetRow, TypeOK
      <3>3. /\ worker'[p].job = worker[p].job
            /\ \A q \in Permits \ {p} : worker'[q] = worker[q]
        BY <2>1, GotoFields DEF WorkerMark
      <3> QED
        BY <1>1, <3>1, <3>2, <3>3
    <2>2. CASE WorkerLoad(p)
      BY <1>1, <2>2, GotoFields DEF WorkerLoad, storage
    <2>3. CASE WorkerExecute(p)
      BY <1>1, <2>3, GotoFields DEF WorkerExecute
    <2>4. CASE WorkerComplete(p)
      <3>1. worker[p].job # j
        BY <1>1, <2>4 DEF WorkerComplete
      <3>2. row'[j] = row[j]
        BY <2>4, <3>1 DEF WorkerComplete, SetRow, TypeOK
      <3>3. /\ worker'[p].job = worker[p].job
            /\ \A q \in Permits \ {p} : worker'[q] = worker[q]
        BY <2>4, GotoFields DEF WorkerComplete
      <3> QED
        BY <1>1, <3>1, <3>2, <3>3
    <2>5. CASE WorkerFinish(p)
      BY <1>1, <2>5, GotoFields DEF WorkerFinish, storage
    <2>6. CASE WorkerFail(p)
      <3>1. worker[p].job # j
        BY <1>1, <2>6 DEF WorkerFail
      <3>2. row'[j] = row[j]
        BY <2>6, <3>1 DEF WorkerFail, TypeOK
      <3>3. /\ worker'[p].job = worker[p].job
            /\ \A q \in Permits \ {p} : worker'[q] = worker[q]
        BY <2>6, GotoFields DEF WorkerFail
      <3> QED
        BY <1>1, <3>1, <3>2, <3>3
    <2>7. CASE WorkerTell(p)
      BY <1>1, <2>7, GotoFields DEF WorkerTell, storage
    <2>8. CASE WorkerRelease(p)
      BY <1>1, <2>8 DEF WorkerRelease, IdleWorker, TypeOK, storage
    <2>9. CASE WorkerPanic(p)
      BY <1>1, <2>9 DEF WorkerPanic, IdleWorker, TypeOK, storage
    <2> QED
      BY <2>1, <2>2, <2>3, <2>4, <2>5, <2>6, <2>7, <2>8, <2>9 DEF Work
  <1> QED
    BY <1>2, <1>3, <1>4 DEF Tracked

\* A step leaves a settled, untracked job settled and untracked; at most a
\* late CancelJob or the cleanup sweep touches its row.
LEMMA SettledStep ==
    ASSUME TypeOK, [Next]_vars, NEW j \in Jobs,
           row[j] \in Terminal, ~Tracked(j)
    PROVE  /\ row'[j] \in {row[j], "Cancelled", "Deleted"}
           /\ ~Tracked(j)'
  <1> DEFINE Goal == /\ row'[j] \in {row[j], "Cancelled", "Deleted"}
                     /\ ~Tracked(j)'
  <1>0. /\ j \notin inflight \cup boot
        /\ ~Holds(mailbox, SubmitJob(j))
        /\ \A e \in pending : e.job # j
        /\ \A q \in Permits : ~OwnedBy(j, q)
    BY DEF Tracked
  <1>1. ASSUME NEW k \in Jobs, HostInsert(k) \/ HostTell(k) \/ HostCancel(k)
        PROVE  Goal
    <2>1. CASE HostInsert(k)
      <3>1. k # j
        BY <2>1 DEF HostInsert, Terminal
      <3> QED
        BY <1>0, <2>1, <3>1, OwnedQuiet
        DEF HostInsert, SetRow, TypeOK, Tracked, runner
    <2>2. CASE HostTell(k)
      <3>1. k # j /\ SubmitJob(k) # SubmitJob(j)
        BY <1>0, <2>2 DEF HostTell, SubmitJob
      <3>2. ~Holds(mailbox', SubmitJob(j))
        BY <1>0, <2>2, <3>1, MailboxSubmits, MessageTypes DEF HostTell
      <3> QED
        BY <1>0, <2>2, <3>2, OwnedQuiet DEF HostTell, Tracked, runner, storage
    <2>3. CASE HostCancel(k)
      <3>1. CancelJob(k) # SubmitJob(j)
        BY DEF CancelJob, SubmitJob
      <3>2. ~Holds(mailbox', SubmitJob(j))
        BY <1>0, <2>3, <3>1, MailboxSubmits, MessageTypes DEF HostCancel
      <3> QED
        BY <1>0, <2>3, <3>2, OwnedQuiet DEF HostCancel, Tracked, runner, storage
    <2> QED
      BY <1>1, <2>1, <2>2, <2>3
  <1>2. CASE Tick
    <2>1. CleanupExpired # SubmitJob(j)
      BY DEF CleanupExpired, SubmitJob
    <2>2. ~Holds(mailbox', SubmitJob(j))
      BY <1>0, <1>2, <2>1, MailboxSubmits, MessageTypes DEF Tick
    <2> QED
      BY <1>0, <1>2, <2>2, OwnedQuiet DEF Tick, Tracked, runner, storage
  <1>3. CASE OnStart
    <2>1. CASE MarkStale \/ MarkStaleFails \/ LoadPendingFails \/ Started
      BY <1>0, <2>1, OwnedQuiet
      DEF MarkStale, MarkStaleFails, LoadPendingFails, Started, Tracked,
          runner, storage, Terminal
    <2>2. CASE LoadPending
      BY <1>0, <2>2, OwnedQuiet
      DEF LoadPending, Tracked, runner, storage, Terminal
    <2>3. CASE Requeue
      <3>1. PICK k \in boot : Tell(SubmitJob(k)) /\ boot' = boot \ {k}
        BY <2>3 DEF Requeue
      <3>2. SubmitJob(k) # SubmitJob(j) /\ k \in Jobs
        BY <1>0, <3>1 DEF SubmitJob, TypeOK
      <3>3. ~Holds(mailbox', SubmitJob(j))
        BY <1>0, <3>1, <3>2, MailboxSubmits, MessageTypes
      <3> QED
        BY <1>0, <2>3, <3>1, <3>3, OwnedQuiet
        DEF Requeue, Tracked, runner, storage
    <2> QED
      BY <1>3, <2>1, <2>2, <2>3 DEF OnStart
  <1>4. CASE Handle
    <2>1. CASE HandleSubmitJob
      <3>1. /\ ~Holds(mailbox', SubmitJob(j))
            /\ Head(mailbox).job # j
        BY <1>0, <2>1, MailboxSubmits DEF HandleSubmitJob
      <3>2. \A e \in pending' : e.job # j
        BY <1>0, <2>1, <3>1 DEF HandleSubmitJob
      <3> QED
        BY <1>0, <2>1, <3>1, <3>2, OwnedQuiet
        DEF HandleSubmitJob, Tracked, storage
    <2>2. CASE HandleDispatchNothing \/ HandleCleanupExpired
      <3>1. ~Holds(mailbox', SubmitJob(j))
        BY <1>0, <2>2, MailboxSubmits
        DEF HandleDispatchNothing, HandleCleanupExpired
      <3> QED
        BY <1>0, <2>2, <3>1, OwnedQuiet
        DEF HandleDispatchNothing, HandleCleanupExpired, Tracked, runner,
            storage
    <2>3. CASE HandleCancelJob
      <3>1. ~Holds(mailbox', SubmitJob(j))
        BY <1>0, <2>3, MailboxSubmits DEF HandleCancelJob
      <3>2. \A q \in Permits : ~OwnedBy(j, q)'
        BY <1>0, <2>3, CancelFields DEF OwnedBy, Owns
      <3>3. \A e \in pending' : e.job # j
        BY <1>0, <2>3 DEF HandleCancelJob
      <3> QED
        BY <1>0, <2>3, <3>1, <3>2, <3>3 DEF HandleCancelJob, Tracked, storage
    <2>4. CASE CancelRow \/ CancelRowFails \/ SweepResult \/ SweepResultFails
               \/ SweepRow \/ SweepRowFails
      <3>1. ~Tracked(j)'
        BY <1>0, <2>4, OwnedQuiet
        DEF CancelRow, CancelRowFails, SweepResult, SweepResultFails, SweepRow,
            SweepRowFails, Tracked, runner
      <3>2. row'[j] \in {row[j], "Cancelled", "Deleted"}
        BY <2>4
        DEF CancelRow, CancelRowFails, SweepResult, SweepResultFails, SweepRow,
            SweepRowFails, SetRow, storage, TypeOK
      <3> QED
        BY <3>1, <3>2
    <2>5. ASSUME NEW p \in Permits, HandleDispatchNext(p) PROVE Goal
      <3>1. ~Holds(mailbox', SubmitJob(j))
        BY <1>0, <2>5, MailboxSubmits DEF HandleDispatchNext
      <3>2. \A e \in pending' : e.job # j
        BY <1>0, <2>5 DEF HandleDispatchNext
      <3>3. \A q \in Permits : ~OwnedBy(j, q)'
        BY <1>0, <2>5, DispatchFields DEF OwnedBy, Owns
      <3> QED
        BY <1>0, <2>5, <3>1, <3>2, <3>3 DEF HandleDispatchNext, Tracked, storage
    <2> QED
      BY <1>4, <2>1, <2>2, <2>3, <2>4, <2>5 DEF Handle
  <1>5. ASSUME NEW p \in Permits, Work(p) \/ WorkerPanic(p) PROVE Goal
    BY <1>5, WorkOwn
  <1>6. CASE Crash
    <2>1. \A q \in Permits : ~OwnedBy(j, q)'
      BY <1>6 DEF Crash, OwnedBy, Owns, IdleWorker
    <2>2. ~Holds(mailbox', SubmitJob(j))
      BY <1>6 DEF Crash, Holds
    <2> QED
      BY <1>6, <2>1, <2>2 DEF Crash, Tracked, storage
  <1>7. CASE UNCHANGED vars
    BY <1>0, <1>7, OwnedQuiet DEF vars, Tracked
  <1> QED
    BY <1>1, <1>2, <1>3, <1>4, <1>5, <1>6, <1>7 DEF Next

\* A terminal row that nothing tracks is final: it can only be cancelled or
\* deleted, and its job is never taken up again, not by a restart either.
THEOREM SettledIsFinalCorrect == Spec => SettledIsFinal
  <1> DEFINE A == \A j \in Jobs : row[j] \in Terminal /\ ~Tracked(j) =>
                      /\ row'[j] \in {row[j], "Cancelled", "Deleted"}
                      /\ ~Tracked(j)'
  <1>1. TypeOK /\ [Next]_vars => [A]_vars
    BY SettledStep
  <1> QED
    BY <1>1, TypeCorrect, PTL DEF Spec, SettledIsFinal

-----------------------------------------------------------------------------
(* Results.                                                                *)

\* The inductive strengthening of ResultUntilExpiry: a worker about to store
\* Completed has written its object, and a sweep only deletes the objects of
\* jobs it has found expired.
ResultKept ==
    /\ ResultUntilExpiry
    /\ \A p \in Permits :
         worker[p].pc = "complete" /\ worker[p].result = "Completed" =>
             worker[p].job \in objects \cup swept
    /\ \A t \in handler.todo : t[1] \in swept

\* Its part about the workers, of which steps of others change little.
Delivered == \A p \in Permits :
                 worker[p].pc = "complete" /\ worker[p].result = "Completed" =>
                     worker[p].job \in objects \cup swept

\* A step of a worker preserves it.
LEMMA ResultWork ==
    ASSUME TypeOK, ResultKept, NEW p \in Permits, Work(p) \/ WorkerPanic(p)
    PROVE  ResultKept'
  <1> USE DEF Fault, NoFault, storage, runner
  <1>0. worker[p].pc # "idle"
    BY DEF Work, WorkerMark, WorkerLoad, WorkerExecute, WorkerComplete,
           WorkerFinish, WorkerFail, WorkerTell, WorkerRelease, WorkerPanic, At
  <1>1. /\ worker[p].job \in Jobs
        /\ worker[p].result \in {"none", "error"} \cup Terminal
    BY <1>0, BusyWorker
  <1>2. UNCHANGED <<swept, handler>>
    BY DEF Work, WorkerMark, WorkerLoad, WorkerExecute, WorkerComplete,
           WorkerFinish, WorkerFail, WorkerTell, WorkerRelease, WorkerPanic
  <1>3. CASE WorkerMark(p) \/ WorkerFail(p)
    <2>1. UNCHANGED objects
      BY <1>3 DEF WorkerMark, WorkerFail
    <2>2. \A j \in Jobs : row'[j] = "Completed" => row[j] = "Completed"
      BY <1>3 DEF WorkerMark, WorkerFail, SetRow, TypeOK
    <2>3. Delivered'
      BY <1>2, <1>3, GotoFields, <2>1
      DEF WorkerMark, WorkerFail, ResultKept, Delivered
    <2> QED
      BY <1>2, <2>1, <2>2, <2>3 DEF ResultKept, ResultUntilExpiry, Delivered
  <1>4. CASE WorkerExecute(p)
    <2>1. UNCHANGED row /\ objects \subseteq objects'
      BY <1>4 DEF WorkerExecute
    <2>2. Delivered'
      BY <1>2, GotoFields, <1>4, <2>1
      DEF WorkerExecute, ResultKept, Delivered, Terminal
    <2> QED
      BY <1>2, <2>1, <2>2 DEF ResultKept, ResultUntilExpiry, Delivered
  <1>5. CASE WorkerComplete(p)
    <2>1. UNCHANGED objects
      BY <1>5 DEF WorkerComplete
    <2>2. \A j \in Jobs : row'[j] = "Completed" => j \in objects \cup swept
      BY <1>1, <1>5
      DEF WorkerComplete, SetRow, TypeOK, ResultKept, ResultUntilExpiry, At
    <2>3. Delivered'
      BY <1>1, <1>2, GotoFields, <1>5, <2>1
      DEF WorkerComplete, ResultKept, Delivered
    <2> QED
      BY <1>2, <2>1, <2>2, <2>3 DEF ResultKept, ResultUntilExpiry, Delivered
  <1>6. CASE WorkerLoad(p) \/ WorkerFinish(p) \/ WorkerTell(p)
    <2>1. UNCHANGED <<row, objects>>
      BY <1>6 DEF WorkerLoad, WorkerFinish, WorkerTell
    <2>2. Delivered'
      BY <1>1, <1>2, GotoFields, <1>6, <2>1
      DEF WorkerLoad, WorkerFinish, WorkerTell, ResultKept, Delivered
    <2> QED
      BY <1>2, <2>1, <2>2 DEF ResultKept, ResultUntilExpiry, Delivered
  <1>7. CASE WorkerRelease(p) \/ WorkerPanic(p)
    <2>1. UNCHANGED <<row, objects>>
      BY <1>7 DEF WorkerRelease, WorkerPanic
    <2>2. Delivered'
      BY <1>2, <1>7, <2>1
      DEF WorkerRelease, WorkerPanic, IdleWorker, ResultKept, Delivered, TypeOK
    <2> QED
      BY <1>2, <2>1, <2>2 DEF ResultKept, ResultUntilExpiry, Delivered
  <1> QED
    BY <1>3, <1>4, <1>5, <1>6, <1>7 DEF Work

\* The jobs a sweep has left after a row are among those it had before.
LEMMA AfterRowTodo == TypeOK => AfterRow.todo \subseteq handler.todo
  <1> SUFFICES ASSUME TypeOK PROVE AfterRow.todo \subseteq handler.todo
    OBVIOUS
  <1>1. CASE handler.todo = {}
    BY <1>1 DEF AfterRow, IdleHandler
  <1>2. CASE handler.todo # {}
    <2>1. AfterRow = [handler EXCEPT !.op = "sweep", !.job = NoJob]
      BY <1>2 DEF AfterRow
    <2> QED
      BY <2>1 DEF TypeOK, Handler
  <1> QED
    BY <1>1, <1>2

\* A step of the actor preserves it.
LEMMA ResultHandle ==
    ASSUME TypeOK, ResultKept, Handle
    PROVE  ResultKept'
  <1> USE DEF storage, runner
  <1>1. CASE HandleSubmitJob \/ HandleDispatchNothing \/ SweepResultFails
             \/ CancelRowFails \/ SweepRowFails
    <2>1. UNCHANGED <<row, objects, swept, worker>>
      BY <1>1 DEF HandleSubmitJob, HandleDispatchNothing, SweepResultFails,
                  CancelRowFails, SweepRowFails
    <2>2. handler'.todo \subseteq handler.todo
      BY <1>1, AfterRowTodo
      DEF HandleSubmitJob, HandleDispatchNothing, SweepResultFails,
          CancelRowFails, SweepRowFails, IdleHandler
    <2> QED
      BY <2>1, <2>2 DEF ResultKept, ResultUntilExpiry
  <1>2. CASE CancelRow \/ SweepRow
    <2>1. UNCHANGED <<objects, swept, worker>>
      BY <1>2 DEF CancelRow, SweepRow
    <2>2. \A j \in Jobs : row'[j] = "Completed" => row[j] = "Completed"
      BY <1>2 DEF CancelRow, SweepRow, SetRow, TypeOK
    <2>3. handler'.todo \subseteq handler.todo
      BY <1>2, AfterRowTodo DEF CancelRow, SweepRow, IdleHandler
    <2> QED
      BY <2>1, <2>2, <2>3 DEF ResultKept, ResultUntilExpiry
  <1>3. CASE HandleCancelJob
    <2>1. UNCHANGED <<row, objects, swept>> /\ handler'.todo = {}
      BY <1>3 DEF HandleCancelJob, IdleHandler
    <2> QED
      BY <1>3, <2>1, CancelFields DEF ResultKept, ResultUntilExpiry
  <1>4. CASE HandleCleanupExpired
    <2>1. UNCHANGED <<row, objects, worker>> /\ swept \subseteq swept'
      BY <1>4 DEF HandleCleanupExpired
    <2>2. \A t \in handler'.todo : t[1] \in swept'
      BY <1>4 DEF HandleCleanupExpired, IdleHandler
    <2> QED
      BY <2>1, <2>2 DEF ResultKept, ResultUntilExpiry
  <1>5. CASE SweepResult
    <2>1. PICK t \in handler.todo :
              /\ objects' = IF t[2] THEN objects \ {t[1]} ELSE objects
              /\ handler' = [op |-> "sweeprow", job |-> t[1],
                             todo |-> handler.todo \ {t}]
      BY <1>5 DEF SweepResult
    <2>2. UNCHANGED <<row, swept, worker>>
      BY <1>5 DEF SweepResult
    <2>3. t[1] \in swept
      BY DEF ResultKept
    <2> QED
      BY <2>1, <2>2, <2>3 DEF ResultKept, ResultUntilExpiry
  <1>6. ASSUME NEW p \in Permits, HandleDispatchNext(p)
        PROVE  ResultKept'
    <2>1. UNCHANGED <<row, objects, swept, handler>>
      BY <1>6 DEF HandleDispatchNext
    <2>2. /\ worker'[p].pc = "mark"
          /\ \A q \in Permits \ {p} : worker'[q] = worker[q]
      BY <1>6, DispatchFields
    <2> QED
      BY <2>1, <2>2 DEF ResultKept, ResultUntilExpiry
  <1> QED
    BY <1>1, <1>2, <1>3, <1>4, <1>5, <1>6 DEF Handle

\* Every step preserves it.
LEMMA ResultNext == TypeOK /\ ResultKept /\ [Next]_vars => ResultKept'
  <1> SUFFICES ASSUME TypeOK, ResultKept, [Next]_vars PROVE ResultKept'
    OBVIOUS
  <1> USE DEF storage, runner
  <1>1. ASSUME NEW j \in Jobs, HostInsert(j) \/ HostTell(j) \/ HostCancel(j)
        PROVE  ResultKept'
    <2>1. UNCHANGED <<objects, swept, worker, handler>>
      BY <1>1 DEF HostInsert, HostTell, HostCancel
    <2>2. \A k \in Jobs : row'[k] = "Completed" => row[k] = "Completed"
      BY <1>1 DEF HostInsert, HostTell, HostCancel, SetRow, TypeOK
    <2> QED
      BY <2>1, <2>2 DEF ResultKept, ResultUntilExpiry
  <1>2. CASE Tick \/ OnStart
    <2>1. UNCHANGED <<objects, swept, worker, handler>>
      BY <1>2 DEF Tick, OnStart, MarkStale, MarkStaleFails, LoadPending,
                  LoadPendingFails, Requeue, Started
    <2>2. \A k \in Jobs : row'[k] = "Completed" => row[k] = "Completed"
      BY <1>2 DEF Tick, OnStart, MarkStale, MarkStaleFails, LoadPending,
                  LoadPendingFails, Requeue, Started
    <2> QED
      BY <2>1, <2>2 DEF ResultKept, ResultUntilExpiry
  <1>3. CASE Crash
    BY <1>3 DEF Crash, IdleWorker, IdleHandler, ResultKept, ResultUntilExpiry
  <1>4. CASE UNCHANGED vars
    BY <1>4 DEF vars, ResultKept, ResultUntilExpiry
  <1> QED
    BY <1>1, <1>2, <1>3, <1>4, ResultHandle, ResultWork DEF Next

\* The result object of a Completed job stays until a sweep has found the job
\* expired, whatever runs twice, is cancelled, fails or restarts.
THEOREM ResultUntilExpiryCorrect == Spec => []ResultUntilExpiry
  <1>1. Init => ResultKept
    BY DEF Init, IdleWorker, IdleHandler, ResultKept, ResultUntilExpiry
  <1>2. ResultKept => ResultUntilExpiry
    BY DEF ResultKept
  <1> QED
    BY <1>1, <1>2, ResultNext, TypeCorrect, PTL DEF Spec

-----------------------------------------------------------------------------
(* One worker per job.                                                     *)

\* No row returns to New, nor to Pending.
LEMMA RowForward ==
    ASSUME TypeOK, [Next]_vars, NEW j \in Jobs
    PROVE  /\ row[j] # "New" => row'[j] # "New"
           /\ row[j] \notin {"New", "Pending"} => row'[j] \notin {"New", "Pending"}
  <1> DEFINE Forward == /\ row[j] # "New" => row'[j] # "New"
                        /\ row[j] \notin {"New", "Pending"}
                               => row'[j] \notin {"New", "Pending"}
  <1>1. CASE UNCHANGED row
    BY <1>1
  <1>2. ASSUME NEW k \in Jobs, HostInsert(k) PROVE Forward
    BY <1>2 DEF HostInsert, SetRow, TypeOK
  <1>3. CASE MarkStale
    BY <1>3 DEF MarkStale
  <1>4. CASE CancelRow \/ SweepRow
    BY <1>4 DEF CancelRow, SweepRow, SetRow, TypeOK
  <1>5. ASSUME NEW p \in Permits, WorkerMark(p) \/ WorkerComplete(p) \/ WorkerFail(p)
        PROVE  Forward
    BY <1>5, BusyWorker
    DEF WorkerMark, WorkerComplete, WorkerFail, SetRow, At, TypeOK, Terminal
  <1>6. CASE Handle
    BY <1>1, <1>4, <1>6
    DEF Handle, HandleSubmitJob, HandleDispatchNothing, HandleCancelJob,
        HandleCleanupExpired, CancelRowFails, SweepResult, SweepResultFails,
        SweepRowFails, HandleDispatchNext, storage
  <1>7. CASE \E p \in Permits : Work(p) \/ WorkerPanic(p)
    BY <1>1, <1>5, <1>7
    DEF Work, WorkerLoad, WorkerExecute, WorkerFinish, WorkerTell,
        WorkerRelease, WorkerPanic, storage
  <1>8. CASE \/ Tick \/ OnStart \/ Crash
             \/ \E k \in Jobs : HostInsert(k) \/ HostTell(k) \/ HostCancel(k)
    BY <1>1, <1>2, <1>3, <1>8
    DEF Tick, OnStart, MarkStaleFails, LoadPending, LoadPendingFails, Requeue,
        Started, Crash, HostTell, HostCancel, storage
  <1> QED
    BY <1>1, <1>6, <1>7, <1>8 DEF Next, vars

\* Message m is in mailbox s at most once.
OnceIn(s, m) == \A i, k \in 1..Len(s) : s[i] = m /\ s[k] = m => i = k

Queued(j) == \E e \in pending : e.job = j
Busy(j)   == \E p \in Permits : worker[p].job = j

\* A job is in at most one of the five places a job id can be in - with the
\* host, read at startup, in the mailbox, in the heap, with a worker - and
\* there once.
OnePlace(j) ==
    /\ j \in inflight =>
          j \notin boot /\ ~Holds(mailbox, SubmitJob(j)) /\ ~Queued(j) /\ ~Busy(j)
    /\ j \in boot => ~Holds(mailbox, SubmitJob(j)) /\ ~Queued(j) /\ ~Busy(j)
    /\ Holds(mailbox, SubmitJob(j)) => ~Queued(j) /\ ~Busy(j)
    /\ Queued(j) => ~Busy(j)
    /\ OnceIn(mailbox, SubmitJob(j))
    /\ \A e, f \in pending : e.job = j /\ f.job = j => e = f
    /\ \A p, q \in Permits : worker[p].job = j /\ worker[q].job = j => p = q

NoPlace(j) ==
    /\ j \notin inflight \cup boot
    /\ ~Holds(mailbox, SubmitJob(j)) /\ ~Queued(j) /\ ~Busy(j)

\* A job that on_start has yet to read from its row.
Unread(j) == j \notin boot /\ ~Queued(j) /\ ~Busy(j)

\* A job that was never inserted is nowhere; until on_start has read the rows
\* a job can only be with the host or in the mailbox; and every job is in one
\* place, but for the ones that on_start read although they were there.
Placed(j) ==
    IF j \in twice
    THEN row[j] # "New" /\ phase \notin {"starting", "loading"}
    ELSE /\ OnePlace(j)
         /\ row[j] = "New" => NoPlace(j)
         /\ phase \in {"starting", "loading"} => Unread(j)

AllPlaced == \A j \in Jobs : Placed(j)

\* A message that was not there is there once when it has been sent.
LEMMA OnceAppend ==
    ASSUME NEW s \in Seq(Message), NEW x \in Message, NEW m, OnceIn(s, m),
           x = m => ~Holds(s, m)
    PROVE  OnceIn(Append(s, x), m)
  <1>1. /\ Len(s) \in Nat /\ Len(Append(s, x)) = Len(s) + 1
        /\ \A i \in 1..Len(s) : Append(s, x)[i] = s[i]
        /\ Append(s, x)[Len(s) + 1] = x
    OBVIOUS
  <1> SUFFICES ASSUME NEW i \in 1..(Len(s) + 1), NEW k \in 1..(Len(s) + 1),
                      Append(s, x)[i] = m, Append(s, x)[k] = m
               PROVE  i = k
    BY <1>1 DEF OnceIn
  <1>2. CASE x = m
    <2>1. \A n \in 1..Len(s) : s[n] # m
      BY <1>2 DEF Holds
    <2> QED
      BY <1>1, <2>1
  <1>3. CASE x # m
    <2>1. i \in 1..Len(s) /\ k \in 1..Len(s)
      BY <1>1, <1>3
    <2> QED
      BY <1>1, <2>1 DEF OnceIn
  <1> QED
    BY <1>2, <1>3

\* What is in a mailbox once is gone when it has been received.
LEMMA OnceTail ==
    ASSUME NEW s \in Seq(Message), s # <<>>, NEW m, OnceIn(s, m)
    PROVE  /\ OnceIn(Tail(s), m)
           /\ Head(s) = m => ~Holds(Tail(s), m)
  <1>1. /\ Len(s) \in Nat \ {0}
        /\ Len(Tail(s)) = Len(s) - 1
        /\ \A i \in 1..(Len(s) - 1) : Tail(s)[i] = s[i + 1] /\ i + 1 \in 1..Len(s)
        /\ Head(s) = s[1] /\ 1 \in 1..Len(s)
    OBVIOUS
  <1>2. ASSUME NEW i \in 1..(Len(s) - 1), NEW k \in 1..(Len(s) - 1),
               Tail(s)[i] = m, Tail(s)[k] = m
        PROVE  i = k
    <2>1. i + 1 = k + 1
      BY <1>1, <1>2 DEF OnceIn
    <2> QED
      BY <2>1
  <1>3. ASSUME NEW i \in 1..(Len(s) - 1), Tail(s)[i] = m, Head(s) = m
        PROVE  FALSE
    <2>1. i + 1 = 1
      BY <1>1, <1>3 DEF OnceIn
    <2> QED
      BY <2>1
  <1> QED
    BY <1>1, <1>2, <1>3 DEF OnceIn, Holds

\* The same for the steps that send and receive.
LEMMA OnceMailbox ==
    ASSUME TypeOK, NEW j \in Jobs, OnceIn(mailbox, SubmitJob(j))
    PROVE  /\ \A m \in Message :
                 Tell(m) /\ (m = SubmitJob(j) => ~Holds(mailbox, SubmitJob(j)))
                     => OnceIn(mailbox', SubmitJob(j))
           /\ Receive("SubmitJob")
                /\ mailbox' = Append(Tail(mailbox), DispatchNext) =>
                 /\ OnceIn(mailbox', SubmitJob(j))
                 /\ Head(mailbox).job = j => ~Holds(mailbox', SubmitJob(j))
           /\ \A t \in {"DispatchNext", "CancelJob", "CleanupExpired"} :
                Receive(t) /\ mailbox' = Tail(mailbox) =>
                    OnceIn(mailbox', SubmitJob(j))
  <1>0. mailbox \in Seq(Message)
    BY DEF TypeOK
  <1>1. ASSUME NEW m \in Message, Tell(m),
               m = SubmitJob(j) => ~Holds(mailbox, SubmitJob(j))
        PROVE  OnceIn(mailbox', SubmitJob(j))
    BY <1>0, <1>1, OnceAppend DEF Tell
  <1>2. ASSUME mailbox # <<>>
        PROVE  /\ Tail(mailbox) \in Seq(Message)
               /\ Head(mailbox) \in Message
               /\ OnceIn(Tail(mailbox), SubmitJob(j))
               /\ Head(mailbox) = SubmitJob(j) => ~Holds(Tail(mailbox), SubmitJob(j))
    BY <1>0, <1>2, OnceTail, MailboxTail
  <1>3. ASSUME Receive("SubmitJob"),
               mailbox' = Append(Tail(mailbox), DispatchNext)
        PROVE  /\ OnceIn(mailbox', SubmitJob(j))
               /\ Head(mailbox).job = j => ~Holds(mailbox', SubmitJob(j))
    <2>1. mailbox # <<>>
      BY <1>3 DEF Receive
    <2>2. Head(mailbox).job = j => Head(mailbox) = SubmitJob(j)
      BY <1>2, <1>3, <2>1 DEF Receive, SubmitJob, Message
    <2>3. DispatchNext # SubmitJob(j) /\ DispatchNext \in Message
      BY MessageTypes DEF DispatchNext, SubmitJob
    <2> QED
      BY <1>2, <1>3, <2>1, <2>2, <2>3, OnceAppend, HoldsAppend
  <1>4. ASSUME NEW t \in {"DispatchNext", "CancelJob", "CleanupExpired"},
               Receive(t), mailbox' = Tail(mailbox)
        PROVE  OnceIn(mailbox', SubmitJob(j))
    BY <1>2, <1>4 DEF Receive
  <1> QED
    BY <1>1, <1>3, <1>4

\* A step that brings job j to no new place keeps it in one.
LEMMA PlacedFrame ==
    ASSUME NEW j \in Jobs, Placed(j), j \notin twice, UNCHANGED twice,
           inflight' \subseteq inflight, boot' \subseteq boot,
           Holds(mailbox', SubmitJob(j)) => Holds(mailbox, SubmitJob(j)),
           OnceIn(mailbox', SubmitJob(j)),
           pending' \subseteq pending,
           \A p \in Permits : worker'[p].job = j => worker[p].job = j,
           row'[j] = "New" => row[j] = "New",
           phase' \in {"starting", "loading"} => phase \in {"starting", "loading"}
    PROVE  Placed(j)'
  <1>1. (Queued(j)' => Queued(j)) /\ (Busy(j)' => Busy(j))
    BY DEF Queued, Busy
  <1>2. (NoPlace(j) => NoPlace(j)') /\ (Unread(j) => Unread(j)')
    BY <1>1 DEF NoPlace, Unread
  <1>3. OnePlace(j)'
    BY <1>1 DEF Placed, OnePlace
  <1> QED
    BY <1>2, <1>3 DEF Placed

\* The host, through JobApi, brings a job it inserts nowhere else.
LEMMA PlacedHost ==
    ASSUME TypeOK, NEW j \in Jobs, Placed(j), j \notin twice, NEW k \in Jobs,
           HostInsert(k) \/ HostTell(k) \/ HostCancel(k)
    PROVE  Placed(j)'
  <1> USE DEF storage, runner
  <1>0. OnceIn(mailbox, SubmitJob(j))
    BY DEF Placed, OnePlace
  <1>1. CASE HostInsert(k)
    <2>1. /\ row[k] = "New" /\ row'[k] = "Pending"
          /\ \A i \in Jobs \ {k} : row'[i] = row[i]
          /\ inflight' = inflight \cup {k}
          /\ UNCHANGED <<phase, boot, twice, mailbox, pending, worker>>
      BY <1>1 DEF HostInsert, SetRow, TypeOK
    <2>2. CASE j = k
      <3>1. NoPlace(j)
        BY <2>1, <2>2 DEF Placed
      <3> QED
        BY <2>1, <2>2, <3>1
        DEF Placed, OnePlace, NoPlace, Unread, Queued, Busy, Holds, OnceIn
    <2>3. CASE j # k
      BY <2>1, <2>3 DEF Placed, OnePlace, NoPlace, Unread, Queued, Busy
    <2> QED
      BY <2>2, <2>3
  <1>2. CASE HostTell(k)
    <2>1. /\ k \in inflight /\ Tell(SubmitJob(k)) /\ inflight' = inflight \ {k}
          /\ UNCHANGED <<row, phase, boot, twice, pending, worker>>
      BY <1>2 DEF HostTell
    <2>2. Holds(mailbox', SubmitJob(j))
              <=> Holds(mailbox, SubmitJob(j)) \/ SubmitJob(k) = SubmitJob(j)
      BY <2>1, MailboxSubmits, MessageTypes
    <2>3. SubmitJob(k) = SubmitJob(j) => k = j
      BY DEF SubmitJob
    <2>4. CASE j = k
      <3>1. /\ ~NoPlace(j) /\ ~Holds(mailbox, SubmitJob(j)) /\ j \notin boot
            /\ ~Queued(j) /\ ~Busy(j)
        BY <2>1, <2>4 DEF Placed, OnePlace, NoPlace
      <3>2. OnceIn(mailbox', SubmitJob(j))
        BY <1>0, <2>1, <3>1, OnceMailbox, MessageTypes
      <3> QED
        BY <2>1, <2>4, <3>1, <3>2 DEF Placed, OnePlace, Unread, Queued, Busy
    <2>5. CASE j # k
      <3>1. OnceIn(mailbox', SubmitJob(j))
        BY <1>0, <2>1, <2>3, <2>5, OnceMailbox, MessageTypes
      <3> QED
        BY <2>1, <2>2, <2>3, <2>5, <3>1, PlacedFrame
    <2> QED
      BY <2>4, <2>5
  <1>3. CASE HostCancel(k)
    <2>1. CancelJob(k) # SubmitJob(j) /\ CancelJob(k) \in Message
      BY MessageTypes DEF CancelJob, SubmitJob
    <2>2. /\ Tell(CancelJob(k))
          /\ UNCHANGED <<row, phase, boot, twice, pending, worker, inflight>>
      BY <1>3 DEF HostCancel
    <2>3. /\ OnceIn(mailbox', SubmitJob(j))
          /\ Holds(mailbox', SubmitJob(j)) => Holds(mailbox, SubmitJob(j))
      BY <1>0, <2>1, <2>2, OnceMailbox, MailboxSubmits
    <2> QED
      BY <2>2, <2>3, PlacedFrame
  <1> QED
    BY <1>1, <1>2, <1>3

\* on_start queues each pending row once.
LEMMA PlacedStart ==
    ASSUME TypeOK, NEW j \in Jobs, Placed(j), j \notin twice, Tick \/ OnStart
    PROVE  Placed(j)'
  <1> USE DEF storage, runner
  <1>0. OnceIn(mailbox, SubmitJob(j))
    BY DEF Placed, OnePlace
  <1>1. CASE Tick
    <2>1. CleanupExpired # SubmitJob(j) /\ CleanupExpired \in Message
      BY MessageTypes DEF CleanupExpired, SubmitJob
    <2>2. /\ Tell(CleanupExpired)
          /\ UNCHANGED <<row, phase, boot, twice, pending, worker, inflight>>
      BY <1>1 DEF Tick
    <2>3. /\ OnceIn(mailbox', SubmitJob(j))
          /\ Holds(mailbox', SubmitJob(j)) => Holds(mailbox, SubmitJob(j))
      BY <1>0, <2>1, <2>2, OnceMailbox, MailboxSubmits
    <2> QED
      BY <2>2, <2>3, PlacedFrame
  <1>2. CASE MarkStale \/ MarkStaleFails
    <2>1. /\ row'[j] = "New" => row[j] = "New"
          /\ phase = "starting"
          /\ UNCHANGED <<boot, twice, mailbox, pending, worker, inflight>>
      BY <1>2 DEF MarkStale, MarkStaleFails
    <2> QED
      BY <1>0, <2>1, PlacedFrame
  <1>3. CASE LoadPendingFails \/ Started
    BY <1>0, <1>3, PlacedFrame DEF LoadPendingFails, Started
  <1>4. CASE LoadPending
    <2>1. /\ phase = "loading" /\ phase' = "requeue"
          /\ boot' = {i \in Jobs : row[i] = "Pending"}
          /\ twice' = {i \in boot' : i \in inflight \/ Holds(mailbox, SubmitJob(i))}
          /\ UNCHANGED <<row, mailbox, pending, worker, inflight>>
      BY <1>4 DEF LoadPending
    <2>2. Unread(j)
      BY <2>1 DEF Placed
    <2>3. CASE j \in twice'
      BY <2>1, <2>3 DEF Placed
    <2>4. CASE j \notin twice'
      BY <1>0, <2>1, <2>2, <2>4 DEF Placed, OnePlace, NoPlace, Unread, Queued, Busy
    <2> QED
      BY <2>3, <2>4
  <1>5. CASE Requeue
    <2>1. /\ phase = "requeue"
          /\ UNCHANGED <<row, phase, twice, pending, worker, inflight>>
      BY <1>5 DEF Requeue
    <2>2. PICK k \in boot : Tell(SubmitJob(k)) /\ boot' = boot \ {k}
      BY <1>5 DEF Requeue
    <2>3. k \in Jobs
      BY DEF TypeOK
    <2>4. Holds(mailbox', SubmitJob(j))
              <=> Holds(mailbox, SubmitJob(j)) \/ SubmitJob(k) = SubmitJob(j)
      BY <2>2, <2>3, MailboxSubmits, MessageTypes
    <2>5. SubmitJob(k) = SubmitJob(j) => k = j
      BY DEF SubmitJob
    <2>6. CASE j = k
      <3>1. /\ ~NoPlace(j) /\ ~Holds(mailbox, SubmitJob(j)) /\ j \notin inflight
            /\ ~Queued(j) /\ ~Busy(j)
        BY <2>2, <2>6 DEF Placed, OnePlace, NoPlace
      <3>2. OnceIn(mailbox', SubmitJob(j))
        BY <1>0, <2>2, <2>3, <3>1, OnceMailbox, MessageTypes
      <3> QED
        BY <2>1, <2>2, <2>6, <3>1, <3>2 DEF Placed, OnePlace, Queued, Busy
    <2>7. CASE j # k
      <3>1. OnceIn(mailbox', SubmitJob(j))
        BY <1>0, <2>2, <2>3, <2>5, <2>7, OnceMailbox, MessageTypes
      <3> QED
        BY <2>1, <2>2, <2>4, <2>5, <2>7, <3>1, PlacedFrame
    <2> QED
      BY <2>6, <2>7
  <1> QED
    BY <1>1, <1>2, <1>3, <1>4, <1>5 DEF OnStart

\* A crash leaves a job nowhere but in its row.
LEMMA PlacedCrash ==
    ASSUME NEW j \in Jobs, Crash
    PROVE  Placed(j)'
  <1>1. /\ inflight' = {} /\ boot' = {} /\ mailbox' = <<>> /\ pending' = {}
        /\ twice' = {} /\ \A p \in Permits : worker'[p].job = NoJob
    BY DEF Crash, IdleWorker
  <1>2. NoJob # j
    BY JobQueueAssumptions
  <1>3. \A m : ~Holds(mailbox', m) /\ OnceIn(mailbox', m)
    BY <1>1 DEF Holds, OnceIn
  <1> QED
    BY <1>1, <1>2, <1>3 DEF Placed, OnePlace, NoPlace, Unread, Queued, Busy

\* Of a job that on_start queued a second time no more is said.
LEMMA PlacedTwice ==
    ASSUME TypeOK, NEW j \in Jobs, Placed(j), j \in twice, [Next]_vars, ~Crash
    PROVE  Placed(j)'
  <1>1. row[j] # "New" /\ row'[j] # "New" /\ phase \notin {"starting", "loading"}
    BY RowForward DEF Placed
  <1>2. UNCHANGED twice /\ phase' \notin {"starting", "loading"}
    <2>1. CASE UNCHANGED vars
      BY <1>1, <2>1 DEF vars
    <2>2. CASE OnStart
      BY <1>1, <2>2
      DEF OnStart, MarkStale, MarkStaleFails, LoadPending, LoadPendingFails,
          Requeue, Started
    <2>3. CASE Handle
      BY <1>1, <2>3
      DEF Handle, HandleSubmitJob, HandleDispatchNext, HandleDispatchNothing,
          HandleCancelJob, HandleCleanupExpired, CancelRow, CancelRowFails,
          SweepResult, SweepResultFails, SweepRow, SweepRowFails
    <2>4. CASE \E p \in Permits : Work(p) \/ WorkerPanic(p)
      BY <1>1, <2>4
      DEF Work, WorkerMark, WorkerLoad, WorkerExecute, WorkerComplete,
          WorkerFinish, WorkerFail, WorkerTell, WorkerRelease, WorkerPanic
    <2>5. CASE Tick \/ \E k \in Jobs : HostInsert(k) \/ HostTell(k) \/ HostCancel(k)
      BY <1>1, <2>5 DEF Tick, HostInsert, HostTell, HostCancel
    <2> QED
      BY <2>1, <2>2, <2>3, <2>4, <2>5 DEF Next
  <1> QED
    BY <1>1, <1>2 DEF Placed

\* Nor do the actor's handlers: a submission moves the job from the mailbox
\* to the heap, a dispatch from the heap to a worker.
LEMMA PlacedHandle ==
    ASSUME TypeOK, NEW j \in Jobs, Placed(j), j \notin twice, Handle
    PROVE  Placed(j)'
  <1> USE DEF storage, runner
  <1>0. OnceIn(mailbox, SubmitJob(j))
    BY DEF Placed, OnePlace
  <1>1. CASE HandleSubmitJob
    <2> DEFINE k == Head(mailbox).job
               new == [job |-> k, seq |-> seq + 1]
    <2>1. /\ Receive("SubmitJob") /\ pending' = pending \cup {new}
          /\ mailbox' = Append(Tail(mailbox), DispatchNext)
          /\ phase = "up" /\ UNCHANGED <<row, phase, boot, twice, worker, inflight>>
      BY <1>1 DEF HandleSubmitJob, Receive
    <2>2. /\ Holds(mailbox, SubmitJob(j))
                <=> k = j \/ Holds(mailbox', SubmitJob(j))
          /\ OnceIn(mailbox', SubmitJob(j))
          /\ k = j => ~Holds(mailbox', SubmitJob(j))
      BY <1>0, <2>1, MailboxSubmits, OnceMailbox
    <2>3. new.job = k
      OBVIOUS
    <2> HIDE DEF new, k
    <2>4. CASE k = j
      <3>1. /\ ~NoPlace(j) /\ j \notin inflight \cup boot
            /\ ~Queued(j) /\ ~Busy(j)
        BY <2>2, <2>4 DEF Placed, OnePlace, NoPlace
      <3>2. \A e \in pending' : e.job = j => e = new
        BY <2>1, <3>1 DEF Queued
      <3> QED
        BY <2>1, <2>2, <2>4, <3>1, <3>2 DEF Placed, OnePlace, Queued, Busy
    <2>5. CASE k # j
      <3>1. \A e \in pending' : e.job = j => e \in pending
        BY <2>1, <2>3, <2>5
      <3>2. (Queued(j)' <=> Queued(j)) /\ (Busy(j)' <=> Busy(j))
        BY <2>1, <3>1 DEF Queued, Busy
      <3> QED
        BY <2>1, <2>2, <2>5, <3>1, <3>2 DEF Placed, OnePlace, NoPlace
    <2> QED
      BY <2>4, <2>5
  <1>2. ASSUME NEW p \in Permits, HandleDispatchNext(p)
        PROVE  Placed(j)'
    <2>1. /\ Receive("DispatchNext") /\ mailbox' = Tail(mailbox)
          /\ phase = "up" /\ UNCHANGED <<row, phase, boot, twice, inflight>>
      BY <1>2 DEF HandleDispatchNext, Receive
    <2>2. /\ Holds(mailbox', SubmitJob(j)) <=> Holds(mailbox, SubmitJob(j))
          /\ OnceIn(mailbox', SubmitJob(j))
      BY <1>0, <2>1, MailboxSubmits, OnceMailbox
    <2>3. PICK e \in pending : pending' = pending \ {e} /\ worker'[p].job = e.job
      BY <1>2, DispatchFields
    <2>4. \A q \in Permits \ {p} : worker'[q] = worker[q]
      BY <1>2, DispatchFields
    <2>5. CASE e.job = j
      <3>1. /\ ~NoPlace(j) /\ j \notin inflight \cup boot
            /\ ~Holds(mailbox, SubmitJob(j)) /\ ~Busy(j)
        BY <2>5 DEF Placed, OnePlace, NoPlace, Queued
      <3>2. ~Queued(j)'
        BY <2>3, <2>5 DEF Placed, OnePlace, Queued
      <3>3. \A q \in Permits : worker'[q].job = j => q = p
        BY <2>4, <3>1 DEF Busy
      <3>4. \A f, g \in pending' : f.job = j /\ g.job = j => f = g
        BY <3>2 DEF Queued
      <3> QED
        BY <2>1, <2>2, <3>1, <3>2, <3>3, <3>4 DEF Placed, OnePlace, NoPlace
    <2>6. CASE e.job # j
      <3>1. \A q \in Permits : worker'[q].job = j => worker[q].job = j
        BY <2>3, <2>4, <2>6
      <3> QED
        BY <2>1, <2>2, <2>3, <3>1, PlacedFrame
    <2> QED
      BY <2>5, <2>6
  <1>3. CASE HandleDispatchNothing
    <2>1. /\ Holds(mailbox', SubmitJob(j)) <=> Holds(mailbox, SubmitJob(j))
          /\ OnceIn(mailbox', SubmitJob(j))
      BY <1>0, <1>3, MailboxSubmits, OnceMailbox DEF HandleDispatchNothing
    <2> QED
      BY <1>3, <2>1, PlacedFrame DEF HandleDispatchNothing
  <1>4. CASE HandleCancelJob
    <2>1. /\ Holds(mailbox', SubmitJob(j)) <=> Holds(mailbox, SubmitJob(j))
          /\ OnceIn(mailbox', SubmitJob(j))
      BY <1>0, <1>4, MailboxSubmits, OnceMailbox DEF HandleCancelJob
    <2>2. /\ pending' \subseteq pending
          /\ UNCHANGED <<row, phase, boot, twice, inflight>>
      BY <1>4 DEF HandleCancelJob
    <2>3. \A q \in Permits : worker'[q].job = j => worker[q].job = j
      BY <1>4, CancelFields
    <2> QED
      BY <2>1, <2>2, <2>3, PlacedFrame
  <1>5. CASE HandleCleanupExpired
    <2>1. /\ Holds(mailbox', SubmitJob(j)) <=> Holds(mailbox, SubmitJob(j))
          /\ OnceIn(mailbox', SubmitJob(j))
      BY <1>0, <1>5, MailboxSubmits, OnceMailbox DEF HandleCleanupExpired
    <2> QED
      BY <1>5, <2>1, PlacedFrame DEF HandleCleanupExpired
  <1>6. CASE CancelRow \/ SweepRow
    <2>1. row'[j] = "New" => row[j] = "New"
      BY <1>6 DEF CancelRow, SweepRow, SetRow, TypeOK
    <2> QED
      BY <1>0, <1>6, <2>1, PlacedFrame DEF CancelRow, SweepRow
  <1>7. CASE CancelRowFails \/ SweepResult \/ SweepResultFails \/ SweepRowFails
    BY <1>0, <1>7, PlacedFrame
    DEF CancelRowFails, SweepResult, SweepResultFails, SweepRowFails
  <1> QED
    BY <1>1, <1>2, <1>3, <1>4, <1>5, <1>6, <1>7 DEF Handle

\* A worker task keeps its job until it ends, and queues none.
LEMMA PlacedWork ==
    ASSUME TypeOK, NEW j \in Jobs, Placed(j), j \notin twice, NEW p \in Permits,
           Work(p) \/ WorkerPanic(p)
    PROVE  Placed(j)'
  <1> USE DEF storage, runner
  <1>0. OnceIn(mailbox, SubmitJob(j))
    BY DEF Placed, OnePlace
  <1>1. \A q \in Permits : worker'[q].job = j => worker[q].job = j
    <2>1. CASE WorkerRelease(p) \/ WorkerPanic(p)
      <3>1. worker' = [worker EXCEPT ![p] = IdleWorker]
        BY <2>1 DEF WorkerRelease, WorkerPanic
      <3> QED
        BY <3>1, JobQueueAssumptions DEF IdleWorker, TypeOK
    <2>2. CASE \E pc \in WorkerPc, res \in {"none", "error"} \cup Terminal :
                   Goto(p, pc, res)
      BY <2>2, GotoFields
    <2>3. CASE Work(p) /\ ~WorkerRelease(p)
      BY <2>2, <2>3, BusyWorker
      DEF Work, WorkerMark, WorkerLoad, WorkerExecute, WorkerComplete,
          WorkerFinish, WorkerFail, WorkerTell, At, WorkerPc, Terminal
    <2> QED
      BY <2>1, <2>3
  <1>2. row'[j] = "New" => row[j] = "New"
    <2>1. CASE WorkerMark(p) \/ WorkerComplete(p) \/ WorkerFail(p)
      BY <2>1, BusyWorker
      DEF WorkerMark, WorkerComplete, WorkerFail, SetRow, At, TypeOK, Terminal
    <2> QED
      BY <2>1
      DEF Work, WorkerLoad, WorkerExecute, WorkerFinish, WorkerTell,
          WorkerRelease, WorkerPanic
  <1>3. UNCHANGED <<inflight, boot, twice, pending, phase>>
    BY DEF Work, WorkerMark, WorkerLoad, WorkerExecute, WorkerComplete,
           WorkerFinish, WorkerFail, WorkerTell, WorkerRelease, WorkerPanic
  <1>4. /\ OnceIn(mailbox', SubmitJob(j))
        /\ Holds(mailbox', SubmitJob(j)) => Holds(mailbox, SubmitJob(j))
    <2>1. CASE WorkerTell(p)
      <3>1. DispatchNext # SubmitJob(j) /\ DispatchNext \in Message
        BY MessageTypes DEF DispatchNext, SubmitJob
      <3> QED
        BY <1>0, <2>1, <3>1, OnceMailbox, MailboxSubmits DEF WorkerTell
    <2>2. CASE UNCHANGED mailbox
      BY <1>0, <2>2
    <2> QED
      BY <2>1, <2>2
      DEF Work, WorkerMark, WorkerLoad, WorkerExecute, WorkerComplete,
          WorkerFinish, WorkerFail, WorkerRelease, WorkerPanic
  <1> QED
    BY <1>1, <1>2, <1>3, <1>4, PlacedFrame

\* In every step each job stays in one place, or moves to one.
LEMMA PlacedStep ==
    TypeOK /\ AllPlaced /\ [Next]_vars => AllPlaced'
  <1> SUFFICES ASSUME TypeOK, AllPlaced, [Next]_vars, NEW j \in Jobs
               PROVE  Placed(j)'
    BY DEF AllPlaced
  <1>0. Placed(j)
    BY DEF AllPlaced
  <1>1. CASE UNCHANGED vars
    BY <1>0, <1>1 DEF vars, Placed, OnePlace, NoPlace, Unread, Queued, Busy
  <1>2. CASE Crash
    BY <1>2, PlacedCrash
  <1>3. CASE j \in twice /\ ~Crash
    BY <1>0, <1>3, PlacedTwice
  <1>4. CASE j \notin twice
    BY <1>0, <1>1, <1>2, <1>4, PlacedHost, PlacedStart, PlacedHandle, PlacedWork
    DEF Next
  <1> QED
    BY <1>2, <1>3, <1>4

\* At first no job is anywhere.
LEMMA PlacedInit == Init => AllPlaced
  <1> SUFFICES ASSUME Init, NEW j \in Jobs PROVE Placed(j)
    BY DEF AllPlaced
  <1>1. NoJob # j
    BY JobQueueAssumptions
  <1>2. \A m : ~Holds(mailbox, m) /\ OnceIn(mailbox, m)
    BY DEF Init, Holds, OnceIn
  <1> QED
    BY <1>1, <1>2
    DEF Init, IdleWorker, Placed, OnePlace, NoPlace, Unread, Queued, Busy

\* A job has at most one worker at a time, whatever is cancelled, panics,
\* fails or crashes in between and however early the host calls: the only jobs
\* with two are the ones that pending_jobs read at startup while the host was
\* submitting them.
THEOREM NoDoubleRunCorrect == Spec => []NoDoubleRun
  <1>1. TypeOK /\ AllPlaced => NoDoubleRun
    <2> SUFFICES ASSUME TypeOK, AllPlaced,
                        NEW p \in Permits, NEW q \in Permits, p # q,
                        worker[p].pc # "idle", worker[p].job = worker[q].job,
                        worker[p].job \notin twice
                 PROVE  FALSE
      BY DEF NoDoubleRun
    <2>1. worker[p].job \in Jobs
      BY BusyWorker
    <2> QED
      BY <2>1 DEF AllPlaced, Placed, OnePlace
  <1> QED
    BY <1>1, PlacedInit, PlacedStep, TypeCorrect, PTL DEF Spec

-----------------------------------------------------------------------------
(* The cancellation token of a job is its worker's.                        *)

\* What TokenTracksWorker says of one worker.
HasToken(p) ==
    /\ worker[p].pc \in {"mark", "load", "exec", "complete", "finish"}
    /\ ~worker[p].cancelled /\ worker[p].job \notin twice
    => running[worker[p].job] = p

\* A worker keeps its token in a step that neither starts it nor changes the
\* entry of its job.
LEMMA TokenFrame ==
    ASSUME NEW p \in Permits, HasToken(p), twice \subseteq twice',
           worker'[p].pc \in {"mark", "load", "exec", "complete", "finish"} =>
               /\ worker[p].pc \in {"mark", "load", "exec", "complete", "finish"}
               /\ worker'[p].job = worker[p].job
               /\ worker[p].cancelled => worker'[p].cancelled
               /\ running'[worker[p].job] = running[worker[p].job]
    PROVE  HasToken(p)'
  BY DEF HasToken

\* PriorityRunner::cancel removes the token that it cancels.
LEMMA TokenCancel ==
    ASSUME TypeOK, NEW p \in Permits, HasToken(p), HandleCancelJob
    PROVE  HasToken(p)'
  <1> DEFINE j == Head(mailbox).job
  <1>1. j \in Jobs
    BY MailboxTail DEF HandleCancelJob, Receive, Message, TypeOK
  <1>2. running' = [running EXCEPT ![j] = "none"] /\ UNCHANGED twice
    BY DEF HandleCancelJob
  <1>3. worker' = IF running[j] \in Permits
                    THEN [worker EXCEPT ![running[j]].cancelled = TRUE]
                    ELSE worker
    BY DEF HandleCancelJob
  <1> HIDE DEF j
  <1>4. /\ worker'[p].pc = worker[p].pc /\ worker'[p].job = worker[p].job
    BY CancelFields
  <1>5. worker[p].cancelled => worker'[p].cancelled
    BY <1>3 DEF TypeOK, Worker
  <1>6. CASE running[j] = p
    <2>1. worker'[p].cancelled
      BY <1>3, <1>6 DEF TypeOK, Worker
    <2> QED
      BY <2>1 DEF HasToken
  <1>7. CASE running[j] # p
    <2>1. CASE worker[p].job = j
      BY <1>2, <1>4, <1>5, <1>7, <2>1 DEF HasToken
    <2>2. CASE worker[p].job # j
      <3>1. running'[worker[p].job] = running[worker[p].job]
        BY <1>2, <2>2 DEF TypeOK
      <3> QED
        BY <1>2, <1>4, <1>5, <3>1, TokenFrame
    <2> QED
      BY <2>1, <2>2
  <1> QED
    BY <1>6, <1>7

\* A dispatch gives the token of a job that had no worker to its new one.
LEMMA TokenDispatch ==
    ASSUME TypeOK, AllPlaced, NEW p \in Permits, HasToken(p),
           NEW q \in Permits, HandleDispatchNext(q)
    PROVE  HasToken(p)'
  <1>1. PICK e \in pending :
            /\ running' = [running EXCEPT ![e.job] = q]
            /\ worker' = [worker EXCEPT ![q] =
                   [IdleWorker EXCEPT !.pc = "mark", !.job = e.job]]
    BY DEF HandleDispatchNext
  <1>2. e.job \in Jobs /\ UNCHANGED twice
    BY DEF TypeOK, Entry, HandleDispatchNext
  <1>3. CASE p = q
    BY <1>1, <1>2, <1>3 DEF HasToken, TypeOK, IdleWorker
  <1>4. CASE p # q
    <2>1. worker'[p] = worker[p]
      BY <1>1, <1>4 DEF TypeOK
    <2>2. CASE worker[p].job \in twice
      BY <1>2, <2>1, <2>2 DEF HasToken
    <2>3. CASE worker[p].job \notin twice
      <3>1. worker[p].job # e.job
        BY <1>2, <2>3 DEF AllPlaced, Placed, OnePlace, Queued, Busy
      <3>2. running'[worker[p].job] = running[worker[p].job]
        BY <1>1, <3>1 DEF TypeOK
      <3> QED
        BY <1>2, <2>1, <3>2, TokenFrame
    <2> QED
      BY <2>2, <2>3
  <1> QED
    BY <1>3, <1>4

\* A worker that finishes or panics takes no other worker's token away.
LEMMA TokenWork ==
    ASSUME TypeOK, AllPlaced, NEW p \in Permits, HasToken(p),
           NEW q \in Permits, Work(q) \/ WorkerPanic(q)
    PROVE  HasToken(p)'
  <1> USE DEF storage, runner
  <1> DEFINE Live == {"mark", "load", "exec", "complete", "finish"}
  <1>0. UNCHANGED twice
    BY DEF Work, WorkerMark, WorkerLoad, WorkerExecute, WorkerComplete,
           WorkerFinish, WorkerFail, WorkerTell, WorkerRelease, WorkerPanic
  <1>1. CASE WorkerFinish(q)
    <2>1. /\ worker[q].pc # "idle"
          /\ running' = [running EXCEPT ![worker[q].job] = "none"]
      BY <1>1 DEF WorkerFinish, At
    <2>2. worker'[q].pc \in {"fail", "tell"}
      BY <1>1, GotoFields DEF WorkerFinish
    <2>3. CASE p = q
      BY <2>2, <2>3 DEF HasToken
    <2>4. CASE p # q
      <3>1. worker'[p] = worker[p]
        BY <1>1, <2>4, GotoFields DEF WorkerFinish
      <3>2. CASE worker[p].job \in twice
        BY <1>0, <3>1, <3>2 DEF HasToken
      <3>3. CASE worker[p].job \notin twice
        <4>1. worker[p].job # worker[q].job
          BY <2>1, <2>4, <3>3, BusyWorker DEF AllPlaced, Placed, OnePlace
        <4>2. running'[worker[p].job] = running[worker[p].job]
          BY <2>1, <4>1 DEF TypeOK
        <4> QED
          BY <1>0, <3>1, <4>2, TokenFrame
      <3> QED
        BY <3>2, <3>3
    <2> QED
      BY <2>3, <2>4
  <1>2. CASE WorkerPanic(q)
    <2>1. /\ worker[q].pc # "idle"
          /\ running' = [running EXCEPT ![worker[q].job] =
                             IF @ = q THEN "dead" ELSE @]
          /\ worker' = [worker EXCEPT ![q] = IdleWorker]
      BY <1>2 DEF WorkerPanic, At
    <2>2. CASE p = q
      BY <2>1, <2>2 DEF HasToken, IdleWorker, TypeOK
    <2>3. CASE p # q
      <3>1. worker'[p] = worker[p]
        BY <2>1, <2>3 DEF TypeOK
      <3>2. CASE worker[p].job \in twice
        BY <1>0, <3>1, <3>2 DEF HasToken
      <3>3. CASE worker[p].job \notin twice
        <4>1. worker[p].job # worker[q].job
          BY <2>1, <2>3, <3>3, BusyWorker DEF AllPlaced, Placed, OnePlace
        <4>2. running'[worker[p].job] = running[worker[p].job]
          BY <2>1, <4>1 DEF TypeOK
        <4> QED
          BY <1>0, <3>1, <4>2, TokenFrame
      <3> QED
        BY <3>2, <3>3
    <2> QED
      BY <2>2, <2>3
  <1>3. CASE WorkerRelease(q)
    <2>1. /\ UNCHANGED running
          /\ worker' = [worker EXCEPT ![q] = IdleWorker]
      BY <1>3 DEF WorkerRelease
    <2>2. worker'[p].pc \in Live => worker'[p] = worker[p]
      BY <2>1 DEF TypeOK, IdleWorker
    <2> QED
      BY <1>0, <2>1, <2>2, TokenFrame
  <1>4. ASSUME NEW pc, NEW res, Goto(q, pc, res), UNCHANGED running,
               pc \in Live => worker[q].pc \in Live
        PROVE  HasToken(p)'
    <2>1. /\ worker'[p].job = worker[p].job
          /\ worker'[p].pc \in Live => worker[p].pc \in Live
      BY <1>4, GotoFields
    <2>2. worker'[p].cancelled = worker[p].cancelled
      BY <1>4 DEF Goto, TypeOK, Worker
    <2> QED
      BY <1>0, <1>4, <2>1, <2>2, TokenFrame
  <1>5. CASE WorkerMark(q) \/ WorkerLoad(q)
    BY <1>4, <1>5 DEF WorkerMark, WorkerLoad, At
  <1>6. CASE WorkerExecute(q) \/ WorkerComplete(q)
    BY <1>4, <1>6 DEF WorkerExecute, WorkerComplete, At
  <1>7. CASE WorkerFail(q) \/ WorkerTell(q)
    BY <1>4, <1>7 DEF WorkerFail, WorkerTell, At
  <1> QED
    BY <1>1, <1>2, <1>3, <1>5, <1>6, <1>7 DEF Work

\* Every step keeps the token of every worker that has not been cancelled.
LEMMA TokenStep ==
    TypeOK /\ AllPlaced /\ TokenTracksWorker /\ [Next]_vars => TokenTracksWorker'
  <1> SUFFICES ASSUME TypeOK, AllPlaced, TokenTracksWorker, [Next]_vars,
                      NEW p \in Permits
               PROVE  HasToken(p)'
    BY DEF TokenTracksWorker, HasToken
  <1>0. HasToken(p)
    BY DEF TokenTracksWorker, HasToken
  <1>1. CASE UNCHANGED <<worker, running, twice>>
    BY <1>0, <1>1 DEF HasToken
  <1>2. CASE Crash
    BY <1>2 DEF Crash, HasToken, IdleWorker
  <1>3. CASE Handle
    <2>1. CASE HandleCancelJob
      BY <1>0, <2>1, TokenCancel
    <2>2. CASE \E q \in Permits : HandleDispatchNext(q)
      BY <1>0, <2>2, TokenDispatch
    <2> QED
      BY <1>1, <1>3, <2>1, <2>2
      DEF Handle, HandleSubmitJob, HandleDispatchNothing, HandleCleanupExpired,
          CancelRow, CancelRowFails, SweepResult, SweepResultFails, SweepRow,
          SweepRowFails, runner
  <1>4. CASE \E q \in Permits : Work(q) \/ WorkerPanic(q)
    BY <1>0, <1>4, TokenWork
  <1>5. CASE \E j \in Jobs : HostInsert(j) \/ HostTell(j) \/ HostCancel(j)
    BY <1>1, <1>5 DEF HostInsert, HostTell, HostCancel, runner
  <1>6. CASE LoadPending
    <2>1. phase = "loading" /\ UNCHANGED <<worker, running>>
      BY <1>6 DEF LoadPending, runner
    <2>2. twice = {}
      BY <2>1 DEF AllPlaced, Placed, TypeOK
    <2> QED
      BY <1>0, <2>1, <2>2 DEF HasToken
  <1>7. CASE Tick \/ OnStart
    BY <1>1, <1>6, <1>7
    DEF Tick, OnStart, MarkStale, MarkStaleFails, LoadPendingFails, Requeue,
        Started, runner
  <1> QED
    BY <1>1, <1>2, <1>3, <1>4, <1>5, <1>7 DEF Next, vars

\* A worker that has not been cancelled can be: until it calls finish, the
\* running map holds its token.  Neither the finish of an earlier run of the
\* same job nor its panic can take that token away, because a job has one
\* worker - unless it was queued twice at startup.
THEOREM TokenTracksWorkerCorrect == Spec => []TokenTracksWorker
  <1>1. Init => TokenTracksWorker
    BY DEF Init, TokenTracksWorker, IdleWorker
  <1> QED
    BY <1>1, PlacedInit, PlacedStep, TokenStep, TypeCorrect, PTL DEF Spec

-----------------------------------------------------------------------------
(* The queue implements JobLease.                                          *)

\* Job j is on its way to a worker.
Waiting(j) == j \in inflight \cup boot \/ Holds(mailbox, SubmitJob(j)) \/ Queued(j)

waitingJobs == {j \in Jobs : Waiting(j)}
leasedJobs  == {j \in Jobs : Busy(j)}

Lease == INSTANCE JobLease WITH waiting <- waitingJobs, leased <- leasedJobs,
                                doubled <- twice

\* The queue does with each job what JobLease allows: accepted once, waiting
\* until a worker has it, which alone reports how the job fares.
ImplementsJobLease == Lease!Spec

\* What a sweep has found expired is past Pending.
SweptHasRun ==
    /\ \A t \in handler.todo : row[t[1]] \notin {"New", "Pending"}
    /\ handler.op = "sweeprow" => row[handler.job] \notin {"New", "Pending"}

\* A sweep holds only jobs that are past Pending.
LEMMA SweptStep == TypeOK /\ SweptHasRun /\ [Next]_vars => SweptHasRun'
  <1> SUFFICES ASSUME TypeOK, SweptHasRun, [Next]_vars PROVE SweptHasRun'
    OBVIOUS
  <1>0. /\ \A t \in handler.todo : t[1] \in Jobs
        /\ handler.op = "sweeprow" => handler.job \in Jobs
    BY HandlerSweep, HandlerJob
  <1>1. ASSUME handler'.todo \subseteq handler.todo,
               handler'.op = "sweeprow" =>
                   \/ handler.op = "sweeprow" /\ handler'.job = handler.job
                   \/ \E t \in handler.todo : handler'.job = t[1]
        PROVE  SweptHasRun'
    BY <1>0, <1>1, RowForward DEF SweptHasRun
  <1>2. CASE UNCHANGED handler
    BY <1>1, <1>2
  <1>3. CASE handler' = IdleHandler
    BY <1>1, <1>3 DEF IdleHandler
  <1>4. CASE HandleCancelJob
    BY <1>1, <1>4 DEF HandleCancelJob, IdleHandler
  <1>5. CASE HandleCleanupExpired
    <2>1. PICK expired \in SUBSET {j \in Jobs : row[j] \in Terminal} :
              handler' = IF expired = {} THEN IdleHandler
                         ELSE [op |-> "sweep", job |-> NoJob,
                               todo |-> {<<j, path[j]>> : j \in expired}]
      BY <1>5 DEF HandleCleanupExpired
    <2>2. UNCHANGED row
      BY <1>5 DEF HandleCleanupExpired
    <2>3. CASE expired # {}
      BY <2>1, <2>2, <2>3 DEF SweptHasRun, Terminal
    <2> QED
      BY <1>3, <2>1, <2>3
  <1>6. CASE SweepResult \/ SweepResultFails
    <2>1. PICK t \in handler.todo :
              handler' = [op |-> "sweeprow", job |-> t[1],
                          todo |-> handler.todo \ {t}]
      BY <1>6 DEF SweepResult, SweepResultFails
    <2> QED
      BY <1>1, <2>1
  <1>7. CASE SweepRow \/ SweepRowFails
    <2>1. handler.op = "sweeprow" /\ handler' = AfterRow
      BY <1>7 DEF SweepRow, SweepRowFails
    <2>2. AfterRow.todo \subseteq handler.todo /\ AfterRow.op # "sweeprow"
      BY <2>1 DEF AfterRow, IdleHandler, TypeOK, Handler
    <2> QED
      BY <1>1, <2>1, <2>2
  <1>8. CASE Handle
    BY <1>2, <1>3, <1>4, <1>5, <1>6, <1>7, <1>8
    DEF Handle, HandleSubmitJob, HandleDispatchNothing, CancelRow,
        CancelRowFails, HandleDispatchNext
  <1>9. CASE \E p \in Permits : Work(p) \/ WorkerPanic(p)
    BY <1>2, <1>9
    DEF Work, WorkerMark, WorkerLoad, WorkerExecute, WorkerComplete,
        WorkerFinish, WorkerFail, WorkerTell, WorkerRelease, WorkerPanic
  <1>10. CASE \/ Tick \/ OnStart \/ Crash
              \/ \E k \in Jobs : HostInsert(k) \/ HostTell(k) \/ HostCancel(k)
    BY <1>2, <1>3, <1>10
    DEF Tick, OnStart, MarkStale, MarkStaleFails, LoadPending,
        LoadPendingFails, Requeue, Started, Crash, HostInsert, HostTell,
        HostCancel
  <1> QED
    BY <1>2, <1>8, <1>9, <1>10 DEF Next, vars

\* No lease changes when no job starts or stops waiting, or gets or leaves a
\* worker.
LEMMA LeaseStays ==
    ASSUME UNCHANGED twice,
           \A j \in Jobs : (Busy(j)' <=> Busy(j)) /\ (Waiting(j)' <=> Waiting(j))
    PROVE  UNCHANGED <<waitingJobs, leasedJobs, twice>>
  BY DEF waitingJobs, leasedJobs

\* What a step that moves job k leaves of a set of jobs.
LEMMA SetLeft ==
    ASSUME NEW k \in Jobs, NEW S \in SUBSET Jobs, NEW T \in SUBSET Jobs,
           \A j \in Jobs \ {k} : j \in T <=> j \in S,
           k \in S, k \notin twice => k \notin T
    PROVE  T \in Lease!Without(S, k)
  <1>1. CASE k \in T
    <2>1. T = S /\ k \in twice
      BY <1>1
    <2> QED
      BY <2>1 DEF Lease!Without
  <1>2. CASE k \notin T
    <2>1. T = S \ {k}
      BY <1>2
    <2> QED
      BY <2>1 DEF Lease!Without
  <1> QED
    BY <1>1, <1>2

\* The host accepts a job; telling the actor moves it from one place of
\* waiting to the next.
LEMMA LeaseHost ==
    ASSUME TypeOK, AllPlaced, NEW k \in Jobs,
           HostInsert(k) \/ HostTell(k) \/ HostCancel(k)
    PROVE  Lease!Next \/ UNCHANGED Lease!vars
  <1> USE DEF storage, runner
  <1>1. CASE HostInsert(k)
    <2>1. /\ row[k] = "New" /\ row' = [row EXCEPT ![k] = "Pending"]
          /\ inflight' = inflight \cup {k}
          /\ UNCHANGED <<boot, twice, mailbox, pending, worker>>
      BY <1>1 DEF HostInsert, SetRow
    <2>2. NoPlace(k)
      BY <2>1 DEF AllPlaced, Placed
    <2>3. k \notin waitingJobs \cup leasedJobs
      BY <2>2 DEF waitingJobs, leasedJobs, Waiting, NoPlace
    <2>4. UNCHANGED leasedJobs
      BY <2>1 DEF leasedJobs, Busy
    <2>5. waitingJobs' = waitingJobs \cup {k}
      BY <2>1 DEF waitingJobs, Waiting, Queued
    <2>6. Lease!Accept(k)
      BY <2>1, <2>3, <2>4, <2>5 DEF Lease!Accept
    <2> QED
      BY <2>6 DEF Lease!Next
  <1>2. CASE HostTell(k)
    <2>1. /\ k \in inflight /\ Tell(SubmitJob(k)) /\ inflight' = inflight \ {k}
          /\ UNCHANGED <<row, boot, twice, pending, worker>>
      BY <1>2 DEF HostTell
    <2>2. ASSUME NEW j \in Jobs
          PROVE  (Busy(j)' <=> Busy(j)) /\ (Waiting(j)' <=> Waiting(j))
      <3>1. Holds(mailbox', SubmitJob(j)) <=> Holds(mailbox, SubmitJob(j)) \/ k = j
        BY <2>1, MailboxSubmits, MessageTypes DEF SubmitJob
      <3> QED
        BY <2>1, <3>1 DEF Waiting, Busy, Queued
    <2> QED
      BY <2>1, <2>2, LeaseStays DEF Lease!vars
  <1>3. CASE HostCancel(k)
    <2>1. Tell(CancelJob(k)) /\ UNCHANGED <<row, boot, twice, pending, worker, inflight>>
      BY <1>3 DEF HostCancel
    <2>2. ASSUME NEW j \in Jobs
          PROVE  (Busy(j)' <=> Busy(j)) /\ (Waiting(j)' <=> Waiting(j))
      <3>1. Holds(mailbox', SubmitJob(j)) <=> Holds(mailbox, SubmitJob(j))
        BY <2>1, MailboxSubmits, MessageTypes DEF SubmitJob, CancelJob
      <3> QED
        BY <2>1, <3>1 DEF Waiting, Busy, Queued
    <2> QED
      BY <2>1, <2>2, LeaseStays DEF Lease!vars
  <1> QED
    BY <1>1, <1>2, <1>3

\* A restart returns every lease; the next process fails the stale rows and
\* recovers the pending ones before any worker has a job.
LEMMA LeaseStart ==
    ASSUME TypeOK, AllPlaced, Tick \/ OnStart \/ Crash
    PROVE  Lease!Next \/ UNCHANGED Lease!vars
  <1> USE DEF storage, runner
  <1>1. ASSUME phase \in {"starting", "loading"}, NEW j \in Jobs
        PROVE  Unread(j)
    BY <1>1 DEF AllPlaced, Placed
  <1>2. ASSUME phase \in {"starting", "loading"}
        PROVE  leasedJobs = {}
    BY <1>1, <1>2 DEF leasedJobs, Unread
  <1>3. ASSUME UNCHANGED <<boot, twice, mailbox, pending, worker, inflight>>
        PROVE  UNCHANGED <<waitingJobs, leasedJobs, twice>>
    BY <1>3, LeaseStays DEF Waiting, Busy, Queued
  <1>4. CASE Tick
    <2>1. /\ Tell(CleanupExpired)
          /\ UNCHANGED <<row, boot, twice, pending, worker, inflight>>
      BY <1>4 DEF Tick
    <2>2. ASSUME NEW j \in Jobs
          PROVE  (Busy(j)' <=> Busy(j)) /\ (Waiting(j)' <=> Waiting(j))
      <3>1. Holds(mailbox', SubmitJob(j)) <=> Holds(mailbox, SubmitJob(j))
        BY <2>1, MailboxSubmits, MessageTypes DEF SubmitJob, CleanupExpired
      <3> QED
        BY <2>1, <3>1 DEF Waiting, Busy, Queued
    <2> QED
      BY <2>1, <2>2, LeaseStays DEF Lease!vars
  <1>5. CASE MarkStale
    <2>1. UNCHANGED <<waitingJobs, leasedJobs, twice>>
      BY <1>3, <1>5 DEF MarkStale
    <2>2. leasedJobs = {}
      BY <1>2, <1>5 DEF MarkStale
    <2>3. Lease!FailStale
      BY <1>5, <2>1, <2>2 DEF MarkStale, Lease!FailStale
    <2> QED
      BY <2>3 DEF Lease!Next
  <1>6. CASE MarkStaleFails \/ LoadPendingFails \/ Started
    BY <1>3, <1>6 DEF MarkStaleFails, LoadPendingFails, Started, Lease!vars
  <1>7. CASE LoadPending
    <2> DEFINE found == {j \in Jobs : row[j] = "Pending"}
    <2>1. /\ phase = "loading" /\ boot' = found
          /\ twice' = {j \in found : j \in inflight \/ Holds(mailbox, SubmitJob(j))}
          /\ UNCHANGED <<row, mailbox, pending, worker, inflight>>
      BY <1>7 DEF LoadPending
    <2>2. leasedJobs = {} /\ UNCHANGED leasedJobs
      BY <1>2, <2>1 DEF leasedJobs, Busy
    <2>3. ASSUME NEW j \in Jobs
          PROVE  /\ Waiting(j) <=> j \in inflight \/ Holds(mailbox, SubmitJob(j))
                 /\ Waiting(j)' <=> Waiting(j) \/ j \in found
      BY <1>1, <2>1 DEF Waiting, Unread, Queued
    <2>4. waitingJobs' = waitingJobs \cup found
      BY <2>3 DEF waitingJobs
    <2>5. twice' = waitingJobs \cap found
      BY <2>1, <2>3 DEF waitingJobs
    <2>6. Lease!Recover
      BY <2>1, <2>2, <2>4, <2>5 DEF Lease!Recover
    <2> QED
      BY <2>6 DEF Lease!Next
  <1>8. CASE Requeue
    <2>1. UNCHANGED <<row, twice, pending, worker, inflight>>
      BY <1>8 DEF Requeue
    <2>2. PICK k \in boot : Tell(SubmitJob(k)) /\ boot' = boot \ {k}
      BY <1>8 DEF Requeue
    <2>3. k \in Jobs
      BY DEF TypeOK
    <2>4. ASSUME NEW j \in Jobs
          PROVE  (Busy(j)' <=> Busy(j)) /\ (Waiting(j)' <=> Waiting(j))
      <3>1. Holds(mailbox', SubmitJob(j)) <=> Holds(mailbox, SubmitJob(j)) \/ k = j
        BY <2>2, <2>3, MailboxSubmits, MessageTypes DEF SubmitJob
      <3> QED
        BY <2>1, <2>2, <3>1 DEF Waiting, Busy, Queued
    <2> QED
      BY <2>1, <2>4, LeaseStays DEF Lease!vars
  <1>9. CASE Crash
    <2>1. /\ inflight' = {} /\ boot' = {} /\ mailbox' = <<>> /\ pending' = {}
          /\ twice' = {} /\ \A p \in Permits : worker'[p].job = NoJob
          /\ UNCHANGED row
      BY <1>9 DEF Crash, IdleWorker
    <2>2. \A m : ~Holds(mailbox', m)
      BY <2>1 DEF Holds
    <2>3. waitingJobs' = {}
      BY <2>1, <2>2 DEF waitingJobs, Waiting, Queued
    <2>4. leasedJobs' = {}
      BY <2>1, JobQueueAssumptions DEF leasedJobs, Busy
    <2>5. Lease!Restart
      BY <2>1, <2>3, <2>4 DEF Lease!Restart
    <2> QED
      BY <2>5 DEF Lease!Next
  <1> QED
    BY <1>4, <1>5, <1>6, <1>7, <1>8, <1>9 DEF OnStart

\* A dispatch grants a lease; a cancellation withdraws a job that waits.
LEMMA LeaseHandle ==
    ASSUME TypeOK, AllPlaced, SweptHasRun, Handle
    PROVE  Lease!Next \/ UNCHANGED Lease!vars
  <1> USE DEF storage, runner
  <1>1. ASSUME UNCHANGED <<boot, twice, mailbox, pending, worker, inflight>>
        PROVE  UNCHANGED <<waitingJobs, leasedJobs, twice>>
    BY <1>1, LeaseStays DEF Waiting, Busy, Queued
  <1>2. CASE HandleSubmitJob
    <2> DEFINE k == Head(mailbox).job
               new == [job |-> k, seq |-> seq + 1]
    <2>1. /\ Receive("SubmitJob") /\ pending' = pending \cup {new}
          /\ mailbox' = Append(Tail(mailbox), DispatchNext)
          /\ UNCHANGED <<row, boot, twice, worker, inflight>>
      BY <1>2 DEF HandleSubmitJob
    <2>2. new.job = k
      OBVIOUS
    <2> HIDE DEF new
    <2>3. ASSUME NEW j \in Jobs
          PROVE  (Busy(j)' <=> Busy(j)) /\ (Waiting(j)' <=> Waiting(j))
      <3>1. Holds(mailbox, SubmitJob(j)) <=> k = j \/ Holds(mailbox', SubmitJob(j))
        BY <2>1, MailboxSubmits
      <3>2. Queued(j)' <=> Queued(j) \/ k = j
        BY <2>1, <2>2 DEF Queued
      <3> QED
        BY <2>1, <3>1, <3>2 DEF Waiting, Busy
    <2> QED
      BY <2>1, <2>3, LeaseStays DEF Lease!vars
  <1>3. ASSUME NEW p \in Permits, HandleDispatchNext(p)
        PROVE  Lease!Next
    <2>1. /\ Receive("DispatchNext") /\ mailbox' = Tail(mailbox)
          /\ UNCHANGED <<row, boot, twice, inflight>>
      BY <1>3 DEF HandleDispatchNext
    <2>2. PICK e \in pending : pending' = pending \ {e} /\ worker'[p].job = e.job
      BY <1>3, DispatchFields
    <2>3. /\ \A q \in Permits \ {p} : worker'[q] = worker[q]
          /\ worker[p].pc = "idle"
      BY <1>3, DispatchFields DEF HandleDispatchNext, FreePermits
    <2>4. worker[p].job = NoJob
      BY <2>3 DEF TypeOK, Worker
    <2>5. PICK k \in Jobs : k = e.job
      BY DEF TypeOK, Entry
    <2>6. ASSUME NEW j \in Jobs
          PROVE  /\ Holds(mailbox', SubmitJob(j)) <=> Holds(mailbox, SubmitJob(j))
                 /\ Busy(j)' <=> Busy(j) \/ j = k
                 /\ j # k => (Queued(j)' <=> Queued(j))
      <3>1. Holds(mailbox', SubmitJob(j)) <=> Holds(mailbox, SubmitJob(j))
        BY <2>1, MailboxSubmits
      <3>2. j # k => (Queued(j)' <=> Queued(j))
        BY <2>2, <2>5 DEF Queued
      <3>3. Busy(j)' <=> Busy(j) \/ j = k
        BY <2>2, <2>3, <2>4, <2>5, JobQueueAssumptions DEF Busy
      <3> QED
        BY <3>1, <3>2, <3>3
    <2>7. leasedJobs' = leasedJobs \cup {k}
      BY <2>6 DEF leasedJobs
    <2>8. Waiting(k) /\ Queued(k)
      BY <2>5 DEF Waiting, Queued
    <2>9. ASSUME k \notin twice
          PROVE  ~Busy(k) /\ ~Waiting(k)'
      <3>1. OnePlace(k)
        BY <2>9 DEF AllPlaced, Placed
      <3>2. ~Queued(k)'
        BY <2>2, <2>5, <3>1 DEF OnePlace, Queued
      <3> QED
        BY <2>1, <2>6, <2>8, <3>1, <3>2 DEF OnePlace, Waiting
    <2>10. waitingJobs' \in Lease!Without(waitingJobs, k)
      <3>1. \A j \in Jobs \ {k} : j \in waitingJobs' <=> j \in waitingJobs
        BY <2>1, <2>6 DEF waitingJobs, Waiting
      <3>2. /\ k \in waitingJobs /\ (k \notin twice => k \notin waitingJobs')
            /\ waitingJobs \in SUBSET Jobs /\ waitingJobs' \in SUBSET Jobs
        BY <2>8, <2>9 DEF waitingJobs
      <3> QED
        BY <3>1, <3>2, SetLeft
    <2>11. k \in waitingJobs /\ (k \in leasedJobs => k \in twice)
      BY <2>8, <2>9 DEF waitingJobs, leasedJobs
    <2>12. Lease!Grant(k)
      BY <2>1, <2>7, <2>10, <2>11 DEF Lease!Grant
    <2> QED
      BY <2>12 DEF Lease!Next
  <1>4. CASE HandleCancelJob
    <2>1. PICK k \in Jobs : k = Head(mailbox).job
      BY <1>4, MailboxTail DEF HandleCancelJob, Receive, Message, TypeOK
    <2>2. /\ Receive("CancelJob") /\ mailbox' = Tail(mailbox)
          /\ UNCHANGED <<row, boot, twice, inflight>>
          /\ pending' = pending \/ pending' = {e \in pending : e.job # k}
      BY <1>4, <2>1 DEF HandleCancelJob
    <2>3. ASSUME NEW j \in Jobs
          PROVE  /\ Holds(mailbox', SubmitJob(j)) <=> Holds(mailbox, SubmitJob(j))
                 /\ Busy(j)' <=> Busy(j)
                 /\ j # k => (Queued(j)' <=> Queued(j))
      BY <1>4, <2>2, MailboxSubmits, CancelFields DEF Busy, Queued
    <2>4. UNCHANGED leasedJobs
      BY <2>3 DEF leasedJobs
    <2>5. CASE Queued(k)' <=> Queued(k)
      <3>1. ASSUME NEW j \in Jobs PROVE Waiting(j)' <=> Waiting(j)
        BY <2>2, <2>3, <2>5 DEF Waiting
      <3>2. UNCHANGED waitingJobs
        BY <3>1 DEF waitingJobs
      <3> QED
        BY <2>2, <2>4, <3>2 DEF Lease!vars
    <2>6. CASE ~(Queued(k)' <=> Queued(k))
      <3>1. Queued(k) /\ ~Queued(k)'
        BY <2>2, <2>6 DEF Queued
      <3>2. ASSUME k \notin twice PROVE ~Waiting(k)'
        <4>1. OnePlace(k)
          BY <3>2 DEF AllPlaced, Placed
        <4> QED
          BY <2>2, <2>3, <3>1, <4>1 DEF OnePlace, Waiting
      <3>3. \A j \in Jobs \ {k} : j \in waitingJobs' <=> j \in waitingJobs
        BY <2>2, <2>3 DEF waitingJobs, Waiting
      <3>4. /\ k \in waitingJobs /\ (k \notin twice => k \notin waitingJobs')
            /\ waitingJobs \in SUBSET Jobs /\ waitingJobs' \in SUBSET Jobs
        BY <3>1, <3>2 DEF waitingJobs, Waiting
      <3>5. waitingJobs' \in Lease!Without(waitingJobs, k)
        BY <3>3, <3>4, SetLeft
      <3>6. Lease!Withdraw(k)
        BY <2>2, <2>4, <3>4, <3>5 DEF Lease!Withdraw
      <3> QED
        BY <3>6 DEF Lease!Next
    <2> QED
      BY <2>5, <2>6
  <1>5. CASE HandleDispatchNothing \/ HandleCleanupExpired
    <2>1. /\ \E t \in {"DispatchNext", "CleanupExpired"} : Receive(t)
          /\ mailbox' = Tail(mailbox)
          /\ UNCHANGED <<row, boot, twice, pending, worker, inflight>>
      BY <1>5 DEF HandleDispatchNothing, HandleCleanupExpired
    <2>2. ASSUME NEW j \in Jobs
          PROVE  (Busy(j)' <=> Busy(j)) /\ (Waiting(j)' <=> Waiting(j))
      <3>1. Holds(mailbox', SubmitJob(j)) <=> Holds(mailbox, SubmitJob(j))
        BY <2>1, MailboxSubmits
      <3> QED
        BY <2>1, <3>1 DEF Waiting, Busy, Queued
    <2> QED
      BY <2>1, <2>2, LeaseStays DEF Lease!vars
  <1>6. CASE CancelRow
    <2>1. UNCHANGED <<waitingJobs, leasedJobs, twice>>
      BY <1>1, <1>6 DEF CancelRow
    <2>2. handler.job \in Jobs
      BY <1>6, HandlerJob DEF CancelRow
    <2>3. CASE Exists(handler.job)
      <3>1. Lease!Cancel(handler.job)
        BY <1>6, <2>1, <2>3
        DEF CancelRow, Exists, JobStatus, Terminal, Lease!Cancel,
            Lease!Stored, Lease!Outcome
      <3> QED
        BY <2>2, <3>1 DEF Lease!Next
    <2>4. CASE ~Exists(handler.job)
      BY <1>6, <2>1, <2>4 DEF CancelRow, Lease!vars
    <2> QED
      BY <2>3, <2>4
  <1>7. CASE SweepRow
    <2>1. UNCHANGED <<waitingJobs, leasedJobs, twice>>
      BY <1>1, <1>7 DEF SweepRow
    <2>2. handler.job \in Jobs
      BY <1>7, HandlerJob DEF SweepRow
    <2>3. Lease!Remove(handler.job)
      BY <1>7, <2>1 DEF SweepRow, SetRow, SweptHasRun, Lease!Remove
    <2> QED
      BY <2>2, <2>3 DEF Lease!Next
  <1>8. CASE CancelRowFails \/ SweepResult \/ SweepResultFails \/ SweepRowFails
    BY <1>1, <1>8
    DEF CancelRowFails, SweepResult, SweepResultFails, SweepRowFails, Lease!vars
  <1> QED
    BY <1>2, <1>3, <1>4, <1>5, <1>6, <1>7, <1>8 DEF Handle

\* A worker task reports while it has the lease, and returns it.
LEMMA LeaseWork ==
    ASSUME TypeOK, AllPlaced, NEW p \in Permits, Work(p) \/ WorkerPanic(p)
    PROVE  Lease!Next \/ UNCHANGED Lease!vars
  <1> USE DEF storage, runner
  <1>0. worker[p].pc # "idle"
    BY DEF Work, WorkerMark, WorkerLoad, WorkerExecute, WorkerComplete,
           WorkerFinish, WorkerFail, WorkerTell, WorkerRelease, WorkerPanic, At
  <1>1. PICK k \in Jobs : k = worker[p].job
    BY <1>0, BusyWorker
  <1>2. /\ UNCHANGED <<inflight, boot, twice, pending>>
        /\ UNCHANGED mailbox \/ Tell(DispatchNext)
    BY DEF Work, WorkerMark, WorkerLoad, WorkerExecute, WorkerComplete,
           WorkerFinish, WorkerFail, WorkerTell, WorkerRelease, WorkerPanic
  <1>3. UNCHANGED waitingJobs
    <2>1. ASSUME NEW j \in Jobs PROVE Waiting(j)' <=> Waiting(j)
      <3>1. Holds(mailbox', SubmitJob(j)) <=> Holds(mailbox, SubmitJob(j))
        BY <1>2, MailboxSubmits, MessageTypes DEF SubmitJob, DispatchNext
      <3> QED
        BY <1>2, <3>1 DEF Waiting, Queued
    <2> QED
      BY <2>1 DEF waitingJobs
  <1>4. Busy(k) /\ k \in leasedJobs
    BY <1>1 DEF Busy, leasedJobs
  <1>5. CASE WorkerRelease(p) \/ WorkerPanic(p)
    <2>1. worker' = [worker EXCEPT ![p] = IdleWorker] /\ UNCHANGED row
      BY <1>5 DEF WorkerRelease, WorkerPanic
    <2>2. /\ \A q \in Permits \ {p} : worker'[q] = worker[q]
          /\ worker'[p].job = NoJob
      BY <2>1 DEF TypeOK, IdleWorker
    <2>3. ASSUME k \notin twice PROVE ~Busy(k)'
      <3>1. OnePlace(k)
        BY <2>3 DEF AllPlaced, Placed
      <3> QED
        BY <1>1, <2>2, <3>1, JobQueueAssumptions DEF Busy, OnePlace
    <2>4. \A j \in Jobs \ {k} : j \in leasedJobs' <=> j \in leasedJobs
      <3>1. ASSUME NEW j \in Jobs \ {k} PROVE Busy(j)' <=> Busy(j)
        BY <1>1, <2>2, JobQueueAssumptions DEF Busy
      <3> QED
        BY <3>1 DEF leasedJobs
    <2>5. /\ k \notin twice => k \notin leasedJobs'
          /\ leasedJobs \in SUBSET Jobs /\ leasedJobs' \in SUBSET Jobs
      BY <2>3 DEF leasedJobs
    <2>6. leasedJobs' \in Lease!Without(leasedJobs, k)
      BY <1>4, <2>4, <2>5, SetLeft
    <2>7. Lease!Return(k)
      BY <1>2, <1>3, <1>4, <2>1, <2>6 DEF Lease!Return
    <2> QED
      BY <2>7 DEF Lease!Next
  <1>6. CASE Work(p) /\ ~WorkerRelease(p)
    <2>1. \E pc, res : Goto(p, pc, res)
      BY <1>6
      DEF Work, WorkerMark, WorkerLoad, WorkerExecute, WorkerComplete,
          WorkerFinish, WorkerFail, WorkerTell
    <2>2. \A q \in Permits : worker'[q].job = worker[q].job
      BY <2>1, GotoFields
    <2>3. UNCHANGED <<waitingJobs, leasedJobs, twice>>
      BY <1>2, <1>3, <2>2 DEF leasedJobs, Busy
    <2>4. CASE UNCHANGED row
      BY <2>3, <2>4 DEF Lease!vars
    <2>5. ASSUME NEW s \in {"Running"} \cup Terminal, Exists(k),
                 row' = [row EXCEPT ![k] = s]
          PROVE  Lease!Next
      <3>1. Lease!Report(k)
        BY <1>4, <2>3, <2>5
        DEF Lease!Report, Exists, JobStatus, Terminal, Lease!Stored,
            Lease!Outcome
      <3> QED
        BY <3>1 DEF Lease!Next
    <2>6. CASE WorkerMark(p)
      BY <1>1, <2>4, <2>5, <2>6 DEF WorkerMark, SetRow
    <2>7. CASE WorkerComplete(p)
      BY <1>1, <2>4, <2>5, <2>7, BusyWorker DEF WorkerComplete, SetRow, At
    <2>8. CASE WorkerFail(p)
      BY <1>1, <2>4, <2>5, <2>8 DEF WorkerFail, Terminal
    <2> QED
      BY <1>6, <2>4, <2>6, <2>7, <2>8
      DEF Work, WorkerLoad, WorkerExecute, WorkerFinish, WorkerTell
  <1> QED
    BY <1>5, <1>6

\* Every step of the queue is a step of JobLease or leaves its variables
\* alone.
LEMMA LeaseNext ==
    TypeOK /\ AllPlaced /\ SweptHasRun /\ [Next]_vars => [Lease!Next]_Lease!vars
  <1> SUFFICES ASSUME TypeOK, AllPlaced, SweptHasRun, [Next]_vars
               PROVE  Lease!Next \/ UNCHANGED Lease!vars
    OBVIOUS
  <1>1. CASE UNCHANGED vars
    BY <1>1, LeaseStays DEF vars, Lease!vars, Waiting, Busy, Queued
  <1> QED
    BY <1>1, LeaseHost, LeaseStart, LeaseHandle, LeaseWork DEF Next

\* The queue implements JobLease, whatever crashes, cancellations, sweeps,
\* storage errors and panics there are and however early the host calls: only
\* the worker that has a job reports Running, Completed or Failed while the
\* process lives, a restart hands out again only what is Pending, and no job
\* is handed out while a worker has it, but for those on_start read while the
\* host was submitting them.
THEOREM LeaseRefinement == Spec => ImplementsJobLease
  <1>1. Init => SweptHasRun
    BY DEF Init, SweptHasRun, IdleHandler
  <1>2. Init => Lease!Init
    <2> SUFFICES ASSUME Init PROVE Lease!Init
      OBVIOUS
    <2>1. \A m : ~Holds(mailbox, m)
      BY DEF Init, Holds
    <2>2. waitingJobs = {}
      BY <2>1 DEF Init, waitingJobs, Waiting, Queued
    <2>3. leasedJobs = {}
      BY JobQueueAssumptions DEF Init, leasedJobs, Busy, IdleWorker
    <2> QED
      BY <2>2, <2>3 DEF Init, Lease!Init
  <1> QED
    BY <1>1, <1>2, LeaseNext, PlacedInit, PlacedStep, SweptStep, TypeCorrect, PTL
    DEF Spec, ImplementsJobLease, Lease!Spec
=============================================================================
