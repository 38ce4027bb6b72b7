---------------------------- MODULE ImportProofs ----------------------------
(***************************************************************************)
(* Theorems about ImportProtocol, for every set of clients, keys and       *)
(* builds and every budget of faults, disconnections and crashes.          *)
(***************************************************************************)
EXTENDS ImportProtocol, TLAPS

-----------------------------------------------------------------------------
(* Types.                                                                  *)

\* An idle handler is a handler, and a client may have had no answer.
LEMMA IdleType == IdleHandler \in Handler
  BY DEF IdleHandler, Handler, HandlerPc

\* A request in progress has a plan.
LEMMA BusyHandler ==
    ASSUME TypeOK, NEW c \in Clients, handler[c].pc # "idle"
    PROVE  /\ handler[c] \in Handler
           /\ handler[c].plan \in Plan
           /\ handler[c].plan.key \in Keys
  BY DEF TypeOK, Handler, Plan

\* A handler that goes on keeps its plan, and the others stay where they are.
LEMMA GotoEffect ==
    ASSUME TypeOK, NEW c \in Clients, handler[c].pc # "idle",
           NEW pc \in HandlerPc \ {"idle"},
           NEW err \in {"none", "conflict", "error"},
           \/ Goto(c, pc)
           \/ pc = "cleanup" /\ Fail(c, err)
    PROVE  /\ handler' \in [Clients -> Handler]
           /\ handler'[c].pc = pc
           /\ handler'[c].plan = handler[c].plan
           /\ \A d \in Clients \ {c} : handler'[d] = handler[d]
  <1>1. CASE Goto(c, pc)
    <2> DEFINE h == [handler[c] EXCEPT !.pc = pc]
    <2>1. h \in Handler
      BY BusyHandler, IdleType DEF Handler
    <2>2. handler' = [handler EXCEPT ![c] = h]
      BY <1>1 DEF Goto, TypeOK
    <2> QED
      BY <2>1, <2>2, BusyHandler DEF TypeOK, Handler
  <1>2. CASE pc = "cleanup" /\ Fail(c, err)
    <2> DEFINE h == [handler[c] EXCEPT !.pc = pc, !.error = err]
    <2>1. h \in Handler
      BY BusyHandler, IdleType DEF Handler
    <2>2. handler' = [handler EXCEPT ![c] = h]
      BY <1>2 DEF Fail, TypeOK
    <2> QED
      BY <2>1, <2>2, BusyHandler DEF TypeOK, Handler
  <1> QED
    BY <1>1, <1>2

\* A handler that returns leaves an idle one and a well-formed answer.
LEMMA ReturnEffect ==
    ASSUME TypeOK, NEW c \in Clients, handler[c].pc # "idle",
           NEW kind \in {"staged", "imported", "replayed"} \cup Failure
                        \cup {"none"},
           Return(c, kind)
    PROVE  /\ handler' \in [Clients -> Handler]
           /\ answer' \in [Clients -> Answer]
           /\ handler'[c] = IdleHandler
           /\ \A d \in Clients \ {c} : handler'[d] = handler[d]
           /\ answer' = [answer EXCEPT ![c] = [kind |-> kind,
                                               plan |-> handler[c].plan]]
  BY IdleType, BusyHandler DEF Return, TypeOK, Answer

\* What is left of a request whose handler is dropped.
LEMMA DroppedType ==
    ASSUME TypeOK, NEW c \in Clients
    PROVE  /\ Dropped(c) \in Handler
           /\ Dropped(c).pc \in {"idle", "orphan"}
           /\ Dropped(c).pc = "orphan" =>
                  /\ handler[c].pc \in {"commit", "orphan"}
                  /\ Dropped(c).plan = handler[c].plan
  <1>1. CASE handler[c].pc \in {"commit", "orphan"}
    <2>1. handler[c] \in Handler
      BY DEF TypeOK
    <2>2. Dropped(c) = [handler[c] EXCEPT !.pc = "orphan"]
      BY <1>1 DEF Dropped
    <2> QED
      BY <1>1, <2>1, <2>2 DEF Handler, HandlerPc
  <1>2. CASE handler[c].pc \notin {"commit", "orphan"}
    BY <1>2, IdleType DEF Dropped, IdleHandler
  <1> QED
    BY <1>1, <1>2

\* Dropping handlers leaves the staging objects plans.
LEMMA StagingType ==
    ASSUME TypeOK, NEW C \in SUBSET Clients, NEW S \in StagingAfterDrop(C)
    PROVE  S \in SUBSET Plan
  <1>1. PICK D \in SUBSET C :
            S = (staging \cup {handler[c].plan :
                                 c \in {d \in D : At(d, "dryput")}})
                \ {handler[c].plan : c \in {d \in D : At(d, "cleanup")}}
    BY DEF StagingAfterDrop
  <1>2. \A c \in D : At(c, "dryput") => handler[c].plan \in Plan
    BY BusyHandler DEF At
  <1> QED
    BY <1>1, <1>2 DEF TypeOK

\* A committed transaction leaves receipts and batches well-formed.
LEMMA CommitEffect ==
    ASSUME TypeOK, NEW c \in Clients, handler[c].pc # "idle",
           CommitTransaction(c)
    PROVE  /\ receipt' \in [Keys -> Plan \cup {NoPlan}]
           /\ batches' \in [Keys -> Nat]
           /\ receipt'[handler[c].plan.key] = handler[c].plan
           /\ \A k \in Keys : k # handler[c].plan.key => receipt'[k] = receipt[k]
  BY BusyHandler DEF TypeOK, CommitTransaction

\* Events are spent from what is left of the budget.
LEMMA SpendType ==
    ASSUME TypeOK, NEW e \in Events, Spend(e) \/ UNCHANGED budget
    PROVE  budget' \in [Events -> Nat]
  BY DEF TypeOK, Spend

\* The initial state is well-typed.
LEMMA TypeInit == Init => TypeOK
  BY IdleType, ImportAssumptions DEF Init, TypeOK, Answer

\* A request preserves the types.
LEMMA TypeRequest ==
    ASSUME TypeOK, NEW c \in Clients, Request(c)
    PROVE  TypeOK'
  <1>1. ASSUME NEW k \in Keys, DryRun(c, k)
        PROVE  TypeOK'
    <2> DEFINE p == [key |-> k, build |-> build]
               h == [handler[c] EXCEPT !.pc = "dryget", !.plan = p]
    <2>1. p \in Plan
      BY DEF TypeOK, Plan
    <2>2. h \in Handler
      BY <2>1, ImportAssumptions DEF TypeOK, Handler, HandlerPc
    <2>3. handler' = [handler EXCEPT ![c] = h]
      BY <1>1 DEF DryRun, TypeOK
    <2> QED
      BY <1>1, <2>2, <2>3 DEF DryRun, TypeOK, database
  <1>2. CASE Apply(c)
    <2> DEFINE p == [key |-> ticket[c].key, build |-> build]
               h == [handler[c] EXCEPT !.pc = "get", !.plan = p,
                                       !.replay = receipt[p.key] = p]
    <2>1. ticket[c] \in Plan /\ p \in Plan
      BY <1>2 DEF Apply, TypeOK, Plan
    <2>2. CASE p = ticket[c]
      <3>1. h \in Handler
        <4> DEFINE r == receipt[p.key] = p
        <4>1. r \in BOOLEAN
          OBVIOUS
        <4> HIDE DEF r, p
        <4>2. \A b \in BOOLEAN : [handler[c] EXCEPT !.pc = "get", !.plan = p,
                                                    !.replay = b] \in Handler
          BY <2>1, ImportAssumptions DEF TypeOK, Handler, HandlerPc
        <4> QED
          BY <4>1, <4>2 DEF r
      <3>2. handler' = [handler EXCEPT ![c] = h]
        BY <1>2, <2>2 DEF Apply, TypeOK
      <3> QED
        BY <1>2, <2>2, <3>1, <3>2 DEF Apply, TypeOK, database
    <2>3. CASE p # ticket[c]
      BY <1>2, <2>1, <2>3 DEF Apply, TypeOK, database, Answer, Failure
    <2> QED
      BY <2>2, <2>3
  <1> QED
    BY <1>1, <1>2 DEF Request

\* A step of a handler preserves the types.
LEMMA TypeStep ==
    ASSUME TypeOK, NEW c \in Clients, Step(c)
    PROVE  TypeOK'
  <1> USE DEF Fault, NoFault, Failure
  <1>1. handler[c].pc # "idle" /\ "fault" \in Events
    BY DEF Step, DryGet, DryPut, ApplyGet, Select, InsertRows, InsertReceipt,
           Commit, CommitFails, Cleanup, Orphan, At, Events
  <1>2. {"dryput", "select", "rows", "receipt", "commit", "cleanup"}
            \subseteq HandlerPc \ {"idle"}
    BY DEF HandlerPc
  <1>3. ASSUME Staged(c)
        PROVE  /\ handler' \in [Clients -> Handler]
               /\ answer' \in [Clients -> Answer]
               /\ ticket' \in [Clients -> Plan \cup {NoPlan}]
               /\ shown' \in SUBSET Plan
    BY <1>1, <1>3, ReturnEffect, BusyHandler DEF Staged, TypeOK
  <1>4. CASE DryGet(c)
    <2>1. budget' \in [Events -> Nat]
      BY <1>1, <1>4, SpendType DEF DryGet
    <2> QED
      BY <1>1, <1>2, <1>3, <1>4, <2>1, GotoEffect DEF DryGet, TypeOK, database
  <1>5. CASE DryPut(c)
    <2>1. budget' \in [Events -> Nat]
      BY <1>1, <1>5, SpendType DEF DryPut
    <2>2. CASE Staged(c) /\ staging' = staging \cup {handler[c].plan}
      BY <1>1, <1>3, <1>5, <2>1, <2>2, BusyHandler DEF DryPut, TypeOK, database
    <2>3. CASE Return(c, "error") /\ UNCHANGED <<staging, ticket, shown>>
      BY <1>1, <1>5, <2>1, <2>3, ReturnEffect DEF DryPut, TypeOK, database
    <2> QED
      BY <1>5, <2>2, <2>3 DEF DryPut
  <1>6. CASE ApplyGet(c)
    <2>1. budget' \in [Events -> Nat]
      BY <1>1, <1>6, SpendType DEF ApplyGet
    <2> QED
      BY <1>1, <1>2, <1>6, <2>1, GotoEffect, ReturnEffect
      DEF ApplyGet, TypeOK, database
  <1>7. CASE Select(c)
    <2>1. budget' \in [Events -> Nat]
      BY <1>1, <1>7, SpendType DEF Select
    <2> QED
      BY <1>1, <1>2, <1>7, <2>1, GotoEffect, ReturnEffect
      DEF Select, TypeOK, database
  <1>8. CASE InsertRows(c)
    <2>1. budget' \in [Events -> Nat]
      BY <1>1, <1>8, SpendType DEF InsertRows
    <2> QED
      BY <1>1, <1>2, <1>8, <2>1, GotoEffect DEF InsertRows, TypeOK, database
  <1>9. CASE InsertReceipt(c)
    <2>1. budget' \in [Events -> Nat]
      BY <1>1, <1>9, SpendType DEF InsertReceipt
    <2> QED
      BY <1>1, <1>2, <1>9, <2>1, GotoEffect DEF InsertReceipt, TypeOK, database
  <1>10. CASE Commit(c)
    BY <1>1, <1>10, ReturnEffect, CommitEffect DEF Commit, TypeOK
  <1>11. CASE CommitFails(c)
    <2>1. budget' \in [Events -> Nat]
      BY <1>1, <1>11, SpendType DEF CommitFails
    <2> QED
      BY <1>1, <1>2, <1>11, <2>1, GotoEffect, CommitEffect
      DEF CommitFails, TypeOK, database
  <1>12. CASE Cleanup(c)
    <2>1. budget' \in [Events -> Nat]
      BY <1>1, <1>12, SpendType DEF Cleanup
    <2>2. handler[c].error \in {"none", "conflict", "error"}
      BY <1>1, BusyHandler DEF Handler
    <2> QED
      BY <1>1, <1>12, <2>1, <2>2, ReturnEffect DEF Cleanup, TypeOK, database
  <1>13. CASE Orphan(c)
    BY <1>1, <1>13, CommitEffect, IdleType DEF Orphan, TypeOK, database
  <1> QED
    BY <1>4, <1>5, <1>6, <1>7, <1>8, <1>9, <1>10, <1>11, <1>12, <1>13 DEF Step

\* Losing handlers preserves the types.
LEMMA TypeDrop ==
    ASSUME TypeOK, Crash \/ \E c \in Clients : Disconnect(c)
    PROVE  TypeOK'
  <1>1. ASSUME NEW c \in Clients, Disconnect(c)
        PROVE  TypeOK'
    <2>1. budget' \in [Events -> Nat]
      BY <1>1, SpendType DEF Disconnect, Events
    <2>2. answer' \in [Clients -> Answer]
      BY <1>1 DEF Disconnect, TypeOK, Answer, Failure
    <2> QED
      BY <1>1, <2>1, <2>2, DroppedType, StagingType
      DEF Disconnect, TypeOK, database
  <1>2. CASE Crash
    <2>1. budget' \in [Events -> Nat]
      BY <1>2, SpendType DEF Crash, Events
    <2>2. answer' \in [Clients -> Answer]
      <3>1. \A c \in Clients : [answer[c] EXCEPT !.kind = "lost"] \in Answer
        BY DEF TypeOK, Answer, Failure
      <3> QED
        BY <1>2, <3>1 DEF Crash, TypeOK
    <2>3. staging' \in SUBSET Plan
      BY <1>2, StagingType DEF Crash
    <2> QED
      BY <1>2, <2>1, <2>2, <2>3, DroppedType DEF Crash, TypeOK, database
  <1> QED
    BY <1>1, <1>2

\* Every step preserves the types.
LEMMA TypeNext == TypeOK /\ [Next]_vars => TypeOK'
  <1> SUFFICES ASSUME TypeOK, [Next]_vars PROVE TypeOK'
    OBVIOUS
  <1>1. CASE UNCHANGED vars
    BY <1>1 DEF vars, TypeOK
  <1> QED
    BY <1>1, TypeRequest, TypeStep, TypeDrop DEF Next

\* Every variable keeps its type.
THEOREM TypeCorrect == Spec => []TypeOK
  <1> QED
    BY TypeInit, TypeNext, PTL DEF Spec

-----------------------------------------------------------------------------
(* The lock on a key.                                                      *)

\* The transaction of c has inserted its receipt.
Locks(c) == handler[c].pc \in {"commit", "orphan"}

\* Nobody new holds a lock.
NoNewLock == \A c \in Clients : Locks(c)' => /\ Locks(c)
                                             /\ handler'[c].plan = handler[c].plan

\* A step that takes no lock and writes no receipt preserves CommitLock.
LEMMA LockKept ==
    ASSUME CommitLock, NoNewLock, UNCHANGED receipt
    PROVE  CommitLock'
  BY DEF CommitLock, NoNewLock, Locks, LockedByOther

\* A step in which c commits and gives its lock up preserves CommitLock.
LEMMA LockReleased ==
    ASSUME TypeOK, CommitLock, NoNewLock, NEW c \in Clients, Locks(c),
           ~Locks(c)', CommitTransaction(c)
    PROVE  CommitLock'
  <1> SUFFICES ASSUME NEW d \in Clients, Locks(d)'
               PROVE  /\ receipt'[handler'[d].plan.key] = NoPlan
                      /\ ~LockedByOther(d)'
    BY DEF CommitLock, Locks
  <1>1. d # c /\ Locks(d) /\ handler'[d].plan = handler[d].plan
    BY DEF NoNewLock
  <1>2. handler[c].pc # "idle" /\ handler[d].pc # "idle"
    BY <1>1 DEF Locks
  <1>3. handler[d].plan.key # handler[c].plan.key
    BY <1>1 DEF CommitLock, Locks, LockedByOther
  <1>4. receipt'[handler[d].plan.key] = receipt[handler[d].plan.key]
    BY <1>2, <1>3, BusyHandler, CommitEffect
  <1>5. receipt'[handler'[d].plan.key] = NoPlan
    BY <1>1, <1>4 DEF CommitLock, Locks
  <1>6. ~LockedByOther(d)'
    BY <1>1 DEF CommitLock, NoNewLock, Locks, LockedByOther
  <1> QED
    BY <1>5, <1>6

\* Every step preserves CommitLock.
LEMMA LockNext == TypeOK /\ CommitLock /\ [Next]_vars => CommitLock'
  <1> SUFFICES ASSUME TypeOK, CommitLock, [Next]_vars
               PROVE  CommitLock'
    OBVIOUS
  <1> USE DEF database
  <1>1. CASE UNCHANGED vars
    BY <1>1, LockKept DEF vars, NoNewLock, Locks
  <1>2. ASSUME NEW c \in Clients, Request(c)
        PROVE  CommitLock'
    <2>1. UNCHANGED receipt
      BY <1>2 DEF Request, DryRun, Apply
    <2>2. \A d \in Clients \ {c} : handler'[d] = handler[d]
      BY <1>2 DEF Request, DryRun, Apply, TypeOK
    <2>3. handler'[c].pc \in {"idle", "dryget", "get"}
      BY <1>2 DEF Request, DryRun, Apply, At, TypeOK, Handler
    <2>4. NoNewLock
      BY <2>2, <2>3 DEF NoNewLock, Locks
    <2> QED
      BY <2>1, <2>4, LockKept
  <1>3. ASSUME NEW c \in Clients, Step(c)
        PROVE  CommitLock'
    <2> USE DEF Fault, NoFault, Failure
    <2>1. handler[c].pc # "idle"
      BY <1>3 DEF Step, DryGet, DryPut, ApplyGet, Select, InsertRows,
                  InsertReceipt, Commit, CommitFails, Cleanup, Orphan, At
    <2>2. ASSUME NEW pc \in HandlerPc \ {"idle", "commit", "orphan"},
                 NEW e \in {"none", "conflict", "error"},
                 Goto(c, pc) \/ (pc = "cleanup" /\ Fail(c, e))
          PROVE  NoNewLock /\ ~Locks(c)'
      BY <2>1, <2>2, GotoEffect DEF NoNewLock, Locks
    <2>3. ASSUME NEW kind, handler' = [handler EXCEPT ![c] = IdleHandler]
          PROVE  NoNewLock /\ ~Locks(c)'
      BY <2>3 DEF NoNewLock, Locks, IdleHandler, TypeOK
    <2>4. {"dryput", "select", "rows", "receipt", "cleanup"}
              \subseteq HandlerPc \ {"idle", "commit", "orphan"}
      BY DEF HandlerPc
    <2>5. CASE DryGet(c) \/ DryPut(c) \/ ApplyGet(c) \/ Select(c)
               \/ InsertRows(c) \/ Cleanup(c)
      <3>1. UNCHANGED receipt
        BY <2>5 DEF DryGet, DryPut, ApplyGet, Select, InsertRows, Cleanup
      <3>2. NoNewLock
        BY <2>2, <2>3, <2>4, <2>5
        DEF DryGet, DryPut, ApplyGet, Select, InsertRows, Cleanup, Staged,
            Return
      <3> QED
        BY <3>1, <3>2, LockKept
    <2>6. CASE InsertReceipt(c)
      <3>1. UNCHANGED receipt
        BY <2>6 DEF InsertReceipt
      <3>2. CASE Fail(c, "error")
        BY <2>2, <2>4, <3>1, <3>2, LockKept
      <3>3. CASE /\ Goto(c, "commit")
                 /\ ~LockedByOther(c)
                 /\ receipt[handler[c].plan.key] = NoPlan
        <4>1. /\ handler'[c].plan = handler[c].plan
              /\ \A d \in Clients \ {c} : handler'[d] = handler[d]
          BY <2>1, <3>3, GotoEffect DEF HandlerPc
        <4>2. ~LockedByOther(c)'
          BY <3>3, <4>1 DEF LockedByOther
        <4>3. ASSUME NEW d \in Clients \ {c}, Locks(d)
              PROVE  /\ receipt[handler[d].plan.key] = NoPlan
                     /\ ~LockedByOther(d)'
          <5>1. handler[d].plan.key # handler[c].plan.key
            BY <3>3, <4>3 DEF LockedByOther, Locks
          <5> QED
            BY <4>1, <4>3, <5>1 DEF CommitLock, LockedByOther, Locks
        <4> QED
          BY <3>1, <3>3, <4>1, <4>2, <4>3 DEF CommitLock, Locks
      <3> QED
        BY <2>6, <3>2, <3>3 DEF InsertReceipt
    <2>7. CASE Commit(c) \/ CommitFails(c) \/ Orphan(c)
      <3>1. Locks(c)
        BY <2>7 DEF Commit, CommitFails, Orphan, At, Locks
      <3>2. NoNewLock /\ ~Locks(c)'
        BY <2>2, <2>3, <2>4, <2>7 DEF Commit, CommitFails, Orphan, Return
      <3>3. CommitTransaction(c) \/ UNCHANGED receipt
        BY <2>7 DEF Commit, CommitFails, Orphan
      <3> QED
        BY <3>1, <3>2, <3>3, LockKept, LockReleased
    <2> QED
      BY <1>3, <2>5, <2>6, <2>7 DEF Step
  <1>4. CASE Crash \/ \E c \in Clients : Disconnect(c)
    <2>1. UNCHANGED receipt
      BY <1>4 DEF Crash, Disconnect
    <2>2. NoNewLock
      BY <1>4, DroppedType DEF Crash, Disconnect, NoNewLock, Locks, TypeOK
    <2> QED
      BY <2>1, <2>2, LockKept
  <1> QED
    BY <1>1, <1>2, <1>3, <1>4 DEF Next

\* A transaction that is about to commit has its key to itself.
THEOREM CommitLockCorrect == Spec => []CommitLock
  <1>1. Init => CommitLock
    BY DEF Init, CommitLock, IdleHandler
  <1> QED
    BY <1>1, LockNext, TypeCorrect, PTL DEF Spec

-----------------------------------------------------------------------------
(* Refinement.                                                             *)

\* Every step of the protocol is a step of ImportOnce or leaves its variables
\* alone.
LEMMA OnceNext ==
    TypeOK /\ CommitLock /\ [Next]_vars => [Once!Next]_Once!vars
  <1> SUFFICES ASSUME TypeOK, CommitLock, [Next]_vars
               PROVE  Once!Next \/ UNCHANGED Once!vars
    OBVIOUS
  <1> USE DEF database, Once!vars
  <1>0. Once!Plan = Plan /\ Once!Answer = Answer
    BY DEF Once!Plan, Plan, Once!Answer, Answer, Once!Failure, Failure
  <1>1. CASE UNCHANGED vars
    BY <1>1 DEF vars
  <1>2. ASSUME NEW c \in Clients, NEW a \in Answer, a.kind # "imported",
               a.kind = "replayed" => /\ a.plan \in Plan
                                      /\ receipt[a.plan.key] = a.plan,
               answer' = [answer EXCEPT ![c] = a],
               UNCHANGED database
        PROVE  Once!Next
    BY <1>0, <1>2 DEF Once!Next, Once!Reply
  <1>3. ASSUME NEW c \in Clients, Request(c)
        PROVE  Once!Next \/ UNCHANGED Once!vars
    <2>1. CASE UNCHANGED answer
      BY <1>3, <2>1 DEF Request, DryRun, Apply
    <2>2. CASE answer' # answer
      <3> DEFINE p == [key |-> ticket[c].key, build |-> build]
                 a == [kind |-> "conflict", plan |-> p]
      <3>1. /\ Apply(c)
            /\ answer' = [answer EXCEPT ![c] = a]
            /\ UNCHANGED database
        BY <1>3, <2>2 DEF Request, DryRun, Apply
      <3>2. a \in Answer
        BY <3>1 DEF Apply, TypeOK, Plan, Answer, Failure
      <3>3. a.kind # "imported" /\ a.kind # "replayed"
        OBVIOUS
      <3> HIDE DEF a
      <3> QED
        BY <1>2, <3>1, <3>2, <3>3
    <2> QED
      BY <2>1, <2>2
  <1>4. ASSUME NEW c \in Clients, Step(c)
        PROVE  Once!Next \/ UNCHANGED Once!vars
    <2>1. handler[c].pc # "idle"
      BY <1>4 DEF Step, DryGet, DryPut, ApplyGet, Select, InsertRows,
                  InsertReceipt, Commit, CommitFails, Cleanup, Orphan, At
    <2>2. handler[c].plan \in Plan /\ handler[c] \in Handler
      BY <2>1, BusyHandler
    <2>3. ASSUME NEW kind \in {"none", "staged"} \cup Failure,
                 Return(c, kind), UNCHANGED database
          PROVE  Once!Next
      <3> DEFINE a == [kind |-> kind, plan |-> handler[c].plan]
      <3>1. a \in Answer /\ a.kind # "imported" /\ a.kind # "replayed"
        BY <2>2 DEF Answer, Failure
      <3>2. answer' = [answer EXCEPT ![c] = a]
        BY <2>3 DEF Return
      <3> HIDE DEF a
      <3> QED
        BY <1>2, <2>3, <3>1, <3>2
    <2>4. CASE DryGet(c) \/ DryPut(c) \/ ApplyGet(c)
      BY <2>3, <2>4 DEF DryGet, DryPut, ApplyGet, Staged, Failure
    <2>5. CASE Select(c)
      <3>1. CASE UNCHANGED answer
        BY <2>5, <3>1 DEF Select
      <3>2. CASE answer' # answer
        <4> DEFINE a == [kind |-> "replayed", plan |-> handler[c].plan]
        <4>1. /\ a \in Answer
              /\ a.kind # "imported"
              /\ a.plan \in Plan
              /\ receipt[a.plan.key] = a.plan
              /\ answer' = [answer EXCEPT ![c] = a]
              /\ UNCHANGED database
          BY <2>2, <2>5, <3>2 DEF Select, Return, Answer
        <4> HIDE DEF a
        <4> QED
          BY <1>2, <4>1
      <3> QED
        BY <3>1, <3>2
    <2>6. CASE InsertRows(c) \/ InsertReceipt(c)
      BY <2>6 DEF InsertRows, InsertReceipt
    <2>7. CASE Commit(c) \/ CommitFails(c) \/ Orphan(c)
      <3> DEFINE p == handler[c].plan
      <3>1. receipt[p.key] = NoPlan
        BY <2>7 DEF CommitLock, Commit, CommitFails, Orphan, At
      <3>2. CASE UNCHANGED <<receipt, batches, answer>>
        BY <3>2
      <3>3. CASE CommitTransaction(c) /\ UNCHANGED answer
        BY <1>0, <2>2, <3>1, <3>3
        DEF CommitTransaction, Once!Next, Once!Import, Once!Commit
      <3>4. CASE CommitTransaction(c) /\ Return(c, "imported")
        BY <1>0, <2>2, <3>1, <3>4
        DEF CommitTransaction, Return, Once!Next, Once!Import, Once!Commit
      <3> QED
        BY <2>7, <3>2, <3>3, <3>4 DEF Commit, CommitFails, Orphan
    <2>8. CASE Cleanup(c)
      <3>1. handler[c].error \in {"none", "conflict", "error"}
        BY <2>2 DEF Handler
      <3> QED
        BY <2>3, <2>8, <3>1 DEF Cleanup, Failure
    <2> QED
      BY <1>4, <2>4, <2>5, <2>6, <2>7, <2>8 DEF Step
  <1>5. ASSUME NEW C \in SUBSET Clients, UNCHANGED database,
               answer' = [c \in Clients |->
                            IF c \in C THEN [answer[c] EXCEPT !.kind = "lost"]
                                       ELSE answer[c]]
        PROVE  Once!Next
    BY <1>5 DEF Once!Next, Once!ReplyLost
  <1>6. ASSUME NEW c \in Clients, Disconnect(c)
        PROVE  Once!Next
    <2>1. answer' = [d \in Clients |->
                       IF d \in {c} THEN [answer[d] EXCEPT !.kind = "lost"]
                                    ELSE answer[d]]
      BY <1>6 DEF Disconnect, TypeOK
    <2> QED
      BY <1>5, <1>6, <2>1 DEF Disconnect
  <1>7. CASE Crash
    <2> DEFINE C == {c \in Clients : handler[c].pc \notin {"idle", "orphan"}}
    <2>1. answer' = [c \in Clients |->
                       IF c \in C THEN [answer[c] EXCEPT !.kind = "lost"]
                                  ELSE answer[c]]
      BY <1>7 DEF Crash
    <2> QED
      BY <1>5, <1>7, <2>1 DEF Crash
  <1> QED
    BY <1>1, <1>3, <1>4, <1>6, <1>7 DEF Next

\* The endpoints keep their promise: the protocol, with its two stores, its
\* interleaved handlers and its failures, implements ImportOnce.
THEOREM ImportRefinement == Spec => ImplementsImportOnce
  <1>1. Init => Once!Init
    BY DEF Init, Once!Init
  <1> QED
    BY <1>1, OnceNext, TypeCorrect, CommitLockCorrect, PTL
    DEF Spec, Once!Spec, ImplementsImportOnce

-----------------------------------------------------------------------------
(* What follows from the abstract specification.                           *)

\* In ImportOnce, rows and receipts stay together.
LEMMA OnceKept ==
    TypeOK /\ ExactlyOnce /\ [Once!Next]_Once!vars => ExactlyOnce'
  <1> SUFFICES ASSUME TypeOK, ExactlyOnce, [Once!Next]_Once!vars
               PROVE  ExactlyOnce'
    OBVIOUS
  <1> USE DEF ExactlyOnce, Once!ExactlyOnce, Once!vars
  <1>1. CASE UNCHANGED <<receipt, batches>>
    BY <1>1
  <1>2. ASSUME NEW p \in Once!Plan, Once!Commit(p)
        PROVE  ExactlyOnce'
    <2>1. p \in Plan /\ p.key \in Keys /\ p # NoPlan
      BY ImportAssumptions DEF Once!Plan, Plan
    <2> QED
      BY <1>2, <2>1 DEF Once!Commit, TypeOK
  <1> QED
    BY <1>1, <1>2 DEF Once!Next, Once!Import, Once!Reply, Once!ReplyLost

\* A key has one batch of rows if it has a receipt, and none otherwise.
THEOREM ExactlyOnceCorrect == Spec => []ExactlyOnce
  <1>1. Once!Init => ExactlyOnce
    BY DEF Once!Init, ExactlyOnce, Once!ExactlyOnce
  <1> QED
    BY <1>1, OnceKept, TypeCorrect, ImportRefinement, PTL
    DEF ImplementsImportOnce, Once!Spec

\* In ImportOnce, no success is taken back.
LEMMA DurableKept ==
    TypeOK /\ AnswerIsDurable /\ [Once!Next]_Once!vars => AnswerIsDurable'
  <1> SUFFICES ASSUME TypeOK, AnswerIsDurable, [Once!Next]_Once!vars
               PROVE  AnswerIsDurable'
    OBVIOUS
  <1> USE DEF AnswerIsDurable, Once!AnswerIsDurable, Once!vars
  <1>1. CASE UNCHANGED <<receipt, batches, answer>>
    BY <1>1
  <1>2. ASSUME NEW p \in Once!Plan, Once!Import(p)
        PROVE  AnswerIsDurable'
    <2>1. p \in Plan /\ p.key \in Keys /\ p # NoPlan
      BY ImportAssumptions DEF Once!Plan, Plan
    <2>2. /\ receipt'[p.key] = p
          /\ \A q \in Once!Plan : receipt[q.key] = q => receipt'[q.key] = q
      BY <1>2, <2>1, ImportAssumptions
      DEF Once!Import, Once!Commit, TypeOK, Once!Plan, Plan
    <2>3. \A c \in Clients : \/ answer'[c] = answer[c]
                             \/ answer'[c] = [kind |-> "imported", plan |-> p]
      BY <1>2 DEF Once!Import, TypeOK
    <2> QED
      BY <2>2, <2>3
  <1>3. ASSUME NEW c \in Clients, Once!Reply(c)
        PROVE  AnswerIsDurable'
    BY <1>3 DEF Once!Reply, TypeOK
  <1>4. CASE Once!ReplyLost
    <2>1. \A c \in Clients : \/ answer'[c] = answer[c]
                             \/ answer'[c].kind = "lost"
      BY <1>4 DEF Once!ReplyLost, TypeOK, Answer
    <2> QED
      BY <1>4, <2>1 DEF Once!ReplyLost
  <1> QED
    BY <1>1, <1>2, <1>3, <1>4 DEF Once!Next

\* A client that was told of success can rely on a receipt for its plan.
THEOREM AnswerIsDurableCorrect == Spec => []AnswerIsDurable
  <1>1. Once!Init => AnswerIsDurable
    BY DEF Once!Init, AnswerIsDurable, Once!AnswerIsDurable
  <1> QED
    BY <1>1, DurableKept, TypeCorrect, ImportRefinement, PTL
    DEF ImplementsImportOnce, Once!Spec

-----------------------------------------------------------------------------
(* Plans.                                                                  *)

\* The inductive strengthening of CommittedWasShown: every ticket was shown,
\* and every apply in progress works on a plan that was shown.
AppliedWasShown ==
    /\ CommittedWasShown
    /\ \A c \in Clients : ticket[c] # NoPlan => ticket[c] \in shown
    /\ \A c \in Clients :
         handler[c].pc \notin {"idle", "dryget", "dryput"} =>
             handler[c].plan \in shown

\* Every step preserves it.
LEMMA ShownNext == TypeOK /\ AppliedWasShown /\ [Next]_vars => AppliedWasShown'
  <1> SUFFICES ASSUME TypeOK, AppliedWasShown, [Next]_vars
               PROVE  AppliedWasShown'
    OBVIOUS
  <1> USE DEF database
  <1>1. CASE UNCHANGED vars
    BY <1>1 DEF vars, AppliedWasShown, CommittedWasShown
  <1>2. ASSUME NEW c \in Clients, Request(c)
        PROVE  AppliedWasShown'
    <2>1. UNCHANGED <<receipt, ticket, shown>>
      BY <1>2 DEF Request, DryRun, Apply
    <2>2. \A d \in Clients \ {c} : handler'[d] = handler[d]
      BY <1>2 DEF Request, DryRun, Apply, TypeOK
    <2>3. handler'[c].pc \notin {"idle", "dryget", "dryput"} =>
              handler'[c].plan \in shown
      BY <1>2 DEF Request, DryRun, Apply, TypeOK, Handler, AppliedWasShown
    <2> QED
      BY <2>1, <2>2, <2>3 DEF AppliedWasShown, CommittedWasShown
  <1>3. ASSUME NEW c \in Clients, Step(c)
        PROVE  AppliedWasShown'
    <2> USE DEF Fault, NoFault, Failure
    <2>1. handler[c].pc # "idle"
      BY <1>3 DEF Step, DryGet, DryPut, ApplyGet, Select, InsertRows,
                  InsertReceipt, Commit, CommitFails, Cleanup, Orphan, At
    <2>2. ASSUME NEW pc \in HandlerPc \ {"idle"},
                 NEW e \in {"none", "conflict", "error"},
                 Goto(c, pc) \/ (pc = "cleanup" /\ Fail(c, e)),
                 \/ handler[c].pc \notin {"idle", "dryget", "dryput"}
                 \/ pc = "dryput"
          PROVE  /\ \A d \in Clients \ {c} : handler'[d] = handler[d]
                 /\ handler'[c].pc \notin {"idle", "dryget", "dryput"} =>
                        handler'[c].plan \in shown
      BY <2>1, <2>2, GotoEffect DEF AppliedWasShown
    <2>3. ASSUME handler' = [handler EXCEPT ![c] = IdleHandler]
          PROVE  /\ \A d \in Clients \ {c} : handler'[d] = handler[d]
                 /\ handler'[c].pc = "idle"
      BY <2>3 DEF IdleHandler, TypeOK
    <2>4. {"dryput", "select", "rows", "receipt", "commit", "cleanup"}
              \subseteq HandlerPc \ {"idle"}
      BY DEF HandlerPc
    <2>5. CASE Staged(c) /\ UNCHANGED database
      BY <2>3, <2>5
      DEF Staged, Return, AppliedWasShown, CommittedWasShown, TypeOK
    <2>6. CASE UNCHANGED <<ticket, shown>>
      <3>1. /\ \A d \in Clients \ {c} : handler'[d] = handler[d]
            /\ handler'[c].pc \notin {"idle", "dryget", "dryput"} =>
                   handler'[c].plan \in shown
        BY <1>3, <2>2, <2>3, <2>4, <2>6
        DEF Step, DryGet, DryPut, ApplyGet, Select, InsertRows, InsertReceipt,
            Commit, CommitFails, Cleanup, Orphan, At, Staged, Return
      <3>2. \A k \in Keys : receipt'[k] = receipt[k] \/ receipt'[k] \in shown
        <4>1. CASE UNCHANGED receipt
          BY <4>1
        <4>2. CASE receipt' # receipt
          <5>1. CommitTransaction(c) /\ handler[c].pc \in {"commit", "orphan"}
            BY <1>3, <4>2
            DEF Step, DryGet, DryPut, ApplyGet, Select, InsertRows,
                InsertReceipt, Commit, CommitFails, Cleanup, Orphan, At
          <5> QED
            BY <5>1, <2>1, CommitEffect DEF AppliedWasShown
        <4> QED
          BY <4>1, <4>2
      <3> QED
        BY <2>6, <3>1, <3>2 DEF AppliedWasShown, CommittedWasShown
    <2> QED
      BY <1>3, <2>5, <2>6
      DEF Step, DryGet, DryPut, ApplyGet, Select, InsertRows, InsertReceipt,
          Commit, CommitFails, Cleanup, Orphan
  <1>4. CASE Crash \/ \E c \in Clients : Disconnect(c)
    <2>1. UNCHANGED <<receipt, ticket, shown>>
      BY <1>4 DEF Crash, Disconnect
    <2>2. \A d \in Clients : handler'[d] \in {handler[d], Dropped(d)}
      BY <1>4 DEF Crash, Disconnect, TypeOK
    <2> QED
      BY <2>1, <2>2, DroppedType DEF AppliedWasShown, CommittedWasShown
  <1> QED
    BY <1>1, <1>2, <1>3, <1>4 DEF Next

\* No plan is committed that no dry-run has shown.
THEOREM CommittedWasShownCorrect == Spec => []CommittedWasShown
  <1>1. Init => AppliedWasShown
    BY DEF Init, AppliedWasShown, CommittedWasShown, IdleHandler
  <1>2. AppliedWasShown => CommittedWasShown
    BY DEF AppliedWasShown
  <1> QED
    BY <1>1, <1>2, ShownNext, TypeCorrect, PTL DEF Spec
=============================================================================
