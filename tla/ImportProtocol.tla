--------------------------- MODULE ImportProtocol ---------------------------
(***************************************************************************)
(* Importing a portable bundle into the reference host of                  *)
(* crates/queryfabric-demo: POST /imports/dry-run stages the artifact and  *)
(* shows the client a plan, POST /imports/apply commits its rows and a     *)
(* receipt in one PostgreSQL transaction (src/http.rs, src/db.rs).  The    *)
(* staging object and the transaction live in two stores that share no     *)
(* transaction; handlers of several clients interleave at every await; a   *)
(* handler disappears when its client disconnects or the process crashes.  *)
(*                                                                         *)
(* A plan is the request's idempotency key together with what the running  *)
(* build of the program adds to it (schema, mapping, local owner).  Plan   *)
(* digest, staging path and artifact bytes are functions of the plan and   *)
(* are identified with it, so the comparisons of bytes cannot fail.        *)
(***************************************************************************)
EXTENDS Integers

CONSTANTS
    Clients,
    Keys,           \* bundle digest, station and target revision
    Builds,         \* builds of the program that plan differently
    NoPlan,
    DurableStore,   \* the s3 store keeps its objects over a restart, the
                    \* memory store does not
    Budget          \* how many events of each kind a behaviour contains

\* Failing storage calls, clients that disconnect, crashes of the process.
Events == {"fault", "drop", "crash"}

Plan == [key : Keys, build : Builds]

ASSUME ImportAssumptions ==
    /\ NoPlan \notin Plan
    /\ DurableStore \in BOOLEAN
    /\ Budget \in [Events -> Nat]

VARIABLES
    build,      \* the build that is running
    staging,    \* plans whose staging object exists
    receipt,    \* the plan recorded in the committed receipt of each key
    batches,    \* committed batches of rows of each key
    handler,    \* the request each client has in progress
    ticket,     \* planDigest and stagedObject each client got from dry-run
    answer,     \* the last answer each client received
    shown,      \* history: plans some dry-run has answered with
    budget

vars == <<build, staging, receipt, batches, handler, ticket, answer, shown,
          budget>>
database == <<receipt, batches>>

-----------------------------------------------------------------------------
(* Types.                                                                  *)

\* "orphan": the handler is gone, its COMMIT may still reach the database.
HandlerPc == {"idle", "dryget", "dryput", "get", "select", "rows", "receipt",
              "commit", "cleanup", "orphan"}
\* "error" is what apply_import failed with.  "replay" is history: the plan
\* already had its receipt when apply came in.
Handler == {h \in [pc : HandlerPc, plan : Plan \cup {NoPlan},
                   error : {"none", "conflict", "error"}, replay : BOOLEAN] :
                h.pc = "idle" <=> h.plan = NoPlan}
IdleHandler == [pc |-> "idle", plan |-> NoPlan, error |-> "none",
                replay |-> FALSE]

\* "conflict" is 409, "gone" the 400 for a missing staging object, "error" any
\* other failure, "lost" no answer at all.
Failure == {"conflict", "gone", "error", "lost"}
Answer == [kind : {"none", "staged", "imported", "replayed"} \cup Failure,
           plan : Plan \cup {NoPlan}]

-----------------------------------------------------------------------------
(* Helpers.                                                                *)

At(c, pc) == handler[c].pc = pc
Goto(c, pc) == handler' = [handler EXCEPT ![c].pc = pc]
\* apply_import returns an error.
Fail(c, error) == handler' = [handler EXCEPT ![c].pc = "cleanup",
                                             ![c].error = error]

Spend(event) == /\ budget[event] > 0
                /\ budget' = [budget EXCEPT ![event] = @ - 1]
Fault == Spend("fault")
NoFault == UNCHANGED budget

\* The handler of c returns.
Return(c, kind) ==
    /\ handler' = [handler EXCEPT ![c] = IdleHandler]
    /\ answer' = [answer EXCEPT ![c] = [kind |-> kind, plan |-> handler[c].plan]]

\* A transaction other than c's has inserted a receipt for the key and has
\* neither committed nor aborted: a second insert waits for it.
LockedByOther(c) ==
    \E d \in Clients \ {c} : /\ handler[d].pc \in {"commit", "orphan"}
                             /\ handler[d].plan.key = handler[c].plan.key

\* The transaction of c becomes durable.
CommitTransaction(c) ==
    LET p == handler[c].plan IN
    /\ receipt' = [receipt EXCEPT ![p.key] = p]
    /\ batches' = [batches EXCEPT ![p.key] = @ + 1]

\* The plan is shown to the client.
Staged(c) == /\ Return(c, "staged")
             /\ ticket' = [ticket EXCEPT ![c] = handler[c].plan]
             /\ shown' = shown \cup {handler[c].plan}

-----------------------------------------------------------------------------
(* Faulty variants of definitions below, each one slip away from the code: *)
(* the properties must tell them from it.                                  *)

\* A dry-run trusts that what was once staged still is.
DryGet_TrustsHistory(c) ==
    /\ At(c, "dryget")
    /\ \/ /\ NoFault
          /\ handler[c].plan \in shown
          /\ Staged(c)
       \/ /\ Fault \/ (NoFault /\ handler[c].plan \notin shown)
          /\ Goto(c, "dryput")
          /\ UNCHANGED <<ticket, answer, shown>>
    /\ UNCHANGED <<build, staging, database>>

\* Apply does not compare its plan with the one of the dry-run.
Apply_NoDigestCheck(c) ==
    LET p == [key |-> ticket[c].key, build |-> build] IN
    /\ At(c, "idle")
    /\ ticket[c] # NoPlan
    /\ handler' = [handler EXCEPT ![c].pc = "get", ![c].plan = p,
                                  ![c].replay = receipt[p.key] = p]
    /\ UNCHANGED <<build, staging, database, ticket, answer, shown, budget>>

\* The rows are inserted outside the transaction.
InsertRows_Autocommit(c) ==
    /\ At(c, "rows")
    /\ \/ /\ NoFault
          /\ Goto(c, "receipt")
          /\ batches' = [batches EXCEPT ![handler[c].plan.key] = @ + 1]
       \/ Fault /\ Fail(c, "error") /\ UNCHANGED batches
    /\ UNCHANGED <<build, staging, receipt, ticket, answer, shown>>

\* idempotency_key is not UNIQUE.
InsertReceipt_NotUnique(c) ==
    /\ At(c, "receipt")
    /\ \/ NoFault /\ Goto(c, "commit")
       \/ Fault /\ Fail(c, "error")
    /\ UNCHANGED <<build, staging, database, ticket, answer, shown>>

\* The lock on the key is taken before the rows, and shared until here.
InsertReceipt_SharedLock(c) ==
    /\ At(c, "receipt")
    /\ \A d \in Clients \ {c} :
           handler[d].pc \in {"rows", "receipt", "commit", "orphan"} =>
               handler[d].plan.key # handler[c].plan.key
    /\ \/ /\ NoFault
          /\ IF receipt[handler[c].plan.key] = NoPlan
               THEN Goto(c, "commit") ELSE Fail(c, "error")
       \/ Fault /\ Fail(c, "error")
    /\ UNCHANGED <<build, staging, database, ticket, answer, shown>>

\* The result of commit() is ignored.
CommitFails_Ignored(c) ==
    /\ At(c, "commit")
    /\ Fault
    /\ Return(c, "imported")
    /\ CommitTransaction(c) \/ UNCHANGED database
    /\ UNCHANGED <<build, staging, ticket, shown>>

-----------------------------------------------------------------------------
(* POST /imports/dry-run.                                                  *)

DryRun(c, k) ==
    /\ At(c, "idle")
    /\ handler' = [handler EXCEPT
                      ![c].pc = "dryget",
                      ![c].plan = [key |-> k, build |-> build]]
    /\ UNCHANGED <<build, staging, database, ticket, answer, shown, budget>>

\* store.get; any error counts as absence.
DryGet(c) ==
    /\ At(c, "dryget")
    /\ \/ /\ NoFault
          /\ handler[c].plan \in staging
          /\ Staged(c)
       \/ /\ Fault \/ (NoFault /\ handler[c].plan \notin staging)
          /\ Goto(c, "dryput")
          /\ UNCHANGED <<ticket, answer, shown>>
    /\ UNCHANGED <<build, staging, database>>

\* store.put.
DryPut(c) ==
    /\ At(c, "dryput")
    /\ \/ /\ NoFault
          /\ staging' = staging \cup {handler[c].plan}
          /\ Staged(c)
       \/ /\ Fault
          /\ Return(c, "error")
          /\ UNCHANGED <<staging, ticket, shown>>
    /\ UNCHANGED <<build, database>>

-----------------------------------------------------------------------------
(* POST /imports/apply.                                                    *)

\* The plan is made anew and must equal the one of the dry-run.
Apply(c) ==
    LET p == [key |-> ticket[c].key, build |-> build] IN
    /\ At(c, "idle")
    /\ ticket[c] # NoPlan
    /\ IF p = ticket[c]
         THEN /\ handler' = [handler EXCEPT
                      ![c].pc = "get",
                      ![c].plan = p,
                      ![c].replay = receipt[p.key] = p]
              /\ UNCHANGED answer
         ELSE /\ answer' = [answer EXCEPT ![c] = [kind |-> "conflict",
                                                  plan |-> p]]
              /\ UNCHANGED handler
    /\ UNCHANGED <<build, staging, database, ticket, shown, budget>>

\* store.get; any error counts as absence.
ApplyGet(c) ==
    /\ At(c, "get")
    /\ \/ /\ NoFault
          /\ handler[c].plan \in staging
          /\ Goto(c, "select")
          /\ UNCHANGED answer
       \/ /\ Fault \/ (NoFault /\ handler[c].plan \notin staging)
          /\ Return(c, "gone")
    /\ UNCHANGED <<build, staging, database, ticket, shown>>

\* apply_import connects, begins and looks for the receipt of the key.
Select(c) ==
    LET p == handler[c].plan IN
    /\ At(c, "select")
    /\ \/ /\ NoFault
          /\ receipt[p.key] = p
          /\ Return(c, "replayed")
       \/ /\ NoFault
          /\ receipt[p.key] = NoPlan
          /\ Goto(c, "rows")
          /\ UNCHANGED answer
       \/ /\ NoFault
          /\ receipt[p.key] \notin {p, NoPlan}
          /\ Fail(c, "conflict")
          /\ UNCHANGED answer
       \/ /\ Fault
          /\ Fail(c, "error")
          /\ UNCHANGED answer
    /\ UNCHANGED <<build, staging, database, ticket, shown>>

\* The row inserts, all under fresh ids; the first one that fails returns,
\* and the transaction is rolled back when it is dropped.
InsertRows(c) ==
    /\ At(c, "rows")
    /\ \/ NoFault /\ Goto(c, "receipt")
       \/ Fault /\ Fail(c, "error")
    /\ UNCHANGED <<build, staging, database, ticket, answer, shown>>

\* The receipt insert, against UNIQUE (idempotency_key).
InsertReceipt(c) ==
    /\ At(c, "receipt")
    /\ \/ /\ NoFault
          /\ ~LockedByOther(c)
          /\ IF receipt[handler[c].plan.key] = NoPlan
               THEN Goto(c, "commit") ELSE Fail(c, "error")
       \/ Fault /\ Fail(c, "error")
    /\ UNCHANGED <<build, staging, database, ticket, answer, shown>>

Commit(c) ==
    /\ At(c, "commit")
    /\ CommitTransaction(c)
    /\ Return(c, "imported")
    /\ UNCHANGED <<build, staging, ticket, shown, budget>>

\* commit() returns an error: the transaction was aborted, or it was
\* committed and the answer of the database got lost.
CommitFails(c) ==
    /\ At(c, "commit")
    /\ Fault
    /\ Fail(c, "error")
    /\ CommitTransaction(c) \/ UNCHANGED database
    /\ UNCHANGED <<build, staging, ticket, answer, shown>>

\* apply_import returned an error: the staging object is deleted; a failure
\* to do so is only logged.
Cleanup(c) ==
    /\ At(c, "cleanup")
    /\ \/ NoFault /\ staging' = staging \ {handler[c].plan}
       \/ Fault /\ UNCHANGED staging
    /\ Return(c, handler[c].error)
    /\ UNCHANGED <<build, database, ticket, shown>>

-----------------------------------------------------------------------------
(* Clients that disconnect, and crashes.                                   *)

\* What is left of the request of c once its handler is dropped.
Dropped(c) == IF handler[c].pc \in {"commit", "orphan"}
                THEN [handler[c] EXCEPT !.pc = "orphan"] ELSE IdleHandler

\* The staging objects when the handlers of C are dropped: a put or delete
\* that such a handler was waiting for may still take effect.
StagingAfterDrop(C) ==
    {(staging \cup {handler[c].plan : c \in {d \in D : At(d, "dryput")}})
        \ {handler[c].plan : c \in {d \in D : At(d, "cleanup")}} :
     D \in SUBSET C}

\* A dropped handler stops at the await it had reached; its transaction is
\* rolled back, unless COMMIT was already on its way.
Disconnect(c) ==
    /\ handler[c].pc \notin {"idle", "orphan"}
    /\ Spend("drop")
    /\ handler' = [handler EXCEPT ![c] = Dropped(c)]
    /\ answer' = [answer EXCEPT ![c].kind = "lost"]
    /\ staging' \in StagingAfterDrop({c})
    /\ UNCHANGED <<build, database, ticket, shown>>

\* The database commits or aborts a transaction without a handler.
Orphan(c) ==
    /\ At(c, "orphan")
    /\ CommitTransaction(c) \/ UNCHANGED database
    /\ handler' = [handler EXCEPT ![c] = IdleHandler]
    /\ UNCHANGED <<build, staging, ticket, answer, shown, budget>>

\* The process restarts, perhaps as another build.
Crash ==
    /\ Spend("crash")
    /\ build' \in Builds
    /\ handler' = [c \in Clients |-> Dropped(c)]
    /\ answer' = [c \in Clients |->
                    IF handler[c].pc \in {"idle", "orphan"} THEN answer[c]
                    ELSE [answer[c] EXCEPT !.kind = "lost"]]
    /\ IF DurableStore THEN staging' \in StagingAfterDrop(Clients)
                       ELSE staging' = {}
    /\ UNCHANGED <<database, ticket, shown>>

-----------------------------------------------------------------------------
Init ==
    /\ build \in Builds
    /\ staging = {}
    /\ receipt = [k \in Keys |-> NoPlan]
    /\ batches = [k \in Keys |-> 0]
    /\ handler = [c \in Clients |-> IdleHandler]
    /\ ticket = [c \in Clients |-> NoPlan]
    /\ answer = [c \in Clients |-> [kind |-> "none", plan |-> NoPlan]]
    /\ shown = {}
    /\ budget = Budget

\* A step of the handler of c, or of the database on its behalf.
Step(c) == \/ DryGet(c) \/ DryPut(c) \/ ApplyGet(c) \/ Select(c)
           \/ InsertRows(c) \/ InsertReceipt(c) \/ Commit(c) \/ CommitFails(c)
           \/ Cleanup(c) \/ Orphan(c)

Request(c) == Apply(c) \/ \E k \in Keys : DryRun(c, k)

Next == \/ \E c \in Clients : Request(c) \/ Step(c) \/ Disconnect(c)
        \/ Crash

Spec == Init /\ [][Next]_vars

\* The runtime polls every handler, and the database resolves every
\* transaction.
Fairness == \A c \in Clients : WF_vars(Step(c))

\* Besides, every client keeps asking, with fresh dry-runs and with applies.
Persistence == \A c \in Clients : /\ SF_vars(Apply(c))
                                  /\ \A k \in Keys : SF_vars(DryRun(c, k))

FairSpec == Spec /\ Fairness
RetrySpec == FairSpec /\ Persistence
-----------------------------------------------------------------------------
(* Properties.                                                             *)

\* Every variable has its type.
TypeOK ==
    /\ build \in Builds
    /\ staging \in SUBSET Plan
    /\ receipt \in [Keys -> Plan \cup {NoPlan}]
    /\ batches \in [Keys -> Nat]
    /\ handler \in [Clients -> Handler]
    /\ ticket \in [Clients -> Plan \cup {NoPlan}]
    /\ answer \in [Clients -> Answer]
    /\ shown \in SUBSET Plan
    /\ budget \in [Events -> Nat]

\* What the import endpoints promise.
Once == INSTANCE ImportOnce
            WITH Clients <- Clients, Keys <- Keys, Builds <- Builds, NoPlan <- NoPlan,
                 receipt <- receipt, batches <- batches, answer <- answer

\* The protocol keeps the promise of ImportOnce: rows and receipt of a key
\* appear together and once, whatever handlers, crashes, disconnections and
\* lost answers of the database interleave, and success is only reported
\* when it is durable.
ImplementsImportOnce == Once!Spec

\* A key has one batch of rows if it has a receipt, and none otherwise.
ExactlyOnce == Once!ExactlyOnce

\* A client that was told of success can rely on a receipt for its plan: no
\* commit that failed, no crash and no second import takes it away.
AnswerIsDurable == Once!AnswerIsDurable

\* No plan is committed silently: a receipt records a plan that some dry-run
\* has shown to a client, even when the program was replaced in between.
CommittedWasShown ==
    \A k \in Keys : receipt[k] # NoPlan => receipt[k] \in shown

\* A transaction that is about to commit has the key to itself: there is no
\* receipt, and no other transaction holds one back.
CommitLock ==
    \A c \in Clients : handler[c].pc \in {"commit", "orphan"} =>
        /\ receipt[handler[c].plan.key] = NoPlan
        /\ ~LockedByOther(c)

\* No request hangs: waiting for another transaction's receipt ends.
EveryRequestEnds == \A c \in Clients : ~At(c, "idle") ~> At(c, "idle")

\* A client that keeps retrying with a fresh dry-run ends up with a receipt,
\* although failing applies of other clients delete the object it staged,
\* unless another build of the program has already committed the key.
RetrySucceeds ==
    \A c \in Clients :
        <>(\/ answer[c].kind \in {"imported", "replayed"}
           \/ \E k \in Keys : receipt[k] # NoPlan /\ receipt[k].build # build)

\* Applying a committed plan again is not refused.
ReplayReturnsReceipt ==
    [][\A c \in Clients :
         handler[c].replay /\ handler'[c].pc = "idle" =>
             answer'[c].kind = "replayed"]_vars
=============================================================================
