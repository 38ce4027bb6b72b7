----------------------------- MODULE ImportOnce -----------------------------
(***************************************************************************)
(* What the import endpoints of crates/queryfabric-demo promise.  Each     *)
(* idempotency key receives at most one batch of rows, together with one   *)
(* receipt; a client is told "imported" only by the very step that creates *)
(* the receipt of its plan, and "replayed" only while that receipt exists; *)
(* it may be told of a failure at any time.                                *)
(***************************************************************************)
EXTENDS Integers

CONSTANTS
    Clients,
    Keys,       \* bundle digest, station and target revision
    Builds,     \* what the program adds to a plan: schema, mapping, owner
    NoPlan

Plan == [key : Keys, build : Builds]
Failure == {"conflict", "gone", "error", "lost"}
Answer == [kind : {"none", "staged", "imported", "replayed"} \cup Failure,
           plan : Plan \cup {NoPlan}]

VARIABLES
    receipt,    \* the plan each key's committed receipt records
    batches,    \* committed batches of rows per key
    answer      \* the last answer each client received

vars == <<receipt, batches, answer>>

Init == /\ receipt = [k \in Keys |-> NoPlan]
        /\ batches = [k \in Keys |-> 0]
        /\ answer = [c \in Clients |-> [kind |-> "none", plan |-> NoPlan]]

\* Rows and receipt appear together, and only where there is no receipt.
Commit(p) == /\ receipt[p.key] = NoPlan
             /\ receipt' = [receipt EXCEPT ![p.key] = p]
             /\ batches' = [batches EXCEPT ![p.key] = @ + 1]

\* The client that asked learns of it at once, or no client does.
Import(p) ==
    /\ Commit(p)
    /\ \/ UNCHANGED answer
       \/ \E c \in Clients :
            answer' = [answer EXCEPT ![c] = [kind |-> "imported", plan |-> p]]

Reply(c) ==
    /\ UNCHANGED <<receipt, batches>>
    /\ \E a \in Answer :
        /\ a.kind # "imported"
        /\ a.kind = "replayed" => /\ a.plan \in Plan
                                  /\ receipt[a.plan.key] = a.plan
        /\ answer' = [answer EXCEPT ![c] = a]

\* The process goes away: some clients lose their answers.
ReplyLost ==
    /\ UNCHANGED <<receipt, batches>>
    /\ \E C \in SUBSET Clients :
        answer' = [c \in Clients |->
                     IF c \in C THEN [answer[c] EXCEPT !.kind = "lost"]
                                ELSE answer[c]]

Next == \/ \E p \in Plan : Import(p)
        \/ \E c \in Clients : Reply(c)
        \/ ReplyLost

Spec == Init /\ [][Next]_vars
-----------------------------------------------------------------------------
\* A key has one batch of rows if it has a receipt, and none otherwise.
ExactlyOnce ==
    \A k \in Keys : batches[k] = IF receipt[k] = NoPlan THEN 0 ELSE 1

\* A client that was told of success can rely on a receipt for its plan.
AnswerIsDurable ==
    \A c \in Clients : answer[c].kind \in {"imported", "replayed"} =>
        /\ answer[c].plan \in Plan
        /\ receipt[answer[c].plan.key] = answer[c].plan
=============================================================================
