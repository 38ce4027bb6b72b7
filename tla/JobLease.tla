------------------------------ MODULE JobLease ------------------------------
(***************************************************************************)
(* What crates/queryfabric-job-queue promises about each job: it is        *)
(* accepted once; it waits until it is handed to a worker, its lease, and  *)
(* then it waits no longer; while the process lives only the holder of the *)
(* lease reports that the job is running or how it ended, and others may   *)
(* only cancel it; a row that still says Pending is not removed; and after *)
(* a restart the jobs whose row says Pending wait again, and no others.    *)
(*                                                                         *)
(* The one exception is stated, not left out: a job that the host submits  *)
(* while the process starts is doubled.  It may be handed out once more    *)
(* while it is leased, and until the next restart nothing is promised      *)
(* about where it waits.                                                   *)
(***************************************************************************)
CONSTANT Jobs

VARIABLES
    row,        \* status column of each job's row
    waiting,    \* jobs on their way to a worker
    leased,     \* jobs that a worker has
    doubled     \* jobs that startup read although they were waiting

vars == <<row, waiting, leased, doubled>>

Outcome == {"Completed", "Failed", "Cancelled"}
Stored  == {"Pending", "Running"} \cup Outcome

Init == /\ row = [j \in Jobs |-> "New"]
        /\ waiting = {} /\ leased = {} /\ doubled = {}

\* What is left of the set when job j leaves it: a doubled job may be there
\* once more.
Without(set, j) == {set \ {j}} \cup (IF j \in doubled THEN {set} ELSE {})

Accept(j) == /\ row[j] = "New" /\ j \notin waiting \cup leased
             /\ row' = [row EXCEPT ![j] = "Pending"]
             /\ waiting' = waiting \cup {j}
             /\ UNCHANGED <<leased, doubled>>

Grant(j) == /\ j \in waiting
            /\ j \in leased => j \in doubled
            /\ waiting' \in Without(waiting, j)
            /\ leased' = leased \cup {j}
            /\ UNCHANGED <<row, doubled>>

\* The holder of the lease reports progress or an outcome.
Report(j) == /\ j \in leased /\ row[j] \in Stored
             /\ \E s \in {"Running"} \cup Outcome : row' = [row EXCEPT ![j] = s]
             /\ UNCHANGED <<waiting, leased, doubled>>

Return(j) == /\ j \in leased
             /\ leased' \in Without(leased, j)
             /\ UNCHANGED <<row, waiting, doubled>>

\* A cancellation reaches the job while it waits, or its row, or both.
Withdraw(j) == /\ j \in waiting
               /\ waiting' \in Without(waiting, j)
               /\ UNCHANGED <<row, leased, doubled>>

Cancel(j) == /\ row[j] \in Stored
             /\ row' = [row EXCEPT ![j] = "Cancelled"]
             /\ UNCHANGED <<waiting, leased, doubled>>

Remove(j) == /\ row[j] \notin {"New", "Pending"}
             /\ row' = [row EXCEPT ![j] = "Deleted"]
             /\ UNCHANGED <<waiting, leased, doubled>>

\* The process ends; the next one settles what it finds and starts over.
Restart == /\ waiting' = {} /\ leased' = {} /\ doubled' = {}
           /\ UNCHANGED row

FailStale == /\ leased = {}
             /\ row' = [j \in Jobs |-> IF row[j] = "Running" THEN "Failed" ELSE row[j]]
             /\ UNCHANGED <<waiting, leased, doubled>>

\* The host may have accepted jobs before: those are now doubled.
Recover == LET found == {j \in Jobs : row[j] = "Pending"}
           IN  /\ leased = {}
               /\ waiting' = waiting \cup found
               /\ doubled' = waiting \cap found
               /\ UNCHANGED <<row, leased>>

Next == \/ \E j \in Jobs : \/ Accept(j) \/ Grant(j) \/ Report(j) \/ Return(j)
                           \/ Withdraw(j) \/ Cancel(j) \/ Remove(j)
        \/ Restart \/ FailStale \/ Recover

Spec == Init /\ [][Next]_vars
=============================================================================
