----------------------------- MODULE MCIsolated -----------------------------
(***************************************************************************)
(* Instances of IsolatedExecution for TLC.                                 *)
(***************************************************************************)
EXTENDS IsolatedExecution, TLC

CONSTANTS c1, c2, c3, q1, q2

\* Two callers of one query and one of another, whose snapshot clone is not
\* compiled in.
ThreeQueries == c1 :> q1 @@ c2 :> q1 @@ c3 :> q2
ThreeModes == c1 :> "replicated-read-only" @@ c2 :> "object-store"
                 @@ c3 :> "snapshot-clone"
\* The worker of the first caller takes the query itself for a ticket.
ThreeTickets == c1 :> {"query_json"} @@ c2 :> {"query_hash"}
                   @@ c3 :> {"query_hash"}

Bounds(fault, lost, cancel, podfail) ==
    [e \in Events |-> CASE e = "fault" -> fault [] e = "lost" -> lost
                        [] e = "cancel" -> cancel [] OTHER -> podfail]
Each == Bounds(1, 1, 1, 1)
=============================================================================
