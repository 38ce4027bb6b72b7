---------------------------- MODULE MCJobQueue ------------------------------
(***************************************************************************)
(* Instances of JobQueue for TLC.                                          *)
(***************************************************************************)
EXTENDS JobQueue, TLC

CONSTANTS j1, j2, p1, p2

Job2 == {j1, j2}
Permit1 == {p1}
Permit2 == {p1, p2}

\* The job submitted later may be the more urgent one.
Distinct == [j \in Jobs |-> IF j = j1 THEN 5 ELSE -1]

\* n jobs, and one event of each of the given kinds.
With(n, kinds) == [e \in Events |-> CASE e = "submit" -> n
                                      [] e \in kinds -> 1
                                      [] OTHER -> 0]
Kinds == Events \ {"submit"}

\* One job to which everything happens, in any order, with two crashes; or two
\* jobs with a cancellation, a cleanup, or two of the rest.
Safety == {[With(1, Kinds) EXCEPT !["crash"] = 2]}
          \cup {With(2, k) : k \in {{"cancel"}, {"sweep"}, {"crash", "fault"},
                                    {"crash", "panic"}, {"fault", "panic"}}}

\* Two jobs and any one event.
Liveness == {With(2, {k}) : k \in Kinds}

\* Which permit a worker has tells nothing.
AnyPermit == Permutations(Permits)
=============================================================================
