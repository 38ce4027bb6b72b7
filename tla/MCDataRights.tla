---------------------------- MODULE MCDataRights ----------------------------
(***************************************************************************)
(* Instances of DataRights for TLC.                                        *)
(***************************************************************************)
EXTENDS DataRights, TLC

CONSTANTS c1, c2, s1, s2, g1, r1

Client2 == {c1, c2}
Subject2 == {s1, s2}
Group1 == {g1}
Resource1 == {r1}

Asks(op, id, registered, policy) ==
    [op |-> op, id |-> id, registered |-> registered, resource |-> r1,
     policy |-> policy]

\* Every operation, every tier, and an erasure by someone who is not the
\* owner to begin with.
Mixed == { Asks("erase", s1, TRUE, "Restricted"),
           Asks("erase", s2, TRUE, "Restricted"),
           Asks("export", s1, TRUE, "Open"),
           Asks("get", s2, FALSE, "Open"),
           Asks("get", s2, FALSE, "Registered"),
           Asks("get", s1, TRUE, "Registered"),
           Asks("get", s2, FALSE, "Restricted") }

\* Two requests side by side, or one with a grant that comes and goes before
\* it and while it is decided.
TwoOrOne == { [request |-> 2, change |-> 2, fault |-> 1],
              [request |-> 1, change |-> 4, fault |-> 0] }

ClientSymmetry == Permutations(Clients)
=============================================================================
