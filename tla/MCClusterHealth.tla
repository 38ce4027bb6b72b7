-------------------------- MODULE MCClusterHealth ---------------------------
(***************************************************************************)
(* An instance of ClusterHealth for TLC.                                   *)
(***************************************************************************)
EXTENDS ClusterHealth

CONSTANT n1

Node1 == {n1}

\* Every kind of event, once.
AllEvents == [e \in Events |-> 1]
=============================================================================
