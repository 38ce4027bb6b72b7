---------------------------- MODULE MCSchemaSync ----------------------------
(***************************************************************************)
(* Instances of SchemaSync for TLC.                                        *)
(***************************************************************************)
EXTENDS SchemaSync, TLC

CONSTANTS n1, n2, r1

\* The last migration is not DDL.
LastRefused == [v \in 1..MaxVersion |-> v < MaxVersion]

\* Either the schema has its troubles, or a resource goes to a node, changes
\* there and moves to the other one, while announcements overtake each other.
Troubles ==
    { [crash |-> 1, fault |-> 1, lost |-> 1, move |-> 0],
      [crash |-> 0, fault |-> 0, lost |-> 1, move |-> 4] }
=============================================================================
