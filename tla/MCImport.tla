----------------------------- MODULE MCImport -------------------------------
(***************************************************************************)
(* Instances of ImportProtocol for TLC.                                    *)
(***************************************************************************)
EXTENDS ImportProtocol

CONSTANTS c1, c2, k1, b1, b2

Client2 == {c1, c2}
Key1 == {k1}
Build1 == {b1}
Build2 == {b1, b2}

Events3(fault, drop, crash) ==
    [e \in Events |-> CASE e = "fault" -> fault [] e = "drop" -> drop
                        [] OTHER -> crash]

NoEvents == Events3(0, 0, 0)
EachOnce == Events3(1, 1, 1)
=============================================================================
