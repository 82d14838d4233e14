------------------------------- MODULE MCPort -------------------------------
(* Fan-out, duplicates, a hidden input beside a displayed one, and an      *)
(* output that may not be connected to them.                               *)
EXTENDS Port, TLC

CONSTANTS o1, o2, i1, i2, v1, v2, n1

MCOut == {o1, o2}
MCIn == {i1, i2}
MCValue == {v1, v2}
MCNode == {n1}
MCType == [p \in {o1, i1, i2} |-> "image"] @@ [p \in {o2} |-> "number"]
MCDisplayed == {i1}
MCOwner == [i \in MCIn |-> n1]
=============================================================================
