---------------------------- MODULE LeastLoaded ----------------------------
(***************************************************************************)
(* What work distribution promises: every item goes to a member that has   *)
(* received no more items than any other, and no item is taken back.       *)
(***************************************************************************)
EXTENDS Naturals

CONSTANT Member

VARIABLE load

Init == load = [m \in Member |-> 0]

Assign(m) ==
    /\ \A other \in Member : load[m] <= load[other]
    /\ load' = [load EXCEPT ![m] = @ + 1]

Next == \E m \in Member : Assign(m)

Spec == Init /\ [][Next]_load
=============================================================================
