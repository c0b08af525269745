---------------------------- MODULE MCFederation ----------------------------
(***************************************************************************)
(* Federation for TLC: two regions that discover each other, and three     *)
(* that replicate through one of them.                                     *)
(***************************************************************************)
EXTENDS Federation

CONSTANTS r1, r2, r3

Pair == [regions |-> {r1, r2}, allowlist |-> {}]
Hub == [regions |-> {r1, r2, r3}, allowlist |-> {r1}]
BothFleets == {Pair, Hub}
OnePair == {Pair}

OneWriter == {<<r1, 1>>}
TwoWriters == {<<r1, 1>>, <<r2, 1>>}
=============================================================================
