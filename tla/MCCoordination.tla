--------------------------- MODULE MCCoordination ---------------------------
(***************************************************************************)
(* Coordination for TLC.                                                   *)
(***************************************************************************)
EXTENDS Coordination, TLC

CONSTANTS n1, n2, n3

NodeSymmetry == Permutations(Node)

\* The locked part of a Tick touches only the fields n.mu protects, and every
\* other goroutine that wants them waits for n.mu: a behaviour with two locked
\* parts interleaved reaches the same states at the unlocks as one that runs
\* them one after the other.  SerialSpec explores only the latter.
Serial ==
    \A n \in Node : locked[n] => /\ \A m \in Node \ {n} : ~locked'[m]
                                 /\ UNCHANGED <<inbox, groups>>
                                 /\ \A m \in Node \ {n} : node'[m] = node[m]

SerialSpec == Init /\ [][Next /\ Serial]_vars
=============================================================================
