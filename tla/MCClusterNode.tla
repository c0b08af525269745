--------------------------- MODULE MCClusterNode ---------------------------
(***************************************************************************)
(* The parts of a cluster node beside its elections, for TLC: part, chosen *)
(* at the start, names the one that runs, work distribution, the           *)
(* background driver, or the sharding ring.  On the ring are three nodes   *)
(* with two virtual nodes each, and keys before, on and after their        *)
(* points.                                                                 *)
(***************************************************************************)
EXTENDS WorkDistribution, TLC

CONSTANTS MaxStarts, Node, Key, VNodesPerNode, Hash, SuspectAfter, DownAfter,
          n1, n2, n3, k1, k2, k3, Part

VARIABLES
    part,
    running, starts, stopCh, closed, pc, waitsOn, stopped,
    virtuals, ringNodes, nodes, loop, notified, alive, beats, scanned

MCHash ==
    (<<n1, 0>> :> 1 @@ <<n1, 1>> :> 6 @@ <<n2, 0>> :> 3 @@ <<n2, 1>> :> 4 @@ <<n3, 0>> :> 2 @@ <<n3, 1>> :> 7)
    @@ (k1 :> 0 @@ k2 :> 4 @@ k3 :> 8)

D == INSTANCE NodeDriver
S == INSTANCE Sharding

driver == <<running, starts, stopCh, closed, pc, waitsOn, stopped>>
sharding == <<virtuals, ringNodes, nodes, loop, notified, alive, beats, scanned>>
nodeVars == <<part, vars, driver, sharding>>

NodeInit == part \in Part /\ Init /\ D!Init /\ S!Init

NodeNext ==
    /\ part' = part
    /\ \/ part = "assign" /\ Next /\ UNCHANGED <<driver, sharding>>
       \/ part = "driver" /\ D!Next /\ UNCHANGED <<vars, sharding>>
       \/ part = "ring" /\ S!Next /\ UNCHANGED <<vars, driver>>

\* No goroutine runs, and no fair step is enabled, in a part that is not used.
NodeSpec == NodeInit /\ [][NodeNext]_nodeVars /\ D!Fairness /\ S!Fairness

\* The state of all parts keeps its type; Stop only closes channels that Start
\* made.
NodeTypeOK == TypeOK /\ D!TypeOK /\ S!TypeOK

\* Stop never closes a channel a second time.
NoDoubleClose == D!NoDoubleClose

\* After the last Stop every goroutine of the driver ends.
LastStopHaltsAll == D!LastStopHaltsAll

\* The ring holds the points of exactly the tracked nodes, in order.
RingMatchesNodes == S!RingMatchesNodes

\* OnChange has been told of the membership as it is.
CallbackCurrent == S!CallbackCurrent

\* Lookup finds the successor of the key on the circle.
LookupIsSuccessor == S!LookupIsSuccessor

\* MigrationKeys predicts what a removal moves.
MigrationExact == S!MigrationExact

\* A node that did not leave goes after two scans.
TwoScansToExpel == S!TwoScansToExpel

\* A node that stays down is off the ring in the end.
DeadLeaveRing == S!DeadLeaveRing

\* "Leave immediately removes nodeID from the ring", until it joins again.
LeaveIsFinal == S!LeaveIsFinal
=============================================================================
