-------------------------- MODULE WorkDistribution --------------------------
(***************************************************************************)
(* Node.Assign: the leader hands work items to the members of the cluster  *)
(* in turn.  Leadership comes and goes between the calls (Coordination     *)
(* says how); the position in the rotation and the loads survive it.       *)
(***************************************************************************)
EXTENDS Integers

CONSTANTS
    Members,      \* len(n.members); members are numbered 0 .. Members - 1
    MaxLoad       \* bound: items given to one member

ASSUME MembersAssumption == Members \in Nat \ {0} /\ MaxLoad \in Nat

VARIABLES
    leading,      \* n.role = Leader
    rrIndex,      \* n.rrIndex
    nodeLoad      \* n.nodeLoad, an absent key read as 0 (NodeLoad)

vars == <<leading, rrIndex, nodeLoad>>

Member == 0 .. Members - 1

TypeOK ==
    /\ leading \in BOOLEAN
    /\ rrIndex \in Member
    /\ nodeLoad \in [Member -> Nat]

\* NewNode starts the rotation at the last member.
Init ==
    /\ leading = FALSE
    /\ rrIndex = Members - 1
    /\ nodeLoad = [m \in Member |-> 0]

\* A call on a node that does not lead returns ErrNotLeader and changes nothing.
Assign ==
    /\ leading
    /\ nodeLoad[(rrIndex + 1) % Members] < MaxLoad
    /\ rrIndex' = (rrIndex + 1) % Members
    /\ nodeLoad' = [nodeLoad EXCEPT ![rrIndex'] = @ + 1]
    /\ UNCHANGED leading

\* Mutant: a change of role forgets the loads.
ChangeRoleForgets ==
    /\ leading' = ~leading
    /\ nodeLoad' = [m \in Member |-> 0]
    /\ UNCHANGED rrIndex

\* becomeLeaderLocked and becomeFollowerLocked.
ChangeRole ==
    /\ leading' = ~leading
    /\ UNCHANGED <<rrIndex, nodeLoad>>

Next == Assign \/ ChangeRole

Spec == Init /\ [][Next]_vars

-----------------------------------------------------------------------------
\* However often leadership was lost in between, no member received two items
\* more than another.
Balanced == \A a, b \in Member : nodeLoad[a] <= nodeLoad[b] + 1

Abstract == INSTANCE LeastLoaded WITH load <- nodeLoad

\* The rotation, which never compares loads, implements assignment to a member
\* with the least load; changes of role are invisible to it.
AssignsLeastLoaded == Abstract!Spec

=============================================================================
