-------------------------- MODULE ClusterNodeProofs --------------------------
(***************************************************************************)
(* Proofs about a cluster node beside its elections: the rotation of work  *)
(* for every number of members, and the membership and the points of the   *)
(* sharding ring, and which keys move when a node goes, for any nodes,     *)
(* keys, hash function and patience.                                       *)
(***************************************************************************)
EXTENDS MCClusterNode, Sequences, Folding

-----------------------------------------------------------------------------
(* Node.Assign.                                                            *)

\* The inductive invariant: the members up to the rotation's position are one
\* item ahead of the rest.
Rotation ==
    /\ TypeOK
    /\ \E q \in Int : \A m \in Member : nodeLoad[m] = IF m <= rrIndex THEN q + 1 ELSE q

LEMMA NextIndex ==
    ASSUME NEW i \in Member
    PROVE  (i + 1) % Members = IF i = Members - 1 THEN 0 ELSE i + 1
BY MembersAssumption DEF Member

LEMMA RotationInductive == Rotation /\ [Next]_vars => Rotation'
<1> SUFFICES ASSUME Rotation, [Next]_vars PROVE Rotation'
  OBVIOUS
<1>1. PICK q \in Int : \A m \in Member : nodeLoad[m] = IF m <= rrIndex THEN q + 1 ELSE q
  BY DEF Rotation
<1>2. CASE Assign
  <2>1. rrIndex' = IF rrIndex = Members - 1 THEN 0 ELSE rrIndex + 1
    BY <1>2, NextIndex DEF Assign, Rotation, TypeOK
  <2>2. rrIndex' \in Member
    BY <2>1, MembersAssumption DEF Rotation, TypeOK, Member
  <2>3. TypeOK'
    BY <1>2, <2>2 DEF Assign, Rotation, TypeOK
  <2>4. CASE rrIndex = Members - 1
    <3>1. \A m \in Member : nodeLoad'[m] = IF m <= rrIndex' THEN (q + 1) + 1 ELSE q + 1
      BY <1>1, <1>2, <2>1, <2>2, <2>4, MembersAssumption DEF Assign, Rotation, TypeOK, Member
    <3> QED
      BY <2>3, <3>1 DEF Rotation
  <2>5. CASE rrIndex # Members - 1
    <3>1. \A m \in Member : nodeLoad'[m] = IF m <= rrIndex' THEN q + 1 ELSE q
      BY <1>1, <1>2, <2>1, <2>2, <2>5, MembersAssumption DEF Assign, Rotation, TypeOK, Member
    <3> QED
      BY <2>3, <3>1 DEF Rotation
  <2> QED
    BY <2>4, <2>5
<1>3. CASE ChangeRole
  BY <1>3 DEF ChangeRole, Rotation, TypeOK
<1>4. CASE UNCHANGED vars
  BY <1>4 DEF vars, Rotation, TypeOK
<1> QED
  BY <1>2, <1>3, <1>4 DEF Next

LEMMA InitialRotation == Init => Rotation
<1> SUFFICES ASSUME Init PROVE Rotation
  OBVIOUS
<1>1. TypeOK
  <2>1. Members - 1 \in Member
    BY MembersAssumption DEF Member
  <2> QED
    BY <2>1, Zenon DEF Init, TypeOK
<1> DEFINE q == -1
<1>2. q \in Int /\ \A m \in Member : nodeLoad[m] = IF m <= rrIndex THEN q + 1 ELSE q
  BY MembersAssumption DEF Init, Member
<1> HIDE DEF q
<1> QED
  BY <1>1, <1>2 DEF Rotation

\* Round-robin assignment stays balanced for every cluster size and every
\* sequence of assignments and changes of role.
THEOREM AssignBalanced == Spec => []Balanced
<1>1. Rotation => Balanced
  BY DEF Rotation, Balanced, TypeOK, Member
<1> QED
  BY <1>1, InitialRotation, RotationInductive, PTL DEF Spec

\* Every step of the rotation is a step of LeastLoaded or leaves the loads
\* alone, for every cluster size: the member after rrIndex is one of those
\* that are not ahead.
THEOREM RotationIsLeastLoaded == Spec => AssignsLeastLoaded
<1>1. Init => Rotation /\ Abstract!Init
  BY InitialRotation DEF Init, Abstract!Init
<1>2. Rotation /\ [Next]_vars => [Abstract!Next]_nodeLoad
  <2> SUFFICES ASSUME Rotation, Assign PROVE Abstract!Next
    BY DEF Next, ChangeRole, vars
  <2> DEFINE m == (rrIndex + 1) % Members
  <2>1. m = IF rrIndex = Members - 1 THEN 0 ELSE rrIndex + 1
    BY NextIndex DEF Rotation, TypeOK
  <2>2. m \in Member
    BY <2>1, MembersAssumption DEF Rotation, TypeOK, Member
  <2>3. PICK q \in Int : \A k \in Member : nodeLoad[k] = IF k <= rrIndex THEN q + 1 ELSE q
    BY DEF Rotation
  <2>4. \A other \in Member : nodeLoad[m] <= nodeLoad[other]
    BY <2>1, <2>2, <2>3, MembersAssumption DEF Rotation, TypeOK, Member
  <2>5. nodeLoad' = [nodeLoad EXCEPT ![m] = @ + 1]
    BY DEF Assign
  <2> QED
    BY <2>2, <2>4, <2>5, Zenon DEF Abstract!Next, Abstract!Assign
<1> QED
  BY <1>1, <1>2, RotationInductive, PTL DEF Spec, AssignsLeastLoaded, Abstract!Spec

-----------------------------------------------------------------------------
(* NodeManager and its ring.                                               *)

IsNode(r) == r = [state |-> r.state, silent |-> r.silent]

\* The inductive invariant: the ring, the tracked nodes and what OnChange was
\* told agree, and a suspect has been seen by a health check since it was last
\* heard of.
MembersInv ==
    /\ ringNodes = DOMAIN nodes
    /\ S!CallbackCurrent
    /\ \A n \in DOMAIN nodes :
          IsNode(nodes[n]) /\ (nodes[n].state = S!Suspect => n \in scanned)

LEMMA InitialMembers == S!Init => MembersInv
BY DEF S!Init, MembersInv, S!CallbackCurrent

LEMMA HeartbeatMembers ==
    ASSUME MembersInv, NEW n \in Node, S!Heartbeat(n)
    PROVE  MembersInv' /\ ringNodes \subseteq ringNodes'
<1>1. DOMAIN nodes' = DOMAIN nodes \cup {n} /\ scanned' = scanned \ {n}
  BY DEF S!Heartbeat, S!Heard
<1>2. ringNodes' = DOMAIN nodes' /\ S!CallbackCurrent' /\ ringNodes \subseteq ringNodes'
  BY <1>1 DEF S!Heartbeat, MembersInv, S!CallbackCurrent, S!AddNode, S!ring, S!notifyLocked
<1>3. ASSUME NEW m \in DOMAIN nodes'
      PROVE  IsNode(nodes'[m]) /\ (nodes'[m].state = S!Suspect => m \in scanned')
  <2>1. CASE m = n
    <3>1. nodes'[m] = S!Fresh
      BY <2>1 DEF S!Heartbeat
    <3> QED
      BY <3>1 DEF S!Fresh, IsNode, S!Healthy, S!Suspect
  <2>2. CASE m # n
    <3>1. nodes'[m] = nodes[m] /\ m \in DOMAIN nodes
      BY <1>1, <2>2, <1>3 DEF S!Heartbeat
    <3> QED
      BY <1>1, <2>2, <3>1 DEF MembersInv
  <2> QED
    BY <2>1, <2>2
<1> QED
  BY <1>2, <1>3 DEF MembersInv, IsNode

LEMMA LeaveMembers ==
    ASSUME MembersInv, NEW n \in Node, S!Leave(n)
    PROVE  MembersInv'
<1>1. DOMAIN nodes' = DOMAIN nodes \ {n} /\ scanned' = scanned \ {n}
      /\ \A m \in DOMAIN nodes' : nodes'[m] = nodes[m]
  BY DEF S!Leave, S!Heard
<1>2. ringNodes' = DOMAIN nodes' /\ S!CallbackCurrent'
  BY <1>1 DEF S!Leave, S!RemoveNodes, S!ring, MembersInv, S!CallbackCurrent, S!notifyLocked
<1> QED
  BY <1>1, <1>2 DEF MembersInv, IsNode

LEMMA CheckMembers ==
    ASSUME MembersInv, S!checkHealth
    PROVE  MembersInv' /\ ringNodes \ ringNodes' \subseteq scanned
<1> DEFINE gone == {n \in DOMAIN nodes : nodes[n].state = S!Suspect /\ nodes[n].silent >= DownAfter}
<1>1. gone \subseteq scanned
  BY DEF MembersInv
<1>2. /\ DOMAIN nodes' = DOMAIN nodes \ gone /\ ringNodes' = ringNodes \ gone
      /\ scanned' = DOMAIN nodes'
      /\ IF gone # {} THEN S!notifyLocked ELSE UNCHANGED notified
  BY DEF S!checkHealth, S!RemoveNodes, S!ring
<1>3. \A n \in DOMAIN nodes' :
         nodes'[n] = IF nodes[n].silent >= SuspectAfter THEN [nodes[n] EXCEPT !.state = S!Suspect] ELSE nodes[n]
  BY DEF S!checkHealth
<1> HIDE DEF gone
<1>4. ASSUME NEW n \in DOMAIN nodes' PROVE IsNode(nodes'[n])
  <2>1. nodes[n] = [state |-> nodes[n].state, silent |-> nodes[n].silent]
    BY <1>2 DEF MembersInv, IsNode
  <2>2. nodes'[n] = [state |-> S!Suspect, silent |-> nodes[n].silent] \/ nodes'[n] = nodes[n]
    BY <1>3, <2>1
  <2> QED
    BY <2>1, <2>2 DEF IsNode
<1>5. ringNodes' = DOMAIN nodes' /\ S!CallbackCurrent'
  BY <1>2 DEF MembersInv, S!CallbackCurrent, S!notifyLocked
<1> QED
  BY <1>1, <1>2, <1>4, <1>5 DEF MembersInv, IsNode

LEMMA TickMembers ==
    ASSUME MembersInv, S!Tick
    PROVE  MembersInv'
<1>1. DOMAIN nodes' = DOMAIN nodes /\ UNCHANGED <<ringNodes, notified, scanned>>
  BY DEF S!Tick, S!ring
<1>2. ASSUME NEW n \in DOMAIN nodes PROVE IsNode(nodes'[n]) /\ nodes'[n].state = nodes[n].state
  <2>1. nodes[n] = [state |-> nodes[n].state, silent |-> nodes[n].silent]
    BY DEF MembersInv, IsNode
  <2>2. nodes'[n] = [nodes[n] EXCEPT !.silent = S!Min({@ + 1, S!Patience})]
    BY DEF S!Tick
  <2>3. nodes'[n] = [state |-> nodes[n].state, silent |-> S!Min({nodes[n].silent + 1, S!Patience})]
    BY <2>1, <2>2
  <2> QED
    BY <2>3 DEF IsNode
<1> QED
  BY <1>1, <1>2 DEF MembersInv, S!CallbackCurrent, IsNode

\* One step of the manager or of the world around it.
LEMMA StepMembers ==
    ASSUME MembersInv, [S!Next]_(S!vars)
    PROVE  MembersInv' /\ (alive' = alive => ringNodes \ ringNodes' \subseteq scanned)
<1>1. ASSUME NEW n \in Node, S!Join(n) \/ S!Receive(n) PROVE MembersInv' /\ ringNodes \subseteq ringNodes'
  BY <1>1, HeartbeatMembers DEF S!Join, S!Receive
<1>2. ASSUME NEW n \in Node, S!Leave(n) PROVE MembersInv' /\ alive' # alive
  BY <1>2, LeaveMembers DEF S!Leave
<1>3. CASE S!checkHealth
  BY <1>3, CheckMembers
<1>4. CASE S!Tick
  BY <1>4, TickMembers DEF S!Tick, S!ring
<1>5. ASSUME UNCHANGED <<ringNodes, nodes, notified, scanned>> PROVE MembersInv'
  BY <1>5 DEF MembersInv, S!CallbackCurrent, IsNode
<1>6. ASSUME NEW n \in Node, S!Beat(n) \/ S!Crash(n) PROVE UNCHANGED <<ringNodes, nodes, notified, scanned>>
  BY <1>6 DEF S!Beat, S!Crash, S!ring
<1>7. ASSUME S!Start \/ S!Stop \/ UNCHANGED S!vars PROVE UNCHANGED <<ringNodes, nodes, notified, scanned>>
  BY <1>7 DEF S!Start, S!Stop, S!ring, S!vars
<1> QED
  BY <1>1, <1>2, <1>3, <1>4, <1>5, <1>6, <1>7 DEF S!Next

\* NodeManager tells OnChange of every change of the ring's members and of no
\* other state (node_manager.go, notifyLocked after each change).
THEOREM CallbackFollowsRing == S!Spec => []CallbackCurrent
<1>1. MembersInv /\ [S!Next]_(S!vars) => MembersInv'
  BY StepMembers
<1>2. MembersInv => CallbackCurrent
  BY DEF MembersInv, CallbackCurrent
<1> QED
  BY <1>1, <1>2, InitialMembers, PTL DEF S!Spec

\* checkHealth never takes a node off the ring that no health check had found
\* silent before (node_manager.go, checkHealth).
THEOREM ExpelledAfterTwoScans == S!Spec => TwoScansToExpel
<1>1. MembersInv /\ [S!Next]_(S!vars) => MembersInv'
  BY StepMembers
<1>2. MembersInv /\ [S!Next]_(S!vars) => [alive' = alive => ringNodes \ ringNodes' \subseteq scanned]_(S!vars)
  BY StepMembers
<1> QED
  BY <1>1, <1>2, InitialMembers, PTL DEF S!Spec, TwoScansToExpel, S!TwoScansToExpel

-----------------------------------------------------------------------------

\* The members of a finite set take the places 1 .. n, in the order of their keys.
Below(K, f, j) == {k \in K : f[k] < f[j]}

LEMMA MoreBelow ==
  ASSUME NEW K, IsFiniteSet(K), NEW f \in [K -> Int], NEW j \in K, NEW k \in K, f[j] < f[k]
  PROVE  /\ Cardinality(Below(K, f, j)) \in Nat /\ Cardinality(Below(K, f, k)) \in Nat
         /\ Cardinality(Below(K, f, j)) < Cardinality(Below(K, f, k))
<1>1. /\ Below(K, f, k) \in SUBSET K /\ Below(K, f, j) \in SUBSET Below(K, f, k)
      /\ j \in Below(K, f, k) /\ j \notin Below(K, f, j)
  BY DEF Below
<1>2. IsFiniteSet(Below(K, f, k))
  BY <1>1, FS_Subset
<1>3. /\ IsFiniteSet(Below(K, f, j)) /\ Cardinality(Below(K, f, j)) <= Cardinality(Below(K, f, k))
      /\ Cardinality(Below(K, f, j)) # Cardinality(Below(K, f, k))
  BY <1>1, <1>2, FS_Subset
<1>4. Cardinality(Below(K, f, j)) \in Nat /\ Cardinality(Below(K, f, k)) \in Nat
  BY <1>2, <1>3, FS_CardinalityType
<1> QED BY <1>3, <1>4

LEMMA FewerThanAll ==
  ASSUME NEW K, IsFiniteSet(K), NEW f \in [K -> Int], NEW j \in K
  PROVE  Cardinality(Below(K, f, j)) \in 0 .. Cardinality(K) - 1
<1>1. Below(K, f, j) \in SUBSET K /\ j \notin Below(K, f, j)
  BY DEF Below
<1>2. /\ IsFiniteSet(Below(K, f, j)) /\ Cardinality(Below(K, f, j)) <= Cardinality(K)
      /\ Cardinality(Below(K, f, j)) # Cardinality(K)
  BY <1>1, FS_Subset
<1>3. Cardinality(Below(K, f, j)) \in Nat /\ Cardinality(K) \in Nat
  BY <1>2, FS_CardinalityType
<1> QED BY <1>2, <1>3

LEMMA EveryPlace ==
  ASSUME NEW K, IsFiniteSet(K), NEW f \in [K -> Int], \A j, k \in K : f[j] = f[k] => j = k,
         NEW i \in 1 .. Cardinality(K)
  PROVE  \E j \in K : Cardinality(Below(K, f, j)) = i - 1
<1> DEFINE n == Cardinality(K)
           place == [j \in K |-> Cardinality(Below(K, f, j)) + 1]
<1>1. n \in Nat /\ IsFiniteSet(1 .. n) /\ Cardinality(1 .. n) = n
  BY FS_CardinalityType, FS_Interval
<1>2. \A j \in K : place[j] \in 1 .. n
  <2> SUFFICES ASSUME NEW j \in K PROVE place[j] \in 1 .. n
    OBVIOUS
  <2>1. Cardinality(Below(K, f, j)) \in 0 .. n - 1
    BY FewerThanAll
  <2> QED BY <1>1, <2>1
<1>3. \A j, k \in K : place[j] = place[k] => j = k
  <2> SUFFICES ASSUME NEW j \in K, NEW k \in K, j # k PROVE place[j] # place[k]
    OBVIOUS
  <2>1. f[j] < f[k] \/ f[k] < f[j]
    OBVIOUS
  <2>2. CASE f[j] < f[k]
    BY <2>2, MoreBelow
  <2>3. CASE f[k] < f[j]
    BY <2>3, MoreBelow
  <2> QED BY <2>1, <2>2, <2>3
<1>4. place \in Injection(K, 1 .. n)
  <2>1. place \in [K -> 1 .. n]
    BY <1>2
  <2> HIDE DEF place
  <2> QED BY <1>3, <2>1 DEF Injection, IsInjective
<1>5. place \in Surjection(K, 1 .. n)
  BY <1>1, <1>4, FS_Injection
<1>6. PICK j \in K : place[j] = i
  BY <1>5, Zenon DEF Surjection
<1>7. Cardinality(Below(K, f, j)) \in Int /\ Cardinality(Below(K, f, j)) + 1 = i
  BY <1>6, FewerThanAll
<1> QED BY <1>7

\* The cardinality that the ring's module uses is that of finite sets.
LEMMA SameCardinality == \A T : S!Cardinality(T) = Cardinality(T)
BY Zenon DEF Cardinality, S!Cardinality

\* The places follow the keys, and everybody has one.
Keyed(K, f) == IsFiniteSet(K) /\ f \in [K -> Int] /\ \A j, k \in K : f[j] = f[k] => j = k
Places(K, f, at) ==
  /\ at \in [1 .. Cardinality(K) -> K]
  /\ \A i \in 1 .. Cardinality(K) : Cardinality(Below(K, f, at[i])) = i - 1
InOrder(K, f, at) ==
  /\ \A i, j \in 1 .. Cardinality(K) : i < j => f[at[i]] < f[at[j]]
  /\ \A k \in K : \E i \in 1 .. Cardinality(K) : at[i] = k

LEMMA InPlace == ASSUME NEW K, NEW f, NEW at, Keyed(K, f), Places(K, f, at) PROVE InOrder(K, f, at)
<1> USE DEF Keyed, Places
<1> DEFINE n == Cardinality(K)
<1>1. n \in Nat
  BY FS_CardinalityType
<1>2. \A i \in 1 .. n : at[i] \in K /\ Cardinality(Below(K, f, at[i])) = i - 1
  OBVIOUS
<1>4. ASSUME NEW j \in K, NEW k \in K, Cardinality(Below(K, f, j)) = Cardinality(Below(K, f, k)) PROVE j = k
  <2>1. f[j] = f[k] \/ f[j] < f[k] \/ f[k] < f[j]
    OBVIOUS
  <2>2. ~(f[j] < f[k])
    BY <1>4, MoreBelow
  <2>3. ~(f[k] < f[j])
    BY <1>4, MoreBelow
  <2> QED BY <2>1, <2>2, <2>3
<1>5. ASSUME NEW i \in 1 .. n, NEW j \in 1 .. n, i < j PROVE f[at[i]] < f[at[j]]
  <2>1. /\ at[i] \in K /\ at[j] \in K
        /\ Cardinality(Below(K, f, at[i])) = i - 1 /\ Cardinality(Below(K, f, at[j])) = j - 1
    BY <1>2
  <2>2. at[i] # at[j]
    BY <1>5, <2>1
  <2>3. ~(f[at[j]] < f[at[i]])
    BY <1>5, <2>1, MoreBelow
  <2>4. f[at[i]] \in Int /\ f[at[j]] \in Int /\ f[at[i]] # f[at[j]]
    BY <2>1, <2>2
  <2> QED BY <2>3, <2>4
<1>6. ASSUME NEW k \in K PROVE \E i \in 1 .. n : at[i] = k
  <2> DEFINE i == Cardinality(Below(K, f, k)) + 1
  <2>1. Cardinality(Below(K, f, k)) \in 0 .. n - 1
    BY FewerThanAll
  <2>2. i \in 1 .. n /\ Cardinality(Below(K, f, k)) = i - 1
    BY <1>1, <2>1
  <2>3. at[i] \in K /\ Cardinality(Below(K, f, at[i])) = Cardinality(Below(K, f, k))
    BY <1>2, <2>2
  <2>4. at[i] = k
    BY <1>4, <2>3
  <2> QED BY <2>2, <2>4
<1> QED BY <1>5, <1>6 DEF InOrder

VirtualNode == [hash : Int, nodeID : Node]

Points(vs) == vs \in Seq(VirtualNode)
Increasing(vs) == \A i, j \in DOMAIN vs : i < j => vs[i].hash < vs[j].hash
Apart(vs) == \A i, j \in DOMAIN vs : vs[i].hash = vs[j].hash => i = j

\* The points of t are those of vs at the places in K.
Selects(t, vs, K) ==
  /\ \A i \in DOMAIN t : \E j \in K : t[i] = vs[j]
  /\ \A j \in K : \E i \in DOMAIN t : t[i] = vs[j]

LEMMA PointsDomain ==
  ASSUME NEW vs, Points(vs)
  PROVE  /\ Len(vs) \in Nat /\ DOMAIN vs = 1 .. Len(vs)
         /\ IsFiniteSet(DOMAIN vs) /\ Cardinality(DOMAIN vs) = Len(vs)
         /\ \A k \in DOMAIN vs : vs[k] \in VirtualNode /\ vs[k].hash \in Int
<1>1. Len(vs) \in Nat /\ DOMAIN vs = 1 .. Len(vs) /\ \A k \in DOMAIN vs : vs[k] \in VirtualNode
  BY DEF Points
<1>2. ASSUME NEW k \in DOMAIN vs PROVE vs[k].hash \in Int
  <2>1. vs[k] \in VirtualNode
    BY <1>1, Zenon
  <2> QED BY <2>1 DEF VirtualNode
<1>3. PICK n \in Nat : n = Len(vs)
  BY <1>1, Zenon
<1>4. IsFiniteSet(1 .. n) /\ Cardinality(1 .. n) = n
  BY FS_Interval
<1>5. DOMAIN vs = 1 .. n
  BY <1>1, <1>3
<1>6. IsFiniteSet(DOMAIN vs) /\ Cardinality(DOMAIN vs) = n
  BY <1>4, <1>5, Zenon
<1> QED BY <1>1, <1>2, <1>3, <1>6

LEMMA PointsOf == ASSUME NEW n \in Nat, NEW t \in [1 .. n -> VirtualNode] PROVE Points(t)
BY DEF Points

\* What takes the i-th place among the keys, for every i, puts the members of K
\* in the order of their keys.
Takes(K, f, at) ==
  /\ at = [i \in 1 .. Cardinality(K) |-> at[i]]
  /\ \A i \in 1 .. Cardinality(K) :
       (\E j \in K : Cardinality(Below(K, f, j)) = i - 1)
         => at[i] \in K /\ Cardinality(Below(K, f, at[i])) = i - 1

LEMMA PlacesTaken == ASSUME NEW K, NEW f, NEW at, Keyed(K, f), Takes(K, f, at) PROVE Places(K, f, at)
<1>1. ASSUME NEW i \in 1 .. Cardinality(K)
      PROVE  at[i] \in K /\ Cardinality(Below(K, f, at[i])) = i - 1
  <2>1. \E j \in K : Cardinality(Below(K, f, j)) = i - 1
    BY EveryPlace DEF Keyed
  <2> QED BY <2>1, Zenon DEF Takes
<1>2. at = [i \in 1 .. Cardinality(K) |-> at[i]]
  BY DEF Takes
<1> QED BY <1>1, <1>2 DEF Places

\* sort.Slice gives the same points in the order of their hashes.
LEMMA Sorted ==
  ASSUME NEW vs, Points(vs), Apart(vs)
  PROVE  Points(S!sorted(vs)) /\ Increasing(S!sorted(vs)) /\ Selects(S!sorted(vs), vs, DOMAIN vs)
<1> DEFINE K == DOMAIN vs
           Behind(j) == S!Cardinality({k \in K : vs[k].hash < vs[j].hash})
           first(i) == CHOOSE j \in K : Behind(j) = i - 1
<1>1. PICK n \in Nat : n = Len(vs) /\ K = 1 .. n /\ IsFiniteSet(K) /\ Cardinality(K) = n
  BY PointsDomain
<1>2. \A k \in K : vs[k] \in VirtualNode /\ vs[k].hash \in Int
  BY PointsDomain
<1>3. S!sorted(vs) = [i \in K |-> vs[first(i)]]
  BY Zenon DEF S!sorted
<1>4. PICK s : s = S!sorted(vs)
  BY Zenon
<1>5. PICK f : f = [k \in K |-> vs[k].hash]
  BY Zenon
<1>6. PICK at : at = [i \in 1 .. n |-> first(i)]
  BY Zenon
<1>7. \A i : (\E j \in K : Behind(j) = i - 1) => first(i) \in K /\ Behind(first(i)) = i - 1
  <2> HIDE DEF K, Behind
  <2> QED BY Zenon
<1>8. \A j \in K : Behind(j) = Cardinality({k \in K : vs[k].hash < vs[j].hash})
  BY SameCardinality
<1> HIDE DEF K
<1>9. f \in [K -> Int] /\ \A k \in K : f[k] = vs[k].hash
  BY <1>2, <1>5
<1>10. Keyed(K, f)
  BY <1>1, <1>9 DEF Keyed, Apart, K
<1>11. \A j \in K : {k \in K : vs[k].hash < vs[j].hash} = Below(K, f, j)
  BY <1>9 DEF Below
<1>12. \A j \in K : Behind(j) = Cardinality(Below(K, f, j))
  BY <1>8, <1>11, Zenon
<1> HIDE DEF Behind, first
<1>13. Takes(K, f, at)
  BY <1>1, <1>6, <1>7, <1>12 DEF Takes
<1>14. Places(K, f, at) /\ InOrder(K, f, at)
  BY <1>10, <1>13, PlacesTaken, InPlace
<1>15. s = [i \in 1 .. n |-> vs[at[i]]] /\ \A i \in 1 .. n : at[i] \in K
  <2>1. s = [i \in 1 .. n |-> vs[first(i)]]
    BY <1>1, <1>3, <1>4, Zenon
  <2>2. \A i \in 1 .. n : at[i] \in K /\ at[i] = first(i)
    BY <1>1, <1>6, <1>14 DEF Places
  <2> QED BY <2>1, <2>2, Zenon
<1>16. DOMAIN s = 1 .. n /\ \A i \in 1 .. n : s[i] = vs[at[i]] /\ s[i].hash = f[at[i]] /\ s[i] \in VirtualNode
  BY <1>2, <1>9, <1>15
<1>17. Points(s)
  BY <1>15, <1>16, PointsOf
<1>18. Increasing(s)
  BY <1>1, <1>14, <1>16 DEF Increasing, InOrder
<1>19. Selects(s, vs, K)
  <2>1. \A k \in K : \E i \in 1 .. n : at[i] = k
    BY <1>1, <1>14 DEF InOrder
  <2>2. \A i \in 1 .. n : s[i] = vs[at[i]] /\ at[i] \in K
    BY <1>15, <1>16, Zenon
  <2>3. DOMAIN s = 1 .. n
    BY <1>16
  <2>4. \A i \in DOMAIN s : \E j \in K : s[i] = vs[j]
    BY <2>2, <2>3
  <2>5. ASSUME NEW j \in K PROVE \E i \in DOMAIN s : s[i] = vs[j]
    <3>1. PICK i \in 1 .. n : at[i] = j
      BY <2>1
    <3> QED BY <2>2, <2>3, <3>1
  <2> QED BY <2>4, <2>5 DEF Selects
<1> QED BY <1>4, <1>17, <1>18, <1>19 DEF K

\* The filter of removeNodeLocked keeps the order, and exactly the other points.
LEMMA Filtered ==
  ASSUME NEW vs, Points(vs), Increasing(vs), NEW gone
  PROVE  LET t == S!removeNodeLocked(vs, gone)
         IN  Points(t) /\ Increasing(t) /\ Selects(t, vs, {j \in DOMAIN vs : vs[j].nodeID \notin gone})
<1> DEFINE K == {j \in DOMAIN vs : vs[j].nodeID \notin gone}
           Behind(j) == S!Cardinality({k \in K : k < j})
           first(i) == CHOOSE j \in K : Behind(j) = i - 1
<1>1. IsFiniteSet(DOMAIN vs) /\ K \in SUBSET DOMAIN vs /\ \A k \in K : k \in Int /\ vs[k] \in VirtualNode /\ vs[k].hash \in Int
  BY PointsDomain
<1>2. S!removeNodeLocked(vs, gone) = [i \in 1 .. S!Cardinality(K) |-> vs[first(i)]]
  BY Zenon DEF S!removeNodeLocked
<1>3. PICK t : t = S!removeNodeLocked(vs, gone)
  BY Zenon
<1> HIDE DEF K
<1>4. IsFiniteSet(K) /\ Cardinality(K) \in Nat
  BY <1>1, FS_Subset, FS_CardinalityType
<1>5. PICK n \in Nat : n = Cardinality(K)
  BY <1>4
<1>6. PICK f : f = [k \in K |-> k]
  BY Zenon
<1>7. PICK at : at = [i \in 1 .. n |-> first(i)]
  BY Zenon
<1>8. \A i : (\E j \in K : Behind(j) = i - 1) => first(i) \in K /\ Behind(first(i)) = i - 1
  <2> HIDE DEF Behind
  <2> QED BY Zenon
<1>9. \A j \in K : Behind(j) = Cardinality({k \in K : k < j})
  BY SameCardinality
<1>10. f \in [K -> Int] /\ \A k \in K : f[k] = k
  BY <1>1, <1>6
<1>11. Keyed(K, f)
  BY <1>4, <1>10 DEF Keyed
<1>12. \A j \in K : {k \in K : k < j} = Below(K, f, j)
  BY <1>10 DEF Below
<1>13. \A j \in K : Behind(j) = Cardinality(Below(K, f, j))
  BY <1>9, <1>12, Zenon
<1> HIDE DEF Behind, first
<1>14. Takes(K, f, at)
  BY <1>5, <1>7, <1>8, <1>13 DEF Takes
<1>15. Places(K, f, at) /\ InOrder(K, f, at)
  BY <1>11, <1>14, PlacesTaken, InPlace
<1>16. t = [i \in 1 .. n |-> vs[at[i]]] /\ \A i \in 1 .. n : at[i] \in K
  <2>1. S!Cardinality(K) = n
    BY <1>5, SameCardinality
  <2>2. t = [i \in 1 .. n |-> vs[first(i)]]
    BY <1>2, <1>3, <2>1, Zenon
  <2>3. \A i \in 1 .. n : at[i] \in K /\ at[i] = first(i)
    BY <1>5, <1>7, <1>15 DEF Places
  <2> QED BY <2>2, <2>3, Zenon
<1>17. DOMAIN t = 1 .. n /\ \A i \in 1 .. n : t[i] = vs[at[i]] /\ t[i] \in VirtualNode
  BY <1>1, <1>16
<1>18. Points(t)
  BY <1>16, <1>17, PointsOf
<1>19. \A i, j \in 1 .. n : i < j => at[i] < at[j]
  BY <1>5, <1>10, <1>15, <1>16 DEF InOrder
<1>20. Increasing(t)
  BY <1>1, <1>16, <1>17, <1>19 DEF Increasing
<1>21. Selects(t, vs, K)
  <2>1. \A k \in K : \E i \in 1 .. n : at[i] = k
    BY <1>5, <1>15 DEF InOrder
  <2>2. \A i \in 1 .. n : t[i] = vs[at[i]] /\ at[i] \in K
    BY <1>16, <1>17, Zenon
  <2>3. DOMAIN t = 1 .. n
    BY <1>17
  <2>4. \A i \in DOMAIN t : \E j \in K : t[i] = vs[j]
    BY <2>2, <2>3
  <2>5. ASSUME NEW j \in K PROVE \E i \in DOMAIN t : t[i] = vs[j]
    <3>1. PICK i \in 1 .. n : at[i] = j
      BY <2>1
    <3> QED BY <2>2, <2>3, <3>1
  <2> QED BY <2>4, <2>5 DEF Selects
<1> QED BY <1>3, <1>18, <1>20, <1>21 DEF K

\* The point of a node's i-th virtual node.
PointAt(n, i) == [hash |-> Hash[<<n, i>>], nodeID |-> n]

\* What xxhash is taken to give: no two virtual nodes the same point.
HashOK ==
  /\ VNodesPerNode \in Nat
  /\ \A n \in Node, i \in S!Replica : Hash[<<n, i>>] \in Int
  /\ \A n, m \in Node, i, j \in S!Replica : Hash[<<n, i>>] = Hash[<<m, j>>] => n = m /\ i = j

LEMMA PointsApart ==
  ASSUME HashOK
  PROVE  /\ \A n \in Node, i \in S!Replica : PointAt(n, i) \in VirtualNode
         /\ \A n, m \in Node, i, j \in S!Replica : PointAt(n, i).hash = PointAt(m, j).hash => n = m /\ i = j
BY DEF HashOK, PointAt, VirtualNode

LEMMA PointOwner == \A n, i : PointAt(n, i).nodeID = n
BY DEF PointAt

\* The points on the ring are those of its members, all of them, in order.
Holds(vs, members) ==
  /\ members \subseteq Node
  /\ Points(vs) /\ Increasing(vs)
  /\ \A j \in DOMAIN vs : \E n \in members, i \in S!Replica : vs[j] = PointAt(n, i)
  /\ \A n \in members, i \in S!Replica : \E j \in DOMAIN vs : vs[j] = PointAt(n, i)

RingInv == Holds(virtuals, ringNodes)

LEMMA RingKept == ASSUME RingInv, UNCHANGED S!ring PROVE RingInv'
<1>1. virtuals' = virtuals /\ ringNodes' = ringNodes
  BY DEF S!ring
<1> QED BY <1>1 DEF RingInv

AllOnce(vs, members) ==
  /\ Points(vs) /\ Apart(vs)
  /\ \A j \in DOMAIN vs : \E m \in members, i \in S!Replica : vs[j] = PointAt(m, i)
  /\ \A m \in members, i \in S!Replica : \E j \in DOMAIN vs : vs[j] = PointAt(m, i)

\* addNodeLocked: the node's points behind the others, each once.
LEMMA Appended ==
  ASSUME HashOK, RingInv, NEW n \in Node, n \notin ringNodes,
         NEW vs, vs = virtuals \o S!points(n)
  PROVE  AllOnce(vs, ringNodes \cup {n})
<1> DEFINE len == Len(virtuals)
           p == S!points(n)
<1>a. Points(virtuals)
  BY DEF RingInv, Holds
<1>1. /\ len \in Nat /\ DOMAIN virtuals = 1 .. len
      /\ \A j \in 1 .. len : virtuals[j] \in VirtualNode /\ virtuals[j].hash \in Int
  BY <1>a, PointsDomain
<1>2. VNodesPerNode \in Nat /\ \A i \in 1 .. VNodesPerNode : i - 1 \in S!Replica
  BY DEF HashOK, S!Replica
<1>3. p \in [1 .. VNodesPerNode -> VirtualNode] /\ \A i \in 1 .. VNodesPerNode : p[i] = PointAt(n, i - 1)
  <2>1. p = [i \in 1 .. VNodesPerNode |-> PointAt(n, i - 1)]
    BY DEF S!points, PointAt
  <2> HIDE DEF p
  <2> QED BY <1>2, <2>1, PointsApart
<1> HIDE DEF p
<1>4. Points(p) /\ Len(p) = VNodesPerNode
  <2>1. Points(p)
    BY <1>2, <1>3, PointsOf
  <2> QED BY <1>2, <1>3, <2>1 DEF Points
<1>5. vs = virtuals \o p
  BY DEF p
<1>6. Points(vs) /\ DOMAIN vs = 1 .. (len + VNodesPerNode)
  BY <1>a, <1>4, <1>5 DEF Points
<1>7. \A j \in 1 .. len : vs[j] = virtuals[j]
  BY <1>a, <1>4, <1>5 DEF Points
<1>8. \A i \in 1 .. VNodesPerNode : vs[len + i] = PointAt(n, i - 1)
  <2>1. \A i \in 1 .. VNodesPerNode : vs[len + i] = p[i]
    BY <1>a, <1>4, <1>5 DEF Points
  <2> QED BY <1>3, <2>1, Zenon
<1> HIDE DEF len
<1>9. ASSUME NEW j \in DOMAIN vs, j \notin 1 .. len
      PROVE  \E i \in S!Replica : j = len + i + 1 /\ vs[j] = PointAt(n, i)
  <2>1. j - len \in 1 .. VNodesPerNode /\ j = len + (j - len)
    BY <1>1, <1>2, <1>6, <1>9
  <2>2. vs[j] = PointAt(n, (j - len) - 1) /\ (j - len) - 1 \in S!Replica
    BY <1>2, <1>8, <2>1
  <2>3. j = len + ((j - len) - 1) + 1
    BY <1>1, <1>6
  <2> QED BY <2>2, <2>3
<1>10. ASSUME NEW j \in 1 .. len PROVE \E m \in ringNodes, i \in S!Replica : vs[j] = PointAt(m, i)
  <2>1. PICK m \in ringNodes, i \in S!Replica : virtuals[j] = PointAt(m, i)
    BY <1>1, Zenon DEF RingInv, Holds
  <2>2. vs[j] = virtuals[j]
    BY <1>7, Zenon
  <2> QED BY <2>1, <2>2
<1>11. ASSUME NEW j \in DOMAIN vs PROVE \E m \in ringNodes \cup {n}, i \in S!Replica : vs[j] = PointAt(m, i)
  <2>1. CASE j \in 1 .. len
    BY <1>10, <2>1
  <2>2. CASE j \notin 1 .. len
    BY <1>9, <2>2
  <2> QED BY <2>1, <2>2
<1>12. ASSUME NEW m \in ringNodes \cup {n}, NEW i \in S!Replica
       PROVE  \E j \in DOMAIN vs : vs[j] = PointAt(m, i)
  <2>1. CASE m \in ringNodes
    <3>1. PICK j \in DOMAIN virtuals : virtuals[j] = PointAt(m, i)
      BY <2>1 DEF RingInv, Holds
    <3>2. j \in 1 .. len /\ j \in DOMAIN vs
      BY <1>1, <1>2, <1>6
    <3> QED BY <1>7, <3>1, <3>2
  <2>2. CASE m = n
    <3>1. i + 1 \in 1 .. VNodesPerNode /\ (i + 1) - 1 = i
      BY <1>2 DEF S!Replica
    <3>2. vs[len + (i + 1)] = PointAt(n, i)
      <4>1. vs[len + (i + 1)] = PointAt(n, (i + 1) - 1)
        BY <1>8, <3>1, Zenon
      <4> QED BY <3>1, <4>1, Zenon
    <3>3. len + (i + 1) \in DOMAIN vs
      BY <1>1, <1>2, <1>6, <3>1
    <3> QED BY <2>2, <3>2, <3>3
  <2> QED BY <2>1, <2>2
<1>13. ASSUME NEW j \in DOMAIN vs, NEW k \in DOMAIN vs, vs[j].hash = vs[k].hash PROVE j = k
  <2>1. CASE j \in 1 .. len /\ k \in 1 .. len
    <3>1. virtuals[j].hash = virtuals[k].hash /\ virtuals[j].hash \in Int /\ virtuals[k].hash \in Int
      BY <1>1, <1>7, <1>13, <2>1
    <3>2. Increasing(virtuals)
      BY DEF RingInv, Holds
    <3>3. ~ (j < k) /\ ~ (k < j)
      BY <1>1, <2>1, <3>1, <3>2 DEF Increasing
    <3> QED BY <1>1, <2>1, <3>3
  <2>2. CASE j \notin 1 .. len /\ k \notin 1 .. len
    <3>1. PICK a \in S!Replica : j = len + a + 1 /\ vs[j] = PointAt(n, a)
      BY <1>9, <2>2
    <3>2. PICK b \in S!Replica : k = len + b + 1 /\ vs[k] = PointAt(n, b)
      BY <1>9, <2>2
    <3>3. a = b
      BY <1>13, <3>1, <3>2, PointsApart
    <3> QED BY <3>1, <3>2, <3>3
  <2>3. ASSUME NEW a \in DOMAIN vs, NEW b \in DOMAIN vs, vs[a].hash = vs[b].hash, a \in 1 .. len, b \notin 1 .. len
        PROVE  FALSE
    <3>1. PICK m \in ringNodes, i \in S!Replica : vs[a] = PointAt(m, i)
      BY <1>10, <2>3
    <3>2. PICK c \in S!Replica : vs[b] = PointAt(n, c)
      BY <1>9, <2>3
    <3>3. m \in Node
      BY DEF RingInv, Holds
    <3>4. m = n
      BY <2>3, <3>1, <3>2, <3>3, PointsApart
    <3> QED BY <3>4
  <2> QED BY <1>13, <2>1, <2>2, <2>3
<1>14. Apart(vs)
  BY <1>13 DEF Apart
<1> QED BY <1>6, <1>11, <1>12, <1>14, Zenon DEF AllOnce

LEMMA AddStep == ASSUME HashOK, RingInv, NEW n \in Node, S!AddNode(n) PROVE RingInv'
<1>1. CASE n \in ringNodes
  BY <1>1, RingKept DEF S!AddNode
<1>2. CASE n \notin ringNodes
  <2>1. PICK vs : vs = virtuals \o S!points(n) /\ virtuals' = S!sorted(vs) /\ ringNodes' = ringNodes \cup {n}
    BY <1>2, Zenon DEF S!AddNode
  <2>2. AllOnce(vs, ringNodes \cup {n})
    BY <1>2, <2>1, Appended, Zenon
  <2>3. PICK t : t = S!sorted(vs)
    BY Zenon
  <2>4. Points(t) /\ Increasing(t) /\ Selects(t, vs, DOMAIN vs)
    BY <2>2, <2>3, Sorted DEF AllOnce
  <2>5. virtuals' = t /\ ringNodes' = ringNodes \cup {n}
    BY <2>1, <2>3
  <2>6. ASSUME NEW k \in DOMAIN t PROVE \E m \in ringNodes', i \in S!Replica : t[k] = PointAt(m, i)
    <3>1. PICK j \in DOMAIN vs : t[k] = vs[j]
      BY <2>4, Zenon DEF Selects
    <3>2. PICK m \in ringNodes \cup {n}, i \in S!Replica : vs[j] = PointAt(m, i)
      BY <2>2 DEF AllOnce
    <3> QED BY <2>5, <3>1, <3>2, Zenon
  <2>7. ASSUME NEW m \in ringNodes', NEW i \in S!Replica PROVE \E k \in DOMAIN t : t[k] = PointAt(m, i)
    <3>1. PICK j \in DOMAIN vs : vs[j] = PointAt(m, i)
      BY <2>2, <2>5 DEF AllOnce
    <3>2. PICK k \in DOMAIN t : t[k] = vs[j]
      BY <2>4, Zenon DEF Selects
    <3> QED BY <3>1, <3>2, Zenon
  <2>8. ringNodes' \subseteq Node
    BY <2>5 DEF RingInv, Holds
  <2>9. Holds(t, ringNodes')
    BY <2>4, <2>6, <2>7, <2>8 DEF Holds
  <2> QED BY <2>5, <2>9 DEF RingInv
<1> QED BY <1>1, <1>2

LEMMA RemoveStep == ASSUME RingInv, NEW gone, S!RemoveNodes(gone) PROVE RingInv'
<1>1. CASE gone \cap ringNodes = {}
  BY <1>1, RingKept DEF S!RemoveNodes
<1>2. CASE gone \cap ringNodes # {}
  <2>1. PICK t : t = S!removeNodeLocked(virtuals, gone)
    OBVIOUS
  <2>2. ringNodes' = ringNodes \ gone /\ virtuals' = t
    BY <1>2, <2>1 DEF S!RemoveNodes
  <2>a. Points(virtuals) /\ Increasing(virtuals)
    BY DEF RingInv, Holds
  <2>b. Points(t) /\ Increasing(t) /\ Selects(t, virtuals, {j \in DOMAIN virtuals : virtuals[j].nodeID \notin gone})
    BY <2>a, <2>1, Filtered
  <2>3. /\ \A i \in DOMAIN t : \E j \in DOMAIN virtuals : t[i] = virtuals[j] /\ virtuals[j].nodeID \notin gone
        /\ \A j \in DOMAIN virtuals : virtuals[j].nodeID \notin gone => \E i \in DOMAIN t : t[i] = virtuals[j]
    BY <2>b DEF Selects
  <2>4. ASSUME NEW k \in DOMAIN t PROVE \E m \in ringNodes', i \in S!Replica : t[k] = PointAt(m, i)
    <3>1. PICK j \in DOMAIN virtuals : t[k] = virtuals[j] /\ virtuals[j].nodeID \notin gone
      BY <2>3
    <3>2. PICK m \in ringNodes, i \in S!Replica : virtuals[j] = PointAt(m, i)
      BY DEF RingInv, Holds
    <3>3. m \in ringNodes'
      BY <2>2, <3>1, <3>2, PointOwner
    <3> QED BY <3>1, <3>2, <3>3, Zenon
  <2>5. ASSUME NEW m \in ringNodes', NEW i \in S!Replica PROVE \E j \in DOMAIN t : t[j] = PointAt(m, i)
    <3>1. PICK j \in DOMAIN virtuals : virtuals[j] = PointAt(m, i)
      BY <2>2 DEF RingInv, Holds
    <3>2. virtuals[j].nodeID \notin gone
      BY <2>2, <3>1, PointOwner
    <3> QED BY <2>3, <3>1, <3>2, Zenon
  <2>6. ringNodes' \subseteq Node
    BY <2>2 DEF RingInv, Holds
  <2>7. Holds(t, ringNodes')
    BY <2>b, <2>4, <2>5, <2>6 DEF Holds
  <2> QED BY <2>2, <2>7 DEF RingInv
<1> QED BY <1>1, <1>2

LEMMA StepRing == ASSUME HashOK, RingInv, [S!Next]_(S!vars) PROVE RingInv'
<1>1. ASSUME NEW n \in Node, S!Heartbeat(n) PROVE RingInv'
  <2>1. UNCHANGED S!ring \/ S!AddNode(n)
    BY <1>1 DEF S!Heartbeat
  <2> QED BY <2>1, RingKept, AddStep
<1>2. ASSUME NEW n \in Node, S!Join(n) \/ S!Receive(n) PROVE RingInv'
  BY <1>1, <1>2 DEF S!Join, S!Receive
<1>3. ASSUME NEW n \in Node, S!Leave(n) PROVE RingInv'
  BY <1>3, RemoveStep DEF S!Leave
<1>4. ASSUME S!checkHealth PROVE RingInv'
  <2>1. \E gone : S!RemoveNodes(gone)
    BY <1>4 DEF S!checkHealth
  <2> QED BY <2>1, RemoveStep
<1>5. ASSUME NEW n \in Node, S!Beat(n) \/ S!Crash(n) PROVE UNCHANGED S!ring
  BY <1>5 DEF S!Beat, S!Crash
<1>6. ASSUME S!Start \/ S!Stop \/ S!Tick \/ UNCHANGED S!vars PROVE UNCHANGED S!ring
  BY <1>6 DEF S!Start, S!Stop, S!Tick, S!vars, S!ring
<1> QED
  BY <1>2, <1>3, <1>4, <1>5, <1>6, RingKept DEF S!Next

LEMMA InitialRing == ASSUME S!Init PROVE RingInv
<1>1. virtuals = << >> /\ ringNodes = {}
  BY DEF S!Init
<1>2. Points(<< >>) /\ DOMAIN << >> = {}
  BY DEF Points
<1>3. Holds(<< >>, {})
  BY <1>2 DEF Holds, Increasing
<1> QED BY <1>1, <1>3 DEF RingInv

\* NodeManager's nodes and the ring it keeps beside them hold the same members,
\* and the ring every point of each, no other, in order, whatever joins, leaves,
\* crashes and health checks come in whatever order (node_manager.go, ring.go).
THEOREM RingFollowsNodes == ASSUME HashOK PROVE S!Spec => []RingMatchesNodes
<1>1. MembersInv /\ RingInv /\ [S!Next]_(S!vars) => (MembersInv /\ RingInv)'
  BY StepMembers, StepRing
<1>2. S!Init => MembersInv /\ RingInv
  BY InitialMembers, InitialRing
<1>3. MembersInv /\ RingInv => RingMatchesNodes
  <2> SUFFICES ASSUME MembersInv, RingInv PROVE RingMatchesNodes
    OBVIOUS
  <2>1. ringNodes = DOMAIN nodes
    BY DEF MembersInv
  <2>2. ASSUME NEW n \in Node, NEW i \in S!Replica
        PROVE  (\E j \in DOMAIN virtuals : virtuals[j] = PointAt(n, i)) <=> n \in ringNodes
    <3>1. ASSUME NEW j \in DOMAIN virtuals, virtuals[j] = PointAt(n, i) PROVE n \in ringNodes
      <4>1. PICK m \in ringNodes, k \in S!Replica : virtuals[j] = PointAt(m, k)
        BY DEF RingInv, Holds
      <4>2. PointAt(n, i) = PointAt(m, k)
        BY <3>1, <4>1
      <4>3. PointAt(n, i).nodeID = n /\ PointAt(m, k).nodeID = m
        BY PointOwner
      <4> QED BY <4>2, <4>3
    <3> QED BY <3>1 DEF RingInv, Holds
  <2>3. \A i, j \in DOMAIN virtuals : i < j => virtuals[i].hash < virtuals[j].hash
    BY DEF RingInv, Holds, Increasing
  <2> QED BY <2>1, <2>2, <2>3 DEF RingMatchesNodes, S!RingMatchesNodes, PointAt
<1> QED
  BY <1>1, <1>2, <1>3, PTL DEF S!Spec

-----------------------------------------------------------------------------
(* Ring.Lookup and Ring.MigrationKeys.                                     *)

\* What is below h is at the front of vs.
Sinks(vs, h) == \A i, j \in 1 .. Len(vs) : i < j /\ vs[j].hash < h => vs[i].hash < h

\* The hashes of vs reach h after place c.
Reaches(vs, h, c) == \A i \in 1 .. Len(vs) : i <= c <=> vs[i].hash < h

\* The places a bisection of vs may be between.
Bounds(vs) == (0 .. Len(vs)) \X (0 .. Len(vs))

\* One round of sort.Search, with b for the rounds that follow.
Body(vs, h, b, p) ==
  LET lo == p[1]
      hi == p[2]
      mid == (lo + hi) \div 2
  IN  IF lo >= hi THEN lo
      ELSE IF vs[mid + 1].hash < h THEN b[<<mid + 1, hi>>] ELSE b[<<lo, mid>>]

\* b is the bisection of vs for h.
Bisects(vs, h, b) == b = [p \in Bounds(vs) |-> Body(vs, h, b, p)]

\* Search is the bisection from the whole of vs.
LEMMA SearchDef ==
  ASSUME NEW vs, NEW h
  PROVE  S!Search(vs, h) = (CHOOSE b : Bisects(vs, h, b))[<<0, Len(vs)>>]
BY Zenon DEF S!Search, Bisects, Body, Bounds

\* In a sequence that is below h at the front there is a last place below h.
LEMMA Crossing ==
  ASSUME NEW vs, NEW h, Len(vs) \in Nat, Sinks(vs, h)
  PROVE  \E c \in 0 .. Len(vs) : Reaches(vs, h, c)
<1> DEFINE T == {i \in 1 .. Len(vs) : ~(vs[i].hash < h)}
<1>1. CASE T = {}
  <2>1. Reaches(vs, h, Len(vs))
    BY <1>1 DEF Reaches
  <2> QED
    BY <2>1
<1>2. CASE T # {}
  <2>1. T \in SUBSET Nat
    OBVIOUS
  <2>2. PICK x \in T : \A y \in T : x <= y
    BY <1>2, <2>1, LeastNat, Zenon
  <2>3. x - 1 \in 0 .. Len(vs)
    BY <2>2
  <2>4. ASSUME NEW i \in 1 .. Len(vs) PROVE i <= x - 1 <=> vs[i].hash < h
    <3>1. CASE i <= x - 1
      BY <2>2, <3>1
    <3>2. CASE ~(i <= x - 1)
      <4>1. i = x \/ x < i
        BY <2>2, <3>2
      <4> QED
        BY <2>2, <3>2, <4>1 DEF Sinks
    <3> QED
      BY <3>1, <3>2
  <2> QED
    BY <2>3, <2>4, Zenon DEF Reaches
<1> QED
  BY <1>1, <1>2

\* The number in lo .. hi that is nearest to c.
Nearest(c, lo, hi) == IF lo >= hi \/ c <= lo THEN lo ELSE IF c >= hi THEN hi ELSE c

\* The middle is inside, and the nearest number is in one of the halves.
LEMMA Halves ==
  ASSUME NEW lo \in Nat, NEW hi \in Nat, NEW c \in Nat, lo < hi
  PROVE  LET mid == (lo + hi) \div 2
         IN  /\ mid \in Nat /\ lo <= mid /\ mid < hi
             /\ Nearest(c, lo, hi) = IF mid + 1 <= c THEN Nearest(c, mid + 1, hi) ELSE Nearest(c, lo, mid)
<1> DEFINE mid == (lo + hi) \div 2
<1>1. mid \in Nat /\ lo <= mid /\ mid < hi
  OBVIOUS
<1> HIDE DEF mid
<1>2. Nearest(c, lo, hi) = IF mid + 1 <= c THEN Nearest(c, mid + 1, hi) ELSE Nearest(c, lo, mid)
  BY <1>1 DEF Nearest
<1> QED
  BY <1>1, <1>2 DEF mid

\* If every shorter bisection ends nearest to the crossing, so does this one.
LEMMA BisectIs ==
  ASSUME NEW vs, NEW h, Len(vs) \in Nat, NEW c \in 0 .. Len(vs), Reaches(vs, h, c), NEW b,
         NEW lo \in 0 .. Len(vs), NEW hi \in 0 .. Len(vs),
         \A p \in Bounds(vs) : p[2] - p[1] < hi - lo => b[p] = Nearest(c, p[1], p[2])
  PROVE  Body(vs, h, b, <<lo, hi>>) = Nearest(c, lo, hi)
<1> DEFINE mid == (lo + hi) \div 2
<1>1. CASE lo >= hi
  BY <1>1 DEF Body, Nearest
<1>2. CASE lo < hi
  <2>1. /\ mid \in Nat /\ lo <= mid /\ mid < hi
        /\ Nearest(c, lo, hi) = IF mid + 1 <= c THEN Nearest(c, mid + 1, hi) ELSE Nearest(c, lo, mid)
    BY <1>2, Halves
  <2>2. Body(vs, h, b, <<lo, hi>>) = IF vs[mid + 1].hash < h THEN b[<<mid + 1, hi>>] ELSE b[<<lo, mid>>]
    BY <1>2 DEF Body
  <2> HIDE DEF mid
  <2>3. mid + 1 <= c <=> vs[mid + 1].hash < h
    BY <2>1 DEF Reaches
  <2>4. /\ <<mid + 1, hi>> \in Bounds(vs) /\ <<lo, mid>> \in Bounds(vs)
        /\ hi - (mid + 1) < hi - lo /\ mid - lo < hi - lo
    BY <2>1 DEF Bounds
  <2>5. b[<<mid + 1, hi>>] = Nearest(c, mid + 1, hi) /\ b[<<lo, mid>>] = Nearest(c, lo, mid)
    BY <2>4
  <2> QED
    BY <2>1, <2>2, <2>3, <2>5
<1> QED
  BY <1>1, <1>2

\* Search finds the crossing: the nearest numbers are a bisection, and there is
\* no other, for the shortest interval on which they differ would contradict
\* BisectIs.
LEMMA Bisected ==
  ASSUME NEW vs, NEW h, Len(vs) \in Nat, Sinks(vs, h)
  PROVE  S!Search(vs, h) \in 0 .. Len(vs) /\ Reaches(vs, h, S!Search(vs, h))
<1>1. PICK c \in 0 .. Len(vs) : Reaches(vs, h, c)
  BY Crossing
<1> DEFINE w == [p \in Bounds(vs) |-> Nearest(c, p[1], p[2])]
           b == CHOOSE x : Bisects(vs, h, x)
<1>2. \A p \in Bounds(vs) : p[1] \in 0 .. Len(vs) /\ p[2] \in 0 .. Len(vs) /\ p = <<p[1], p[2]>>
  BY DEF Bounds
<1>3. \A p \in Bounds(vs) : w[p] = Body(vs, h, w, p)
  <2> SUFFICES ASSUME NEW p \in Bounds(vs) PROVE w[p] = Body(vs, h, w, p)
    OBVIOUS
  <2>1. PICK lo \in 0 .. Len(vs), hi \in 0 .. Len(vs) : p = <<lo, hi>>
    BY <1>2
  <2>2. \A q \in Bounds(vs) : q[2] - q[1] < hi - lo => w[q] = Nearest(c, q[1], q[2])
    OBVIOUS
  <2>3. w[p] = Nearest(c, lo, hi)
    BY <2>1
  <2> HIDE DEF w
  <2> QED
    BY <1>1, <2>1, <2>2, <2>3, BisectIs
<1>4. Bisects(vs, h, w)
  <2>1. w = [p \in Bounds(vs) |-> w[p]]
    OBVIOUS
  <2> HIDE DEF w
  <2> QED
    BY <1>3, <2>1, Zenon DEF Bisects
<1>5. Bisects(vs, h, b)
  BY <1>4, Zenon
<1> HIDE DEF b
<1>6. \A p \in Bounds(vs) : b[p] = Body(vs, h, b, p)
  BY <1>5, Zenon DEF Bisects
<1>7. \A p \in Bounds(vs) : b[p] = Nearest(c, p[1], p[2])
  <2> DEFINE Bad == {p \in Bounds(vs) : b[p] # Nearest(c, p[1], p[2])}
             T == {Len(vs) + (p[2] - p[1]) : p \in Bad}
  <2> SUFFICES ASSUME Bad # {} PROVE FALSE
    OBVIOUS
  <2>1. T \in SUBSET Nat /\ T # {}
    <3>1. \A p \in Bad : Len(vs) + (p[2] - p[1]) \in Nat
      BY <1>2
    <3> QED
      BY <3>1, Zenon
  <2>2. PICK t \in T : \A y \in T : t <= y
    BY <2>1, LeastNat, Zenon
  <2>3. PICK p \in Bad : t = Len(vs) + (p[2] - p[1])
    OBVIOUS
  <2>4. PICK lo \in 0 .. Len(vs), hi \in 0 .. Len(vs) : p = <<lo, hi>>
    BY <1>2
  <2>5. ASSUME NEW q \in Bounds(vs), q[2] - q[1] < hi - lo PROVE b[q] = Nearest(c, q[1], q[2])
    <3>1. q \notin Bad
      <4> SUFFICES ASSUME q \in Bad PROVE FALSE
        OBVIOUS
      <4>1. t <= Len(vs) + (q[2] - q[1])
        BY <2>2, Zenon
      <4>2. q[1] \in 0 .. Len(vs) /\ q[2] \in 0 .. Len(vs) /\ t = Len(vs) + (hi - lo)
        BY <1>2, <2>3, <2>4
      <4> QED
        BY <2>5, <4>1, <4>2
    <3> QED
      BY <3>1
  <2> HIDE DEF T, Bad
  <2>6. Body(vs, h, b, <<lo, hi>>) = Nearest(c, lo, hi)
    BY <1>1, <2>5, BisectIs
  <2>7. b[p] = Body(vs, h, b, p) /\ b[p] # Nearest(c, p[1], p[2])
    BY <1>6 DEF Bad
  <2> QED
    BY <2>4, <2>6, <2>7
<1>8. S!Search(vs, h) = c
  <2>1. <<0, Len(vs)>> \in Bounds(vs)
    BY DEF Bounds
  <2>2. b[<<0, Len(vs)>>] = Nearest(c, 0, Len(vs))
    BY <1>7, <2>1
  <2>3. Nearest(c, 0, Len(vs)) = c
    BY DEF Nearest
  <2>4. S!Search(vs, h) = b[<<0, Len(vs)>>]
    BY SearchDef, Zenon DEF b
  <2> QED
    BY <2>2, <2>3, <2>4
<1> QED
  BY <1>1, <1>8

\* The hashes of keys are numbers, as those of points are.
KeysHashed == \A k \in Key : Hash[k] \in Int

\* The point that a key with hash h belongs to is at place i.
Owns(vs, h, i) ==
  /\ i \in 1 .. Len(vs)
  /\ \/ ~(vs[i].hash < h) /\ \A j \in 1 .. i - 1 : vs[j].hash < h
     \/ i = 1 /\ \A j \in 1 .. Len(vs) : vs[j].hash < h

\* lookupLocked returns the node of the point that owns the key.
LEMMA Looked ==
  ASSUME NEW vs, Points(vs), Increasing(vs), vs # << >>, NEW k, Hash[k] \in Int
  PROVE  \E i : Owns(vs, Hash[k], i) /\ S!lookupLocked(vs, k) = vs[i].nodeID
<1> DEFINE h == Hash[k]
           c == S!Search(vs, h)
<1>1. /\ Len(vs) \in Nat /\ DOMAIN vs = 1 .. Len(vs)
      /\ \A i \in 1 .. Len(vs) : vs[i].hash \in Int
  BY PointsDomain
<1>2. Len(vs) # 0
  BY DEF Points
<1>3. Sinks(vs, h)
  BY <1>1 DEF Sinks, Increasing
<1>4. c \in 0 .. Len(vs) /\ Reaches(vs, h, c)
  BY <1>1, <1>3, Bisected
<1>5. S!lookupLocked(vs, k) = vs[IF c >= Len(vs) THEN 1 ELSE c + 1].nodeID
  BY DEF S!lookupLocked
<1> HIDE DEF c, h
<1>6. CASE c >= Len(vs)
  <2>1. Owns(vs, h, 1)
    BY <1>1, <1>2, <1>4, <1>6 DEF Owns, Reaches
  <2> QED BY <1>5, <1>6, <2>1 DEF h
<1>7. CASE ~(c >= Len(vs))
  <2>1. Owns(vs, h, c + 1)
    BY <1>1, <1>4, <1>7 DEF Owns, Reaches
  <2> QED BY <1>5, <1>7, <2>1 DEF h
<1> QED BY <1>6, <1>7

\* A point that stays on the ring keeps what it owns.
LEMMA OwnerKept ==
  ASSUME NEW vs, Points(vs), Increasing(vs), NEW t, Points(t), Increasing(t),
         NEW K \in SUBSET DOMAIN vs, Selects(t, vs, K), NEW h \in Int,
         NEW i \in K, Owns(vs, h, i), NEW a, Owns(t, h, a)
  PROVE  t[a] = vs[i]
<1>1. /\ Len(vs) \in Nat /\ DOMAIN vs = 1 .. Len(vs)
      /\ \A j \in 1 .. Len(vs) : vs[j].hash \in Int
  BY PointsDomain
<1>2. /\ Len(t) \in Nat /\ DOMAIN t = 1 .. Len(t)
      /\ \A j \in 1 .. Len(t) : t[j].hash \in Int
  BY PointsDomain
<1>3. PICK b \in 1 .. Len(t) : t[b] = vs[i]
  BY <1>2 DEF Selects
<1>4. ASSUME NEW j \in 1 .. b - 1 PROVE \E l \in 1 .. i - 1 : t[j] = vs[l]
  <2>0. j \in DOMAIN t /\ b \in DOMAIN t /\ j < b
    BY <1>2, <1>3, <1>4
  <2>1. j \in 1 .. Len(t) /\ t[j].hash < t[b].hash
    BY <1>2, <2>0, Zenon DEF Increasing
  <2>2. PICK l \in 1 .. Len(vs) : t[j] = vs[l]
    BY <1>1, <1>2, <2>1, Zenon DEF Selects
  <2>3. ~(i < l) /\ i # l
    BY <1>1, <1>3, <2>1, <2>2 DEF Increasing
  <2>4. i \in 1 .. Len(vs)
    BY <1>1
  <2> QED BY <1>1, <2>2, <2>3, <2>4
<1>5. CASE ~(vs[i].hash < h) /\ \A j \in 1 .. i - 1 : vs[j].hash < h
  <2>1. ~(t[b].hash < h) /\ \A j \in 1 .. b - 1 : t[j].hash < h
    BY <1>3, <1>4, <1>5
  <2>2. ~(a < b) /\ ~(b < a)
    BY <1>2, <2>1 DEF Owns
  <2> QED BY <1>3, <2>2 DEF Owns
<1>6. CASE i = 1 /\ \A j \in 1 .. Len(vs) : vs[j].hash < h
  <2>1. b = 1
    BY <1>3, <1>4, <1>6
  <2>2. \A j \in 1 .. Len(t) : t[j].hash < h
    BY <1>1, <1>2, <1>6, Zenon DEF Selects
  <2>3. a = 1
    BY <2>2 DEF Owns
  <2> QED BY <1>3, <2>1, <2>3
<1> QED BY <1>5, <1>6 DEF Owns

\* t is vs without the points of n, and n is not all there is.
Removed(t, vs, n) == Points(vs) /\ Increasing(vs) /\ t = S!removeNodeLocked(vs, {n}) /\ t # << >>

\* Removing a node moves its keys to others and no key of another node.
LEMMA LookupKept ==
  ASSUME NEW vs, NEW n, NEW t, Removed(t, vs, n), NEW k, Hash[k] \in Int
  PROVE  /\ S!lookupLocked(t, k) # n
         /\ S!lookupLocked(vs, k) # n => S!lookupLocked(t, k) = S!lookupLocked(vs, k)
<1> USE DEF Removed
<1> DEFINE K == {j \in DOMAIN vs : vs[j].nodeID \notin {n}}
<1>1. Points(t) /\ Increasing(t) /\ Selects(t, vs, K)
  BY Filtered
<1>2. PICK a : Owns(t, Hash[k], a) /\ S!lookupLocked(t, k) = t[a].nodeID
  BY <1>1, Looked
<1>3. DOMAIN t = 1 .. Len(t) /\ Len(t) \in Nat /\ DOMAIN vs = 1 .. Len(vs)
  BY <1>1, PointsDomain
<1>4. a \in DOMAIN t
  BY <1>2, <1>3 DEF Owns
<1>5. PICK j \in K : t[a] = vs[j]
  BY <1>1, <1>4, Zenon DEF Selects
<1>6. S!lookupLocked(t, k) # n
  BY <1>2, <1>5
<1>7. ASSUME S!lookupLocked(vs, k) # n PROVE S!lookupLocked(t, k) = S!lookupLocked(vs, k)
  <2>1. vs # << >>
    BY <1>5
  <2>2. PICK i : Owns(vs, Hash[k], i) /\ S!lookupLocked(vs, k) = vs[i].nodeID
    BY <2>1, Looked
  <2>3. i \in DOMAIN vs
    BY <1>3, <2>2 DEF Owns
  <2>4. i \in K
    BY <1>7, <2>2, <2>3
  <2>5. K \in SUBSET DOMAIN vs
    OBVIOUS
  <2> HIDE DEF K
  <2>6. t[a] = vs[i]
    BY <1>1, <1>2, <2>2, <2>4, <2>5, OwnerKept
  <2> QED BY <1>2, <2>2, <2>6
<1> QED BY <1>6, <1>7

\* Removing nodes of which only n is on the ring removes n.
LEMMA RemovesOne ==
  ASSUME RingInv, NEW gone, S!RemoveNodes(gone), NEW n \in ringNodes, ringNodes' = ringNodes \ {n}
  PROVE  virtuals' = S!removeNodeLocked(virtuals, {n})
<1>1. gone \cap ringNodes # {}
  BY DEF S!RemoveNodes, S!ring
<1>2. ringNodes' = ringNodes \ gone /\ virtuals' = S!removeNodeLocked(virtuals, gone)
  BY <1>1 DEF S!RemoveNodes
<1>3. ASSUME NEW i \in DOMAIN virtuals PROVE virtuals[i].nodeID \in ringNodes
  <2>1. PICK m \in ringNodes, l \in S!Replica : virtuals[i] = PointAt(m, l)
    BY DEF RingInv, Holds
  <2> QED BY <2>1, PointOwner
<1>4. {i \in DOMAIN virtuals : virtuals[i].nodeID \notin gone} = {i \in DOMAIN virtuals : virtuals[i].nodeID \notin {n}}
  BY <1>2, <1>3
<1>5. S!removeNodeLocked(virtuals, gone) = S!removeNodeLocked(virtuals, {n})
  <2> DEFINE Others(out) == {i \in DOMAIN virtuals : virtuals[i].nodeID \notin out}
             Kept(K) == [i \in 1 .. S!Cardinality(K) |->
                           virtuals[CHOOSE j \in K : S!Cardinality({k \in K : k < j}) = i - 1]]
  <2>1. \A out : S!removeNodeLocked(virtuals, out) = Kept(Others(out))
    BY Zenon DEF S!removeNodeLocked
  <2>2. Others(gone) = Others({n})
    BY <1>4
  <2> HIDE DEF Others, Kept
  <2> QED BY <2>1, <2>2, Zenon
<1> QED BY <1>2, <1>5

\* Only Leave and the health check take a node off the ring.
LEMMA WhoRemoves ==
  ASSUME [S!Next]_(S!vars), ringNodes' # ringNodes, ringNodes' \subseteq ringNodes
  PROVE  \E gone : S!RemoveNodes(gone)
<1>1. ASSUME NEW n \in Node, S!Heartbeat(n) PROVE FALSE
  BY <1>1 DEF S!Heartbeat, S!AddNode, S!ring
<1>2. ASSUME NEW n \in Node, S!Join(n) \/ S!Receive(n) PROVE FALSE
  BY <1>1, <1>2 DEF S!Join, S!Receive
<1>3. ASSUME NEW n \in Node, S!Leave(n) PROVE \E gone : S!RemoveNodes(gone)
  BY <1>3 DEF S!Leave
<1>4. ASSUME S!checkHealth PROVE \E gone : S!RemoveNodes(gone)
  BY <1>4 DEF S!checkHealth
<1>5. ASSUME NEW n \in Node, S!Beat(n) \/ S!Crash(n) PROVE FALSE
  BY <1>5 DEF S!Beat, S!Crash, S!ring
<1>6. ASSUME S!Start \/ S!Stop \/ S!Tick \/ UNCHANGED S!vars PROVE FALSE
  BY <1>6 DEF S!Start, S!Stop, S!Tick, S!vars, S!ring
<1> QED
  BY <1>2, <1>3, <1>4, <1>5, <1>6 DEF S!Next

\* A step that takes n alone off the ring moves the keys that MigrationKeys
\* names, to the nodes it names.
LEMMA StepMigrates ==
  ASSUME HashOK, KeysHashed, RingInv, RingInv', [S!Next]_(S!vars), NEW n \in Node,
         ringNodes' = ringNodes \ {n}, n \in ringNodes, ringNodes' # {}
  PROVE  S!MigrationKeys(virtuals, n)
           = [k \in {k \in Key : S!lookupLocked(virtuals', k) # S!lookupLocked(virtuals, k)}
                |-> S!lookupLocked(virtuals', k)]
<1>1. PICK t : t = S!removeNodeLocked(virtuals, {n})
  OBVIOUS
<1>2. virtuals' = t
  BY <1>1, WhoRemoves, RemovesOne
<1> DEFINE From(k) == S!lookupLocked(virtuals, k)
           To(k) == S!lookupLocked(t, k)
           moves(k) == t # << >> /\ From(k) = n /\ To(k) # n
<1>3. S!MigrationKeys(virtuals, n) = [k \in {k \in Key : moves(k)} |-> To(k)]
  BY <1>1, Zenon DEF S!MigrationKeys
<1>4. ASSUME NEW k \in Key PROVE moves(k) <=> To(k) # From(k)
  <2>1. CASE t = << >>
    <3>1. virtuals = << >>
      <4>1. PICK m \in ringNodes' : m \in ringNodes
        OBVIOUS
      <4>2. \A i \in S!Replica : \E j \in DOMAIN t : t[j] = PointAt(m, i)
        BY <1>2, <4>1 DEF RingInv, Holds
      <4>3. S!Replica = {}
        BY <2>1, <4>2
      <4>4. DOMAIN virtuals = {} /\ Points(virtuals)
        BY <4>3, Zenon DEF RingInv, Holds
      <4> QED BY <4>4 DEF Points
    <3> QED BY <2>1, <3>1
  <2>2. CASE t # << >>
    <3>1. Points(virtuals) /\ Increasing(virtuals) /\ Hash[k] \in Int
      BY DEF RingInv, Holds, KeysHashed
    <3>2. To(k) # n /\ (From(k) # n => To(k) = From(k))
      <4>1. Removed(t, virtuals, n)
        BY <1>1, <2>2, <3>1, Zenon DEF Removed
      <4> HIDE DEF From, To, moves
      <4> QED BY <3>1, <4>1, LookupKept DEF From, To
    <3> QED BY <2>2, <3>2
  <2> QED BY <2>1, <2>2
<1> HIDE DEF From, To, moves
<1>5. {k \in Key : moves(k)} = {k \in Key : To(k) # From(k)}
  BY <1>4, Zenon
<1> QED BY <1>2, <1>3, <1>5, Zenon DEF From, To

\* "MigrationKeys returns the set of keys that would change owner when fromNode
\* is removed" (ring.go): whenever a node goes off the ring, by leaving or by a
\* health check, those keys move to the owners it predicted and no others do,
\* for any nodes, keys, number of points and hash function without collisions.
THEOREM MigrationsForeseen == ASSUME HashOK, KeysHashed PROVE S!Spec => MigrationExact
<1>1. RingInv /\ [S!Next]_(S!vars) => RingInv'
  BY StepRing
<1>2. S!Init => RingInv
  BY InitialRing
<1> DEFINE Foreseen == \A n \in Node :
             ringNodes' = ringNodes \ {n} /\ n \in ringNodes /\ ringNodes' # {} =>
               S!MigrationKeys(virtuals, n)
                 = [k \in {k \in Key : S!lookupLocked(virtuals', k) # S!lookupLocked(virtuals, k)}
                      |-> S!lookupLocked(virtuals', k)]
<1>3. RingInv /\ RingInv' /\ [S!Next]_(S!vars) => [Foreseen]_(S!vars)
  BY StepMigrates, Zenon
<1>4. S!Spec => [][Foreseen]_(S!vars)
  <2> HIDE DEF Foreseen
  <2> QED BY <1>1, <1>2, <1>3, PTL DEF S!Spec
<1> QED
  BY <1>4, Zenon DEF MigrationExact, S!MigrationExact
=============================================================================
