------------------------ MODULE CoordinationLockstep ------------------------
(***************************************************************************)
(* The cluster driven by Cluster.TickAll: in every round each node runs    *)
(* one whole Tick, in declaration order, its messages reaching the inboxes *)
(* at once.  Partitions change between rounds.  This is the clock under    *)
(* which the timer constants relate to each other, which the asynchronous  *)
(* Coordination leaves open: how long a cut-off leader keeps its role      *)
(* against how soon the others may elect a new one.                        *)
(***************************************************************************)
EXTENDS RaftNode, SequencesExt

CONSTANTS
    Order,        \* Cluster.order
    MaxFaults     \* bound: number of times the network is cut

ASSUME OrderAssumption == Order \in Seq(Node) /\ ToSet(Order) = Node /\ Len(Order) = Cardinality(Node)

\* The order in which the nodes of a small cluster are declared; any will do.
DeclaredOrder == SetToSeq(Node)

VARIABLES
    node, inbox, groups, faults,
    pos,          \* the position in Order of the next node to tick
    cutOff,       \* history: rounds n has led in which the members on its side,
                  \* taken together over those rounds, are no majority
    met,          \* history: those members
    headless,     \* history: rounds a side with a majority has been without a leader,
                  \* counted while the bound on terms keeps no node from standing
    isolated      \* history: the nodes Isolate was called for since the last Heal or Partition

vars == <<node, inbox, groups, faults, pos, met, cutOff, headless, isolated>>

\* The members that n's messages reach, n included.
Side(n) == {p \in Node : groups[p] = groups[n]}

Init ==
    /\ node \in [Node -> {NewNode(t) : t \in Timeouts}]
    /\ inbox = NoMessages
    /\ groups = [n \in Node |-> 0]
    /\ faults = 0
    /\ pos = 1
    /\ met = [n \in Node |-> {}]
    /\ cutOff = [n \in Node |-> 0]
    /\ headless = 0
    /\ isolated = {}

\* Node.Tick with its deliveries (memTransport.Send).
Tick(n, timeout) ==
    LET s == FoldLeft(LAMBDA acc, m : Handle(n, acc, m), AgeAcks(node[n]), inbox[n])
        t == StepTimers(n, s, timeout)
        delivered == [p \in Node |-> IF groups[p] = groups[n] THEN t.outbox[p] ELSE << >>]
    IN  /\ node' = [node EXCEPT ![n] = [t EXCEPT !.outbox = NoMessages]]
        /\ inbox' = [p \in Node |-> (IF p = n THEN << >> ELSE inbox[p]) \o delivered[p]]

\* One iteration of TickAll.
TickNext ==
    LET n == Order[pos]
    IN  /\ \E timeout \in Timeouts : Tick(n, timeout)
        /\ pos' = IF pos = Len(Order) THEN 1 ELSE pos + 1
        /\ LET seen == met[n] \cup Side(n)
               over == Quorum(seen) \/ node'[n].role # Leader
           IN  /\ met' = [met EXCEPT ![n] = IF over THEN {} ELSE seen]
               /\ cutOff' = [cutOff EXCEPT ![n] = IF over THEN 0 ELSE @ + 1]
        /\ LET majority == {p \in Node : Quorum(Side(p))}
           IN  headless' = IF \/ majority = {}
                              \/ \E p \in majority : node'[p].role = Leader
                              \/ \E p \in Node : node'[p].currentTerm = MaxTerm
                           THEN 0 ELSE headless + (IF pos' = 1 THEN 1 ELSE 0)
        /\ UNCHANGED <<groups, faults, isolated>>

\* Between two rounds the network is cut: Cluster.Partition(A, Node \ A), with
\* A the smaller side, and Cluster.Isolate.
Partition(A) ==
    /\ pos = 1 /\ faults < MaxFaults
    /\ faults' = faults + 1
    /\ groups' = [n \in Node |-> IF n \in A THEN 1 ELSE 2]
    /\ isolated' = {}
    /\ headless' = 0
    /\ UNCHANGED <<node, inbox, pos, met, cutOff>>

Isolate(n) ==
    /\ pos = 1 /\ faults < MaxFaults
    /\ faults' = faults + 1
    /\ groups' = [groups EXCEPT ![n] = 99]
    /\ isolated' = isolated \cup {n}
    /\ headless' = 0
    /\ UNCHANGED <<node, inbox, pos, met, cutOff>>

Heal ==
    /\ pos = 1
    /\ groups' = [n \in Node |-> 0]
    /\ isolated' = {}
    /\ headless' = 0
    /\ UNCHANGED <<node, inbox, faults, pos, met, cutOff>>

Next ==
    \/ TickNext
    \/ \E A \in SUBSET Node \ {{}} : 2 * Cardinality(A) <= Cardinality(Node) /\ Partition(A)
    \/ \E n \in Node : Isolate(n)
    \/ Heal

Spec == Init /\ [][Next]_vars

-----------------------------------------------------------------------------
TypeOK ==
    /\ node \in [Node -> NodeState]
    /\ inbox \in [Node -> Seq(Message)]
    /\ groups \in [Node -> {0, 1, 2, 99}]
    /\ faults \in 0 .. MaxFaults
    /\ pos \in 1 .. Len(Order)
    /\ met \in [Node -> SUBSET Node] /\ cutOff \in [Node -> Nat] /\ headless \in Nat
    /\ isolated \subseteq Node

\* A leader whose side, however often the partition moves, has not held a
\* majority even when the members it met are taken together, gives the role
\* up within the freshness window and the loss window together
\* (hasQuorumLocked and the quorum branch of stepTimersLocked).
BoundedLease == \A n \in Node : cutOff[n] <= QuorumAckTicks + QuorumLossTicks

\* "The remaining majority times out and elects a replacement": a side that
\* holds a majority, left alone, has a leader again after one election
\* timeout and the round that collects the votes.
BoundedFailover == headless <= ElectionTicksMax

\* "Steps down the moment it can no longer reach a majority of peers, which
\* prevents split brain under a network partition": Cluster.Leader never
\* meets two leaders, of whatever terms.
NoSplitBrain == Cardinality({n \in Node : node[n].role = Leader}) <= 1

\* "Isolate drops all messages to and from id."
IsolationHolds ==
    [][\A p \in Node \ {Order[pos]} :
          p \in isolated \/ Order[pos] \in isolated => inbox'[p] = inbox[p]]_vars
=============================================================================
