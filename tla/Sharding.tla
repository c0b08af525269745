------------------------------ MODULE Sharding ------------------------------
(***************************************************************************)
(* internal/distributed/sharding: the consistent-hashing ring and the      *)
(* NodeManager that keeps the ring's members in step with the heartbeats   *)
(* it receives.  Every method of NodeManager runs under nm.mu and is one   *)
(* action, with the ring operations and the OnChange call it makes; the    *)
(* health check runs in a goroutine of its own, whenever the ticker fires. *)
(*                                                                         *)
(* Around it are the nodes: they start, send heartbeats that take their    *)
(* time, leave, and crash.  Silence is kept as an age in ticks that        *)
(* saturates at the largest value the code compares it with.               *)
(***************************************************************************)
EXTENDS Integers, Sequences, FiniteSets, FiniteSetsExt

CONSTANTS
    Node,
    Key,
    VNodesPerNode,
    Hash,                \* Hash[x]: the point of a key or of a <<node, replica>>; xxhash
                         \* gives no two virtual nodes the same 64-bit point
    SuspectAfter, DownAfter

Replica == 0 .. VNodesPerNode - 1

VARIABLES
    virtuals,            \* Ring.virtuals: records [hash, nodeID]
    ringNodes,           \* Ring.nodes
    nodes,               \* NodeManager.nodes: [state, silent] of the tracked nodes
    loop,                \* checkLoop: "none", "running", or "stopped" by Stop
    notified,            \* the keys of the map that OnChange was last given
    alive,               \* the nodes that run
    beats,               \* heartbeats on their way to the manager
    scanned              \* history: the nodes a health check has seen since they were last heard of

vars == <<virtuals, ringNodes, nodes, loop, notified, alive, beats, scanned>>
ring == <<virtuals, ringNodes>>

Patience == Max({SuspectAfter, DownAfter})
Healthy == "healthy"
Suspect == "suspect"

TypeOK ==
    /\ virtuals \in Seq([hash : Int, nodeID : Node])
    /\ ringNodes \subseteq Node
    /\ DOMAIN nodes \subseteq Node
    /\ \A n \in DOMAIN nodes : nodes[n] \in [state : {Healthy, Suspect}, silent : 0 .. Patience]
    /\ loop \in {"none", "running", "stopped"}
    /\ notified \subseteq Node /\ alive \subseteq Node /\ beats \subseteq Node
    /\ scanned \subseteq DOMAIN nodes

Init ==
    /\ virtuals = << >> /\ ringNodes = {}
    /\ nodes = << >>
    /\ loop = "none"
    /\ notified = {} /\ alive = {} /\ beats = {}
    /\ scanned = {}

-----------------------------------------------------------------------------
\* The ring.  addNodeLocked appends the node's points and sorts.

points(n) == [i \in 1 .. VNodesPerNode |-> [hash |-> Hash[<<n, i - 1>>], nodeID |-> n]]

\* sort.Slice, of points that are all different: i - 1 are before the i-th.
sorted(vs) ==
    [i \in DOMAIN vs |-> vs[CHOOSE j \in DOMAIN vs : Cardinality({k \in DOMAIN vs : vs[k].hash < vs[j].hash}) = i - 1]]

\* The points of the other nodes move up, in the order of the slice.  It runs
\* for one node after the other; gone is all of them.
removeNodeLocked(vs, gone) ==
    LET kept == {i \in DOMAIN vs : vs[i].nodeID \notin gone}
    IN  [i \in 1 .. Cardinality(kept) |-> vs[CHOOSE j \in kept : Cardinality({k \in kept : k < j}) = i - 1]]

\* sort.Search: bisect lo .. hi for the first index whose point is not below h.
\* It is right about a sorted slice only.  Indices are Go's, from 0.
Search(vs, h) ==
    LET bisect[p \in (0 .. Len(vs)) \X (0 .. Len(vs))] ==
            LET lo == p[1]
                hi == p[2]
                mid == (lo + hi) \div 2
            IN  IF lo >= hi THEN lo
                ELSE IF vs[mid + 1].hash < h THEN bisect[<<mid + 1, hi>>] ELSE bisect[<<lo, mid>>]
    IN  bisect[<<0, Len(vs)>>]

lookupLocked(vs, k) ==
    LET idx == Search(vs, Hash[k])
    IN  IF vs = << >> THEN "none"
        ELSE vs[IF idx >= Len(vs) THEN 1 ELSE idx + 1].nodeID

\* Mutant: every key whose owner is compared, not only those of the node.
MigrationKeysWithoutNode(vs, from) ==
    LET sim == removeNodeLocked(vs, {from})
    IN  [k \in {k \in Key : sim # << >>} |-> lookupLocked(sim, k)]

\* The keys that move when the node goes, with their new owners.
MigrationKeys(vs, from) ==
    LET sim == removeNodeLocked(vs, {from})
        moves(k) == sim # << >> /\ lookupLocked(vs, k) = from /\ lookupLocked(sim, k) # from
    IN  [k \in {k \in Key : moves(k)} |-> lookupLocked(sim, k)]

AddNode(n) ==
    IF n \in ringNodes THEN UNCHANGED ring
    ELSE ringNodes' = ringNodes \cup {n} /\ \E vs \in {virtuals \o points(n)} : virtuals' = sorted(vs)

RemoveNodes(gone) ==
    IF gone \cap ringNodes = {} THEN UNCHANGED ring
    ELSE ringNodes' = ringNodes \ gone /\ virtuals' = removeNodeLocked(virtuals, gone)

-----------------------------------------------------------------------------
notifyLocked == notified' = DOMAIN nodes'

Fresh == [state |-> Healthy, silent |-> 0]
Heard(n) == scanned' = scanned \ {n}

\* Join and Heartbeat: a tracked node is healthy again, another one is added.
Heartbeat(n) ==
    /\ nodes' = [m \in DOMAIN nodes \cup {n} |-> IF m = n THEN Fresh ELSE nodes[m]]
    /\ IF n \in DOMAIN nodes THEN UNCHANGED <<ring, notified>> ELSE AddNode(n) /\ notifyLocked
    /\ Heard(n)

\* A node starts and joins.
Join(n) ==
    /\ n \notin alive
    /\ alive' = alive \cup {n}
    /\ Heartbeat(n)
    /\ UNCHANGED <<loop, beats>>

Beat(n) ==
    /\ n \in alive
    /\ beats' = beats \cup {n}
    /\ UNCHANGED <<ring, nodes, loop, notified, alive, scanned>>

Receive(n) ==
    /\ n \in beats
    /\ beats' = beats \ {n}
    /\ Heartbeat(n)
    /\ UNCHANGED <<loop, alive>>

\* Mutant: the node stays tracked until a health check finds it silent.
LeaveKeepsTracking(n) ==
    /\ n \in alive
    /\ alive' = alive \ {n}
    /\ UNCHANGED <<nodes, loop, beats>>
    /\ RemoveNodes({n})
    /\ notifyLocked
    /\ Heard(n)

\* A node shuts down gracefully; its last heartbeat may still be on its way.
Leave(n) ==
    /\ n \in alive
    /\ alive' = alive \ {n}
    /\ nodes' = [m \in DOMAIN nodes \ {n} |-> nodes[m]]
    /\ RemoveNodes({n})
    /\ notifyLocked
    /\ Heard(n)
    /\ UNCHANGED <<loop, beats>>

Crash(n) ==
    /\ n \in alive
    /\ alive' = alive \ {n}
    /\ UNCHANGED <<ring, nodes, loop, notified, beats, scanned>>

\* Mutant: a node that is silent long enough goes at once.
checkHealthAtOnce ==
    LET gone == {n \in DOMAIN nodes : nodes[n].silent >= DownAfter}
    IN  /\ loop = "running"
        /\ nodes' = [n \in DOMAIN nodes \ gone |->
                        IF nodes[n].silent >= SuspectAfter THEN [nodes[n] EXCEPT !.state = Suspect] ELSE nodes[n]]
        /\ RemoveNodes(gone)
        /\ IF gone # {} THEN notifyLocked ELSE UNCHANGED notified
        /\ scanned' = DOMAIN nodes'
        /\ UNCHANGED <<loop, alive, beats>>

\* Mutant: every scan takes a suspect for healthy again.
checkHealthForgets ==
    /\ loop = "running"
    /\ nodes' = [n \in DOMAIN nodes |->
                    IF nodes[n].state = Healthy /\ nodes[n].silent >= SuspectAfter
                    THEN [nodes[n] EXCEPT !.state = Suspect] ELSE [nodes[n] EXCEPT !.state = Healthy]]
    /\ scanned' = DOMAIN nodes'
    /\ UNCHANGED <<ring, loop, notified, alive, beats>>

\* A healthy node that is silent becomes a suspect, a suspect is removed: the
\* two take two scans.
checkHealth ==
    LET gone == {n \in DOMAIN nodes : nodes[n].state = Suspect /\ nodes[n].silent >= DownAfter}
    IN  /\ loop = "running"
        /\ nodes' = [n \in DOMAIN nodes \ gone |->
                        IF nodes[n].silent >= SuspectAfter THEN [nodes[n] EXCEPT !.state = Suspect] ELSE nodes[n]]
        /\ RemoveNodes(gone)
        /\ IF gone # {} THEN notifyLocked ELSE UNCHANGED notified
        /\ scanned' = DOMAIN nodes'
        /\ UNCHANGED <<loop, alive, beats>>

Start == loop = "none" /\ loop' = "running" /\ UNCHANGED <<ring, nodes, notified, alive, beats, scanned>>

\* Stop returns when the goroutine has ended.  A second Stop panics.
Stop == loop # "stopped" /\ loop' = "stopped" /\ UNCHANGED <<ring, nodes, notified, alive, beats, scanned>>

Tick ==
    /\ nodes' = [n \in DOMAIN nodes |-> [nodes[n] EXCEPT !.silent = Min({@ + 1, Patience})]]
    /\ UNCHANGED <<ring, loop, notified, alive, beats, scanned>>

Next ==
    \/ \E n \in Node : Join(n) \/ Beat(n) \/ Receive(n) \/ Leave(n) \/ Crash(n)
    \/ checkHealth \/ Start \/ Stop \/ Tick

\* Time passes, the ticker fires, and what was sent arrives.
Fairness == WF_vars(Tick) /\ WF_vars(checkHealth) /\ \A n \in Node : WF_vars(Receive(n))

Spec == Init /\ [][Next]_vars /\ Fairness

-----------------------------------------------------------------------------
\* The ring holds exactly the tracked nodes, every point of each and no others,
\* in order: the two structures have a lock each and NodeManager changes both.
RingMatchesNodes ==
    /\ ringNodes = DOMAIN nodes
    /\ \A n \in Node, i \in Replica :
          (\E j \in DOMAIN virtuals : virtuals[j] = [hash |-> Hash[<<n, i>>], nodeID |-> n]) <=> n \in ringNodes
    /\ \A i, j \in DOMAIN virtuals : i < j => virtuals[i].hash < virtuals[j].hash

\* OnChange has been told of the membership as it is, whichever way it changed.
CallbackCurrent == notified = ringNodes

\* Lookup, by bisection and with the wrap-around, finds the first point at or
\* after the key's on the circle.  Hence a node that joins or leaves moves its
\* own keys only.
LookupIsSuccessor ==
    \A k \in Key :
       ringNodes # {} =>
          LET circle == ringNodes \X Replica
              ahead == {p \in circle : Hash[p] >= Hash[k]}
              from == IF ahead = {} THEN circle ELSE ahead
          IN  lookupLocked(virtuals, k) = (CHOOSE p \in from : \A q \in from : Hash[p] <= Hash[q])[1]

\* "MigrationKeys returns the set of keys that would change owner when fromNode
\* is removed": what it predicts is what a removal does, to those keys and to
\* no others.
MigrationExact ==
    [][\A n \in Node :
          ringNodes' = ringNodes \ {n} /\ n \in ringNodes /\ ringNodes' # {} =>
             LET predicted == MigrationKeys(virtuals, n)
                 moved == {k \in Key : lookupLocked(virtuals', k) # lookupLocked(virtuals, k)}
             IN  predicted = [k \in moved |-> lookupLocked(virtuals', k)]]_vars

\* A node that did not leave is taken off the ring only after two health checks
\* in a row found it silent: one slow scan does not expel it.
TwoScansToExpel ==
    [][alive' = alive => ringNodes \ ringNodes' \subseteq scanned]_vars

\* A node that stays down is off the ring for good in the end, late heartbeats
\* notwithstanding, while health checks run.
DeadLeaveRing ==
    \A n \in Node : <>[](n \notin alive) /\ <>[](loop = "running") => <>[](n \notin ringNodes)

\* "Leave immediately removes nodeID from the ring": it stays out until it
\* joins again.
LeaveIsFinal == [][\A n \in Node : n \in ringNodes' \ ringNodes => n \in alive']_vars
=============================================================================
