---------------------------- MODULE Coordination ----------------------------
(***************************************************************************)
(* A cluster of coordination.Nodes, each driven by its own goroutine       *)
(* (Node.Start), over the in-memory transport of the package.              *)
(*                                                                         *)
(* A Tick runs in three stages, which the goroutines of different nodes    *)
(* interleave freely:                                                      *)
(*   BeginTick   takes n.mu and swaps the inbox out,                       *)
(*   HandleNext  handles one of the swapped-out messages under n.mu,       *)
(*   EndTick     advances the timers, swaps the outbox out, releases n.mu, *)
(* and then the same goroutine delivers the outbox, one Flush step for     *)
(* each message, before it can start the next Tick.  Receive takes the     *)
(* receiver's n.mu, so a Flush waits until the receiver is not inside the  *)
(* locked part of its own Tick.                                            *)
(***************************************************************************)
EXTENDS RaftNode

CONSTANTS
    MaxInbox,     \* bound: deliveries wait while the receiver's inbox holds this many
    MaxFaults     \* bound: number of times the network is cut

ASSUME BoundAssumption == MaxInbox \in Nat \ {0} /\ MaxFaults \in Nat

VARIABLES
    node,         \* node[n]: the fields of n that n.mu protects
    inbox,        \* inbox[n]: received, not yet swapped out
    batch,        \* batch[n]: swapped out by the running Tick, not yet handled
    locked,       \* locked[n]: n's driver goroutine holds n.mu, inside Tick
    groups,       \* memTransport.groups
    faults,       \* how often the network was cut
    granted,      \* history: <<v, c, t>> when v granted c its vote in term t
    elected       \* history: <<n, t>> when n became leader of term t

vars == <<node, inbox, batch, locked, groups, faults, granted, elected>>

TypeOK ==
    /\ node \in [Node -> NodeState]
    /\ inbox \in [Node -> Seq(Message)]
    /\ batch \in [Node -> Seq(Message)]
    /\ locked \in [Node -> BOOLEAN]
    /\ groups \in [Node -> {0, 1, 2, 99}]
    /\ faults \in Nat
    /\ granted \in SUBSET (Node \X Node \X Nat)
    /\ elected \in SUBSET (Node \X Nat)

Init ==
    /\ node \in [Node -> {NewNode(t) : t \in Timeouts}]
    /\ inbox = NoMessages
    /\ batch = NoMessages
    /\ locked = [n \in Node |-> FALSE]
    /\ groups = [n \in Node |-> 0]
    /\ faults = 0
    /\ granted = {}
    /\ elected = {}

-----------------------------------------------------------------------------
\* The history variables follow the node's own fields: a vote is granted when
\* votedFor is set to a candidate, and won when the role becomes Leader.
Observe(n, s) ==
    /\ granted' = IF s.votedFor \in Node
                  THEN granted \cup {<<n, s.votedFor, s.currentTerm>>} ELSE granted
    /\ elected' = IF s.role = Leader
                  THEN elected \cup {<<n, s.currentTerm>>} ELSE elected

BeginTick(n) ==
    /\ ~locked[n] /\ node[n].outbox = NoMessages
    /\ locked' = [locked EXCEPT ![n] = TRUE]
    /\ node' = [node EXCEPT ![n] = AgeAcks(@)]
    /\ batch' = [batch EXCEPT ![n] = inbox[n]]
    /\ inbox' = [inbox EXCEPT ![n] = << >>]
    /\ UNCHANGED <<groups, faults, granted, elected>>

HandleNext(n) ==
    /\ locked[n]
    /\ batch[n] # << >>
    /\ node' = [node EXCEPT ![n] = Handle(n, node[n], Head(batch[n]))]
    /\ Observe(n, node'[n])
    /\ batch' = [batch EXCEPT ![n] = Tail(@)]
    /\ UNCHANGED <<inbox, locked, groups, faults>>

EndTick(n) ==
    /\ locked[n]
    /\ batch[n] = << >>
    /\ \E timeout \in Timeouts :
          node' = [node EXCEPT ![n] = StepTimers(n, node[n], timeout)]
    /\ Observe(n, node'[n])
    /\ locked' = [locked EXCEPT ![n] = FALSE]
    /\ UNCHANGED <<inbox, batch, groups, faults>>

\* memTransport.Send followed by the receiver's Receive.  A message between
\* two groups is dropped.
Flush(n, to) ==
    /\ ~locked[n] /\ ~locked[to]
    /\ node[n].outbox[to] # << >>
    /\ node' = [node EXCEPT ![n].outbox[to] = Tail(@)]
    /\ IF groups[n] = groups[to]
       THEN /\ Len(inbox[to]) < MaxInbox
            /\ inbox' = [inbox EXCEPT ![to] = Append(@, Head(node[n].outbox[to]))]
       ELSE UNCHANGED inbox
    /\ UNCHANGED <<batch, locked, groups, faults, granted, elected>>

\* Cluster.Partition(A, Node \ A), Cluster.Isolate and Cluster.Heal.  The two
\* group numbers are interchangeable, so Next takes the smaller side for A.
Partition(A) ==
    /\ faults < MaxFaults
    /\ faults' = faults + 1
    /\ groups' = [n \in Node |-> IF n \in A THEN 1 ELSE 2]
    /\ UNCHANGED <<node, inbox, batch, locked, granted, elected>>

Isolate(n) ==
    /\ faults < MaxFaults
    /\ faults' = faults + 1
    /\ groups' = [groups EXCEPT ![n] = 99]
    /\ UNCHANGED <<node, inbox, batch, locked, granted, elected>>

Heal ==
    /\ groups' = [n \in Node |-> 0]
    /\ UNCHANGED <<node, inbox, batch, locked, faults, granted, elected>>

Next ==
    \/ \E n \in Node : BeginTick(n) \/ HandleNext(n) \/ EndTick(n)
    \/ \E n, to \in Node : Flush(n, to)
    \/ \E A \in SUBSET Node \ {{}} : 2 * Cardinality(A) <= Cardinality(Node) /\ Partition(A)
    \/ \E n \in Node : Isolate(n)
    \/ Heal

Spec == Init /\ [][Next]_vars

-----------------------------------------------------------------------------
\* At no moment do two nodes lead the same term: the role Leader is reached
\* only through a majority of votes (handleRequestVoteRespLocked), and a node
\* that gave its own vote away again in a term no longer leads it.
OneLeaderPerTerm ==
    \A a, b \in Node :
        /\ node[a].role = Leader /\ node[b].role = Leader
        /\ node[a].currentTerm = node[b].currentTerm
        => a = b

\* handleRequestVoteRespLocked writes to n.votes and
\* handleAppendEntriesRespLocked to n.acks without a nil check: whenever the
\* role lets them reach the write, the map has been made.
NoNilMapWrite ==
    \A n \in Node :
        /\ node[n].role = Candidate => node[n].votes # {}
        /\ node[n].role = Leader => ~node[n].acksNil

\* A node backs at most one other node in a term, although losing its quorum
\* clears votedFor inside the term (becomeFollowerLocked): only a node that
\* voted for itself can reach that line.
OneVotePerTerm ==
    \A g, h \in granted :
        /\ g[1] = h[1] /\ g[3] = h[3]
        /\ g[2] # g[1] /\ h[2] # h[1]
        => g[2] = h[2]

\* The votes a leader counted were all given to it in the term it leads,
\* however late the responses arrived and whatever the voters did since
\* (the term and role tests of handleRequestVoteRespLocked).
LeaderHasMandate ==
    \A n \in Node :
        node[n].role = Leader => Quorum({v \in Node : <<v, n, node[n].currentTerm>> \in granted})

\* Over the whole run a term is won at most once, which is what "term-gated
\* majority voting" promises.
ElectionSafety ==
    \A e, f \in elected : e[2] = f[2] => e[1] = f[1]
=============================================================================
