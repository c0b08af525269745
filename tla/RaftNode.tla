------------------------------ MODULE RaftNode ------------------------------
(***************************************************************************)
(* The node-local part of internal/distributed/coordination: what one      *)
(* coordination.Node does to its own fields when it handles a message and  *)
(* when its timers advance.  Every handler of the code is an operator from *)
(* the node's state s (a record with the fields of the Go struct) to its   *)
(* state afterwards, so that the asynchronous cluster (Coordination) and   *)
(* the lock-step cluster (CoordinationLockstep) share one definition.      *)
(*                                                                         *)
(* Representation.                                                         *)
(*  - outbox[p] holds, in order, the messages the running Tick has         *)
(*    buffered for p.  The order between different destinations is the     *)
(*    order of cfg.Peers, which is the caller's choice, and is left open.  *)
(*  - acks[p] is the age n.tick - acks[p] of p's last acknowledgement,     *)
(*    saturated at Stale, one past the freshness window: hasQuorumLocked   *)
(*    cannot tell an absent entry, or an older one, from Stale.  With      *)
(*    ages the tick counter itself is not needed.  acksNil says that the   *)
(*    map is nil; votes is nil exactly when it is {}, because a non-nil    *)
(*    votes map always holds the node itself.                              *)
(*  - a heartbeat's LeaderID always equals its From (only                  *)
(*    broadcastHeartbeatLocked builds one), so messages carry From only.   *)
(***************************************************************************)
EXTENDS Naturals, FiniteSets, Sequences

CONSTANTS
    Node,              \* the members of the cluster
    Nil,               \* Go's "" for an id and nil for a map
    HeartbeatTicks,
    ElectionTicksMin,
    ElectionTicksMax,
    QuorumLossTicks,
    QuorumAckTicks,
    MaxTerm            \* bound: no node starts an election at this term

\* NewNode normalises its configuration so that these hold for every node.
ASSUME ConfigAssumption ==
    /\ IsFiniteSet(Node) /\ Node # {}
    /\ Nil \notin Node
    /\ HeartbeatTicks \in Nat \ {0}
    /\ ElectionTicksMin \in Nat \ {0}
    /\ ElectionTicksMax \in Nat /\ ElectionTicksMin < ElectionTicksMax
    /\ QuorumLossTicks \in Nat \ {0}
    /\ QuorumAckTicks \in Nat \ {0}
    /\ MaxTerm \in Nat

Follower == "follower"
Candidate == "candidate"
Leader == "leader"

Stale == QuorumAckTicks + 1
Peers(n) == Node \ {n}
\* Mutant: half of the cluster is enough.
QuorumHalf(S) == Cardinality(S) >= Cardinality(Node) \div 2
Quorum(S) == Cardinality(S) >= Cardinality(Node) \div 2 + 1
Timeouts == ElectionTicksMin .. ElectionTicksMax - 1

RequestVote(t, n) == [type |-> "RequestVote", term |-> t, from |-> n, ok |-> FALSE]
RequestVoteResp(t, n, granted) ==
    [type |-> "RequestVoteResp", term |-> t, from |-> n, ok |-> granted]
AppendEntries(t, n) == [type |-> "AppendEntries", term |-> t, from |-> n, ok |-> FALSE]
AppendEntriesResp(t, n, success) ==
    [type |-> "AppendEntriesResp", term |-> t, from |-> n, ok |-> success]

Message == [type : {"RequestVote", "RequestVoteResp", "AppendEntries", "AppendEntriesResp"},
            term : Nat, from : Node, ok : BOOLEAN]

NodeState ==
    [role             : {Follower, Candidate, Leader},
     currentTerm      : Nat,
     votedFor         : Node \cup {Nil},
     leaderID         : Node \cup {Nil},
     electionTimeout  : Nat,
     electionElapsed  : Nat,
     votes            : SUBSET Node,
     heartbeatElapsed : Nat,
     acks             : [Node -> 0 .. Stale],
     acksNil          : BOOLEAN,
     quorumMissTicks  : Nat,
     outbox           : [Node -> Seq(Message)]]

-----------------------------------------------------------------------------
NoMessages == [p \in Node |-> << >>]
NoAcks == [p \in Node |-> Stale]

NewNode(timeout) ==
    [role |-> Follower, currentTerm |-> 0, votedFor |-> Nil, leaderID |-> Nil,
     electionTimeout |-> timeout, electionElapsed |-> 0,
     votes |-> {}, heartbeatElapsed |-> 0, acks |-> NoAcks, acksNil |-> TRUE,
     quorumMissTicks |-> 0, outbox |-> NoMessages]

Send(s, to, m) == [s EXCEPT !.outbox[to] = Append(@, m)]
Broadcast(n, s, m) ==
    [s EXCEPT !.outbox = [p \in Node |-> IF p = n THEN s.outbox[p] ELSE Append(s.outbox[p], m)]]

BecomeFollower(s, term) ==
    [s EXCEPT !.role = Follower, !.currentTerm = term, !.leaderID = Nil, !.votedFor = Nil,
              !.votes = {}, !.acks = NoAcks, !.acksNil = TRUE,
              !.electionElapsed = 0]

\* Mutant: the acks map is not made.
BecomeLeaderKeepsAcks(n, s) ==
    [s EXCEPT !.role = Leader, !.leaderID = n, !.votedFor = n,
              !.quorumMissTicks = 0, !.heartbeatElapsed = HeartbeatTicks]

BecomeLeader(n, s) ==
    [s EXCEPT !.role = Leader, !.leaderID = n, !.votedFor = n,
              !.acks = [NoAcks EXCEPT ![n] = 0], !.acksNil = FALSE,
              !.quorumMissTicks = 0, !.heartbeatElapsed = HeartbeatTicks]

HandleRequestVote(n, s, m) ==
    LET t == IF m.term > s.currentTerm
             THEN [s EXCEPT !.currentTerm = m.term, !.role = Follower,
                            !.votedFor = Nil, !.leaderID = Nil]
             ELSE s
        granted == m.term = t.currentTerm /\ t.votedFor \in {Nil, m.from}
        u == IF granted
             THEN [t EXCEPT !.votedFor = m.from, !.leaderID = Nil, !.electionElapsed = 0]
             ELSE t
    IN  Send(u, m.from, RequestVoteResp(u.currentTerm, n, granted))

\* Mutant: a refusal counts like a vote.
HandleRequestVoteRespAnyAnswer(n, s, m) ==
    IF m.term > s.currentTerm THEN BecomeFollower(s, m.term)
    ELSE IF s.role # Candidate \/ m.term # s.currentTerm THEN s
    ELSE LET t == [s EXCEPT !.votes = @ \cup {m.from}]
         IN  IF Quorum(t.votes) THEN BecomeLeader(n, t) ELSE t

HandleRequestVoteResp(n, s, m) ==
    IF m.term > s.currentTerm THEN BecomeFollower(s, m.term)
    ELSE IF s.role # Candidate \/ m.term # s.currentTerm \/ ~m.ok THEN s
    ELSE LET t == [s EXCEPT !.votes = @ \cup {m.from}]
         IN  IF Quorum(t.votes) THEN BecomeLeader(n, t) ELSE t

\* Mutant: every accepted heartbeat frees the vote, not only one of a new term.
HandleAppendEntriesFreesVote(n, s, m) ==
    IF m.term < s.currentTerm
    THEN Send(s, m.from, AppendEntriesResp(s.currentTerm, n, FALSE))
    ELSE Send([s EXCEPT !.currentTerm = m.term, !.votedFor = Nil,
                        !.role = Follower, !.leaderID = m.from, !.electionElapsed = 0],
              m.from, AppendEntriesResp(m.term, n, TRUE))

HandleAppendEntries(n, s, m) ==
    IF m.term < s.currentTerm
    THEN Send(s, m.from, AppendEntriesResp(s.currentTerm, n, FALSE))
    ELSE Send([s EXCEPT !.currentTerm = m.term,
                        !.votedFor = IF m.term > s.currentTerm THEN Nil ELSE @,
                        !.role = Follower, !.leaderID = m.from, !.electionElapsed = 0],
              m.from, AppendEntriesResp(m.term, n, TRUE))

HandleAppendEntriesResp(s, m) ==
    IF m.term > s.currentTerm THEN BecomeFollower(s, m.term)
    ELSE IF s.role = Leader /\ m.term = s.currentTerm /\ m.ok
    THEN [s EXCEPT !.acks[m.from] = 0]
    ELSE s

Handle(n, s, m) ==
    CASE m.type = "RequestVote"       -> HandleRequestVote(n, s, m)
      [] m.type = "RequestVoteResp"   -> HandleRequestVoteResp(n, s, m)
      [] m.type = "AppendEntries"     -> HandleAppendEntries(n, s, m)
      [] m.type = "AppendEntriesResp" -> HandleAppendEntriesResp(s, m)

-----------------------------------------------------------------------------

\* n.tick++ makes every recorded acknowledgement one tick older.
AgeAcks(s) == [s EXCEPT !.acks = [p \in Node |-> IF s.acks[p] < Stale THEN s.acks[p] + 1 ELSE Stale]]

HasQuorum(n, s) == Quorum({n} \cup {p \in Peers(n) : s.acks[p] <= QuorumAckTicks})

StartElection(n, s, timeout) ==
    LET t == Broadcast(n, [s EXCEPT !.role = Candidate, !.currentTerm = @ + 1,
                                    !.votedFor = n, !.leaderID = Nil,
                                    !.votes = {n},
                                    !.electionTimeout = timeout, !.electionElapsed = 0],
                       RequestVote(s.currentTerm + 1, n))
    IN  IF Quorum(t.votes) THEN BecomeLeader(n, t) ELSE t

\* Mutant: one tick too many.
ElectionTimerLate(n, s, timeout) ==
    IF s.electionElapsed >= s.electionTimeout
    THEN IF s.currentTerm < MaxTerm THEN StartElection(n, s, timeout) ELSE s
    ELSE [s EXCEPT !.electionElapsed = @ + 1]

ElectionTimer(n, s, timeout) ==
    IF s.electionElapsed + 1 >= s.electionTimeout
    THEN IF s.currentTerm < MaxTerm THEN StartElection(n, s, timeout) ELSE s
    ELSE [s EXCEPT !.electionElapsed = @ + 1]

HeartbeatTimer(n, s) ==
    IF s.heartbeatElapsed + 1 >= HeartbeatTicks
    THEN [Broadcast(n, s, AppendEntries(s.currentTerm, n)) EXCEPT !.heartbeatElapsed = 0]
    ELSE [s EXCEPT !.heartbeatElapsed = @ + 1]

\* Mutant: one tick too many.
QuorumTimerLate(n, s) ==
    IF HasQuorum(n, s) THEN [s EXCEPT !.quorumMissTicks = 0]
    ELSE IF s.quorumMissTicks + 1 > QuorumLossTicks
    THEN [BecomeFollower(s, s.currentTerm) EXCEPT !.quorumMissTicks = @ + 1]
    ELSE [s EXCEPT !.quorumMissTicks = @ + 1]

QuorumTimer(n, s) ==
    IF HasQuorum(n, s) THEN [s EXCEPT !.quorumMissTicks = 0]
    ELSE IF s.quorumMissTicks + 1 >= QuorumLossTicks
    THEN [BecomeFollower(s, s.currentTerm) EXCEPT !.quorumMissTicks = @ + 1]
    ELSE [s EXCEPT !.quorumMissTicks = @ + 1]

StepTimers(n, s, timeout) ==
    IF s.role = Leader THEN QuorumTimer(n, HeartbeatTimer(n, s)) ELSE ElectionTimer(n, s, timeout)
=============================================================================
