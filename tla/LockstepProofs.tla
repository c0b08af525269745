--------------------------- MODULE LockstepProofs ---------------------------
(***************************************************************************)
(* How long a leader that has lost its majority keeps the role, for every  *)
(* cluster size, order of ticks, timer configuration and sequence of       *)
(* partitions.                                                             *)
(*                                                                         *)
(* The argument.  While the members a leader has met are no majority, only *)
(* those members can have refreshed their acknowledgements, so the other   *)
(* acknowledgements are as old as the count of rounds.  Once the count is  *)
(* past the freshness window, every round misses the quorum and the miss   *)
(* counter keeps up with the count; at its limit the role is given up.     *)
(***************************************************************************)
EXTENDS CoordinationLockstep, Folding

\* The messages of an inbox or of one peer's part of an outbox.
Elems(q) == {q[i] : i \in 1 .. Len(q)}

\* Everything in the outbox was sent by n.
Own(n, o) == \A p \in Node : \A m \in Elems(o[p]) : m.from = n

\* What the lease of a leader depends on.
SameLease(s, r) ==
  r.role = s.role /\ r.acks = s.acks /\ r.quorumMissTicks = s.quorumMissTicks

\* The acknowledgements of the nodes outside M are k - 1 ticks old, and the
\* ticks without a quorum are what k exceeds the freshness window by.
Clock(s, M, k) ==
  /\ s.quorumMissTicks < QuorumLossTicks
  /\ k <= QuorumAckTicks + 1 + s.quorumMissTicks
  /\ \A p \in Node \ M : k - 1 <= s.acks[p] \/ s.acks[p] = Stale

\* What is waiting for n was sent by nodes that n has met, or that are on its
\* side in this round.
Lease(n) ==
  /\ node[n].role = Leader
  /\ Clock(node[n], met[n], cutOff[n])
  /\ \A m \in Elems(inbox[n]) : m.from \in met[n] \/ (pos > 1 /\ m.from \in Side(n))

\* The inductive invariant.  Nodes that have ticked in this round have met
\* their side.
LeaseInv ==
  /\ node \in [Node -> NodeState] /\ inbox \in [Node -> Seq(Message)]
  /\ pos \in 1 .. Len(Order) /\ met \in [Node -> SUBSET Node] /\ cutOff \in [Node -> Nat]
  /\ \A n \in Node : node[n].outbox = NoMessages
  /\ \A n \in Node : cutOff[n] > 0 => Lease(n)
  /\ \A j \in 1 .. pos - 1 : cutOff[Order[j]] > 0 => Side(Order[j]) \subseteq met[Order[j]]

-----------------------------------------------------------------------------
(* The messages a node sends are its own.                                  *)

\* Appending a message adds it to the messages of a queue.
LEMMA ElemsAppend ==
  ASSUME NEW S, NEW q \in Seq(S), NEW m \in S
  PROVE  Append(q, m) \in Seq(S) /\ Elems(Append(q, m)) = Elems(q) \cup {m}
BY DEF Elems

\* The messages n makes carry its own name.
LEMMA OwnMessages ==
  ASSUME NEW n \in Node, NEW t \in Nat, NEW b \in BOOLEAN
  PROVE  /\ RequestVote(t, n) \in Message /\ RequestVote(t, n).from = n
         /\ RequestVoteResp(t, n, b) \in Message /\ RequestVoteResp(t, n, b).from = n
         /\ AppendEntries(t, n) \in Message /\ AppendEntries(t, n).from = n
         /\ AppendEntriesResp(t, n, b) \in Message /\ AppendEntriesResp(t, n, b).from = n
BY DEF RequestVote, RequestVoteResp, AppendEntries, AppendEntriesResp, Message

\* send puts a message of n in its outbox and leaves its lease alone.
LEMMA SendOwn ==
  ASSUME NEW n, NEW s \in NodeState, NEW to \in Node, NEW m \in Message, m.from = n, Own(n, s.outbox)
  PROVE  LET r == Send(s, to, m) IN r \in NodeState /\ SameLease(s, r) /\ Own(n, r.outbox)
<1> DEFINE o == [s.outbox EXCEPT ![to] = Append(@, m)]
<1>1. s.outbox \in [Node -> Seq(Message)]
  BY DEF NodeState
<1>2. o \in [Node -> Seq(Message)]
  BY <1>1, ElemsAppend
<1>3. Own(n, o)
  BY <1>1, ElemsAppend DEF Own
<1>4. Send(s, to, m) = [s EXCEPT !.outbox = o]
  BY DEF Send, NodeState
<1> HIDE DEF o
<1>5. [s EXCEPT !.outbox = o] \in NodeState /\ [s EXCEPT !.outbox = o].outbox = o
  BY <1>2, Zenon DEF NodeState
<1>6. SameLease(s, [s EXCEPT !.outbox = o])
  BY DEF SameLease, NodeState
<1> QED
  BY <1>3, <1>4, <1>5, <1>6, Zenon

\* broadcast puts a message of n in its outbox and leaves its lease alone.
LEMMA BroadcastOwn ==
  ASSUME NEW n \in Node, NEW s \in NodeState, NEW m \in Message, m.from = n, Own(n, s.outbox)
  PROVE  LET r == Broadcast(n, s, m) IN r \in NodeState /\ SameLease(s, r) /\ Own(n, r.outbox)
<1> DEFINE o == [p \in Node |-> IF p = n THEN s.outbox[p] ELSE Append(s.outbox[p], m)]
<1>1. s.outbox \in [Node -> Seq(Message)]
  BY DEF NodeState
<1>2. o \in [Node -> Seq(Message)]
  BY <1>1, ElemsAppend
<1>3. Own(n, o)
  BY <1>1, ElemsAppend DEF Own
<1>4. Broadcast(n, s, m) = [s EXCEPT !.outbox = o]
  BY DEF Broadcast
<1> HIDE DEF o
<1>5. [s EXCEPT !.outbox = o] \in NodeState /\ [s EXCEPT !.outbox = o].outbox = o
  BY <1>2, Zenon DEF NodeState
<1>6. SameLease(s, [s EXCEPT !.outbox = o])
  BY DEF SameLease, NodeState
<1> QED
  BY <1>3, <1>4, <1>5, <1>6, Zenon

\* An acknowledgement that never came is Stale.
LEMMA StaleType == Stale \in Nat /\ NoAcks \in [Node -> 0 .. Stale]
BY ConfigAssumption DEF Stale, NoAcks

\* becomeFollowerLocked sends nothing.
LEMMA FollowerOwn ==
  ASSUME NEW s \in NodeState, NEW t \in Nat
  PROVE  LET r == BecomeFollower(s, t)
         IN  r \in NodeState /\ r.role = Follower /\ r.outbox = s.outbox
BY StaleType, Zenon DEF BecomeFollower, NodeState, Follower

\* becomeLeaderLocked sends nothing.
LEMMA LeaderOwn ==
  ASSUME NEW n \in Node, NEW s \in NodeState
  PROVE  BecomeLeader(n, s) \in NodeState /\ BecomeLeader(n, s).outbox = s.outbox
<1>1. [NoAcks EXCEPT ![n] = 0] \in [Node -> 0 .. Stale]
  BY StaleType DEF NoAcks
<1> QED
  BY <1>1, ConfigAssumption, Zenon DEF BecomeLeader, NodeState, Leader

-----------------------------------------------------------------------------
(* Handling messages.                                                      *)

\* What handling m may do to n: a leader stays one or follows, and while it
\* leads only the sender's acknowledgement is refreshed.
Handled(n, from, s, r) ==
  /\ r \in NodeState /\ Own(n, r.outbox)
  /\ r.role \in {s.role, Follower} \/ s.role = Candidate
  /\ s.role = Leader /\ r.role = Leader =>
       /\ r.quorumMissTicks = s.quorumMissTicks
       /\ \A p \in Node \ {from} : r.acks[p] = s.acks[p]

\* The three roles differ.
LEMMA RoleNames == Follower # Candidate /\ Follower # Leader /\ Candidate # Leader
BY DEF Follower, Candidate, Leader

\* A handler that leaves the lease alone.
LEMMA QuietHandled ==
  ASSUME NEW n, NEW from, NEW s \in NodeState, NEW r \in NodeState, SameLease(s, r), Own(n, r.outbox)
  PROVE  Handled(n, from, s, r)
BY DEF Handled, SameLease

\* A handler that makes n a follower.
LEMMA FollowHandled ==
  ASSUME NEW n, NEW from, NEW s, NEW r \in NodeState, r.role = Follower, Own(n, r.outbox)
  PROVE  Handled(n, from, s, r)
BY RoleNames DEF Handled

\* handleRequestVoteLocked: a leader follows a newer term or stays as it was.
LEMMA HandleRequestVoteOwn ==
  ASSUME NEW n \in Node, NEW s \in NodeState, NEW m \in Message, Own(n, s.outbox)
  PROVE  Handled(n, m.from, s, HandleRequestVote(n, s, m))
<1> DEFINE t == IF m.term > s.currentTerm
                THEN [s EXCEPT !.currentTerm = m.term, !.role = Follower,
                               !.votedFor = Nil, !.leaderID = Nil]
                ELSE s
           ok == m.term = t.currentTerm /\ t.votedFor \in {Nil, m.from}
           u == IF ok
                THEN [t EXCEPT !.votedFor = m.from, !.leaderID = Nil, !.electionElapsed = 0]
                ELSE t
           x == RequestVoteResp(u.currentTerm, n, ok)
           r == Send(u, m.from, x)
<1>1. HandleRequestVote(n, s, m) = r
  BY DEF HandleRequestVote
<1>2. /\ t \in NodeState /\ t.outbox = s.outbox
      /\ t.role = Follower \/ t = s
  BY Zenon DEF NodeState, Message, Follower
<1> HIDE DEF t
<1>3. u \in NodeState /\ u.outbox = t.outbox /\ SameLease(t, u)
  BY <1>2, Zenon DEF NodeState, Message, SameLease
<1>4. ok \in BOOLEAN /\ m.from \in Node /\ u.currentTerm \in Nat
  BY <1>3 DEF NodeState, Message
<1> HIDE DEF u, ok
<1>5. x \in Message /\ x.from = n
  BY <1>4, OwnMessages
<1> HIDE DEF x
<1>6. r \in NodeState /\ SameLease(u, r) /\ Own(n, r.outbox)
  BY <1>2, <1>3, <1>4, <1>5, SendOwn, Zenon
<1> HIDE DEF r
<1>7. SameLease(t, r)
  BY <1>3, <1>6 DEF SameLease
<1>8. CASE t = s
  BY <1>1, <1>6, <1>7, <1>8, QuietHandled
<1>9. CASE t.role = Follower
  BY <1>1, <1>6, <1>7, <1>9, FollowHandled DEF SameLease
<1> QED
  BY <1>2, <1>8, <1>9

\* handleRequestVoteRespLocked: a leader takes no votes any more.
LEMMA HandleRequestVoteRespOwn ==
  ASSUME NEW n \in Node, NEW s \in NodeState, NEW m \in Message, Own(n, s.outbox)
  PROVE  Handled(n, m.from, s, HandleRequestVoteResp(n, s, m))
<1> DEFINE t == [s EXCEPT !.votes = @ \cup {m.from}]
           b == BecomeFollower(s, m.term)
           l == BecomeLeader(n, t)
<1>0. m.term \in Nat /\ m.from \in Node
  BY DEF Message
<1>1. \/ HandleRequestVoteResp(n, s, m) \in {b, s}
      \/ s.role = Candidate /\ HandleRequestVoteResp(n, s, m) \in {l, t}
  BY DEF HandleRequestVoteResp
<1>2. b \in NodeState /\ b.role = Follower /\ b.outbox = s.outbox
  BY <1>0, FollowerOwn
<1>3. t \in NodeState /\ t.outbox = s.outbox
  BY <1>0, Zenon DEF NodeState
<1> HIDE DEF b, t
<1>4. l \in NodeState /\ l.outbox = t.outbox
  BY <1>3, LeaderOwn
<1> HIDE DEF l
<1>5. Handled(n, m.from, s, b) /\ Handled(n, m.from, s, s)
  BY <1>2, FollowHandled, QuietHandled DEF SameLease
<1>6. s.role = Candidate => Handled(n, m.from, s, l) /\ Handled(n, m.from, s, t)
  BY <1>3, <1>4, RoleNames DEF Handled
<1> QED
  BY <1>1, <1>5, <1>6

\* handleAppendEntriesLocked: a leader follows another or stays as it was.
LEMMA HandleAppendEntriesOwn ==
  ASSUME NEW n \in Node, NEW s \in NodeState, NEW m \in Message, Own(n, s.outbox)
  PROVE  Handled(n, m.from, s, HandleAppendEntries(n, s, m))
<1> DEFINE t == [s EXCEPT !.currentTerm = m.term,
                          !.votedFor = IF m.term > s.currentTerm THEN Nil ELSE @,
                          !.role = Follower, !.leaderID = m.from, !.electionElapsed = 0]
           x == AppendEntriesResp(s.currentTerm, n, FALSE)
           y == AppendEntriesResp(m.term, n, TRUE)
           a == Send(s, m.from, x)
           b == Send(t, m.from, y)
<1>0. m.term \in Nat /\ s.currentTerm \in Nat /\ m.from \in Node
  BY DEF NodeState, Message
<1>1. HandleAppendEntries(n, s, m) \in {a, b}
  BY Zenon DEF HandleAppendEntries
<1>2. x \in Message /\ x.from = n /\ y \in Message /\ y.from = n
  BY <1>0, OwnMessages, Zenon
<1>3. t \in NodeState /\ t.outbox = s.outbox /\ t.role = Follower
  BY <1>0, Zenon DEF NodeState, Follower
<1> HIDE DEF x, y, t
<1>4. a \in NodeState /\ SameLease(s, a) /\ Own(n, a.outbox)
  BY <1>0, <1>2, SendOwn, Zenon
<1>5. b \in NodeState /\ SameLease(t, b) /\ Own(n, b.outbox)
  BY <1>0, <1>2, <1>3, SendOwn, Zenon
<1> HIDE DEF a, b
<1>6. Handled(n, m.from, s, a) /\ Handled(n, m.from, s, b)
  BY <1>3, <1>4, <1>5, QuietHandled, FollowHandled DEF SameLease
<1> QED
  BY <1>1, <1>6

\* handleAppendEntriesRespLocked: a leader refreshes the sender's acknowledgement
\* and no other.
LEMMA HandleAppendEntriesRespOwn ==
  ASSUME NEW n \in Node, NEW s \in NodeState, NEW m \in Message, Own(n, s.outbox)
  PROVE  Handled(n, m.from, s, HandleAppendEntriesResp(s, m))
<1> DEFINE a == [s.acks EXCEPT ![m.from] = 0]
           b == BecomeFollower(s, m.term)
           t == [s EXCEPT !.acks = a]
<1>0. m.term \in Nat /\ m.from \in Node
  BY DEF Message
<1>1. a \in [Node -> 0 .. Stale] /\ \A p \in Node \ {m.from} : a[p] = s.acks[p]
  <2>1. s.acks \in [Node -> 0 .. Stale] /\ 0 \in 0 .. Stale
    BY StaleType DEF NodeState
  <2> QED
    BY <1>0, <2>1
<1>2. HandleAppendEntriesResp(s, m) \in {b, s, t}
  <2>1. [s EXCEPT !.acks[m.from] = 0] = t
    BY Zenon DEF NodeState
  <2> HIDE DEF b, t
  <2>2. CASE m.term > s.currentTerm
    BY <2>2 DEF HandleAppendEntriesResp, b
  <2>3. CASE ~(m.term > s.currentTerm)
    <3>1. HandleAppendEntriesResp(s, m)
             \in {s, [s EXCEPT !.acks[m.from] = 0]}
      BY <2>3, Zenon DEF HandleAppendEntriesResp
    <3> QED
      BY <2>1, <3>1
  <2> QED
    BY <2>2, <2>3
<1> HIDE DEF a
<1>3. b \in NodeState /\ b.role = Follower /\ b.outbox = s.outbox
  BY <1>0, FollowerOwn
<1>4. /\ t \in NodeState /\ t.outbox = s.outbox /\ t.role = s.role /\ t.acks = a
      /\ t.quorumMissTicks = s.quorumMissTicks
  BY <1>1, Zenon DEF NodeState
<1> HIDE DEF b, t
<1>5. Handled(n, m.from, s, b) /\ Handled(n, m.from, s, s)
  BY <1>3, FollowHandled, QuietHandled DEF SameLease
<1>6. Handled(n, m.from, s, t)
  BY <1>1, <1>4 DEF Handled
<1> QED
  BY <1>2, <1>5, <1>6

\* No message refreshes an acknowledgement but that of its sender.
LEMMA HandleOwn ==
  ASSUME NEW n \in Node, NEW s \in NodeState, NEW m \in Message, Own(n, s.outbox)
  PROVE  Handled(n, m.from, s, Handle(n, s, m))
<1>1. Handle(n, s, m) \in {HandleRequestVote(n, s, m), HandleRequestVoteResp(n, s, m),
                           HandleAppendEntries(n, s, m), HandleAppendEntriesResp(s, m)}
  BY DEF Handle, Message
<1> QED
  BY <1>1, HandleRequestVoteOwn, HandleRequestVoteRespOwn, HandleAppendEntriesOwn, HandleAppendEntriesRespOwn

-----------------------------------------------------------------------------
(* The timers.                                                             *)

\* A tick makes every acknowledgement one tick older, up to Stale.
LEMMA AgeAcksOwn ==
  ASSUME NEW n, NEW s \in NodeState, Own(n, s.outbox)
  PROVE  LET r == AgeAcks(s)
         IN  /\ r \in NodeState /\ Own(n, r.outbox)
             /\ r.role = s.role /\ r.quorumMissTicks = s.quorumMissTicks
             /\ \A p \in Node : s.acks[p] + 1 <= r.acks[p] \/ r.acks[p] = Stale
<1> DEFINE a == [p \in Node |-> IF s.acks[p] < Stale THEN s.acks[p] + 1 ELSE Stale]
<1>0. s.acks \in [Node -> 0 .. Stale]
  BY DEF NodeState
<1>1. a \in [Node -> 0 .. Stale] /\ \A p \in Node : s.acks[p] + 1 <= a[p] \/ a[p] = Stale
  BY <1>0, StaleType
<1>2. AgeAcks(s) = [s EXCEPT !.acks = a]
  BY DEF AgeAcks
<1> HIDE DEF a
<1>3. [s EXCEPT !.acks = a] \in NodeState
  BY <1>1, Zenon DEF NodeState
<1>4. /\ [s EXCEPT !.acks = a].role = s.role /\ [s EXCEPT !.acks = a].acks = a
      /\ [s EXCEPT !.acks = a].quorumMissTicks = s.quorumMissTicks
      /\ [s EXCEPT !.acks = a].outbox = s.outbox
  BY Zenon DEF NodeState
<1> QED
  BY <1>1, <1>2, <1>3, <1>4, Zenon

\* What the timers make of n: unless it is alone in the cluster, it leads after
\* them only if it led before, with the same acknowledgements, and either they
\* are a quorum or the tick counts as one without.
Timed(n, s, r) ==
  /\ r \in NodeState /\ Own(n, r.outbox)
  /\ r.role = Leader /\ ~Quorum({n}) =>
       /\ s.role = Leader /\ r.acks = s.acks /\ r.quorumMissTicks < QuorumLossTicks
       /\ HasQuorum(n, s) \/ r.quorumMissTicks = s.quorumMissTicks + 1

\* The election timer makes nobody a leader who needs the vote of another.
LEMMA ElectionTimerOwn ==
  ASSUME NEW n \in Node, NEW s \in NodeState, NEW timeout \in Nat, Own(n, s.outbox),
         s.role # Leader
  PROVE  Timed(n, s, ElectionTimer(n, s, timeout))
<1> DEFINE u == [s EXCEPT !.role = Candidate, !.currentTerm = @ + 1,
                          !.votedFor = n, !.leaderID = Nil,
                          !.votes = {n},
                          !.electionTimeout = timeout, !.electionElapsed = 0]
           x == RequestVote(s.currentTerm + 1, n)
           t == Broadcast(n, u, x)
           w == [s EXCEPT !.electionElapsed = @ + 1]
<1>1. s.currentTerm + 1 \in Nat /\ s.electionElapsed + 1 \in Nat
  BY DEF NodeState
<1>2. u \in NodeState /\ u.role = Candidate /\ u.votes = {n} /\ u.outbox = s.outbox
  BY <1>1, Zenon DEF NodeState, Candidate
<1>3. x \in Message /\ x.from = n
  BY <1>1, OwnMessages, Zenon
<1>4. w \in NodeState /\ w.role = s.role /\ w.outbox = s.outbox
  BY <1>1, Zenon DEF NodeState
<1>5. StartElection(n, s, timeout) = IF Quorum(t.votes) THEN BecomeLeader(n, t) ELSE t
  BY DEF StartElection
<1>6. ElectionTimer(n, s, timeout) \in {StartElection(n, s, timeout), s, w}
  BY DEF ElectionTimer
<1>7. t.votes = u.votes
  <2> HIDE DEF u, x
  <2> QED
    BY <1>2, Zenon DEF Broadcast, NodeState
<1> HIDE DEF u, x, w
<1>8. t \in NodeState /\ SameLease(u, t) /\ Own(n, t.outbox)
  BY <1>2, <1>3, BroadcastOwn, Zenon
<1> HIDE DEF t
<1>9. /\ BecomeLeader(n, t) \in NodeState /\ Own(n, BecomeLeader(n, t).outbox)
      /\ \/ ElectionTimer(n, s, timeout) \in {t, s, w}
         \/ ElectionTimer(n, s, timeout) = BecomeLeader(n, t) /\ Quorum({n})
  BY <1>2, <1>5, <1>6, <1>7, <1>8, LeaderOwn
<1>10. Timed(n, s, t) /\ Timed(n, s, s) /\ Timed(n, s, w)
  BY <1>2, <1>4, <1>8, RoleNames DEF Timed, SameLease
<1> QED
  BY <1>9, <1>10 DEF Timed

\* A heartbeat leaves the lease alone.
LEMMA HeartbeatTimerOwn ==
  ASSUME NEW n \in Node, NEW s \in NodeState, Own(n, s.outbox)
  PROVE  LET r == HeartbeatTimer(n, s) IN r \in NodeState /\ SameLease(s, r) /\ Own(n, r.outbox)
<1> DEFINE x == AppendEntries(s.currentTerm, n)
           t == Broadcast(n, s, x)
           u == [t EXCEPT !.heartbeatElapsed = 0]
           w == [s EXCEPT !.heartbeatElapsed = @ + 1]
<1>1. x \in Message /\ x.from = n
  BY OwnMessages DEF NodeState
<1>2. HeartbeatTimer(n, s) = IF s.heartbeatElapsed + 1 >= HeartbeatTicks THEN u ELSE w
  BY DEF HeartbeatTimer
<1> HIDE DEF x
<1>3. t \in NodeState /\ SameLease(s, t) /\ Own(n, t.outbox)
  BY <1>1, BroadcastOwn, Zenon
<1> HIDE DEF t
<1>4. u \in NodeState /\ SameLease(t, u) /\ u.outbox = t.outbox
  BY <1>3, Zenon DEF NodeState, SameLease
<1>5. s.heartbeatElapsed + 1 \in Nat
  BY DEF NodeState
<1>6. w \in NodeState /\ SameLease(s, w) /\ w.outbox = s.outbox
  BY <1>5, Zenon DEF NodeState, SameLease
<1> HIDE DEF u, w
<1>7. SameLease(s, u)
  BY <1>3, <1>4 DEF SameLease
<1> QED
  BY <1>2, <1>3, <1>4, <1>6, <1>7

\* The quorum branch of stepTimersLocked: a leader without fresh acknowledgements
\* of a majority counts the tick, and gives up at QuorumLossTicks of them.
LEMMA QuorumTimerOwn ==
  ASSUME NEW n \in Node, NEW s \in NodeState, Own(n, s.outbox), s.role = Leader
  PROVE  Timed(n, s, QuorumTimer(n, s))
<1> DEFINE k == s.quorumMissTicks + 1
           b == BecomeFollower(s, s.currentTerm)
           u == [s EXCEPT !.quorumMissTicks = 0]
           w == [s EXCEPT !.quorumMissTicks = k]
           j == b.quorumMissTicks + 1
           z == [b EXCEPT !.quorumMissTicks = j]
<1>0. s.currentTerm \in Nat /\ k \in Nat
  BY DEF NodeState
<1>1. \/ HasQuorum(n, s) /\ QuorumTimer(n, s) = u
      \/ k < QuorumLossTicks /\ QuorumTimer(n, s) = w
      \/ QuorumTimer(n, s) = z
  <2>1. QuorumTimer(n, s) = IF HasQuorum(n, s) THEN u ELSE IF k >= QuorumLossTicks THEN z ELSE w
    BY DEF QuorumTimer
  <2> HIDE DEF u, w, z, k
  <2> QED
    BY <1>0, <2>1, ConfigAssumption
<1>2. u \in NodeState /\ u.acks = s.acks /\ u.quorumMissTicks = 0 /\ u.outbox = s.outbox
  BY Zenon DEF NodeState
<1>k. k = s.quorumMissTicks + 1
  OBVIOUS
<1> HIDE DEF k
<1>3. w \in NodeState /\ w.acks = s.acks /\ w.quorumMissTicks = k /\ w.outbox = s.outbox
  BY <1>0, Zenon DEF NodeState
<1>4. b \in NodeState /\ b.role = Follower /\ b.outbox = s.outbox
  BY <1>0, FollowerOwn
<1> HIDE DEF b
<1>5. j \in Nat
  <2>1. b.quorumMissTicks \in Nat
    BY <1>4 DEF NodeState
  <2> QED
    BY <2>1
<1> HIDE DEF j
<1>6. z \in NodeState /\ z.role = Follower /\ z.outbox = s.outbox
  BY <1>4, <1>5, Zenon DEF NodeState
<1> HIDE DEF u, w, z
<1>7. 0 < QuorumLossTicks
  BY ConfigAssumption
<1> QED
  BY <1>1, <1>2, <1>3, <1>6, <1>7, <1>k, RoleNames DEF Timed

\* The timers of a node of any role.
LEMMA StepTimersOwn ==
  ASSUME NEW n \in Node, NEW s \in NodeState, NEW timeout \in Nat, Own(n, s.outbox)
  PROVE  Timed(n, s, StepTimers(n, s, timeout))
<1>1. CASE s.role # Leader
  BY <1>1, ElectionTimerOwn DEF StepTimers
<1>2. CASE s.role = Leader
  <2> DEFINE t == HeartbeatTimer(n, s)
             r == QuorumTimer(n, t)
  <2>1. StepTimers(n, s, timeout) = r
    BY <1>2 DEF StepTimers
  <2>2. t \in NodeState /\ SameLease(s, t) /\ Own(n, t.outbox)
    BY HeartbeatTimerOwn
  <2> HIDE DEF t
  <2>3. Timed(n, t, r)
    BY <1>2, <2>2, QuorumTimerOwn DEF SameLease
  <2>4. HasQuorum(n, t) <=> HasQuorum(n, s)
    BY <2>2 DEF HasQuorum, SameLease
  <2> HIDE DEF r
  <2> QED
    BY <2>1, <2>2, <2>3, <2>4 DEF Timed, SameLease
<1> QED
  BY <1>1, <1>2

-----------------------------------------------------------------------------
(* One tick.                                                               *)

\* The states n passes through while it handles messages of the nodes in R.
After(n, R, s) ==
  {r \in NodeState :
     /\ Own(n, r.outbox)
     /\ s.role = Leader =>
          /\ r.role # Candidate
          /\ r.role = Leader => /\ r.quorumMissTicks = s.quorumMissTicks
                                /\ \A p \in Node \ R : r.acks[p] = s.acks[p]}

\* Handling one message of a node in R.
LEMMA AfterHandle ==
  ASSUME NEW n \in Node, NEW R, NEW s, NEW r \in After(n, R, s), NEW m \in Message, m.from \in R
  PROVE  Handle(n, r, m) \in After(n, R, s)
<1>1. r \in NodeState /\ Own(n, r.outbox)
  BY DEF After
<1>2. Handled(n, m.from, r, Handle(n, r, m))
  BY <1>1, HandleOwn
<1>3. PICK h : h = Handle(n, r, m)
  OBVIOUS
<1>4. r.role \in {Follower, Candidate, Leader}
  BY <1>1 DEF NodeState
<1>5. h \in After(n, R, s)
  BY <1>2, <1>3, <1>4, RoleNames DEF After, Handled
<1> QED
  BY <1>3, <1>5

\* Handling a whole inbox, by the fold of Folding.
LEMMA AfterInbox ==
  ASSUME NEW n \in Node, NEW R, NEW s, NEW base \in After(n, R, s), NEW q \in Seq(Message),
         \A m \in Elems(q) : m.from \in R
  PROVE  FoldLeft(LAMBDA acc, m : Handle(n, acc, m), base, q) \in After(n, R, s)
<1> DEFINE C == After(n, R, s)
           D == DOMAIN q
           pick == [d \in SUBSET D |-> Max(d)]
           F == [x \in D |-> [c \in C |-> Handle(n, c, q[x])]]
           Eq(i) == i = [d \in SUBSET D |-> IF d = {} THEN base
                                            ELSE Handle(n, i[d \ {Max(d)}], q[Max(d)])]
           it == CHOOSE i : Eq(i)
<1>1. FoldLeft(LAMBDA acc, m : Handle(n, acc, m), base, q) = it[D]
  BY Zenon DEF FoldLeft, MapThenFoldSet
<1>2. PICK k \in Nat : D = 1 .. k /\ IsFiniteSet(D)
  BY FS_Interval
<1>3. Picks(pick, D)
  BY <1>2, MaxOf, Zenon DEF Picks
<1>4. F \in [D -> [C -> C]]
  <2>1. \A x \in D : q[x] \in Message /\ q[x].from \in R
    BY DEF Elems
  <2> QED
    BY <2>1, AfterHandle
<1> HIDE DEF D, C
<1>5. PICK h : Folds(h, D, C, base, pick, F)
  <2>1. base \in C
    BY DEF C
  <2> HIDE DEF pick, F
  <2> QED
    BY <1>2, <1>3, <1>4, <2>1, FoldExists
<1>6. Eq(h)
  BY <1>3, <1>5, Zenon DEF Folds, Picks
<1>7. Eq(it)
  BY <1>6, Zenon
<1> HIDE DEF it
<1>8. it[D] \in C
  <2>1. Follows(it, h, D, pick)
    BY <1>6, <1>7, Zenon DEF Follows
  <2> HIDE DEF pick, F
  <2> QED
    BY <1>2, <1>3, <1>5, <2>1, FoldStays
<1> QED
  BY <1>1, <1>8, Zenon DEF C

\* What a whole tick of n, from s to t, does to its lease.
Ticked(n, R, s, t) ==
  /\ t \in NodeState /\ Own(n, t.outbox)
  /\ t.role = Leader /\ ~Quorum({n}) =>
       /\ t.quorumMissTicks < QuorumLossTicks
       /\ s.role = Leader =>
            /\ \A p \in Node \ R : s.acks[p] + 1 <= t.acks[p] \/ t.acks[p] = Stale
            /\ HasQuorum(n, t) \/ t.quorumMissTicks = s.quorumMissTicks + 1

\* Ageing the acknowledgements, handling the inbox and running the timers.
LEMMA TickedBy ==
  ASSUME NEW n \in Node, NEW R, NEW timeout \in Nat, NEW s \in NodeState, s.outbox = NoMessages,
         NEW q \in Seq(Message), \A m \in Elems(q) : m.from \in R
  PROVE  Ticked(n, R, s, StepTimers(n, FoldLeft(LAMBDA acc, m : Handle(n, acc, m), AgeAcks(s), q),
                                    timeout))
<1>1. Own(n, s.outbox)
  BY DEF Own, Elems, NoMessages
<1>2. PICK a : a = AgeAcks(s)
  OBVIOUS
<1>3. /\ a \in NodeState /\ Own(n, a.outbox)
      /\ a.role = s.role /\ a.quorumMissTicks = s.quorumMissTicks
      /\ \A p \in Node : s.acks[p] + 1 <= a.acks[p] \/ a.acks[p] = Stale
  BY <1>1, <1>2, AgeAcksOwn, Zenon
<1>4. a \in After(n, R, a)
  BY <1>3, RoleNames DEF After
<1>5. FoldLeft(LAMBDA acc, m : Handle(n, acc, m), a, q) \in After(n, R, a)
  BY <1>4, AfterInbox, Zenon
<1>6. PICK h \in After(n, R, a) : h = FoldLeft(LAMBDA acc, m : Handle(n, acc, m), AgeAcks(s), q)
  BY <1>2, <1>5, Zenon
<1>7. h \in NodeState /\ Own(n, h.outbox)
  BY DEF After
<1>8. PICK t : t = StepTimers(n, h, timeout)
  OBVIOUS
<1>9. Timed(n, h, t)
  BY <1>7, <1>8, StepTimersOwn
<1>10. Ticked(n, R, s, t)
  <2>1. t.role = Leader /\ ~Quorum({n}) => (HasQuorum(n, h) <=> HasQuorum(n, t))
    BY <1>9, Zenon DEF HasQuorum, Timed
  <2> QED
    BY <1>3, <1>9, <2>1 DEF Ticked, Timed, After
<1> QED
  BY <1>6, <1>8, <1>10, Zenon

\* A set that holds a majority is a majority.
LEMMA MoreIsQuorum ==
  ASSUME NEW A \in SUBSET Node, NEW B \in SUBSET A, Quorum(B)
  PROVE  Quorum(A)
<1>1. IsFiniteSet(A) /\ IsFiniteSet(B) /\ Cardinality(B) <= Cardinality(A)
  BY ConfigAssumption, FS_Subset
<1>2. Cardinality(A) \in Nat /\ Cardinality(B) \in Nat /\ Cardinality(Node) \in Nat
  BY <1>1, ConfigAssumption, FS_CardinalityType
<1> QED
  BY <1>1, <1>2 DEF Quorum

\* The clock of a lease runs on while the members met are no majority.
LEMMA ClockTicks ==
  ASSUME NEW n \in Node, NEW R \in SUBSET Node, n \in R, ~Quorum(R), NEW M \in SUBSET R,
         NEW s \in NodeState, NEW t, NEW T, Ticked(n, T, s, t), t.role = Leader,
         NEW k \in Nat, k > 0 => T = R /\ s.role = Leader /\ Clock(s, M, k)
  PROVE  Clock(t, R, k + 1)
<1>1. ~Quorum({n})
  BY MoreIsQuorum
<1>2. t \in NodeState /\ t.quorumMissTicks < QuorumLossTicks
  BY <1>1 DEF Ticked
<1>3. /\ QuorumAckTicks \in Nat /\ Stale = QuorumAckTicks + 1
      /\ t.quorumMissTicks \in Nat /\ s.quorumMissTicks \in Nat
      /\ \A p \in Node : t.acks[p] \in Nat /\ s.acks[p] \in Nat
  BY <1>2, ConfigAssumption DEF NodeState, Stale
<1>4. CASE k = 0
  BY <1>2, <1>3, <1>4 DEF Clock
<1>5. CASE k > 0
  <2>1. \A p \in Node \ R : k <= t.acks[p] \/ t.acks[p] = Stale
    <3> SUFFICES ASSUME NEW p \in Node \ R PROVE k <= t.acks[p] \/ t.acks[p] = Stale
      OBVIOUS
    <3>1. s.acks[p] + 1 <= t.acks[p] \/ t.acks[p] = Stale
      BY <1>1, <1>5 DEF Ticked
    <3>2. k - 1 <= s.acks[p] \/ s.acks[p] = Stale
      BY <1>5 DEF Clock
    <3>3. t.acks[p] \in 0 .. Stale
      BY <1>2 DEF NodeState
    <3> QED
      BY <1>3, <3>1, <3>2, <3>3
  <2>2. k + 1 <= QuorumAckTicks + 1 + t.quorumMissTicks
    <3>1. CASE t.quorumMissTicks = s.quorumMissTicks + 1
      BY <1>3, <1>5, <3>1 DEF Clock
    <3>2. CASE HasQuorum(n, t)
      <4> DEFINE fresh == {n} \cup {p \in Peers(n) : t.acks[p] <= QuorumAckTicks}
      <4>1. ~(fresh \subseteq R)
        BY <3>2, MoreIsQuorum DEF HasQuorum, Peers
      <4>2. PICK p \in Node \ R : t.acks[p] <= QuorumAckTicks
        BY <4>1 DEF Peers
      <4> QED
        BY <1>3, <2>1, <4>2
    <3> QED
      BY <1>1, <1>5, <3>1, <3>2 DEF Ticked
  <2> QED
    BY <1>2, <2>1, <2>2 DEF Clock
<1> QED
  BY <1>4, <1>5

\* Tick replaces the state of n by one such tick's and empties the outbox.
LEMMA TickEffect ==
  ASSUME NEW n \in Node, NEW timeout \in Timeouts, Tick(n, timeout), NEW R,
         node[n] \in NodeState, node[n].outbox = NoMessages, inbox[n] \in Seq(Message),
         \A m \in Elems(inbox[n]) : m.from \in R
  PROVE  \E t : /\ Ticked(n, R, node[n], t)
                /\ node' = [node EXCEPT ![n] = [t EXCEPT !.outbox = NoMessages]]
                /\ inbox' = [p \in Node |->
                      (IF p = n THEN << >> ELSE inbox[p])
                         \o (IF groups[p] = groups[n] THEN t.outbox[p] ELSE << >>)]
<1>1. timeout \in Nat
  BY ConfigAssumption DEF Timeouts
<1> DEFINE t == StepTimers(n, FoldLeft(LAMBDA acc, m : Handle(n, acc, m), AgeAcks(node[n]), inbox[n]),
                           timeout)
<1>2. Ticked(n, R, node[n], t)
  BY <1>1, TickedBy, Zenon
<1>3. /\ node' = [node EXCEPT ![n] = [t EXCEPT !.outbox = NoMessages]]
      /\ inbox' = [p \in Node |->
            (IF p = n THEN << >> ELSE inbox[p])
               \o [x \in Node |-> IF groups[x] = groups[n] THEN t.outbox[x] ELSE << >>][p]]
  BY Zenon DEF Tick
<1> HIDE DEF t
<1> QED
  BY <1>2, <1>3, Zenon

-----------------------------------------------------------------------------
(* The invariant.                                                          *)

\* NewCluster starts without leaders.
LEMMA InitialLease == Init => LeaseInv
<1> SUFFICES ASSUME Init PROVE LeaseInv
  OBVIOUS
<1>1. NoMessages \in [Node -> Seq(Message)]
  BY DEF NoMessages
<1>2. ASSUME NEW t \in Timeouts PROVE NewNode(t) \in NodeState /\ NewNode(t).outbox = NoMessages
  <2>1. t \in Nat
    BY ConfigAssumption DEF Timeouts
  <2> QED
    BY <1>1, <2>1, StaleType DEF NewNode, NodeState
<1>3. node \in [Node -> NodeState] /\ \A n \in Node : node[n].outbox = NoMessages
  BY <1>2 DEF Init
<1>4. Len(Order) \in Nat /\ Len(Order) # 0
  BY OrderAssumption, ConfigAssumption, FS_EmptySet
<1> QED
  BY <1>1, <1>3, <1>4 DEF Init, LeaseInv

\* Delivering an outbox adds only its messages to an inbox.
LEMMA ElemsConcat ==
  ASSUME NEW S, NEW a \in Seq(S), NEW b \in Seq(S)
  PROVE  a \o b \in Seq(S) /\ Elems(a \o b) \subseteq Elems(a) \cup Elems(b)
BY DEF Elems

\* The next node of TickAll ticks and what it sent is delivered on its side.
LEMMA TickLease ==
  ASSUME LeaseInv, TickNext
  PROVE  LeaseInv'
<1>0. PICK n : n = Order[pos]
  OBVIOUS
<1> DEFINE seen == met[n] \cup Side(n)
           over == Quorum(seen) \/ node'[n].role # Leader
           R == IF cutOff[n] > 0 THEN seen ELSE Node
<1>1. /\ node \in [Node -> NodeState] /\ inbox \in [Node -> Seq(Message)]
      /\ pos \in 1 .. Len(Order) /\ met \in [Node -> SUBSET Node] /\ cutOff \in [Node -> Nat]
      /\ Len(Order) \in Nat
  BY OrderAssumption DEF LeaseInv
<1>2. n \in Node /\ n \in Side(n) /\ seen \in SUBSET Node
  BY <1>0, <1>1, OrderAssumption DEF Side
<1>3. PICK timeout \in Timeouts : Tick(n, timeout)
  BY <1>0 DEF TickNext
<1>4. /\ pos' = IF pos = Len(Order) THEN 1 ELSE pos + 1
      /\ met' = [met EXCEPT ![n] = IF over THEN {} ELSE seen]
      /\ cutOff' = [cutOff EXCEPT ![n] = IF over THEN 0 ELSE cutOff[n] + 1]
      /\ groups' = groups
  BY <1>0 DEF TickNext
<1>5. \A p \in Node : Side(p)' = Side(p)
  BY <1>4 DEF Side
<1>6. \A m \in Elems(inbox[n]) : m.from \in R
  <2>1. \A m \in Elems(inbox[n]) : m.from \in Node
    <3>1. \A i \in 1 .. Len(inbox[n]) : inbox[n][i] \in Message
      BY <1>1, <1>2
    <3> QED
      BY <3>1 DEF Elems, Message
  <2> QED
    BY <1>2, <2>1 DEF LeaseInv, Lease
<1>7. node[n].outbox = NoMessages /\ node[n] \in NodeState /\ inbox[n] \in Seq(Message)
  BY <1>1, <1>2 DEF LeaseInv
<1> HIDE DEF R
<1>8. PICK t : /\ Ticked(n, R, node[n], t)
               /\ node' = [node EXCEPT ![n] = [t EXCEPT !.outbox = NoMessages]]
               /\ inbox' = [p \in Node |->
                     (IF p = n THEN << >> ELSE inbox[p])
                        \o (IF groups[p] = groups[n] THEN t.outbox[p] ELSE << >>)]
  BY <1>2, <1>3, <1>6, <1>7, TickEffect, Zenon
<1>9. t \in NodeState /\ Own(n, t.outbox) /\ t.outbox \in [Node -> Seq(Message)]
  <2>1. t \in NodeState /\ Own(n, t.outbox)
    BY <1>8 DEF Ticked
  <2> QED
    BY <2>1 DEF NodeState
<1>10. PICK u : u = [t EXCEPT !.outbox = NoMessages]
  BY Zenon
<1>11. u \in NodeState /\ SameLease(t, u) /\ u.outbox = NoMessages
  <2>1. NoMessages \in [Node -> Seq(Message)]
    BY DEF NoMessages
  <2> QED
    BY <1>9, <1>10, <2>1, Zenon DEF NodeState, SameLease
<1>12. node' = [node EXCEPT ![n] = u]
  BY <1>8, <1>10
<1>13. node' \in [Node -> NodeState] /\ \A p \in Node : node'[p].outbox = NoMessages
  BY <1>1, <1>2, <1>11, <1>12 DEF LeaseInv
<1>14. /\ inbox' \in [Node -> Seq(Message)]
       /\ \A p \in Node : \A m \in Elems(inbox'[p]) :
             (p # n /\ m \in Elems(inbox[p])) \/ (m.from = n /\ n \in Side(p))
  <2> SUFFICES ASSUME NEW p \in Node
               PROVE  /\ inbox'[p] \in Seq(Message)
                      /\ \A m \in Elems(inbox'[p]) :
                           (p # n /\ m \in Elems(inbox[p])) \/ (m.from = n /\ n \in Side(p))
    BY <1>8
  <2> DEFINE old == IF p = n THEN << >> ELSE inbox[p]
             new == IF groups[p] = groups[n] THEN t.outbox[p] ELSE << >>
  <2>1. old \in Seq(Message) /\ \A m \in Elems(old) : p # n /\ m \in Elems(inbox[p])
    BY <1>1 DEF Elems
  <2>2. new \in Seq(Message) /\ \A m \in Elems(new) : m.from = n /\ n \in Side(p)
    BY <1>2, <1>9 DEF Elems, Own, Side
  <2>3. inbox'[p] = old \o new
    BY <1>8, Zenon
  <2> HIDE DEF old, new
  <2> QED
    BY <2>1, <2>2, <2>3, ElemsConcat
<1>15. pos' \in 1 .. Len(Order) /\ met' \in [Node -> SUBSET Node] /\ cutOff' \in [Node -> Nat]
  BY <1>1, <1>2, <1>4
<1>16. ASSUME cutOff'[n] > 0
       PROVE  Lease(n)' /\ Side(n)' \subseteq met'[n]
  <2>1. ~over /\ met'[n] = seen /\ cutOff'[n] = cutOff[n] + 1
    <3> HIDE DEF seen, over
    <3>1. /\ cutOff'[n] = IF over THEN 0 ELSE cutOff[n] + 1
          /\ met'[n] = IF over THEN {} ELSE seen
      BY <1>1, <1>2, <1>4
    <3> QED
      BY <1>16, <3>1
  <2>2. node'[n] = u /\ u.role = Leader /\ t.role = Leader /\ ~Quorum(seen)
    BY <1>1, <1>2, <1>11, <1>12, <2>1 DEF SameLease
  <2>3. cutOff[n] \in Nat /\ met[n] \in SUBSET seen /\ n \in seen
    BY <1>1, <1>2
  <2>4. cutOff[n] > 0 => R = seen /\ node[n].role = Leader /\ Clock(node[n], met[n], cutOff[n])
    BY <1>2 DEF LeaseInv, Lease, R
  <2>5. Clock(t, seen, cutOff[n] + 1)
    <3> HIDE DEF seen, over
    <3> QED
      BY <1>2, <1>7, <1>8, <2>2, <2>3, <2>4, ClockTicks, Zenon
  <2>6. Clock(u, seen, cutOff[n] + 1)
    <3>1. u.quorumMissTicks = t.quorumMissTicks /\ u.acks = t.acks
      BY <1>11 DEF SameLease
    <3> HIDE DEF seen, over
    <3> QED
      BY <2>5, <3>1, Zenon DEF Clock
  <2>7. \A m \in Elems(inbox'[n]) : m.from \in seen
    BY <1>2, <1>14
  <2>8. Clock(node'[n], met'[n], cutOff'[n])
    BY <2>1, <2>2, <2>6
  <2>9. Lease(n)'
    <3> HIDE DEF seen, over
    <3> QED
      BY <2>1, <2>2, <2>7, <2>8 DEF Lease
  <2> QED
    BY <1>2, <1>5, <2>1, <2>9
<1>17. ASSUME NEW p \in Node, p # n
       PROVE  node'[p] = node[p] /\ met'[p] = met[p] /\ cutOff'[p] = cutOff[p]
  BY <1>1, <1>4, <1>12, <1>17
<1>18. ASSUME NEW p \in Node, p # n, cutOff[p] > 0, pos' = 1
       PROVE  Side(p) \subseteq met[p]
  <2>1. PICK j \in 1 .. Len(Order) : p = Order[j]
    BY <1>1, OrderAssumption DEF ToSet
  <2>2. j # pos /\ pos = Len(Order)
    BY <1>0, <1>1, <1>4, <1>18, <2>1
  <2>3. j \in 1 .. pos - 1
    BY <1>1, <2>1, <2>2
  <2> QED
    BY <1>18, <2>1, <2>3 DEF LeaseInv
<1>19. ASSUME NEW p \in Node, p # n, cutOff'[p] > 0
       PROVE  Lease(p)'
  <2>1. Lease(p) /\ cutOff[p] > 0
    BY <1>17, <1>19 DEF LeaseInv
  <2>2. \A m \in Elems(inbox'[p]) : m.from \in met[p] \/ m.from \in Side(p)
    BY <1>14, <2>1 DEF Lease
  <2>3. \A m \in Elems(inbox'[p]) : m.from \in met[p] \/ (pos' > 1 /\ m.from \in Side(p))
    <3>1. CASE pos' = 1
      BY <1>18, <1>19, <2>1, <2>2, <3>1
    <3>2. CASE pos' > 1
      BY <2>2, <3>2
    <3> QED
      BY <1>1, <1>15, <3>1, <3>2
  <2> QED
    BY <1>5, <1>17, <1>19, <2>1, <2>3 DEF Lease, Clock
<1>20. ASSUME NEW j \in 1 .. pos' - 1, cutOff'[Order[j]] > 0
       PROVE  Side(Order[j])' \subseteq met'[Order[j]]
  <2>1. Order[j] \in Node /\ (Order[j] # n => j \in 1 .. pos - 1)
    <3>1. j \in 1 .. pos /\ j \in 1 .. Len(Order)
      BY <1>1, <1>4, <1>15
    <3> QED
      BY <1>0, <1>1, <3>1, OrderAssumption
  <2>2. CASE Order[j] = n
    BY <1>16, <1>20, <2>2
  <2>3. CASE Order[j] # n
    BY <1>5, <1>17, <1>20, <2>1, <2>3 DEF LeaseInv
  <2> QED
    BY <2>2, <2>3
<1>21. \A p \in Node : cutOff'[p] > 0 => Lease(p)'
  BY <1>2, <1>16, <1>19
<1> QED
  BY <1>13, <1>14, <1>15, <1>20, <1>21, Zenon DEF LeaseInv

\* The partition changes between two rounds only.
LEMMA CutLease ==
  ASSUME LeaseInv, pos = 1, UNCHANGED <<node, inbox, pos, met, cutOff>>
  PROVE  LeaseInv'
<1>1. \A n \in Node : Lease(n) => Lease(n)'
  BY DEF Lease
<1> QED
  BY <1>1 DEF LeaseInv

\* LeaseInv is inductive.
LEMMA LeaseStep ==
  ASSUME LeaseInv, [Next]_vars
  PROVE  LeaseInv'
<1>1. CASE TickNext
  BY <1>1, TickLease
<1>2. CASE \E A \in SUBSET Node \ {{}} : Partition(A)
  BY <1>2, CutLease DEF Partition
<1>3. CASE \E n \in Node : Isolate(n)
  BY <1>3, CutLease DEF Isolate
<1>4. CASE Heal
  BY <1>4, CutLease DEF Heal
<1>5. CASE UNCHANGED vars
  BY <1>5 DEF vars, LeaseInv, Lease, Side
<1> QED
  BY <1>1, <1>2, <1>3, <1>4, <1>5 DEF Next

\* A leader that has not met a majority, taking together the members on its side
\* of all partitions since, gives the role up within QuorumAckTicks +
\* QuorumLossTicks ticks (hasQuorumLocked and the quorum branch of
\* stepTimersLocked), for every cluster size, tick order and configuration.
THEOREM LeasesEnd == Spec => []BoundedLease
<1>1. LeaseInv => BoundedLease
  <2> SUFFICES ASSUME LeaseInv, NEW n \in Node
               PROVE  cutOff[n] <= QuorumAckTicks + QuorumLossTicks
    BY DEF BoundedLease
  <2>1. cutOff[n] \in Nat /\ node[n].quorumMissTicks \in Nat
    BY DEF LeaseInv, NodeState
  <2>2. cutOff[n] > 0 => Clock(node[n], met[n], cutOff[n])
    BY DEF LeaseInv, Lease
  <2> QED
    BY <2>1, <2>2, ConfigAssumption DEF Clock
<1> QED
  BY <1>1, InitialLease, LeaseStep, PTL DEF Spec
=============================================================================
