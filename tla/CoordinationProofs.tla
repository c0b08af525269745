------------------------- MODULE CoordinationProofs -------------------------
(***************************************************************************)
(* For every cluster size, every timer configuration and every interleaving *)
(* of the drivers, transport and partitions, no two nodes lead one term at  *)
(* the same time, and no handler writes to a nil map.                      *)
(*                                                                         *)
(* The argument.  What a node does while it holds its lock, whichever      *)
(* handler or timer runs, obeys one local discipline, LocalStep.  The      *)
(* inductive invariant ties votes, messages in flight and the ledger       *)
(* granted together, and LocalStep is all that is needed to preserve it.   *)
(***************************************************************************)
EXTENDS Coordination, FiniteSetTheorems, TLAPS

Elems(q) == {q[i] : i \in 1 .. Len(q)}

\* A granted vote on its way to p.
Grant(m) == m.type = "RequestVoteResp" /\ m.ok

\* What one handler or timer of n may do to n's state: s before, r after, got
\* the node whose granted vote for this term is being handled, if any.
LocalStep(n, s, r, got) ==
    /\ r \in NodeState
    /\ s.currentTerm <= r.currentTerm
    /\ r.currentTerm = s.currentTerm =>
          /\ r.role # Follower => s.role # Follower
          /\ r.votedFor = s.votedFor \/ s.votedFor = Nil \/ s.role = Leader
    /\ r.role # Follower =>
          /\ r.votedFor = n
          /\ n \in r.votes
          /\ \A v \in r.votes : v = n \/ (r.currentTerm = s.currentTerm /\ v \in s.votes \cup got)
    /\ r.role = Leader => Quorum(r.votes) /\ ~r.acksNil
    /\ \A p \in Node : \A m \in Elems(r.outbox[p]) :
          m \in Elems(s.outbox[p]) \/ (Grant(m) => /\ m.from = n
                                                    /\ m.term = r.currentTerm
                                                    /\ r.votedFor = p)

\* Everything LocalStep needs of the state before.
LocalInv(n, s) ==
    /\ s.role # Follower => s.votedFor = n /\ n \in s.votes
    /\ s.role = Leader => Quorum(s.votes) /\ ~s.acksNil

\* Votes are backed: a message that carries one is backed by the ledger.
Backed(q, p) == \A m \in Elems(q) : Grant(m) => <<m.from, p, m.term>> \in granted

\* The votes a candidate or leader has counted are in the ledger.
CountedBacked ==
    \A n \in Node : node[n].role # Follower =>
        \A v \in node[n].votes : <<v, n, node[n].currentTerm>> \in granted

SentBacked ==
    /\ \A n, p \in Node : Backed(node[n].outbox[p], p)
    /\ \A p \in Node : Backed(inbox[p], p) /\ Backed(batch[p], p)

VotedForRecorded ==
    \A n \in Node : node[n].votedFor \in Node =>
        <<n, node[n].votedFor, node[n].currentTerm>> \in granted

\* A node that backed another node in its present term still does, and does
\* not campaign or lead in that term.
LedgerCurrent ==
    \A g \in granted :
        /\ g[3] <= node[g[1]].currentTerm
        /\ g[2] # g[1] /\ g[3] = node[g[1]].currentTerm =>
              node[g[1]].role = Follower /\ node[g[1]].votedFor = g[2]

\* The inductive invariant.
IInv ==
    /\ TypeOK
    /\ \A n \in Node : LocalInv(n, node[n])
    /\ CountedBacked
    /\ SentBacked
    /\ VotedForRecorded
    /\ LedgerCurrent
    /\ OneVotePerTerm

-----------------------------------------------------------------------------
\* Appending to an outbox adds one message to its elements, and delivering
\* from it takes the head away.
LEMMA ElemsAppend ==
    ASSUME NEW S, NEW q \in Seq(S), NEW m \in S
    PROVE  Append(q, m) \in Seq(S) /\ Elems(Append(q, m)) = Elems(q) \cup {m}
BY DEF Elems

LEMMA ElemsTail ==
    ASSUME NEW S, NEW q \in Seq(S), q # << >>
    PROVE  /\ Head(q) \in S /\ Head(q) \in Elems(q)
           /\ Tail(q) \in Seq(S) /\ Elems(Tail(q)) \subseteq Elems(q)
BY DEF Elems

\* The fields of a node that elections depend on.
SameElection(s, r) ==
    /\ r.role = s.role /\ r.currentTerm = s.currentTerm /\ r.votedFor = s.votedFor
    /\ r.votes = s.votes /\ r.acksNil = s.acksNil

\* sendLocked changes only the outbox, by one message to one peer.
LEMMA SendEffect ==
    ASSUME NEW s \in NodeState, NEW to \in Node, NEW m \in Message
    PROVE  /\ Send(s, to, m) \in NodeState
           /\ SameElection(s, Send(s, to, m))
           /\ \A p \in Node : \A x \in Elems(Send(s, to, m).outbox[p]) :
                 x \in Elems(s.outbox[p]) \/ (x = m /\ p = to)
<1> DEFINE o == [s.outbox EXCEPT ![to] = Append(@, m)]
<1>1. s.outbox \in [Node -> Seq(Message)]
  BY DEF NodeState
<1>2. o \in [Node -> Seq(Message)]
  BY <1>1, ElemsAppend
<1>3. \A p \in Node : \A x \in Elems(o[p]) : x \in Elems(s.outbox[p]) \/ (x = m /\ p = to)
  BY <1>1, ElemsAppend
<1>4. Send(s, to, m) = [s EXCEPT !.outbox = o]
  BY DEF Send, NodeState
<1> HIDE DEF o
<1>5. [s EXCEPT !.outbox = o] \in NodeState /\ [s EXCEPT !.outbox = o].outbox = o
  BY <1>2, Zenon DEF NodeState
<1>6. SameElection(s, [s EXCEPT !.outbox = o])
  BY DEF SameElection, NodeState
<1> QED
  BY <1>3, <1>4, <1>5, <1>6

\* A broadcast appends the same message to the outbox of every peer.
LEMMA BroadcastEffect ==
    ASSUME NEW n \in Node, NEW s \in NodeState, NEW m \in Message
    PROVE  /\ Broadcast(n, s, m) \in NodeState
           /\ SameElection(s, Broadcast(n, s, m))
           /\ \A p \in Node : \A x \in Elems(Broadcast(n, s, m).outbox[p]) :
                 x \in Elems(s.outbox[p]) \/ x = m
<1> DEFINE o == [p \in Node |-> IF p = n THEN s.outbox[p] ELSE Append(s.outbox[p], m)]
<1>1. s.outbox \in [Node -> Seq(Message)]
  BY DEF NodeState
<1>2. o \in [Node -> Seq(Message)]
  BY <1>1, ElemsAppend
<1>3. \A p \in Node : \A x \in Elems(o[p]) : x \in Elems(s.outbox[p]) \/ x = m
  BY <1>1, ElemsAppend
<1>4. Broadcast(n, s, m) = [s EXCEPT !.outbox = o]
  BY DEF Broadcast
<1> HIDE DEF o
<1>5. [s EXCEPT !.outbox = o] \in NodeState /\ [s EXCEPT !.outbox = o].outbox = o
  BY <1>2, Zenon DEF NodeState
<1>6. SameElection(s, [s EXCEPT !.outbox = o])
  BY DEF SameElection, NodeState
<1> QED
  BY <1>3, <1>4, <1>5, <1>6

LEMMA StaleType == Stale \in Nat /\ NoAcks \in [Node -> 0 .. Stale]
BY ConfigAssumption DEF Stale, NoAcks

\* becomeFollowerLocked leaves the outbox alone and becomes a follower.
LEMMA BecomeFollowerEffect ==
    ASSUME NEW s \in NodeState, NEW t \in Nat
    PROVE  LET r == BecomeFollower(s, t)
           IN  /\ r \in NodeState
               /\ r.role = Follower /\ r.currentTerm = t /\ r.votedFor = Nil
               /\ r.outbox = s.outbox
BY StaleType, Zenon DEF BecomeFollower, NodeState, Follower

\* Stepping down for a later term is a step a node may take: it withdraws its
\* vote, and leads nothing.
LEMMA BecomeFollowerStep ==
    ASSUME NEW n \in Node, NEW s \in NodeState, NEW t \in Nat, t > s.currentTerm, NEW got
    PROVE  LocalStep(n, s, BecomeFollower(s, t), got)
<1> DEFINE r == BecomeFollower(s, t)
<1>1. /\ r \in NodeState
      /\ r.role = Follower /\ r.currentTerm = t /\ r.votedFor = Nil
      /\ r.outbox = s.outbox
  BY BecomeFollowerEffect
<1>2. s.currentTerm <= t /\ t # s.currentTerm
  BY DEF NodeState
<1>3. Follower # Leader
  BY DEF Follower, Leader
<1> HIDE DEF r
<1>4. r.role # Leader /\ s.currentTerm <= r.currentTerm /\ r.currentTerm # s.currentTerm
  BY <1>1, <1>2, <1>3
<1>5. \A p \in Node : \A x \in Elems(r.outbox[p]) : x \in Elems(s.outbox[p])
  BY <1>1
<1>6. LocalStep(n, s, r, got)
  BY <1>1, <1>4, <1>5 DEF LocalStep
<1> QED
  BY <1>6 DEF r

\* becomeLeaderLocked keeps the term and the votes, and makes the acks map.
LEMMA BecomeLeaderEffect ==
    ASSUME NEW n \in Node, NEW s \in NodeState
    PROVE  LET r == BecomeLeader(n, s)
           IN  /\ r \in NodeState
               /\ r.role = Leader /\ r.currentTerm = s.currentTerm /\ r.votedFor = n
               /\ r.votes = s.votes /\ ~r.acksNil
               /\ r.outbox = s.outbox
<1>1. [NoAcks EXCEPT ![n] = 0] \in [Node -> 0 .. Stale]
  BY StaleType DEF NoAcks
<1> QED
  BY <1>1, ConfigAssumption, Zenon DEF BecomeLeader, NodeState, Leader

\* The messages the handlers build are messages.
LEMMA MessageType ==
    ASSUME NEW n \in Node, NEW t \in Nat, NEW b \in BOOLEAN
    PROVE  /\ RequestVote(t, n) \in Message /\ ~Grant(RequestVote(t, n))
           /\ AppendEntries(t, n) \in Message /\ ~Grant(AppendEntries(t, n))
           /\ AppendEntriesResp(t, n, b) \in Message /\ ~Grant(AppendEntriesResp(t, n, b))
           /\ RequestVoteResp(t, n, b) \in Message
           /\ RequestVoteResp(t, n, b).from = n /\ RequestVoteResp(t, n, b).term = t
           /\ Grant(RequestVoteResp(t, n, b)) <=> b
BY DEF RequestVote, AppendEntries, AppendEntriesResp, RequestVoteResp, Message, Grant

\* A step that leaves the election fields alone and sends no vote.
LEMMA QuietStep ==
    ASSUME NEW n \in Node, NEW s \in NodeState, NEW r \in NodeState,
           LocalInv(n, s), SameElection(s, r),
           \A p \in Node : \A x \in Elems(r.outbox[p]) : x \in Elems(s.outbox[p]) \/ ~Grant(x)
    PROVE  LocalStep(n, s, r, {})
<1>1. s.currentTerm \in Nat
  BY DEF NodeState
<1> QED
  BY <1>1 DEF LocalStep, LocalInv, SameElection

\* handleRequestVoteLocked: a vote is given only to the node recorded in
\* votedFor, and only when it was free or already given to that node.
LEMMA HandleRequestVoteStep ==
    ASSUME NEW n \in Node, NEW s \in NodeState, NEW m \in Message, LocalInv(n, s)
    PROVE  LocalStep(n, s, HandleRequestVote(n, s, m), {})
<1> DEFINE t == IF m.term > s.currentTerm
                THEN [s EXCEPT !.currentTerm = m.term, !.role = Follower,
                               !.votedFor = Nil, !.leaderID = Nil]
                ELSE s
           ok == m.term = t.currentTerm /\ t.votedFor \in {Nil, m.from}
           u == IF ok
                THEN [t EXCEPT !.votedFor = m.from, !.leaderID = Nil, !.electionElapsed = 0]
                ELSE t
           x == RequestVoteResp(u.currentTerm, n, ok)
<1>1. HandleRequestVote(n, s, m) = Send(u, m.from, x)
  BY DEF HandleRequestVote
<1>2. /\ t \in NodeState /\ t.outbox = s.outbox /\ t.votes = s.votes /\ t.acksNil = s.acksNil
      /\ IF m.term > s.currentTerm
         THEN t.currentTerm = m.term /\ t.role = Follower /\ t.votedFor = Nil
         ELSE t = s
  BY Zenon DEF NodeState, Message, Follower
<1> HIDE DEF t
<1>3. /\ u \in NodeState /\ u.outbox = t.outbox /\ u.votes = t.votes /\ u.acksNil = t.acksNil
      /\ u.currentTerm = t.currentTerm /\ u.role = t.role
      /\ u.votedFor = IF ok THEN m.from ELSE t.votedFor
  BY <1>2, Zenon DEF NodeState, Message
<1>4. ok \in BOOLEAN /\ m.from \in Node /\ m.term \in Nat /\ s.currentTerm \in Nat
      /\ u.currentTerm \in Nat
  BY <1>3 DEF NodeState, Message
<1>5. ok => t.votedFor = Nil \/ t.votedFor = m.from
  OBVIOUS
<1> HIDE DEF u, ok
<1>6. /\ x \in Message /\ x.from = n /\ x.term = u.currentTerm
      /\ Grant(x) <=> ok
  BY <1>4, MessageType
<1> HIDE DEF x
<1>7. /\ Send(u, m.from, x) \in NodeState
      /\ SameElection(u, Send(u, m.from, x))
      /\ \A p \in Node : \A y \in Elems(Send(u, m.from, x).outbox[p]) :
            y \in Elems(u.outbox[p]) \/ (y = x /\ p = m.from)
  BY <1>3, <1>4, <1>6, SendEffect, Zenon
<1> QED
  BY <1>1, <1>2, <1>3, <1>4, <1>5, <1>6, <1>7, ConfigAssumption
  DEF LocalStep, LocalInv, SameElection, Follower, Leader, Candidate

\* handleRequestVoteRespLocked: the only vote added is the one received.
LEMMA HandleRequestVoteRespStep ==
    ASSUME NEW n \in Node, NEW s \in NodeState, NEW m \in Message, LocalInv(n, s),
           m.type = "RequestVoteResp"
    PROVE  LocalStep(n, s, HandleRequestVoteResp(n, s, m),
                     IF Grant(m) /\ m.term = s.currentTerm THEN {m.from} ELSE {})
<1> DEFINE got == IF Grant(m) /\ m.term = s.currentTerm THEN {m.from} ELSE {}
           t == [s EXCEPT !.votes = @ \cup {m.from}]
<1> SUFFICES LocalStep(n, s, HandleRequestVoteResp(n, s, m), got)
  OBVIOUS
<1>0. m.term \in Nat /\ s.currentTerm \in Nat /\ m.from \in Node
  BY DEF NodeState, Message
<1>1. CASE m.term > s.currentTerm
  <2>1. HandleRequestVoteResp(n, s, m) = BecomeFollower(s, m.term)
    BY <1>1 DEF HandleRequestVoteResp
  <2> QED
    BY <1>0, <1>1, <2>1, BecomeFollowerStep
<1>2. CASE m.term <= s.currentTerm /\ (s.role # Candidate \/ m.term # s.currentTerm \/ ~m.ok)
  <2>1. HandleRequestVoteResp(n, s, m) = s
    BY <1>0, <1>2 DEF HandleRequestVoteResp
  <2> QED
    BY <1>0, <2>1 DEF LocalStep, LocalInv
<1>3. CASE s.role = Candidate /\ m.term = s.currentTerm /\ m.ok
  <2>1. HandleRequestVoteResp(n, s, m) = IF Quorum(t.votes) THEN BecomeLeader(n, t) ELSE t
    BY <1>0, <1>3 DEF HandleRequestVoteResp
  <2>2. /\ t \in NodeState /\ t.outbox = s.outbox /\ t.votes = s.votes \cup {m.from}
        /\ t.currentTerm = s.currentTerm /\ t.role = Candidate /\ t.votedFor = s.votedFor
    BY <1>0, <1>3, Zenon DEF NodeState, Candidate
  <2>3. got = {m.from}
    BY <1>3 DEF Grant
  <2> HIDE DEF t, got
  <2>4. s.votedFor = n /\ n \in s.votes
    BY <1>3 DEF LocalInv, Candidate, Follower
  <2>5. CASE Quorum(t.votes)
    <3> DEFINE r == BecomeLeader(n, t)
    <3>1. /\ r \in NodeState /\ r.role = Leader /\ r.currentTerm = t.currentTerm
          /\ r.votedFor = n /\ r.votes = t.votes /\ ~r.acksNil /\ r.outbox = t.outbox
      BY <2>2, BecomeLeaderEffect
    <3>2. HandleRequestVoteResp(n, s, m) = r
      BY <2>1, <2>5
    <3> HIDE DEF r
    <3> QED
      BY <1>0, <1>3, <2>2, <2>3, <2>4, <2>5, <3>1, <3>2
      DEF LocalStep, Candidate, Follower, Leader
  <2>6. CASE ~Quorum(t.votes)
    BY <1>0, <1>3, <2>1, <2>2, <2>3, <2>4, <2>6
    DEF LocalStep, Candidate, Follower, Leader
  <2> QED
    BY <2>5, <2>6
<1> QED
  BY <1>0, <1>1, <1>2, <1>3

\* handleAppendEntriesLocked: an accepted heartbeat makes a follower, and
\* inside the term it leaves the vote where it was.
LEMMA HandleAppendEntriesStep ==
    ASSUME NEW n \in Node, NEW s \in NodeState, NEW m \in Message, LocalInv(n, s)
    PROVE  LocalStep(n, s, HandleAppendEntries(n, s, m), {})
<1> DEFINE t == [s EXCEPT !.currentTerm = m.term,
                          !.votedFor = IF m.term > s.currentTerm THEN Nil ELSE @,
                          !.role = Follower, !.leaderID = m.from, !.electionElapsed = 0]
<1>0. m.term \in Nat /\ s.currentTerm \in Nat /\ m.from \in Node
  BY DEF NodeState, Message
<1>1. CASE m.term < s.currentTerm
  <2> DEFINE x == AppendEntriesResp(s.currentTerm, n, FALSE)
  <2>1. HandleAppendEntries(n, s, m) = Send(s, m.from, x)
    BY <1>1 DEF HandleAppendEntries
  <2>2. x \in Message /\ ~Grant(x)
    BY <1>0, MessageType, Zenon
  <2> HIDE DEF x
  <2>3. /\ Send(s, m.from, x) \in NodeState /\ SameElection(s, Send(s, m.from, x))
        /\ \A p \in Node : \A y \in Elems(Send(s, m.from, x).outbox[p]) :
              y \in Elems(s.outbox[p]) \/ (y = x /\ p = m.from)
    BY <1>0, <2>2, SendEffect, Zenon
  <2> QED
    BY <2>1, <2>2, <2>3, QuietStep
<1>2. CASE m.term >= s.currentTerm
  <2> DEFINE x == AppendEntriesResp(m.term, n, TRUE)
  <2>0. ~(m.term < s.currentTerm)
    BY <1>0, <1>2
  <2>1. HandleAppendEntries(n, s, m) = Send(t, m.from, x)
    BY <2>0, Zenon DEF HandleAppendEntries
  <2>2. x \in Message /\ ~Grant(x)
    BY <1>0, MessageType, Zenon
  <2>3. /\ t \in NodeState /\ t.outbox = s.outbox /\ t.currentTerm = m.term /\ t.role = Follower
        /\ t.votedFor = IF m.term > s.currentTerm THEN Nil ELSE s.votedFor
    BY <1>0, Zenon DEF NodeState, Follower
  <2> HIDE DEF x, t
  <2>4. /\ Send(t, m.from, x) \in NodeState /\ SameElection(t, Send(t, m.from, x))
        /\ \A p \in Node : \A y \in Elems(Send(t, m.from, x).outbox[p]) :
              y \in Elems(t.outbox[p]) \/ (y = x /\ p = m.from)
    BY <1>0, <2>2, <2>3, SendEffect, Zenon
  <2> QED
    BY <1>0, <1>2, <2>1, <2>2, <2>3, <2>4 DEF LocalStep, SameElection, Follower, Leader
<1> QED
  BY <1>0, <1>1, <1>2

\* handleAppendEntriesRespLocked never makes a leader or moves a vote.
LEMMA HandleAppendEntriesRespStep ==
    ASSUME NEW n \in Node, NEW s \in NodeState, NEW m \in Message, LocalInv(n, s)
    PROVE  LocalStep(n, s, HandleAppendEntriesResp(s, m), {})
<1>0. m.term \in Nat /\ s.currentTerm \in Nat /\ m.from \in Node
  BY DEF NodeState, Message
<1>1. CASE m.term > s.currentTerm
  <2>1. HandleAppendEntriesResp(s, m) = BecomeFollower(s, m.term)
    BY <1>1 DEF HandleAppendEntriesResp
  <2> QED
    BY <1>0, <1>1, <2>1, BecomeFollowerStep
<1>2. CASE m.term <= s.currentTerm
  <2> DEFINE a == [s.acks EXCEPT ![m.from] = 0]
  <2>1. a \in [Node -> 0 .. Stale]
    BY <1>0, StaleType DEF NodeState
  <2> HIDE DEF a
  <2>2. HandleAppendEntriesResp(s, m) \in {s, [s EXCEPT !.acks = a]}
    BY <1>0, <1>2 DEF HandleAppendEntriesResp, NodeState, a
  <2>3. /\ [s EXCEPT !.acks = a] \in NodeState
        /\ SameElection(s, [s EXCEPT !.acks = a]) /\ [s EXCEPT !.acks = a].outbox = s.outbox
    BY <2>1, Zenon DEF NodeState, SameElection
  <2>4. LocalStep(n, s, s, {}) /\ LocalStep(n, s, [s EXCEPT !.acks = a], {})
    BY <2>3, QuietStep, Zenon DEF SameElection
  <2> QED
    BY <2>2, <2>4
<1> QED
  BY <1>0, <1>1, <1>2

\* handleLocked, whichever message arrives.
LEMMA HandleStep ==
    ASSUME NEW n \in Node, NEW s \in NodeState, NEW m \in Message, LocalInv(n, s)
    PROVE  LocalStep(n, s, Handle(n, s, m),
                     IF Grant(m) /\ m.term = s.currentTerm THEN {m.from} ELSE {})
<1> DEFINE got == IF Grant(m) /\ m.term = s.currentTerm THEN {m.from} ELSE {}
<1>1. \A r : LocalStep(n, s, r, {}) => LocalStep(n, s, r, got)
  BY DEF LocalStep
<1>2. CASE m.type = "RequestVote"
  <2>1. Handle(n, s, m) = HandleRequestVote(n, s, m)
    BY <1>2 DEF Handle
  <2> QED
    BY <1>1, <2>1, HandleRequestVoteStep
<1>3. CASE m.type = "RequestVoteResp"
  <2>1. Handle(n, s, m) = HandleRequestVoteResp(n, s, m)
    BY <1>3 DEF Handle
  <2> QED
    BY <1>3, <2>1, HandleRequestVoteRespStep
<1>4. CASE m.type = "AppendEntries"
  <2>1. Handle(n, s, m) = HandleAppendEntries(n, s, m)
    BY <1>4 DEF Handle
  <2> QED
    BY <1>1, <2>1, HandleAppendEntriesStep
<1>5. CASE m.type = "AppendEntriesResp"
  <2>1. Handle(n, s, m) = HandleAppendEntriesResp(s, m)
    BY <1>5 DEF Handle
  <2> QED
    BY <1>1, <2>1, HandleAppendEntriesRespStep
<1> QED
  BY <1>2, <1>3, <1>4, <1>5 DEF Message

\* n.tick++ only ages the acknowledgements.
LEMMA AgeAcksStep ==
    ASSUME NEW n \in Node, NEW s \in NodeState, LocalInv(n, s)
    PROVE  LocalStep(n, s, AgeAcks(s), {}) /\ SameElection(s, AgeAcks(s))
<1> DEFINE a == [p \in Node |-> IF s.acks[p] < Stale THEN s.acks[p] + 1 ELSE Stale]
<1>0. s.acks \in [Node -> 0 .. Stale]
  BY DEF NodeState
<1>1. a \in [Node -> 0 .. Stale]
  BY <1>0, StaleType
<1>2. AgeAcks(s) = [s EXCEPT !.acks = a]
  BY DEF AgeAcks
<1> HIDE DEF a
<1>3. /\ [s EXCEPT !.acks = a] \in NodeState
      /\ SameElection(s, [s EXCEPT !.acks = a]) /\ [s EXCEPT !.acks = a].outbox = s.outbox
  BY <1>1, Zenon DEF NodeState, SameElection
<1> QED
  BY <1>2, <1>3, QuietStep, Zenon

\* startElectionLocked votes for the node itself in a fresh term.
LEMMA StartElectionStep ==
    ASSUME NEW n \in Node, NEW s \in NodeState, NEW timeout \in Nat, LocalInv(n, s)
    PROVE  LocalStep(n, s, StartElection(n, s, timeout), {})
<1> DEFINE u == [s EXCEPT !.role = Candidate, !.currentTerm = @ + 1,
                          !.votedFor = n, !.leaderID = Nil,
                          !.votes = {n},
                          !.electionTimeout = timeout, !.electionElapsed = 0]
           x == RequestVote(s.currentTerm + 1, n)
           t == Broadcast(n, u, x)
<1>1. s.currentTerm \in Nat /\ s.currentTerm + 1 \in Nat
  BY DEF NodeState
<1>2. /\ u \in NodeState /\ u.role = Candidate /\ u.currentTerm = s.currentTerm + 1
      /\ u.votedFor = n /\ u.votes = {n} /\ u.outbox = s.outbox
  BY <1>1, Zenon DEF NodeState, Candidate
<1>3. x \in Message /\ ~Grant(x)
  BY <1>1, MessageType, Zenon
<1>4. StartElection(n, s, timeout) = IF Quorum(t.votes) THEN BecomeLeader(n, t) ELSE t
  BY DEF StartElection
<1> HIDE DEF u, x
<1>5. /\ t \in NodeState /\ SameElection(u, t)
      /\ \A p \in Node : \A y \in Elems(t.outbox[p]) : y \in Elems(u.outbox[p]) \/ y = x
  BY <1>2, <1>3, BroadcastEffect, Zenon
<1> HIDE DEF t
<1>6. CASE Quorum(t.votes)
  <2> DEFINE r == BecomeLeader(n, t)
  <2>1. /\ r \in NodeState /\ r.role = Leader /\ r.currentTerm = t.currentTerm
        /\ r.votedFor = n /\ r.votes = t.votes /\ ~r.acksNil /\ r.outbox = t.outbox
    BY <1>5, BecomeLeaderEffect
  <2>2. StartElection(n, s, timeout) = r
    BY <1>4, <1>6
  <2> HIDE DEF r
  <2>3. /\ r.currentTerm = s.currentTerm + 1 /\ r.votes = {n} /\ Quorum(r.votes)
        /\ \A p \in Node : \A y \in Elems(r.outbox[p]) : y \in Elems(s.outbox[p]) \/ ~Grant(y)
    BY <1>2, <1>3, <1>5, <1>6, <2>1 DEF SameElection
  <2>4. r.currentTerm # s.currentTerm /\ s.currentTerm <= r.currentTerm
    BY <1>1, <2>3
  <2> QED
    BY <2>1, <2>2, <2>3, <2>4 DEF LocalStep
<1>7. CASE ~Quorum(t.votes)
  BY <1>1, <1>2, <1>3, <1>4, <1>5, <1>7 DEF LocalStep, SameElection, Candidate, Leader
<1> QED
  BY <1>6, <1>7

\* stepTimersLocked of a follower or candidate.
LEMMA ElectionTimerStep ==
    ASSUME NEW n \in Node, NEW s \in NodeState, NEW timeout \in Nat, LocalInv(n, s)
    PROVE  LocalStep(n, s, ElectionTimer(n, s, timeout), {})
<1> DEFINE u == [s EXCEPT !.electionElapsed = @ + 1]
<1>1. u \in NodeState
  <2>1. s.electionElapsed + 1 \in Nat
    BY DEF NodeState
  <2> QED
    BY <2>1, Zenon DEF NodeState
<1>0. SameElection(s, u) /\ u.outbox = s.outbox
  BY DEF NodeState, SameElection
<1>2. ElectionTimer(n, s, timeout) \in {StartElection(n, s, timeout), s, u}
  BY DEF ElectionTimer
<1>3. LocalStep(n, s, s, {})
  BY QuietStep DEF SameElection
<1> HIDE DEF u
<1>4. LocalStep(n, s, u, {})
  BY <1>0, <1>1, QuietStep
<1> QED
  BY <1>2, <1>3, <1>4, StartElectionStep

\* broadcastHeartbeatLocked and its timer are quiet.
LEMMA HeartbeatTimerEffect ==
    ASSUME NEW n \in Node, NEW s \in NodeState
    PROVE  LET r == HeartbeatTimer(n, s)
           IN  /\ r \in NodeState
               /\ SameElection(s, r)
               /\ \A p \in Node : \A x \in Elems(r.outbox[p]) :
                     x \in Elems(s.outbox[p]) \/ ~Grant(x)
<1> DEFINE x == AppendEntries(s.currentTerm, n)
           t == Broadcast(n, s, x)
           u == [t EXCEPT !.heartbeatElapsed = 0]
           w == [s EXCEPT !.heartbeatElapsed = @ + 1]
<1>1. x \in Message /\ ~Grant(x)
  BY MessageType DEF NodeState
<1>2. /\ t \in NodeState /\ SameElection(s, t)
      /\ \A p \in Node : \A y \in Elems(t.outbox[p]) : y \in Elems(s.outbox[p]) \/ y = x
  BY <1>1, BroadcastEffect, Zenon
<1>3. HeartbeatTimer(n, s) = IF s.heartbeatElapsed + 1 >= HeartbeatTicks THEN u ELSE w
  BY DEF HeartbeatTimer
<1> HIDE DEF t, x
<1>4. u \in NodeState /\ SameElection(t, u) /\ u.outbox = t.outbox
  BY <1>2, Zenon DEF NodeState, SameElection
<1>5. s.heartbeatElapsed + 1 \in Nat
  BY DEF NodeState
<1>6. w \in NodeState /\ SameElection(s, w) /\ w.outbox = s.outbox
  BY <1>5, Zenon DEF NodeState, SameElection
<1> HIDE DEF u, w
<1>7. SameElection(s, u)
  BY <1>2, <1>4 DEF SameElection
<1> QED
  BY <1>1, <1>2, <1>3, <1>4, <1>6, <1>7

\* A leader that lost its quorum for too long gives up its own vote, but the
\* role goes with it.
LEMMA QuorumTimerStep ==
    ASSUME NEW n \in Node, NEW s \in NodeState, LocalInv(n, s), s.role = Leader
    PROVE  LocalStep(n, s, QuorumTimer(n, s), {})
<1> DEFINE k == s.quorumMissTicks + 1
           b == BecomeFollower(s, s.currentTerm)
           u == [s EXCEPT !.quorumMissTicks = 0]
           w == [s EXCEPT !.quorumMissTicks = k]
           j == b.quorumMissTicks + 1
           z == [b EXCEPT !.quorumMissTicks = j]
<1>0. s.currentTerm \in Nat /\ k \in Nat
  BY DEF NodeState
<1>1. QuorumTimer(n, s) \in {u, w, z}
  BY DEF QuorumTimer
<1>2. u \in NodeState /\ SameElection(s, u) /\ u.outbox = s.outbox
  BY Zenon DEF NodeState, SameElection
<1>3. LocalStep(n, s, u, {})
  BY <1>2, QuietStep, Zenon
<1> HIDE DEF k
<1>4. w \in NodeState /\ SameElection(s, w) /\ w.outbox = s.outbox
  BY <1>0, Zenon DEF NodeState, SameElection
<1>5. LocalStep(n, s, w, {})
  BY <1>4, QuietStep, Zenon
<1>6. /\ b \in NodeState /\ b.role = Follower /\ b.currentTerm = s.currentTerm
      /\ b.votedFor = Nil /\ b.outbox = s.outbox
  BY <1>0, BecomeFollowerEffect
<1> HIDE DEF b
<1>7. j \in Nat
  <2>1. b.quorumMissTicks \in Nat
    BY <1>6 DEF NodeState
  <2> QED
    BY <2>1
<1> HIDE DEF j
<1>8. /\ z \in NodeState /\ z.role = Follower /\ z.currentTerm = s.currentTerm
      /\ z.votedFor = Nil /\ z.outbox = s.outbox
  BY <1>6, <1>7, Zenon DEF NodeState
<1> HIDE DEF z
<1>9. LocalStep(n, s, z, {})
  BY <1>0, <1>8 DEF LocalStep, Follower, Leader
<1> QED
  BY <1>1, <1>3, <1>5, <1>9

\* stepTimersLocked, in whichever role.
LEMMA StepTimersStep ==
    ASSUME NEW n \in Node, NEW s \in NodeState, NEW timeout \in Nat, LocalInv(n, s)
    PROVE  LocalStep(n, s, StepTimers(n, s, timeout), {})
<1>1. CASE s.role # Leader
  <2>1. StepTimers(n, s, timeout) = ElectionTimer(n, s, timeout)
    BY <1>1 DEF StepTimers
  <2> QED
    BY <2>1, ElectionTimerStep
<1>2. CASE s.role = Leader
  <2> DEFINE t == HeartbeatTimer(n, s)
             r == QuorumTimer(n, t)
  <2>1. StepTimers(n, s, timeout) = r
    BY <1>2 DEF StepTimers
  <2>2. /\ t \in NodeState /\ SameElection(s, t)
        /\ \A p \in Node : \A x \in Elems(t.outbox[p]) : x \in Elems(s.outbox[p]) \/ ~Grant(x)
    BY HeartbeatTimerEffect
  <2> HIDE DEF t
  <2>3. LocalInv(n, t) /\ t.role = Leader
    BY <1>2, <2>2 DEF LocalInv, SameElection
  <2>4. LocalStep(n, t, r, {})
    BY <2>2, <2>3, QuorumTimerStep
  <2> HIDE DEF r
  <2> QED
    <3>1. /\ r \in NodeState
          /\ t.currentTerm = s.currentTerm /\ t.role = s.role /\ t.votedFor = s.votedFor
          /\ t.votes = s.votes
      BY <2>2, <2>4 DEF LocalStep, SameElection
    <3>2. \A p \in Node : \A x \in Elems(r.outbox[p]) :
             x \in Elems(s.outbox[p]) \/ (Grant(x) => /\ x.from = n
                                                       /\ x.term = r.currentTerm
                                                       /\ r.votedFor = p)
      BY <2>2, <2>4 DEF LocalStep
    <3>3. LocalStep(n, s, r, {})
      BY <2>4, <3>1, <3>2 DEF LocalStep
    <3> QED
      BY <2>1, <3>3
<1> QED
  BY <1>1, <1>2

-----------------------------------------------------------------------------
\* Whatever n does under its lock, if it obeys LocalStep and the ledger
\* records its vote, the invariant survives.
LEMMA NodeStep ==
    ASSUME IInv, TypeOK',
           NEW n \in Node, NEW r, NEW got,
           LocalStep(n, node[n], r, got),
           node' = [node EXCEPT ![n] = r],
           \A v \in got : <<v, n, node[n].currentTerm>> \in granted,
           granted' = IF r.votedFor \in Node
                      THEN granted \cup {<<n, r.votedFor, r.currentTerm>>} ELSE granted,
           \A p \in Node : \A x \in Elems(inbox'[p]) \cup Elems(batch'[p]) :
              Grant(x) => <<x.from, p, x.term>> \in granted
    PROVE  IInv'
<1> DEFINE s == node[n]
           new == <<n, r.votedFor, r.currentTerm>>
<1>1. /\ s \in NodeState /\ r \in NodeState
      /\ node'[n] = r
      /\ \A p \in Node \ {n} : node'[p] = node[p]
  BY DEF IInv, TypeOK, LocalStep
<1>2. granted \subseteq granted' /\ granted' \subseteq granted \cup {new}
      /\ (r.votedFor \in Node => new \in granted')
      /\ (new \in granted' \ granted => r.votedFor \in Node)
  OBVIOUS
<1>3. \A p \in Node : LocalInv(p, node'[p])
  <2>1. LocalInv(n, r)
    BY DEF LocalInv, LocalStep
  <2>2. \A p \in Node \ {n} : LocalInv(p, node[p])
    BY DEF IInv
  <2> QED
    BY <1>1, <2>1, <2>2
<1>4. CountedBacked'
  <2> SUFFICES ASSUME NEW p \in Node, node'[p].role # Follower, NEW v \in node'[p].votes
               PROVE  <<v, p, node'[p].currentTerm>> \in granted'
    BY DEF CountedBacked
  <2>1. CASE p # n
    BY <1>1, <1>2, <2>1 DEF IInv, CountedBacked
  <2>2. CASE p = n /\ v = n
    BY <1>1, <1>2, <2>2 DEF LocalStep
  <2>3. CASE p = n /\ v # n
    <3>1. r.currentTerm = s.currentTerm /\ v \in s.votes \cup got /\ s.role # Follower
      BY <1>1, <2>3 DEF LocalStep
    <3> QED
      BY <1>1, <1>2, <2>3, <3>1 DEF IInv, CountedBacked
  <2> QED
    BY <2>1, <2>2, <2>3
<1>5. SentBacked'
  <2>1. ASSUME NEW k \in Node, NEW p \in Node, NEW x \in Elems(node'[k].outbox[p]), Grant(x)
        PROVE  <<x.from, p, x.term>> \in granted'
    <3>1. CASE x \in Elems(node[k].outbox[p])
      BY <1>2, <2>1, <3>1 DEF IInv, SentBacked, Backed
    <3>2. CASE x \notin Elems(node[k].outbox[p])
      <4>1. k = n /\ x.from = n /\ x.term = r.currentTerm /\ r.votedFor = p
        BY <1>1, <2>1, <3>2 DEF LocalStep
      <4> QED
        BY <1>2, <4>1
    <3> QED
      BY <3>1, <3>2
  <2> QED
    BY <1>2, <2>1 DEF SentBacked, Backed
<1>6. VotedForRecorded'
  BY <1>1, <1>2 DEF IInv, VotedForRecorded
\* what the ledger already says of n in the term n is in after the step
<1>7. ASSUME NEW g \in granted, g[1] = n, g[2] # n, g[3] = r.currentTerm
      PROVE  r.role = Follower /\ r.votedFor = g[2]
  <2>1. g[3] = s.currentTerm /\ s.role = Follower /\ s.votedFor = g[2] /\ g[2] \in Node
    <3>1. g[3] <= s.currentTerm /\ s.currentTerm \in Nat /\ r.currentTerm \in Nat /\ g[2] \in Node
      BY <1>1, <1>7, Zenon DEF IInv, LedgerCurrent, NodeState, TypeOK
    <3>2. s.currentTerm <= r.currentTerm
      BY DEF LocalStep
    <3>3. g[3] = s.currentTerm
      BY <1>7, <3>1, <3>2
    <3> QED
      BY <1>7, <3>1, <3>3 DEF IInv, LedgerCurrent
  <2> QED
    BY <1>7, <2>1, ConfigAssumption DEF LocalStep, Follower, Leader
<1>8. LedgerCurrent'
  <2> SUFFICES ASSUME NEW g \in granted'
               PROVE  /\ g[3] <= node'[g[1]].currentTerm
                      /\ g[2] # g[1] /\ g[3] = node'[g[1]].currentTerm =>
                            node'[g[1]].role = Follower /\ node'[g[1]].votedFor = g[2]
    BY DEF LedgerCurrent
  <2>1. CASE g \in granted /\ g[1] # n
    <3>1. g[1] \in Node
      BY <2>1 DEF IInv, TypeOK
    <3>2. node'[g[1]] = node[g[1]]
      BY <1>1, <2>1, <3>1
    <3>3. LedgerCurrent
      BY DEF IInv
    <3> QED
      BY <2>1, <3>2, <3>3 DEF LedgerCurrent
  <2>2. CASE g \in granted /\ g[1] = n
    <3>1. g[3] <= s.currentTerm /\ s.currentTerm \in Nat /\ r.currentTerm \in Nat /\ g[3] \in Nat
      BY <1>1, <2>2, Zenon DEF IInv, LedgerCurrent, NodeState, TypeOK
    <3>2. s.currentTerm <= r.currentTerm
      BY DEF LocalStep
    <3>3. g[3] <= r.currentTerm
      BY <3>1, <3>2
    <3> QED
      BY <1>1, <1>7, <2>2, <3>3
  <2>3. CASE g \notin granted
    <3>1. g = new /\ r.votedFor \in Node
      BY <1>2, <2>3
    <3>2. g[1] = n /\ g[2] = r.votedFor /\ g[3] = r.currentTerm /\ r.currentTerm \in Nat
      BY <1>1, <3>1 DEF NodeState
    <3>3. g[2] # n => r.role = Follower
      BY <3>2 DEF LocalStep
    <3> QED
      BY <1>1, <3>2, <3>3
  <2> QED
    BY <2>1, <2>2, <2>3
<1>9. OneVotePerTerm'
  <2> SUFFICES ASSUME NEW g \in granted', NEW h \in granted', g[1] = h[1], g[3] = h[3],
                      g[2] # g[1], h[2] # h[1]
               PROVE  g[2] = h[2]
    BY DEF OneVotePerTerm
  <2>1. \A e \in granted' \ granted : e[1] = n /\ e[2] = r.votedFor /\ e[3] = r.currentTerm
    BY <1>2
  <2>2. CASE g \in granted /\ h \in granted
    BY <2>2 DEF IInv, OneVotePerTerm
  <2>3. CASE g \in granted /\ h \notin granted
    BY <1>7, <2>1, <2>3
  <2>4. CASE g \notin granted /\ h \in granted
    BY <1>7, <2>1, <2>4
  <2>5. CASE g \notin granted /\ h \notin granted
    BY <2>1, <2>5
  <2> QED
    BY <2>2, <2>3, <2>4, <2>5
<1> QED
  BY <1>3, <1>4, <1>5, <1>6, <1>8, <1>9 DEF IInv

LEMMA InitIInv == Init => IInv
<1> SUFFICES ASSUME Init PROVE IInv
  OBVIOUS
<1>0. NoMessages \in [Node -> Seq(Message)] /\ Timeouts \subseteq Nat
  BY ConfigAssumption DEF NoMessages, Timeouts
<1>1. \A t \in Timeouts : NewNode(t) \in NodeState
  BY <1>0, StaleType DEF NewNode, NodeState, Follower
<1>2. \A n \in Node : /\ node[n] \in NodeState /\ node[n].role = Follower
                      /\ node[n].votedFor = Nil /\ node[n].outbox = NoMessages
  <2> SUFFICES ASSUME NEW n \in Node
               PROVE  /\ node[n] \in NodeState /\ node[n].role = Follower
                      /\ node[n].votedFor = Nil /\ node[n].outbox = NoMessages
    OBVIOUS
  <2>1. PICK t \in Timeouts : node[n] = NewNode(t)
    BY DEF Init
  <2> QED
    BY <1>1, <2>1 DEF NewNode
<1>3. \A p \in Node : Elems(NoMessages[p]) = {}
  BY DEF NoMessages, Elems
<1>4. TypeOK
  BY <1>0, <1>1 DEF Init, TypeOK
<1>5. \A n \in Node : LocalInv(n, node[n])
  BY <1>2 DEF LocalInv, Follower, Leader
<1>6. CountedBacked /\ VotedForRecorded
  BY <1>2, ConfigAssumption DEF CountedBacked, VotedForRecorded
<1>7. SentBacked
  BY <1>2, <1>3, Zenon DEF SentBacked, Backed, Init
<1>8. LedgerCurrent /\ OneVotePerTerm
  BY DEF Init, LedgerCurrent, OneVotePerTerm
<1> QED
  BY <1>4, <1>5, <1>6, <1>7, <1>8 DEF IInv

LEMMA ObserveType ==
    ASSUME TypeOK, NEW n \in Node, NEW r \in NodeState, Observe(n, r)
    PROVE  granted' \in SUBSET (Node \X Node \X Nat) /\ elected' \in SUBSET (Node \X Nat)
<1>1. r.currentTerm \in Nat
  BY DEF NodeState
<1> QED
  BY <1>1 DEF Observe, TypeOK

LEMMA BeginTickIInv ==
    ASSUME IInv, NEW n \in Node, BeginTick(n)
    PROVE  IInv'
<1> DEFINE r == AgeAcks(node[n])
           got == {}
<1>1. node[n] \in NodeState /\ LocalInv(n, node[n]) /\ TypeOK
  BY DEF IInv, TypeOK
<1>2. LocalStep(n, node[n], r, got) /\ SameElection(node[n], r)
  BY <1>1, AgeAcksStep
<1>3. node' = [node EXCEPT ![n] = r] /\ granted' = granted
  BY DEF BeginTick
<1> HIDE DEF r
<1>4. TypeOK'
  <2>1. r \in NodeState
    BY <1>2 DEF LocalStep
  <2>2. node' \in [Node -> NodeState]
    BY <1>1, <1>3, <2>1 DEF TypeOK
  <2>3. inbox' \in [Node -> Seq(Message)] /\ batch' \in [Node -> Seq(Message)]
    BY <1>1 DEF TypeOK, BeginTick
  <2> QED
    BY <1>1, <2>2, <2>3 DEF TypeOK, BeginTick
<1>5. granted' = IF r.votedFor \in Node
                 THEN granted \cup {<<n, r.votedFor, r.currentTerm>>} ELSE granted
  BY <1>2, <1>3 DEF IInv, VotedForRecorded, SameElection
<1>6. \A p \in Node : \A x \in Elems(inbox'[p]) \cup Elems(batch'[p]) :
         Grant(x) => <<x.from, p, x.term>> \in granted
  <2>1. \A p \in Node : /\ Elems(inbox'[p]) \subseteq Elems(inbox[p])
                        /\ Elems(batch'[p]) \subseteq Elems(batch[p]) \cup Elems(inbox[p])
    BY <1>1 DEF BeginTick, TypeOK, Elems
  <2> QED
    BY <2>1 DEF IInv, SentBacked, Backed
<1>7. \A v \in got : <<v, n, node[n].currentTerm>> \in granted
  OBVIOUS
<1> HIDE DEF got
<1> QED
  BY <1>2, <1>3, <1>4, <1>5, <1>6, <1>7, NodeStep, Zenon

LEMMA HandleNextIInv ==
    ASSUME IInv, NEW n \in Node, HandleNext(n)
    PROVE  IInv'
<1> DEFINE m == Head(batch[n])
           r == Handle(n, node[n], m)
           got == IF Grant(m) /\ m.term = node[n].currentTerm THEN {m.from} ELSE {}
<1>1. node[n] \in NodeState /\ LocalInv(n, node[n]) /\ TypeOK
  BY DEF IInv, TypeOK
<1>2. /\ batch[n] \in Seq(Message) /\ batch[n] # << >>
      /\ m \in Message /\ m \in Elems(batch[n])
      /\ Tail(batch[n]) \in Seq(Message) /\ Elems(Tail(batch[n])) \subseteq Elems(batch[n])
  BY <1>1, ElemsTail DEF HandleNext, TypeOK
<1> HIDE DEF m
<1>3. LocalStep(n, node[n], r, got)
  BY <1>1, <1>2, HandleStep, Zenon
<1>4. \A v \in got : <<v, n, node[n].currentTerm>> \in granted
  BY <1>2 DEF IInv, SentBacked, Backed
<1>5. node' = [node EXCEPT ![n] = r] /\ r \in NodeState /\ node'[n] = r
  BY <1>1, <1>3 DEF HandleNext, LocalStep, TypeOK, m
<1> HIDE DEF r, got
<1>6. granted' = IF r.votedFor \in Node
                 THEN granted \cup {<<n, r.votedFor, r.currentTerm>>} ELSE granted
  BY <1>5, Zenon DEF HandleNext, Observe
<1>7. TypeOK'
  <2>1. node' \in [Node -> NodeState]
    BY <1>1, <1>5 DEF TypeOK
  <2>2. batch' \in [Node -> Seq(Message)]
    BY <1>1, <1>2 DEF TypeOK, HandleNext
  <2>3. granted' \in SUBSET (Node \X Node \X Nat) /\ elected' \in SUBSET (Node \X Nat)
    BY <1>1, <1>5, ObserveType DEF HandleNext
  <2> QED
    BY <1>1, <2>1, <2>2, <2>3 DEF TypeOK, HandleNext
<1>8. \A p \in Node : \A x \in Elems(inbox'[p]) \cup Elems(batch'[p]) :
         Grant(x) => <<x.from, p, x.term>> \in granted
  <2>1. \A p \in Node : inbox'[p] = inbox[p] /\ Elems(batch'[p]) \subseteq Elems(batch[p])
    BY <1>1, <1>2 DEF HandleNext, TypeOK
  <2> QED
    BY <2>1 DEF IInv, SentBacked, Backed
<1> QED
  BY <1>3, <1>4, <1>5, <1>6, <1>7, <1>8, NodeStep, Zenon

LEMMA EndTickIInv ==
    ASSUME IInv, NEW n \in Node, EndTick(n)
    PROVE  IInv'
<1>1. node[n] \in NodeState /\ LocalInv(n, node[n]) /\ TypeOK
  BY DEF IInv, TypeOK
<1>2. PICK timeout \in Timeouts : node' = [node EXCEPT ![n] = StepTimers(n, node[n], timeout)]
  BY Zenon DEF EndTick
<1> DEFINE r == StepTimers(n, node[n], timeout)
           got == {}
<1>3. timeout \in Nat
  BY ConfigAssumption DEF Timeouts
<1>4. LocalStep(n, node[n], r, got)
  BY <1>1, <1>3, StepTimersStep
<1>5. node' = [node EXCEPT ![n] = r] /\ r \in NodeState /\ node'[n] = r
  BY <1>1, <1>2, <1>4 DEF LocalStep, TypeOK
<1> HIDE DEF r
<1>6. granted' = IF r.votedFor \in Node
                 THEN granted \cup {<<n, r.votedFor, r.currentTerm>>} ELSE granted
  BY <1>5, Zenon DEF EndTick, Observe
<1>7. TypeOK'
  <2>1. node' \in [Node -> NodeState]
    BY <1>1, <1>5 DEF TypeOK
  <2>2. granted' \in SUBSET (Node \X Node \X Nat) /\ elected' \in SUBSET (Node \X Nat)
    BY <1>1, <1>5, ObserveType DEF EndTick
  <2> QED
    BY <1>1, <2>1, <2>2 DEF TypeOK, EndTick
<1>8. \A p \in Node : \A x \in Elems(inbox'[p]) \cup Elems(batch'[p]) :
         Grant(x) => <<x.from, p, x.term>> \in granted
  BY DEF EndTick, IInv, SentBacked, Backed
<1>9. \A v \in got : <<v, n, node[n].currentTerm>> \in granted
  OBVIOUS
<1> HIDE DEF got
<1> QED
  BY <1>4, <1>5, <1>6, <1>7, <1>8, <1>9, NodeStep, Zenon

LEMMA FlushIInv ==
    ASSUME IInv, NEW n \in Node, NEW to \in Node, Flush(n, to)
    PROVE  IInv'
<1> DEFINE s == node[n]
           q == s.outbox[to]
           o == [s.outbox EXCEPT ![to] = Tail(q)]
           r == [s EXCEPT !.outbox = o]
           got == {}
<1>1. s \in NodeState /\ LocalInv(n, s) /\ TypeOK /\ s.outbox \in [Node -> Seq(Message)]
  BY Zenon DEF IInv, TypeOK, NodeState
<1>2. q \in Seq(Message) /\ q # << >>
  BY <1>1 DEF Flush
<1>3. /\ Head(q) \in Message /\ Head(q) \in Elems(q)
      /\ Tail(q) \in Seq(Message) /\ Elems(Tail(q)) \subseteq Elems(q)
  BY <1>2, ElemsTail
<1>4. o \in [Node -> Seq(Message)] /\ \A p \in Node : Elems(o[p]) \subseteq Elems(s.outbox[p])
  BY <1>1, <1>3
<1>5. node' = [node EXCEPT ![n] = r]
  BY <1>1 DEF Flush, TypeOK, NodeState
<1> HIDE DEF o
<1>6. r \in NodeState /\ SameElection(s, r) /\ r.outbox = o
  BY <1>1, <1>4, Zenon DEF NodeState, SameElection
<1> HIDE DEF r
<1>7. LocalStep(n, s, r, got)
  BY <1>1, <1>4, <1>6, QuietStep
<1>8. granted' = IF r.votedFor \in Node
                 THEN granted \cup {<<n, r.votedFor, r.currentTerm>>} ELSE granted
  BY <1>6 DEF Flush, IInv, VotedForRecorded, SameElection
<1>9. \A p \in Node : inbox[p] \in Seq(Message)
  <2>1. inbox \in [Node -> Seq(Message)]
    BY <1>1 DEF TypeOK
  <2> QED
    BY <2>1
<1>10. /\ inbox' \in [Node -> Seq(Message)]
       /\ \A p \in Node : Elems(inbox'[p]) \subseteq
             Elems(inbox[p]) \cup (IF p = to THEN {Head(q)} ELSE {})
  <2>1. CASE groups[n] = groups[to]
    <3>1. /\ Append(inbox[to], Head(q)) \in Seq(Message)
          /\ Elems(Append(inbox[to], Head(q))) = Elems(inbox[to]) \cup {Head(q)}
      <4> DEFINE b == inbox[to]
      <4>1. b \in Seq(Message)
        BY <1>9
      <4> HIDE DEF b
      <4>2. Append(b, Head(q)) \in Seq(Message) /\ Elems(Append(b, Head(q))) = Elems(b) \cup {Head(q)}
        BY <1>3, <4>1, ElemsAppend
      <4> QED
        BY <4>2 DEF b
    <3> DEFINE grown == Append(inbox[to], Head(q))
    <3>2. inbox' = [inbox EXCEPT ![to] = grown]
      BY <2>1 DEF Flush
    <3>3. inbox \in [Node -> Seq(Message)]
      BY <1>1 DEF TypeOK
    <3> HIDE DEF grown
    <3>4. inbox' \in [Node -> Seq(Message)]
          /\ inbox'[to] = grown /\ \A p \in Node \ {to} : inbox'[p] = inbox[p]
      <4>1. grown \in Seq(Message)
        BY <3>1 DEF grown
      <4> QED
        BY <3>2, <3>3, <4>1
    <3>5. Elems(grown) = Elems(inbox[to]) \cup {Head(q)}
      BY <3>1 DEF grown
    <3> QED
      BY <3>4, <3>5
  <2>2. CASE groups[n] # groups[to]
    BY <1>1, <2>2 DEF Flush, TypeOK
  <2> QED
    BY <2>1, <2>2, Zenon
<1>11. TypeOK'
  <2>1. node' \in [Node -> NodeState]
    BY <1>1, <1>5, <1>6 DEF TypeOK
  <2> QED
    BY <1>1, <1>10, <2>1, Zenon DEF TypeOK, Flush
<1>12. \A p \in Node : \A x \in Elems(inbox'[p]) \cup Elems(batch'[p]) :
          Grant(x) => <<x.from, p, x.term>> \in granted
  <2>1. batch' = batch
    BY DEF Flush
  <2>2. Backed(q, to)
    BY DEF IInv, SentBacked
  <2> QED
    BY <1>3, <1>10, <2>1, <2>2 DEF IInv, SentBacked, Backed
<1>13. \A v \in got : <<v, n, node[n].currentTerm>> \in granted
  OBVIOUS
<1> HIDE DEF got
<1> QED
  BY <1>5, <1>7, <1>8, <1>11, <1>12, <1>13, NodeStep, Zenon

\* IInv is inductive.
LEMMA NextIInv == IInv /\ [Next]_vars => IInv'
<1> SUFFICES ASSUME IInv, [Next]_vars PROVE IInv'
  OBVIOUS
<1>1. ASSUME NEW n \in Node, BeginTick(n) PROVE IInv'
  BY <1>1, BeginTickIInv
<1>2. ASSUME NEW n \in Node, HandleNext(n) PROVE IInv'
  BY <1>2, HandleNextIInv
<1>3. ASSUME NEW n \in Node, EndTick(n) PROVE IInv'
  BY <1>3, EndTickIInv
<1>4. ASSUME NEW n \in Node, NEW to \in Node, Flush(n, to) PROVE IInv'
  BY <1>4, FlushIInv
<1>5. ASSUME UNCHANGED <<node, inbox, batch, locked, granted, elected>>,
             groups' \in [Node -> {0, 1, 2, 99}], faults' \in Nat
      PROVE  IInv'
  <2>1. TypeOK'
    BY <1>5 DEF IInv, TypeOK
  <2>2. \A n \in Node : LocalInv(n, node'[n])
    BY <1>5 DEF IInv
  <2>3. CountedBacked' /\ SentBacked' /\ VotedForRecorded' /\ LedgerCurrent' /\ OneVotePerTerm'
    BY <1>5 DEF IInv, CountedBacked, SentBacked, Backed, VotedForRecorded, LedgerCurrent,
                OneVotePerTerm
  <2> QED
    BY <2>1, <2>2, <2>3 DEF IInv
<1>6. ASSUME NEW A \in SUBSET Node, Partition(A) PROVE IInv'
  <2>1. groups' \in [Node -> {0, 1, 2, 99}] /\ faults' \in Nat
    BY <1>6 DEF Partition, IInv, TypeOK
  <2> QED
    BY <1>5, <1>6, <2>1 DEF Partition
<1>7. ASSUME NEW n \in Node, Isolate(n) PROVE IInv'
  <2>1. groups' \in [Node -> {0, 1, 2, 99}] /\ faults' \in Nat
    BY <1>7 DEF Isolate, IInv, TypeOK
  <2> QED
    BY <1>5, <1>7, <2>1 DEF Isolate
<1>8. ASSUME Heal PROVE IInv'
  BY <1>5, <1>8 DEF Heal, IInv, TypeOK
<1>9. CASE UNCHANGED vars
  BY <1>5, <1>9 DEF vars, IInv, TypeOK
<1> QED
  BY <1>1, <1>2, <1>3, <1>4, <1>6, <1>7, <1>8, <1>9 DEF Next

\* Two majorities of the cluster share a node (majorityOf).
LEMMA QuorumsIntersect ==
    ASSUME NEW S \in SUBSET Node, NEW T \in SUBSET Node, Quorum(S), Quorum(T)
    PROVE  S \cap T # {}
<1>1. IsFiniteSet(S) /\ IsFiniteSet(T)
  BY ConfigAssumption, FS_Subset
<1>2. Cardinality(S) \in Nat /\ Cardinality(T) \in Nat /\ Cardinality(Node) \in Nat
  BY <1>1, ConfigAssumption, FS_CardinalityType
<1>3. Cardinality(S) + Cardinality(T) > Cardinality(Node)
  BY <1>2 DEF Quorum
<1> QED
  BY <1>3, ConfigAssumption, FS_MajoritiesIntersect

\* What IInv is for: a node in both majorities would have to back two nodes,
\* or itself and another while it leads.
LEMMA IInvSafety == IInv => OneLeaderPerTerm /\ NoNilMapWrite /\ LeaderHasMandate
<1> SUFFICES ASSUME IInv PROVE OneLeaderPerTerm /\ NoNilMapWrite /\ LeaderHasMandate
  OBVIOUS
<1>0. \A n \in Node : node[n] \in NodeState /\ node[n].votes \in SUBSET Node
  BY DEF IInv, TypeOK, NodeState
<1>1. NoNilMapWrite
  BY DEF IInv, LocalInv, NoNilMapWrite, Candidate, Follower
<1>2. LeaderHasMandate
  <2> SUFFICES ASSUME NEW n \in Node, node[n].role = Leader
               PROVE  Quorum({v \in Node : <<v, n, node[n].currentTerm>> \in granted})
    BY DEF LeaderHasMandate
  <2> DEFINE W == {v \in Node : <<v, n, node[n].currentTerm>> \in granted}
  <2>1. node[n].votes \subseteq W /\ Quorum(node[n].votes)
    BY <1>0 DEF IInv, LocalInv, CountedBacked, Follower, Leader
  <2>2. IsFiniteSet(W)
    BY ConfigAssumption, FS_Subset, Zenon
  <2>3. IsFiniteSet(node[n].votes) /\ Cardinality(node[n].votes) <= Cardinality(W)
    BY <2>1, <2>2, FS_Subset, Zenon
  <2>4. /\ Cardinality(W) \in Nat /\ Cardinality(node[n].votes) \in Nat
        /\ Cardinality(Node) \in Nat
    BY <2>2, <2>3, ConfigAssumption, FS_CardinalityType
  <2> HIDE DEF W
  <2>5. Quorum(W)
    BY <2>1, <2>3, <2>4 DEF Quorum
  <2> QED
    BY <2>5 DEF W
<1>3. OneLeaderPerTerm
  <2> SUFFICES ASSUME NEW a \in Node, NEW b \in Node,
                      node[a].role = Leader, node[b].role = Leader,
                      node[a].currentTerm = node[b].currentTerm, a # b
               PROVE  FALSE
    BY DEF OneLeaderPerTerm
  <2>1. Quorum(node[a].votes) /\ Quorum(node[b].votes)
    BY DEF IInv, LocalInv
  <2>2. PICK v \in Node : v \in node[a].votes /\ v \in node[b].votes
    BY <1>0, <2>1, QuorumsIntersect
  <2> DEFINE t == node[a].currentTerm
             g == <<v, a, t>>
             h == <<v, b, t>>
  <2>3. g \in granted /\ h \in granted
    BY <2>2 DEF IInv, CountedBacked, Follower, Leader
  <2>4. CASE v # a /\ v # b
    BY <2>3, <2>4 DEF IInv, OneVotePerTerm
  <2>5. CASE v = a
    BY <2>3, <2>5 DEF IInv, LedgerCurrent, Follower, Leader
  <2>6. CASE v = b
    BY <2>3, <2>6 DEF IInv, LedgerCurrent, Follower, Leader
  <2> QED
    BY <2>4, <2>5, <2>6
<1> QED
  BY <1>1, <1>2, <1>3

-----------------------------------------------------------------------------
LEMMA SpecIInv == Spec => []IInv
BY InitIInv, NextIInv, PTL DEF Spec

\* Every reachable state of a cluster of any size is well typed.
THEOREM TypeCorrect == Spec => []TypeOK
<1>1. IInv => TypeOK
  BY DEF IInv
<1> QED
  BY <1>1, SpecIInv, PTL

\* Whatever the size of the cluster, the timers, the interleaving of the
\* drivers and the partitions, two nodes never lead one term together.
THEOREM OneLeader == Spec => []OneLeaderPerTerm
BY SpecIInv, IInvSafety, PTL

\* No handler of any cluster writes to a nil votes or acks map.
THEOREM NilMapSafe == Spec => []NoNilMapWrite
BY SpecIInv, IInvSafety, PTL

\* A node never backs two other candidates in one term, although stepping
\* down clears votedFor without leaving the term.
THEOREM OneVote == Spec => []OneVotePerTerm
<1>1. IInv => OneVotePerTerm
  BY DEF IInv
<1> QED
  BY <1>1, SpecIInv, PTL

\* A leader was voted for by a majority, in the very term it leads.
THEOREM Mandate == Spec => []LeaderHasMandate
BY SpecIInv, IInvSafety, PTL
=============================================================================
