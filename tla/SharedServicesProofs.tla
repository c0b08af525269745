------------------------ MODULE SharedServicesProofs ------------------------
(***************************************************************************)
(* Proofs about what requests share, for any number of them.               *)
(*                                                                         *)
(* The circuit breaker keeps its cool-down for every threshold.            *)
(*                                                                         *)
(* Callers of RedisBackend get the replies to their own commands.  Replies *)
(* carry no name, so the argument is about what can be on the connection   *)
(* at all: nothing between two calls, and one command or its reply while a *)
(* call waits.                                                             *)
(*                                                                         *)
(* A tagged entry of the cluster's cache stays reachable by its tags when  *)
(* one process uses the backend.  tagMu is what makes it so: whoever has   *)
(* read a member list to write or delete it holds tagMu, so that the list  *)
(* is still what was read.                                                 *)
(*                                                                         *)
(* The collectors of metrics: the choice of the least loaded shard among   *)
(* counters that move during the scan, and the order in which the SMT      *)
(* metrics are written and read.                                           *)
(***************************************************************************)
EXTENDS MCSharedServices, DistributedCache, Metrics, FiniteSetTheorems, TLAPS

-----------------------------------------------------------------------------
(* The circuit breaker.                                                    *)

BreakerInv == openAge \in Nat /\ probeInFlight \in BOOLEAN /\ FlagMatchesState

\* The age of an open circuit stays a number when it is capped.
LEMMA MinOfTwo == ASSUME NEW a \in Nat, NEW b \in Nat PROVE Min({a, b}) \in Nat
<1>1. \E m \in {a, b} : \A y \in {a, b} : y >= m
  OBVIOUS
<1> QED
  BY <1>1 DEF Min

\* New starts a closed circuit without a probe.
LEMMA InitialBreaker == Init => BreakerInv
<1> SUFFICES ASSUME Init PROVE BreakerInv
  OBVIOUS
<1>1. openAge \in Nat /\ state # HalfOpen
  BY DEF Init, Closed, HalfOpen
<1>2. probeInFlight \in BOOLEAN /\ ~probeInFlight
  BY Zenon DEF Init
<1> QED
  BY <1>1, <1>2, Zenon DEF BreakerInv, FlagMatchesState

\* Every call of the breaker keeps the probe flag in step with the state.
LEMMA StepBreaker ==
    ASSUME BreakerInv, [Next]_vars
    PROVE  BreakerInv' /\ (state = Open /\ openAge < OpenDuration => state' = Open)
<1>0. OpenDuration \in Nat \ {0}
  BY ConfigAssumption
<1>1. ASSUME NEW r \in Request, Allow(r)
      PROVE  BreakerInv' /\ (state = Open /\ openAge < OpenDuration => state' = Open)
  <2> DEFINE cooled == state = Open /\ openAge >= OpenDuration
             asProbe == cooled \/ (state = HalfOpen /\ ~probeInFlight)
  <2>1. /\ state' = IF cooled THEN HalfOpen ELSE state
        /\ probeInFlight' = (probeInFlight \/ asProbe)
        /\ openAge' = openAge
    BY <1>1 DEF Allow
  <2>2. state = Open /\ openAge < OpenDuration => ~cooled
    BY <1>0 DEF BreakerInv
  <2>3. state = HalfOpen <=> probeInFlight
    BY DEF BreakerInv, FlagMatchesState
  <2>4. asProbe <=> cooled
    BY <2>3
  <2> HIDE DEF cooled, asProbe
  <2>5. probeInFlight' \in BOOLEAN /\ (probeInFlight' <=> (probeInFlight \/ cooled))
    BY <2>1, <2>4, Zenon
  <2>6. state' = HalfOpen <=> (probeInFlight \/ cooled)
    BY <2>1, <2>3
  <2> QED
    BY <2>1, <2>2, <2>5, <2>6, Zenon DEF BreakerInv, FlagMatchesState
<1>2. ASSUME NEW r \in Request, RecordTimeout(r)
      PROVE  BreakerInv' /\ (state = Open => state' = Open)
  <2>1. CASE trip
    BY <2>1, Zenon DEF trip, BreakerInv, FlagMatchesState, Open, HalfOpen
  <2>2. CASE UNCHANGED <<state, openAge, probeInFlight>>
    BY <2>2 DEF BreakerInv, FlagMatchesState
  <2> QED
    BY <1>2, <2>1, <2>2 DEF RecordTimeout, breaker
<1>3. ASSUME NEW r \in Request, RecordSuccess(r)
      PROVE  BreakerInv' /\ (state = Open => state' = Open)
  <2>1. CASE state = Open
    BY <1>3, <2>1 DEF RecordSuccess, breaker, BreakerInv, FlagMatchesState
  <2>2. CASE state # Open
    BY <1>3, <2>2, Zenon DEF RecordSuccess, BreakerInv, FlagMatchesState, Closed, HalfOpen
  <2> QED
    BY <2>1, <2>2
<1>4. CASE Tick
  BY <1>0, <1>4, MinOfTwo DEF Tick, BreakerInv, FlagMatchesState
<1>5. CASE UNCHANGED vars
  BY <1>5 DEF vars, breaker, BreakerInv, FlagMatchesState
<1> QED
  BY <1>1, <1>2, <1>3, <1>4, <1>5 DEF Next

\* No report of a request admitted before the circuit tripped ends or shortens
\* the cool-down (Allow, RecordTimeout and RecordSuccess).
THEOREM CoolDownKept == Spec => CoolDownHolds
<1>1. BreakerInv /\ [Next]_vars => BreakerInv'
  BY StepBreaker
<1>2. BreakerInv /\ [Next]_vars => [state = Open /\ openAge < OpenDuration => state' = Open]_vars
  BY StepBreaker
<1> QED
  BY <1>1, <1>2, InitialBreaker, PTL DEF Spec, CoolDownHolds

\* probeInFlight is cleared on every way out of the half-open state and set on
\* the way in (trip, RecordSuccess and Allow).
THEOREM FlagFollowsState == Spec => []FlagMatchesState
<1>1. BreakerInv /\ [Next]_vars => BreakerInv'
  BY StepBreaker
<1>2. BreakerInv => FlagMatchesState
  BY DEF BreakerInv
<1> QED
  BY <1>1, <1>2, InitialBreaker, PTL DEF Spec

-----------------------------------------------------------------------------
(* RedisBackend.                                                           *)

At(c) == pc[c][1]
Cmd(c) == <<c, round[c], pc[c][2]>>

Waiting == mu \in Caller /\ At(mu) = "read"

\* The command the holder of r.mu waits for is with the server or answered.
Outstanding ==
    \/ sent = <<Cmd(mu)>> /\ replies = << >>
    \/ sent = << >> /\ \E ok \in BOOLEAN : replies = <<<<Cmd(mu), ok>>>>

\* The inductive invariant.
ConnectionInv ==
    /\ DOMAIN pc = Caller /\ DOMAIN round = Caller /\ DOMAIN answer = Caller
    /\ mu \in Caller \cup {R!Nobody}
    /\ \A c \in Caller : At(c) \in {"dial", "write", "read"} <=> mu = c
    /\ Waiting => Outstanding
    /\ ~Waiting => sent = << >> /\ replies = << >>
    /\ R!AnswerMatches

\* NewRedisBackend starts unconnected.
LEMMA InitialConnection == R!Nobody \notin Caller /\ R!Init => ConnectionInv
BY DEF R!Init, ConnectionInv, At, Waiting, R!AnswerMatches

\* exec returns with nothing left on the connection.
LEMMA Returned ==
    ASSUME R!Nobody \notin Caller, ConnectionInv, NEW c \in Caller, mu = c, R!Return(c),
           sent' = << >>, replies' = << >>, UNCHANGED round,
           DOMAIN answer' = Caller, R!AnswerMatches'
    PROVE  ConnectionInv'
BY DEF ConnectionInv, R!Return, At, Waiting

\* The holder of r.mu goes on to dial or to write, with nothing on the connection.
LEMMA WritesOn ==
    ASSUME R!Nobody \notin Caller, ConnectionInv, NEW c \in Caller, NEW where,
           pc' = [pc EXCEPT ![c] = where], where[1] \in {"dial", "write"}, mu' = c, mu \in {c, R!Nobody},
           sent' = << >>, replies' = << >>, UNCHANGED <<round, answer>>
    PROVE  ConnectionInv'
<1>1. R!AnswerMatches'
  BY DEF ConnectionInv, R!AnswerMatches
<1> QED
  BY <1>1 DEF ConnectionInv, At, Waiting

\* After a step of the handshake something is written.
LEMMA HandshakeWrites == ASSUME NEW i PROVE R!AfterHandshake(i)[1] = "write"
BY DEF R!AfterHandshake

\* Every step of a call on the connection keeps the invariant.
LEMMA ConnectionInductive ==
    ASSUME R!Nobody \notin Caller, ConnectionInv, [R!Next]_(R!vars)
    PROVE  ConnectionInv'
<1>1. ASSUME NEW c \in Caller, R!Call(c) PROVE ConnectionInv'
  <2>1. At(c) = "idle" /\ mu # c
    BY <1>1 DEF R!Call, At, ConnectionInv
  <2>2. R!AnswerMatches'
    BY <1>1 DEF R!Call, R!AnswerMatches, ConnectionInv
  <2>3. mu' = mu /\ \A d \in Caller : d # c => pc'[d] = pc[d] /\ round'[d] = round[d]
    BY <1>1 DEF R!Call, ConnectionInv
  <2>4. At(c)' = "lock"
    BY <1>1 DEF R!Call, At, ConnectionInv
  <2>5. Waiting' <=> Waiting
    BY <2>1, <2>3, <2>4 DEF Waiting, At
  <2>6. Waiting => Cmd(mu)' = Cmd(mu)
    BY <2>1, <2>3 DEF Waiting, Cmd
  <2> QED
    BY <1>1, <2>1, <2>2, <2>3, <2>4, <2>5, <2>6 DEF R!Call, ConnectionInv, Outstanding, At
<1>2. ASSUME NEW c \in Caller, R!Acquire(c) PROVE ConnectionInv'
  <2>1. ~Waiting
    BY <1>2 DEF R!Acquire, Waiting
  <2>2. (IF conn = "none" THEN <<"dial">> ELSE <<"write", "command">>)[1] \in {"dial", "write"}
    OBVIOUS
  <2> QED
    BY <1>2, <2>1, <2>2, WritesOn, Zenon DEF R!Acquire, ConnectionInv
<1>3. ASSUME NEW c \in Caller, R!Step(c) PROVE ConnectionInv'
  <2>1. ASSUME NEW ok \in BOOLEAN, R!Dial(c, ok) PROVE ConnectionInv'
    <3>1. mu = c /\ ~Waiting
      BY <2>1 DEF R!Dial, ConnectionInv, At, Waiting
    <3>2. sent' = << >> /\ replies' = << >> /\ UNCHANGED <<round, answer>>
      BY <2>1, <3>1 DEF R!Dial, ConnectionInv
    <3>3. CASE ok
      BY <2>1, <3>1, <3>2, <3>3, WritesOn, HandshakeWrites DEF R!Dial, R!Goto
    <3>4. CASE ~ok
      <4>1. R!Return(c) /\ R!AnswerMatches' /\ DOMAIN answer' = Caller
        BY <2>1, <3>2, <3>4 DEF R!Dial, ConnectionInv, R!AnswerMatches
      <4> QED
        BY <3>1, <3>2, <4>1, Returned
    <3> QED
      BY <3>3, <3>4
  <2>2. ASSUME NEW what \in R!What, R!Write(c, what) PROVE ConnectionInv'
    <3>1. mu = c /\ ~Waiting
      BY <2>2 DEF R!Write, ConnectionInv, At, Waiting
    <3>2. sent' = <<<<c, round[c], what>>>> /\ replies' = << >>
      BY <2>2, <3>1 DEF R!Write, ConnectionInv
    <3>3. pc'[c] = <<"read", what>> /\ mu' = c /\ \A d \in Caller : d # c => pc'[d] = pc[d]
      BY <2>2, <3>1 DEF R!Write, R!Goto, ConnectionInv
    <3>4. Waiting' /\ Cmd(mu)' = <<c, round[c], what>>
      BY <2>2, <3>3 DEF R!Write, Waiting, At, Cmd
    <3>5. Outstanding'
      BY <3>2, <3>4 DEF Outstanding
    <3>6. R!AnswerMatches'
      BY <2>2 DEF R!Write, ConnectionInv, R!AnswerMatches
    <3>7. \A d \in Caller : At(d)' \in {"dial", "write", "read"} <=> mu' = d
      BY <3>1, <3>3 DEF ConnectionInv, At
    <3> QED
      BY <2>2, <3>3, <3>4, <3>5, <3>6, <3>7 DEF R!Write, R!Goto, ConnectionInv
  <2>3. ASSUME NEW what \in R!What, R!Read(c, what) PROVE ConnectionInv'
    <3>1. mu = c /\ Waiting /\ Cmd(mu) = <<c, round[c], what>>
      BY <2>3 DEF R!Read, ConnectionInv, At, Waiting, Cmd
    <3>2. PICK ok \in BOOLEAN : sent = << >> /\ replies = <<<<Cmd(mu), ok>>>>
      BY <2>3, <3>1 DEF R!Read, ConnectionInv, Outstanding
    <3>3. Head(replies)[1] = Cmd(mu) /\ Tail(replies) = << >>
      BY <3>2
    <3>4. UNCHANGED round /\ sent' = << >> /\ replies' = << >>
      BY <2>3, <3>2, <3>3 DEF R!Read, R!dropLocked
    <3>5. CASE ~Head(replies)[2]
      <4>1. R!Return(c) /\ UNCHANGED answer
        BY <2>3, <3>3, <3>5 DEF R!Read
      <4>2. R!AnswerMatches' /\ DOMAIN answer' = Caller
        BY <3>4, <4>1 DEF ConnectionInv, R!AnswerMatches
      <4> QED
        BY <3>1, <3>4, <4>1, <4>2, Returned
    <3>6. CASE Head(replies)[2] /\ what = "command"
      <4>1. R!Return(c) /\ answer' = [answer EXCEPT ![c] = Cmd(mu)]
        BY <2>3, <3>3, <3>6 DEF R!Read
      <4>2. R!AnswerMatches' /\ DOMAIN answer' = Caller
        BY <3>1, <3>4, <3>6, <4>1 DEF ConnectionInv, R!AnswerMatches
      <4> QED
        BY <3>1, <3>4, <4>1, <4>2, Returned
    <3>7. CASE Head(replies)[2] /\ what # "command"
      <4> DEFINE i == CHOOSE i \in DOMAIN handshake : handshake[i] = what
      <4>1. pc' = [pc EXCEPT ![c] = R!AfterHandshake(i)] /\ mu' = c /\ UNCHANGED answer
        BY <2>3, <3>1, <3>3, <3>7 DEF R!Read, R!Goto
      <4> HIDE DEF i
      <4> QED
        BY <3>1, <3>4, <4>1, WritesOn, HandshakeWrites, Zenon
    <3> QED
      BY <3>5, <3>6, <3>7
  <2>4. ASSUME NEW io \in {"write", "read"}, NEW what \in R!What, pc[c] = <<io, what>>, R!dropLocked, R!Return(c),
               UNCHANGED <<round, answer>>
        PROVE ConnectionInv'
    <3>1. mu = c
      BY <2>4 DEF ConnectionInv, At
    <3>2. R!AnswerMatches' /\ DOMAIN answer' = Caller
      BY <2>4 DEF ConnectionInv, R!AnswerMatches
    <3> QED
      BY <2>4, <3>1, <3>2, Returned DEF R!dropLocked
  <2>5. CASE R!Deadline(c)
    BY <2>4, <2>5 DEF R!Deadline, R!What
  <2>6. ASSUME NEW io \in {"write", "read"}, NEW what \in R!What, R!Fail(c, io, what) PROVE ConnectionInv'
    BY <2>4, <2>6 DEF R!Fail
  <2> QED
    BY <1>3, <2>1, <2>2, <2>3, <2>5, <2>6 DEF R!Step
<1>4. CASE R!Close
  <2>1. R!AnswerMatches'
    BY <1>4 DEF R!Close, ConnectionInv, R!AnswerMatches
  <2> QED
    BY <1>4, <2>1 DEF R!Close, R!dropLocked, ConnectionInv, At, Waiting
<1>5. ASSUME NEW ok \in BOOLEAN, R!Serve(ok) PROVE ConnectionInv'
  <2>1. Waiting /\ sent = <<Cmd(mu)>> /\ replies = << >>
    BY <1>5 DEF R!Serve, ConnectionInv, Outstanding
  <2>2. sent' = << >> /\ replies' = <<<<Cmd(mu), ok>>>>
    BY <1>5, <2>1 DEF R!Serve
  <2>3. Waiting' /\ Cmd(mu)' = Cmd(mu)
    BY <1>5, <2>1 DEF R!Serve, Waiting, At, Cmd
  <2>4. R!AnswerMatches'
    BY <1>5 DEF R!Serve, ConnectionInv, R!AnswerMatches
  <2> QED
    BY <1>5, <2>2, <2>3, <2>4, Zenon DEF R!Serve, ConnectionInv, Outstanding, At
<1>6. CASE R!Break
  BY <1>6 DEF R!Break, ConnectionInv, At, Waiting, Outstanding, Cmd, R!AnswerMatches
<1>7. CASE UNCHANGED R!vars
  BY <1>7 DEF R!vars, ConnectionInv, At, Waiting, Outstanding, Cmd, R!AnswerMatches
<1> QED
  BY <1>1, <1>2, <1>3, <1>4, <1>5, <1>6, <1>7 DEF R!Next

\* exec never hands a caller the reply to another command, its own earlier ones
\* included: every path that leaves a reply owed drops the connection
\* (redis.go, exec and dropLocked).
THEOREM AnswersOwnCommand ==
    ASSUME R!Nobody \notin Caller
    PROVE  R!Spec => []AnswerMatches
<1>1. R!Init => ConnectionInv
  BY InitialConnection
<1>2. ConnectionInv /\ [R!Next]_(R!vars) => ConnectionInv'
  BY ConnectionInductive
<1>3. ConnectionInv => AnswerMatches
  BY DEF ConnectionInv, AnswerMatches
<1> QED
  BY <1>1, <1>2, <1>3, PTL DEF R!Spec

-----------------------------------------------------------------------------
(* The cluster's cache.                                                    *)

Tagging == [pc : {"tagging"}, key : Key, todo : SUBSET Tag]
Writing == [pc : {"write"}, key : Key, todo : SUBSET Tag, tag : Tag, members : SUBSET Key]
Deleting == [pc : {"delete"}, tag : Tag, members : SUBSET Key]

Typed ==
  /\ data \subseteq Key
  /\ index \in [Tag -> SUBSET Key]
  /\ tagMu \in [Process -> Thread \cup {Nobody}]
  /\ op \in [Thread -> {Idle} \cup Tagging \cup Writing \cup Deleting]
  /\ writer \in [Key -> Thread \cup {Nobody}]
  /\ asked \in [Key -> SUBSET Tag] /\ indexed \in [Key -> SUBSET Tag]

\* The thread is between its read of a member list and the write or delete.
Holds(th) == op[th] \in Writing \cup Deleting

\* Who is between the two holds the lock, and the list has not changed since.
ListUnderLock ==
  \A th \in Thread : Holds(th) => tagMu[th[1]] = th /\ op[th].members = index[op[th].tag]

\* The inductive invariant.
CacheInv == Typed /\ ListUnderLock /\ ReachableByTag

\* The shapes of the calls in progress.
LEMMA OpShapes ==
  ASSUME Typed, NEW th \in Thread
  PROVE  /\ th[1] \in Process
         /\ op[th].pc = "idle" => op[th] = Idle
         /\ op[th].pc = "tagging" => op[th] \in Tagging
         /\ op[th].pc = "write" => op[th] \in Writing
         /\ op[th].pc = "delete" => op[th] \in Deleting
         /\ op[th] = Idle => ~Holds(th)
         /\ op[th] \in Tagging => ~Holds(th)
BY DEF Typed, Thread, Tagging, Writing, Deleting, Idle, Holds

\* A Set goes on with its next tag or ends.
LEMMA ResumeShape ==
  ASSUME NEW key \in Key, NEW todo \in SUBSET Tag
  PROVE  /\ Resume(key, todo) \in {Idle} \cup Tagging
         /\ Resume(key, todo) \notin Writing \cup Deleting
BY DEF Resume, Tagging, Idle, Writing, Deleting

\* New starts with an empty backend and no call.
LEMMA InitialCache == CacheInit => CacheInv
<1> SUFFICES ASSUME CacheInit PROVE CacheInv
  OBVIOUS
<1>1. Typed
  BY DEF CacheInit, Typed
<1>2. ListUnderLock
  BY DEF CacheInit, ListUnderLock, Holds, Idle, Writing, Deleting
<1>3. ReachableByTag
  BY DEF CacheInit, ReachableByTag
<1> QED
  BY <1>1, <1>2, <1>3 DEF CacheInv

\* With one process, a step of th keeps the other threads' lists as they were
\* read: it touches neither the lock nor a list, or no other thread holds.
LEMMA OthersHold ==
  ASSUME CacheInv, NEW p, Process = {p}, NEW th \in Thread,
         \A u \in Thread \ {th} : op'[u] = op[u],
         Holds(th)' => tagMu'[th[1]] = th /\ op'[th].members = index'[op'[th].tag],
         UNCHANGED <<tagMu, index>> \/ tagMu[th[1]] \in {th, Nobody}
  PROVE  ListUnderLock'
<1> SUFFICES ASSUME NEW u \in Thread, u # th, Holds(u)
             PROVE  (tagMu[u[1]] = u /\ op[u].members = index[op[u].tag])'
  BY DEF ListUnderLock, Holds
<1>1. u[1] = p /\ th[1] = p /\ u # Nobody
  BY DEF Thread, Nobody
<1>2. tagMu[p] = u /\ op[u].members = index[op[u].tag]
  BY <1>1 DEF CacheInv, ListUnderLock
<1>3. UNCHANGED <<tagMu, index>>
  BY <1>1, <1>2
<1> QED
  BY <1>1, <1>2, <1>3

\* What ends the handling of one tag, indexed or not.
LEMMA TagDoneStep ==
  ASSUME CacheInv, NEW th \in Thread, NEW tag \in Tag, NEW done \in BOOLEAN,
         op[th] \in Tagging \cup Writing, TagDone(th, tag, done),
         index' \in [Tag -> SUBSET Key], tagMu' \in [Process -> Thread \cup {Nobody}],
         \A t \in Tag : index[t] \subseteq index'[t],
         done => op[th].key \in index'[tag]
  PROVE  /\ Typed' /\ ReachableByTag'
         /\ \A u \in Thread \ {th} : op'[u] = op[u]
         /\ ~Holds(th)'
<1> DEFINE key == op[th].key
           todo == op[th].todo \ {tag}
<1>1. Typed /\ key \in Key /\ todo \in SUBSET Tag
  BY DEF CacheInv, Tagging, Writing
<1>2. Resume(key, todo) \in {Idle} \cup Tagging /\ Resume(key, todo) \notin Writing \cup Deleting
  BY <1>1, ResumeShape
<1>3. /\ op' = [op EXCEPT ![th] = Resume(key, todo)]
      /\ UNCHANGED <<data, asked>>
      /\ indexed' = indexed \/ (done /\ indexed' = [indexed EXCEPT ![key] = @ \cup {tag}])
      /\ writer' = writer \/ writer' = [writer EXCEPT ![key] = Nobody]
  BY DEF TagDone
<1> HIDE DEF key, todo
<1>4. op' \in [Thread -> {Idle} \cup Tagging \cup Writing \cup Deleting]
      /\ op'[th] = Resume(key, todo) /\ \A u \in Thread \ {th} : op'[u] = op[u]
  BY <1>1, <1>2, <1>3 DEF Typed
<1>5. writer' \in [Key -> Thread \cup {Nobody}] /\ indexed' \in [Key -> SUBSET Tag]
  BY <1>1, <1>3 DEF Typed
<1>6. Typed'
  BY <1>1, <1>3, <1>4, <1>5 DEF Typed
<1>7. ASSUME NEW k \in data', NEW t \in indexed'[k] PROVE k \in index'[t]
  <2>1. k \in data /\ k \in Key /\ t \in Tag
    BY <1>1, <1>3, <1>5, <1>7 DEF Typed
  <2>2. t \in indexed[k] \/ (done /\ k = key /\ t = tag)
    BY <1>1, <1>3, <1>7, <2>1 DEF Typed
  <2>3. CASE t \in indexed[k]
    BY <2>1, <2>3 DEF CacheInv, ReachableByTag
  <2>4. CASE done /\ k = key /\ t = tag
    BY <2>4 DEF key
  <2> QED
    BY <2>2, <2>3, <2>4
<1> QED
  BY <1>2, <1>4, <1>6, <1>7 DEF ReachableByTag, Holds

\* Entries that are gone need no index.
LEMMA DropStep ==
  ASSUME Typed, NEW K \in SUBSET Key, Drop(K)
  PROVE  /\ data' = data \ K
         /\ data' \subseteq Key /\ writer' \in [Key -> Thread \cup {Nobody}]
         /\ asked' \in [Key -> SUBSET Tag] /\ indexed' \in [Key -> SUBSET Tag]
         /\ \A k \in data' : indexed'[k] = indexed[k]
BY DEF Typed, Drop

\* SetByKey writes the entry before it takes tagMu.
LEMMA SetByKeyInv ==
  ASSUME CacheInv, NEW p, Process = {p}, NEW th \in Thread, NEW key \in Key,
         NEW tags \in SUBSET Tag, NEW ok \in BOOLEAN, NEW applied \in BOOLEAN,
         SetByKey(th, key, tags, ok, applied)
  PROVE  CacheInv'
<1> DEFINE r == IF ok THEN Resume(key, tags) ELSE Idle
           w == IF ok /\ tags # {} THEN th ELSE Nobody
<1>1. r \in {Idle} \cup Tagging /\ r \notin Writing \cup Deleting /\ w \in Thread \cup {Nobody}
  <2>1. Idle \notin Writing \cup Deleting
    BY DEF Idle, Writing, Deleting
  <2> QED
    BY <2>1, ResumeShape
<1>2. /\ op' = [op EXCEPT ![th] = r] /\ UNCHANGED <<index, tagMu>>
      /\ \/ /\ data' = data \cup {key} /\ writer' = [writer EXCEPT ![key] = w]
            /\ asked' = [asked EXCEPT ![key] = tags] /\ indexed' = [indexed EXCEPT ![key] = {}]
         \/ UNCHANGED <<data, writer, asked, indexed>>
  BY DEF SetByKey
<1> HIDE DEF r, w
<1>3. op' \in [Thread -> {Idle} \cup Tagging \cup Writing \cup Deleting]
      /\ op'[th] = r /\ \A u \in Thread \ {th} : op'[u] = op[u]
  BY <1>1, <1>2 DEF CacheInv, Typed
<1>4. Typed'
  BY <1>1, <1>2, <1>3 DEF CacheInv, Typed
<1>5. ListUnderLock'
  BY <1>1, <1>2, <1>3, OthersHold DEF Holds
<1>6. ReachableByTag'
  <2> SUFFICES ASSUME NEW k \in data', NEW t \in indexed'[k] PROVE k \in index[t]
    BY <1>2 DEF ReachableByTag
  <2>1. k \in data /\ t \in indexed[k]
    BY <1>2 DEF CacheInv, Typed
  <2> QED
    BY <2>1 DEF CacheInv, ReachableByTag
<1> QED
  BY <1>4, <1>5, <1>6 DEF CacheInv

\* addTagKey reads the list under tagMu.
LEMMA addTagKeyReadInv ==
  ASSUME CacheInv, NEW p, Process = {p}, NEW th \in Thread, NEW tag \in Tag, NEW ok \in BOOLEAN,
         addTagKeyRead(th, tag, ok)
  PROVE  CacheInv'
<1>0. Typed /\ op[th] \in Tagging /\ tagMu[th[1]] = Nobody /\ UNCHANGED index
  BY OpShapes DEF CacheInv, addTagKeyRead
<1>1. CASE ~ok \/ op[th].key \in index[tag]
  <2>1. TagDone(th, tag, ok) /\ UNCHANGED tagMu
    BY <1>1 DEF addTagKeyRead
  <2>2. index' \in [Tag -> SUBSET Key] /\ tagMu' \in [Process -> Thread \cup {Nobody}]
    BY <1>0, <2>1 DEF Typed
  <2>3. /\ Typed' /\ ReachableByTag' /\ ~Holds(th)'
        /\ \A u \in Thread \ {th} : op'[u] = op[u]
    BY <1>0, <1>1, <2>1, <2>2, TagDoneStep
  <2>4. ListUnderLock'
    BY <1>0, <2>1, <2>3, OthersHold, Zenon
  <2> QED
    BY <2>3, <2>4 DEF CacheInv
<1>2. CASE ok /\ op[th].key \notin index[tag]
  <2> DEFINE w == [pc |-> "write", key |-> op[th].key, todo |-> op[th].todo,
                   tag |-> tag, members |-> index[tag]]
  <2>1. Lock(th) /\ op' = [op EXCEPT ![th] = w] /\ UNCHANGED <<data, writer, asked, indexed>>
    BY <1>2 DEF addTagKeyRead
  <2>2. w \in Writing /\ w.members = index[tag] /\ w.tag = tag
    BY <1>0 DEF Typed, Tagging, Writing
  <2> HIDE DEF w
  <2>3. /\ op' \in [Thread -> {Idle} \cup Tagging \cup Writing \cup Deleting]
        /\ op'[th] = w /\ \A u \in Thread \ {th} : op'[u] = op[u]
        /\ tagMu' \in [Process -> Thread \cup {Nobody}] /\ tagMu'[th[1]] = th
    BY <1>0, <2>1, <2>2, OpShapes DEF Typed, Lock
  <2>4. Typed'
    BY <1>0, <2>1, <2>3 DEF Typed
  <2>5. ListUnderLock'
    BY <1>0, <2>2, <2>3, OthersHold
  <2>6. ReachableByTag'
    BY <1>0, <2>1 DEF CacheInv, ReachableByTag
  <2> QED
    BY <2>4, <2>5, <2>6 DEF CacheInv
<1> QED
  BY <1>1, <1>2

\* The list that is written is the one that was read, with the key: tagMu was
\* held in between.
LEMMA addTagKeyWriteInv ==
  ASSUME CacheInv, NEW p, Process = {p}, NEW th \in Thread, NEW ok \in BOOLEAN, NEW applied \in BOOLEAN,
         addTagKeyWrite(th, ok, applied)
  PROVE  CacheInv'
<1> DEFINE key == op[th].key
           tag == op[th].tag
<1>1. Typed /\ op[th] \in Writing /\ key \in Key /\ tag \in Tag
  BY OpShapes DEF CacheInv, addTagKeyWrite, Writing
<1>2. tagMu[th[1]] = th /\ op[th].members = index[tag]
  BY <1>1 DEF CacheInv, ListUnderLock, Holds
<1>3. /\ TagDone(th, tag, ok) /\ tagMu' = [tagMu EXCEPT ![th[1]] = Nobody]
      /\ \/ ~ok /\ index' = index
         \/ index' = [index EXCEPT ![tag] = index[tag] \cup {key}]
  BY <1>2 DEF addTagKeyWrite, Unlock
<1> HIDE DEF key, tag
<1>4. /\ index' \in [Tag -> SUBSET Key] /\ tagMu' \in [Process -> Thread \cup {Nobody}]
      /\ \A t \in Tag : index[t] \subseteq index'[t]
      /\ ok => key \in index'[tag]
  BY <1>1, <1>3, Zenon DEF Typed
<1>5. /\ Typed' /\ ReachableByTag' /\ ~Holds(th)'
      /\ \A u \in Thread \ {th} : op'[u] = op[u]
  BY <1>1, <1>3, <1>4, TagDoneStep DEF key
<1>6. ListUnderLock'
  BY <1>2, <1>5, OthersHold, Zenon
<1> QED
  BY <1>5, <1>6 DEF CacheInv

\* InvalidateByTag reads the list under tagMu.
LEMMA InvalidateByTagReadInv ==
  ASSUME CacheInv, NEW p, Process = {p}, NEW th \in Thread, NEW tag \in Tag, InvalidateByTagRead(th, tag)
  PROVE  CacheInv'
<1> DEFINE d == [pc |-> "delete", tag |-> tag, members |-> index[tag]]
<1>1. /\ Typed /\ tagMu[th[1]] = Nobody /\ Lock(th)
      /\ op' = [op EXCEPT ![th] = d] /\ UNCHANGED <<data, index, writer, asked, indexed>>
  BY DEF InvalidateByTagRead, Lock, CacheInv
<1>2. d \in Deleting /\ d.members = index[tag] /\ d.tag = tag
  BY <1>1 DEF Typed, Deleting
<1> HIDE DEF d
<1>3. /\ op' \in [Thread -> {Idle} \cup Tagging \cup Writing \cup Deleting]
      /\ op'[th] = d /\ \A u \in Thread \ {th} : op'[u] = op[u]
      /\ tagMu' \in [Process -> Thread \cup {Nobody}] /\ tagMu'[th[1]] = th
  BY <1>1, <1>2, OpShapes DEF Typed, Lock
<1>4. Typed'
  BY <1>1, <1>3 DEF Typed
<1>5. ListUnderLock'
  BY <1>1, <1>2, <1>3, OthersHold, Zenon
<1>6. ReachableByTag'
  BY <1>1 DEF CacheInv, ReachableByTag
<1> QED
  BY <1>4, <1>5, <1>6 DEF CacheInv

\* Every entry on the list goes together with the list, so none is left that
\* the list was to lead to.
LEMMA InvalidateByTagDelInv ==
  ASSUME CacheInv, NEW p, Process = {p}, NEW th \in Thread, NEW applied \in BOOLEAN,
         InvalidateByTagDel(th, applied)
  PROVE  CacheInv'
<1> DEFINE tag == op[th].tag
           K == op[th].members
<1>1. Typed /\ op[th] \in Deleting /\ tag \in Tag /\ K \in SUBSET Key
  BY OpShapes DEF CacheInv, InvalidateByTagDel, Deleting
<1>2. tagMu[th[1]] = th /\ K = index[tag]
  BY <1>1 DEF CacheInv, ListUnderLock, Holds
<1>3. /\ op' = [op EXCEPT ![th] = Idle] /\ tagMu' = [tagMu EXCEPT ![th[1]] = Nobody]
      /\ \/ Drop(K) /\ index' = [index EXCEPT ![tag] = {}]
         \/ UNCHANGED <<data, index, writer, asked, indexed>>
  BY DEF InvalidateByTagDel, Unlock
<1> HIDE DEF tag, K
<1>4. /\ op' \in [Thread -> {Idle} \cup Tagging \cup Writing \cup Deleting]
      /\ op'[th] = Idle /\ \A u \in Thread \ {th} : op'[u] = op[u]
      /\ tagMu' \in [Process -> Thread \cup {Nobody}]
  BY <1>1, <1>3, Zenon DEF Typed
<1>5. ListUnderLock'
  <2>1. ~Holds(th)'
    BY <1>4 DEF Holds, Idle, Writing, Deleting
  <2> QED
    BY <1>2, <1>4, <2>1, OthersHold
<1>6. CASE UNCHANGED <<data, index, writer, asked, indexed>>
  <2>1. Typed' /\ ReachableByTag'
    BY <1>1, <1>4, <1>6 DEF Typed, CacheInv, ReachableByTag
  <2> QED
    BY <1>5, <2>1 DEF CacheInv
<1>7. CASE Drop(K) /\ index' = [index EXCEPT ![tag] = {}]
  <2>1. /\ data' = data \ K
        /\ data' \subseteq Key /\ writer' \in [Key -> Thread \cup {Nobody}]
        /\ asked' \in [Key -> SUBSET Tag] /\ indexed' \in [Key -> SUBSET Tag]
        /\ \A k \in data' : indexed'[k] = indexed[k]
    BY <1>1, <1>7, DropStep
  <2>2. /\ index' \in [Tag -> SUBSET Key]
        /\ \A t \in Tag \ {tag} : index'[t] = index[t]
    BY <1>1, <1>7 DEF Typed
  <2>3. Typed'
    BY <1>4, <2>1, <2>2 DEF Typed
  <2>4. ASSUME NEW k \in data', NEW t \in indexed'[k] PROVE k \in index'[t]
    <3>1. k \in data /\ k \notin K /\ k \in Key /\ t \in indexed[k] /\ t \in Tag
      BY <1>1, <2>1, <2>4 DEF Typed
    <3>2. k \in index[t]
      BY <3>1 DEF CacheInv, ReachableByTag
    <3> QED
      BY <1>2, <2>2, <3>1, <3>2
  <2> QED
    BY <1>5, <2>3, <2>4 DEF CacheInv, ReachableByTag
<1> QED
  BY <1>3, <1>6, <1>7

\* Delete and expiry of one entry.
LEMMA GoneInv ==
  ASSUME CacheInv, NEW key \in Key, Drop({key}), UNCHANGED <<index, tagMu, op>>
  PROVE  CacheInv'
<1>1. /\ data' = data \ {key}
      /\ data' \subseteq Key /\ writer' \in [Key -> Thread \cup {Nobody}]
      /\ asked' \in [Key -> SUBSET Tag] /\ indexed' \in [Key -> SUBSET Tag]
      /\ \A k \in data' : indexed'[k] = indexed[k]
  BY DropStep DEF CacheInv
<1>2. Typed' /\ ListUnderLock' /\ ReachableByTag'
  BY <1>1 DEF CacheInv, Typed, ListUnderLock, Holds, ReachableByTag
<1> QED
  BY <1>2 DEF CacheInv

\* Every step of a call on the cluster's cache keeps the invariant.
LEMMA NextCache ==
  ASSUME NEW p, Process = {p}, CacheInv, [CacheNext]_cacheVars
  PROVE  CacheInv'
<1>1. ASSUME NEW th \in Thread, Step(th) PROVE CacheInv'
  BY <1>1, addTagKeyReadInv, addTagKeyWriteInv, InvalidateByTagDelInv DEF Step
<1>2. ASSUME NEW th \in Thread, NEW key \in Key, NEW tags \in SUBSET Tag,
             NEW ok \in BOOLEAN, NEW applied \in BOOLEAN, SetByKey(th, key, tags, ok, applied)
      PROVE  CacheInv'
  BY <1>2, SetByKeyInv
<1>3. ASSUME NEW th \in Thread, NEW tag \in Tag, InvalidateByTagRead(th, tag) PROVE CacheInv'
  BY <1>3, InvalidateByTagReadInv
<1>4. ASSUME NEW th \in Thread, NEW key \in Key, Delete(th, key) PROVE CacheInv'
  BY <1>4, GoneInv DEF Delete
<1>5. ASSUME NEW key \in Key, Expire(key) PROVE CacheInv'
  BY <1>5, GoneInv DEF Expire
<1>6. CASE UNCHANGED cacheVars
  BY <1>6 DEF cacheVars, CacheInv, Typed, ListUnderLock, Holds, ReachableByTag
<1> QED
  BY <1>1, <1>2, <1>3, <1>4, <1>5, <1>6 DEF CacheNext

\* InvalidateByTag finds every entry whose Set has indexed the tag, whatever
\* requests of the process ran between the backend calls of that Set and
\* whichever of those calls failed, before or after they took effect.
THEOREM TaggedStayReachable ==
  ASSUME NEW p, Process = {p}
  PROVE  CacheSpec => []ReachableByTag
<1>1. CacheInit => CacheInv
  BY InitialCache
<1>2. CacheInv /\ [CacheNext]_cacheVars => CacheInv'
  BY NextCache
<1>3. CacheInv => ReachableByTag
  BY DEF CacheInv
<1> QED
  BY <1>1, <1>2, <1>3, PTL DEF CacheSpec

-----------------------------------------------------------------------------
(* Collector.LeastLoaded.                                                  *)

Counts == [requests : 0 .. MaxRequests, errors : Int, latency : Int, samples : Int]
Scan == [at : {"scan"}, left : SUBSET Shard, best : SUBSET Shard, bestCount : Int]

\* During a scan the smallest count loaded so far is at or below the counts, as
\* they are now, of all shards that were scanned; while there is no best, it is
\* still the initial one, which is above every count.
LoadInv ==
  /\ metrics \subseteq Shard
  /\ counts \in [Shard -> Counts]
  /\ "at" \in DOMAIN observer
  /\ observer.at = "scan" =>
       /\ observer \in Scan
       /\ metrics # {} /\ observer.left \subseteq metrics /\ observer.best \subseteq metrics
       /\ observer.best = {} => observer.bestCount = MaxRequests + 1
       /\ \A s \in metrics \ observer.left : observer.bestCount <= counts[s].requests

\* A goroutine in the middle of Record has its shard and its latency.
RecorderInv ==
  \A g \in Recorder :
     \/ recorder[g] = H!Idle
     \/ recorder[g] \in [at : {"errors", "latency", "samples"}, shard : Shard, took : Int]

\* Record only adds to the counters of a shard.
LEMMA OnlyCountsUp ==
  ASSUME LoadInv, counts' \in [Shard -> Counts], UNCHANGED <<metrics, observer>>,
         \A s \in Shard : counts[s].requests <= counts'[s].requests
  PROVE  LoadInv'
<1>1. CASE observer.at = "scan"
  <2>1. /\ observer \in Scan
        /\ metrics # {} /\ observer.left \subseteq metrics /\ observer.best \subseteq metrics
        /\ observer.best = {} => observer.bestCount = MaxRequests + 1
        /\ \A s \in metrics \ observer.left : observer.bestCount <= counts[s].requests
    BY <1>1 DEF LoadInv
  <2>2. observer.bestCount \in Int /\ metrics \subseteq Shard /\ \A s \in Shard : counts[s].requests \in Int /\ counts'[s].requests \in Int
    BY <2>1 DEF LoadInv, Scan, Counts
  <2>3. \A s \in metrics \ observer.left : observer.bestCount <= counts'[s].requests
    BY <2>1, <2>2
  <2> QED BY <2>1, <2>3 DEF LoadInv
<1>2. CASE observer.at # "scan"
  BY <1>2 DEF LoadInv
<1> QED BY <1>1, <1>2

\* Adding to a counter other than the requests changes no load.
LEMMA Bumped ==
  ASSUME LoadInv, NEW s \in Shard, NEW f \in {"errors", "latency", "samples"}, NEW by \in Int,
         H!Bump(s, f, by), UNCHANGED <<metrics, observer>>
  PROVE  LoadInv'
<1>1. counts \in [Shard -> Counts] /\ counts' = [counts EXCEPT ![s] = [counts[s] EXCEPT ![f] = @ + by]]
  BY DEF LoadInv, H!Bump
<1>2. [counts[s] EXCEPT ![f] = @ + by] \in Counts /\ [counts[s] EXCEPT ![f] = @ + by].requests = counts[s].requests
  BY <1>1 DEF Counts
<1>3. counts' \in [Shard -> Counts] /\ \A t \in Shard : counts'[t].requests = counts[t].requests
  BY <1>1, <1>2
<1>4. \A t \in Shard : counts[t].requests \in Int
  BY <1>1 DEF Counts
<1> QED BY <1>3, <1>4, OnlyCountsUp

\* Recording a request lowers no load that a scan has seen.
LEMMA RecordStep ==
  ASSUME LoadInv, RecorderInv, MaxRequests \in Nat, NEW g \in Recorder,
         H!RecordRequest(g) \/ H!RecordError(g) \/ H!RecordLatency(g) \/ H!RecordSample(g)
  PROVE  LoadInv'
<1>1. ASSUME H!RecordRequest(g) PROVE LoadInv'
  <2>1. PICK s \in Shard : /\ counts[s].requests < MaxRequests
                          /\ counts' = [counts EXCEPT ![s] = [counts[s] EXCEPT !["requests"] = @ + 1]]
                          /\ UNCHANGED <<metrics, observer>>
    BY <1>1, Zenon DEF H!RecordRequest, H!Bump
  <2>2. counts \in [Shard -> Counts]
    BY DEF LoadInv
  <2>3. /\ [counts[s] EXCEPT !["requests"] = @ + 1] \in Counts
        /\ [counts[s] EXCEPT !["requests"] = @ + 1].requests = counts[s].requests + 1
    <3>1. counts[s] \in Counts /\ counts[s].requests < MaxRequests
      BY <2>1, <2>2
    <3> QED BY <3>1 DEF Counts
  <2>4. /\ counts' \in [Shard -> Counts]
        /\ \A t \in Shard : counts'[t].requests = counts[t].requests \/ counts'[t].requests = counts[t].requests + 1
    BY <2>1, <2>2, <2>3
  <2>5. \A t \in Shard : counts[t].requests \in Int
    BY <2>2 DEF Counts
  <2> QED BY <2>1, <2>4, <2>5, OnlyCountsUp
<1>2. ASSUME H!RecordError(g) PROVE LoadInv'
  <2>1. recorder[g].at = "errors" /\ H!Bump(recorder[g].shard, "errors", 1) /\ UNCHANGED <<metrics, observer>>
    BY <1>2 DEF H!RecordError
  <2>2. recorder[g].shard \in Shard
    BY <2>1 DEF RecorderInv, H!Idle
  <2> QED BY <2>1, <2>2, Bumped
<1>3. ASSUME H!RecordLatency(g) PROVE LoadInv'
  <2>1. recorder[g].at = "latency" /\ UNCHANGED <<metrics, observer>>
    BY <1>3 DEF H!RecordLatency
  <2>2. recorder[g].shard \in Shard /\ recorder[g].took \in Int
    BY <2>1 DEF RecorderInv, H!Idle
  <2>3. UNCHANGED counts \/ H!Bump(recorder[g].shard, "latency", recorder[g].took)
    BY <1>3 DEF H!RecordLatency
  <2>4. CASE UNCHANGED counts
    BY <2>1, <2>4 DEF LoadInv
  <2> QED BY <2>1, <2>2, <2>3, <2>4, Bumped
<1>4. ASSUME H!RecordSample(g) PROVE LoadInv'
  <2>1. recorder[g].at = "samples" /\ H!Bump(recorder[g].shard, "samples", 1) /\ UNCHANGED <<metrics, observer>>
    BY <1>4 DEF H!RecordSample
  <2>2. recorder[g].shard \in Shard
    BY <2>1 DEF RecorderInv, H!Idle
  <2> QED BY <2>1, <2>2, Bumped
<1> QED BY <1>1, <1>2, <1>3, <1>4

\* One load of the scan.  A shard that is not below the best so far leaves it.
LEMMA ScanStep ==
  ASSUME LoadInv, MaxRequests \in Nat, NEW s \in Shard, H!LeastLoadedScan(s)
  PROVE  LoadInv'
<1> DEFINE n == counts[s].requests
<1>1. /\ observer.at = "scan" /\ s \in observer.left /\ UNCHANGED <<metrics, counts>>
      /\ observer' = IF n < observer.bestCount
                     THEN [observer EXCEPT !.left = @ \ {s}, !.best = {s}, !.bestCount = n]
                     ELSE [observer EXCEPT !.left = @ \ {s}]
  BY DEF H!LeastLoadedScan
<1>2. /\ observer \in Scan
      /\ metrics # {} /\ observer.left \subseteq metrics /\ observer.best \subseteq metrics
      /\ observer.best = {} => observer.bestCount = MaxRequests + 1
      /\ \A t \in metrics \ observer.left : observer.bestCount <= counts[t].requests
      /\ metrics \subseteq Shard /\ counts \in [Shard -> Counts]
  BY <1>1 DEF LoadInv
<1>3. n \in Int /\ observer.bestCount \in Int /\ \A t \in metrics : counts[t].requests \in Int
  BY <1>2 DEF Counts, Scan
<1> HIDE DEF n
<1>4. CASE n < observer.bestCount
  <2>1. observer' = [at |-> "scan", left |-> observer.left \ {s}, best |-> {s}, bestCount |-> n]
    BY <1>1, <1>2, <1>4, Zenon DEF Scan
  <2>2. observer' \in Scan /\ "at" \in DOMAIN observer' /\ observer'.left = observer.left \ {s} /\ observer'.best = {s} /\ observer'.bestCount = n
    BY <1>2, <1>3, <2>1 DEF Scan
  <2>3. \A t \in metrics \ observer'.left : n <= counts[t].requests
    BY <1>2, <1>3, <1>4, <2>2 DEF n
  <2> QED BY <1>1, <1>2, <2>2, <2>3 DEF LoadInv
<1>5. CASE ~(n < observer.bestCount)
  <2>1. observer' = [at |-> "scan", left |-> observer.left \ {s}, best |-> observer.best, bestCount |-> observer.bestCount]
    BY <1>1, <1>2, <1>5, Zenon DEF Scan
  <2>2. /\ observer' \in Scan /\ "at" \in DOMAIN observer' /\ observer'.left = observer.left \ {s}
        /\ observer'.best = observer.best /\ observer'.bestCount = observer.bestCount
    BY <1>2, <1>3, <2>1 DEF Scan
  <2>3. \A t \in metrics \ observer'.left : observer.bestCount <= counts[t].requests
    BY <1>2, <1>3, <1>5, <2>2 DEF n
  <2> QED BY <1>1, <1>2, <2>2, <2>3 DEF LoadInv
<1> QED BY <1>4, <1>5

\* A scan of LeastLoaded loads one shard after the other.
LEMMA ObserverStep ==
  ASSUME LoadInv, MaxRequests \in Nat,
         \/ \E s \in Shard : H!Snapshot(s) \/ \E isNil \in BOOLEAN : H!Register(s, isNil)
         \/ H!SnapshotLoad \/ H!SnapshotReturn \/ H!LeastLoaded \/ H!LeastLoadedReturn
  PROVE  LoadInv'
<1>1. ASSUME observer' = H!Idle, UNCHANGED <<metrics, counts>> PROVE LoadInv'
  BY <1>1 DEF LoadInv, H!Idle
<1>2. ASSUME NEW s \in Shard, H!Snapshot(s) PROVE LoadInv'
  <2>1. "at" \in DOMAIN observer' /\ observer'.at = "errors" /\ UNCHANGED <<metrics, counts>>
    BY <1>2 DEF H!Snapshot
  <2> QED BY <2>1 DEF LoadInv
<1>3. ASSUME NEW s \in Shard, NEW isNil \in BOOLEAN, H!Register(s, isNil) PROVE LoadInv'
  <2>1. observer' = H!Idle /\ metrics' \subseteq Shard /\ UNCHANGED counts
    BY <1>3 DEF H!Register, LoadInv
  <2> QED BY <2>1 DEF LoadInv, H!Idle
<1>4. ASSUME H!SnapshotLoad PROVE LoadInv'
  <2> DEFINE next == [errors |-> "latency", latency |-> "samples", samples |-> "done"]
  <2>1. next[observer.at] # "scan" /\ UNCHANGED <<metrics, counts>>
    BY <1>4 DEF H!SnapshotLoad
  <2>2. "at" \in DOMAIN observer
    BY DEF LoadInv
  <2>3. "at" \in DOMAIN observer' /\ observer'.at = next[observer.at]
    BY <1>4, <2>2 DEF H!SnapshotLoad
  <2> QED BY <2>1, <2>3 DEF LoadInv
<1>5. ASSUME H!LeastLoaded PROVE LoadInv'
  <2>1. /\ metrics # {} /\ UNCHANGED <<metrics, counts>>
        /\ observer' = [at |-> "scan", left |-> metrics, best |-> {}, bestCount |-> MaxRequests + 1]
    BY <1>5 DEF H!LeastLoaded, H!maxCount
  <2>2. metrics \subseteq Shard
    BY DEF LoadInv
  <2>3. /\ observer' \in Scan /\ "at" \in DOMAIN observer'
        /\ observer'.left = metrics /\ observer'.best = {} /\ observer'.bestCount = MaxRequests + 1
    BY <2>1, <2>2 DEF Scan
  <2> QED BY <2>1, <2>3 DEF LoadInv
<1>6. ASSUME H!SnapshotReturn \/ H!LeastLoadedReturn PROVE LoadInv'
  BY <1>1, <1>6 DEF H!SnapshotReturn, H!LeastLoadedReturn
<1> QED BY <1>2, <1>3, <1>4, <1>5, <1>6

\* Record leaves a goroutine idle or with the shard and latency it began with.
LEMMA RecorderStep == ASSUME RecorderInv, Slow \in Int, [H!Next]_(H!vars) PROVE RecorderInv'
<1> DEFINE Busy == [at : {"errors", "latency", "samples"}, shard : Shard, took : Int]
<1>1. ASSUME UNCHANGED recorder PROVE RecorderInv'
  BY <1>1 DEF RecorderInv
<1>2. ASSUME NEW g \in Recorder, NEW r, r = H!Idle \/ r \in Busy, recorder' = [recorder EXCEPT ![g] = r]
      PROVE  RecorderInv'
  BY <1>2 DEF RecorderInv
<1>3. ASSUME NEW g \in Recorder, H!RecordRequest(g) PROVE RecorderInv'
  <2>1. PICK s \in Shard, isError \in BOOLEAN, took \in {-1, Slow} :
           recorder' = [recorder EXCEPT ![g] = [at |-> IF isError THEN "errors" ELSE "latency",
                                                shard |-> s, took |-> took]]
    BY <1>3, Zenon DEF H!RecordRequest
  <2>2. [at |-> IF isError THEN "errors" ELSE "latency", shard |-> s, took |-> took] \in Busy
    OBVIOUS
  <2> QED BY <1>2, <2>1, <2>2, Zenon
<1>4. ASSUME NEW g \in Recorder, NEW at \in {"latency", "samples"}, recorder[g].at # "idle", H!Goto(g, at)
      PROVE  RecorderInv'
  <2>1. recorder[g] \in Busy
    BY <1>4 DEF RecorderInv, H!Idle
  <2>2. [recorder[g] EXCEPT !.at = at] \in Busy
    BY <2>1
  <2>3. recorder' = [recorder EXCEPT ![g] = [recorder[g] EXCEPT !.at = at]]
    BY <1>4 DEF H!Goto
  <2> QED BY <1>2, <2>2, <2>3, Zenon
<1>5. ASSUME NEW g \in Recorder, H!RecordError(g) PROVE RecorderInv'
  BY <1>4, <1>5 DEF H!RecordError
<1>6. ASSUME NEW g \in Recorder, H!RecordLatency(g) PROVE RecorderInv'
  BY <1>2, <1>4, <1>6 DEF H!RecordLatency
<1>7. ASSUME NEW g \in Recorder, H!RecordSample(g) PROVE RecorderInv'
  BY <1>2, <1>7, Zenon DEF H!RecordSample
<1>8. ASSUME \/ UNCHANGED H!vars \/ H!SnapshotLoad \/ H!SnapshotReturn \/ H!LeastLoaded \/ H!LeastLoadedReturn
             \/ \E s \in Shard : H!Reset(s) \/ H!Snapshot(s) \/ H!LeastLoadedScan(s) \/ \E isNil \in BOOLEAN : H!Register(s, isNil)
      PROVE  RecorderInv'
  BY <1>1, <1>8, Zenon DEF H!vars, H!SnapshotLoad, H!SnapshotReturn, H!LeastLoaded, H!LeastLoadedReturn, H!Reset, H!Snapshot, H!LeastLoadedScan, H!Register
<1> QED BY <1>3, <1>5, <1>6, <1>7, <1>8 DEF H!Next

\* Whatever is recorded during its scan, LeastLoaded returns a registered shard
\* whose count, when it was loaded, was at or below every registered shard's
\* count at the return.
THEOREM LeastLoadedIsMinimal ==
  ASSUME MaxRequests \in Nat, Slow \in Int
  PROVE  H!Spec => []LeastLoadedMinimal
<1>1. H!Init => LoadInv /\ RecorderInv
  BY DEF H!Init, H!Zero, H!Idle, LoadInv, RecorderInv, Counts
<1>2. ASSUME LoadInv, RecorderInv, [H!Next]_(H!vars) PROVE LoadInv' /\ RecorderInv'
  <2>1. ASSUME NEW s \in Shard, H!Reset(s) PROVE LoadInv'
    <3>1. observer' = H!Idle /\ UNCHANGED metrics /\ counts' = [counts EXCEPT ![s] = H!Zero]
      BY <2>1 DEF H!Reset
    <3>2. H!Zero \in Counts
      BY DEF H!Zero, Counts
    <3> QED BY <1>2, <3>1, <3>2 DEF LoadInv, H!Idle
  <2>2. ASSUME UNCHANGED H!vars PROVE LoadInv'
    <3>1. UNCHANGED <<metrics, observer>> /\ UNCHANGED counts
      BY <2>2 DEF H!vars
    <3>2. counts' \in [Shard -> Counts] /\ \A s \in Shard : counts[s].requests <= counts'[s].requests
      BY <1>2, <3>1 DEF LoadInv, Counts
    <3> QED BY <1>2, <3>1, <3>2, OnlyCountsUp
  <2>3. RecorderInv'
    BY <1>2, RecorderStep
  <2> QED BY <1>2, <2>1, <2>2, <2>3, RecordStep, ScanStep, ObserverStep DEF H!Next
<1>3. LoadInv => LeastLoadedMinimal
  <2> SUFFICES ASSUME LoadInv, observer.at = "scan", observer.left = {}
               PROVE  /\ observer.best # {} /\ observer.best \subseteq metrics
                      /\ \A s \in metrics : observer.bestCount <= counts[s].requests
    BY DEF LeastLoadedMinimal, H!LeastLoadedMinimal
  <2>1. /\ \A s \in metrics : observer.bestCount <= counts[s].requests
        /\ observer.best = {} => observer.bestCount = MaxRequests + 1
        /\ metrics # {} /\ metrics \subseteq Shard /\ observer.best \subseteq metrics
    BY DEF LoadInv
  <2>2. \A s \in metrics : counts[s].requests \in 0 .. MaxRequests
    BY <2>1 DEF LoadInv, Counts
  <2> QED BY <2>1, <2>2
<1> QED BY <1>1, <1>2, <1>3, PTL DEF H!Spec

-----------------------------------------------------------------------------
(* SMTMetrics: RecordSolverResult counts before it samples, Snapshot copies *)
(* the samples before it loads the counters.                                *)

Pending == {g \in Solver : solver[g] # << >>}
Samples == Seq(Duration)

\* What the snapshot in progress has loaded, or would load now.
Loads(r) == IF r \in DOMAIN snap.loaded THEN snap.loaded[r] ELSE counter[r]

\* Every sample and every sample still to come was counted; and the samples a
\* snapshot copied are covered by the counters it loaded and those it has yet
\* to load, which only grow.
SolverInv ==
  /\ counter \in [S!Result -> Nat]
  /\ durations \in Samples
  /\ \A g \in Pending : solver[g][1] \in Duration
  /\ solver = [g \in Solver |-> solver[g]]
  /\ Len(durations) + Cardinality(Pending) <= S!total(counter)
  /\ snap = [at |-> snap.at, durs |-> snap.durs, loaded |-> snap.loaded]
  /\ snap.durs \in Samples
  /\ DOMAIN snap.loaded \subseteq S!Result
  /\ \A r \in DOMAIN snap.loaded : snap.loaded[r] \in Nat
  /\ snap.at # "none" => Len(snap.durs) <= Loads("sat") + Loads("unsat") + Loads("unknown")
  /\ snap.at = "done" => DOMAIN snap.loaded = S!Result

\* A solver counts its result before it records the duration.
LEMMA RecordResultStep ==
  ASSUME SolverInv, IsFiniteSet(Solver),
         NEW g \in Solver, NEW sat \in {"sat", "unsat", "error"}, NEW d \in Duration, NEW script \in Constraints,
         S!RecordResult(g, sat, d, script)
  PROVE  SolverInv'
<1> DEFINE r == IF sat \in {"sat", "unsat"} THEN sat ELSE "unknown"
           score == S!ConstraintComplexityScore(script)
<1>1. /\ solver[g] = << >> /\ counter' = [counter EXCEPT ![r] = @ + 1]
      /\ solver' = [solver EXCEPT ![g] = <<d, score>>]
      /\ UNCHANGED <<durations, snap>>
  BY DEF S!RecordResult
<1>2. r \in S!Result
  BY DEF S!Result
<1> HIDE DEF r, score
<1>3. counter' \in [S!Result -> Nat] /\ S!total(counter') = S!total(counter) + 1
  <2>1. counter \in [S!Result -> Nat]
    BY DEF SolverInv
  <2> QED BY <1>1, <1>2, <2>1 DEF S!Result, S!total
<1>4. \A q \in S!Result : counter[q] <= counter'[q] /\ counter[q] \in Nat /\ counter'[q] \in Nat
  BY <1>1, <1>2 DEF SolverInv
<1>5. Pending' \subseteq Pending \cup {g} /\ g \notin Pending /\ \A h \in Pending : h # g /\ solver'[h] = solver[h]
  BY <1>1 DEF SolverInv, Pending
<1>6. \A h \in Pending' : solver'[h][1] \in Duration
  BY <1>1, <1>5 DEF SolverInv
<1>7. Len(durations') + Cardinality(Pending') <= S!total(counter')
  <2>1. IsFiniteSet(Pending) /\ Cardinality(Pending) \in Nat
    BY FS_Subset, FS_CardinalityType DEF Pending
  <2>2. IsFiniteSet(Pending \cup {g}) /\ Cardinality(Pending \cup {g}) = Cardinality(Pending) + 1
    BY <1>5, <2>1, FS_AddElement
  <2>3. Cardinality(Pending') \in Nat /\ Cardinality(Pending') <= Cardinality(Pending) + 1
    BY <1>5, <2>2, FS_Subset, FS_CardinalityType
  <2>4. Len(durations) + Cardinality(Pending) <= S!total(counter) /\ Len(durations) \in Nat
    BY DEF SolverInv, Samples
  <2>5. S!total(counter) \in Nat
    BY DEF SolverInv, S!total, S!Result
  <2> QED BY <1>1, <1>3, <2>1, <2>3, <2>4, <2>5
<1>8. snap.at # "none" => Len(snap.durs) <= Loads("sat")' + Loads("unsat")' + Loads("unknown")'
  <2>1. \A q \in S!Result : Loads(q) <= Loads(q)' /\ Loads(q) \in Nat /\ Loads(q)' \in Nat
    BY <1>1, <1>4 DEF SolverInv, Loads
  <2>2. /\ Loads("sat") <= Loads("sat")' /\ Loads("sat") \in Nat /\ Loads("sat")' \in Nat
        /\ Loads("unsat") <= Loads("unsat")' /\ Loads("unsat") \in Nat /\ Loads("unsat")' \in Nat
        /\ Loads("unknown") <= Loads("unknown")' /\ Loads("unknown") \in Nat /\ Loads("unknown")' \in Nat
    BY <2>1 DEF S!Result
  <2>3. /\ Len(snap.durs) \in Nat
        /\ snap.at # "none" => Len(snap.durs) <= Loads("sat") + Loads("unsat") + Loads("unknown")
    BY DEF SolverInv, Samples
  <2> QED BY <2>2, <2>3
<1>9. solver' = [h \in Solver |-> solver'[h]]
  BY <1>1 DEF SolverInv
<1> QED BY <1>1, <1>3, <1>6, <1>7, <1>8, <1>9 DEF SolverInv

\* A solver records the duration of a result it has counted.
LEMMA RecordSampleStep ==
  ASSUME SolverInv, IsFiniteSet(Solver), NEW g \in Solver, S!record(g)
  PROVE  SolverInv'
<1>1. /\ g \in Pending /\ durations' = Append(durations, solver[g][1])
      /\ solver' = [solver EXCEPT ![g] = << >>] /\ UNCHANGED <<counter, snap>>
  BY DEF S!record, Pending
<1>2. durations' \in Samples /\ Len(durations') = Len(durations) + 1 /\ Len(durations) \in Nat
  <2>1. solver[g][1] \in Duration /\ durations \in Seq(Duration)
    BY <1>1, Zenon DEF SolverInv, Samples
  <2> QED BY <1>1, <2>1 DEF Samples
<1>3. solver'[g] = << >> /\ \A h \in Solver : h # g => solver'[h] = solver[h]
  BY <1>1 DEF SolverInv
<1>4. Pending' = Pending \ {g}
  BY <1>3 DEF Pending
<1>5. Cardinality(Pending') = Cardinality(Pending) - 1 /\ Cardinality(Pending) \in Nat
  <2>1. IsFiniteSet(Pending)
    BY FS_Subset DEF Pending
  <2> QED BY <1>1, <1>4, <2>1, FS_RemoveElement, FS_CardinalityType
<1>6. Len(durations') + Cardinality(Pending') <= S!total(counter)
  <2>1. Len(durations) + Cardinality(Pending) <= S!total(counter) /\ S!total(counter) \in Nat
    BY DEF SolverInv, S!total, S!Result
  <2> QED BY <1>2, <1>5, <2>1
<1>7. \A h \in Pending' : solver'[h][1] \in Duration
  BY <1>3, <1>4 DEF SolverInv, Pending
<1>8. solver' = [h \in Solver |-> solver'[h]]
  BY <1>1 DEF SolverInv
<1>9. \A r \in {"sat", "unsat", "unknown"} : Loads(r)' = Loads(r)
  BY <1>1 DEF Loads
<1> QED BY <1>1, <1>2, <1>6, <1>7, <1>8, <1>9 DEF SolverInv

\* A snapshot copies the durations first.
LEMMA SnapshotSamplesStep == ASSUME SolverInv, IsFiniteSet(Solver), S!SnapshotSamples PROVE SolverInv'
<1>1. /\ snap' = [at |-> "counters", durs |-> durations, loaded |-> << >>]
      /\ UNCHANGED <<counter, durations, solver>>
  BY DEF S!SnapshotSamples
<1>2. snap'.at = "counters" /\ snap'.durs = durations /\ DOMAIN snap'.loaded = {}
  BY <1>1
<1>3. \A r \in {"sat", "unsat", "unknown"} : Loads(r)' = counter[r]
  BY <1>1, <1>2 DEF Loads
<1>4. Len(durations) <= S!total(counter)
  <2>1. IsFiniteSet(Pending)
    BY FS_Subset DEF Pending
  <2>2. Cardinality(Pending) \in Nat
    BY <2>1, FS_CardinalityType
  <2>3. Len(durations) + Cardinality(Pending) <= S!total(counter) /\ S!total(counter) \in Nat /\ Len(durations) \in Nat
    BY DEF SolverInv, S!total, S!Result, Samples
  <2> QED BY <2>2, <2>3
<1>5. Pending' = Pending
  BY <1>1 DEF Pending
<1>6. Len(snap'.durs) <= Loads("sat")' + Loads("unsat")' + Loads("unknown")'
  BY <1>2, <1>3, <1>4 DEF S!total
<1> QED BY <1>1, <1>2, <1>5, <1>6 DEF SolverInv

\* A snapshot then loads the counters, one by one.
LEMMA SnapshotLoadStep == ASSUME SolverInv, NEW r \in S!Result, S!SnapshotLoad(r) PROVE SolverInv'
<1> DEFINE order == [sat |-> {}, unsat |-> {"sat"}, unknown |-> {"sat", "unsat"}]
           loaded == [q \in DOMAIN snap.loaded \cup {r} |-> IF q = r THEN counter[r] ELSE snap.loaded[q]]
           at == IF r = "unknown" THEN "done" ELSE snap.at
<1>1. /\ snap.at = "counters" /\ DOMAIN snap.loaded = order[r]
      /\ snap' = [snap EXCEPT !.at = at, !.loaded = loaded]
      /\ UNCHANGED <<counter, durations, solver>>
  BY DEF S!SnapshotLoad
<1>2. r \notin DOMAIN snap.loaded
  BY <1>1 DEF S!Result
<1>3. DOMAIN snap.loaded \cup {r} \subseteq S!Result /\ (r = "unknown" => DOMAIN snap.loaded \cup {r} = S!Result)
  BY <1>1 DEF S!Result
<1>4. snap = [at |-> snap.at, durs |-> snap.durs, loaded |-> snap.loaded]
  BY DEF SolverInv
<1> HIDE DEF order, loaded, at
<1>5. snap' = [at |-> at, durs |-> snap.durs, loaded |-> loaded]
  BY <1>1, <1>4, Zenon
<1>6. /\ DOMAIN loaded = DOMAIN snap.loaded \cup {r} /\ loaded[r] = counter[r]
      /\ \A q \in DOMAIN snap.loaded : loaded[q] = snap.loaded[q]
  BY <1>2 DEF loaded
<1>7. \A q \in S!Result : Loads(q)' = Loads(q)
  BY <1>1, <1>2, <1>5, <1>6 DEF Loads
<1>8. Len(snap'.durs) <= Loads("sat")' + Loads("unsat")' + Loads("unknown")'
  <2>1. Loads("sat")' = Loads("sat") /\ Loads("unsat")' = Loads("unsat") /\ Loads("unknown")' = Loads("unknown")
    BY <1>7 DEF S!Result
  <2>2. Len(snap.durs) <= Loads("sat") + Loads("unsat") + Loads("unknown")
    BY <1>1 DEF SolverInv
  <2> QED BY <1>5, <2>1, <2>2
<1>9. \A q \in DOMAIN loaded : loaded[q] \in Nat
  BY <1>6 DEF SolverInv
<1>10. Pending' = Pending
  BY <1>1 DEF Pending
<1>11. at = "done" => r = "unknown"
  BY <1>1 DEF at
<1> QED BY <1>1, <1>3, <1>5, <1>6, <1>8, <1>9, <1>10, <1>11, Zenon DEF SolverInv

\* A scrape never shows more samples than results, whatever the solvers record
\* while it is taken.
THEOREM SamplesAreCounted ==
  ASSUME IsFiniteSet(Solver)
  PROVE  S!Spec => []SamplesWithinCounts
<1>1. S!Init => SolverInv
  <2> SUFFICES ASSUME S!Init PROVE SolverInv
    OBVIOUS
  <2>1. Pending = {}
    BY DEF S!Init, Pending
  <2>2. Cardinality(Pending) = 0
    BY <2>1, FS_EmptySet
  <2>3. durations = << >> /\ S!total(counter) = 0 /\ counter \in [S!Result -> Nat]
    BY DEF S!Init, S!total, S!Result
  <2>4. snap.at = "none" /\ snap.durs = << >> /\ DOMAIN snap.loaded = {} /\ snap = [at |-> snap.at, durs |-> snap.durs, loaded |-> snap.loaded]
    BY DEF S!Init, S!NoSnap
  <2>5. solver = [g \in Solver |-> solver[g]]
    BY DEF S!Init
  <2> QED BY <2>1, <2>2, <2>3, <2>4, <2>5 DEF SolverInv, Samples
<1>2. ASSUME SolverInv, [S!Next]_(S!vars) PROVE SolverInv'
  <2>1. CASE S!SnapshotReturn
    <3>1. snap' = S!NoSnap /\ UNCHANGED <<counter, durations, solver>>
      BY <2>1 DEF S!SnapshotReturn
    <3>2. snap'.at = "none" /\ snap'.durs = << >> /\ DOMAIN snap'.loaded = {} /\ snap' = [at |-> snap'.at, durs |-> snap'.durs, loaded |-> snap'.loaded]
      BY <3>1 DEF S!NoSnap
    <3>3. Pending' = Pending
      BY <3>1 DEF Pending
    <3> QED BY <1>2, <3>1, <3>2, <3>3 DEF SolverInv, Samples
  <2>2. CASE UNCHANGED S!vars
    <3>1. UNCHANGED <<counter, durations, solver, snap>>
      BY <2>2 DEF S!vars
    <3>2. Pending' = Pending /\ \A r \in {"sat", "unsat", "unknown"} : Loads(r)' = Loads(r)
      BY <3>1 DEF Pending, Loads
    <3> QED BY <1>2, <3>1, <3>2 DEF SolverInv
  <2> QED BY <1>2, <2>1, <2>2, RecordResultStep, RecordSampleStep, SnapshotSamplesStep, SnapshotLoadStep DEF S!Next
<1>3. SolverInv => SamplesWithinCounts
  <2> SUFFICES ASSUME SolverInv, snap.at = "done" PROVE Len(snap.durs) <= S!total(snap.loaded)
    BY DEF SamplesWithinCounts, S!SamplesWithinCounts
  <2>1. DOMAIN snap.loaded = {"sat", "unsat", "unknown"} /\ Len(snap.durs) <= Loads("sat") + Loads("unsat") + Loads("unknown")
    BY DEF SolverInv, S!Result
  <2>2. \A r \in {"sat", "unsat", "unknown"} : Loads(r) = snap.loaded[r]
    BY <2>1 DEF Loads
  <2> QED BY <2>1, <2>2 DEF S!total
<1> QED BY <1>1, <1>2, <1>3, PTL DEF S!Spec
=============================================================================
