-------------------------- MODULE GovernanceProofs --------------------------
(***************************************************************************)
(* Proofs about the governance components: the audit log loses nothing but *)
(* what it counts as evicted, a version is deployed only after approval    *)
(* and rolled back once per deployment, traffic is always served, and the  *)
(* migration chain of a schema ends; for any numbers of actors, versions,  *)
(* deployers, records and schemas.                                         *)
(***************************************************************************)
EXTENDS Governance, Folding, SequenceTheorems

-----------------------------------------------------------------------------
(* The audit log.                                                          *)

\* A set of numbers that are at most n has a maximum.
LEMMA MaxExists ==
  ASSUME NEW n \in Nat, NEW E \in SUBSET (0 .. n), E # {}
  PROVE  A!Max(E) \in E /\ \A y \in E : A!Max(E) >= y
<1> DEFINE T == {n - y : y \in E}
<1>1. T \in SUBSET Nat /\ T # {}
  <2>1. \A y \in E : n - y \in Nat
    OBVIOUS
  <2> QED
    BY <2>1, Zenon
<1>2. PICK x \in T : \A y \in T : x <= y
  BY <1>1, LeastNat, Zenon
<1>3. n - x \in E /\ \A y \in E : n - x >= y
  BY <1>2
<1> QED
  BY <1>3, Zenon DEF A!Max

\* What is left of a suffix without its k oldest is a shorter suffix.
LEMMA DropSuffix ==
  ASSUME NEW E, NEW s \in Seq(E), NEW r \in 0 .. Len(s), NEW k \in 0 .. Len(s) - r
  PROVE  LET e == SubSeq(s, r + 1, Len(s))
         IN  /\ Len(e) = Len(s) - r
             /\ SubSeq(e, k + 1, Len(e)) = SubSeq(s, r + k + 1, Len(s))
<1> DEFINE e == SubSeq(s, r + 1, Len(s))
<1>1. e \in Seq(E) /\ Len(e) = Len(s) - r /\ \A i \in 1 .. Len(s) - r : e[i] = s[r + i]
  BY SubSeqProperties
<1> HIDE DEF e
<1> DEFINE a == SubSeq(e, k + 1, Len(e))
           b == SubSeq(s, r + k + 1, Len(s))
<1>2. a \in Seq(E) /\ Len(a) = Len(e) - k /\ \A i \in 1 .. Len(e) - k : a[i] = e[k + i]
  BY <1>1, SubSeqProperties
<1>3. b \in Seq(E) /\ Len(b) = Len(s) - r - k /\ \A i \in 1 .. Len(s) - r - k : b[i] = s[r + k + i]
  BY SubSeqProperties
<1>4. a = b
  <2> HIDE DEF a, b
  <2>1. \A i \in 1 .. Len(a) : a[i] = b[i]
    BY <1>1, <1>2, <1>3
  <2> QED
    BY <1>1, <1>2, <1>3, <2>1, SeqEqual, Zenon
<1> QED
  BY <1>1, <1>4 DEF e

LEMMA AppendSuffix ==
  ASSUME NEW E, NEW s \in Seq(E), NEW r \in 0 .. Len(s), NEW x \in E
  PROVE  SubSeq(Append(s, x), r + 1, Len(s) + 1) = Append(SubSeq(s, r + 1, Len(s)), x)
<1> DEFINE e == SubSeq(s, r + 1, Len(s))
           t == Append(s, x)
           a == SubSeq(t, r + 1, Len(s) + 1)
           b == Append(e, x)
<1>1. e \in Seq(E) /\ Len(e) = Len(s) - r /\ \A i \in 1 .. Len(s) - r : e[i] = s[r + i]
  BY SubSeqProperties
<1>2. t \in Seq(E) /\ Len(t) = Len(s) + 1 /\ t[Len(s) + 1] = x /\ \A i \in 1 .. Len(s) : t[i] = s[i]
  BY AppendProperties
<1> HIDE DEF e, t
<1>3. a \in Seq(E) /\ Len(a) = Len(s) + 1 - r /\ \A i \in 1 .. Len(s) + 1 - r : a[i] = t[r + i]
  BY <1>2, SubSeqProperties
<1>4. b \in Seq(E) /\ Len(b) = Len(e) + 1 /\ b[Len(e) + 1] = x /\ \A i \in 1 .. Len(e) : b[i] = e[i]
  BY <1>1, AppendProperties
<1> HIDE DEF a, b
<1>5. Len(s) \in Nat /\ Len(a) = Len(b) /\ Len(a) = Len(s) + 1 - r /\ Len(e) = Len(s) - r
  BY <1>1, <1>3, <1>4
<1>6. ASSUME NEW i \in 1 .. Len(a) PROVE a[i] = b[i]
  <2>1. CASE i = Len(s) + 1 - r
    <3>1. a[i] = t[r + i] /\ r + i = Len(s) + 1
      BY <1>3, <1>5, <2>1
    <3>2. b[i] = x
      BY <1>4, <1>5, <2>1
    <3> QED
      BY <1>2, <3>1, <3>2
  <2>2. CASE i # Len(s) + 1 - r
    <3>1. i \in 1 .. Len(s) - r /\ r + i \in 1 .. Len(s)
      BY <1>5, <2>2
    <3>2. a[i] = t[r + i] /\ b[i] = e[i]
      BY <1>3, <1>4, <1>5, <3>1
    <3> QED
      BY <1>1, <1>2, <3>1, <3>2
  <2> QED
    BY <2>1, <2>2
<1>7. a = b
  BY <1>3, <1>4, <1>5, <1>6, SeqEqual, Zenon
<1> QED
  BY <1>7, Zenon DEF a, b, e, t

-----------------------------------------------------------------------------
\* The inductive invariant of the audit log: the trail and the number of
\* entries evicted determine the log, and the log fits.
AuditInv ==
  /\ trail \in Seq(A!Entry) /\ Len(trail) <= MaxRecords
  /\ rotationCount \in 0 .. Len(trail)
  /\ TrailIsSuffix
  /\ Len(entries) <= maxLen
  /\ now \in 0 .. MaxTime
  /\ recorder \in [Recorder -> -1 .. MaxTime]

LEMMA InitialAudit == A!Init => AuditInv
<1> SUFFICES ASSUME A!Init PROVE AuditInv
  OBVIOUS
<1>1. SubSeq(trail, rotationCount + 1, Len(trail)) = << >>
  BY SubSeqEmpty DEF A!Init
<1> QED
  BY <1>1, AuditAssumption DEF A!Init, AuditInv, TrailIsSuffix, A!TrailIsSuffix

\* Evicting the k oldest entries.
LEMMA Evicted ==
  ASSUME AuditInv, NEW k \in 0 .. Len(entries)
  PROVE  /\ entries \in Seq(A!Entry) /\ Len(entries) = Len(trail) - rotationCount
         /\ A!Drop(k) = SubSeq(trail, rotationCount + k + 1, Len(trail))
         /\ A!Drop(k) \in Seq(A!Entry) /\ Len(A!Drop(k)) = Len(entries) - k
         /\ rotationCount + k \in 0 .. Len(trail)
<1>1. /\ trail \in Seq(A!Entry) /\ Len(trail) \in Nat /\ rotationCount \in 0 .. Len(trail)
      /\ entries = SubSeq(trail, rotationCount + 1, Len(trail))
  BY DEF AuditInv, TrailIsSuffix, A!TrailIsSuffix
<1>2. /\ entries \in Seq(A!Entry) /\ Len(entries) = Len(trail) - rotationCount
      /\ \A i \in 1 .. Len(entries) : entries[i] = trail[rotationCount + i]
  BY <1>1, SubSeqProperties
<1>3. k \in 0 .. Len(trail) - rotationCount
  BY <1>2
<1>4. SubSeq(entries, k + 1, Len(entries)) = SubSeq(trail, rotationCount + k + 1, Len(trail))
  BY <1>1, <1>3, DropSuffix
<1>5. /\ SubSeq(entries, k + 1, Len(entries)) \in Seq(A!Entry)
      /\ Len(SubSeq(entries, k + 1, Len(entries))) = Len(entries) - k
  BY <1>2, SubSeqProperties
<1>6. rotationCount + k \in 0 .. Len(trail)
  BY <1>1, <1>3
<1> QED
  BY <1>2, <1>4, <1>5, <1>6, Zenon DEF A!Drop

LEMMA NextAudit == AuditInv /\ [A!Next]_(A!vars) => AuditInv'
<1> SUFFICES ASSUME AuditInv, [A!Next]_(A!vars) PROVE AuditInv'
  OBVIOUS
<1>0. /\ trail \in Seq(A!Entry) /\ Len(trail) \in Nat /\ entries \in Seq(A!Entry) /\ Len(entries) \in Nat
      /\ rotationCount \in 0 .. Len(trail) /\ Len(entries) <= maxLen /\ maxLen \in Nat \ {0}
  BY Evicted, AuditAssumption DEF AuditInv
<1>1. ASSUME A!Tick PROVE AuditInv'
  BY <1>1, AuditAssumption DEF A!Tick, AuditInv, TrailIsSuffix, A!TrailIsSuffix
<1>2. ASSUME NEW r \in Recorder, A!RecordStamp(r) PROVE AuditInv'
  BY <1>2 DEF A!RecordStamp, AuditInv, TrailIsSuffix, A!TrailIsSuffix
<1>3. ASSUME NEW r \in Recorder, NEW tier \in Tier, A!RecordAppend(r, tier) PROVE AuditInv'
  <2> DEFINE e == [id |-> Len(trail) + 1, tier |-> tier, timestamp |-> recorder[r]]
             k == A!dropFull
  <2>1. k \in 0 .. Len(entries) /\ Len(entries) - k < maxLen
    BY <1>0 DEF A!dropFull
  <2>2. e \in A!Entry
    <3>1. Len(trail) + 1 \in 1 .. MaxRecords
      BY <1>0, <1>3, AuditAssumption DEF A!RecordAppend
    <3>2. recorder[r] \in 0 .. MaxTime
      BY <1>3, AuditAssumption DEF A!RecordAppend, AuditInv
    <3> QED
      BY <3>1, <3>2 DEF A!Entry
  <2>3. /\ entries' = Append(A!Drop(k), e) /\ rotationCount' = rotationCount + k
        /\ trail' = Append(trail, e) /\ now' = now /\ recorder' = [recorder EXCEPT ![r] = -1]
        /\ Len(trail) < MaxRecords
    BY <1>3 DEF A!RecordAppend
  <2> HIDE DEF e, k
  <2>4. /\ A!Drop(k) = SubSeq(trail, rotationCount + k + 1, Len(trail))
        /\ A!Drop(k) \in Seq(A!Entry) /\ Len(A!Drop(k)) = Len(entries) - k
        /\ rotationCount + k \in 0 .. Len(trail)
    BY <2>1, Evicted
  <2>5. /\ trail' \in Seq(A!Entry) /\ Len(trail') = Len(trail) + 1
        /\ Len(entries') = Len(entries) - k + 1
    BY <1>0, <2>2, <2>3, <2>4, AppendProperties
  <2>6. SubSeq(Append(trail, e), (rotationCount + k) + 1, Len(trail) + 1)
          = Append(SubSeq(trail, (rotationCount + k) + 1, Len(trail)), e)
    BY <1>0, <2>2, <2>4, AppendSuffix, Zenon
  <2>7. TrailIsSuffix'
    BY <2>3, <2>4, <2>5, <2>6, Zenon DEF TrailIsSuffix, A!TrailIsSuffix
  <2>8. Len(entries') <= maxLen /\ Len(trail') <= MaxRecords /\ rotationCount' \in 0 .. Len(trail')
    <3>1. Len(entries') <= maxLen
      BY <1>0, <2>1, <2>5
    <3>2. Len(trail') <= MaxRecords
      BY <1>0, <2>3, <2>5, AuditAssumption
    <3>3. rotationCount' \in 0 .. Len(trail')
      BY <1>0, <2>3, <2>4, <2>5
    <3> QED
      BY <3>1, <3>2, <3>3
  <2>9. recorder' \in [Recorder -> -1 .. MaxTime] /\ now' \in 0 .. MaxTime
    BY <2>3, AuditAssumption DEF AuditInv
  <2> QED
    BY <2>5, <2>7, <2>8, <2>9 DEF AuditInv
<1>4. ASSUME NEW age \in 0 .. MaxTime, A!Rotate(age) PROVE AuditInv'
  <2> DEFINE k == A!cut(now - age)
             I == {i \in 0 .. Len(entries) : \A j \in 1 .. i : entries[j].timestamp < now - age}
  <2>1. k \in 0 .. Len(entries)
    <3>1. 0 \in I
      BY <1>0
    <3>2. I \in SUBSET (0 .. Len(entries)) /\ k = A!Max(I)
      BY DEF A!cut
    <3> HIDE DEF I, k
    <3> QED
      BY <1>0, <3>1, <3>2, MaxExists, Zenon
  <2>2. /\ entries' = A!Drop(k) /\ rotationCount' = rotationCount + k
        /\ UNCHANGED <<now, recorder, trail>>
    BY <1>4 DEF A!Rotate
  <2> HIDE DEF k
  <2>3. /\ A!Drop(k) = SubSeq(trail, (rotationCount + k) + 1, Len(trail))
        /\ Len(A!Drop(k)) = Len(entries) - k
        /\ rotationCount + k \in 0 .. Len(trail)
    BY <2>1, Evicted
  <2>4. Len(entries') <= maxLen
    BY <1>0, <2>1, <2>2, <2>3
  <2> QED
    BY <2>2, <2>3, <2>4 DEF AuditInv, TrailIsSuffix, A!TrailIsSuffix
<1>5. CASE UNCHANGED A!vars
  BY <1>5 DEF A!vars, AuditInv, TrailIsSuffix, A!TrailIsSuffix
<1> QED
  BY <1>1, <1>2, <1>3, <1>4, <1>5 DEF A!Next

\* The log is the trail of everything recorded without its rotationCount oldest
\* entries: Record and Rotate, also when they interleave with slow recorders,
\* lose, reorder and alter nothing else (audit.go, Record, Rotate).
THEOREM AuditComplete == A!Spec => []TrailIsSuffix
<1>1. AuditInv => TrailIsSuffix
  BY DEF AuditInv
<1> QED
  BY <1>1, InitialAudit, NextAudit, PTL DEF A!Spec

-----------------------------------------------------------------------------
(* The policy lifecycle.                                                   *)

\* The calls in progress, with what each has read.
Pending == [at : {"deployed"}, v : Version]
Rolling == [at : {"previous", "rolled_back"}, v : Version, prev : Version]
Calls == {Idle} \cup Pending \cup Rolling

Typed ==
    /\ DOMAIN policies \subseteq Version
    /\ policies \in [DOMAIN policies -> State]
    /\ history \in Seq(Version)
    /\ calls \in [Operator -> Calls]
    /\ deploys \in [Version -> Nat]
    /\ rollbacks \in Seq([from : Version, to : Version])

\* A deployed version has a deployment that no rollback has used up: the
\* strengthening that makes OneRollbackPerDeploy inductive.
Live(v) == IF v \in DOMAIN policies /\ policies[v] = "deployed" THEN 1 ELSE 0
RollbacksAccounted ==
    \A v \in Version : Cardinality(RollbacksOf(v)) + Cardinality(InFlight(v)) + Live(v) <= deploys[v]

\* The transitions into the states that the properties speak of.
LEMMA Transitions ==
    ASSUME NEW from \in State, NEW to, canTransition(from, to)
    PROVE  /\ to \in State
           /\ to = "staged" => from = "approved"
           /\ to = "deployed" => from = "staged"
           /\ to \in {"deprecated", "rolled_back"} => from = "deployed"
<1>1. State = {"draft", "pending_approval", "approved", "staged", "deployed", "deprecated", "rolled_back"}
  BY DEF State, ValidTransitions
<1>2. /\ ValidTransitions["draft"] = {"pending_approval"}
      /\ ValidTransitions["pending_approval"] = {"draft", "approved"}
      /\ ValidTransitions["approved"] = {"staged"}
      /\ ValidTransitions["staged"] = {"deployed", "draft"}
      /\ ValidTransitions["deployed"] = {"deprecated", "rolled_back"}
      /\ ValidTransitions["deprecated"] = {}
      /\ ValidTransitions["rolled_back"] = {"draft"}
  BY DEF ValidTransitions
<1> QED
  BY <1>1, <1>2 DEF canTransition

LEMMA CallShapes ==
    ASSUME NEW c \in Calls
    PROVE  /\ c.at = "deployed" => c \in Pending
           /\ c.at \in {"previous", "rolled_back"} => c \in Rolling
BY DEF Calls, Pending, Rolling, Idle

LEMMA TransitionTyped ==
    ASSUME Typed, NEW v, NEW to, Transition(v, to)
    PROVE  /\ v \in Version /\ policies[v] \in State /\ to \in State
           /\ DOMAIN policies' = DOMAIN policies
           /\ policies' \in [DOMAIN policies' -> State]
           /\ deploys' \in [Version -> Nat]
<1>1. v \in Version /\ policies[v] \in State
  BY DEF Typed, Transition
<1>2. to \in State
  BY <1>1, Transitions DEF Transition
<1>3. policies' = [policies EXCEPT ![v] = to]
  BY DEF Transition
<1>4. deploys' \in [Version -> Nat]
  BY <1>1 DEF Transition, Typed
<1> QED
  BY <1>1, <1>2, <1>3, <1>4, Zenon DEF Typed

LEMMA TypedInductive == Typed /\ [Next]_vars => Typed'
<1> SUFFICES ASSUME Typed, [Next]_vars PROVE Typed'
  OBVIOUS
<1> USE DEF SetCall
<1>1. ASSUME NEW v \in Version, Add(v) PROVE Typed'
  <2>1. "draft" \in State
    BY DEF State, ValidTransitions
  <2>2. DOMAIN policies' \subseteq Version /\ policies' \in [DOMAIN policies' -> State]
    BY <1>1, <2>1 DEF Add, Typed
  <2> QED
    BY <1>1, <2>2 DEF Add, Typed
<1>2. ASSUME NEW v \in Version, NEW to \in State, Move(v, to) PROVE Typed'
  BY <1>2, TransitionTyped DEF Move, Typed
<1>3. ASSUME NEW o \in Operator, NEW v \in Version, Deploy(o, v) PROVE Typed'
  <2>1. [at |-> "deployed", v |-> v] \in Calls
    BY DEF Calls, Pending
  <2>2. calls' \in [Operator -> Calls]
    BY <1>3, <2>1 DEF Deploy, Typed
  <2> QED
    BY <1>3, <2>2, TransitionTyped DEF Deploy, Typed
<1>4. ASSUME NEW o \in Operator, NEW v \in Version, PreviousVersion(o, v) PROVE Typed'
  <2>1. history[Len(history) - 1] \in Version
    BY <1>4 DEF PreviousVersion, CanRollback, Typed
  <2>2. [at |-> "previous", v |-> v, prev |-> history[Len(history) - 1]] \in Calls
    BY <2>1 DEF Calls, Rolling
  <2>3. calls' \in [Operator -> Calls]
    BY <1>4, <2>2 DEF PreviousVersion, Typed
  <2> QED
    BY <1>4, <2>3 DEF PreviousVersion, Typed
<1>5. ASSUME NEW a \in Actor, NEW s \in {"granted", "rejected"}, CastVote(a, s) PROVE Typed'
  BY <1>5 DEF CastVote, Typed
<1>6. ASSUME NEW o \in Operator, RecordDeploy(o) PROVE Typed'
  <2>1. calls[o].v \in Version
    BY <1>6, CallShapes DEF RecordDeploy, Typed, Pending
  <2>2. history' \in Seq(Version)
    BY <1>6, <2>1 DEF RecordDeploy, Typed
  <2>3. calls' \in [Operator -> Calls]
    BY <1>6 DEF RecordDeploy, Typed, Calls
  <2> QED
    BY <1>6, <2>2, <2>3 DEF RecordDeploy, Typed
<1>7. ASSUME NEW o \in Operator, RollbackTransition(o) PROVE Typed'
  <2>1. calls[o].v \in Version /\ calls[o].prev \in Version
    BY <1>7, CallShapes DEF RollbackTransition, Typed, Rolling
  <2>2. [at |-> "rolled_back", v |-> calls[o].v, prev |-> calls[o].prev] \in Calls
    BY <2>1 DEF Calls, Rolling
  <2>3. calls' \in [Operator -> Calls]
    BY <1>7, <2>2, Zenon DEF RollbackTransition, Typed, Calls
  <2>4. CASE Transition(calls[o].v, "rolled_back")
    BY <1>7, <2>3, <2>4, TransitionTyped DEF RollbackTransition, Typed
  <2>5. CASE UNCHANGED <<policies, approved, deploys>>
    BY <1>7, <2>3, <2>5 DEF RollbackTransition, Typed
  <2> QED
    BY <1>7, <2>4, <2>5 DEF RollbackTransition
<1>8. ASSUME NEW o \in Operator, RecordRollback(o) PROVE Typed'
  <2>1. calls[o].v \in Version /\ calls[o].prev \in Version
    BY <1>8, CallShapes DEF RecordRollback, Typed, Rolling
  <2>2. history' \in Seq(Version) /\ rollbacks' \in Seq([from : Version, to : Version])
    BY <1>8, <2>1 DEF RecordRollback, Typed
  <2>3. calls' \in [Operator -> Calls]
    BY <1>8 DEF RecordRollback, Typed, Calls
  <2> QED
    BY <1>8, <2>2, <2>3 DEF RecordRollback, Typed
<1>9. CASE UNCHANGED vars
  BY <1>9 DEF vars, Typed
<1> QED
  BY <1>1, <1>2, <1>3, <1>4, <1>5, <1>6, <1>7, <1>8, <1>9 DEF Next

LEMMA InitialTyped == Init => Typed
BY DEF Init, Typed, Calls

\* Nothing is staged, deployed or past it that was not approved after it was
\* last a draft, whatever transitions, deployments and rollbacks interleave.
THEOREM DeployedWasApproved == Spec => []NoDeployUnapproved
<1>1. Init => NoDeployUnapproved
  BY DEF Init, NoDeployUnapproved
<1>2. Typed /\ NoDeployUnapproved /\ [Next]_vars => NoDeployUnapproved'
  <2> SUFFICES ASSUME Typed, NoDeployUnapproved, [Next]_vars PROVE NoDeployUnapproved'
    OBVIOUS
  <2>1. ASSUME NEW v, NEW to, Transition(v, to) PROVE NoDeployUnapproved'
    <3>1. DOMAIN policies' = DOMAIN policies /\ v \in DOMAIN policies
          /\ \A w \in DOMAIN policies : policies'[w] = IF w = v THEN to ELSE policies[w]
      BY <2>1 DEF Transition, Typed
    <3>2. \A w \in DOMAIN policies : w # v => (w \in approved' <=> w \in approved)
      BY <2>1 DEF Transition
    <3>3. to \in {"approved", "staged", "deployed", "deprecated", "rolled_back"} => v \in approved'
      <4>1. policies[v] \in State /\ canTransition(policies[v], to)
        BY <2>1, TransitionTyped, Zenon DEF Transition
      <4> QED
        BY <2>1, <3>1, <4>1, Transitions DEF Transition, NoDeployUnapproved
    <3> QED
      BY <3>1, <3>2, <3>3 DEF NoDeployUnapproved
  <2>2. ASSUME UNCHANGED <<policies, approved>> PROVE NoDeployUnapproved'
    BY <2>2 DEF NoDeployUnapproved
  <2>3. ASSUME NEW v \in Version, Add(v) PROVE NoDeployUnapproved'
    BY <2>3 DEF Add, NoDeployUnapproved
  <2>4. ASSUME NEW v \in Version, NEW to \in State, Move(v, to) PROVE NoDeployUnapproved'
    BY <2>1, <2>4 DEF Move
  <2>5. ASSUME NEW o \in Operator, NEW v \in Version, Deploy(o, v) \/ PreviousVersion(o, v)
        PROVE  NoDeployUnapproved'
    BY <2>1, <2>2, <2>5 DEF Deploy, PreviousVersion
  <2>6. ASSUME NEW a \in Actor, NEW s \in {"granted", "rejected"}, CastVote(a, s) PROVE NoDeployUnapproved'
    BY <2>2, <2>6 DEF CastVote
  <2>7. ASSUME NEW o \in Operator, RecordDeploy(o) \/ RollbackTransition(o) \/ RecordRollback(o)
        PROVE  NoDeployUnapproved'
    BY <2>1, <2>2, <2>7 DEF RecordDeploy, RollbackTransition, RecordRollback
  <2>8. CASE UNCHANGED vars
    BY <2>2, <2>8 DEF vars
  <2> QED
    BY <2>3, <2>4, <2>5, <2>6, <2>7, <2>8 DEF Next
<1> QED
  BY <1>1, <1>2, InitialTyped, TypedInductive, PTL DEF Spec

LEMMA CountsFinite ==
    ASSUME IsFiniteSet(Operator), Typed, NEW v \in Version
    PROVE  /\ IsFiniteSet(RollbacksOf(v)) /\ Cardinality(RollbacksOf(v)) \in Nat
           /\ IsFiniteSet(InFlight(v)) /\ Cardinality(InFlight(v)) \in Nat
<1>1. IsFiniteSet(1 .. Len(rollbacks))
  <2>1. 1 \in Int /\ Len(rollbacks) \in Int
    BY DEF Typed
  <2> QED
    BY <2>1, FS_Interval
<1>2. RollbacksOf(v) \subseteq 1 .. Len(rollbacks) /\ InFlight(v) \subseteq Operator
  BY DEF Typed, RollbacksOf, InFlight
<1> QED
  BY <1>1, <1>2, FS_Subset, FS_CardinalityType

\* A call that moves on enters its last step, or leaves the calls that are there.
LEMMA FlightStep ==
    ASSUME Typed, NEW o \in Operator, NEW c, SetCall(o, c), NEW w
    PROVE  /\ c.at = "rolled_back" /\ c.v = w => InFlight(w)' = InFlight(w) \cup {o}
           /\ ~(c.at = "rolled_back" /\ c.v = w) => InFlight(w)' = InFlight(w) \ {o}
<1>1. calls' = [calls EXCEPT ![o] = c] /\ calls \in [Operator -> Calls]
  BY DEF SetCall, Typed
<1>2. calls'[o] = c /\ \A p \in Operator : p # o => calls'[p] = calls[p]
  BY <1>1
<1> QED
  BY <1>2 DEF InFlight

LEMMA AccountedInductive ==
    ASSUME IsFiniteSet(Operator)
    PROVE  Typed /\ RollbacksAccounted /\ [Next]_vars => RollbacksAccounted'
<1> SUFFICES ASSUME Typed, RollbacksAccounted, [Next]_vars, NEW w \in Version
             PROVE  (Cardinality(RollbacksOf(w)) + Cardinality(InFlight(w)) + Live(w) <= deploys[w])'
  BY DEF RollbacksAccounted
<1>0. /\ Cardinality(RollbacksOf(w)) + Cardinality(InFlight(w)) + Live(w) <= deploys[w]
      /\ Cardinality(RollbacksOf(w)) \in Nat /\ Cardinality(InFlight(w)) \in Nat
      /\ Live(w) \in {0, 1} /\ deploys[w] \in Nat
  <2>1. Cardinality(RollbacksOf(w)) + Cardinality(InFlight(w)) + Live(w) <= deploys[w]
    BY DEF RollbacksAccounted
  <2>2. Cardinality(RollbacksOf(w)) \in Nat /\ Cardinality(InFlight(w)) \in Nat
    BY CountsFinite
  <2>3. Live(w) \in {0, 1} /\ deploys[w] \in Nat
    BY DEF Live, Typed
  <2> QED
    BY <2>1, <2>2, <2>3
\* The counts of w change only with a call that enters or leaves its last step.
<1>1. ASSUME rollbacks' = rollbacks PROVE RollbacksOf(w)' = RollbacksOf(w)
  BY <1>1 DEF RollbacksOf
<1>3. ASSUME calls' = calls PROVE InFlight(w)' = InFlight(w)
  BY <1>3 DEF InFlight
\* A transition other than to deployed or rolled_back can only end a deployment.
<1>4. ASSUME NEW v, NEW to, Transition(v, to)
      PROVE  /\ to \notin {"deployed"} => Live(w)' <= Live(w) /\ deploys'[w] = deploys[w]
             /\ to = "deployed" => Live(w)' + deploys[w] <= Live(w) + deploys'[w]
             /\ Live(w)' \in {0, 1} /\ deploys'[w] \in Nat
             /\ to = "rolled_back" /\ w = v => Live(w) = 1 /\ Live(w)' = 0
  <2>1. v \in DOMAIN policies /\ DOMAIN policies' = DOMAIN policies
        /\ \A u \in DOMAIN policies : policies'[u] = IF u = v THEN to ELSE policies[u]
    BY <1>4 DEF Transition, Typed
  <2>2. deploys' \in [Version -> Nat]
        /\ deploys'[w] = IF to = "deployed" /\ w = v THEN deploys[w] + 1 ELSE deploys[w]
    BY <1>4, TransitionTyped DEF Transition, Typed
  <2>3. policies[v] \in State /\ canTransition(policies[v], to)
    BY <1>4, TransitionTyped, Zenon DEF Transition
  <2>4. /\ to = "deployed" => policies[v] = "staged"
        /\ to = "rolled_back" => policies[v] = "deployed"
    BY <2>3, Transitions
  <2> QED
    BY <1>0, <2>1, <2>2, <2>4 DEF Live
<1>5. ASSUME NEW v \in Version, Add(v) PROVE Live(w)' <= Live(w) /\ Live(w)' \in {0, 1}
  BY <1>5 DEF Add, Live, Typed
<1>6. ASSUME NEW v \in Version, Add(v)
      PROVE  (Cardinality(RollbacksOf(w)) + Cardinality(InFlight(w)) + Live(w) <= deploys[w])'
  <2>1. rollbacks' = rollbacks /\ calls' = calls /\ deploys' = deploys
    BY <1>6 DEF Add
  <2>2. Live(w)' <= Live(w) /\ Live(w)' \in {0, 1}
    BY <1>5, <1>6
  <2> QED
    BY <1>0, <1>1, <1>3, <2>1, <2>2
<1>7. ASSUME NEW v \in Version, NEW to \in State, Move(v, to)
      PROVE  (Cardinality(RollbacksOf(w)) + Cardinality(InFlight(w)) + Live(w) <= deploys[w])'
  <2>1. rollbacks' = rollbacks /\ calls' = calls /\ Transition(v, to) /\ to # "deployed"
    BY <1>7 DEF Move
  <2>2. Live(w)' <= Live(w) /\ deploys'[w] = deploys[w] /\ Live(w)' \in {0, 1}
    BY <1>4, <2>1
  <2> QED
    BY <1>0, <1>1, <1>3, <2>1, <2>2
<1>8. ASSUME NEW o \in Operator, NEW v \in Version, Deploy(o, v)
      PROVE  (Cardinality(RollbacksOf(w)) + Cardinality(InFlight(w)) + Live(w) <= deploys[w])'
  <2>1. InFlight(w)' = InFlight(w)
    <3>1. SetCall(o, [at |-> "deployed", v |-> v]) /\ o \notin InFlight(w)
      BY <1>8 DEF Deploy, InFlight, Idle
    <3> QED
      BY <3>1, FlightStep
  <2>2. RollbacksOf(w)' = RollbacksOf(w)
    BY <1>1, <1>8 DEF Deploy
  <2>3. Live(w)' + deploys[w] <= Live(w) + deploys'[w] /\ Live(w)' \in {0, 1} /\ deploys'[w] \in Nat
    BY <1>4, <1>8 DEF Deploy
  <2> QED
    BY <1>0, <2>1, <2>2, <2>3
<1>9. ASSUME NEW o \in Operator, NEW v \in Version, PreviousVersion(o, v)
      PROVE  (Cardinality(RollbacksOf(w)) + Cardinality(InFlight(w)) + Live(w) <= deploys[w])'
  <2>1. InFlight(w)' = InFlight(w)
    <3>1. PICK c : SetCall(o, c) /\ c.at # "rolled_back"
      BY <1>9 DEF PreviousVersion
    <3>2. o \notin InFlight(w)
      BY <1>9 DEF PreviousVersion, InFlight, Idle
    <3> QED
      BY <3>1, <3>2, FlightStep
  <2>2. rollbacks' = rollbacks /\ policies' = policies /\ deploys' = deploys
    BY <1>9 DEF PreviousVersion
  <2>3. Live(w)' = Live(w)
    BY <2>2 DEF Live
  <2> QED
    BY <1>0, <1>1, <2>1, <2>2, <2>3
<1>10. ASSUME NEW o \in Operator, RecordDeploy(o)
       PROVE  (Cardinality(RollbacksOf(w)) + Cardinality(InFlight(w)) + Live(w) <= deploys[w])'
  <2>1. InFlight(w)' = InFlight(w)
    <3>1. SetCall(o, Idle) /\ o \notin InFlight(w)
      BY <1>10 DEF RecordDeploy, InFlight
    <3> QED
      BY <3>1, FlightStep DEF Idle
  <2>2. rollbacks' = rollbacks /\ policies' = policies /\ deploys' = deploys
    BY <1>10 DEF RecordDeploy
  <2>3. Live(w)' = Live(w)
    BY <2>2 DEF Live
  <2> QED
    BY <1>0, <1>1, <2>1, <2>2, <2>3
<1>11. ASSUME NEW o \in Operator, RollbackTransition(o)
       PROVE  (Cardinality(RollbacksOf(w)) + Cardinality(InFlight(w)) + Live(w) <= deploys[w])'
  <2>1. RollbacksOf(w)' = RollbacksOf(w)
    BY <1>1, <1>11 DEF RollbackTransition
  <2>2. CASE canTransition(policies[calls[o].v], "rolled_back")
    <3>1. Transition(calls[o].v, "rolled_back")
      BY <1>11, <2>2 DEF RollbackTransition
    <3>2. o \notin InFlight(w)
          /\ InFlight(w)' = IF w = calls[o].v THEN InFlight(w) \cup {o} ELSE InFlight(w)
      <4>1. SetCall(o, [at |-> "rolled_back", v |-> calls[o].v, prev |-> calls[o].prev]) /\ o \notin InFlight(w)
        BY <1>11, <2>2 DEF RollbackTransition, InFlight
      <4> QED
        BY <4>1, FlightStep
    <3>3. Cardinality(InFlight(w))' = IF w = calls[o].v THEN Cardinality(InFlight(w)) + 1 ELSE Cardinality(InFlight(w))
      BY <3>2, CountsFinite, FS_AddElement, Zenon
    <3>4. /\ Live(w)' <= Live(w) /\ deploys'[w] = deploys[w] /\ Live(w)' \in {0, 1}
          /\ w = calls[o].v => Live(w) = 1 /\ Live(w)' = 0
      BY <1>4, <3>1
    <3> QED
      BY <1>0, <2>1, <3>3, <3>4
  <2>3. CASE ~canTransition(policies[calls[o].v], "rolled_back")
    <3>1. InFlight(w)' = InFlight(w)
      <4>1. SetCall(o, Idle) /\ o \notin InFlight(w)
        BY <1>11, <2>3 DEF RollbackTransition, InFlight
      <4> QED
        BY <4>1, FlightStep DEF Idle
    <3>2. UNCHANGED <<policies, deploys>>
      BY <1>11, <2>3 DEF RollbackTransition
    <3>3. Live(w)' = Live(w) /\ deploys'[w] = deploys[w]
      BY <3>2 DEF Live
    <3> QED
      BY <1>0, <2>1, <3>1, <3>3
  <2> QED
    BY <2>2, <2>3
<1>12. ASSUME NEW o \in Operator, RecordRollback(o)
       PROVE  (Cardinality(RollbacksOf(w)) + Cardinality(InFlight(w)) + Live(w) <= deploys[w])'
  <2>1. calls[o] \in Rolling /\ calls[o].v \in Version /\ calls[o].prev \in Version
    BY <1>12, CallShapes DEF RecordRollback, Typed, Rolling
  <2>a. /\ DOMAIN rollbacks = 1 .. Len(rollbacks) /\ Len(rollbacks) \in Nat
        /\ DOMAIN rollbacks' = 1 .. (Len(rollbacks) + 1)
        /\ \A i \in DOMAIN rollbacks : rollbacks'[i] = rollbacks[i]
    BY <1>12, <2>1 DEF RecordRollback, Typed
  <2>b. rollbacks'[Len(rollbacks) + 1].from = calls[o].v
    BY <1>12, <2>1 DEF RecordRollback, Typed
  <2>c. Live(w)' = Live(w) /\ deploys'[w] = deploys[w]
    BY <1>12 DEF RecordRollback, Live
  <2>2. CASE w = calls[o].v
    <3>1. o \in InFlight(w) /\ InFlight(w)' = InFlight(w) \ {o}
      <4>1. SetCall(o, Idle) /\ o \in InFlight(w)
        BY <1>12, <2>2 DEF RecordRollback, InFlight
      <4> QED
        BY <4>1, FlightStep DEF Idle
    <3>2. Len(rollbacks) + 1 \notin RollbacksOf(w)
          /\ RollbacksOf(w)' = RollbacksOf(w) \cup {Len(rollbacks) + 1}
      BY <2>a, <2>b, <2>2 DEF RollbacksOf
    <3>3. Cardinality(InFlight(w))' = Cardinality(InFlight(w)) - 1
      BY <3>1, CountsFinite, FS_RemoveElement, Zenon
    <3>4. Cardinality(RollbacksOf(w))' = Cardinality(RollbacksOf(w)) + 1
      BY <3>2, CountsFinite, FS_AddElement, Zenon
    <3> QED
      BY <1>0, <2>c, <3>3, <3>4
  <2>3. CASE w # calls[o].v
    <3>1. InFlight(w)' = InFlight(w)
      <4>1. SetCall(o, Idle) /\ o \notin InFlight(w)
        BY <1>12, <2>3 DEF RecordRollback, InFlight
      <4> QED
        BY <4>1, FlightStep DEF Idle
    <3>2. RollbacksOf(w)' = RollbacksOf(w)
      BY <2>a, <2>b, <2>3 DEF RollbacksOf
    <3> QED
      BY <1>0, <2>c, <3>1, <3>2
  <2> QED
    BY <2>2, <2>3
<1>13. ASSUME UNCHANGED <<policies, calls, deploys, rollbacks>>
       PROVE  (Cardinality(RollbacksOf(w)) + Cardinality(InFlight(w)) + Live(w) <= deploys[w])'
  <2>1. Live(w)' = Live(w) /\ deploys' = deploys
    BY <1>13 DEF Live
  <2> QED
    BY <1>0, <1>1, <1>3, <1>13, <2>1
<1> QED
  BY <1>6, <1>7, <1>8, <1>9, <1>10, <1>11, <1>12, <1>13 DEF Next, CastVote, vars

\* Operators who race to roll one version back do it once per deployment, for
\* any finite number of operators and any number of versions and deployments.
THEOREM RolledBackOnce ==
    ASSUME IsFiniteSet(Operator)
    PROVE  Spec => []OneRollbackPerDeploy
<1>1. Init => RollbacksAccounted
  <2> SUFFICES ASSUME Init, NEW v \in Version
               PROVE  Cardinality(RollbacksOf(v)) + Cardinality(InFlight(v)) + Live(v) <= deploys[v]
    BY DEF RollbacksAccounted
  <2>1. RollbacksOf(v) = {} /\ InFlight(v) = {}
    BY DEF Init, RollbacksOf, InFlight, Idle
  <2>2. Live(v) = 0 /\ deploys[v] = 0
    BY DEF Init, Live
  <2> QED
    BY <2>1, <2>2, FS_EmptySet
<1>2. Typed /\ RollbacksAccounted => OneRollbackPerDeploy
  <2> SUFFICES ASSUME Typed, RollbacksAccounted, NEW v \in Version
               PROVE  Cardinality(RollbacksOf(v)) + Cardinality(InFlight(v)) <= deploys[v]
    BY DEF OneRollbackPerDeploy
  <2>1. Cardinality(RollbacksOf(v)) \in Nat /\ Cardinality(InFlight(v)) \in Nat
        /\ Live(v) \in {0, 1} /\ deploys[v] \in Nat
    BY CountsFinite DEF Live, Typed
  <2> QED
    BY <2>1 DEF RollbacksAccounted
<1> QED
  BY <1>1, <1>2, InitialTyped, TypedInductive, AccountedInductive, PTL DEF Spec

-----------------------------------------------------------------------------
(* Blue-green deployment.                                                  *)

LEMMA TrafficStep == TrafficServed /\ [D!Next]_(D!vars) => TrafficServed'
  <2> SUFFICES ASSUME TrafficServed, [D!Next]_(D!vars) PROVE TrafficServed'
    OBVIOUS
  <2>1. ASSUME NEW to, D!SwitchTraffic(to), UNCHANGED slots PROVE TrafficServed'
    BY <2>1, Zenon DEF D!SwitchTraffic, TrafficServed, D!TrafficServed
  <2>2. ASSUME UNCHANGED <<slots, traffic, previous>> PROVE TrafficServed'
    BY <2>2, Zenon DEF TrafficServed, D!TrafficServed
  <2>3. ASSUME NEW p \in Policy, NEW env \in D!Env, D!Remove(p, env) \/ \E v \in Version : D!Stage(p, v, env)
        PROVE  TrafficServed'
    BY <2>2, <2>3 DEF D!Remove, D!Stage, D!blueGreen
  <2>4. ASSUME NEW d \in Deployer, D!AskInactive(d) \/ D!GiveUp(d) PROVE TrafficServed'
    BY <2>2, <2>4 DEF D!AskInactive, D!GiveUp
  <2>5. ASSUME NEW d \in Deployer, D!SwitchOver(d) \/ D!SwitchBack(d) PROVE TrafficServed'
    BY <2>1, <2>5 DEF D!SwitchOver, D!SwitchBack
  <2>6. ASSUME NEW d \in Deployer, NEW v \in Version, D!DeployToSlot(d, v) PROVE TrafficServed'
    <3>1. DOMAIN slots \subseteq DOMAIN slots'
      BY <2>6 DEF D!DeployToSlot
    <3> QED
      BY <2>6, <3>1, Zenon DEF D!DeployToSlot, TrafficServed, D!TrafficServed
  <2>7. CASE UNCHANGED D!vars
    BY <2>2, <2>7 DEF D!vars
  <2> QED
    BY <2>3, <2>4, <2>5, <2>6, <2>7 DEF D!Next

\* Traffic is on a slot with a deployment and can go back to one: no operation
\* empties a slot, and SwitchTraffic moves to a slot that has a deployment.  It
\* holds for any number of deployers whose procedures interleave.
THEOREM TrafficAlwaysServed == D!Spec => []TrafficServed
<1>1. D!Init => TrafficServed
  BY Zenon DEF D!Init, TrafficServed, D!TrafficServed
<1> QED
  BY <1>1, TrafficStep, PTL DEF D!Spec

-----------------------------------------------------------------------------
(* The schema registry.                                                    *)

\* Cardinality means the same in the instance.
LEMMA SchemaCardinality == \A T : S!Cardinality(T) = Cardinality(T)
BY Zenon DEF Cardinality, S!Cardinality

\* Semantic versions are triples of numbers.
Triples == SchemaVersion \in SUBSET (Int \X Int \X Int)

\* The comparison of the parts of two versions, one after the other.
LEMMA Compared ==
  ASSUME Triples, NEW a \in SchemaVersion, NEW b \in SchemaVersion
  PROVE  /\ a[1] \in Int /\ a[2] \in Int /\ a[3] \in Int /\ a # << >>
         /\ b[1] \in Int /\ b[2] \in Int /\ b[3] \in Int
         /\ S!versionGt(a, b) <=> \/ a[1] > b[1]
                                  \/ a[1] = b[1] /\ a[2] > b[2]
                                  \/ a[1] = b[1] /\ a[2] = b[2] /\ a[3] > b[3]
<1>1. /\ a[1] \in Int /\ a[2] \in Int /\ a[3] \in Int /\ a # << >>
      /\ b[1] \in Int /\ b[2] \in Int /\ b[3] \in Int
  BY DEF Triples
<1>2. 1 .. 3 = {1, 2, 3} /\ 1 .. 1 - 1 = {} /\ 1 .. 2 - 1 = {1} /\ 1 .. 3 - 1 = {1, 2}
  OBVIOUS
<1>3. S!versionGt(a, b) <=> \/ a[1] > b[1]
                            \/ a[1] = b[1] /\ a[2] > b[2]
                            \/ a[1] = b[1] /\ a[2] = b[2] /\ a[3] > b[3]
  BY <1>2, Zenon DEF S!versionGt
<1> QED
  BY <1>1, <1>3

\* versionGt is a strict order.
LEMMA NewerIsOrder ==
  ASSUME Triples, NEW a \in SchemaVersion, NEW b \in SchemaVersion, NEW c \in SchemaVersion
  PROVE  ~S!versionGt(a, a) /\ (S!versionGt(a, b) /\ S!versionGt(b, c) => S!versionGt(a, c))
BY Compared

\* What is registered, and what a registrar is about to register, has an ID, a
\* version and perhaps a predecessor.
SchemaInv ==
  /\ IsFiniteSet(DOMAIN schemas) /\ DOMAIN schemas \in SUBSET (Id \X SchemaVersion)
  /\ \A k \in DOMAIN schemas : schemas[k] \in SchemaVersion \cup {S!NoVersion}
  /\ DOMAIN registrar = Registrar
  /\ \A r \in Registrar : registrar[r] # S!Idle =>
        /\ registrar[r][1] \in Id \X SchemaVersion
        /\ registrar[r][2] \in SchemaVersion \cup {S!NoVersion}

\* Every schema supersedes an older version.
Superseding ==
  \A k \in DOMAIN schemas : schemas[k] # S!NoVersion => S!versionGt(k[2], schemas[k])

\* Chains of registered versions of id, each older than those before.
Chains(id) ==
  {c \in Seq(SchemaVersion) :
     /\ Len(c) > 0
     /\ \A i \in 1 .. Len(c) : <<id, c[i]>> \in DOMAIN schemas
     /\ \A i, j \in 1 .. Len(c) : i < j => S!versionGt(c[i], c[j])}

\* There is no registered predecessor.
Ended(id, c) == <<id, schemas[<<id, S!Last(c)>>]>> \notin DOMAIN schemas

\* A round of MigrationChain adds the predecessor, or nothing at the end.
LEMMA ChainFollowed ==
  ASSUME Triples, SchemaInv, Superseding, NEW id \in Id, NEW c \in Chains(id)
  PROVE  /\ S!follow(id, c) \in Chains(id)
         /\ Ended(id, c) => S!follow(id, c) = c
         /\ ~Ended(id, c) => Len(S!follow(id, c)) = Len(c) + 1
<1> DEFINE n == Len(c)
           last == c[n]
           prev == schemas[<<id, last>>]
           d == Append(c, prev)
<1>1. c \in Seq(SchemaVersion) /\ n \in Nat \ {0} /\ <<id, last>> \in DOMAIN schemas /\ last \in SchemaVersion
  BY DEF Chains
<1>2. CASE Ended(id, c)
  <2>1. S!follow(id, c) = c
    BY <1>2 DEF Ended, S!follow
  <2> QED
    BY <1>2, <2>1
<1>3. CASE ~Ended(id, c)
  <2>1. <<id, prev>> \in DOMAIN schemas
    BY <1>3 DEF Ended, S!Last
  <2>2. prev \in SchemaVersion
    BY <2>1 DEF SchemaInv
  <2>3. prev # S!NoVersion
    BY <2>2, Compared DEF S!NoVersion
  <2>4. S!follow(id, c) = d
    BY <2>1, <2>3 DEF S!follow, S!Last
  <2>5. S!versionGt(last, prev)
    <3>1. <<id, last>>[2] = last
      OBVIOUS
    <3> QED
      BY <1>1, <2>3, <3>1 DEF Superseding
  <2>6. PICK p : p = prev
    OBVIOUS
  <2>7. d \in Seq(SchemaVersion) /\ Len(d) = n + 1 /\ d[n + 1] = prev /\ \A i \in 1 .. n : d[i] = c[i]
    <3> HIDE DEF prev
    <3> QED
      BY <1>1, <2>2
  <2> HIDE DEF d, prev, last
  <2>8. ASSUME NEW i \in 1 .. n + 1 PROVE <<id, d[i]>> \in DOMAIN schemas
    <3>1. CASE i = n + 1
      BY <2>1, <2>7, <3>1
    <3>2. CASE i # n + 1
      <4>1. i \in 1 .. n
        BY <1>1, <3>2
      <4>2. <<id, c[i]>> \in DOMAIN schemas
        BY <4>1 DEF Chains
      <4> QED
        BY <2>7, <4>1, <4>2
    <3> QED
      BY <3>1, <3>2
  <2>9. ASSUME NEW i \in 1 .. n + 1, NEW j \in 1 .. n + 1, i < j PROVE S!versionGt(d[i], d[j])
    <3>1. i \in 1 .. n /\ d[i] = c[i] /\ c[i] \in SchemaVersion
      BY <1>1, <2>7, <2>9
    <3>2. CASE j # n + 1
      <4>1. j \in 1 .. n /\ d[j] = c[j]
        BY <1>1, <2>7, <3>2
      <4>2. S!versionGt(c[i], c[j])
        BY <2>9, <3>1, <4>1 DEF Chains
      <4> QED
        BY <3>1, <4>1, <4>2
    <3>3. CASE j = n + 1
      <4>1. d[j] = prev
        BY <2>7, <3>3
      <4>2. c[i] = last \/ S!versionGt(c[i], last)
        <5>1. i = n \/ i < n
          BY <1>1, <3>1
        <5>2. CASE i < n
          BY <1>1, <3>1, <5>2 DEF Chains, last
        <5> QED
          BY <5>1, <5>2 DEF last
      <4>3. S!versionGt(c[i], prev)
        BY <1>1, <2>2, <2>5, <3>1, <4>2, NewerIsOrder
      <4> QED
        BY <3>1, <4>1, <4>3
    <3> QED
      BY <3>2, <3>3
  <2>10. d \in Chains(id)
    BY <1>1, <2>7, <2>8, <2>9 DEF Chains
  <2> QED
    BY <1>3, <2>4, <2>7, <2>10
<1> QED
  BY <1>2, <1>3

\* A chain has every version once, and no more than are registered.
LEMMA ChainLength ==
  ASSUME Triples, SchemaInv, NEW id \in Id, NEW c \in Chains(id)
  PROVE  /\ Len(c) <= Cardinality(DOMAIN schemas)
         /\ Cardinality(S!ToSet(c)) = Len(c)
<1> DEFINE I == 1 .. Len(c)
           f == [i \in I |-> <<id, c[i]>>]
           g == [i \in I |-> c[i]]
<1>1. Len(c) \in Nat /\ DOMAIN c = I /\ \A i \in I : c[i] \in SchemaVersion
  BY DEF Chains
<1>2. IsFiniteSet(I) /\ Cardinality(I) = Len(c)
  BY <1>1, FS_Interval
<1>3. \A i, j \in I : c[i] = c[j] => i = j
  <2> SUFFICES ASSUME NEW i \in I, NEW j \in I, i < j, c[i] = c[j] PROVE FALSE
    BY <1>1
  <2>1. S!versionGt(c[i], c[j]) /\ c[i] \in SchemaVersion
    BY <1>1 DEF Chains
  <2> QED
    BY <2>1, NewerIsOrder
<1>4. f \in Injection(I, DOMAIN schemas)
  <2>1. \A i \in I : <<id, c[i]>> \in DOMAIN schemas
    BY DEF Chains
  <2>2. \A i, j \in I : f[i] = f[j] => i = j
    BY <1>3
  <2> QED
    BY <2>1, <2>2, Zenon DEF Injection, IsInjective
<1>5. Len(c) <= Cardinality(DOMAIN schemas)
  <2> HIDE DEF f
  <2> QED
    BY <1>2, <1>4, FS_Injection DEF SchemaInv
<1>6. S!ToSet(c) = {c[i] : i \in I}
  BY <1>1, Zenon DEF S!ToSet
<1>7. g \in Surjection(I, S!ToSet(c)) /\ g \in Injection(I, S!ToSet(c))
  BY <1>3, <1>6, Zenon DEF Surjection, Injection, IsInjective
<1>8. Cardinality(S!ToSet(c)) = Len(c)
  <2> HIDE DEF g
  <2> QED
    BY <1>2, <1>7, FS_Surjection
<1> QED
  BY <1>5, <1>8

\* MigrationChain ends: each round adds a version until the end, and a chain that
\* never ended would be longer than there are schemas.
LEMMA ChainEnds ==
  ASSUME Triples, SchemaInv, Superseding, NEW id \in Id, NEW v, <<id, v>> \in DOMAIN schemas
  PROVE  LET c == S!MigrationChain(id, v, Cardinality(DOMAIN schemas))
         IN  c \in Chains(id) /\ Ended(id, c)
<1> DEFINE n == Cardinality(DOMAIN schemas)
           C == Chains(id)
           D1 == 1 .. n
           some(d) == CHOOSE x \in d : TRUE
           pick == [d \in SUBSET D1 |-> some(d)]
           F == [x \in D1 |-> [c \in C |-> S!follow(id, c)]]
           Eq(i) == i = [d \in SUBSET D1 |-> IF d = {} THEN <<v>>
                                             ELSE S!follow(id, i[d \ {some(d)}])]
           it == CHOOSE i : Eq(i)
<1>1. S!MigrationChain(id, v, n) = it[D1]
  BY Zenon DEF S!MigrationChain, S!FoldSet, S!MapThenFoldSet
<1>2. n \in Nat /\ IsFiniteSet(D1) /\ Cardinality(D1) = n
  <2>1. n \in Nat
    BY FS_CardinalityType DEF SchemaInv
  <2> HIDE DEF n
  <2> QED
    BY <2>1, FS_Interval
<1>3. Picks(pick, D1)
  BY Zenon DEF Picks
<1>4. F \in [D1 -> [C -> C]]
  BY ChainFollowed
<1>5. <<v>> \in C
  <2>1. v \in SchemaVersion
    BY DEF SchemaInv
  <2>2. <<v>> \in Seq(SchemaVersion) /\ Len(<<v>>) = 1 /\ <<v>>[1] = v /\ 1 .. 1 = {1}
    BY <2>1
  <2> QED
    BY <2>2 DEF Chains
<1> HIDE DEF C, D1, some
<1>6. PICK h : Folds(h, D1, C, <<v>>, pick, F)
  <2> HIDE DEF pick, F
  <2> QED
    BY <1>2, <1>3, <1>4, <1>5, FoldExists
<1>7. Eq(h)
  BY <1>3, <1>6, Zenon DEF Folds, Picks
<1>8. Eq(it)
  BY <1>7, Zenon
<1> HIDE DEF it
<1>9. it[D1] = h[D1]
  <2>1. Follows(it, h, D1, pick)
    BY <1>7, <1>8, Zenon DEF Follows
  <2> HIDE DEF pick, F
  <2> QED
    BY <1>2, <1>3, <2>1, FoldAgrees
<1>10. h \in [SUBSET D1 -> C]
  BY <1>6 DEF Folds
<1> DEFINE Held == {s \in SUBSET D1 : Ended(id, h[s]) \/ Len(h[s]) = Cardinality(s) + 1}
<1>11. ASSUME NEW s \in SUBSET D1, \A r \in SUBSET s : r # s => r \in Held PROVE s \in Held
  <2>1. CASE s = {}
    <3>1. h[s] = <<v>> /\ Len(<<v>>) = 1 /\ Cardinality(s) = 0
      BY <1>6, <2>1, FS_EmptySet, Zenon DEF Folds
    <3> QED
      BY <3>1
  <2>2. CASE s # {}
    <3>1. PICK p \in s : p = pick[s]
      BY <1>3, <2>2, Zenon DEF Picks
    <3> DEFINE r == s \ {p}
               c == h[r]
    <3>2. r \in SUBSET s /\ r # s /\ r \in SUBSET D1
      OBVIOUS
    <3>3. c \in C /\ (Ended(id, c) \/ Len(c) = Cardinality(r) + 1)
      BY <1>10, <1>11, <3>2
    <3>4. h[s] = S!follow(id, c)
      BY <1>7, <2>2, <3>1, Zenon
    <3>5. Cardinality(s) = Cardinality(r) + 1 /\ Cardinality(r) \in Nat
      <4>1. IsFiniteSet(s)
        BY <1>2, FS_Subset
      <4>2. Cardinality(s) \in Nat /\ IsFiniteSet(r) /\ Cardinality(r) = Cardinality(s) - 1
        BY <4>1, FS_RemoveElement, FS_CardinalityType
      <4>3. Cardinality(r) \in Nat
        BY <4>2, FS_CardinalityType
      <4> HIDE DEF r
      <4> QED
        BY <4>2, <4>3
    <3> HIDE DEF r, c
    <3>6. /\ Ended(id, c) => S!follow(id, c) = c
          /\ ~Ended(id, c) => Len(S!follow(id, c)) = Len(c) + 1
      BY <3>3, ChainFollowed DEF C
    <3> QED
      BY <3>3, <3>4, <3>5, <3>6
  <2> QED
    BY <2>1, <2>2
<1>12. D1 \in Held
  <2>1. Held \in SUBSET (SUBSET D1)
    OBVIOUS
  <2> HIDE DEF Held
  <2>2. Held = SUBSET D1
    BY <1>2, <1>11, <2>1, SubsetInduction
  <2> QED
    BY <2>2
<1>13. h[D1] \in C /\ (Ended(id, h[D1]) \/ Len(h[D1]) = n + 1)
  BY <1>2, <1>10, <1>12
<1>14. Len(h[D1]) <= n
  BY <1>13, ChainLength DEF C
<1>15. Len(h[D1]) \in Nat
  BY <1>13 DEF C, Chains
<1> QED
  BY <1>1, <1>2, <1>9, <1>13, <1>14, <1>15 DEF C

\* What ChainEndsAtOldest asks of a chain is what ChainEnds and ChainLength say.
LEMMA ChainsEnd == ASSUME Triples, SchemaInv PROVE ChainEndsAtOldest
<1> SUFFICES ASSUME Superseding, NEW k \in DOMAIN schemas
             PROVE  LET chain == S!MigrationChain(k[1], k[2], S!Cardinality(DOMAIN schemas))
                    IN  /\ S!Cardinality(S!ToSet(chain)) = Len(chain)
                        /\ <<k[1], schemas[<<k[1], S!Last(chain)>>]>> \notin DOMAIN schemas
  BY Zenon DEF ChainEndsAtOldest, S!ChainEndsAtOldest, Superseding
<1>1. k[1] \in Id /\ k = <<k[1], k[2]>>
  BY DEF SchemaInv
<1>2. PICK c : c = S!MigrationChain(k[1], k[2], Cardinality(DOMAIN schemas))
  OBVIOUS
<1>3. c \in Chains(k[1]) /\ Ended(k[1], c)
  BY <1>1, <1>2, ChainEnds
<1>4. Cardinality(S!ToSet(c)) = Len(c)
  BY <1>1, <1>3, ChainLength
<1> QED
  BY <1>2, <1>3, <1>4, SchemaCardinality, Zenon DEF Ended

\* Both halves of Register keep the invariant.
LEMMA SchemaStep == ASSUME SchemaInv, [S!Next]_(S!vars) PROVE SchemaInv'
<1>1. ASSUME NEW r \in Registrar, S!RegisterWrite(r) PROVE SchemaInv'
  <2> DEFINE key == registrar[r][1]
  <2>1. /\ schemas' = [k \in DOMAIN schemas \cup {key} |-> IF k = key THEN registrar[r][2] ELSE schemas[k]]
        /\ registrar' = [registrar EXCEPT ![r] = S!Idle]
        /\ key \in Id \X SchemaVersion /\ registrar[r][2] \in SchemaVersion \cup {S!NoVersion}
    BY <1>1 DEF S!RegisterWrite, SchemaInv
  <2>2. DOMAIN schemas' = DOMAIN schemas \cup {key}
    BY <2>1
  <2>3. IsFiniteSet(DOMAIN schemas \cup {key})
    BY FS_AddElement DEF SchemaInv
  <2>4. ASSUME NEW q \in Registrar, registrar'[q] # S!Idle PROVE registrar'[q] = registrar[q]
    BY <2>1, <2>4 DEF S!Idle
  <2>5. \A k \in DOMAIN schemas' : schemas'[k] \in SchemaVersion \cup {S!NoVersion}
    BY <2>1, <2>2 DEF SchemaInv
  <2>6. DOMAIN schemas' \in SUBSET (Id \X SchemaVersion)
    BY <2>1, <2>2 DEF SchemaInv
  <2>7. DOMAIN registrar' = Registrar
    BY <2>1 DEF SchemaInv
  <2> QED
    BY <2>2, <2>3, <2>4, <2>5, <2>6, <2>7, Zenon DEF SchemaInv
<1>2. ASSUME NEW r \in Registrar, NEW id \in Id, NEW v \in SchemaVersion, NEW prev \in SchemaVersion \cup {S!NoVersion},
             S!RegisterCheck(r, id, v, prev)
      PROVE  SchemaInv'
  <2>1. schemas' = schemas /\ registrar' = [registrar EXCEPT ![r] = <<<<id, v>>, prev>>]
    BY <1>2 DEF S!RegisterCheck
  <2>2. ASSUME NEW q \in Registrar, registrar'[q] # S!Idle
        PROVE  registrar'[q][1] \in Id \X SchemaVersion /\ registrar'[q][2] \in SchemaVersion \cup {S!NoVersion}
    <3>1. registrar'[q] = registrar[q] \/ registrar'[q] = <<<<id, v>>, prev>>
      BY <2>1 DEF SchemaInv
    <3>2. CASE registrar'[q] = registrar[q]
      BY <2>2, <3>2 DEF SchemaInv
    <3>3. CASE registrar'[q] = <<<<id, v>>, prev>>
      BY <3>3
    <3> QED
      BY <3>1, <3>2, <3>3
  <2>3. DOMAIN registrar' = Registrar
    BY <2>1 DEF SchemaInv
  <2> QED
    BY <2>1, <2>2, <2>3 DEF SchemaInv
<1>3. ASSUME UNCHANGED S!vars PROVE SchemaInv'
  BY <1>3 DEF S!vars, SchemaInv
<1> QED
  BY <1>1, <1>2, <1>3 DEF S!Next

\* Once every registered schema supersedes an older version, MigrationChain
\* (schema.go) ends at a schema without a registered predecessor and visits
\* none twice, for any IDs, versions and racing registrars.
THEOREM ChainsReachOldest == ASSUME Triples PROVE S!Spec => []ChainEndsAtOldest
<1>1. S!Init => SchemaInv
  <2> SUFFICES ASSUME S!Init PROVE SchemaInv
    OBVIOUS
  <2>1. schemas = << >> /\ DOMAIN registrar = Registrar /\ \A r \in Registrar : registrar[r] = S!Idle
    BY DEF S!Init
  <2>2. DOMAIN schemas = {}
    BY <2>1
  <2> QED
    BY <2>1, <2>2, FS_EmptySet DEF SchemaInv
<1>2. SchemaInv /\ [S!Next]_(S!vars) => SchemaInv'
  BY SchemaStep
<1>3. SchemaInv => ChainEndsAtOldest
  BY ChainsEnd
<1> QED
  BY <1>1, <1>2, <1>3, PTL DEF S!Spec
=============================================================================
