-------------------------- MODULE PolicyLifecycle --------------------------
(***************************************************************************)
(* internal/governance: lifecycle.go, approval.go and rollback.go.  One    *)
(* policy ID with its versions in a PolicyStore, an ApprovalWorkflow for   *)
(* their promotion and the RollbackManager's deployment history.  Policy,  *)
(* workflow and manager have a mutex each and Rollback takes them one      *)
(* after the other: the steps of a call are actions of their own, and the  *)
(* calls of several operators interleave between them.                     *)
(***************************************************************************)
EXTENDS Integers, Sequences, FiniteSets

CONSTANTS
    Version,             \* the versions of the policy
    Actor,               \* who votes
    Approvers,           \* ApprovalWorkflow.Approvers; empty: any actor may approve
    Required,            \* ApprovalWorkflow.Required
    Operator,            \* goroutines that deploy and roll back
    MaxDeploys           \* bound: deployments of all versions together

VARIABLES
    policies,            \* PolicyStore.policies: the state of each version added
    records,             \* ApprovalWorkflow.Records
    history,             \* RollbackManager.history: the version of each record
    calls,               \* calls[o]: the operator's Deploy or Rollback call in progress
    approved,            \* history: versions approved since they were last a draft
    deploys,             \* history: deploys[v], how often v was deployed
    rollbacks            \* history: the RollbackRecords returned

vars == <<policies, records, history, calls, approved, deploys, rollbacks>>

Idle == [at |-> "idle"]

ValidTransitions ==
    [draft            |-> {"pending_approval"},
     pending_approval |-> {"draft", "approved"},
     approved         |-> {"staged"},
     staged           |-> {"deployed", "draft"},
     deployed         |-> {"deprecated", "rolled_back"},
     deprecated       |-> {},
     rolled_back      |-> {"draft"}]

State == DOMAIN ValidTransitions
Vote == [approver : Actor, status : {"granted", "rejected"}]

TypeOK ==
    /\ DOMAIN policies \subseteq Version
    /\ \A v \in DOMAIN policies : policies[v] \in State
    /\ records \in Seq(Vote)
    /\ history \in Seq(Version)
    /\ \A o \in Operator : calls[o].at \in {"idle", "deployed", "previous", "rolled_back"}
    /\ approved \subseteq Version
    /\ deploys \in [Version -> 0 .. MaxDeploys]
    /\ rollbacks \in Seq([from : Version, to : Version])

Init ==
    /\ policies = << >>
    /\ records = << >>
    /\ history = << >>
    /\ calls = [o \in Operator |-> Idle]
    /\ approved = {}
    /\ deploys = [v \in Version |-> 0]
    /\ rollbacks = << >>

-----------------------------------------------------------------------------
\* NewPolicy and PolicyStore.Add: an existing version is refused.
Add(v) ==
    /\ v \notin DOMAIN policies
    /\ policies' = [w \in DOMAIN policies \cup {v} |-> IF w = v THEN "draft" ELSE policies[w]]
    /\ UNCHANGED <<records, history, calls, approved, deploys, rollbacks>>

\* Mutant: a draft may be staged at once.
canTransitionEdits(from, to) == to \in ValidTransitions[from] \/ (from = "draft" /\ to = "staged")

canTransition(from, to) == to \in ValidTransitions[from]

\* Policy.Transition, under p.mu, when it succeeds.
Transition(v, to) ==
    /\ v \in DOMAIN policies
    /\ canTransition(policies[v], to)
    /\ policies' = [policies EXCEPT ![v] = to]
    /\ approved' = IF to = "approved" THEN approved \cup {v} ELSE IF to = "draft" THEN approved \ {v} ELSE approved
    /\ deploys' = IF to = "deployed" THEN [deploys EXCEPT ![v] = @ + 1] ELSE deploys

\* The transitions that are not part of a deployment or a rollback.
Move(v, to) ==
    /\ to \notin {"deployed", "rolled_back"}
    /\ Transition(v, to)
    /\ UNCHANGED <<records, history, calls, rollbacks>>

-----------------------------------------------------------------------------

\* ApprovalWorkflow.vote: an actor outside the set, and one who voted, is refused.
vote(rs, a, status) ==
    IF (Approvers # {} /\ a \notin Approvers) \/ \E i \in DOMAIN rs : rs[i].approver = a THEN rs
    ELSE Append(rs, [approver |-> a, status |-> status])

\* Grant and Reject.  The bound keeps the records of a broken vote finite.
CastVote(a, status) ==
    /\ Len(records) <= Cardinality(Actor)
    /\ records' = vote(records, a, status)
    /\ UNCHANGED <<policies, history, calls, approved, deploys, rollbacks>>

Grants(rs) == Len(SelectSeq(rs, LAMBDA r : r.status = "granted"))
Rejections(rs) == Len(SelectSeq(rs, LAMBDA r : r.status = "rejected"))
IsQuorumMet(rs) == Grants(rs) >= Required
IsRejected(rs) == Rejections(rs) > 0

-----------------------------------------------------------------------------
SetCall(o, c) == calls' = [calls EXCEPT ![o] = c]

Deployed == Cardinality({d \in Version \X (1 .. MaxDeploys) : d[2] <= deploys[d[1]]})

\* An operator deploys a version: Transition, then RecordDeploy.
Deploy(o, v) ==
    /\ calls[o] = Idle
    /\ Deployed < MaxDeploys
    /\ Transition(v, "deployed")
    /\ SetCall(o, [at |-> "deployed", v |-> v])
    /\ UNCHANGED <<records, history, rollbacks>>

RecordDeploy(o) ==
    /\ calls[o].at = "deployed"
    /\ history' = Append(history, calls[o].v)
    /\ SetCall(o, Idle)
    /\ UNCHANGED <<policies, records, approved, deploys, rollbacks>>

CanRollback == Len(history) >= 2

\* Rollback: PreviousVersion under m.mu, ...
PreviousVersion(o, v) ==
    /\ calls[o] = Idle
    /\ v \in DOMAIN policies
    /\ CanRollback
    /\ SetCall(o, [at |-> "previous", v |-> v, prev |-> history[Len(history) - 1]])
    /\ UNCHANGED <<policies, records, history, approved, deploys, rollbacks>>

\* Mutant: whether the policy is deployed is checked and its state set later.
RollbackTransitionUnchecked(o) ==
    /\ calls[o].at = "previous"
    /\ policies' = [policies EXCEPT ![calls[o].v] = "rolled_back"]
    /\ SetCall(o, [calls[o] EXCEPT !.at = "rolled_back"])
    /\ UNCHANGED <<records, history, approved, deploys, rollbacks>>

\* ... the transition under p.mu, whose refusal ends the call, ...
RollbackTransition(o) ==
    /\ calls[o].at = "previous"
    /\ IF canTransition(policies[calls[o].v], "rolled_back")
       THEN /\ Transition(calls[o].v, "rolled_back")
            /\ SetCall(o, [at |-> "rolled_back", v |-> calls[o].v, prev |-> calls[o].prev])
       ELSE SetCall(o, Idle) /\ UNCHANGED <<policies, approved, deploys>>
    /\ UNCHANGED <<records, history, rollbacks>>

\* ... and RecordRollback under m.mu again, with the version read first.
RecordRollback(o) ==
    /\ calls[o].at = "rolled_back"
    /\ history' = Append(history, calls[o].prev)
    /\ rollbacks' = Append(rollbacks, [from |-> calls[o].v, to |-> calls[o].prev])
    /\ SetCall(o, Idle)
    /\ UNCHANGED <<policies, records, approved, deploys>>

Next ==
    \/ \E v \in Version :
          \/ Add(v)
          \/ \E to \in State : Move(v, to)
          \/ \E o \in Operator : Deploy(o, v) \/ PreviousVersion(o, v)
    \/ \E a \in Actor, s \in {"granted", "rejected"} : CastVote(a, s)
    \/ \E o \in Operator : RecordDeploy(o) \/ RollbackTransition(o) \/ RecordRollback(o)

Spec == Init /\ [][Next]_vars

-----------------------------------------------------------------------------
\* A version that is staged or deployed was approved after it was last a draft:
\* an edit, by whichever way back to draft, voids the approval.
NoDeployUnapproved ==
    \A v \in DOMAIN policies : policies[v] \in {"approved", "staged", "deployed", "deprecated", "rolled_back"} => v \in approved

\* A quorum is of distinct actors, all of them allowed to approve.
QuorumOfDistinct ==
    LET granted == {a \in Actor : \E i \in DOMAIN records : records[i] = [approver |-> a, status |-> "granted"]}
    IN  IsQuorumMet(records) => Cardinality(granted) >= Required /\ (Approvers = {} \/ granted \subseteq Approvers)

InFlight(v) == {o \in Operator : calls[o].at = "rolled_back" /\ calls[o].v = v}
RollbacksOf(v) == {i \in DOMAIN rollbacks : rollbacks[i].from = v}

\* Operators that race to roll a version back are not counted twice: a version
\* is rolled back at most as often as it was deployed.
OneRollbackPerDeploy ==
    \A v \in Version : Cardinality(RollbacksOf(v)) + Cardinality(InFlight(v)) <= deploys[v]

\* The history accounts for every deployment and rollback: what is not yet in it
\* is a call that has not returned.
HistoryComplete ==
    Len(history) + Cardinality({o \in Operator : calls[o].at = "deployed"}) =
       Len(rollbacks) + Deployed

\* "StateApproved means all required approvals have been granted."
ApprovedHasQuorum ==
    \A v \in DOMAIN policies : policies[v] = "approved" => IsQuorumMet(records)

\* "Rollback performs a rollback to the previous version": not to the one that
\* is rolled back.
RollbackLeavesVersion == \A i \in DOMAIN rollbacks : rollbacks[i].from # rollbacks[i].to

\* "PreviousVersion returns the version that was active before the most recent
\* deployment": it still is when the rollback to it is recorded.
RollbackToPrevious ==
    [][Len(rollbacks') > Len(rollbacks) => history'[Len(history')] = history[Len(history) - 1]]_vars
=============================================================================
