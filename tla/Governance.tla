----------------------------- MODULE Governance -----------------------------
(***************************************************************************)
(* The governance components that the proofs are about, side by side: the  *)
(* policy lifecycle, blue-green deployment, the audit log and the schema   *)
(* registry.  They share no state.                                         *)
(***************************************************************************)
EXTENDS PolicyLifecycle

CONSTANTS
    Policy, Deployer,
    Tier, Recorder, maxLen, MaxTime, MaxRecords,
    Id, SchemaVersion, Registrar, MaxSchemas

VARIABLES
    active, slots, traffic, deployer, previous,
    entries, rotationCount, now, recorder, trail,
    schemas, registrar

\* WithMaxLen takes no length below one, and the default is positive.
ASSUME AuditAssumption == maxLen \in Nat \ {0} /\ MaxTime \in Nat /\ MaxRecords \in Nat

D == INSTANCE Deployment
A == INSTANCE AuditLog
S == INSTANCE SchemaRegistry WITH Version <- SchemaVersion

\* Traffic is always on a deployed slot and can go back where it came from.
TrafficServed == D!TrafficServed

\* The audit log is the trail without its rotationCount oldest entries.
TrailIsSuffix == A!TrailIsSuffix

\* Migration chains over older predecessors end at the oldest.
ChainEndsAtOldest == S!ChainEndsAtOldest
=============================================================================
