---------------------------- MODULE MCGovernance ----------------------------
(***************************************************************************)
(* The governance components for TLC.  They share no state, so each is     *)
(* explored on its own: part, chosen in Init, names the one that runs and  *)
(* the others stay in their initial states.                                *)
(***************************************************************************)
EXTENDS Governance

CONSTANT Part

VARIABLE part

MCSchemaVersion == {<<1, 0, 0>>, <<1, 2, 0>>, <<2, 0, 1>>}

deployment == <<active, slots, traffic, deployer, previous>>
registry == <<schemas, registrar>>
audit == <<entries, rotationCount, now, recorder, trail>>
governanceVars == <<part, vars, deployment, registry, audit>>

GovernanceInit == part \in Part /\ Init /\ D!Init /\ S!Init /\ A!Init

GovernanceNext ==
    /\ part' = part
    /\ \/ part = "lifecycle" /\ Next /\ UNCHANGED <<deployment, registry, audit>>
       \/ part = "deployment" /\ D!Next /\ UNCHANGED <<vars, registry, audit>>
       \/ part = "schemas" /\ S!Next /\ UNCHANGED <<vars, deployment, audit>>
       \/ part = "audit" /\ A!Next /\ UNCHANGED <<vars, deployment, registry>>

GovernanceSpec == GovernanceInit /\ [][GovernanceNext]_governanceVars

\* The state of every component keeps its type.
GovernanceTypeOK == TypeOK /\ D!TypeOK /\ S!TypeOK /\ A!TypeOK

\* A deployment in progress does not change the version that serves.
DeployInvisible == D!DeployInvisible

\* A version staged in an environment stays until it is removed.
StagedIsKept == D!StagedIsKept

\* List is complete and descending for every map iteration order.
ListDescending == part = "schemas" => S!ListDescending

\* Latest is what List puts first, for every map iteration order.
LatestHeadsList == part = "schemas" => S!LatestHeadsList

\* A registered schema is never replaced.
RegisteredIsKept == S!RegisteredIsKept

\* The audit log evicts only when it is full, and then no more than it must.
KeepsMaxLen == A!KeepsMaxLen

\* The tier counts of Stats add up to its total.
StatsAddUp == A!StatsAddUp

\* Rotate spares every entry that is not older than the age.
RotateSparesRecent == A!RotateSparesRecent

\* Claims of the code's comments that do not hold.

\* "Policies are promoted through environments in order: dev -> staging -> prod."
PromotedInOrder == D!PromotedInOrder

\* "MigrationChain returns the ordered list of schemas": it returns.
ChainReturns == S!ChainReturns

\* "Export returns entries ... sorted chronologically."
ExportChronological == A!ExportChronological

\* "Rotate ... discards entries older than age."
RotateDiscardsOld == A!RotateDiscardsOld
=============================================================================
