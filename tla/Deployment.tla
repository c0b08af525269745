----------------------------- MODULE Deployment -----------------------------
(***************************************************************************)
(* internal/governance: staging.go and bluegreen.go.  A StagingTable and   *)
(* the BlueGreen slots of one policy, each under a mutex.  A deployer      *)
(* follows the procedure of the package comment of bluegreen.go: it asks   *)
(* for the inactive slot, deploys to it and switches traffic, three calls  *)
(* with nothing held between them; it may also switch back.                *)
(***************************************************************************)
EXTENDS Integers, Sequences, FiniteSets

CONSTANTS Policy, Version, Deployer

VARIABLES
    active,              \* StagingTable.active: by <<policy, env>>, the version and Env staged
    slots,               \* BlueGreen.slots: the version in each slot that has one
    traffic,             \* BlueGreen.active; "" before the first switch
    deployer,            \* deployer[d]: the procedure in progress
    previous             \* what the last SwitchTraffic returned

vars == <<active, slots, traffic, deployer, previous>>
blueGreen == <<slots, traffic, deployer, previous>>

EnvOrder == <<"dev", "staging", "prod">>
Env == {EnvOrder[i] : i \in DOMAIN EnvOrder}
Slot == {"blue", "green"}
Idle == [at |-> "idle"]

TypeOK ==
    /\ DOMAIN active \subseteq Policy \X Env
    /\ \A k \in DOMAIN active : active[k] \in [version : Version, env : Env]
    /\ DOMAIN slots \subseteq Slot
    /\ \A s \in DOMAIN slots : slots[s] \in Version
    /\ traffic \in Slot \cup {""} /\ previous \in Slot \cup {""}
    /\ \A d \in Deployer : deployer[d].at \in {"idle", "deploy", "switch"}

Init ==
    /\ active = << >>
    /\ slots = << >>
    /\ traffic = "" /\ previous = ""
    /\ deployer = [d \in Deployer |-> Idle]

-----------------------------------------------------------------------------
envIndex(e) == CHOOSE i \in DOMAIN EnvOrder : EnvOrder[i] = e
CanPromoteTo(from, to) == envIndex(to) = envIndex(from) + 1

\* Stage looks at the record of the environment it stages to.
StageAllowed(p, env) ==
    <<p, env>> \in DOMAIN active => CanPromoteTo(active[<<p, env>>].env, env)

Stage(p, v, env) ==
    /\ StageAllowed(p, env)
    /\ active' = [k \in DOMAIN active \cup {<<p, env>>} |->
                     IF k = <<p, env>> THEN [version |-> v, env |-> env] ELSE active[k]]
    /\ UNCHANGED blueGreen

ActiveInEnv(env) == {k \in DOMAIN active : active[k].env = env}

Remove(p, env) ==
    /\ active' = [k \in DOMAIN active \ {<<p, env>>} |-> active[k]]
    /\ UNCHANGED blueGreen

-----------------------------------------------------------------------------

InactiveSlot == IF traffic = "blue" THEN "green" ELSE "blue"

AskInactive(d) ==
    /\ deployer[d] = Idle
    /\ deployer' = [deployer EXCEPT ![d] = [at |-> "deploy", slot |-> InactiveSlot]]
    /\ UNCHANGED <<active, slots, traffic, previous>>

DeployToSlot(d, v) ==
    LET slot == deployer[d].slot
    IN  /\ deployer[d].at = "deploy"
        /\ slots' = [s \in DOMAIN slots \cup {slot} |-> IF s = slot THEN v ELSE slots[s]]
        /\ deployer' = [deployer EXCEPT ![d].at = "switch"]
        /\ UNCHANGED <<active, traffic, previous>>

\* Mutant: a slot with no deployment is accepted.
SwitchTrafficUnchecked(to) == traffic' = to /\ previous' = traffic

SwitchTraffic(to) ==
    /\ to \in DOMAIN slots
    /\ traffic' = to
    /\ previous' = traffic

SwitchOver(d) ==
    /\ deployer[d].at = "switch"
    /\ SwitchTraffic(deployer[d].slot)
    /\ deployer' = [deployer EXCEPT ![d] = Idle]
    /\ UNCHANGED <<active, slots>>

\* Validation fails: the deployer does not switch.
GiveUp(d) ==
    /\ deployer[d].at = "switch"
    /\ deployer' = [deployer EXCEPT ![d] = Idle]
    /\ UNCHANGED <<active, slots, traffic, previous>>

\* A switch outside the procedure, by a deployer that has none in progress.
SwitchBack(d) ==
    \E to \in Slot :
       /\ deployer[d] = Idle
       /\ SwitchTraffic(to)
       /\ UNCHANGED <<active, slots, deployer>>

Next ==
    \/ \E p \in Policy, env \in Env : Remove(p, env) \/ \E v \in Version : Stage(p, v, env)
    \/ \E d \in Deployer :
          \/ AskInactive(d) \/ SwitchOver(d) \/ GiveUp(d) \/ SwitchBack(d)
          \/ \E v \in Version : DeployToSlot(d, v)

Spec == Init /\ [][Next]_vars

-----------------------------------------------------------------------------
\* Traffic goes to a slot that has a deployment, and the slot it came from can
\* take it back with one SwitchTraffic call, whatever was deployed meanwhile.
TrafficServed == \A s \in {traffic, previous} \ {""} : s \in DOMAIN slots

Serving == IF traffic \in DOMAIN slots THEN {slots[traffic]} ELSE {}

\* With one deployer the version that serves changes by a switch only: a
\* deployment in progress is not visible.
DeployInvisible == [][traffic' = traffic => Serving' = Serving]_vars

\* A version staged in an environment stays until it is removed: a second Stage
\* is refused, also when two race.
StagedIsKept == [][\A k \in DOMAIN active : k \in DOMAIN active' => active'[k] = active[k]]_vars

\* "Policies are promoted through environments in order: dev -> staging -> prod."
PromotedInOrder ==
    [][\A p \in Policy, i \in 2 .. 3 :
          <<p, EnvOrder[i]>> \in DOMAIN active' \ DOMAIN active => <<p, EnvOrder[i - 1]>> \in DOMAIN active]_vars

=============================================================================
