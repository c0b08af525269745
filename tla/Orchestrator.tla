---------------------------- MODULE Orchestrator ----------------------------
(***************************************************************************)
(* The verification router of internal/orchestrator.  A caller routes a    *)
(* query: the tier is selected, three counters of the tier are added to    *)
(* one after the other, and the alternatives are listed.  Stats loads the  *)
(* same counters tier by tier while callers run.                           *)
(***************************************************************************)
EXTENDS Integers, Sequences, FiniteSets

CONSTANTS Caller,
          Queries,        \* the queries each caller may ask
          MaxRoutes       \* bound on the routes recorded

VARIABLES counters,  \* [tier -> [count, latency, samples]]
          caller,    \* [Caller -> the Route call in progress or its answer]
          stats      \* the Stats call in progress or its answer

vars == <<counters, caller, stats>>

Unlimited == 1000
tierConfigs ==
  <<[tier |-> "cel",    maxConstraintCount |-> 20,  maxNestingDepth |-> 3,
     baseCostMs |-> 5,   accuracyCeiling |-> 85],
    [tier |-> "wazero", maxConstraintCount |-> 100, maxNestingDepth |-> 10,
     baseCostMs |-> 50,  accuracyCeiling |-> 95],
    [tier |-> "z3", maxConstraintCount |-> Unlimited, maxNestingDepth |-> Unlimited,
     baseCostMs |-> 200, accuracyCeiling |-> 100]>>

Tier == {tierConfigs[i].tier : i \in DOMAIN tierConfigs}
configForTier(t) == tierConfigs[CHOOSE i \in DOMAIN tierConfigs : tierConfigs[i].tier = t]

accuracy(q) == IF q.accuracy = 0 THEN 80 ELSE q.accuracy

overBudget(tc, q) == q.cost > 0 /\ tc.baseCostMs > q.cost

fits(tc, q) ==
  /\ ~(q.constraints > 0 /\ q.constraints > tc.maxConstraintCount)
  /\ ~(q.nesting > 0 /\ q.nesting > tc.maxNestingDepth)
  /\ ~(q.quantifiers /\ tc.tier = "cel")

\* The first tier of the cascade that is accurate enough, within the budget
\* and large enough; Z3 if there is none.
autoSelect(q) ==
  LET good == {i \in DOMAIN tierConfigs :
                 /\ accuracy(q) <= tierConfigs[i].accuracyCeiling
                 /\ ~overBudget(tierConfigs[i], q)
                 /\ fits(tierConfigs[i], q)}
  IN  IF good = {} THEN [tier |-> "z3", why |-> "fallback"]
      ELSE [tier |-> tierConfigs[CHOOSE i \in good : \A j \in good : i <= j].tier, why |-> "auto"]

selectTier(q) ==
  IF accuracy(q) \notin 0..100 \/ q.hint \notin Tier \cup {""}
  THEN [tier |-> "none", why |-> "error"]
  ELSE IF q.hint # "" /\ (q.cost = 0 \/ configForTier(q.hint).baseCostMs <= q.cost)
       THEN [tier |-> q.hint, why |-> "hint"]
       ELSE autoSelect(q)

reasons(tc, q) ==
  {r \in {"accuracy", "cost", "constraints", "nesting", "quantifiers"} :
     \/ r = "accuracy" /\ accuracy(q) > tc.accuracyCeiling
     \/ r = "cost" /\ overBudget(tc, q)
     \/ r = "constraints" /\ q.constraints > 0 /\ q.constraints > tc.maxConstraintCount
     \/ r = "nesting" /\ q.nesting > 0 /\ q.nesting > tc.maxNestingDepth
     \/ r = "quantifiers" /\ q.quantifiers /\ tc.tier = "cel"}

\* Without a reason of its own, a tier has "lower priority than selected tier".
computeAlternatives(q, selected) ==
  [t \in Tier \ {selected} |-> reasons(configForTier(t), q)]

--------------------------------------------------------------------------

Idle == [pc |-> "idle"]

Init ==
  /\ counters = [t \in Tier |-> [count |-> 0, latency |-> 0, samples |-> 0]]
  /\ caller = [c \in Caller |-> Idle]
  /\ stats = Idle

Recorded == counters["cel"].count + counters["wazero"].count + counters["z3"].count
InFlight == Cardinality({c \in Caller : caller[c].pc = "count"})

Select(c, q) ==
  /\ caller[c].pc \in {"idle", "done"}
  /\ Recorded + InFlight < MaxRoutes
  /\ LET sel == selectTier(q)
     IN  caller' = [caller EXCEPT ![c] =
           [pc |-> IF sel.why = "error" THEN "done" ELSE "count", query |-> q, sel |-> sel,
            alternatives |-> IF sel.why = "error" THEN [t \in {} |-> {}]
                             ELSE computeAlternatives(q, sel.tier)]]
  /\ UNCHANGED <<counters, stats>>

\* recordRoute: three atomic additions, in this order.
recordRoute(c) ==
  LET t == caller[c].sel.tier
      to(pc) == caller' = [caller EXCEPT ![c].pc = pc]
  IN  /\ \/ /\ caller[c].pc = "count"
            /\ counters' = [counters EXCEPT ![t].count = @ + 1]
            /\ to("latency")
         \/ /\ caller[c].pc = "latency"
            /\ counters' = [counters EXCEPT ![t].latency = @ + configForTier(t).baseCostMs]
            /\ to("samples")
         \/ /\ caller[c].pc = "samples"
            /\ counters' = [counters EXCEPT ![t].samples = @ + 1]
            /\ to("done")
      /\ UNCHANGED stats

StatsBegin ==
  /\ stats.pc \in {"idle", "done"}
  /\ stats' = [pc |-> "count", at |-> 1, tiers |-> <<>>, count |-> 0, samples |-> 0, total |-> 0]
  /\ UNCHANGED <<counters, caller>>

\* Adds the tier to the answer and moves to the next.
reported(samples, latency) ==
  [stats EXCEPT !.tiers = Append(@, [count |-> stats.count, latency |-> latency,
                                     samples |-> samples]),
                !.total = @ + stats.count, !.at = @ + 1,
                !.pc = IF stats.at = Len(tierConfigs) THEN "done" ELSE "count"]

\* Mutant: the latency is loaded before the samples it is divided by.
StatsLoadSwapped ==
  LET k == counters[tierConfigs[stats.at].tier]
  IN  /\ \/ stats.pc = "count" /\ stats' = [stats EXCEPT !.count = k.count, !.pc = "samples",
                                                         !.samples = k.latency]
         \/ /\ stats.pc = "samples"
            /\ stats' = IF k.samples = 0 THEN reported(0, 0)
                        ELSE reported(k.samples, stats.samples)
      /\ UNCHANGED <<counters, caller>>

StatsLoad ==
  LET k == counters[tierConfigs[stats.at].tier]
  IN  /\ \/ stats.pc = "count" /\ stats' = [stats EXCEPT !.count = k.count, !.pc = "samples"]
         \/ /\ stats.pc = "samples"
            /\ stats' = IF k.samples = 0 THEN reported(0, 0)
                        ELSE [stats EXCEPT !.samples = k.samples, !.pc = "latency"]
         \/ stats.pc = "latency" /\ stats' = reported(stats.samples, k.latency)
      /\ UNCHANGED <<counters, caller>>

Next ==
  \/ \E c \in Caller : recordRoute(c) \/ \E q \in Queries[c] : Select(c, q)
  \/ StatsBegin
  \/ StatsLoad

Spec == Init /\ [][Next]_vars

--------------------------------------------------------------------------
(* Properties *)

TypeOK ==
  /\ counters \in [Tier -> [count : 0..MaxRoutes, latency : 0..(200 * MaxRoutes),
                            samples : 0..MaxRoutes]]
  /\ \A c \in Caller : caller[c].pc \in {"idle", "count", "latency", "samples", "done"}
  /\ stats.pc \in {"idle", "count", "samples", "latency", "done"}

\* The two walks over the cascade agree: when the tier was selected without a
\* hint, computeAlternatives gives every tier before it a reason of its own,
\* and after a fallback every other tier.
SkippedTierHasReason ==
  \A c \in Caller :
    caller[c].pc # "idle" /\ caller[c].sel.why \in {"auto", "fallback"} =>
      \A t \in DOMAIN caller[c].alternatives :
        \/ caller[c].alternatives[t] # {}
        \/ configForTier(t).baseCostMs > configForTier(caller[c].sel.tier).baseCostMs

\* An average that Stats reports is never below the cost of the tier, however
\* the loads fall between the additions of concurrent routes.
AverageNeverUnder ==
  stats.pc # "idle" =>
    \A i \in DOMAIN stats.tiers :
      stats.tiers[i].latency >= stats.tiers[i].samples * tierConfigs[i].baseCostMs

\* "CostTargetMs is the caller's maximum acceptable latency"
\* (orchestrator.go:62), also when no tier is cheap enough.
BudgetKept ==
  \A c \in Caller :
    caller[c].pc # "idle" /\ caller[c].sel.why # "error" /\ caller[c].query.cost > 0 =>
      configForTier(caller[c].sel.tier).baseCostMs <= caller[c].query.cost

\* "Stats returns a snapshot of routing metrics" (orchestrator.go:311): every
\* route of a tier costs the same, so the average is that cost.
AverageIsCost ==
  stats.pc # "idle" =>
    \A i \in DOMAIN stats.tiers :
      stats.tiers[i].latency = stats.tiers[i].samples * tierConfigs[i].baseCostMs
=============================================================================
