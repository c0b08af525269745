--------------------------- MODULE ComposedPolicy ---------------------------
(***************************************************************************)
(* POST /v1/verify/composed of internal/composed/handler.go: the stages of *)
(* a policy, evaluated one after the other until one fails.  A CEL stage   *)
(* reads one variable x, which the stage or the request binds; the SMT     *)
(* solver answers what it likes.                                           *)
(***************************************************************************)
EXTENDS Naturals, Sequences

CONSTANTS Stages,       \* the stages a policy may have
          MaxStages

VARIABLES request, reports, response

vars == <<request, reports, response>>

Pending == "pending"
Binding == {"true", "false", "absent"}

\* Mutant: the request's input wins over the variables of the stage.
mergedInputFirst(stage, input) == IF input = "absent" THEN stage.x ELSE input

\* Stage variables are written over the request's input.
merged(stage, input) == IF stage.x = "absent" THEN input ELSE stage.x

evalCELStage(stage, input) ==
  {IF stage.blank THEN "blank"
   ELSE IF merged(stage, input) = "absent" THEN "error"
   ELSE merged(stage, input)}

\* The deadline of the stage, or the end of the request, is an error.
evalSMTStage(stage) == IF stage.blank THEN {"blank"} ELSE {"sat", "unsat", "unknown", "error"}

evalWasmStage(stage) == {IF stage.x = "absent" THEN "pass-through" ELSE stage.x}

evalStage(stage, input) ==
  CASE stage.kind = "cel" -> evalCELStage(stage, input)
    [] stage.kind = "smt" -> evalSMTStage(stage)
    [] stage.kind = "wasm" -> evalWasmStage(stage)
    [] OTHER -> {"unsupported"}

ok(outcome) == outcome \in {"true", "sat", "pass-through"}

Init ==
  /\ request \in [policies : UNION {[1..n -> Stages] : n \in 0..MaxStages}, input : Binding]
  /\ reports = <<>>
  /\ response = Pending

allOK == \A i \in DOMAIN reports : ok(reports[i].outcome)

Reject ==
  /\ response = Pending
  /\ request.policies = <<>>
  /\ response' = "rejected"
  /\ UNCHANGED <<request, reports>>

EvalNext ==
  /\ response = Pending
  /\ allOK
  /\ Len(reports) < Len(request.policies)
  /\ LET stage == request.policies[Len(reports) + 1]
     IN  \E outcome \in evalStage(stage, request.input) :
           reports' = Append(reports, [kind |-> stage.kind, outcome |-> outcome])
  /\ UNCHANGED <<request, response>>

Respond ==
  /\ response = Pending
  /\ reports # <<>>
  /\ ~allOK \/ Len(reports) = Len(request.policies)
  /\ response' = IF allOK THEN "ok" ELSE "failed"
  /\ UNCHANGED <<request, reports>>

Next == Reject \/ EvalNext \/ Respond

Spec == Init /\ [][Next]_vars

--------------------------------------------------------------------------

TypeOK ==
  /\ response \in {Pending, "rejected", "ok", "failed"}
  /\ Len(reports) <= Len(request.policies)

\* What a stage decides when it is evaluated on its own: a CEL stage by its
\* own binding of x and else the request's, an SMT stage only by sat.
Passes(stage, report) ==
  CASE stage.kind = "cel" -> /\ ~stage.blank
                             /\ "true" = IF stage.x # "absent" THEN stage.x ELSE request.input
    [] stage.kind = "smt" -> report.outcome = "sat"
    [] stage.kind = "wasm" -> stage.x # "false"
    [] OTHER -> FALSE

\* The answer is ok exactly when every stage of the policy was reported and
\* passes on its own; otherwise the report ends with the one failed stage.
VerdictIsConjunction ==
  response \in {"ok", "failed"} =>
    LET n == Len(reports)
        good(i) == Passes(request.policies[i], reports[i])
    IN  /\ \A i \in 1..(n - 1) : good(i)
        /\ (response = "ok") = (n = Len(request.policies) /\ good(n))
=============================================================================
