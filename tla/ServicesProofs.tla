--------------------------- MODULE ServicesProofs ---------------------------
(***************************************************************************)
(* Of the services of a process, for any number of calls and callers:      *)
(* prefetched decisions follow the chain of rules, a composed policy is    *)
(* the conjunction of its stages, a run that hits its deadline is reported *)
(* as a timeout, and averages of the router are never too low.             *)
(***************************************************************************)
EXTENDS Services, FiniteSetTheorems, TLAPS

(* The rule registry *)

Chain == Seq(Rules \cup {Deferred})
Result == Decisions \cup {Deferred, NoResult}

CallRecord == [pc : {"new", "started", "walking", "sent"}, at : Nat \ {0}, seen : Chain, ch : Result,
               done : BOOLEAN, early : BOOLEAN, await : {"no", "waiting", "returned"}, answer : Result]

Typed ==
  /\ rules \in Chain
  /\ adding \in [pc : {"idle", "waiting"}, rule : Rules \cup {Deferred}]
  /\ call \in [Call -> CallRecord]

\* No rule before the i-th decides.
Undecided(chain, i) == \A j \in DOMAIN chain : j < i => chain[j] \notin Decisions

\* What the goroutine sent, or the await returned, is justified by the context
\* or by a walk that has ended: what it saw does not change any more.
Justified(k, given) ==
  \/ given = NoResult
  \/ given = Deferred /\ k.done
  \/ given = Deferred /\ k.pc = "sent" /\ \A i \in DOMAIN k.seen : k.seen[i] \notin Decisions
  \/ k.pc = "sent" /\ \E i \in DOMAIN k.seen : k.seen[i] = given /\ given \in Decisions /\ Undecided(k.seen, i)

WalkInv(k) ==
  /\ k.pc # "sent" => k.ch = NoResult
  /\ k.pc \in {"new", "started"} => k.at = 1
  /\ k.pc = "walking" => k.seen = rules /\ Undecided(k.seen, k.at)
  /\ Justified(k, k.ch) /\ Justified(k, k.answer)

\* The inductive invariant.
RegistryInv == Typed /\ \A c \in Call : WalkInv(call[c])

LEMMA InitialRegistry == Init => RegistryInv
<1> SUFFICES ASSUME Init PROVE RegistryInv
  OBVIOUS
<1>1. << >> \in Chain
  BY DEF Chain
<1>2. Typed
  BY <1>1 DEF Init, Typed, CallRecord, Result, Deferred, NoResult
<1>3. \A c \in Call : WalkInv(call[c])
  BY DEF Init, WalkInv, Justified, NoResult
<1> QED
  BY <1>2, <1>3 DEF RegistryInv

LEMMA DecidesFirst == RegistryInv => FirstRuleDecides
<1> SUFFICES ASSUME RegistryInv, NEW c \in Call
             PROVE  LET k == call[c]
                        deciding == {i \in DOMAIN k.seen : k.seen[i] \in Decisions}
                        first == k.seen[CHOOSE i \in deciding : \A j \in deciding : i <= j]
                        given == IF k.await = "returned" THEN k.answer ELSE k.ch
                    IN  given # NoResult =>
                           IF given = Deferred THEN deciding = {} \/ k.done ELSE given = first
  BY DEF FirstRuleDecides
<1> DEFINE k == call[c]
           deciding == {i \in DOMAIN k.seen : k.seen[i] \in Decisions}
           given == IF k.await = "returned" THEN k.answer ELSE k.ch
<1>1. Justified(k, given)
  BY DEF RegistryInv, WalkInv
<1>2. DOMAIN k.seen \subseteq Nat
  BY DEF RegistryInv, Typed, CallRecord, Chain
<1>3. ASSUME given # NoResult, given = Deferred PROVE deciding = {} \/ k.done
  BY <1>1, <1>3 DEF Justified, Decisions, Deferred
<1>4. ASSUME given # NoResult, given # Deferred
      PROVE  given = k.seen[CHOOSE i \in deciding : \A j \in deciding : i <= j]
  <2>1. PICK i \in DOMAIN k.seen : k.seen[i] = given /\ given \in Decisions /\ Undecided(k.seen, i)
    BY <1>1, <1>4 DEF Justified
  <2>2. i \in deciding /\ \A j \in deciding : i <= j
    BY <1>2, <2>1 DEF Undecided
  <2>3. \A m \in deciding : (\A j \in deciding : m <= j) => m = i
    BY <1>2, <2>2
  <2>4. (CHOOSE m \in deciding : \A j \in deciding : m <= j) = i
    BY <2>2, <2>3
  <2> QED
    BY <2>1, <2>4, Zenon
<1> QED
  BY <1>3, <1>4

\* A step of one call that leaves the chain alone.
LEMMA OneCall ==
  ASSUME RegistryInv, NEW c \in Call, UNCHANGED <<rules, adding>>,
         call' \in [Call -> CallRecord],
         \A d \in Call : d # c => call'[d] = call[d],
         WalkInv(call[c])'
  PROVE  RegistryInv'
<1>1. Typed'
  BY DEF RegistryInv, Typed
<1>2. ASSUME NEW d \in Call, d # c PROVE WalkInv(call[d])'
  <2>1. WalkInv(call[d]) /\ call'[d] = call[d]
    BY <1>2 DEF RegistryInv
  <2> QED
    BY <2>1 DEF WalkInv, Justified, Undecided
<1> QED
  BY <1>1, <1>2 DEF RegistryInv

\* What was justified stays justified by a walk or a context no younger.
LEMMA StaysJustified ==
  ASSUME NEW k, NEW m, NEW given, Justified(k, given), k.done => m.done,
         k.pc = "sent" => m.pc = "sent" /\ m.seen = k.seen
  PROVE  Justified(m, given)
BY DEF Justified

LEMMA WalkSends ==
  ASSUME RegistryInv, NEW c \in Call, call[c].pc = "walking", NEW res \in Decisions \cup {Deferred}, send(c, res),
         Justified([call[c] EXCEPT !.pc = "sent"], res), UNCHANGED <<rules, adding>>
  PROVE  RegistryInv'
<1> DEFINE k == call[c]
<1>1. k \in CallRecord /\ WalkInv(k)
  BY DEF RegistryInv, Typed
<1>2. call' = [call EXCEPT ![c] = [k EXCEPT !.pc = "sent", !.ch = res]]
  BY <1>1, Zenon DEF send, RegistryInv, Typed
<1>3. call' \in [Call -> CallRecord] /\ \A d \in Call : d # c => call'[d] = call[d]
  BY <1>1, <1>2, Zenon DEF RegistryInv, Typed, CallRecord, Result
<1>4. call'[c] = [k EXCEPT !.pc = "sent", !.ch = res]
  BY <1>2 DEF RegistryInv, Typed
<1>5. /\ call'[c].pc = "sent" /\ call'[c].ch = res /\ call'[c].seen = k.seen
      /\ call'[c].done = k.done /\ call'[c].answer = k.answer
  BY <1>1, <1>4 DEF CallRecord
<1>6. Justified(call'[c], k.answer)
  BY <1>1, <1>5, StaysJustified DEF WalkInv
<1>7. Justified(call'[c], res)
  <2> DEFINE m == [k EXCEPT !.pc = "sent"]
  <2>1. m.done = k.done /\ m.seen = k.seen /\ m.pc = "sent"
    BY <1>1 DEF CallRecord
  <2> HIDE DEF m
  <2>2. Justified(m, res)
    BY DEF m
  <2> QED
    BY <1>5, <2>1, <2>2, StaysJustified
<1>8. Justified(call[c], call[c].ch)' /\ Justified(call[c], call[c].answer)'
  BY <1>5, <1>6, <1>7 DEF Justified, Undecided
<1>9. WalkInv(call[c])'
  BY <1>5, <1>8 DEF WalkInv
<1> QED
  BY <1>3, <1>9, OneCall

LEMMA WalkPreserves ==
  ASSUME RegistryInv, NEW c \in Call, Walk(c)
  PROVE  RegistryInv'
<1> DEFINE k == call[c]
<1>1. k \in CallRecord /\ WalkInv(k) /\ k.pc = "walking" /\ UNCHANGED <<rules, adding>>
  BY DEF RegistryInv, Typed, Walk
<1>2. k.seen = rules /\ Undecided(rules, k.at) /\ k.at \in Nat \ {0} /\ rules \in Chain
  BY <1>1 DEF WalkInv, CallRecord, RegistryInv, Typed
<1>3. DOMAIN rules = 1 .. Len(rules) /\ Len(rules) \in Nat
  BY <1>2 DEF Chain
<1> DEFINE m == [k EXCEPT !.pc = "sent"]
<1>4. m.pc = "sent" /\ m.seen = rules /\ m.done = k.done
  BY <1>1, <1>2 DEF CallRecord
<1>5. CASE k.at > Len(rules)
  <2>1. \A i \in DOMAIN rules : rules[i] \notin Decisions
    BY <1>2, <1>3, <1>5 DEF Undecided
  <2>2. Justified(m, Deferred)
    BY <1>4, <2>1 DEF Justified
  <2>3. send(c, Deferred)
    BY <1>5 DEF Walk
  <2> QED
    BY <1>1, <2>2, <2>3, WalkSends
<1>6. CASE k.at <= Len(rules) /\ rules[k.at] \in Decisions
  <2>1. send(c, rules[k.at])
    BY <1>2, <1>3, <1>6 DEF Walk
  <2>2. k.at \in DOMAIN rules
    BY <1>2, <1>3, <1>6
  <2>3. Justified(m, rules[k.at])
    BY <1>2, <1>4, <1>6, <2>2 DEF Justified
  <2> QED
    BY <1>1, <1>6, <2>1, <2>3, WalkSends
<1>7. CASE k.at <= Len(rules) /\ rules[k.at] = Deferred /\ k.done
  <2>1. send(c, Deferred)
    BY <1>2, <1>3, <1>7 DEF Walk, Decisions, Deferred
  <2>2. Justified(m, Deferred)
    BY <1>4, <1>7 DEF Justified
  <2> QED
    BY <1>1, <2>1, <2>2, WalkSends
<1>8. CASE k.at <= Len(rules) /\ rules[k.at] \notin Decisions /\ ~(rules[k.at] = Deferred /\ k.done)
  <2>1. call' = [call EXCEPT ![c] = [k EXCEPT !.at = @ + 1]]
    BY <1>1, <1>2, <1>3, <1>8 DEF Walk, RegistryInv, Typed
  <2>2. call' \in [Call -> CallRecord] /\ \A d \in Call : d # c => call'[d] = call[d]
    BY <1>1, <1>2, <2>1 DEF RegistryInv, Typed, CallRecord
  <2>3. call'[c] = [k EXCEPT !.at = @ + 1]
    BY <2>1 DEF RegistryInv, Typed
  <2>4. /\ call'[c].pc = "walking" /\ call'[c].ch = k.ch /\ call'[c].seen = k.seen /\ call'[c].at = k.at + 1
        /\ call'[c].done = k.done /\ call'[c].answer = k.answer
    BY <1>1, <2>3 DEF CallRecord
  <2>5. Undecided(rules, k.at + 1)
    BY <1>2, <1>3, <1>8 DEF Undecided
  <2>6. Justified(call'[c], k.ch) /\ Justified(call'[c], k.answer)
    BY <1>1, <2>4, StaysJustified DEF WalkInv
  <2>7. Justified(call[c], call[c].ch)' /\ Justified(call[c], call[c].answer)'
    BY <2>4, <2>6 DEF Justified, Undecided
  <2>8. WalkInv(call[c])'
    BY <1>1, <1>2, <2>4, <2>5, <2>7 DEF WalkInv, Undecided
  <2> QED
    BY <1>1, <2>2, <2>8, OneCall
<1> QED
  BY <1>2, <1>3, <1>5, <1>6, <1>7, <1>8

\* A step of one call that is not in its walk, or does not go on with it.
LEMMA OtherSteps ==
  ASSUME RegistryInv, NEW c \in Call, UNCHANGED <<rules, adding>>, NEW m \in CallRecord,
         call' = [call EXCEPT ![c] = m], WalkInv(m)
  PROVE  RegistryInv'
<1>1. call' \in [Call -> CallRecord] /\ (\A d \in Call : d # c => call'[d] = call[d]) /\ call'[c] = m
  BY DEF RegistryInv, Typed
<1>2. Justified(call[c], call[c].ch)' /\ Justified(call[c], call[c].answer)'
  BY <1>1 DEF WalkInv, Justified, Undecided
<1>3. WalkInv(call[c])'
  BY <1>1, <1>2 DEF WalkInv, Undecided
<1> QED
  BY <1>1, <1>3, OneCall

LEMMA RegistryInductive ==
  ASSUME RegistryInv, [Next]_vars
  PROVE  RegistryInv'
<1>1. ASSUME NEW r \in Rules, Register(r) PROVE RegistryInv'
  <2>1. Typed'
    BY <1>1 DEF Register, RegistryInv, Typed
  <2>2. ASSUME NEW c \in Call PROVE WalkInv(call[c])'
    BY <1>1 DEF Register, RegistryInv, WalkInv, Justified, Undecided
  <2> QED
    BY <2>1, <2>2 DEF RegistryInv
<1>2. CASE RegisterLocked
  <2>1. Typed'
    BY <1>2 DEF RegisterLocked, RegistryInv, Typed, Chain
  <2>2. ASSUME NEW c \in Call PROVE WalkInv(call[c])'
    <3>1. call'[c] = call[c] /\ call[c].pc # "walking"
      BY <1>2 DEF RegisterLocked, Readers
    <3> QED
      BY <3>1 DEF RegistryInv, WalkInv, Justified, Undecided
  <2> QED
    BY <2>1, <2>2 DEF RegistryInv
<1>3. ASSUME NEW c \in Call, Prefetch(c) \/ Evaluate(c) \/ Walk(c) \/ Cancel(c) \/ Await(c)
                             \/ AwaitResult(c) \/ AwaitDone(c)
      PROVE  RegistryInv'
  <2> DEFINE k == call[c]
  <2>1. k \in CallRecord /\ WalkInv(k) /\ rules \in Chain /\ call \in [Call -> CallRecord]
    BY DEF RegistryInv, Typed
  <2>2. CASE Prefetch(c)
    <3> DEFINE m == [k EXCEPT !.pc = "started"]
    <3>1. call' = [call EXCEPT ![c] = m] /\ UNCHANGED <<rules, adding>> /\ k.pc = "new"
      BY <2>1, <2>2 DEF Prefetch
    <3>2. m \in CallRecord /\ m.pc = "started" /\ m.ch = k.ch /\ m.at = k.at /\ m.done = k.done /\ m.answer = k.answer
      BY <2>1 DEF CallRecord
    <3> HIDE DEF m
    <3>3. Justified(m, k.ch) /\ Justified(m, k.answer)
      BY <2>1, <3>1, <3>2, StaysJustified DEF WalkInv
    <3>4. WalkInv(m)
      BY <2>1, <3>1, <3>2, <3>3 DEF WalkInv
    <3> QED
      BY <3>1, <3>2, <3>4, OtherSteps, Zenon
  <2>3. CASE Evaluate(c)
    <3> DEFINE m == [k EXCEPT !.pc = "walking", !.seen = rules]
    <3>1. call' = [call EXCEPT ![c] = m] /\ UNCHANGED <<rules, adding>> /\ k.pc = "started"
      BY <2>1, <2>3, Zenon DEF Evaluate
    <3>2. /\ m \in CallRecord /\ m.pc = "walking" /\ m.ch = k.ch /\ m.at = k.at /\ m.done = k.done
          /\ m.answer = k.answer /\ m.seen = rules
      BY <2>1, Zenon DEF CallRecord
    <3> HIDE DEF m
    <3>3. Justified(m, k.ch) /\ Justified(m, k.answer)
      BY <2>1, <3>1, <3>2, StaysJustified DEF WalkInv
    <3>4. Undecided(rules, 1)
      BY <2>1 DEF Undecided, Chain
    <3>5. WalkInv(m)
      BY <2>1, <3>1, <3>2, <3>3, <3>4 DEF WalkInv
    <3> QED
      BY <3>1, <3>2, <3>5, OtherSteps, Zenon
  <2>4. CASE Walk(c)
    BY <2>4, WalkPreserves
  <2>5. CASE Cancel(c)
    <3> DEFINE m == [k EXCEPT !.done = TRUE, !.early = (k.pc # "sent")]
    <3>1. call' = [call EXCEPT ![c] = m] /\ UNCHANGED <<rules, adding>>
      BY <2>1, <2>5, Zenon DEF Cancel
    <3>2. /\ m \in CallRecord /\ m.pc = k.pc /\ m.ch = k.ch /\ m.at = k.at /\ m.done
          /\ m.answer = k.answer /\ m.seen = k.seen
      BY <2>1, Zenon DEF CallRecord
    <3> HIDE DEF m
    <3>3. Justified(m, k.ch) /\ Justified(m, k.answer)
      BY <2>1, <3>2, StaysJustified DEF WalkInv
    <3>4. WalkInv(m)
      BY <2>1, <3>2, <3>3 DEF WalkInv
    <3> QED
      BY <3>1, <3>2, <3>4, OtherSteps, Zenon
  <2>6. CASE Await(c)
    <3> DEFINE m == [k EXCEPT !.await = "waiting"]
    <3>1. call' = [call EXCEPT ![c] = m] /\ UNCHANGED <<rules, adding>>
      BY <2>1, <2>6 DEF Await
    <3>2. /\ m \in CallRecord /\ m.pc = k.pc /\ m.ch = k.ch /\ m.at = k.at /\ m.done = k.done
          /\ m.answer = k.answer /\ m.seen = k.seen
      BY <2>1 DEF CallRecord
    <3> HIDE DEF m
    <3>3. Justified(m, k.ch) /\ Justified(m, k.answer)
      BY <2>1, <3>2, StaysJustified DEF WalkInv
    <3>4. WalkInv(m)
      BY <2>1, <3>2, <3>3 DEF WalkInv
    <3> QED
      BY <3>1, <3>2, <3>4, OtherSteps, Zenon
  <2>7. CASE AwaitResult(c)
    <3> DEFINE m == [k EXCEPT !.await = "returned", !.answer = k.ch, !.ch = NoResult]
    <3>1. call' = [call EXCEPT ![c] = m] /\ UNCHANGED <<rules, adding>>
      BY <2>1, <2>7, Zenon DEF AwaitResult
    <3>2. /\ m \in CallRecord /\ m.pc = k.pc /\ m.ch = NoResult /\ m.at = k.at /\ m.done = k.done
          /\ m.answer = k.ch /\ m.seen = k.seen
      BY <2>1, Zenon DEF CallRecord, Result
    <3> HIDE DEF m
    <3>3. Justified(m, NoResult) /\ Justified(m, k.ch)
      BY <2>1, <3>2, StaysJustified DEF WalkInv, Justified
    <3>4. WalkInv(m)
      BY <2>1, <3>2, <3>3 DEF WalkInv
    <3> QED
      BY <3>1, <3>2, <3>4, OtherSteps, Zenon
  <2>8. CASE AwaitDone(c)
    <3> DEFINE m == [k EXCEPT !.await = "returned", !.answer = Deferred]
    <3>1. call' = [call EXCEPT ![c] = m] /\ UNCHANGED <<rules, adding>> /\ k.done
      BY <2>1, <2>8, Zenon DEF AwaitDone
    <3>2. /\ m \in CallRecord /\ m.pc = k.pc /\ m.ch = k.ch /\ m.at = k.at /\ m.done = k.done
          /\ m.answer = Deferred /\ m.seen = k.seen
      BY <2>1, Zenon DEF CallRecord, Result
    <3> HIDE DEF m
    <3>3. Justified(m, k.ch)
      BY <2>1, <3>2, StaysJustified DEF WalkInv
    <3>4. Justified(m, Deferred)
      BY <3>1, <3>2 DEF Justified
    <3>5. WalkInv(m)
      BY <2>1, <3>2, <3>3, <3>4 DEF WalkInv
    <3> QED
      BY <3>1, <3>2, <3>5, OtherSteps, Zenon
  <2> QED
    BY <1>3, <2>2, <2>3, <2>4, <2>5, <2>6, <2>7, <2>8
<1>4. CASE UNCHANGED vars
  <2>1. Typed'
    BY <1>4 DEF vars, RegistryInv, Typed
  <2>2. ASSUME NEW c \in Call PROVE WalkInv(call[c])'
    BY <1>4 DEF vars, RegistryInv, WalkInv, Justified, Undecided
  <2> QED
    BY <2>1, <2>2 DEF RegistryInv
<1> QED
  BY <1>1, <1>2, <1>3, <1>4 DEF Next

\* Evaluate answers with the first rule of the chain that decides, although
\* rules are registered, contexts end and closures are awaited in any order
\* (policyrule.go, Evaluate and Prefetch).
THEOREM PrefetchFollowsChain == Spec => []FirstRuleDecides
<1>1. Init => RegistryInv
  BY InitialRegistry
<1>2. RegistryInv /\ [Next]_vars => RegistryInv'
  BY RegistryInductive
<1>3. RegistryInv => FirstRuleDecides
  BY DecidesFirst
<1> QED
  BY <1>1, <1>2, <1>3, PTL DEF Spec

-----------------------------------------------------------------------------
(* Composed policies *)

\* What is reported of a stage.
Reports == [kind : {s.kind : s \in Stages},
            outcome : {"true", "false", "error", "blank", "sat", "unsat", "unknown",
                       "pass-through", "unsupported"}]

\* Passes, as a function of what the request binds and of the outcome.
PassesOn(input, stage, o) ==
  \/ /\ stage.kind = "cel" /\ ~stage.blank
     /\ "true" = IF stage.x # "absent" THEN stage.x ELSE input
  \/ stage.kind = "smt" /\ o = "sat"
  \/ stage.kind = "wasm" /\ stage.x # "false"

ComposedInv ==
  /\ request.policies \in Seq(Stages) /\ request.input \in C!Binding
  /\ reports \in Seq(Reports)
  /\ Len(reports) <= Len(request.policies)
  /\ \A i \in 1..Len(reports) :
       /\ C!ok(reports[i].outcome) <=> PassesOn(request.input, request.policies[i], reports[i].outcome)
       /\ i < Len(reports) => C!ok(reports[i].outcome)
  /\ response \in {"ok", "failed"} =>
       /\ reports # <<>>
       /\ (response = "ok") <=> C!allOK
       /\ C!allOK => Len(reports) = Len(request.policies)

LEMMA StageDecides ==
  ASSUME NEW s \in Stages, s.x \in C!Binding, request.input \in C!Binding,
         NEW o \in C!evalStage(s, request.input)
  PROVE  /\ [kind |-> s.kind, outcome |-> o] \in Reports
         /\ C!ok(o) <=> PassesOn(request.input, s, o)
<1>1. CASE s.kind = "cel"
  BY <1>1 DEF Reports, C!evalStage, C!evalCELStage, C!merged, C!ok, PassesOn, C!Binding
<1>2. CASE s.kind = "smt"
  BY <1>2 DEF Reports, C!evalStage, C!evalSMTStage, C!ok, PassesOn
<1>3. CASE s.kind = "wasm"
  BY <1>3 DEF Reports, C!evalStage, C!evalWasmStage, C!ok, PassesOn, C!Binding
<1>4. CASE s.kind \notin {"cel", "smt", "wasm"}
  BY <1>4 DEF Reports, C!evalStage, C!ok, PassesOn
<1> QED BY <1>1, <1>2, <1>3, <1>4

LEMMA InitialComposed == C!Init => ComposedInv
<1> SUFFICES ASSUME C!Init PROVE ComposedInv
  OBVIOUS
<1>1. PICK n \in 0..MaxStages : request.policies \in [1..n -> Stages]
  BY DEF C!Init
<1>2. request.policies \in Seq(Stages) /\ Len(request.policies) \in Nat
  BY <1>1
<1>3. request.input \in C!Binding /\ reports = <<>> /\ response = C!Pending
  BY DEF C!Init
<1> QED BY <1>2, <1>3 DEF ComposedInv, C!Pending

LEMMA NextComposed ==
  ASSUME \A s \in Stages : s.x \in C!Binding, ComposedInv, [C!Next]_(C!vars)
  PROVE  ComposedInv'
<1>1. CASE UNCHANGED C!vars
  BY <1>1 DEF ComposedInv, C!vars, C!allOK, PassesOn
<1>2. CASE C!Reject
  BY <1>2 DEF ComposedInv, C!Reject, PassesOn
<1>3. CASE C!Respond
  BY <1>3 DEF ComposedInv, C!Respond, PassesOn, C!allOK, C!Pending
<1>4. CASE C!EvalNext
  <2> DEFINE n == Len(reports)
             s == request.policies[n + 1]
  <2>1. /\ reports \in Seq(Reports) /\ request.policies \in Seq(Stages) /\ request.input \in C!Binding
        /\ Len(reports) <= Len(request.policies)
        /\ \A i \in 1..n : C!ok(reports[i].outcome)
                            <=> PassesOn(request.input, request.policies[i], reports[i].outcome)
    BY DEF ComposedInv
  <2>2. n \in Nat /\ Len(request.policies) \in Nat
    BY <2>1
  <2>3. /\ response = C!Pending /\ response' = response /\ request' = request
        /\ C!allOK /\ n < Len(request.policies) /\ n \in Nat
    BY <1>4, <2>2 DEF C!EvalNext
  <2>4. PICK o \in C!evalStage(s, request.input) :
          reports' = Append(reports, [kind |-> s.kind, outcome |-> o])
    BY <1>4 DEF C!EvalNext
  <2> DEFINE r == [kind |-> s.kind, outcome |-> o]
  <2>5. s \in Stages
    BY <2>1, <2>2, <2>3
  <2>6. r \in Reports /\ (C!ok(o) <=> PassesOn(request.input, s, o))
    BY <2>1, <2>5, StageDecides
  <2>7. /\ reports' \in Seq(Reports) /\ Len(reports') = n + 1 /\ reports'[n + 1] = r
        /\ \A i \in 1..n : reports'[i] = reports[i]
    BY <2>1, <2>2, <2>4, <2>6
  <2>8. \A i \in 1..n : C!ok(reports[i].outcome)
    BY <2>1, <2>3 DEF C!allOK
  <2>9. ASSUME NEW i \in 1..Len(reports')
        PROVE  /\ C!ok(reports'[i].outcome) <=> PassesOn(request.input, request.policies[i], reports'[i].outcome)
               /\ i < Len(reports') => C!ok(reports'[i].outcome)
    <3>1. CASE i \in 1..n
      BY <3>1, <2>1, <2>3, <2>7, <2>8
    <3>2. CASE i = n + 1
      BY <3>2, <2>3, <2>6, <2>7
    <3> QED BY <3>1, <3>2, <2>3, <2>7
  <2> QED BY <2>3, <2>7, <2>9 DEF ComposedInv, C!Pending
<1> QED BY <1>1, <1>2, <1>3, <1>4 DEF C!Next

\* ComposedPolicy answers that the composition holds exactly when each stage
\* passes on what the request binds, for requests of any stages and length: the
\* loop neither skips a stage nor takes a verdict from another one, and an
\* error does not pass.
THEOREM VerdictsAreConjunctions ==
  ASSUME \A s \in Stages : s.x \in C!Binding
  PROVE  C!Spec => []VerdictIsConjunction
<1>1. ComposedInv => VerdictIsConjunction
  <2> SUFFICES ASSUME ComposedInv, response \in {"ok", "failed"}
               PROVE  VerdictIsConjunction
    BY DEF VerdictIsConjunction, C!VerdictIsConjunction
  <2> DEFINE n == Len(reports)
             good(i) == C!Passes(request.policies[i], reports[i])
  <2>1. /\ reports \in Seq(Reports) /\ reports # <<>>
        /\ \A i \in 1..n : C!ok(reports[i].outcome)
                            <=> PassesOn(request.input, request.policies[i], reports[i].outcome)
        /\ \A i \in 1..n : i < n => C!ok(reports[i].outcome)
        /\ (response = "ok") <=> C!allOK
        /\ C!allOK => n = Len(request.policies)
    BY DEF ComposedInv
  <2>2. n \in Nat /\ n # 0 /\ DOMAIN reports = 1..n
    BY <2>1
  <2>3. \A i : good(i) <=> PassesOn(request.input, request.policies[i], reports[i].outcome)
    BY DEF C!Passes, PassesOn
  <2> HIDE DEF good
  <2>4. \A i \in 1..n : (C!ok(reports[i].outcome) <=> good(i)) /\ (i < n => good(i))
    BY <2>1, <2>3
  <2>5. C!allOK <=> C!ok(reports[n].outcome)
    BY <2>1, <2>2 DEF C!allOK
  <2>6. (response = "ok") <=> (n = Len(request.policies) /\ good(n))
    BY <2>1, <2>2, <2>4, <2>5
  <2>7. \A i \in 1..(n - 1) : good(i)
    BY <2>2, <2>4
  <2> QED BY <2>6, <2>7 DEF good, VerdictIsConjunction, C!VerdictIsConjunction
<1> QED BY <1>1, InitialComposed, NextComposed, PTL DEF C!Spec

-----------------------------------------------------------------------------
(* The sandbox *)

Runs == [mb : Megabytes, timeout : BOOLEAN, module : {"ok", "garbled", "unlinkable"},
         pages : {0} \cup {B!memLimitMBToPages(mb) : mb \in Megabytes}, expired : BOOLEAN, closed : BOOLEAN]

SandboxInv ==
  /\ run \in Runs
  /\ guest \in {"none", "running", "ended"}
  /\ run.expired => run.timeout
  /\ guest # "ended" => ~run.closed
  /\ B!TimeoutReported

LEMMA InitialSandbox == B!Init => SandboxInv
<1> SUFFICES ASSUME B!Init PROVE SandboxInv
  OBVIOUS
<1>1. run \in Runs /\ run.expired = FALSE /\ run.closed = FALSE /\ guest = "none"
  BY Zenon DEF B!Init, Runs
<1> QED BY <1>1 DEF SandboxInv, B!TimeoutReported

LEMMA StillOpen == SandboxInv /\ guest # "ended" => run.closed = FALSE
<1> SUFFICES ASSUME SandboxInv, guest # "ended" PROVE run.closed = FALSE
  BY Zenon
<1>1. run.closed \in BOOLEAN
  BY DEF SandboxInv, Runs
<1>2. ~run.closed
  BY DEF SandboxInv
<1> QED BY <1>1, <1>2

LEMMA RunEnded ==
  ASSUME NEW err, SandboxInv, B!Ended(err), err.deadline \in BOOLEAN, err.deadline => run.expired
  PROVE  SandboxInv'
<1>1. (B!trapFromErr(err) = "timeout") <=> err.deadline
  BY DEF B!trapFromErr
<1>2. /\ run' = [run EXCEPT !.closed = err.deadline]
      /\ guest' = "ended" /\ outcome'.trap = B!trapFromErr(err) /\ outcome'.status = "error"
  BY DEF B!Ended
<1>3. /\ run'.closed <=> err.deadline
      /\ run'.expired <=> run.expired
      /\ run'.timeout <=> run.timeout
  BY <1>2 DEF SandboxInv, Runs
<1>4. run' \in Runs
  BY <1>2 DEF SandboxInv, Runs
<1>5. run.expired => run.timeout
  BY DEF SandboxInv
<1>6. /\ (outcome'.trap = "timeout") <=> run'.closed
      /\ run'.closed => run'.timeout /\ outcome'.status = "error"
  BY <1>1, <1>2, <1>3, <1>5
<1>7. run'.closed \in BOOLEAN
  BY <1>4 DEF Runs
<1>8. (outcome'.trap = "timeout") = run'.closed
  BY <1>6, <1>7
<1>9. B!TimeoutReported'
  BY <1>6, <1>8, Zenon DEF B!TimeoutReported
<1> QED BY <1>2, <1>3, <1>4, <1>5, <1>9 DEF SandboxInv

LEMMA NextSandbox ==
  ASSUME SandboxInv, [B!Next]_(B!vars)
  PROVE  SandboxInv'
<1>1. CASE UNCHANGED B!vars
  BY <1>1 DEF SandboxInv, B!vars, B!TimeoutReported
<1>2. CASE B!Start
  <2>1. CASE run.module = "garbled"
    <3>1. /\ run' = run /\ guest' = "ended" /\ outcome'.trap = "none" /\ outcome'.status = "error"
          /\ guest = "none"
      BY <1>2, <2>1 DEF B!Start
    <3>2. run.closed = FALSE
      BY <3>1, StillOpen
    <3> QED BY <3>1, <3>2, Zenon DEF SandboxInv, B!TimeoutReported
  <2>2. CASE run.module # "garbled"
    <3>1. /\ run' = [run EXCEPT !.pages = B!memLimitMBToPages(run.mb)] /\ guest' = "running"
          /\ guest = "none"
      BY <1>2, <2>2 DEF B!Start
    <3>2. /\ run' \in Runs /\ run'.expired = run.expired /\ run'.timeout = run.timeout
          /\ run'.closed = run.closed
      BY <3>1 DEF SandboxInv, Runs
    <3> QED BY <3>1, <3>2 DEF SandboxInv, B!TimeoutReported
  <2> QED BY <2>1, <2>2
<1>3. CASE B!Unlinked
  BY <1>3, RunEnded, Zenon DEF B!Unlinked
<1>4. CASE B!GuestWrites
  BY <1>4 DEF SandboxInv, B!GuestWrites, B!TimeoutReported
<1>5. CASE B!GuestReturns
  <2>1. /\ run' = run /\ guest' = "ended" /\ outcome'.trap = "none" /\ guest = "running"
    BY <1>5 DEF B!GuestReturns
  <2>2. run.closed = FALSE
    BY <2>1, StillOpen
  <2> QED BY <2>1, <2>2, Zenon DEF SandboxInv, B!TimeoutReported
<1>6. CASE B!GuestExits
  BY <1>6, RunEnded, Zenon DEF B!GuestExits
<1>7. CASE B!GuestTraps
  BY <1>7, RunEnded, Zenon DEF B!GuestTraps
<1>8. CASE B!Deadline
  <2>1. /\ run' = [run EXCEPT !.expired = TRUE] /\ guest' = guest /\ guest = "running" /\ run.timeout
    BY <1>8 DEF B!Deadline
  <2>2. /\ run' \in Runs /\ run'.timeout = run.timeout /\ run'.closed = run.closed
    BY <2>1, Zenon DEF SandboxInv, Runs
  <2> QED BY <2>1, <2>2 DEF SandboxInv, B!TimeoutReported
<1>9. CASE B!Close
  BY <1>9, RunEnded, Zenon DEF B!Close
<1> QED BY <1>1, <1>2, <1>3, <1>4, <1>5, <1>6, <1>7, <1>8, <1>9 DEF B!Next

\* A run that its deadline closes is reported as a timeout, and no other is,
\* whichever of the guest, the deadline and Close comes first (sandbox).
THEOREM TimeoutsReported == B!Spec => []TimeoutReported
<1>1. SandboxInv => TimeoutReported
  BY DEF SandboxInv, TimeoutReported
<1> QED BY <1>1, InitialSandbox, NextSandbox, PTL DEF B!Spec

-----------------------------------------------------------------------------
(* The router *)

cost(i) == O!tierConfigs[i].baseCostMs
name(i) == O!tierConfigs[i].tier

Counts == [count : Nat, latency : Nat, samples : Nat]
Calls == [pc : {"count", "latency", "samples", "done"},
          query : UNION {Queries[c] : c \in Caller},
          sel : [tier : O!Tier \cup {"none"}, why : {"error", "hint", "auto", "fallback"}],
          alternatives : UNION {[S -> SUBSET {"accuracy", "cost", "constraints", "nesting",
                                              "quantifiers"}] : S \in SUBSET O!Tier}]
Loads == [pc : {"count", "samples", "latency", "done"}, at : Nat, tiers : Seq(Counts),
          count : Nat, samples : Nat, total : Nat]

\* The callers between adding the cost of a tier and counting it.
Between(t) == {c \in Caller : caller[c].pc = "samples" /\ caller[c].sel.tier = t}

CountersInv ==
  /\ counters \in [O!Tier -> Counts]
  /\ caller \in [Caller -> {O!Idle} \cup Calls]
  /\ \A c \in Caller : caller[c].pc \in {"count", "latency", "samples"} =>
       caller[c].sel.tier \in O!Tier
  /\ \A t \in O!Tier : counters[t].latency
       = O!configForTier(t).baseCostMs * (counters[t].samples + Cardinality(Between(t)))

StatsInv ==
  /\ stats = O!Idle \/ stats \in Loads
  /\ stats.pc \in {"count", "samples", "latency"} =>
       stats.at \in 1..3 /\ Len(stats.tiers) = stats.at - 1
  /\ stats.pc = "latency" =>
       counters[name(stats.at)].latency >= stats.samples * cost(stats.at)
  /\ stats.pc # "idle" =>
       /\ Len(stats.tiers) <= 3
       /\ \A i \in 1..Len(stats.tiers) :
            stats.tiers[i].latency >= stats.tiers[i].samples * cost(i)

LEMMA Cascade ==
  /\ DOMAIN O!tierConfigs = 1..3 /\ Len(O!tierConfigs) = 3
  /\ O!Tier = {"cel", "wazero", "z3"}
  /\ \A i \in 1..3 : name(i) \in O!Tier /\ cost(i) \in Nat
  /\ \A t \in O!Tier : O!configForTier(t).baseCostMs \in Nat
  /\ \A i \in 1..3 : O!configForTier(name(i)).baseCostMs = cost(i)
<1>1. DOMAIN O!tierConfigs = 1..3 /\ Len(O!tierConfigs) = 3
  BY DEF O!tierConfigs
<1>2. /\ O!tierConfigs[1].tier = "cel" /\ O!tierConfigs[2].tier = "wazero" /\ O!tierConfigs[3].tier = "z3"
      /\ O!tierConfigs[1].baseCostMs = 5 /\ O!tierConfigs[2].baseCostMs = 50
      /\ O!tierConfigs[3].baseCostMs = 200
  BY DEF O!tierConfigs
<1>3. O!Tier = {"cel", "wazero", "z3"}
  BY <1>1, <1>2 DEF O!Tier
<1>4. \A i \in 1..3 : i = 1 \/ i = 2 \/ i = 3
  OBVIOUS
<1>5. ASSUME NEW i \in 1..3 PROVE O!configForTier(name(i)) = O!tierConfigs[i]
  <2> DEFINE P(j) == O!tierConfigs[j].tier = name(i)
  <2>1. \A j \in 1..3 : P(j) <=> j = i
    BY <1>2, <1>4 DEF name
  <2>2. (CHOOSE j \in 1..3 : P(j)) = i
    BY <2>1
  <2> QED BY <2>2, <1>1, Zenon DEF O!configForTier
<1>6. \A i \in 1..3 : name(i) \in O!Tier /\ cost(i) \in Nat
  BY <1>2, <1>3, <1>4 DEF name, cost
<1>7. \A t \in O!Tier : \E i \in 1..3 : t = name(i)
  BY <1>2, <1>3 DEF name
<1>8. \A i \in 1..3 : O!configForTier(name(i)).baseCostMs = cost(i)
  BY <1>5 DEF cost
<1> QED BY <1>1, <1>3, <1>6, <1>7, <1>8

LEMMA Selection ==
  ASSUME NEW q
  PROVE  /\ O!selectTier(q) \in [tier : O!Tier \cup {"none"}, why : {"error", "hint", "auto", "fallback"}]
         /\ O!selectTier(q).why # "error" => O!selectTier(q).tier \in O!Tier
<1> DEFINE sel == O!selectTier(q)
           good == {i \in DOMAIN O!tierConfigs :
                      /\ O!accuracy(q) <= O!tierConfigs[i].accuracyCeiling
                      /\ ~O!overBudget(O!tierConfigs[i], q)
                      /\ O!fits(O!tierConfigs[i], q)}
           first == CHOOSE i \in good : \A j \in good : i <= j
<1>1. good # {} => first \in good
  <2> SUFFICES ASSUME good # {} PROVE first \in good
    OBVIOUS
  <2>1. good \subseteq {1, 2, 3}
    BY Cascade
  <2> HIDE DEF good
  <2>2. \E m \in good : \A y \in good : m <= y
    <3>1. CASE 1 \in good
      BY <3>1, <2>1
    <3>2. CASE 1 \notin good /\ 2 \in good
      BY <3>2, <2>1
    <3>3. CASE good = {3}
      BY <3>3
    <3> QED BY <3>1, <3>2, <3>3, <2>1, Zenon
  <2> QED BY <2>2
<1>2. \/ O!autoSelect(q) = [tier |-> "z3", why |-> "fallback"]
      \/ good # {} /\ O!autoSelect(q) = [tier |-> name(first), why |-> "auto"]
  BY DEF O!autoSelect, name
<1>3. good \subseteq 1..3
  BY Cascade
<1> HIDE DEF good, first
<1>4. good # {} => name(first) \in O!Tier
  BY <1>1, <1>3, Cascade, Zenon
<1>5. \/ sel = [tier |-> "none", why |-> "error"]
      \/ q.hint \in O!Tier /\ sel = [tier |-> q.hint, why |-> "hint"]
      \/ sel = O!autoSelect(q)
  BY Zenon DEF O!selectTier
<1> HIDE DEF sel
<1>6. \E t, w : /\ sel = [tier |-> t, why |-> w]
                /\ t \in O!Tier \cup {"none"} /\ w \in {"error", "hint", "auto", "fallback"}
                /\ w # "error" => t \in O!Tier
  BY <1>2, <1>4, <1>5, Cascade
<1>7. /\ sel \in [tier : O!Tier \cup {"none"}, why : {"error", "hint", "auto", "fallback"}]
      /\ sel.why # "error" => sel.tier \in O!Tier
  BY <1>6
<1> QED BY <1>7 DEF sel

LEMMA InitialCounters == IsFiniteSet(Caller) /\ O!Init => CountersInv /\ StatsInv
<1> SUFFICES ASSUME O!Init PROVE CountersInv /\ StatsInv
  OBVIOUS
<1>1. \A t : Between(t) = {}
  BY DEF O!Init, Between, O!Idle
<1>2. \A t : Cardinality(Between(t)) = 0
  BY <1>1, FS_EmptySet
<1>3. \A t \in O!Tier : counters[t].latency = 0 /\ counters[t].samples = 0
  BY DEF O!Init
<1>4. \A t \in O!Tier : counters[t].latency
        = O!configForTier(t).baseCostMs * (counters[t].samples + Cardinality(Between(t)))
  <2> SUFFICES ASSUME NEW t \in O!Tier, NEW k, k = O!configForTier(t).baseCostMs
               PROVE  counters[t].latency = k * (counters[t].samples + Cardinality(Between(t)))
    OBVIOUS
  <2>1. k \in Nat
    BY Cascade
  <2>2. k * (0 + 0) = 0
    BY <2>1
  <2> QED BY <1>2, <1>3, <2>2
<1>5. counters \in [O!Tier -> Counts]
  BY DEF O!Init, Counts
<1>6. caller \in [Caller -> {O!Idle} \cup Calls] /\ \A c \in Caller : caller[c].pc = "idle"
  <2>1. caller = [c \in Caller |-> O!Idle]
    BY DEF O!Init
  <2>2. O!Idle.pc = "idle"
    BY DEF O!Idle
  <2> QED BY <2>1, <2>2
<1>7. stats = O!Idle /\ stats.pc = "idle"
  BY DEF O!Init, O!Idle
<1>8. CountersInv
  BY <1>4, <1>5, <1>6 DEF CountersInv
<1> QED BY <1>7, <1>8 DEF StatsInv

\* A Route call that does not enter or leave the step between adding the cost
\* and counting it.
LEMMA BetweenKept ==
  ASSUME NEW c \in Caller, CountersInv, NEW r \in Calls,
         caller' = [caller EXCEPT ![c] = r],
         caller[c].pc # "samples", r.pc # "samples"
  PROVE  \A t : Between(t)' = Between(t)
  BY DEF Between, CountersInv

LEMMA SelectStep ==
  ASSUME CountersInv, NEW c \in Caller, NEW q \in Queries[c], O!Select(c, q)
  PROVE  CountersInv'
<1> DEFINE sel == O!selectTier(q)
           r == [pc |-> IF sel.why = "error" THEN "done" ELSE "count", query |-> q, sel |-> sel,
                 alternatives |-> IF sel.why = "error" THEN [t \in {} |-> {}]
                                  ELSE O!computeAlternatives(q, sel.tier)]
           R == {"accuracy", "cost", "constraints", "nesting", "quantifiers"}
<1>1. caller' = [caller EXCEPT ![c] = r] /\ counters' = counters /\ caller[c].pc \in {"idle", "done"}
  BY DEF O!Select
<1>2. \A tc : O!reasons(tc, q) \in SUBSET R
  BY DEF O!reasons
<1>3. r.alternatives \in UNION {[S -> SUBSET R] : S \in SUBSET O!Tier}
  <2>1. [t \in {} |-> {}] \in [{} -> SUBSET R]
    OBVIOUS
  <2>2. O!computeAlternatives(q, sel.tier) \in [O!Tier \ {sel.tier} -> SUBSET R]
    BY <1>2 DEF O!computeAlternatives
  <2>3. \E S \in SUBSET O!Tier : r.alternatives \in [S -> SUBSET R]
    BY <2>1, <2>2, Zenon
  <2> QED BY <2>3
<1>4. r \in Calls /\ r.pc \in {"done", "count"} /\ (r.pc = "count" => r.sel.tier \in O!Tier)
  BY <1>3, Selection DEF Calls
<1> HIDE DEF r
<1>5. \A t : Between(t)' = Between(t)
  BY <1>1, <1>4, BetweenKept, Zenon
<1>6. caller' \in [Caller -> {O!Idle} \cup Calls]
  BY <1>1, <1>4 DEF CountersInv
<1>7. \A d \in Caller : caller'[d].pc \in {"count", "latency", "samples"} => caller'[d].sel.tier \in O!Tier
  BY <1>1, <1>4 DEF CountersInv
<1> QED BY <1>1, <1>5, <1>6, <1>7 DEF CountersInv

LEMMA OneMore == \A k, n \in Nat : k * (n + 1) = k * n + k
  OBVIOUS

LEMMA RecordStep ==
  ASSUME IsFiniteSet(Caller), CountersInv, NEW c \in Caller, O!recordRoute(c)
  PROVE  /\ CountersInv'
         /\ \A t \in O!Tier : counters'[t].latency >= counters[t].latency
<1>0. PICK t : t = caller[c].sel.tier
  OBVIOUS
<1> DEFINE k == O!configForTier(t).baseCostMs
           b == Cardinality(Between(t))
           to(pc) == caller' = [caller EXCEPT ![c].pc = pc]
<1>1. caller[c].pc \in {"count", "latency", "samples"}
  BY DEF O!recordRoute
<1>2. caller[c] \in Calls /\ t \in O!Tier
  BY <1>0, <1>1 DEF CountersInv, O!Idle
<1>3. /\ k \in Nat /\ counters[t] \in Counts /\ counters[t].latency = k * (counters[t].samples + b)
      /\ \A u \in O!Tier : counters[u] \in Counts
  BY <1>2, Cascade DEF CountersInv
<1>4. \A u : IsFiniteSet(Between(u)) /\ Cardinality(Between(u)) \in Nat
  BY FS_Subset, FS_CardinalityType DEF Between
<1>5. ASSUME NEW pc \in {"latency", "samples", "done"}, to(pc)
      PROVE  /\ caller' \in [Caller -> {O!Idle} \cup Calls]
             /\ \A d \in Caller : caller'[d].pc \in {"count", "latency", "samples"}
                  => caller'[d].sel.tier \in O!Tier
             /\ caller'[c].pc = pc /\ caller'[c].sel.tier = t
             /\ \A d \in Caller \ {c} : caller'[d] = caller[d]
  <2>1. caller' = [caller EXCEPT ![c] = [caller[c] EXCEPT !.pc = pc]]
    BY <1>5
  <2>2. /\ [caller[c] EXCEPT !.pc = pc] \in Calls
        /\ [caller[c] EXCEPT !.pc = pc].pc = pc
        /\ [caller[c] EXCEPT !.pc = pc].sel = caller[c].sel
    BY <1>2 DEF Calls
  <2> HIDE DEF to
  <2> QED BY <1>0, <1>2, <2>1, <2>2 DEF CountersInv
<1>6. \A u : u # t /\ (\E pc \in {"latency", "samples", "done"} : to(pc)) => Between(u)' = Between(u)
  BY <1>0, <1>5 DEF Between
<1> HIDE DEF to
<1>7. CASE /\ caller[c].pc = "count" /\ to("latency")
           /\ counters' = [counters EXCEPT ![t].count = @ + 1]
  <2>1. Between(t)' = Between(t)
    BY <1>0, <1>5, <1>7 DEF Between
  <2>2. /\ counters' \in [O!Tier -> Counts]
        /\ \A u \in O!Tier : /\ counters'[u].latency = counters[u].latency
                             /\ counters'[u].samples = counters[u].samples
    BY <1>2, <1>3, <1>7 DEF CountersInv, Counts
  <2>3. \A u : Between(u)' = Between(u)
    BY <1>6, <1>7, <2>1
  <2>4. \A u \in O!Tier : counters'[u].latency
          = O!configForTier(u).baseCostMs * (counters'[u].samples + Cardinality(Between(u)'))
    BY <2>2, <2>3 DEF CountersInv
  <2> QED BY <1>3, <1>5, <1>7, <2>2, <2>4 DEF CountersInv, Counts
<1>8. CASE /\ caller[c].pc = "latency" /\ to("samples")
           /\ counters' = [counters EXCEPT ![t].latency = @ + k]
  <2>1. Between(t)' = Between(t) \cup {c} /\ c \notin Between(t)
    BY <1>0, <1>5, <1>8 DEF Between
  <2>2. Cardinality(Between(t)') = b + 1
    BY <1>4, <2>1, FS_AddElement, Zenon
  <2>3. /\ counters' \in [O!Tier -> Counts]
        /\ counters'[t].latency = counters[t].latency + k /\ counters'[t].samples = counters[t].samples
        /\ \A u \in O!Tier \ {t} : counters'[u] = counters[u]
    BY <1>2, <1>3, <1>8 DEF CountersInv, Counts
  <2>4. k * (counters[t].samples + (b + 1)) = k * (counters[t].samples + b) + k
    <3>1. counters[t].samples + b \in Nat /\ counters[t].samples + (b + 1) = (counters[t].samples + b) + 1
      BY <1>3, <1>4 DEF Counts
    <3> QED BY <1>3, <3>1, OneMore
  <2>5. \A u \in O!Tier : counters'[u].latency
          = O!configForTier(u).baseCostMs * (counters'[u].samples + Cardinality(Between(u)'))
    <3> SUFFICES ASSUME NEW u \in O!Tier
                 PROVE  counters'[u].latency
                          = O!configForTier(u).baseCostMs * (counters'[u].samples + Cardinality(Between(u)'))
      OBVIOUS
    <3>1. CASE u = t
      BY <1>3, <2>2, <2>3, <2>4, <3>1
    <3>2. CASE u # t
      BY <1>6, <1>8, <2>3, <3>2 DEF CountersInv
    <3> QED BY <3>1, <3>2
  <2>6. \A u \in O!Tier : counters'[u].latency >= counters[u].latency
    BY <1>3, <2>3 DEF Counts
  <2> QED BY <1>5, <1>8, <2>3, <2>5, <2>6 DEF CountersInv
<1>9. CASE /\ caller[c].pc = "samples" /\ to("done")
           /\ counters' = [counters EXCEPT ![t].samples = @ + 1]
  <2>1. Between(t)' = Between(t) \ {c} /\ c \in Between(t)
    BY <1>0, <1>5, <1>9 DEF Between
  <2>2. Cardinality(Between(t)') = b - 1
    BY <1>4, <2>1, FS_RemoveElement, Zenon
  <2>3. /\ counters' \in [O!Tier -> Counts]
        /\ counters'[t].latency = counters[t].latency /\ counters'[t].samples = counters[t].samples + 1
        /\ \A u \in O!Tier \ {t} : counters'[u] = counters[u]
    BY <1>2, <1>3, <1>9 DEF CountersInv, Counts
  <2>4. counters[t].samples + 1 + (b - 1) = counters[t].samples + b
    BY <1>3, <1>4 DEF Counts
  <2>5. \A u \in O!Tier : counters'[u].latency
          = O!configForTier(u).baseCostMs * (counters'[u].samples + Cardinality(Between(u)'))
    <3> SUFFICES ASSUME NEW u \in O!Tier
                 PROVE  counters'[u].latency
                          = O!configForTier(u).baseCostMs * (counters'[u].samples + Cardinality(Between(u)'))
      OBVIOUS
    <3>1. CASE u = t
      BY <1>3, <2>2, <2>3, <2>4, <3>1
    <3>2. CASE u # t
      BY <1>6, <1>9, <2>3, <3>2 DEF CountersInv
    <3> QED BY <3>1, <3>2
  <2>6. \A u \in O!Tier : counters'[u].latency >= counters[u].latency
    BY <1>3, <2>3 DEF Counts
  <2> QED BY <1>5, <1>9, <2>3, <2>5, <2>6 DEF CountersInv
<1> QED BY <1>0, <1>7, <1>8, <1>9, Zenon DEF O!recordRoute, to

LEMMA AtLeast == \A k, n, b \in Nat : k * (n + b) >= n * k
<1> SUFFICES ASSUME NEW k \in Nat, NEW n \in Nat, NEW b \in Nat PROVE k * (n + b) >= n * k
  OBVIOUS
<1>1. k * (n + b) = k * n + k * b
  OBVIOUS
<1>2. k * b \in Nat /\ k * n = n * k /\ n * k \in Nat
  OBVIOUS
<1> QED BY <1>1, <1>2

\* The tier just loaded is added to the answer.
LEMMA ReportStep ==
  ASSUME stats \in Loads, stats.at \in 1..3, Len(stats.tiers) = stats.at - 1,
         \A i \in 1..Len(stats.tiers) : stats.tiers[i].latency >= stats.tiers[i].samples * cost(i),
         NEW avg \in Nat, NEW n \in Nat, avg >= n * cost(stats.at),
         stats'.tiers = Append(stats.tiers, [count |-> stats.count, latency |-> avg, samples |-> n]),
         stats' \in Loads, stats'.at = stats.at + 1,
         stats'.pc = IF stats.at = Len(O!tierConfigs) THEN "done" ELSE "count"
  PROVE  StatsInv'
<1> DEFINE new == [count |-> stats.count, latency |-> avg, samples |-> n]
           m == stats.at
<1>1. new \in Counts /\ stats.tiers \in Seq(Counts)
  BY DEF Loads, Counts
<1>2. /\ Len(stats'.tiers) = m /\ stats'.tiers[m] = new
      /\ \A i \in 1..(m - 1) : stats'.tiers[i] = stats.tiers[i]
  BY <1>1
<1>3. \A i \in 1..m : stats'.tiers[i].latency >= stats'.tiers[i].samples * cost(i)
  <2> SUFFICES ASSUME NEW i \in 1..m
               PROVE  stats'.tiers[i].latency >= stats'.tiers[i].samples * cost(i)
    OBVIOUS
  <2>1. CASE i = m
    BY <1>2, <2>1
  <2>2. CASE i \in 1..(m - 1)
    BY <1>2, <2>2
  <2> QED BY <2>1, <2>2
<1>4. stats'.pc = "done" \/ (stats'.pc = "count" /\ stats'.at \in 1..3)
  BY Cascade
<1>5. /\ stats'.pc # "latency" /\ stats'.pc # "samples" /\ stats'.pc # "idle"
      /\ stats'.at - 1 = m /\ m <= 3
  BY <1>4
<1> HIDE DEF m, new
<1> QED BY <1>2, <1>3, <1>4, <1>5 DEF StatsInv

LEMMA ReportedAnswer ==
  ASSUME stats \in Loads, NEW n \in Nat, NEW avg \in Nat
  PROVE  /\ O!reported(n, avg) \in Loads
         /\ O!reported(n, avg).at = stats.at + 1
         /\ O!reported(n, avg).pc = IF stats.at = Len(O!tierConfigs) THEN "done" ELSE "count"
         /\ O!reported(n, avg).tiers
              = Append(stats.tiers, [count |-> stats.count, latency |-> avg, samples |-> n])
<1>1. PICK a, p, x, d :
        /\ a = Append(stats.tiers, [count |-> stats.count, latency |-> avg, samples |-> n])
        /\ p = (IF stats.at = Len(O!tierConfigs) THEN "done" ELSE "count")
        /\ x = stats.total + stats.count /\ d = stats.at + 1
  BY Zenon
<1>2. [count |-> stats.count, latency |-> avg, samples |-> n] \in Counts
  BY DEF Counts, Loads
<1>3. a \in Seq(Counts) /\ x \in Nat /\ d \in Nat /\ p \in {"done", "count"}
  BY <1>1, <1>2 DEF Loads
<1>4. O!reported(n, avg) = [stats EXCEPT !.tiers = a, !.total = x, !.at = d, !.pc = p]
  BY <1>1 DEF O!reported
<1>5. /\ O!reported(n, avg) \in Loads /\ O!reported(n, avg).at = d
      /\ O!reported(n, avg).pc = p /\ O!reported(n, avg).tiers = a
  BY <1>3, <1>4, Zenon DEF Loads
<1> QED BY <1>1, <1>5

LEMMA LoadStep ==
  ASSUME IsFiniteSet(Caller), CountersInv, StatsInv, O!StatsLoad
  PROVE  StatsInv'
<1>0. PICK k, m : m = stats.at /\ k = counters[name(m)]
  OBVIOUS
<1>1. stats.pc \in {"count", "samples", "latency"}
  BY DEF O!StatsLoad
<1>2. /\ stats \in Loads /\ m \in 1..3 /\ Len(stats.tiers) = m - 1
      /\ \A i \in 1..Len(stats.tiers) : stats.tiers[i].latency >= stats.tiers[i].samples * cost(i)
  BY <1>0, <1>1 DEF StatsInv, O!Idle
<1>3. name(m) \in O!Tier /\ cost(m) \in Nat /\ k \in Counts
  BY <1>0, <1>2, Cascade DEF CountersInv
<1>4. counters' = counters /\ caller' = caller
  BY DEF O!StatsLoad
<1>5. k = counters[O!tierConfigs[stats.at].tier]
  BY <1>0 DEF name
<1>6. CASE stats.pc = "count" /\ stats' = [stats EXCEPT !.count = k.count, !.pc = "samples"]
  <2>1. /\ stats' \in Loads /\ stats'.pc = "samples" /\ stats'.at = m /\ stats'.tiers = stats.tiers
    BY <1>0, <1>2, <1>3, <1>6, Zenon DEF Loads, Counts
  <2> QED BY <2>1, <1>2 DEF StatsInv
<1>7. CASE stats.pc = "samples" /\ k.samples # 0
           /\ stats' = [stats EXCEPT !.samples = k.samples, !.pc = "latency"]
  <2>1. /\ stats' \in Loads /\ stats'.pc = "latency" /\ stats'.at = m /\ stats'.tiers = stats.tiers
        /\ stats'.samples = k.samples
    BY <1>0, <1>2, <1>3, <1>7, Zenon DEF Loads, Counts
  <2>2. PICK b \in Nat : k.latency = cost(m) * (k.samples + b)
    <3>1. IsFiniteSet(Between(name(m)))
      BY FS_Subset DEF Between
    <3>2. Cardinality(Between(name(m))) \in Nat
      BY <3>1, FS_CardinalityType
    <3> QED BY <1>0, <1>2, <1>3, <3>2, Cascade DEF CountersInv
  <2>3. k.samples \in Nat
    BY <1>3 DEF Counts
  <2>4. k.latency >= k.samples * cost(m)
    BY <1>3, <2>2, <2>3, AtLeast
  <2>5. counters'[name(stats'.at)].latency >= stats'.samples * cost(stats'.at)
    BY <1>0, <1>4, <2>1, <2>4
  <2> QED BY <2>1, <2>5, <1>2 DEF StatsInv
<1>8. CASE stats.pc = "samples" /\ k.samples = 0 /\ stats' = O!reported(0, 0)
  <2>1. 0 >= 0 * cost(stats.at)
    BY <1>0, <1>3
  <2>2. /\ stats' \in Loads /\ stats'.at = stats.at + 1
        /\ stats'.pc = IF stats.at = Len(O!tierConfigs) THEN "done" ELSE "count"
        /\ stats'.tiers = Append(stats.tiers, [count |-> stats.count, latency |-> 0, samples |-> 0])
    BY <1>2, <1>8, ReportedAnswer
  <2> QED BY <1>0, <1>2, <2>1, <2>2, ReportStep
<1>9. CASE stats.pc = "latency" /\ stats' = O!reported(stats.samples, k.latency)
  <2>1. k.latency \in Nat /\ stats.samples \in Nat
    BY <1>2, <1>3 DEF Counts, Loads
  <2>2. /\ stats' \in Loads /\ stats'.at = stats.at + 1
        /\ stats'.pc = IF stats.at = Len(O!tierConfigs) THEN "done" ELSE "count"
        /\ stats'.tiers = Append(stats.tiers, [count |-> stats.count, latency |-> k.latency,
                                               samples |-> stats.samples])
    BY <1>0, <1>2, <1>9, <2>1, ReportedAnswer
  <2>3. k.latency >= stats.samples * cost(stats.at)
    BY <1>0, <1>9 DEF StatsInv
  <2> QED BY <1>0, <1>2, <2>1, <2>2, <2>3, ReportStep
<1> QED BY <1>5, <1>6, <1>7, <1>8, <1>9 DEF O!StatsLoad

LEMMA NextCounters ==
  ASSUME IsFiniteSet(Caller), CountersInv, StatsInv, [O!Next]_(O!vars)
  PROVE  CountersInv' /\ StatsInv'
<1>1. ASSUME UNCHANGED <<counters, caller>> PROVE CountersInv'
  BY <1>1 DEF CountersInv, Between
<1>2. ASSUME UNCHANGED stats, \A t \in O!Tier : counters'[t].latency >= counters[t].latency, CountersInv'
      PROVE  StatsInv'
  <2>1. CASE stats.pc = "latency"
    <3>1. stats \in Loads /\ stats.at \in 1..3
      BY <2>1 DEF StatsInv, O!Idle
    <3>2. PICK t : t = name(stats.at) /\ t \in O!Tier /\ cost(stats.at) \in Nat
      BY <3>1, Cascade
    <3>3. counters[t].latency \in Nat /\ counters'[t].latency \in Nat /\ stats.samples \in Nat
      BY <3>1, <3>2, <1>2 DEF CountersInv, Counts, Loads
    <3>4. stats.samples * cost(stats.at) \in Nat /\ counters[t].latency >= stats.samples * cost(stats.at)
      BY <2>1, <3>2, <3>3 DEF StatsInv
    <3>5. counters'[t].latency >= stats.samples * cost(stats.at)
      BY <1>2, <3>2, <3>3, <3>4
    <3> QED BY <1>2, <3>2, <3>5 DEF StatsInv
  <2>2. CASE stats.pc # "latency"
    BY <1>2, <2>2 DEF StatsInv
  <2> QED BY <2>1, <2>2
<1>3. \A t \in O!Tier : counters[t].latency >= counters[t].latency
  BY DEF CountersInv, Counts
<1>4. CASE UNCHANGED O!vars
  BY <1>1, <1>2, <1>3, <1>4 DEF O!vars
<1>5. ASSUME NEW c \in Caller, O!recordRoute(c) PROVE CountersInv' /\ StatsInv'
  <2>1. UNCHANGED stats
    BY <1>5 DEF O!recordRoute
  <2> QED BY <1>2, <1>5, <2>1, RecordStep
<1>6. ASSUME NEW c \in Caller, NEW q \in Queries[c], O!Select(c, q) PROVE CountersInv' /\ StatsInv'
  <2>1. UNCHANGED <<counters, stats>>
    BY <1>6 DEF O!Select
  <2> QED BY <1>2, <1>3, <1>6, <2>1, SelectStep
<1>7. CASE O!StatsBegin
  <2>1. /\ UNCHANGED <<counters, caller>>
        /\ stats' = [pc |-> "count", at |-> 1, tiers |-> <<>>, count |-> 0, samples |-> 0, total |-> 0]
    BY <1>7 DEF O!StatsBegin
  <2>2. StatsInv'
    BY <2>1 DEF StatsInv, Loads
  <2> QED BY <1>1, <2>1, <2>2
<1>8. CASE O!StatsLoad
  <2>1. UNCHANGED <<counters, caller>>
    BY <1>8 DEF O!StatsLoad
  <2> QED BY <1>1, <1>8, <2>1, LoadStep
<1> QED BY <1>4, <1>5, <1>6, <1>7, <1>8 DEF O!Next

\* An average latency that Stats reports is never below the cost of its tier,
\* although the counters are loaded one by one while any finite number of
\* callers add to them: recordRoute adds the latency before it counts the sample,
\* and Stats loads them in the other order.
THEOREM AveragesNeverUnder ==
  ASSUME IsFiniteSet(Caller)
  PROVE  O!Spec => []AverageNeverUnder
<1>1. StatsInv => AverageNeverUnder
  <2> SUFFICES ASSUME StatsInv, stats.pc # "idle"
               PROVE  \A i \in DOMAIN stats.tiers :
                        stats.tiers[i].latency >= stats.tiers[i].samples * O!tierConfigs[i].baseCostMs
    BY DEF AverageNeverUnder, O!AverageNeverUnder
  <2>1. stats.tiers \in Seq(Counts)
    BY DEF StatsInv, Loads, O!Idle
  <2>2. DOMAIN stats.tiers = 1..Len(stats.tiers)
    BY <2>1
  <2> QED BY <2>2 DEF StatsInv, cost
<1> QED BY <1>1, InitialCounters, NextCounters, PTL DEF O!Spec
=============================================================================
