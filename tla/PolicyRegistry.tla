--------------------------- MODULE PolicyRegistry ---------------------------
(***************************************************************************)
(* The rule registry of internal/policy/policyrule.go: Register under the  *)
(* write lock, Evaluate under the read lock for as long as the rules run,  *)
(* and Prefetch, whose goroutine evaluates while the caller goes on and    *)
(* awaits the decision later.  sync.RWMutex holds new readers back while a *)
(* writer waits.                                                           *)
(***************************************************************************)
EXTENDS Naturals, Sequences, FiniteSets

CONSTANTS Call,      \* Prefetch calls
          Rules,     \* what rules may do: decide ("allow", "deny"), "defer",
                     \* have no hook ("none"), or never return ("hang")
          MaxRules

VARIABLES rules,      \* registered so far, in order
          adding,     \* the Register call: "idle" or "waiting", and its rule
          call        \* [Call -> the goroutine, its result and the await;
                      \* early: cancelled before the result was sent]

vars == <<rules, adding, call>>

Deferred == "defer"
Decisions == {"allow", "deny"}
NoResult == "empty"

Init ==
  /\ rules = <<>>
  /\ adding = [pc |-> "idle", rule |-> Deferred]
  /\ call = [c \in Call |-> [pc |-> "new", at |-> 1, seen |-> <<>>, ch |-> NoResult,
                             done |-> FALSE, early |-> FALSE, await |-> "no",
                             answer |-> NoResult]]

Readers == {c \in Call : call[c].pc = "walking"}

Register(r) ==
  /\ adding.pc = "idle" /\ Len(rules) < MaxRules
  /\ adding' = [pc |-> "waiting", rule |-> r]
  /\ UNCHANGED <<rules, call>>

\* The writer gets the lock when no evaluation holds it.
RegisterLocked ==
  /\ adding.pc = "waiting" /\ Readers = {}
  /\ rules' = Append(rules, adding.rule)
  /\ adding' = [pc |-> "idle", rule |-> Deferred]
  /\ UNCHANGED call

Prefetch(c) ==
  /\ call[c].pc = "new"
  /\ call' = [call EXCEPT ![c].pc = "started"]
  /\ UNCHANGED <<rules, adding>>

\* Evaluate of the goroutine: a waiting writer goes first.
Evaluate(c) ==
  /\ call[c].pc = "started" /\ adding.pc # "waiting"
  /\ call' = [call EXCEPT ![c].pc = "walking", ![c].seen = rules]
  /\ UNCHANGED <<rules, adding>>

stuck(k) == k.at <= Len(rules) /\ rules[k.at] = "hang"

\* Mutant: the read lock is kept.
sendLocked(c, res) == call' = [call EXCEPT ![c].ch = res]

send(c, res) == call' = [call EXCEPT ![c].pc = "sent", ![c].ch = res]

\* Mutant: the answer is what the last rule decides.
WalkLast(c) ==
  LET k == call[c] IN
  /\ k.pc = "walking" /\ ~stuck(k)
  /\ IF k.at > Len(rules)
     THEN send(c, IF rules # <<>> /\ rules[Len(rules)] \in Decisions THEN rules[Len(rules)]
                  ELSE Deferred)
     ELSE call' = [call EXCEPT ![c].at = @ + 1]
  /\ UNCHANGED <<rules, adding>>

\* One rule; a rule without a hook is passed over, a deferral looks at the
\* context, and the end of the chain or of the context defers.
Walk(c) ==
  LET k == call[c] IN
  /\ k.pc = "walking" /\ ~stuck(k)
  /\ IF k.at > Len(rules) THEN send(c, Deferred)
     ELSE IF rules[k.at] \in Decisions THEN send(c, rules[k.at])
     ELSE IF rules[k.at] = Deferred /\ k.done THEN send(c, Deferred)
     ELSE call' = [call EXCEPT ![c].at = @ + 1]
  /\ UNCHANGED <<rules, adding>>

Cancel(c) ==
  /\ call[c].pc # "new" /\ ~call[c].done
  /\ call' = [call EXCEPT ![c].done = TRUE, ![c].early = call[c].pc # "sent"]
  /\ UNCHANGED <<rules, adding>>

Await(c) ==
  /\ call[c].pc # "new" /\ call[c].await = "no"
  /\ call' = [call EXCEPT ![c].await = "waiting"]
  /\ UNCHANGED <<rules, adding>>

\* The select of the closure: either case that is ready.
AwaitResult(c) ==
  /\ call[c].await = "waiting" /\ call[c].ch # NoResult
  /\ call' = [call EXCEPT ![c].await = "returned", ![c].answer = call[c].ch, ![c].ch = NoResult]
  /\ UNCHANGED <<rules, adding>>

AwaitDone(c) ==
  /\ call[c].await = "waiting" /\ call[c].done
  /\ call' = [call EXCEPT ![c].await = "returned", ![c].answer = Deferred]
  /\ UNCHANGED <<rules, adding>>

Next ==
  \/ \E r \in Rules : Register(r)
  \/ RegisterLocked
  \/ \E c \in Call : Prefetch(c) \/ Evaluate(c) \/ Walk(c) \/ Cancel(c) \/ Await(c)
                     \/ AwaitResult(c) \/ AwaitDone(c)

\* The scheduler runs the goroutine, the writer and the select; rules return.
Fairness ==
  /\ WF_vars(RegisterLocked)
  /\ \A c \in Call : /\ WF_vars(Evaluate(c)) /\ WF_vars(Walk(c))
                     /\ WF_vars(AwaitResult(c) \/ AwaitDone(c))

Spec == Init /\ [][Next]_vars /\ Fairness

--------------------------------------------------------------------------

TypeOK ==
  /\ rules \in UNION {[1..n -> Rules] : n \in 0..MaxRules}
  /\ adding \in [pc : {"idle", "waiting"}, rule : Rules \cup {Deferred}]
  /\ \A c \in Call : /\ call[c].pc \in {"new", "started", "walking", "sent"}
                     /\ call[c].at \in 1..(MaxRules + 1)
                     /\ call[c].answer \in Decisions \cup {Deferred, NoResult}

\* A decision is the one of the first rule that does not defer, among the
\* rules registered when the walk began; a deferral means that no rule
\* decides or that the context had ended.
FirstRuleDecides ==
  \A c \in Call :
    LET k == call[c]
        deciding == {i \in DOMAIN k.seen : k.seen[i] \in Decisions}
        first == k.seen[CHOOSE i \in deciding : \A j \in deciding : i <= j]
        given == IF k.await = "returned" THEN k.answer ELSE k.ch
    IN  given # NoResult =>
          IF given = Deferred THEN deciding = {} \/ k.done ELSE given = first

\* Rules are not added under a walk: what it reads is the chain it started on.
WalkIsIsolated == \A c \in Readers : call[c].seen = rules

Hangs == \E i \in DOMAIN rules : rules[i] = "hang"

\* A closure that is awaited returns with the decision or, once the context
\* has ended, without it, also when a rule never returns.
AwaitReturns ==
  \A c \in Call :
    /\ call[c].await = "waiting" ~> (call[c].await = "returned" \/ Hangs)
    /\ (call[c].await = "waiting" /\ call[c].done) ~> call[c].await = "returned"

\* A registration gets the lock if rules return: evaluations that arrive
\* later queue behind it.
RegisterReturns == (adding.pc = "waiting" /\ ~Hangs) ~> adding.pc = "idle"

\* "If ctx is cancelled before the decision resolves, the returned closure
\* reports a defer" (policyrule.go:156-157).
CancelDefers ==
  \A c \in Call : call[c].early /\ call[c].await = "returned" => call[c].answer = Deferred

\* "concurrent Register/Evaluate safe" (policyrule.go:104): also behind a rule
\* that does not return.
RegisterAlwaysReturns == adding.pc = "waiting" ~> adding.pc = "idle"
=============================================================================
