---------------------------- MODULE PolicyImport ----------------------------
(***************************************************************************)
(* internal/policyimport: the translation of one Cedar policy (cedar.go)   *)
(* or of the rules of one Rego module (rego.go) to a CEL expression, and   *)
(* the meaning of the three languages on the translated fragment (Cedar,   *)
(* Rego and CEL are libraries).  Expressions are trees; a value is one of  *)
(* the strings of Value, "err" is a Cedar or CEL evaluation error and also *)
(* what Rego calls undefined.                                              *)
(***************************************************************************)
EXTENDS Naturals, Sequences, FiniteSets, SequencesExt, TLC

CONSTANTS Policies,    \* the sources that may be submitted
          Documents    \* the requests they are evaluated on

VARIABLES policy, result

vars == <<policy, result>>

Value == {"true", "false", "1", "2"}
Bool(b) == IF b THEN "true" ELSE "false"
IsBool(v) == v \in {"true", "false"}

Unsupported == [ok |-> FALSE]
Cel(c) == [ok |-> TRUE, cel |-> c]
Lit(v) == [op |-> "lit", v |-> v]
Infix(op, l, r) == [op |-> op, l |-> l, r |-> r]

\* The terms of a conjunction or disjunction, joined left to right.
joined(op, terms, none) ==
  IF terms = <<>> THEN Lit(none)
  ELSE FoldLeft(LAMBDA acc, t : Infix(op, acc, t), Head(terms), Tail(terms))

translated(s) == \A i \in DOMAIN s : s[i].ok
cels(s) == [i \in DOMAIN s |-> s[i].cel]

--------------------------------------------------------------------------
(* cedar.go *)

\* Operators rendered as one CEL operator.
BinaryOperator == [equals |-> "==", notEquals |-> "!=", lessThan |-> "<",
                   and |-> "&&", or |-> "||"]

\* An entity variable against a reference, and the caller's ancestor list.
same(var, e) == [op |-> "sameEntity", var |-> var, entity |-> e]
ancestor(var, e) == [op |-> "ancestor", var |-> var, entity |-> e]
typeIs(var, t) == [op |-> "typeIs", var |-> var, type |-> t]

scope(var, s) ==
  CASE s.op = "all"  -> Cel(Lit("true"))
    [] s.op = "eq"   -> Cel(same(var, s.entity))
    [] s.op = "in"   -> Cel(Infix("||", same(var, s.entity), ancestor(var, s.entity)))
    [] s.op = "is"   -> Cel(typeIs(var, s.type))
    [] s.op = "isIn" -> Cel(Infix("&&", typeIs(var, s.type),
                          Infix("||", same(var, s.entity), ancestor(var, s.entity))))
    [] OTHER -> Unsupported

actionScope(s) ==
  CASE s.op \in {"all", "eq", "in"} -> scope("action", s)
    [] s.op = "inSet" ->
         Cel(joined("||", [i \in DOMAIN s.entities |-> same("action", s.entities[i])], "false"))
    [] OTHER -> Unsupported

RECURSIVE node(_)

binary(l, r, op) ==
  IF node(l).ok /\ node(r).ok THEN Cel(Infix(op, node(l).cel, node(r).cel)) ELSE Unsupported

ifThenElse(e) ==
  IF node(e.cond).ok /\ node(e.then).ok /\ node(e.else).ok
  THEN Cel([op |-> "?:", cond |-> node(e.cond).cel, then |-> node(e.then).cel,
            else |-> node(e.else).cel])
  ELSE Unsupported

node(e) ==
  CASE e.op = "value"  -> Cel(Lit(e.v))
    [] e.op = "access" -> Cel([op |-> "select", attr |-> e.attr])
    [] e.op = "has"    -> Cel([op |-> "has", attr |-> e.attr])
    [] e.op \in DOMAIN BinaryOperator -> binary(e.l, e.r, BinaryOperator[e.op])
    [] e.op = "not"    -> IF node(e.arg).ok THEN Cel([op |-> "!", arg |-> node(e.arg).cel])
                          ELSE Unsupported
    [] e.op = "in"     -> Cel(Infix("||", same(e.var, e.entity),
                                    [op |-> "selectOfString", entity |-> e.entity]))
    [] e.op = "is"     -> Cel(typeIs(e.var, e.type))
    [] e.op = "contains" -> binary(e.l, e.r, "contains")
    [] e.op = "if"     -> ifThenElse(e)
    [] OTHER -> Unsupported

condition(c) ==
  LET body == node(c.body)
  IN  IF c.kind = "unless" /\ body.ok THEN Cel([op |-> "!", arg |-> body.cel]) ELSE body

TranslateCedar(p) ==
  LET terms == <<scope("principal", p.principal), actionScope(p.action)>>
               \o [i \in DOMAIN p.conditions |-> condition(p.conditions[i])]
  IN  IF translated(terms) THEN Cel(joined("&&", cels(terms), "true")) ELSE Unsupported

--------------------------------------------------------------------------
(* rego.go *)

regoInfixToCEL == ("==" :> "==") @@ ("!=" :> "!=") @@ ("<" :> "<") @@ ("+" :> "+")

term(t) ==
  CASE t.op = "value" -> Cel(Lit(t.v))
    [] t.op = "ref" /\ t.root = "input" /\ t.static -> Cel([op |-> "select", attr |-> t.attr])
    [] OTHER -> Unsupported

call(e) ==
  IF e.infix \notin DOMAIN regoInfixToCEL \/ ~term(e.l).ok \/ ~term(e.r).ok THEN Unsupported
  ELSE Cel(Infix(regoInfixToCEL[e.infix], term(e.l).cel, term(e.r).cel))

\* Mutant: drops a negation.
exprPositive(e) ==
  CASE e.with \/ e.op = "quantifier" -> Unsupported
    [] e.op = "call" -> call(e)
    [] OTHER -> term(e.term)

expr(e) ==
  LET body == IF e.op = "call" THEN call(e) ELSE term(e.term)
  IN  IF e.with \/ e.op = "quantifier" THEN Unsupported
      ELSE IF body.ok /\ e.negated THEN Cel([op |-> "!", arg |-> body.cel])
      ELSE body

body(b) ==
  LET terms == [i \in DOMAIN b |-> expr(b[i])]
  IN  IF translated(terms) THEN Cel(joined("&&", cels(terms), "true")) ELSE Unsupported

rule(r) ==
  IF r.args \/ r.key \/ r.else \/ r.head # "true" THEN Unsupported ELSE body(r.body)

TranslateRego(p) ==
  LET named == SelectSeq(p.rules, LAMBDA r : r.name = p.ruleName)
      defaults == SelectSeq(named, LAMBDA r : r.default)
      rules == SelectSeq(named, LAMBDA r : ~r.default)
      bodies == [i \in DOMAIN rules |-> rule(rules[i])]
  IN  IF \/ \E i \in DOMAIN defaults :
              defaults[i].args \/ defaults[i].key \/ defaults[i].head = "true"
         \/ rules = <<>>
         \/ ~translated(bodies)
      THEN Unsupported
      ELSE Cel(joined("||", cels(bodies), "false"))

--------------------------------------------------------------------------

Init == policy \in Policies /\ result = [ok |-> FALSE, idle |-> TRUE]

Translate ==
  /\ "idle" \in DOMAIN result
  /\ result' = IF policy.lang = "cedar" THEN TranslateCedar(policy) ELSE TranslateRego(policy)
  /\ UNCHANGED policy

Next == Translate

Spec == Init /\ [][Next]_vars

--------------------------------------------------------------------------
(* What the policies mean.  A document has entities for principal and      *)
(* action (uid, type, ancestors and whether the caller hands CEL a string  *)
(* or a map with its fields) and the attributes of context or input.       *)

Attr(d, a) == IF d.attrs[a] = "missing" THEN "err" ELSE d.attrs[a]
Flip(v) == IF IsBool(v) THEN Bool(v = "false") ELSE "err"
Compared(op, l, r) ==
  IF "err" \in {l, r} THEN "err"
  ELSE CASE op = "==" -> Bool(l = r)
         [] op = "!=" -> Bool(l # r)
         [] op = "<" -> IF {l, r} \subseteq {"1", "2"} THEN Bool(l = "1" /\ r = "2") ELSE "err"
         [] OTHER -> "err"

InEntity(x, e) == x.uid = e \/ e \in x.ancestors

\* Cedar evaluates && and || from the left and stops at a decisive operand.
RECURSIVE Cedar(_, _)
Cedar(e, d) ==
  CASE e.op = "value"  -> e.v
    [] e.op = "access" -> Attr(d, e.attr)
    [] e.op = "has"    -> Bool(d.attrs[e.attr] # "missing")
    [] e.op = "not"    -> Flip(Cedar(e.arg, d))
    [] e.op \in {"and", "or"} ->
         LET l == Cedar(e.l, d) IN
         IF ~IsBool(l) THEN "err"
         ELSE IF l = Bool(e.op = "or") THEN l
         ELSE IF IsBool(Cedar(e.r, d)) THEN Cedar(e.r, d) ELSE "err"
    [] e.op \in {"equals", "notEquals", "lessThan"} ->
         Compared(BinaryOperator[e.op], Cedar(e.l, d), Cedar(e.r, d))
    [] e.op = "in" -> Bool(InEntity(d[e.var], e.entity))
    [] e.op = "is" -> Bool(d[e.var].type = e.type)
    [] e.op = "if" -> LET c == Cedar(e.cond, d) IN
                      IF IsBool(c) THEN Cedar(IF c = "true" THEN e.then ELSE e.else, d) ELSE "err"
    [] OTHER -> "err"

InScope(x, s) ==
  CASE s.op = "all" -> TRUE
    [] s.op = "eq" -> x.uid = s.entity
    [] s.op = "in" -> InEntity(x, s.entity)
    [] s.op = "is" -> x.type = s.type
    [] s.op = "isIn" -> x.type = s.type /\ InEntity(x, s.entity)
    [] OTHER -> \E i \in DOMAIN s.entities : InEntity(x, s.entities[i])

\* A policy with an erroneous condition is skipped: it does not match.
CedarMatches(p, d) ==
  /\ InScope(d.principal, p.principal)
  /\ InScope(d.action, p.action)
  /\ \A i \in DOMAIN p.conditions :
       Cedar(p.conditions[i].body, d) = Bool(p.conditions[i].kind = "when")

RegoTerm(t, d) == IF t.op = "value" THEN t.v ELSE Attr(d, t.attr)
RegoValue(e, d) == IF e.op = "call" THEN Compared(e.infix, RegoTerm(e.l, d), RegoTerm(e.r, d))
                   ELSE RegoTerm(e.term, d)

\* A statement holds unless it is false or undefined; its negation if it is.
RegoAllows(p, d) ==
  \E i \in DOMAIN p.rules :
    /\ p.rules[i].name = p.ruleName /\ ~p.rules[i].default
    /\ \A j \in DOMAIN p.rules[i].body :
         LET e == p.rules[i].body[j]
         IN  (RegoValue(e, d) \in {"false", "err"}) = e.negated

Decision(p, d) == IF p.lang = "cedar" THEN CedarMatches(p, d) ELSE RegoAllows(p, d)

\* CEL: && and || are commutative, a decisive operand absorbs an error.
RECURSIVE Eval(_, _)
Eval(c, d) ==
  CASE c.op = "lit" -> c.v
    [] c.op = "select" -> Attr(d, c.attr)
    [] c.op = "has" -> Bool(d.attrs[c.attr] # "missing")
    [] c.op = "!" -> Flip(Eval(c.arg, d))
    [] c.op \in {"&&", "||"} ->
         LET vs == {Eval(c.l, d), Eval(c.r, d)} IN
         IF Bool(c.op = "||") \in vs THEN Bool(c.op = "||")
         ELSE IF vs = {Bool(c.op = "&&")} THEN Bool(c.op = "&&") ELSE "err"
    [] c.op \in {"==", "!=", "<", "+"} -> Compared(c.op, Eval(c.l, d), Eval(c.r, d))
    [] c.op = "?:" -> LET v == Eval(c.cond, d) IN
                      IF IsBool(v) THEN Eval(IF v = "true" THEN c.then ELSE c.else, d) ELSE "err"
    [] c.op = "sameEntity" -> Bool(d[c.var].form = "string" /\ d[c.var].uid = c.entity)
    [] c.op = "ancestor" -> Bool(c.entity \in d[c.var].ancestors \cup {d[c.var].uid})
    [] OTHER -> Bool(d[c.var].type = c.type)

\* Compilation rejects a field of a string and a method that does not exist.
RECURSIVE Compiles(_, _)
Compiles(c, d) ==
  CASE c.op \in {"ancestor", "typeIs"} -> d[c.var].form = "map"
    [] c.op \in {"selectOfString", "contains"} -> FALSE
    [] c.op = "!" -> Compiles(c.arg, d)
    [] c.op = "?:" -> Compiles(c.cond, d) /\ Compiles(c.then, d) /\ Compiles(c.else, d)
    [] c.op \in {"&&", "||", "==", "!=", "<", "+"} -> Compiles(c.l, d) /\ Compiles(c.r, d)
    [] OTHER -> TRUE

Evaluate(c, d) == IF Compiles(c, d) THEN Eval(c, d) ELSE "err"

--------------------------------------------------------------------------
(* The inputs on which the translation can be exact *)

RECURSIVE Parts(_)
Parts(e) ==
  {e} \cup CASE e.op \in DOMAIN BinaryOperator \cup {"contains"} -> Parts(e.l) \cup Parts(e.r)
             [] e.op = "not" -> Parts(e.arg)
             [] e.op = "if" -> Parts(e.cond) \cup Parts(e.then) \cup Parts(e.else)
             [] OTHER -> {}

CedarParts(p) == UNION {Parts(p.conditions[i].body) : i \in DOMAIN p.conditions}

RegoStatements(p) ==
  UNION {{p.rules[i].body[j] : j \in DOMAIN p.rules[i].body} :
           i \in {i \in DOMAIN p.rules : p.rules[i].name = p.ruleName /\ ~p.rules[i].default}}

\* The entity is given in the form its scope is translated for.
Fits(x, s) ==
  CASE s.op = "all" -> TRUE
    [] s.op = "eq" -> x.form = "string"
    [] s.op = "inSet" -> x.form = "string" /\ x.ancestors = {}
    [] OTHER -> x.form = "map"

\* Every part of the source has a value, conditions and statements a Boolean.
Total(p, d) ==
  IF p.lang = "rego" THEN \A e \in RegoStatements(p) : IsBool(RegoValue(e, d))
  ELSE /\ Fits(d.principal, p.principal) /\ Fits(d.action, p.action)
       /\ \A i \in DOMAIN p.conditions : IsBool(Cedar(p.conditions[i].body, d))
       /\ \A e \in CedarParts(p) :
            /\ e.op \notin {"in", "contains"}
            /\ e.op = "is" => d[e.var].form = "map"
            /\ Cedar(e, d) # "err"

--------------------------------------------------------------------------
(* Properties *)

TypeOK ==
  /\ policy \in Policies
  /\ result.ok \in BOOLEAN
  /\ result.ok => "cel" \in DOMAIN result

\* The emitted expression mirrors the source's decision on every document on
\* which each part of the source has a value and each entity has the form the
\* translated scope reads: evaluation order, negation, unless and the joining
\* of rules and terms do not matter there.
MirrorsDecision ==
  result.ok => \A d \in Documents :
    Total(policy, d) => Evaluate(result.cel, d) = Bool(Decision(policy, d))

Supported(e) == e.op \in DOMAIN BinaryOperator
                         \cup {"value", "access", "has", "not", "in", "is", "contains", "if"}
SupportedStatement(e) ==
  /\ ~e.with /\ e.op # "quantifier"
  /\ e.op = "call" => e.infix \in DOMAIN regoInfixToCEL /\ term(e.l).ok /\ term(e.r).ok
  /\ e.op = "term" => term(e.term).ok

\* Fail-closed: a policy that was translated has no construct outside the
\* supported subset anywhere, also not in a part that evaluation skips.
FailClosed ==
  result.ok =>
    IF policy.lang = "cedar" THEN \A e \in CedarParts(policy) : Supported(e)
    ELSE \A e \in RegoStatements(policy) : SupportedStatement(e)

\* A conjunction of attributes and comparisons of them, without negation,
\* disjunction or conditional, never matches in CEL where the source does
\* not, also when attributes are missing or entities have another form.
ConjunctionsNeverGrant ==
  LET plain == IF policy.lang = "rego"
               THEN Cardinality({i \in DOMAIN policy.rules : ~policy.rules[i].default}) = 1
                    /\ \A e \in RegoStatements(policy) : ~e.negated
               ELSE /\ \A i \in DOMAIN policy.conditions : policy.conditions[i].kind = "when"
                    /\ \A e \in CedarParts(policy) :
                         /\ e.op \notin {"or", "not", "if"}
                         /\ e.op \in {"equals", "notEquals"} => "and" \notin {e.l.op, e.r.op}
  IN  result.ok /\ plain =>
        \A d \in Documents : Evaluate(result.cel, d) = "true" => Decision(policy, d)

\* "a CEL string that provably mirrors the source policy's decision"
\* (policyimport.go:11), on every document.
MirrorsEverywhere ==
  result.ok => \A d \in Documents :
    (Evaluate(result.cel, d) = "true") = Decision(policy, d)
=============================================================================
