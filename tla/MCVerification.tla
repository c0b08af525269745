--------------------------- MODULE MCVerification ---------------------------
(***************************************************************************)
(* The verification services, each on its own: a behaviour chooses one of  *)
(* them and leaves the variables of the others alone.                      *)
(***************************************************************************)
EXTENDS Services, WasmModule, TLC

CONSTANTS Part,       \* the services to check
          MaxExplored, DefaultDepth, MaxDepth

VARIABLES part, req, res, policy, result

--------------------------------------------------------------------------
(* The requests to the symbolic executor: modules with one function over   *)
(* combinations of tests, arms and continuations, with every wrap-around,  *)
(* nested and local-carrying case; modules with several functions behind   *)
(* imports; and requests that disagree with themselves.                    *)

\* Tokens; an operand is written in n LEB128 groups.
N(op) == [op |-> op]
V(op, v, n) == [op |-> op, v |-> v, bytes |-> Encode(v, n)]
Get(i) == V("get", i, 1)
Const(v) == V("const32", v, 2)

\* What decides, on the stack, before the branch.
Tests == {<<Get(0)>>, <<Get(0), N("eqz32")>>,
          <<Get(0), Get(1), N("lt_u")>>, <<Get(0), Const(-2), N("lt_s")>>,
          <<Get(0), V("const32", 3, 2), N("add32"), Get(1), N("ge_s")>>,
          <<V("const32", 6, 3), Const(1), N("gt_s")>>,
          <<Get(1), Get(0), N("sub32"), V("tee", 2, 1), Const(1), N("le_u")>>}

Nested == <<Get(1), N("if"), Const(1), N("else"), Get(0), Const(3), N("mul32"), N("end")>>

Arms == {<<Const(-1)>>, <<Get(0), Get(1), N("mul32")>>, Nested,
         <<Const(3), Const(3), N("add32"), V("tee", 2, 2), Get(2), N("ne")>>,
         <<Get(2)>>}

Ends == {<<>>, <<Get(0), N("add32")>>, <<V("set", 2, 1), Get(2), N("if"), N("end"), Get(2)>>}

Bodies == {t \o <<N("if")>> \o a \o <<N("else")>> \o b \o <<N("end")>> \o z \o <<N("end")>> :
             t \in Tests, a \in Arms, b \in Arms, z \in Ends}

Sec(id, items) == [id |-> id, count |-> Len(items), items |-> items]
Fn(name, i) == [kind |-> "function", name |-> name, index |-> i]
I32 == [params |-> <<"i32", "i32">>, results |-> <<"i32">>]

\* One exported function with one local.
Single(b) == <<Sec("types", <<I32>>), Sec("functions", <<[type |-> 0]>>),
               Sec("exports", <<Fn("f", 0)>>),
               Sec("codes", <<[locals |-> <<"i32">>, body |-> b]>>)>>

Ask(m, d, p, a) ==
  [body |-> "one", module |-> m, wasmBinary |-> <<>>, entrypoint |-> "f", entry |-> "",
   maxDepth |-> d, prune |-> p, args |-> a]

Executions == {Ask(Single(b), d, p, a) :
                 b \in Bodies, d \in {0, 7}, p \in BOOLEAN,
                 a \in {<<[kind |-> "nil"], [kind |-> "int", n |-> 5]>>, <<>>}}

\* Modules whose index spaces differ: two functions behind imports.
I64 == [params |-> <<"i64">>, results |-> <<"i64">>]
Constant(v) == [locals |-> <<>>, body |-> <<V("const32", v, 1), N("end")>>]
Word64(v, n) == [locals |-> <<"i64">>,
  body |-> <<Get(0), V("const64", v, n), N("lt_u"), N("if"), V("const64", v, n),
             Get(0), N("mul64"), N("else"), Get(1), N("end"), N("end")>>]

Linked(imports, exports, code) ==
  <<Sec("exports", exports), Sec("imports", imports), Sec("types", <<I32, I64>>),
    Sec("functions", <<[type |-> 0], [type |-> 1]>>), Sec("codes", <<Constant(1), code>>)>>

Imports == {<<>>, <<[kind |-> "function"]>>, <<[kind |-> "memory"], [kind |-> "function"]>>,
            <<[kind |-> "table"]>>, <<Bad>>}

Exports == {<<Fn("f", 0)>>, <<Fn("g", 0), Fn("f", 1)>>, <<Fn("f", 2)>>, <<Fn("f", 0), Fn("f", 1)>>,
            <<[kind |-> "memory", name |-> "f", index |-> 0], Fn("f", 1)>>,
            <<[kind |-> "memory", name |-> "f", index |-> 1]>>, <<Fn("f", 3)>>}

Codes == {Word64(v, 3) : v \in {-16, -9, -3, 1, 15}} \cup {Word64(v, 2) : v \in {-8, -3, 7}}
         \cup {[locals |-> <<"f32">>, body |-> <<Get(0), N("end")>>],
               [locals |-> <<>>, body |-> <<Get(0), N("nop"), N("end")>>],
               [locals |-> <<>>, body |-> <<Get(0), N("if"), Get(0), N("end")>>],
               [locals |-> <<>>, body |-> <<Get(0), N("else"), N("end")>>],
               [locals |-> <<>>, body |-> <<N("end"), N("end")>>],
               [locals |-> <<>>, body |-> <<Get(0), V("const64", 1, 4), N("end")>>],
               [locals |-> <<>>, body |-> <<Get(0), Get(0), N("lt_s"), N("eqz32"), N("end")>>]}

Resolutions == {Ask(Linked(i, x, c), 0, p, <<>>) :
                  i \in Imports, x \in Exports, c \in Codes, p \in BOOLEAN}

One == Single(<<Get(0), N("if"), Get(1), N("else"), Get(0), N("end"), N("end")>>)
Asks == [body : {"one", "trailing"}, module : {One, <<>>}, wasmBinary : {One, <<>>, Single(<<>>)},
         entrypoint : {"f", "", "g"}, entry : {"f", ""}, maxDepth : {-1, 0, 2, 21},
         prune : {FALSE}, args : {<<>>, <<[kind |-> "bad"]>>}]

MCRequests == Executions \cup Resolutions \cup Asks

--------------------------------------------------------------------------
(* The Cedar policies and Rego modules that are translated, and the        *)
(* documents they are compared on: expressions of depth two over two       *)
(* attributes that may be missing or have another type, and entities in    *)
(* both forms a caller can hand to CEL.                                    *)

Un(op, e) == [op |-> op, arg |-> e]
Bi(op, l, r) == [op |-> op, l |-> l, r |-> r]

Leaves == {[op |-> "value", v |-> "false"], [op |-> "access", attr |-> "a"],
           [op |-> "access", attr |-> "b"], [op |-> "has", attr |-> "a"]}
Small == Leaves \cup {[op |-> "value", v |-> "1"], [op |-> "like"],
                      [op |-> "is", var |-> "principal", type |-> "User"],
                      [op |-> "in", var |-> "principal", entity |-> "admins"]}
Exprs1 == Small \cup {Un("not", e) : e \in Leaves}
          \cup {Bi(op, l, r) : op \in {"and", "or", "equals", "lessThan", "contains"},
                               l \in Leaves, r \in Small}
Exprs2 == Exprs1 \cup {Un("not", e) : e \in Exprs1}
          \cup {Bi(op, l, r) : op \in {"and", "or", "notEquals"}, l \in Exprs1, r \in Leaves}
          \cup {[op |-> "if", cond |-> c, then |-> l, else |-> [op |-> "like"]] : c, l \in Leaves}
          \cup {[op |-> "if", cond |-> c, then |-> l, else |-> r] : c, l, r \in Leaves}

All == [op |-> "all"]
Scopes == {All, [op |-> "eq", entity |-> "alice"], [op |-> "in", entity |-> "admins"],
           [op |-> "is", type |-> "User"], [op |-> "isIn", type |-> "User", entity |-> "alice"]}
ActionScopes == {All, [op |-> "eq", entity |-> "read"], [op |-> "in", entity |-> "all"],
                 [op |-> "inSet", entities |-> <<"read", "all">>], [op |-> "inSet", entities |-> <<>>],
                 [op |-> "is", type |-> "Action"]}

Cond(k, e) == [kind |-> k, body |-> e]
CedarOf(p, a, cs) == [lang |-> "cedar", principal |-> p, action |-> a, conditions |-> cs]

CedarPolicies ==
  {CedarOf(p, a, <<>>) : p \in Scopes, a \in ActionScopes}
  \cup {CedarOf(All, All, <<Cond(k, e)>>) : k \in {"when", "unless"}, e \in Exprs2}
  \cup {CedarOf(p, All, <<Cond("when", e), Cond(k, f)>>) :
          p \in Scopes, k \in {"when", "unless"}, e \in Leaves, f \in Small}

Ref(root, st, a) == [op |-> "ref", root |-> root, static |-> st, attr |-> a]
Terms == {[op |-> "value", v |-> "1"], Ref("input", TRUE, "a"), Ref("input", TRUE, "b")}
Odd == {Ref("data", TRUE, "a"), Ref("input", FALSE, "a"), [op |-> "var"]}
St(neg, w, op, rest) == [negated |-> neg, with |-> w, op |-> op] @@ rest
Statements ==
  {St(n, FALSE, "term", [term |-> t]) : n \in BOOLEAN, t \in Terms \cup Odd}
  \cup {St(n, FALSE, "call", [infix |-> o, l |-> l, r |-> r]) :
          n \in BOOLEAN, o \in {"==", "<", "+", ":="}, l \in Terms, r \in Terms}
  \cup {St(FALSE, TRUE, "term", [term |-> t]) : t \in Terms}
  \cup {St(FALSE, FALSE, "quantifier", [term |-> [op |-> "var"]])}

Rule(nm, def, other, head, b) ==
  [name |-> nm, default |-> def, args |-> other = "args", key |-> other = "key",
   else |-> other = "else", head |-> head, body |-> b]
RegoOf(rs) == [lang |-> "rego", ruleName |-> "allow", rules |-> rs]
Deny == Rule("allow", TRUE, "", "false", <<>>)
Simple == {St(n, FALSE, "term", [term |-> Ref("input", TRUE, a)]) : n \in BOOLEAN, a \in {"a", "b"}}

RegoPolicies ==
  {RegoOf(<<Deny, Rule("allow", FALSE, "", "true", <<s, t>>)>>) : s \in Statements, t \in Simple}
  \cup {RegoOf(<<Rule("allow", FALSE, "", "true", <<s>>), Rule("other", FALSE, "key", "1", <<>>),
                 Rule("allow", FALSE, "", "true", <<t>>)>>) : s \in Statements, t \in Simple}
  \cup {RegoOf(<<Rule("allow", d, o, h, <<>>)>>) :
          d \in BOOLEAN, o \in {"", "args", "key", "else"}, h \in {"true", "false", "1"}}

MCPolicies == CedarPolicies \cup RegoPolicies

Entity(u, t, anc, f) == [uid |-> u, type |-> t, ancestors |-> anc, form |-> f]
Forms == {"string", "map"}
Principals == {Entity("alice", "User", anc, f) : anc \in {{}, {"admins"}}, f \in Forms}
              \cup {Entity("admins", "Group", {}, f) : f \in Forms}
Actions == {Entity("read", "Action", {}, "string"), Entity("read", "Action", {"all"}, "string"),
            Entity("read", "Action", {"all"}, "map"), Entity("write", "Action", {}, "map")}

MCDocuments ==
  [principal : Principals, action : Actions,
   attrs : [{"a", "b"} -> {"missing", "true", "false", "1"}]]

--------------------------------------------------------------------------
(* What the other services are given.                                      *)

Plain == [constraints |-> 0, nesting |-> 0, quantifiers |-> FALSE, cost |-> 0,
          accuracy |-> 0, hint |-> ""]
MCQueries ==
  [c \in Caller |-> IF c = "c2" THEN {Plain} ELSE
     {[Plain EXCEPT !.constraints = n, !.cost = k] : n \in {20, 101}, k \in {0, 4, 60}}
     \cup {[Plain EXCEPT !.quantifiers = TRUE, !.accuracy = a] : a \in {0, 96, 101}}
     \cup {[Plain EXCEPT !.nesting = 4, !.cost = k, !.hint = h] :
             k \in {-1, 60}, h \in {"z3", "bad"}}]

Stage(kind, x, blank) == [kind |-> kind, x |-> x, blank |-> blank]
MCStages == {Stage("cel", x, FALSE) : x \in {"true", "false", "absent"}}
            \cup {Stage("cel", "true", TRUE), Stage("smt", "absent", FALSE),
                  Stage("smt", "absent", TRUE), Stage("other", "absent", FALSE)}
            \cup {Stage("wasm", x, FALSE) : x \in {"true", "false", "absent"}}

MCMegabytes == 0..(2^(WordBits - MegaBits) + 1)

--------------------------------------------------------------------------
S == INSTANCE SymbolicExecutor WITH Requests <- MCRequests
P == INSTANCE PolicyImport WITH Policies <- MCPolicies, Documents <- MCDocuments

symbolicVars == <<req, res>>
importVars == <<policy, result>>
routerVars == <<counters, caller, stats>>
composedVars == <<request, reports, response>>
sandboxVars == <<run, guest, out, outcome>>
verificationVars == <<part, symbolicVars, importVars, routerVars, composedVars, sandboxVars, vars>>

\* A service that was not chosen stays in one state.
Chosen(name, init, dormant) == IF part = name THEN init ELSE dormant

VerificationInit ==
  /\ part \in Part
  /\ Chosen("symbolic", S!Init, req = Ask(<<>>, 0, FALSE, <<>>) /\ res = S!None)
  /\ Chosen("import", P!Init, policy = RegoOf(<<>>) /\ result = [ok |-> FALSE, idle |-> TRUE])
  /\ O!Init
  /\ Chosen("composed", C!Init, /\ request = [policies |-> <<>>, input |-> "absent"]
                                /\ reports = <<>> /\ response = C!Pending)
  /\ Chosen("sandbox", B!Init,
       /\ run = [mb |-> 0, timeout |-> FALSE, module |-> "ok", pages |-> 1, expired |-> FALSE,
                 closed |-> FALSE]
       /\ guest = "ended" /\ out = [cap |-> 0, buf |-> <<>>, written |-> <<>>]
       /\ outcome = [status |-> "ok", exit |-> 0, trap |-> "none"])
  /\ Init

VerificationNext ==
  /\ part' = part
  /\ \/ /\ part = "symbolic" /\ S!Next
        /\ UNCHANGED <<importVars, routerVars, composedVars, sandboxVars, vars>>
     \/ /\ part = "import" /\ P!Next
        /\ UNCHANGED <<symbolicVars, routerVars, composedVars, sandboxVars, vars>>
     \/ /\ part = "router" /\ O!Next
        /\ UNCHANGED <<symbolicVars, importVars, composedVars, sandboxVars, vars>>
     \/ /\ part = "composed" /\ C!Next
        /\ UNCHANGED <<symbolicVars, importVars, routerVars, sandboxVars, vars>>
     \/ /\ part = "sandbox" /\ B!Next
        /\ UNCHANGED <<symbolicVars, importVars, routerVars, composedVars, vars>>
     \/ /\ part = "registry" /\ Next
        /\ UNCHANGED <<symbolicVars, importVars, routerVars, composedVars, sandboxVars>>

\* No fair step of a service that was not chosen is enabled.
VerificationSpec ==
  /\ VerificationInit /\ [][VerificationNext]_verificationVars
  /\ WF_sandboxVars(B!Start) /\ WF_sandboxVars(B!Unlinked)
  /\ WF_sandboxVars(B!Deadline) /\ WF_sandboxVars(B!Close)
  /\ Fairness

--------------------------------------------------------------------------
(* The properties of the services *)

\* The variables of every service keep their types; among others the sandbox
\* never asks for a memory of zero pages.
VerificationTypeOK ==
  /\ part = "symbolic" => S!TypeOK
  /\ part = "import" => P!TypeOK
  /\ O!TypeOK /\ C!TypeOK /\ B!TypeOK /\ TypeOK

\* Pruning removes only the paths no input takes.
PruningExact == part = "symbolic" => S!PruningExact

\* Every input follows exactly one reported path, unless it is too deep.
PathsPartition == part = "symbolic" => S!PathsPartition

\* On its path every input gets the output the function returns.
OutputsMatch == part = "symbolic" => S!OutputsMatch

\* Every path explored is reported or counted as pruned.
ExploredAccounts == part = "symbolic" => S!ExploredAccounts

\* Nothing outside the supported subset is translated.
FailClosed == part = "import" => P!FailClosed

\* A translated conjunction never matches where the policy does not.
ConjunctionsNeverGrant == part = "import" => P!ConjunctionsNeverGrant

\* The expression mirrors the policy where every part of it has a value.
MirrorsDecision == part = "import" => P!MirrorsDecision

\* A tier that was passed over is listed with the reason.
SkippedTierHasReason == O!SkippedTierHasReason

\* The captured output is a prefix of what the guest wrote.
OutputIsPrefix == B!OutputIsPrefix

\* A run with a timeout ends.
RunEnds == B!RunEnds

--------------------------------------------------------------------------
(* What comments of the code say of the services and the models refute *)

\* The translation mirrors the policy on every document.
MirrorsEverywhere == part = "import" => P!MirrorsEverywhere

\* No tier is slower than the caller's budget.
BudgetKept == O!BudgetKept

\* The average of a tier is the cost of the tier.
AverageIsCost == O!AverageIsCost

\* A link error is no trap.
LinkErrorIsNoTrap == B!LinkErrorIsNoTrap

\* The guest may use the memory it was allowed.
PagesHoldLimit == B!PagesHoldLimit
=============================================================================
