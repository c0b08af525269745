-------------------------- MODULE SymbolicExecutor --------------------------
(***************************************************************************)
(* Run and SymbolicHandler of internal/verify/symbolic.go.  An SMT-LIB     *)
(* expression is its meaning: a function from the assignments of the       *)
(* symbolic arguments to a bit vector (its unsigned value) or to a truth   *)
(* value, so that satisfiability is the existence of an assignment.  The   *)
(* solver itself is external.                                              *)
(***************************************************************************)
EXTENDS WasmModule

CONSTANTS MaxExplored,    \* maxSymbolicExplored
          DefaultDepth, MaxDepth,
          Requests

VARIABLES req, res

vars == <<req, res>>

None == [status |-> 0]

--------------------------------------------------------------------------
(* Values: known is {} or the one value of the constant *)

wasmIntegerWidth(typ) == IF typ = "i32" THEN Narrow ELSE Wide

Wrap(v, width) == Signed(v % 2^width, width)

typedConstant(v, bits, envs) ==
  [expr |-> [e \in envs |-> v % 2^bits], known |-> {Wrap(v, bits)},
   boolean |-> FALSE, bits |-> bits]

boolValue(expr, known) ==
  IF known = {} THEN [expr |-> expr, known |-> {}, boolean |-> TRUE, bits |-> 0]
  ELSE LET k == CHOOSE k \in known : TRUE
       IN  [expr |-> [e \in DOMAIN expr |-> k], known |-> {IF k THEN 1 ELSE 0},
            boolean |-> TRUE, bits |-> 0]

\* The SMT-LIB truth value of "this value is not zero".
condition(v) ==
  [e \in DOMAIN v.expr |->
     IF v.known # {} THEN v.known # {0}
     ELSE IF v.boolean THEN v.expr[e]
     ELSE v.expr[e] # 0]

Arithmetic == {"add32", "sub32", "mul32", "add64", "sub64", "mul64"}
Comparisons == {"eq", "ne", "lt_s", "lt_u", "gt_s", "gt_u", "le_s", "le_u", "ge_s", "ge_u"}

arithmeticWidth(op) == IF op \in {"add32", "sub32", "mul32"} THEN Narrow ELSE Wide

\* bvadd, bvsub and bvmul, and the sum the code computes of two constants.
raw(op, a, b) ==
  CASE op \in {"add32", "add64"} -> a + b
    [] op \in {"sub32", "sub64"} -> a - b
    [] OTHER -> a * b

wrappedArithmetic(op, a, b, bits) == Wrap(raw(op, a, b), bits)

ordered(op, a, b, ua, ub) ==
  CASE op = "eq" -> a = b      [] op = "ne" -> a # b
    [] op = "lt_s" -> a < b    [] op = "lt_u" -> ua < ub
    [] op = "gt_s" -> a > b    [] op = "gt_u" -> ua > ub
    [] op = "le_s" -> a <= b   [] op = "le_u" -> ua <= ub
    [] op = "ge_s" -> a >= b   [] OTHER -> ua >= ub

\* Two constants, signed as kept; the unsigned orders mask them first.
compare(op, a, b, bits) == ordered(op, a, b, a % 2^bits, b % 2^bits)

\* The solver's operator on two bit vectors.
comparisonOperator(op, ua, ub, bits) ==
  ordered(op, Signed(ua, bits), Signed(ub, bits), ua, ub)

--------------------------------------------------------------------------
(* One instruction on one symbolic state *)

Top(s) == s[Len(s)]
Pop(s, n) == SubSeq(s, 1, Len(s) - n)

done(s) == [ok |-> TRUE, state |-> s]
push(s, n, v) == done([s EXCEPT !.stack = Append(Pop(@, n), v)])

binary(s, in) ==
  LET b == Top(s.stack)
      a == s.stack[Len(s.stack) - 1]
      w == a.bits
      envs == DOMAIN a.expr
  IN  IF Len(s.stack) < 2 THEN Fail
      ELSE IF in.op \in Comparisons THEN
        IF w = 0 \/ w # b.bits THEN Fail
        ELSE push(s, 2, boolValue(
               [e \in envs |-> comparisonOperator(in.op, a.expr[e], b.expr[e], w)],
               {compare(in.op, x, y, w) : x \in a.known, y \in b.known}))
      ELSE IF w # arithmeticWidth(in.op) \/ b.bits # w THEN Fail
      ELSE IF a.known # {} /\ b.known # {} THEN
        push(s, 2, typedConstant(CHOOSE v \in
               {wrappedArithmetic(in.op, x, y, w) : x \in a.known, y \in b.known} : TRUE, w, envs))
      ELSE push(s, 2, [expr |-> [e \in envs |-> raw(in.op, a.expr[e], b.expr[e]) % 2^w],
                       known |-> {}, boolean |-> FALSE, bits |-> w])

eqz(s, bits) ==
  LET v == Top(s.stack)
  IN  IF s.stack = <<>> THEN Fail
      ELSE IF v.bits # bits THEN Fail
      ELSE push(s, 1, boolValue([e \in DOMAIN v.expr |-> v.expr[e] = 0],
                                {k = 0 : k \in v.known}))

setLocal(s, in) ==
  IF s.stack = <<>> \/ in.value >= Len(s.locals) THEN Fail
  ELSE done([s EXCEPT !.locals[in.value + 1] = Top(s.stack),
                      !.stack = IF in.op = "tee" THEN @ ELSE Pop(@, 1)])

executeInstruction(s, in, envs) ==
  CASE in.op = "get" -> IF in.value >= Len(s.locals) THEN Fail
                        ELSE push(s, 0, s.locals[in.value + 1])
    [] in.op \in {"set", "tee"} -> setLocal(s, in)
    [] in.op = "const32" -> push(s, 0, typedConstant(in.value, Narrow, envs))
    [] in.op = "const64" -> push(s, 0, typedConstant(in.value, Wide, envs))
    [] in.op = "eqz32" -> eqz(s, Narrow)
    [] in.op = "eqz64" -> eqz(s, Wide)
    [] in.op \in Comparisons \cup Arithmetic -> binary(s, in)
    [] in.op = "drop" -> IF s.stack = <<>> THEN Fail
                         ELSE done([s EXCEPT !.stack = Pop(@, 1)])
    [] OTHER -> Fail

--------------------------------------------------------------------------
(* The executor: every state through one instruction, then the next *)

feasible(constraints, envs) ==
  \E e \in envs : \A i \in DOMAIN constraints : constraints[i][e]

ran(states, x) == [ok |-> TRUE, states |-> states, exec |-> x]

RECURSIVE run(_, _, _)

\* Mutant: the else branch keeps the constraint of the then branch.
guardOnce(c, yes) == condition(c)

guard(c, yes) == [e \in DOMAIN c.expr |-> condition(c)[e] = yes]

branch(s, c, yes, code, x) ==
  LET candidate == [s EXCEPT !.constraints = Append(@, guard(c, yes))]
      x1 == [x EXCEPT !.explored = @ + 1]
  IN  IF x.explored >= MaxExplored THEN Fail
      ELSE IF x.prune /\ ~feasible(candidate.constraints, x.envs)
           THEN ran(<<>>, [x1 EXCEPT !.pruned = @ + 1])
      ELSE run(code, <<candidate>>, x1)

fork(s, in, x) ==
  LET c == Top(s.stack)
      popped == [s EXCEPT !.stack = Pop(@, 1)]
      yes == branch(popped, c, TRUE, in.then, x)
      no == branch(popped, c, FALSE, in.otherwise, yes.exec)
  IN  IF s.stack = <<>> THEN Fail
      ELSE IF ~yes.ok THEN Fail
      ELSE IF ~no.ok THEN Fail
      ELSE ran(yes.states \o no.states, no.exec)

RECURSIVE step(_, _, _, _)
step(in, states, next, x) ==
  IF states = <<>> THEN ran(next, x)
  ELSE LET s == [Head(states) EXCEPT !.depth = @ + 1]
           one == IF in.op = "if" THEN fork(s, in, x)
                  ELSE LET d == executeInstruction(s, in, x.envs)
                       IN  IF d.ok THEN ran(<<d.state>>, x) ELSE Fail
       IN  IF s.depth > x.maxDepth
           THEN step(in, Tail(states), next, [x EXCEPT !.pruned = @ + 1])
           ELSE IF ~one.ok THEN Fail
           ELSE step(in, Tail(states), next \o one.states, one.exec)

run(program, states, x) ==
  IF program = <<>> THEN ran(states, x)
  ELSE LET r == step(Head(program), states, <<>>, x)
       IN  IF r.ok THEN run(Tail(program), r.states, r.exec) ELSE Fail

--------------------------------------------------------------------------
(* The request: Run, and the handler around it *)

\* The current and the legacy name of one field; both, if given, must agree.
agreed(new, legacy, none) ==
  IF none \notin {new, legacy} /\ new # legacy THEN none
  ELSE IF new = none THEN legacy ELSE new

\* Parameters without a concrete argument are the symbols arg0, arg1, ...
unbound(fn, args) ==
  {i \in DOMAIN fn.params : i > Len(args) \/ (i <= Len(args) /\ args[i].kind = "nil")}

environments(fn, args) ==
  {e \in [unbound(fn, args) -> 0..(2^Wide - 1)] :
     \A i \in DOMAIN e : e[i] < 2^wasmIntegerWidth(fn.params[i])}

initialLocals(fn, args) ==
  LET envs == environments(fn, args)
      typ == fn.params \o fn.locals
      symbol(i) == [expr |-> [e \in envs |-> e[i]], known |-> {}, boolean |-> FALSE,
                    bits |-> wasmIntegerWidth(typ[i])]
  IN  [i \in DOMAIN typ |->
         IF i > Len(fn.params) THEN typedConstant(0, wasmIntegerWidth(typ[i]), envs)
         ELSE IF i \in unbound(fn, args) THEN symbol(i)
         ELSE typedConstant(args[i].n, wasmIntegerWidth(typ[i]), envs)]

\* The declared results, the top of the stack last.
output(stack, results) ==
  [i \in DOMAIN results |->
     LET v == stack[Len(stack) - Len(results) + i]
     IN  [known |-> {Wrap(k, wasmIntegerWidth(results[i])) : k \in v.known},
          boolean |-> v.boolean, expr |-> v.expr]]

\* One path per terminal state, in order; infeasible ones only if not pruning.
pathsOf(fn, x, states) ==
  LET path(s) == [feasible |-> feasible(s.constraints, x.envs),
                  constraints |-> s.constraints, stack |-> s.stack]
      all == [i \in DOMAIN states |-> path(states[i])]
      kept == SelectSeq(all, LAMBDA p : p.feasible \/ ~x.prune)
  IN  IF \E i \in DOMAIN kept : Len(kept[i].stack) < Len(fn.results) THEN [status |-> 400]
      ELSE [status |-> 200,
            paths |-> [i \in DOMAIN kept |->
                         [feasible |-> kept[i].feasible,
                          constraints |-> kept[i].constraints,
                          output |-> output(kept[i].stack, fn.results)]],
            explored |-> x.explored,
            pruned |-> x.pruned + Len(states) - Len(kept)]

execute(fn, r) ==
  LET envs == environments(fn, r.args)
      x == [maxDepth |-> IF r.maxDepth = 0 THEN DefaultDepth ELSE r.maxDepth,
            prune |-> r.prune, explored |-> 1, pruned |-> 0, envs |-> envs]
      s == [locals |-> initialLocals(fn, r.args), stack |-> <<>>,
            constraints |-> <<>>, depth |-> 0]
      out == run(fn.body, <<s>>, x)
  IN  IF out.ok THEN pathsOf(fn, out.exec, out.states) ELSE [status |-> 400]

Run(r) ==
  LET m == agreed(r.module, r.wasmBinary, <<>>)
      entry == agreed(r.entrypoint, r.entry, "")
      fn == parseExportedFunction(m, entry)
  IN  IF m = <<>> \/ entry = "" \/ r.maxDepth \notin 0..MaxDepth THEN [status |-> 400]
      ELSE IF ~fn.ok THEN [status |-> 400]
      ELSE IF ~(Range(fn.params \o fn.locals) \subseteq {"i32", "i64"}) THEN [status |-> 400]
      ELSE IF \E i \in DOMAIN r.args : i <= Len(fn.params) /\ r.args[i].kind = "bad"
           THEN [status |-> 400]
      ELSE execute(fn, r)

Init == req \in Requests /\ res = None

SymbolicHandler ==
  /\ res = None
  /\ res' = IF req.body = "one" THEN Run(req) ELSE [status |-> 400]
  /\ UNCHANGED req

\* The context ends, or the solver answers unknown, at some point of the run.
Abandon ==
  /\ res = None
  /\ res' = [status |-> 400]
  /\ UNCHANGED req

Next == SymbolicHandler \/ Abandon

Spec == Init /\ [][Next]_vars

--------------------------------------------------------------------------
(* The reference: a concrete interpreter of the flat code, independent of  *)
(* the decoder; every value is an unsigned word                            *)

Matching(b, p, stops) ==
  LET count(q, op) == Cardinality({i \in (p + 1)..(q - 1) : b[i].op = op})
  IN  Min({q \in (p + 1)..Len(b) : b[q].op \in stops /\ count(q, "if") = count(q, "end")})

Word(v, w) == [v |-> v % 2^w, w |-> w]

Stepped(t, s) ==
  LET n == Len(s.stack)
      a == s.stack[n - 1]
      b == s.stack[n]
      to(st) == [s EXCEPT !.stack = st, !.pc = @ + 1, !.steps = @ + 1]
  IN  CASE t.op = "get" -> to(Append(s.stack, s.locals[t.v + 1]))
        [] t.op = "set" -> [to(Pop(s.stack, 1)) EXCEPT !.locals[t.v + 1] = b]
        [] t.op = "tee" -> [to(s.stack) EXCEPT !.locals[t.v + 1] = b]
        [] t.op = "const32" -> to(Append(s.stack, Word(t.v, Narrow)))
        [] t.op = "const64" -> to(Append(s.stack, Word(t.v, Wide)))
        [] t.op \in {"eqz32", "eqz64"} ->
             to(Append(Pop(s.stack, 1), Word(IF b.v = 0 THEN 1 ELSE 0, Narrow)))
        [] t.op \in Comparisons ->
             to(Append(Pop(s.stack, 2),
                  Word(IF comparisonOperator(t.op, a.v, b.v, a.w) THEN 1 ELSE 0, Narrow)))
        [] t.op \in Arithmetic -> to(Append(Pop(s.stack, 2), Word(raw(t.op, a.v, b.v), a.w)))
        [] t.op = "drop" -> to(Pop(s.stack, 1))
        [] OTHER -> [s EXCEPT !.ok = FALSE]

RECURSIVE Interpret(_, _)
Interpret(b, s) ==
  IF s.pc > Len(b) \/ ~s.ok THEN s
  ELSE LET t == b[s.pc]
           taken == s.stack[Len(s.stack)].v # 0
           to == IF taken THEN s.pc ELSE Matching(b, s.pc, {"else", "end"})
       IN  CASE t.op = "end" -> Interpret(b, [s EXCEPT !.pc = @ + 1])
             [] t.op = "else" -> Interpret(b, [s EXCEPT !.pc = Matching(b, @, {"end"})])
             [] t.op = "if" -> Interpret(b, [s EXCEPT !.stack = Pop(@, 1), !.pc = to + 1,
                                                      !.steps = @ + 1])
             [] OTHER -> Interpret(b, Stepped(t, s))

\* The functions of a module in index order; an import is a code-less entry.
IndexSpace(m) ==
  LET imports == section(m, "imports").items
      n == Cardinality({i \in DOMAIN imports : imports[i].kind = "function"})
      funcs == section(m, "functions").items
      codes == section(m, "codes").items
  IN  [i \in 1..(n + Len(funcs)) |->
         IF i <= n THEN [imported |-> TRUE]
         ELSE [imported |-> FALSE, code |-> codes[i - n],
               sig |-> section(m, "types").items[funcs[i - n].type + 1]]]

Exported(m, entry) ==
  LET xs == section(m, "exports").items
      at == Max({i \in DOMAIN xs : xs[i].kind = "function" /\ xs[i].name = entry})
  IN  IndexSpace(m)[xs[at].index + 1]

Entered == Exported(agreed(req.module, req.wasmBinary, <<>>),
                    agreed(req.entrypoint, req.entry, ""))

Envs == environments(Entered.sig, req.args)

Concrete(e) ==
  LET sig == Entered.sig
      typ == sig.params \o Entered.code.locals
  IN  Interpret(Entered.code.body,
        [pc |-> 1, stack |-> <<>>, steps |-> 0, ok |-> TRUE,
         locals |-> [i \in DOMAIN typ |->
           Word(IF i > Len(sig.params) THEN 0 ELSE IF i \in DOMAIN e THEN e[i] ELSE req.args[i].n,
                wasmIntegerWidth(typ[i]))]])

Depth == IF req.maxDepth = 0 THEN DefaultDepth ELSE req.maxDepth

Covers(path, e) == \A i \in DOMAIN path.constraints : path.constraints[i][e]

\* The meaning of a path's output under an assignment, as unsigned words.
Meaning(path, e) ==
  [i \in DOMAIN path.output |->
     LET o == path.output[i]
         w == wasmIntegerWidth(Entered.sig.results[i])
         v == IF o.known # {} THEN CHOOSE k \in o.known : TRUE
              ELSE IF o.boolean THEN IF o.expr[e] THEN 1 ELSE 0
              ELSE o.expr[e]
     IN  v % 2^w]

--------------------------------------------------------------------------
(* Properties *)

TypeOK ==
  /\ req \in Requests
  /\ res.status \in {0, 200, 400}
  /\ res.status = 200 => res.explored \in 1..MaxExplored /\ res.pruned \in 0..MaxExplored

\* Every concrete input follows exactly one of the reported paths, the one
\* whose constraints it satisfies, unless its execution is longer than
\* maxDepth, and then none: the forks of run partition the inputs, whatever
\* the nesting, the wrap-around of constants and the pruning.
PathsPartition ==
  res.status = 200 =>
    \A e \in Envs :
      /\ ~Entered.imported
      /\ Concrete(e).ok
      /\ Cardinality({i \in DOMAIN res.paths : Covers(res.paths[i], e)})
           = IF Concrete(e).steps <= Depth THEN 1 ELSE 0

\* On that path the reported output, constant or expression, is what the
\* exported function of the module returns for the input.
OutputsMatch ==
  res.status = 200 =>
    \A e \in Envs, i \in DOMAIN res.paths :
      Covers(res.paths[i], e) =>
        LET st == Concrete(e).stack
            n == Len(Entered.sig.results)
        IN  Meaning(res.paths[i], e) = [k \in 1..n |-> st[Len(st) - n + k].v]

\* Pruning only removes paths no input can take: with and without
\* pruneInfeasible the feasible paths are the same ones.
PruningExact ==
  res.status = 200 /\ req.prune =>
    LET all == Run([req EXCEPT !.prune = FALSE])
    IN  all.status = 200 => res.paths = SelectSeq(all.paths, LAMBDA p : p.feasible)

\* Every fork adds two explored paths for one, and each ends as a reported
\* path or is counted as pruned, by depth or by the solver.
ExploredAccounts ==
  res.status = 200 => 2 * (Len(res.paths) + res.pruned) = res.explored + 1
=============================================================================
