----------------------------- MODULE WasmModule -----------------------------
(***************************************************************************)
(* The decoder of internal/verify/symbolic.go: from the sections of a      *)
(* WebAssembly module to the one exported function that is executed.  A    *)
(* section is the items of its vector and the count that precedes them; an *)
(* item the decoder cannot read is Bad.  The widths of the two integer     *)
(* types and of a LEB128 group are constants, so that the group that holds *)
(* the last bits of a word is only partly used, as in the code (32 and 64  *)
(* are no multiples of 7).                                                 *)
(***************************************************************************)
EXTENDS Integers, Sequences, FiniteSets, FiniteSetsExt

CONSTANTS GroupBits, Narrow, Wide, MaxVectorItems, MaxInstructions,
          MaxControlDepth

Bad == [kind |-> "bad"]
Fail == [ok |-> FALSE]

--------------------------------------------------------------------------
(* LEB128 integers *)

More == 2^GroupBits
Groups(width) == (width + GroupBits - 1) \div GroupBits

\* The n groups in which a compiler writes v, two's complement if negative.
Encode(v, n) ==
  [i \in 1..n |-> ((v \div More^(i - 1)) % More) + IF i < n THEN More ELSE 0]

\* Number of bytes up to the one without the continuation bit, 0 if there is
\* none within the word.
read(b, width) ==
  LET ends == {i \in 1..Len(b) : i <= Groups(width) /\ b[i] < More}
  IN  IF ends = {} THEN 0 ELSE Min(ends)

\* The groups read, each shifted into a word of the given width.
assembled(b, n, width) ==
  MapThenSumSet(LAMBDA i : ((b[i] % More) * More^(i - 1)) % 2^width, 1..n)

readU32(b) ==
  LET n == read(b, Narrow)
  IN  IF n = 0 THEN Fail ELSE [ok |-> TRUE, value |-> assembled(b, n, Narrow)]

Signed(v, width) == IF v < 2^(width - 1) THEN v ELSE v - 2^width

\* Mutant: readS64 without the sign extension of a short encoding.
readS64Unsigned(b) ==
  LET n == read(b, Wide)
  IN  IF n = 0 THEN Fail
      ELSE [ok |-> TRUE, value |-> Signed(assembled(b, n, Wide), Wide)]

readS64(b) ==
  LET n == read(b, Wide)
      shift == n * GroupBits
      v == assembled(b, n, Wide)
      sign == shift < Wide /\ (b[n] % More) >= More \div 2
  IN  IF n = 0 THEN Fail
      ELSE [ok |-> TRUE, value |-> IF sign THEN v - 2^shift ELSE Signed(v, Wide)]

--------------------------------------------------------------------------
(* Sections *)

\* The first count items of a section; what follows them is not looked at.
vector(s) ==
  IF \/ s.count > MaxVectorItems
     \/ s.count > Len(s.items)
     \/ \E i \in 1..s.count : s.items[i] = Bad
  THEN Fail
  ELSE [ok |-> TRUE, items |-> SubSeq(s.items, 1, s.count)]

\* Only function imports take a place in the function index space.
parseImportedFunctionCount(s) ==
  IF ~vector(s).ok \/ s.count < Len(s.items) THEN Fail
  ELSE [ok |-> TRUE,
        count |-> Cardinality({i \in 1..s.count : s.items[i].kind = "function"})]

\* Exports that are functions; a later export of a name replaces an earlier.
parseExports(s) ==
  LET v == vector(s)
      fns == {i \in DOMAIN v.items : v.items[i].kind = "function"}
  IN  IF ~v.ok THEN Fail
      ELSE [ok |-> TRUE,
            map |-> [nm \in {v.items[i].name : i \in fns} |->
                       v.items[Max({i \in fns : v.items[i].name = nm})].index]]

--------------------------------------------------------------------------
(* Function bodies: a flat sequence of opcodes with their operands *)

parsed(out, p, stop, n) == [ok |-> TRUE, out |-> out, p |-> p, stop |-> stop, n |-> n]

RECURSIVE parseInstructions(_, _, _, _, _)

parseIf(b, p, out, n, nesting) ==
  LET yes == parseInstructions(b, p + 1, <<>>, n + 1, nesting + 1)
      no  == IF yes.stop = "else"
             THEN parseInstructions(b, yes.p, <<>>, yes.n, nesting + 1)
             ELSE parsed(<<>>, yes.p, "end", yes.n)
      in  == [op |-> "if", then |-> yes.out, otherwise |-> no.out]
  IN  IF nesting >= MaxControlDepth \/ ~yes.ok THEN Fail
      ELSE IF ~no.ok \/ no.stop # "end" THEN Fail
      ELSE parseInstructions(b, no.p, Append(out, in), no.n, nesting)

operand(c) ==
  CASE c.op \in {"get", "set", "tee"} -> readU32(c.bytes)
    [] c.op \in {"const32", "const64"} -> readS64(c.bytes)
    [] OTHER -> [ok |-> TRUE, value |-> 0]

parseInstructions(b, p, out, n, nesting) ==
  IF p > Len(b) THEN Fail
  ELSE LET c == b[p] IN
       IF c.op \in {"end", "else"} THEN parsed(out, p + 1, c.op, n)
       ELSE IF n + 1 > MaxInstructions THEN Fail
       ELSE IF c.op = "if" THEN parseIf(b, p, out, n, nesting)
       ELSE IF ~operand(c).ok THEN Fail
       ELSE parseInstructions(b, p + 1,
              Append(out, [op |-> c.op, value |-> operand(c).value]), n + 1, nesting)

parseCode(code) ==
  LET body == parseInstructions(code.body, 1, <<>>, 0, 0)
  IN  IF ~body.ok THEN Fail
      ELSE IF body.stop # "end" \/ body.p # Len(code.body) + 1 THEN Fail
      ELSE [ok |-> TRUE, locals |-> code.locals, body |-> body.out]

--------------------------------------------------------------------------

Empty == [count |-> 0, items |-> <<>>]

\* Sections may come in any order; of two with one id the last counts.
section(m, id) ==
  LET at == {i \in DOMAIN m : m[i].id = id}
  IN  IF at = {} THEN Empty ELSE m[Max(at)]

parseExportedFunction(m, entrypoint) ==
  LET imported == parseImportedFunctionCount(section(m, "imports"))
      exports == parseExports(section(m, "exports"))
      types == vector(section(m, "types"))
      functions == vector(section(m, "functions"))
      codes == vector(section(m, "codes"))
      wellFormed == /\ \A i \in DOMAIN m : vector(m[i]).ok
                    /\ \A i \in DOMAIN m : m[i].id = "imports" =>
                                             parseImportedFunctionCount(m[i]).ok
      idx == exports.map[entrypoint]
      local == idx - imported.count + 1
      code == parseCode(codes.items[local])
      typ == types.items[functions.items[local].type + 1]
  IN  IF ~wellFormed THEN Fail
      ELSE IF entrypoint \notin DOMAIN exports.map THEN Fail
      ELSE IF \/ idx < imported.count
              \/ local > Len(functions.items)
              \/ local > Len(codes.items) THEN Fail
      ELSE IF functions.items[local].type >= Len(types.items) THEN Fail
      ELSE IF ~code.ok THEN Fail
      ELSE [ok |-> TRUE, params |-> typ.params, results |-> typ.results,
            locals |-> code.locals, body |-> code.body]
=============================================================================
