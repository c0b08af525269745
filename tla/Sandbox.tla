------------------------------ MODULE Sandbox ------------------------------
(***************************************************************************)
(* Run of internal/sandbox/sandbox.go.  The guest writes to stdout, exits, *)
(* traps or loops; the deadline of the context closes it.  The runtime is  *)
(* wazero (external).  Memory sizes are scaled: 2^MegaBits bytes are a     *)
(* megabyte, 2^PageBits a page and 2^WordBits the range of uint32.         *)
(***************************************************************************)
EXTENDS Integers, Sequences

CONSTANTS MegaBits, PageBits, WordBits,
          Megabytes,   \* the memory limits a caller may ask for
          Caps,        \* capacities of a limitedBuffer, 0 (the one Run uses) for unlimited
          MaxWritten   \* bound on the bytes the guest writes

VARIABLES run, guest, out, result

vars == <<run, guest, out, result>>

None == [status |-> "none"]
Kinds == {"unreachable", "memory_oob", "stack_overflow"}

memLimitMBToPages(mb) ==
  LET pages == ((mb * 2^MegaBits) % 2^WordBits) \div 2^PageBits
  IN  IF mb <= 0 \/ pages = 0 THEN 1 ELSE pages

\* The part of p that still fits.
Write(b, p) ==
  LET room == b.cap - Len(b.buf)
      want == IF b.cap > 0 /\ room < Len(p) THEN room ELSE Len(p)
  IN  IF b.cap > 0 /\ room <= 0 THEN b
      ELSE [b EXCEPT !.buf = @ \o SubSeq(p, 1, want)]

\* Mutant: the text is looked at first.
trapFromErrText(err) ==
  CASE "unreachable" \in err.text -> "unreachable"
    [] "memory_oob" \in err.text -> "memory_oob"
    [] "stack_overflow" \in err.text -> "stack_overflow"
    [] OTHER -> IF err.deadline THEN "timeout" ELSE "none"

\* The error is a deadline, or its text names a trap.
trapFromErr(err) ==
  IF err.deadline THEN "timeout"
  ELSE CASE "unreachable" \in err.text -> "unreachable"
         [] "memory_oob" \in err.text -> "memory_oob"
         [] "stack_overflow" \in err.text -> "stack_overflow"
         [] OTHER -> "none"

exitCodeFromErr(err) == IF "code" \in DOMAIN err THEN err.code ELSE 0

--------------------------------------------------------------------------

Init ==
  /\ run \in [mb : Megabytes, timeout : BOOLEAN, module : {"ok", "garbled", "unlinkable"},
              pages : {0}, expired : {FALSE}, closed : {FALSE}]
  /\ guest = "none"
  /\ \E c \in Caps : out = [cap |-> c, buf |-> <<>>, written |-> <<>>]
  /\ result = None

\* Decode, size the memory, start the clock, instantiate.
Start ==
  /\ guest = "none"
  /\ IF run.module = "garbled"
     THEN guest' = "ended" /\ result' = [status |-> "error", exit |-> 0, trap |-> "none"]
          /\ UNCHANGED run
     ELSE guest' = "running" /\ run' = [run EXCEPT !.pages = memLimitMBToPages(run.mb)]
          /\ UNCHANGED result
  /\ UNCHANGED out

Ended(err) ==
  /\ guest' = "ended"
  /\ result' = [status |-> "error", exit |-> exitCodeFromErr(err), trap |-> trapFromErr(err)]
  /\ run' = [run EXCEPT !.closed = err.deadline]
  /\ UNCHANGED out

\* A module that cannot be linked; the error names what is missing.
Unlinked ==
  /\ guest = "running" /\ run.module = "unlinkable"
  /\ \E text \in SUBSET Kinds : Ended([deadline |-> FALSE, text |-> text])

GuestWrites ==
  /\ guest = "running" /\ run.module = "ok"
  /\ \E n \in 1..2 :
       LET p == [i \in 1..n |-> Len(out.written) + i] IN
       /\ Len(out.written) + n <= MaxWritten
       /\ out' = [Write(out, p) EXCEPT !.written = @ \o p]
  /\ UNCHANGED <<run, guest, result>>

GuestReturns ==
  /\ guest = "running" /\ run.module = "ok"
  /\ guest' = "ended"
  /\ result' = [status |-> "ok", exit |-> 0, trap |-> "none"]
  /\ UNCHANGED <<run, out>>

GuestExits ==
  /\ guest = "running" /\ run.module = "ok"
  /\ Ended([deadline |-> FALSE, text |-> {}, code |-> 3])

GuestTraps ==
  /\ guest = "running" /\ run.module = "ok"
  /\ \E k \in Kinds : Ended([deadline |-> FALSE, text |-> {k}])

\* The context expires; the guest goes on until the runtime checks it.
Deadline ==
  /\ guest = "running" /\ run.module = "ok" /\ run.timeout /\ ~run.expired
  /\ run' = [run EXCEPT !.expired = TRUE]
  /\ UNCHANGED <<guest, out, result>>

\* Mutant: the deadline is only noticed when the guest calls the host.
CloseInHostCall ==
  /\ guest = "running" /\ run.expired /\ out.written # <<>>
  /\ Ended([deadline |-> TRUE, text |-> {}, code |-> -1])

\* The runtime closes the module; what else the text of its error names is up
\* to the runtime.
Close ==
  /\ guest = "running" /\ run.expired
  /\ \E text \in SUBSET Kinds : Ended([deadline |-> TRUE, text |-> text, code |-> -1])

Next == Start \/ Unlinked \/ GuestWrites \/ GuestReturns \/ GuestExits \/ GuestTraps
        \/ Deadline \/ Close

\* The clock runs and the runtime checks it; nothing makes the guest end.
Spec == Init /\ [][Next]_vars /\ WF_vars(Start) /\ WF_vars(Unlinked)
        /\ WF_vars(Deadline) /\ WF_vars(Close)

--------------------------------------------------------------------------

TypeOK ==
  /\ guest \in {"none", "running", "ended"}
  /\ run.pages \in 0..2^(WordBits - PageBits)
  /\ guest = "running" => run.pages > 0
  /\ result = None \/ result.trap \in Kinds \cup {"none", "timeout"}

\* Whatever the sizes of the writes, the buffer holds the first bytes the
\* guest wrote, all of them while there is room.
OutputIsPrefix ==
  LET n == Len(out.written)
      kept == IF out.cap > 0 /\ out.cap < n THEN out.cap ELSE n
  IN  out.buf = SubSeq(out.written, 1, kept)

\* A run that the deadline closed, and no other, is reported as a timeout,
\* whatever else its error text names; one that ends between the deadline and
\* the check keeps its own result.
TimeoutReported ==
  guest = "ended" => /\ (result.trap = "timeout") = run.closed
                     /\ run.closed => run.timeout /\ result.status = "error"

\* With a timeout every run ends, also one whose guest loops; so does one that
\* cannot start.
RunEnds == (run.timeout \/ run.module # "ok") ~> guest = "ended"

\* "returns nil for non-trap errors such as ... a module instantiation/link
\* error" (sandbox.go:198-200).
LinkErrorIsNoTrap ==
  guest = "ended" /\ run.module = "unlinkable" => result.trap = "none"

\* "maximum guest memory in megabytes" (sandbox.go:81): the pages hold the
\* memory the caller allows.
PagesHoldLimit ==
  guest = "running" /\ run.mb > 0 => run.pages * 2^PageBits >= run.mb * 2^MegaBits
=============================================================================
