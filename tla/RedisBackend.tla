---------------------------- MODULE RedisBackend ----------------------------
(***************************************************************************)
(* RedisBackend of internal/cache/distributed: the callers of exec share   *)
(* one connection, under r.mu, to a server that answers commands in the    *)
(* order it received them, slowly or never.  A reply does not name its     *)
(* command: which one it answers is decided by the order alone.            *)
(*                                                                         *)
(* A command is <<caller, round, what>>, where round tells a caller's call *)
(* from its previous one.  A reply carries the command it answers, which   *)
(* the code cannot see and only the properties look at.                    *)
(***************************************************************************)
EXTENDS Naturals, Sequences

CONSTANT Caller

VARIABLES
    handshake,    \* what r.password and r.db make a new connection send first
    mu,           \* the caller that holds r.mu, or Nobody
    conn,         \* "none" (nil), "open", or "broken" by the network
    sent,         \* commands written to conn that the server has not answered
    replies,      \* replies on conn that r.br has not delivered: <<command, ok>>
    pc,           \* pc[c]: where c is in exec
    round,        \* round[c]: alternates from call to call
    answer        \* answer[c]: the command whose reply c's last call returned

vars == <<handshake, mu, conn, sent, replies, pc, round, answer>>

Nobody == "nobody"
Command == Caller \X {0, 1} \X {"AUTH", "SELECT", "command"}

\* AUTH when a password is set, SELECT when the database is not 0.
Handshakes == {<< >>, <<"AUTH">>, <<"SELECT">>, <<"AUTH", "SELECT">>}

TypeOK ==
    /\ handshake \in Handshakes
    /\ mu \in Caller \cup {Nobody}
    /\ conn \in {"none", "open", "broken"}
    /\ sent \in Seq(Command) /\ replies \in Seq(Command \X BOOLEAN)
    /\ conn = "none" => sent = << >> /\ replies = << >>
    /\ pc \in [Caller -> {<<"idle">>, <<"lock">>, <<"dial">>}
                         \cup {"write", "read"} \X {"AUTH", "SELECT", "command"}]
    /\ round \in [Caller -> {0, 1}]
    /\ answer \in [Caller -> Command \cup {<< >>}]

Init ==
    /\ handshake \in Handshakes
    /\ mu = Nobody
    /\ conn = "none" /\ sent = << >> /\ replies = << >>
    /\ pc = [c \in Caller |-> <<"idle">>]
    /\ round = [c \in Caller |-> 0]
    /\ answer = [c \in Caller |-> << >>]

-----------------------------------------------------------------------------

\* The connection is closed and what was on its way is lost with it.
dropLocked == conn' = "none" /\ sent' = << >> /\ replies' = << >>

\* exec returns; the deferred Unlock runs on every path.
Return(c) == mu' = Nobody /\ pc' = [pc EXCEPT ![c] = <<"idle">>]

Goto(c, where) == pc' = [pc EXCEPT ![c] = where] /\ UNCHANGED mu

\* What c does once the first i commands of the handshake have been answered.
AfterHandshake(i) ==
    IF i < Len(handshake) THEN <<"write", handshake[i + 1]>> ELSE <<"write", "command">>

\* Get, Set, Del and Ping are each one exec.  The caller carries no deadline
\* of its own (the cache passes context.Background()).
Call(c) ==
    /\ pc[c] = <<"idle">>
    /\ pc' = [pc EXCEPT ![c] = <<"lock">>]
    /\ round' = [round EXCEPT ![c] = 1 - @]
    /\ answer' = [answer EXCEPT ![c] = << >>]
    /\ UNCHANGED <<mu, conn, sent, replies>>

\* r.mu.Lock, and the test at the head of ensureConnectedLocked.
Acquire(c) ==
    /\ pc[c] = <<"lock">> /\ mu = Nobody
    /\ mu' = c
    /\ pc' = [pc EXCEPT ![c] = IF conn = "none" THEN <<"dial">> ELSE <<"write", "command">>]
    /\ UNCHANGED <<conn, sent, replies, round, answer>>

\* The dialer has a timeout of its own.
Dial(c, ok) ==
    /\ pc[c] = <<"dial">>
    /\ IF ok THEN conn' = "open" /\ Goto(c, AfterHandshake(0))
             ELSE UNCHANGED conn /\ Return(c)
    /\ UNCHANGED <<sent, replies, round, answer>>

Write(c, what) ==
    /\ pc[c] = <<"write", what>>
    /\ conn = "open"
    /\ sent' = Append(sent, <<c, round[c], what>>)
    /\ Goto(c, <<"read", what>>)
    /\ UNCHANGED <<conn, replies, round, answer>>

\* readReply finds the next reply.  An error reply is an error of exec, which
\* drops the connection.
Read(c, what) ==
    /\ pc[c] = <<"read", what>>
    /\ replies # << >>
    /\ LET reply == Head(replies)
       IN  IF ~reply[2] THEN dropLocked /\ Return(c) /\ UNCHANGED answer
           ELSE /\ replies' = Tail(replies)
                /\ IF what = "command"
                   THEN Return(c) /\ answer' = [answer EXCEPT ![c] = reply[1]]
                   ELSE /\ Goto(c, AfterHandshake(CHOOSE i \in DOMAIN handshake : handshake[i] = what))
                        /\ UNCHANGED answer
                /\ UNCHANGED <<conn, sent>>
    /\ UNCHANGED round

\* Mutant: a command that timed out leaves the connection as it is.
DeadlineKeepsConnection(c) ==
    /\ pc[c] = <<"read", "command">>
    /\ Return(c)
    /\ UNCHANGED <<conn, sent, replies, round, answer>>

\* Mutant: only a deadline of the caller's context is put on the connection.
DeadlineFromContextOnly(c) ==
    /\ FALSE
    /\ dropLocked
    /\ Return(c)
    /\ UNCHANGED <<round, answer>>

\* The deadline that exec put on the connection passes while c waits for the
\* reply to its command.
Deadline(c) ==
    /\ pc[c] = <<"read", "command">>
    /\ dropLocked
    /\ Return(c)
    /\ UNCHANGED <<round, answer>>

\* A write or read on a broken connection fails.
Fail(c, io, what) ==
    /\ pc[c] = <<io, what>>
    /\ conn = "broken"
    /\ dropLocked
    /\ Return(c)
    /\ UNCHANGED <<round, answer>>

\* Close takes r.mu; a later call dials again.
Close ==
    /\ mu = Nobody /\ conn # "none"
    /\ dropLocked
    /\ UNCHANGED <<mu, pc, round, answer>>

-----------------------------------------------------------------------------
\* The server and the network.
Serve(ok) ==
    /\ conn = "open"
    /\ sent # << >>
    /\ sent' = Tail(sent)
    /\ replies' = Append(replies, <<Head(sent), ok>>)
    /\ UNCHANGED <<mu, conn, pc, round, answer>>

Break ==
    /\ conn = "open"
    /\ conn' = "broken"
    /\ UNCHANGED <<mu, sent, replies, pc, round, answer>>

What == {"AUTH", "SELECT", "command"}

Step(c) ==
    \/ \E ok \in BOOLEAN : Dial(c, ok)
    \/ \E what \in What : Write(c, what) \/ Read(c, what)
    \/ Deadline(c)
    \/ \E io \in {"write", "read"}, what \in What : Fail(c, io, what)

Next ==
    /\ UNCHANGED handshake
    /\ \/ \E c \in Caller : Call(c) \/ Acquire(c) \/ Step(c)
       \/ Close
       \/ \E ok \in BOOLEAN : Serve(ok)
       \/ Break

\* Callers keep running and sync.Mutex does not starve one; deadlines pass.
\* The server and the network owe nothing.
Fairness == \A c \in Caller : SF_vars(UNCHANGED handshake /\ Acquire(c)) /\ WF_vars(UNCHANGED handshake /\ Step(c))

Spec == Init /\ [][Next]_vars /\ Fairness

-----------------------------------------------------------------------------
\* A call that returns a reply returns the reply to its own command, although
\* earlier callers gave up waiting for theirs and the server answers late.
AnswerMatches == \A c \in Caller : answer[c] \in {<< >>, <<c, round[c], "command">>}

\* Every call on a connection that needs no handshake returns, whatever the
\* server does: exec puts a deadline on the connection before it writes.
CallsReturn == \A c \in Caller : handshake = << >> /\ pc[c] = <<"lock">> ~> pc[c] = <<"idle">>

\* "So a hung server cannot stall callers indefinitely", with whatever options:
\* the replies to AUTH and SELECT are read before any deadline is set.
NeverStalls == \A c \in Caller : pc[c] = <<"lock">> ~> pc[c] = <<"idle">>
=============================================================================
