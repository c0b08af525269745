-------------------------- MODULE MCSharedServices --------------------------
(***************************************************************************)
(* What requests share, for TLC: the circuit breaker in front of Z3 and    *)
(* the connection to the Redis backend of the cluster's result cache.      *)
(* part, chosen at the start, names the one that is used.                  *)
(***************************************************************************)
EXTENDS CircuitBreaker

CONSTANTS Caller, Part

VARIABLES
    part,
    handshake, mu, conn, sent, replies, pc, round, answer

R == INSTANCE RedisBackend

redis == <<handshake, mu, conn, sent, replies, pc, round, answer>>
sharedVars == <<part, vars, redis>>

SharedInit ==
    /\ part \in Part
    /\ Init /\ R!Init
    /\ part # "redis" => handshake = << >>

SharedNext ==
    /\ part' = part
    /\ \/ part = "breaker" /\ Next /\ UNCHANGED redis
       \/ part = "redis" /\ R!Next /\ UNCHANGED vars

\* The fairness of the part that is used.  No call is under way on an
\* unused connection, so its fairness holds as it is.
SharedFairness ==
    /\ WF_vars(part = "breaker" /\ Tick)
    /\ \A r \in Request : WF_vars(RecordTimeout(r) \/ RecordSuccess(r))
    /\ WF_vars(part = "breaker" /\ \E r \in Request : Allow(r))
    /\ R!Fairness

SharedSpec == SharedInit /\ [][SharedNext]_sharedVars /\ SharedFairness

\* The state of both keeps its type.
SharedTypeOK == TypeOK /\ R!TypeOK

\* A call returns the reply to its own command.
AnswerMatches == R!AnswerMatches

\* Without a handshake every call to Redis returns.
CallsReturn == R!CallsReturn
=============================================================================
