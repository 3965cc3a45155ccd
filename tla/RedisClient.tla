------------------------------ MODULE RedisClient ------------------------------
(* redis_client (lib_acl_cpp/src/redis/redis_client.cpp) with one caller, as   *)
(* RedisServerAcl uses it: calls follow one another over one connection that   *)
(* is opened when needed and closed by whatever goes wrong; a call that fails  *)
(* is tried once more.  The server may carry out a request late, even one      *)
(* whose connection the client has given up.                                   *)
EXTENDS Naturals, Sequences

CONSTANTS MaxCalls, MaxConns   \* bounds on the calls and connections of a behaviour

ASSUME BoundsAssumption == MaxCalls \in Nat /\ MaxConns \in Nat

Calls == 1 .. MaxCalls
Connections == 1 .. MaxConns

VARIABLES
  pc,         \* what run does next; "idle" between two calls
  call,       \* the number of the call that is made or was made last
  retried,
  conn,       \* conn_: the connection that is open, or 0
  opened,     \* the number of connections opened so far
  answer,     \* the call whose answer the last call returned, or 0 for NULL
  requests,   \* requests[n]: calls that the server has not carried out
  replies,    \* replies[n]: calls whose answers the client has not read
  broken,     \* connections that are lost
  executed    \* executed[k]: how often the server has carried out call k

clientVars == <<pc, call, retried, conn, opened, answer>>
serverVars == <<requests, replies, broken, executed>>
vars == <<clientVars, serverVars>>

TypeOK ==
  /\ pc \in {"idle", "open", "write", "read"}
  /\ call \in 0 .. MaxCalls /\ retried \in BOOLEAN
  /\ conn \in 0 .. MaxConns /\ opened \in 0 .. MaxConns
  /\ pc \in {"write", "read"} => conn # 0
  /\ answer \in 0 .. MaxCalls
  /\ requests \in [Connections -> Seq(Calls)] /\ replies \in [Connections -> Seq(Calls)]
  /\ broken \subseteq Connections
  /\ executed \in [Calls -> Nat]

Init ==
  /\ pc = "idle" /\ call = 0 /\ retried = FALSE
  /\ conn = 0 /\ opened = 0 /\ answer = 0
  /\ requests = [n \in Connections |-> <<>>] /\ replies = [n \in Connections |-> <<>>]
  /\ broken = {} /\ executed = [k \in Calls |-> 0]

-------------------------------------------------------------------------------
Run ==
  /\ pc = "idle" /\ call < MaxCalls
  /\ call' = call + 1 /\ retried' = FALSE /\ answer' = 0
  /\ pc' = "open"
  /\ UNCHANGED <<conn, opened, serverVars>>

UncheckedOpen == "write"   \* mutant: the result of open is ignored
AfterFailedOpen == "idle"

\* open: a connection that is open, lost or not, is kept.
Open ==
  /\ pc = "open"
  /\ \/ conn # 0 /\ pc' = "write" /\ UNCHANGED <<conn, opened>>
     \/ /\ conn = 0 /\ opened < MaxConns
        /\ opened' = opened + 1 /\ conn' = opened'
        /\ pc' = "write"
     \/ conn = 0 /\ pc' = AfterFailedOpen /\ UNCHANGED <<conn, opened>>
  /\ UNCHANGED <<call, retried, answer, serverVars>>

\* A lost connection may still take a request, which then arrives nowhere.
Write ==
  /\ pc = "write"
  /\ requests' = IF conn \in broken THEN requests
                 ELSE [requests EXCEPT ![conn] = Append(@, call)]
  /\ pc' = "read"
  /\ UNCHANGED <<call, retried, conn, opened, answer, replies, broken, executed>>

RetryAlways == TRUE   \* mutant: `retried' is not looked at
MayRetry == ~retried

KeepConnection == conn   \* mutant: no close() before the retry
Closed == 0

\* write or get_object fails, the latter also when the answer takes too long:
\* close, then once more or NULL.
Fail ==
  /\ pc = "read" \/ (pc = "write" /\ conn \in broken)
  /\ conn' = Closed
  /\ IF MayRetry THEN pc' = "open" /\ retried' = TRUE
                 ELSE pc' = "idle" /\ UNCHANGED retried
  /\ UNCHANGED <<call, opened, answer, serverVars>>

\* get_object returns what comes next on the connection.
ReadReply ==
  /\ replies[conn] # <<>>
  /\ answer' = Head(replies[conn])
  /\ replies' = [replies EXCEPT ![conn] = Tail(@)]
Read ==
  /\ pc = "read" /\ ReadReply
  /\ pc' = "idle"
  /\ UNCHANGED <<call, retried, conn, opened, requests, broken, executed>>

-------------------------------------------------------------------------------
(* The server and the network.                                                 *)

Execute(n) ==
  /\ requests[n] # <<>>
  /\ requests' = [requests EXCEPT ![n] = Tail(@)]
  /\ executed' = [executed EXCEPT ![Head(requests[n])] = @ + 1]
  /\ replies' = IF n \in broken THEN replies
                ELSE [replies EXCEPT ![n] = Append(@, Head(requests[n]))]
  /\ UNCHANGED <<clientVars, broken>>

\* The connection is lost, with the answers and perhaps the requests under way.
Break(n) ==
  /\ n \in 1 .. opened \ broken
  /\ broken' = broken \cup {n}
  /\ replies' = [replies EXCEPT ![n] = <<>>]
  /\ requests' \in {requests, [requests EXCEPT ![n] = <<>>]}
  /\ UNCHANGED <<clientVars, executed>>

ClientStep == Open \/ Write \/ Fail \/ Read

Next == Run \/ ClientStep \/ \E n \in Connections : Execute(n) \/ Break(n)

Spec == Init /\ [][Next]_vars

-------------------------------------------------------------------------------
\* A call returns the answer to its own request: an answer that was late for an
\* earlier attempt or call never comes first on the connection, whatever was
\* lost in between (redis_client.cpp:401-462).
AnswersMatch == pc = "idle" => answer \in {0, call}

\* Between two attempts nothing is under way on the connection that is open: what
\* the next read finds there belongs to the next request (redis_client.cpp:427-462).
NothingPending ==
  pc # "read" /\ conn # 0 => requests[conn] = <<>> /\ replies[conn] = <<>>

\* A request that was answered has been carried out, and none more than twice,
\* however late the server gets to it (redis_client.cpp:401-462); twice is what a
\* list pushed to by RedisServerAcl may see (redisHandler.cpp:90-103).
CarriedOut ==
  /\ answer # 0 => executed[answer] > 0
  /\ \A k \in Calls : executed[k] <= 2

===============================================================================
