--------------------------- MODULE RedisClientProofs ---------------------------
(* Proofs about the Redis client for any number of calls and connections.      *)
EXTENDS RedisClient, FiniteSetTheorems, TLAPS

-------------------------------------------------------------------------------
(* The parts of the inductive invariant.                                       *)

\* Connections not opened yet carry nothing, and the open one has been opened.
OpenedInv ==
  /\ conn <= opened
  /\ \A n \in Connections :
       n > opened => requests[n] = <<>> /\ replies[n] = <<>> /\ n \notin broken

\* A connection carries at most one request or one answer.
OneInv ==
  \A n \in Connections :
    /\ requests[n] = <<>> \/ \E k \in Calls : requests[n] = <<k>>
    /\ replies[n] = <<>> \/ \E k \in Calls : replies[n] = <<k>>
    /\ requests[n] = <<>> \/ replies[n] = <<>>

\* What the open one carries while an answer is awaited belongs to the call.
OwnInv ==
  pc = "read" =>
    /\ requests[conn] \in {<<>>, <<call>>}
    /\ replies[conn] \in {<<>>, <<call>>}

\* No answer is taken before the call is over.
AnswerInv ==
  /\ pc # "idle" => answer = 0 /\ call \in Calls
  /\ answer \in {0, call}

MatchInv ==
  /\ TypeOK /\ OpenedInv /\ OneInv /\ OwnInv /\ AnswerInv /\ NothingPending

\* Connections on which call k has still to be carried out.
Pending(k) == {n \in Connections : requests[n] = <<k>>}

\* The attempts made to send the request of the call.
Attempts ==
  (IF retried THEN 1 ELSE 0) + (IF pc \in {"read", "idle"} THEN 1 ELSE 0)

Bound(k) == IF k < call THEN 2 ELSE IF k = call THEN Attempts ELSE 0

\* Each attempt leaves at most one request, and each request is carried out once.
CountInv == \A k \in Calls : executed[k] + Cardinality(Pending(k)) <= Bound(k)

\* Answers are answers to something.
CauseInv ==
  /\ \A n \in Connections : \A k \in Calls : replies[n] = <<k>> => executed[k] > 0
  /\ answer # 0 => executed[answer] > 0

-------------------------------------------------------------------------------
(* Answers.                                                                    *)

\* A connection with one entry.
LEMMA Single ==
  /\ <<>> \in Seq(Calls)
  /\ \A k \in Calls :
       /\ <<k>> \in Seq(Calls) /\ <<k>> # <<>>
       /\ Head(<<k>>) = k /\ Tail(<<k>>) = <<>> /\ Append(<<>>, k) = <<k>>
  OBVIOUS

LEMMA CallsAndConnections ==
  /\ \A k : k \in Calls <=> k \in 0 .. MaxCalls /\ k # 0
  /\ \A n : n \in Connections <=> n \in 0 .. MaxConns /\ n # 0
  /\ \A k \in 0 .. MaxCalls : k \in Nat /\ k <= MaxCalls
  /\ \A n \in 0 .. MaxConns : n \in Nat /\ n <= MaxConns
  BY BoundsAssumption DEF Calls, Connections

LEMMA InitMatches == Init => MatchInv
<1> SUFFICES ASSUME Init
             PROVE  MatchInv
  OBVIOUS
<1> USE BoundsAssumption, Single, CallsAndConnections DEF Init
<1>1. TypeOK
  <2>1. 0 \in 0 .. MaxCalls /\ 0 \in 0 .. MaxConns
    OBVIOUS
  <2>2. requests \in [Connections -> Seq(Calls)] /\ replies \in [Connections -> Seq(Calls)]
    OBVIOUS
  <2>3. executed \in [Calls -> Nat]
    OBVIOUS
  <2> QED
    BY <2>1, <2>2, <2>3 DEF TypeOK
<1>2. OpenedInv
  BY DEF OpenedInv
<1>3. OneInv
  BY DEF OneInv
<1>4. OwnInv
  BY DEF OwnInv
<1>5. AnswerInv
  BY DEF AnswerInv
<1>6. NothingPending
  BY DEF NothingPending
<1> QED
  BY <1>1, <1>2, <1>3, <1>4, <1>5, <1>6 DEF MatchInv

\* A step of the client keeps the answers apart: a new request is written only to
\* a connection that carries nothing (redis_client.cpp:401-462).
LEMMA ClientMatches ==
  ASSUME MatchInv, Run \/ ClientStep
  PROVE  MatchInv'
<1> USE BoundsAssumption, Single, CallsAndConnections DEF MatchInv
<1>1. CASE Run
  <2> USE <1>1 DEF Run, serverVars
  <2>1. TypeOK'
    <3>1. call' \in 0 .. MaxCalls /\ 0 \in 0 .. MaxCalls
      BY DEF TypeOK
    <3> QED
      BY <3>1 DEF TypeOK
  <2>2. OpenedInv'
    BY DEF OpenedInv
  <2>3. OneInv'
    BY DEF OneInv
  <2>4. OwnInv'
    BY DEF OwnInv
  <2>5. AnswerInv'
    BY DEF TypeOK, AnswerInv
  <2>6. NothingPending'
    BY DEF NothingPending
  <2> QED
    BY <2>1, <2>2, <2>3, <2>4, <2>5, <2>6
<1>2. CASE Open
  <2> USE <1>2 DEF Open, AfterFailedOpen, serverVars
  <2>1. TypeOK'
    BY DEF TypeOK
  <2>2. OpenedInv'
    BY DEF TypeOK, OpenedInv
  <2>3. OneInv'
    BY DEF OneInv
  <2>4. OwnInv'
    BY DEF OwnInv
  <2>5. AnswerInv'
    BY DEF AnswerInv
  <2>6. NothingPending'
    BY DEF TypeOK, OpenedInv, NothingPending
  <2> QED
    BY <2>1, <2>2, <2>3, <2>4, <2>5, <2>6
<1>3. CASE Write
  <2> USE <1>3 DEF Write
  <2>1. TypeOK'
    BY DEF TypeOK, AnswerInv, NothingPending
  <2>2. OpenedInv'
    BY DEF TypeOK, OpenedInv
  <2>3. OneInv'
    BY DEF TypeOK, OpenedInv, OneInv, OwnInv, AnswerInv, NothingPending
  <2>4. OwnInv'
    BY DEF TypeOK, OpenedInv, OneInv, OwnInv, AnswerInv, NothingPending
  <2>5. AnswerInv'
    BY DEF AnswerInv
  <2>6. NothingPending'
    BY DEF NothingPending
  <2> QED
    BY <2>1, <2>2, <2>3, <2>4, <2>5, <2>6
<1>4. CASE Fail
  <2> USE <1>4 DEF Fail, Closed, MayRetry, serverVars
  <2>1. TypeOK'
    <3>1. conn' \in 0 .. MaxConns
      BY DEF TypeOK
    <3>2. pc' \in {"open", "idle"}
      OBVIOUS
    <3>3. retried' \in BOOLEAN
      BY DEF TypeOK
    <3> QED
      BY <3>1, <3>2, <3>3 DEF TypeOK
  <2>2. OpenedInv'
    BY DEF TypeOK, OpenedInv
  <2>3. OneInv'
    BY DEF OneInv
  <2>4. OwnInv'
    BY DEF OwnInv
  <2>5. AnswerInv'
    BY DEF AnswerInv
  <2>6. NothingPending'
    BY DEF NothingPending
  <2> QED
    BY <2>1, <2>2, <2>3, <2>4, <2>5, <2>6
<1>5. CASE Read
  <2> USE <1>5 DEF Read, ReadReply
  <2>1. TypeOK'
    BY DEF TypeOK, OneInv
  <2>2. OpenedInv'
    BY DEF OpenedInv
  <2>3. OneInv'
    BY DEF TypeOK, OneInv
  <2>4. OwnInv'
    BY DEF OwnInv
  <2>5. AnswerInv'
    BY DEF OwnInv, AnswerInv
  <2>6. NothingPending'
    BY DEF TypeOK, OneInv, NothingPending
  <2> QED
    BY <2>1, <2>2, <2>3, <2>4, <2>5, <2>6
<1> QED
  BY <1>1, <1>2, <1>3, <1>4, <1>5 DEF ClientStep

\* The server answers on the connection the request came on, once.
LEMMA ServerMatches ==
  ASSUME MatchInv, NEW n \in Connections, Execute(n) \/ Break(n)
  PROVE  MatchInv'
<1> USE BoundsAssumption, Single, CallsAndConnections DEF MatchInv
<1>1. CASE Execute(n)
  <2> USE <1>1 DEF Execute, clientVars
  <2>1. TypeOK'
    BY DEF TypeOK
  <2>2. OpenedInv'
    BY DEF OpenedInv
  <2>3. OneInv'
    BY DEF TypeOK, OneInv
  <2>4. OwnInv'
    BY DEF TypeOK, OneInv, OwnInv
  <2>5. AnswerInv'
    BY DEF AnswerInv
  <2>6. NothingPending'
    BY DEF NothingPending
  <2> QED
    BY <2>1, <2>2, <2>3, <2>4, <2>5, <2>6
<1>2. CASE Break(n)
  <2> USE <1>2 DEF Break, clientVars
  <2>1. TypeOK'
    BY DEF TypeOK
  <2>2. OpenedInv'
    BY DEF TypeOK, OpenedInv
  <2>3. OneInv'
    BY DEF TypeOK, OneInv
  <2>4. OwnInv'
    BY DEF TypeOK, OwnInv
  <2>5. AnswerInv'
    BY DEF AnswerInv
  <2>6. NothingPending'
    BY DEF TypeOK, NothingPending
  <2> QED
    BY <2>1, <2>2, <2>3, <2>4, <2>5, <2>6
<1> QED
  BY <1>1, <1>2

LEMMA Matches == Spec => []MatchInv
<1>1. MatchInv /\ [Next]_vars => MatchInv'
  <2> SUFFICES ASSUME MatchInv, [Next]_vars
               PROVE  MatchInv'
    OBVIOUS
  <2>1. CASE UNCHANGED vars
    BY <2>1 DEF vars, clientVars, serverVars, MatchInv, TypeOK, OpenedInv, OneInv, OwnInv,
                AnswerInv, NothingPending
  <2> QED
    BY <2>1, ClientMatches, ServerMatches DEF Next
<1> QED
  BY InitMatches, <1>1, PTL DEF Spec

\* Every variable keeps to the values its counterpart in redis_client may hold.
THEOREM TypeCorrect == Spec => []TypeOK
  BY Matches, PTL DEF MatchInv

\* Whatever is lost or late, the open connection carries nothing between two
\* attempts (redis_client.cpp:410-459).
THEOREM NothingIsPending == Spec => []NothingPending
  BY Matches, PTL DEF MatchInv

\* A call never returns the answer of another call (redis_client.cpp:401-462).
THEOREM AnswersAreOwn == Spec => []AnswersMatch
<1>1. MatchInv => AnswersMatch
  BY DEF MatchInv, AnswerInv, AnswersMatch
<1> QED
  BY Matches, <1>1, PTL

-------------------------------------------------------------------------------
(* How often a request is carried out.                                         *)

LEMMA ConnectionsFinite ==
  ASSUME NEW S \in SUBSET Connections
  PROVE  IsFiniteSet(S) /\ Cardinality(S) \in Nat
<1>1. IsFiniteSet(Connections)
  <2>1. 1 \in Int /\ MaxConns \in Int
    BY BoundsAssumption
  <2> QED
    BY <2>1, FS_Interval DEF Connections
<1>2. IsFiniteSet(S)
  BY <1>1, FS_Subset
<1> QED
  BY <1>2, FS_CardinalityType

LEMMA AttemptsType ==
  ASSUME TypeOK
  PROVE  /\ Attempts \in 0 .. 2
         /\ \A k \in Calls : Bound(k) \in 0 .. 2
<1>1. Attempts \in 0 .. 2
  BY DEF Attempts
<1> QED
  BY <1>1 DEF Bound

LEMMA InitCounts == Init => CountInv /\ CauseInv
<1> SUFFICES ASSUME Init
             PROVE  CountInv /\ CauseInv
  OBVIOUS
<1> USE DEF Init
<1>1. ASSUME NEW k \in Calls
      PROVE  executed[k] + Cardinality(Pending(k)) <= Bound(k)
  <2>1. Pending(k) = {}
    BY Single DEF Pending
  <2>2. Cardinality(Pending(k)) = 0
    BY <2>1, FS_EmptySet
  <2>3. executed[k] = 0 /\ Bound(k) = 0
    BY CallsAndConnections DEF Bound
  <2> QED
    BY <2>2, <2>3
<1>2. CauseInv
  BY Single DEF CauseInv
<1> QED
  BY <1>1, <1>2 DEF CountInv

\* Without a new request or execution the counts stay, and so does the invariant
\* if the bound does not fall.
LEMMA SameCounts ==
  ASSUME TypeOK, TypeOK', CountInv, UNCHANGED <<requests, executed>>,
         \A k \in Calls : Bound(k) <= Bound(k)'
  PROVE  CountInv'
<1> SUFFICES ASSUME NEW k \in Calls
             PROVE  (executed[k] + Cardinality(Pending(k)) <= Bound(k))'
  BY DEF CountInv
<1>1. Pending(k)' = Pending(k) /\ executed'[k] = executed[k] /\ executed[k] \in Nat
  BY DEF Pending, TypeOK
<1>2. Pending(k) \in SUBSET Connections
  BY DEF Pending
<1>3. Cardinality(Pending(k)) \in Nat
  BY <1>2, ConnectionsFinite
<1>4. Bound(k) \in 0 .. 2 /\ Bound(k)' \in 0 .. 2
  BY AttemptsType DEF Bound, Attempts, TypeOK
<1>5. executed[k] + Cardinality(Pending(k)) <= Bound(k)
  BY DEF CountInv
<1> QED
  BY <1>1, <1>3, <1>4, <1>5

\* A write adds one attempt and at most one request, and only for the call.
LEMMA WriteCounts ==
  ASSUME MatchInv, MatchInv', CountInv, Write
  PROVE  CountInv'
<1> USE DEF MatchInv
<1>1. call \in Calls /\ conn \in Connections /\ requests[conn] = <<>>
  BY CallsAndConnections DEF Write, AnswerInv, TypeOK, NothingPending
<1>2. Attempts \in 0 .. 2 /\ Attempts' = Attempts + 1
  BY DEF Write, Attempts
<1>3. call \in Nat
  BY <1>1, CallsAndConnections
<1>4. CASE conn \in broken
  <2>1. UNCHANGED <<requests, executed>>
    BY <1>4 DEF Write
  <2>2. \A k \in Calls : Bound(k) <= Bound(k)'
    BY <1>2 DEF Bound, Write
  <2> QED
    BY <2>1, <2>2, SameCounts
<1>5. CASE conn \notin broken
  <2> SUFFICES ASSUME NEW k \in Calls
               PROVE  (executed[k] + Cardinality(Pending(k)) <= Bound(k))'
    BY DEF CountInv
  <2>1. requests' = [requests EXCEPT ![conn] = <<call>>]
    BY <1>1, <1>5, Single DEF Write
  <2>2. Pending(k) \in SUBSET Connections /\ conn \notin Pending(k)
    BY <1>1, Single DEF Pending
  <2>3. Cardinality(Pending(k)) \in Nat /\ IsFiniteSet(Pending(k))
    BY <2>2, ConnectionsFinite
  <2>4. executed'[k] = executed[k] /\ executed[k] \in Nat /\ Bound(k) \in 0 .. 2
    BY AttemptsType DEF Write, TypeOK
  <2>5. executed[k] + Cardinality(Pending(k)) <= Bound(k)
    BY DEF CountInv
  <2>6. CASE k = call
    <3>1. Pending(k)' = Pending(k) \cup {conn}
      BY <1>1, <2>1, <2>6 DEF Pending, TypeOK
    <3>2. Cardinality(Pending(k))' = Cardinality(Pending(k)) + 1
      BY <2>2, <2>3, <3>1, FS_AddElement
    <3>3. Bound(k)' = Bound(k) + 1
      BY <1>2, <1>3, <2>6 DEF Bound, Write
    <3> QED
      BY <2>3, <2>4, <2>5, <3>2, <3>3
  <2>7. CASE k # call
    <3>1. Pending(k)' = Pending(k)
      <4>1. <<call>> # <<k>> /\ <<>> # <<k>>
        BY <2>7
      <4> QED
        BY <1>1, <2>1, <4>1 DEF Pending, TypeOK
    <3>2. Bound(k)' = Bound(k)
      BY <2>7 DEF Bound, Write
    <3> QED
      BY <2>4, <2>5, <3>1, <3>2
  <2> QED
    BY <2>6, <2>7
<1> QED
  BY <1>4, <1>5

\* The server carries out a request that was pending, and then it is not.
LEMMA ExecuteCounts ==
  ASSUME MatchInv, CountInv, NEW n \in Connections, Execute(n)
  PROVE  CountInv'
<1> USE DEF MatchInv
<1>1. PICK j \in Calls : requests[n] = <<j>>
  BY DEF Execute, OneInv
<1>2. /\ requests' = [requests EXCEPT ![n] = <<>>]
      /\ executed' = [executed EXCEPT ![j] = @ + 1]
  BY <1>1, Single DEF Execute
<1> SUFFICES ASSUME NEW k \in Calls
             PROVE  (executed[k] + Cardinality(Pending(k)) <= Bound(k))'
  BY DEF CountInv
<1>3. Pending(k) \in SUBSET Connections
  BY DEF Pending
<1>4. Cardinality(Pending(k)) \in Nat /\ IsFiniteSet(Pending(k))
  BY <1>3, ConnectionsFinite
<1>5. executed[k] \in Nat /\ Bound(k)' = Bound(k) /\ Bound(k) \in 0 .. 2
  BY AttemptsType DEF Execute, TypeOK, Bound, Attempts, clientVars
<1>6. executed[k] + Cardinality(Pending(k)) <= Bound(k)
  BY DEF CountInv
<1>7. CASE k = j
  <2>1. Pending(k)' = Pending(k) \ {n} /\ n \in Pending(k)
    BY <1>1, <1>2, <1>7, Single DEF Pending, TypeOK
  <2>2. Cardinality(Pending(k))' = Cardinality(Pending(k)) - 1
    BY <1>4, <2>1, FS_RemoveElement
  <2>3. executed'[k] = executed[k] + 1
    BY <1>2, <1>7 DEF TypeOK
  <2> QED
    BY <1>4, <1>5, <1>6, <2>2, <2>3
<1>8. CASE k # j
  <2>1. Pending(k)' = Pending(k)
    <3>1. <<j>> # <<k>> /\ <<>> # <<k>>
      BY <1>8
    <3> QED
      BY <1>1, <1>2, <3>1 DEF Pending, TypeOK
  <2>2. executed'[k] = executed[k]
    BY <1>2, <1>8 DEF TypeOK
  <2> QED
    BY <1>5, <1>6, <2>1, <2>2
<1> QED
  BY <1>7, <1>8

\* A lost connection may only take requests away.
LEMMA BreakCounts ==
  ASSUME MatchInv, CountInv, NEW n \in Connections, Break(n)
  PROVE  CountInv'
<1> USE DEF MatchInv
<1> SUFFICES ASSUME NEW k \in Calls
             PROVE  (executed[k] + Cardinality(Pending(k)) <= Bound(k))'
  BY DEF CountInv
<1>1. Pending(k) \in SUBSET Connections
  BY DEF Pending
<1>2. Cardinality(Pending(k)) \in Nat /\ IsFiniteSet(Pending(k))
  BY <1>1, ConnectionsFinite
<1>3. Pending(k)' \in SUBSET Pending(k)
  BY Single DEF Break, Pending, TypeOK
<1>4. Cardinality(Pending(k))' \in Nat /\ Cardinality(Pending(k))' <= Cardinality(Pending(k))
  <2>1. Cardinality(Pending(k)') <= Cardinality(Pending(k)) /\ IsFiniteSet(Pending(k)')
    BY <1>2, <1>3, FS_Subset
  <2> QED
    BY <2>1, FS_CardinalityType
<1>5. executed'[k] = executed[k] /\ executed[k] \in Nat /\ Bound(k)' = Bound(k) /\ Bound(k) \in 0 .. 2
  BY AttemptsType DEF Break, TypeOK, Bound, Attempts, clientVars
<1>6. executed[k] + Cardinality(Pending(k)) <= Bound(k)
  BY DEF CountInv
<1> QED
  BY <1>2, <1>4, <1>5, <1>6

\* The other steps of the client write nothing, and end no attempt uncounted.
LEMMA OtherCounts ==
  ASSUME MatchInv, MatchInv', CountInv, Run \/ Open \/ Fail \/ Read
  PROVE  CountInv'
<1> USE DEF MatchInv
<1>1. UNCHANGED <<requests, executed>>
  BY DEF Run, Open, Fail, Read, ReadReply, serverVars
<1>2. call \in Nat /\ \A k \in Calls : k \in Nat
  BY CallsAndConnections DEF TypeOK
<1>3. Attempts \in 0 .. 2 /\ Attempts' \in 0 .. 2
  BY DEF Attempts
<1>4. CASE Run
  <2>1. call' = call + 1
    BY <1>4 DEF Run
  <2> QED
    BY <1>1, <1>2, <1>3, <2>1, SameCounts DEF Bound
<1>5. CASE Open \/ Fail \/ Read
  <2>1. call' = call
    BY <1>5 DEF Open, Fail, Read
  <2>2. Attempts <= Attempts'
    <3>1. CASE Open
      BY <3>1, <1>3 DEF Open, Attempts, AfterFailedOpen
    <3>2. CASE Fail
      BY <3>2, <1>3 DEF Fail, Attempts, MayRetry
    <3>3. CASE Read
      BY <3>3, <1>3 DEF Read, Attempts
    <3> QED
      BY <1>5, <3>1, <3>2, <3>3
  <2> QED
    BY <1>1, <1>3, <2>1, <2>2, SameCounts DEF Bound
<1> QED
  BY <1>4, <1>5

\* An answer is put on a connection only after its request was carried out.
LEMMA Causes ==
  ASSUME MatchInv, CauseInv, [Next]_vars
  PROVE  CauseInv'
<1> USE BoundsAssumption, Single, CallsAndConnections DEF MatchInv
<1>1. CASE Run \/ Open \/ Write \/ Fail
  BY <1>1 DEF Run, Open, Write, Fail, CauseInv, serverVars
<1>2. CASE Read
  <2>1. conn \in Connections
    BY <1>2 DEF Read, TypeOK
  <2>2. PICK k \in Calls : replies[conn] = <<k>>
    BY <1>2, <2>1 DEF Read, ReadReply, OneInv
  <2>3. answer' = k /\ replies' = [replies EXCEPT ![conn] = <<>>] /\ executed' = executed
    BY <1>2, <2>2 DEF Read, ReadReply
  <2> QED
    BY <2>1, <2>2, <2>3 DEF CauseInv, TypeOK
<1>3. ASSUME NEW n \in Connections, Execute(n)
      PROVE  CauseInv'
  <2>1. PICK j \in Calls : requests[n] = <<j>>
    BY <1>3 DEF Execute, OneInv
  <2>2. replies[n] = <<>>
    BY <2>1 DEF OneInv
  <2>3. /\ executed' = [executed EXCEPT ![j] = @ + 1] /\ answer' = answer
        /\ replies' \in {replies, [replies EXCEPT ![n] = <<j>>]}
    BY <1>3, <2>1, <2>2 DEF Execute, clientVars
  <2>4. \A k \in Calls : executed[k] > 0 => executed'[k] > 0
    BY <2>3 DEF TypeOK
  <2>5. executed'[j] > 0
    BY <2>3 DEF TypeOK
  <2>6. answer' # 0 => executed'[answer'] > 0
    BY <2>3, <2>4 DEF CauseInv, TypeOK
  <2>7. \A m \in Connections : \A k \in Calls : replies'[m] = <<k>> => executed'[k] > 0
    BY <2>3, <2>4, <2>5 DEF CauseInv, TypeOK
  <2> QED
    BY <2>6, <2>7 DEF CauseInv
<1>4. ASSUME NEW n \in Connections, Break(n)
      PROVE  CauseInv'
  BY <1>4 DEF Break, CauseInv, TypeOK, clientVars
<1>5. CASE UNCHANGED vars
  BY <1>5 DEF vars, clientVars, serverVars, CauseInv
<1> QED
  BY <1>1, <1>2, <1>3, <1>4, <1>5 DEF Next, ClientStep

LEMMA Counts == Spec => [](CountInv /\ CauseInv)
<1>1. MatchInv /\ MatchInv' /\ CountInv /\ CauseInv /\ [Next]_vars
        => (CountInv /\ CauseInv)'
  <2> SUFFICES ASSUME MatchInv, MatchInv', CountInv, CauseInv, [Next]_vars
               PROVE  (CountInv /\ CauseInv)'
    OBVIOUS
  <2>1. CauseInv'
    BY Causes
  <2>2. CASE UNCHANGED vars
    <3>1. UNCHANGED <<requests, executed, call>> /\ Attempts' = Attempts
      BY <2>2 DEF vars, clientVars, serverVars, Attempts
    <3>2. \A k \in Calls : Pending(k)' = Pending(k) /\ Bound(k)' = Bound(k)
      BY <3>1 DEF Pending, Bound
    <3>3. CountInv'
      BY <3>1, <3>2 DEF CountInv
    <3> QED
      BY <2>1, <3>3
  <2>3. CASE \E n \in Connections : Execute(n) \/ Break(n)
    <3>1. PICK n \in Connections : Execute(n) \/ Break(n)
      BY <2>3
    <3>2. ASSUME Execute(n)
          PROVE  CountInv'
      BY <3>2, ExecuteCounts
    <3>3. ASSUME Break(n)
          PROVE  CountInv'
      BY <3>3, BreakCounts
    <3> QED
      BY <2>1, <3>1, <3>2, <3>3
  <2>4. CASE Run \/ ClientStep
    <3>1. CountInv'
      BY <2>4, WriteCounts, OtherCounts DEF ClientStep
    <3> QED
      BY <2>1, <3>1
  <2> QED
    BY <2>2, <2>3, <2>4 DEF Next
<1> QED
  BY InitCounts, Matches, <1>1, PTL DEF Spec

\* A request that was answered has been carried out, and none more than twice, for
\* any number of calls and connections (redis_client.cpp:401-462).
THEOREM RequestsCarriedOut == Spec => []CarriedOut
<1>1. MatchInv /\ CountInv /\ CauseInv => CarriedOut
  <2> SUFFICES ASSUME MatchInv, CountInv, CauseInv, NEW k \in Calls
               PROVE  executed[k] <= 2
    BY DEF CarriedOut, CauseInv
  <2>1. Pending(k) \in SUBSET Connections
    BY DEF Pending
  <2>2. Cardinality(Pending(k)) \in Nat
    BY <2>1, ConnectionsFinite
  <2>3. executed[k] \in Nat /\ Bound(k) \in 0 .. 2
    BY AttemptsType DEF MatchInv, TypeOK
  <2> QED
    BY <2>2, <2>3 DEF CountInv
<1> QED
  BY Matches, Counts, <1>1, PTL

===============================================================================
