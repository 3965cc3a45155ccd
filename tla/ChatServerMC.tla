---------------------------- MODULE ChatServerMC ----------------------------
(* Instances of ChatServer for TLC.                                          *)
EXTENDS ChatRooms, TLC
CONSTANTS c1, c2, c3, u1, u2, u3, r1, r2

\* Every client may use any account and ask for any room.
AnyAccount == [c \in Conns |-> Users]
AnyDoor == [c \in Conns |-> Rooms]

\* Every client has an account of its own and one room to go to.
OwnAccount ==
  [c \in Conns |-> CASE c = c1 -> {u1} [] c = c2 -> {u2} [] c = c3 -> {u3}]

\* How many requests a client may send: the last client may also chat when the
\* others only log in and enter.
TwoEach == [c \in Conns |-> 2]
ThreeEach == [c \in Conns |-> 3]
VisitorSends == [c \in Conns |-> IF c = c1 THEN 3 ELSE 2]
LastChats == [c \in Conns |-> IF c = c3 THEN 3 ELSE 2]

\* Clients that may use any account are interchangeable, and so are accounts.
AnySymmetry == Permutations({c1, c2}) \cup Permutations({u1, u2})

\* A client and its own account may change places with another such pair.
Pair(i) == <<{c1, u1}, {c2, u2}, {c3, u3}>>[i]
Conn(i) == <<c1, c2, c3>>[i]
User(i) == <<u1, u2, u3>>[i]
Renaming(p) ==
  [x \in UNION {Pair(i) : i \in 1 .. 3} |->
     LET i == CHOOSE j \in 1 .. 3 : x \in Pair(j)
     IN  IF x = Conn(i) THEN Conn(p[i]) ELSE User(p[i])]
OwnSymmetry == {Renaming(p) : p \in Permutations(1 .. 3)}

\* A bound for the run with three clients: Redis knows all of them.
LoginsSucceed == \A c \in Conns : pc[c] # "denied"

\* A bound for runs in which no client hangs up.
NobodyHangsUp == \A c \in Conns : ~hungup[c]

\* Bounds for a run in which nobody leaves and c1, c2, c3 arrive one after the
\* other, each when the one before is in the room.
OneAfterAnother ==
  /\ NobodyHangsUp
  /\ \A i \in 2 .. 3 : Conn(i) \in Conns /\ Live(Conn(i)) =>
                          rooms[r1][User(i - 1)] # None

=============================================================================
