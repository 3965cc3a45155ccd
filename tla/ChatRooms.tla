------------------------------- MODULE ChatRooms -------------------------------
(* The chat server implements RoomService: although EnterRoom and LeaveRoom    *)
(* take and drop room_mutex_ several times and Broadcast sleeps in between,    *)
(* clients see one request served after the other.                             *)
EXTENDS ChatServer

\* The operation of fiber c has got past its first section, or, for a chat, into
\* it; a refused EnterRoom never does.
Served(c) ==
  \/ pc[c] \in {"write", "crashed"}
  \/ pc[c] = "unlock" /\ todo[c] # <<"insert">>
  \/ pc[c] \in {"section", "lock"} /\ todo[c] \notin Operations

ServedFiber ==
  IF \E c \in Conns : Served(c) THEN CHOOSE c \in Conns : Served(c) ELSE None

\* The broadcasts among the sections that are left of an operation.
Broadcasts(sections) ==
  CASE sections \in {EnterRoom, <<"snapshot", "list", "joined">>, <<"list", "joined">>}
         -> <<"list", "joined">>
    [] sections = <<"joined">>
         -> <<"joined">>
    [] sections \in {LeaveRoom, <<"left", "snapshot", "list", "delete">>}
         -> <<"left", "list">>
    [] sections \in {<<"snapshot", "list", "delete">>, <<"list", "delete">>}
         -> <<"list">>
    [] sections = BroadcastMessage
         -> <<"chat">>
    [] OTHER
         -> <<>>

\* The broadcasts that fiber c has still to make or to finish.
BroadcastsLeft(c) == Broadcasts(IF pc[c] = "unlock" THEN Tail(todo[c]) ELSE todo[c])

Service ==
  INSTANCE RoomService WITH
    Clients <- Conns,
    members <- [r \in Rooms |-> Members(r)],
    client  <- ServedFiber,
    room    <- IF ServedFiber = None THEN None ELSE currentRoomNumber[ServedFiber],
    notices <- IF ServedFiber = None THEN <<>> ELSE BroadcastsLeft(ServedFiber),
    untold  <- IF ServedFiber = None THEN {} ELSE targets[ServedFiber]

\* RoomManager serves one request at a time: the membership changes at once, never
\* beyond two users, and stays as it is until everyone in the room has been sent
\* each of the notices once (RoomManager.cpp:8-110).
ImplementsRoomService == Service!Spec

===============================================================================
