----------------------------- MODULE RoomService -----------------------------
(* What RoomManager of ChatServerAcl promises to the clients: rooms with       *)
(* RoomSize places, served one request at a time.  A request changes the       *)
(* membership at once; then everybody who is in the room is told, notice by    *)
(* notice, before the next request is served.                                  *)
EXTENDS Naturals, Sequences, FiniteSets

CONSTANTS Clients, Users, Rooms, None, RoomSize

VARIABLES
  members,    \* members[r]: the users in room r
  client,     \* the client that is served, or None
  room,       \* the room it is served for, or None
  notices,    \* what the members of the room have still to be told
  untold      \* the members that the first of the notices has not reached yet

vars == <<members, client, room, notices, untold>>

Init ==
  /\ members = [r \in Rooms |-> {}]
  /\ client = None /\ room = None /\ notices = <<>> /\ untold = {}

Serve(c, r) ==
  /\ client = None
  /\ client' = c /\ room' = r

Enter(c, u, r) ==
  /\ Serve(c, r)
  /\ Cardinality(members[r]) < RoomSize
  /\ members' = [members EXCEPT ![r] = @ \cup {u}]
  /\ notices' = <<"list", "joined">> /\ untold' = {}

Leave(c, u, r) ==
  /\ Serve(c, r)
  /\ members' = [members EXCEPT ![r] = @ \ {u}]
  /\ notices' = <<"left", "list">> /\ untold' = {}

\* The message goes to the members at once; in an empty room there are none.
Chat(c, r) ==
  /\ Serve(c, r)
  /\ notices' = IF members[r] = {} THEN <<>> ELSE <<"chat">>
  /\ untold' = members[r]
  /\ UNCHANGED members

StartNotice ==
  /\ notices # <<>> /\ untold = {}
  /\ IF members[room] = {} THEN notices' = Tail(notices) /\ UNCHANGED untold
                           ELSE untold' = members[room] /\ UNCHANGED notices
  /\ UNCHANGED <<members, client, room>>

Tell(u) ==
  /\ u \in untold
  /\ untold' = untold \ {u}
  /\ notices' = IF untold' = {} THEN Tail(notices) ELSE notices
  /\ UNCHANGED <<members, client, room>>

Finish ==
  /\ client # None /\ notices = <<>>
  /\ client' = None /\ room' = None
  /\ UNCHANGED <<members, notices, untold>>

Next ==
  \/ \E c \in Clients, r \in Rooms :
       Chat(c, r) \/ \E u \in Users : Enter(c, u, r) \/ Leave(c, u, r)
  \/ StartNotice \/ Finish \/ \E u \in Users : Tell(u)

Spec == Init /\ [][Next]_vars

===============================================================================
