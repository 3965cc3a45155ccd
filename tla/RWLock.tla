-------------------------------- MODULE RWLock --------------------------------
(* What a readers-writers lock promises.                                       *)
CONSTANT Clients

VARIABLES reading, writing   \* the clients that are inside

vars == <<reading, writing>>

Init == reading = {} /\ writing = {}

StartRead(c) ==
  c \notin reading /\ writing = {} /\ reading' = reading \cup {c} /\ UNCHANGED writing
StartWrite(c) ==
  reading = {} /\ writing = {} /\ writing' = {c} /\ UNCHANGED reading
EndRead(c) == c \in reading /\ reading' = reading \ {c} /\ UNCHANGED writing
EndWrite(c) == c \in writing /\ writing' = {} /\ UNCHANGED reading

Next == \E c \in Clients : StartRead(c) \/ StartWrite(c) \/ EndRead(c) \/ EndWrite(c)

Spec == Init /\ [][Next]_vars

===============================================================================
