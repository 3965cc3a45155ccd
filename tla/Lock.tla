--------------------------------- MODULE Lock ---------------------------------
(* What every lock of lib_fiber promises: at most one client is inside.        *)
CONSTANT Clients

VARIABLE holders   \* the clients that are inside

Init == holders = {}

Acquire(c) == holders = {} /\ holders' = {c}
Release(c) == holders = {c} /\ holders' = {}

Next == \E c \in Clients : Acquire(c) \/ Release(c)

Spec == Init /\ [][Next]_holders

===============================================================================
