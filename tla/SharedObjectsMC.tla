---------------------------- MODULE SharedObjectsMC ----------------------------
(* Instances of SharedObjects for TLC: a thread with two fibers, one with one, *)
(* and a thread without fibers.                                                *)
EXTENDS SharedObjects
CONSTANTS f1, f2, f3, t1, t2, m1, m2, m3

HomeOf == [f \in Fibers |-> IF f = f3 THEN t2 ELSE t1]
Three == <<m1, m2, m3>>
One == <<m1>>

================================================================================
