----------------------------- MODULE MCContainers -----------------------------
(***************************************************************************)
(* Every kind of container, alone.  Orders are the two usual ones, one     *)
(* that holds different numbers equivalent, and one that is not strict.    *)
(***************************************************************************)
EXTENDS Containers

AllKinds == {"array", "map", "set", "queue", "stack", "pqueue"}
AllOrders == {"less", "greater", "parity", "leq"}

===============================================================================
