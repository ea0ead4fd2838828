---------------------------- MODULE MCModuleCache ----------------------------
(***************************************************************************)
(* Model-checking instance of ModuleCache: three threads (the root handle  *)
(* and two clones), two wasms that parse and one that does not, costs that *)
(* differ so that a count on the wrong handle shows, and enough memory for *)
(* four compilations, so that a compilation interleaves with another       *)
(* thread's compilation, eviction, clear or clone.                         *)
(***************************************************************************)
EXTENDS ModuleCache

MCCost == [w \in Wasms |-> IF w \in Valid THEN 2 ELSE 1]
=============================================================================
