----------------------------- MODULE MCEventBus -----------------------------
(***************************************************************************)
(* Instance of EventBus for TLC.  Event types and threads are              *)
(* interchangeable: nothing compares or orders them.                       *)
(***************************************************************************)
EXTENDS EventBus, TLC

Symmetry == Permutations(EventType) \union Permutations(Publisher)

=============================================================================
