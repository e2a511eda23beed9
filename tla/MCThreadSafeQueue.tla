-------------------------- MODULE MCThreadSafeQueue --------------------------
(* Instances of ThreadSafeQueue for TLC. *)
EXTENDS ThreadSafeQueue

AllReads == Calls \ Pushes
==============================================================================
