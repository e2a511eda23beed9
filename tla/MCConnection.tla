---------------------------- MODULE MCConnection ----------------------------
(* Instances of Connection for TLC. *)
EXTENDS Connection
OneOne == [client |-> 1, server |-> 1]
=============================================================================
