--------------------------- MODULE MCTransaction ----------------------------
(* Instance of Transaction for TLC: the values of its constants are in the .cfg. *)
(* Two calls on one connection, the second possibly nested in the first. *)
EXTENDS Transaction
=============================================================================
