----------------------------- MODULE MCDatabase -----------------------------
(* Instance of Database for TLC: the values of its constants are in the .cfg. *)
(* Two users and two disconnects, the second of them final. *)
EXTENDS Database
=============================================================================
