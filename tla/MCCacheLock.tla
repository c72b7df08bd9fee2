---------------------------- MODULE MCCacheLock -----------------------------
(* Instance of CacheLock for TLC: the values of its constants are in the .cfg. *)
(* Three clients; durations of none, two and three steps of the clock. *)
EXTENDS CacheLock
=============================================================================
