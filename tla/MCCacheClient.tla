--------------------------- MODULE MCCacheClient ----------------------------
(* Instance of CacheClient for TLC: the values of its constants are in the .cfg. *)
(* Two users, one subscriber and two disconnects, the second of them final. *)
EXTENDS CacheClient
=============================================================================
