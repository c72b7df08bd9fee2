---------------------------- MODULE MCCacheAside ----------------------------
(* Instance of CacheAside for TLC: the values of its constants are in the .cfg. *)
(* Two readers and two writers, entries that live for one step or two. *)
EXTENDS CacheAside
=============================================================================
