------------------------------- MODULE MCBooks -------------------------------
(* Instance of Books for TLC: two connections and one book. *)
EXTENDS Books
=============================================================================
