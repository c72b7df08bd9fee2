----------------------------- MODULE MCResponse -----------------------------
(* Instances of Response for TLC. *)
EXTENDS Response

AddedMiddlewares == <<"first", "second">>
=============================================================================
