---------------------------- MODULE UnitOfWork -----------------------------
(***************************************************************************)
(* What a transaction promises to whoever reads the database: a unit of    *)
(* work shows nothing while it is open, and is decided once, when either   *)
(* all it wrote shows or nothing of it ever does.                          *)
(***************************************************************************)
CONSTANTS Units, Items

VARIABLES
  contents,    \* what each unit has written
  fate,        \* "open", "committed" or "dropped"
  visible      \* what readers see

absVars == <<contents, fate, visible>>

AbsInit ==
  /\ contents = [u \in Units |-> {}]
  /\ fate = [u \in Units |-> "open"]
  /\ visible = {}

Write(u) ==
  /\ fate[u] = "open"
  /\ \E i \in Items : contents' = [contents EXCEPT ![u] = @ \cup {i}]
  /\ UNCHANGED <<fate, visible>>

Commit(u) ==
  /\ fate[u] = "open"
  /\ fate' = [fate EXCEPT ![u] = "committed"]
  /\ visible' = visible \cup contents[u]
  /\ UNCHANGED contents

Drop(u) ==
  /\ fate[u] = "open"
  /\ fate' = [fate EXCEPT ![u] = "dropped"]
  /\ UNCHANGED <<contents, visible>>

AbsNext == \E u \in Units : Write(u) \/ Commit(u) \/ Drop(u)

AbsSpec == AbsInit /\ [][AbsNext]_absVars
=============================================================================
