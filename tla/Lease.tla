------------------------------- MODULE Lease --------------------------------
(***************************************************************************)
(* What a lock with a duration promises: it is given to one holder at a    *)
(* time, for a duration; it comes free when its holder gives it back, or,  *)
(* if the holder has left without doing so, when the duration is over.     *)
(* Nobody but the holder gives it back, and it is not taken from a holder. *)
(***************************************************************************)
EXTENDS Naturals

CONSTANTS Holders, Terms    \* a term of 0 has no end

VARIABLES
  holders,     \* who has the lock
  taken,       \* whether it is unavailable
  left         \* what is left of the term, 0: no end

leaseVars == <<holders, taken, left>>

LeaseInit == holders = {} /\ taken = FALSE /\ left = 0

Grant(h, t) ==
  /\ ~taken /\ holders = {}
  /\ holders' = {h} /\ taken' = TRUE /\ left' = t

GiveBack(h) ==
  /\ h \in holders
  /\ holders' = {} /\ taken' = FALSE /\ left' = 0

\* The holder leaves, and the lock stays unavailable.
Leave(h) ==
  /\ h \in holders
  /\ holders' = {} /\ UNCHANGED <<taken, left>>

\* The term of a holder does not end under it.
Pass ==
  /\ left > 0 /\ (left = 1 => holders = {})
  /\ left' = left - 1 /\ taken' = (left # 1)
  /\ UNCHANGED holders

LeaseNext ==
  \/ \E h \in Holders : GiveBack(h) \/ Leave(h) \/ \E t \in Terms : Grant(h, t)
  \/ Pass

LeaseSpec == LeaseInit /\ [][LeaseNext]_leaseVars
=============================================================================
