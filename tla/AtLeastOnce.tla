---------------------------- MODULE AtLeastOnce ----------------------------
(***************************************************************************)
(* What package queue promises about a message: once it is in the stream   *)
(* it leaves the hands of the queue only because a callback reported it as *)
(* processed, or because it grew older than the stream keeps messages.     *)
(* How often it is handed to callbacks on the way is not promised.         *)
(***************************************************************************)
VARIABLES
  stored,      \* the messages in the stream
  accepted,    \* the messages some callback reported as processed
  settled,     \* the messages that will not be handed out again
  discarded    \* the messages that grew too old

absVars == <<stored, accepted, settled, discarded>>

AbsInit == stored = {} /\ accepted = {} /\ settled = {} /\ discarded = {}

Put == /\ stored \subseteq stored'
       /\ UNCHANGED <<accepted, settled, discarded>>

Accept == /\ accepted \subseteq accepted' /\ accepted' \subseteq stored
          /\ UNCHANGED <<stored, settled, discarded>>

Settle == /\ \E s \in accepted \ discarded : settled' = settled \cup {s}
          /\ UNCHANGED <<stored, accepted, discarded>>

Discard == /\ \E s \in stored \ settled : discarded' = discarded \cup {s}
           /\ UNCHANGED <<stored, accepted, settled>>

AbsNext == Put \/ Accept \/ Settle \/ Discard

AbsSpec == AbsInit /\ [][AbsNext]_absVars
=============================================================================
