------------------------------ MODULE MCQueue ------------------------------
(* Instances of Queue for TLC. *)
EXTENDS Queue, TLC

\* What a callback may report of a batch of two: both in the other order, the
\* first twice, and nothing that counts, for indices beside the batch are skipped.
MCReports == {<<1, 0>>, <<0, 0>>, <<-1, 2>>}

\* A callback that reports the first event, or none, or names it twice.
MCTakeOrLeave == {<<>>, <<0>>, <<0, 0>>}

Symmetry == Permutations(Consumers) \cup Permutations(Publications)
=============================================================================
