------------------------ MODULE MCSnapshotRepository ------------------------
(* Two savers and a loader; a stream with two cutoffs that is recreated once. *)
EXTENDS SnapshotRepository, TLC

CONSTANTS s1, s2, l1, p1, p2

MCRanges == {[cutoff |-> 1, identity |-> 1], [cutoff |-> 2, identity |-> 1],
             [cutoff |-> 1, identity |-> 2]}

SwapSaversAndParts == Permutations(Savers) \cup Permutations(Parts)
=============================================================================
