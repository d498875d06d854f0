---------------------------- MODULE MCProjector ----------------------------
(* Small instances of Projector for TLC.                                    *)
EXTENDS Projector

CONSTANT c1

(* Either saved state, with live batches of two; cold replay with live      *)
(* batches and without them; cold replay without them only.                 *)
SavingKinds == {[restore |-> r, live |-> 2] : r \in {"checkpoint", "snapshot"}}
ColdKinds == {[restore |-> "cold", live |-> n] : n \in {0, 2}}
UnbatchedKind == {[restore |-> "cold", live |-> 0]}

AllFaults == {"metadata", "decode", "apply", "run"}
=============================================================================
