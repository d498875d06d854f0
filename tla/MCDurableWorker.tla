--------------------------- MODULE MCDurableWorker ---------------------------
(* Two processes that share a consumer.                                     *)
EXTENDS DurableWorker, TLC

CONSTANTS w1, w2, m1, m2
=============================================================================
