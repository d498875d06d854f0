------------------------------ MODULE MCLease ------------------------------
(* Lease for two processes, with the shortest TTL its assumptions allow.    *)
EXTENDS Lease

CONSTANTS o1, o2

=============================================================================
