----------------------------- MODULE MCEventLog -----------------------------
(* Instances of EventLog: two room aggregates, A with a body subject, B.    *)
EXTENDS EventLog, TLC

CONSTANTS w1, w2, w3, w4

MCSubjects == {"A.fact", "A.body", "B.fact"}
MCBodies == {"A.body"}
RoomA == SubjectGuard({"A.fact", "A.body"})
RoomB == SubjectGuard({"B.fact"})

(* Two contending mutations of room A, one of them a batch with a body.     *)
ContendingOps ==
    w1 :> [mutation |-> TRUE, guards |-> {RoomA}, subjects |-> <<"A.fact", "A.body">>]
    @@ w2 :> [mutation |-> TRUE, guards |-> {RoomA}, subjects |-> <<"A.fact">>]

(* A batch guarded by two rooms, a mutation at the stream tail, a fact      *)
(* published without a guard, and a batch that forgot its guard.            *)
MixedOps ==
    w1 :> [mutation |-> FALSE, guards |-> {RoomA, RoomB}, subjects |-> <<"A.fact", "B.fact">>]
    @@ w2 :> [mutation |-> TRUE, guards |-> {StreamGuard}, subjects |-> <<"B.fact">>]
    @@ w3 :> [mutation |-> FALSE, guards |-> {}, subjects |-> <<"A.fact">>]
    @@ w4 :> [mutation |-> FALSE, guards |-> {}, subjects |-> <<"A.fact", "A.body">>]
=============================================================================
