--------------------------- MODULE ExclusiveWork ---------------------------
(***************************************************************************)
(* What a lease promises the background work it protects: one owner at a    *)
(* time, work that begins only while its owner holds the lease, and a lease *)
(* that is not given up, or taken away, before that work has stopped.       *)
(***************************************************************************)
CONSTANTS
    Owners,
    NoOne        \* holder of a free lease

VARIABLES
    holder,      \* the owner, or NoOne
    workers      \* owners whose work is running

Init ==
    /\ holder = NoOne
    /\ workers = {}

Take(o) ==
    /\ holder = NoOne /\ workers = {}
    /\ holder' = o
    /\ UNCHANGED workers

Begin(o) ==
    /\ holder = o /\ workers = {}
    /\ workers' = {o}
    /\ UNCHANGED holder

End(o) ==
    /\ workers = {o}
    /\ workers' = {}
    /\ UNCHANGED holder

GiveUp(o) ==
    /\ holder = o /\ workers = {}
    /\ holder' = NoOne
    /\ UNCHANGED workers

Next == \E o \in Owners : Take(o) \/ Begin(o) \/ End(o) \/ GiveUp(o)

Spec == Init /\ [][Next]_<<holder, workers>>
=============================================================================
