----------------------------- MODULE AtomicLog ------------------------------
(***************************************************************************)
(* What ExecuteMutation, AppendAt and AppendBatch promise their callers: an *)
(* append-only log to which every operation is applied in one indivisible   *)
(* step, as if its decision had been made on the state it was appended to.  *)
(***************************************************************************)
EXTENDS EventOps

VARIABLE log        \* every record ever stored, in stream order

Init == log = << >>

(* All records of one operation land next to each other. For every guard,   *)
(* the decision had seen exactly the tail that the log has now; and an       *)
(* operation that guards its own fact is applied once, however often its     *)
(* caller asks for it.                                                       *)
Apply(w) ==
    /\ log' # log
    /\ Covered(w) => ~Stored(log, Len(log), w)
    /\ \E c \in 1 .. MaxCalls, b \in [GuardsInUse -> Unread .. Len(log)] :
         /\ log' = log \o Records(w, c, b)
         /\ \A g \in Op[w].guards : TailIn(log, Len(log), g, b[g])

Next == \E w \in Writers : Apply(w)

Spec == Init /\ [][Next]_log
=============================================================================
