------------------------------ MODULE EventOps ------------------------------
(***************************************************************************)
(* The vocabulary of pkg/events shared by the concrete event log           *)
(* (EventLog) and by what it promises (AtomicLog): subjects, OCC guards,    *)
(* the logical operations that writers perform, and the records they store.*)
(*                                                                         *)
(* An operation is the work of one caller: the records it wants to append   *)
(* (one subject per record, with record IDs that stay stable over retries), *)
(* the OCC guards its decision depends on, and whether it goes through      *)
(* ExecuteMutation, which retries conflicts, or through AppendAt,           *)
(* AppendBatch or AppendEventually, which report them to the caller.        *)
(***************************************************************************)
EXTENDS Integers, Sequences, FiniteSets

CONSTANTS
    Writers,      \* the callers; each performs one logical operation
    Subjects,     \* NATS subjects of the EVT stream
    Bodies,       \* the subjects of message bodies, the only deletable records
    Op,           \* Writers -> operation
    MaxCalls      \* how often a caller may issue its operation (bound)

(* A guard names the tail that must not move: the last sequence of the      *)
(* messages matching a subject filter, or the last sequence of the stream.  *)
SubjectGuard(f) == [kind |-> "subject", filter |-> f]
StreamGuard == [kind |-> "stream", filter |-> Subjects]
Guards == {SubjectGuard(f) : f \in SUBSET Subjects} \cup {StreamGuard}

Operations == [mutation : BOOLEAN, guards : SUBSET Guards, subjects : Seq(Subjects)]

ASSUME OpAssumption ==
    /\ MaxCalls \in Nat \ {0}
    /\ Bodies \subseteq Subjects
    /\ Op \in [Writers -> Operations]
    /\ \A w \in Writers :
         /\ Len(Op[w].subjects) > 0
         \* The first record is the fact that makes the operation visible.
         /\ Op[w].subjects[1] \notin Bodies
         \* ExecuteMutation applies one boundary; AppendBatch may guard each
         \* of its entries.
         /\ Op[w].mutation => \A g, h \in Op[w].guards : g = h

GuardsInUse == UNION {Op[w].guards : w \in Writers}

(* Per guard a sequence; zero when the guard covers no record, and Unread    *)
(* when the operation does not use it or has not read it yet.                *)
Unread == -1
Tails == [GuardsInUse -> Nat \cup {Unread}]

Parts(w) == DOMAIN Op[w].subjects
Guarded(w) == Op[w].guards # {}

(* The operation's own fact lies within one of its guards, as in every      *)
(* caller that serializes on its aggregate's all-events filter.             *)
Covers(w, g) == g \in Op[w].guards /\ Op[w].subjects[1] \in g.filter
Covered(w) == \E g \in Op[w].guards : Covers(w, g)

(* Among the first n records of lg, e is the last one that g covers; zero   *)
(* when there is none.                                                      *)
TailIn(lg, n, g, e) ==
    /\ e \in 0 .. n
    /\ e # 0 => lg[e].subject \in g.filter
    /\ \A q \in 1 .. n : q > e => lg[q].subject \notin g.filter

(* The fact of w's operation is among the first n records of lg.            *)
Stored(lg, n, w) == \E q \in 1 .. n : lg[q].op = w /\ lg[q].part = 1

(* The records that one publish of w's operation stores. "basis" is the     *)
(* state the decision was made on: per guard, the last sequence the         *)
(* decision had seen. "call" tells which call of the operation it was.      *)
Record(w, c, b, i) ==
    [op |-> w, call |-> c, part |-> i, subject |-> Op[w].subjects[i], basis |-> b]
Records(w, c, b) == [i \in Parts(w) |-> Record(w, c, b, i)]
=============================================================================
