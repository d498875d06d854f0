------------------------------ MODULE EventLog ------------------------------
(***************************************************************************)
(* EncodedEventLog of pkg/events over one JetStream stream: ExecuteMutation *)
(* with its capture / decide / publish / retry loop, AppendAt, AppendBatch  *)
(* and AppendEventually, for several concurrent writers.                    *)
(*                                                                         *)
(* A publish is a request that travels on its own: the writer may give up   *)
(* waiting (a timeout, a cancelled context) while the request is still on   *)
(* its way, and the caller may then repeat the operation with the same      *)
(* record IDs. JetStream (external) rejects a request whose guards no       *)
(* longer hold, and recognises the IDs of the records still in its          *)
(* de-duplication window. Message bodies are deleted from the stream after  *)
(* later records have superseded them.                                      *)
(*                                                                         *)
(* An operator Name_Variant is a mistaken form of the operator Name that    *)
(* follows it; it is not part of the specification and shows that a         *)
(* property can fail.                                                       *)
(***************************************************************************)
EXTENDS EventOps

CONSTANT MaxAttempts  \* maxMutationAttempts

ASSUME AttemptsAssumption == MaxAttempts \in Nat \ {0}

VARIABLES
    log,          \* every record ever stored, by stream sequence
    deleted,      \* the sequences that were deleted since
    window,       \* the sequences whose record ID is still de-duplicated
    net,          \* the publish requests on their way to the server
    pc,           \* where each writer is
    calls,        \* number of times the caller issued the operation
    attempt,      \* attempt of the current ExecuteMutation
    expected,     \* per guard, its captured tail, or Unread
    basis,        \* per guard, the tail in the state the decision looked at
    reply,        \* the answer to the writer's current request
    result        \* what the last call returned

stream == <<log, deleted, window>>
vars == <<log, deleted, window, net, pc, calls, attempt, expected, basis, reply, result>>

----------------------------------------------------------------------------
(* The stream, as EncodedEventLog uses it.                                  *)

Retained(q) == q \in 1 .. Len(log) /\ q \notin deleted

(* LastSubjectSeq reads the last retained message matching a filter;        *)
(* LastStreamSeq reads the stream's last sequence, deleted or not.          *)
TailIs(g, e) ==
    IF g.kind = "stream"
    THEN e = Len(log)
    ELSE /\ e # 0 => Retained(e) /\ log[e].subject \in g.filter
         /\ \A q \in 1 .. Len(log) :
              q > e /\ Retained(q) => log[q].subject \notin g.filter

(* The server commits a write only when each guarded tail still has its     *)
(* expected last sequence.                                                  *)
GuardsHold(w, e) == \A g \in Op[w].guards : TailIs(g, e[g])

(* The stored record that makes the server recognise part i as a duplicate. *)
Recognised(w, i, q) == q \in window /\ log[q].op = w /\ log[q].part = i

----------------------------------------------------------------------------
NoTails == [g \in GuardsInUse |-> Unread]
NoReply == [kind |-> "none", seq |-> 0]
NoResult == [status |-> "none", seqs |-> << >>]

(* Every early return of a call: no sequences, nothing known to be stored.  *)
Return_AsConflict(w, status) ==
    /\ pc' = [pc EXCEPT ![w] = "done"]
    /\ result' = [result EXCEPT ![w] = [status |-> "conflict", seqs |-> << >>]]

Return(w, status) ==
    /\ pc' = [pc EXCEPT ![w] = "done"]
    /\ result' = [result EXCEPT ![w] = [status |-> status, seqs |-> << >>]]

Init ==
    /\ log = << >>
    /\ deleted = {}
    /\ window = {}
    /\ net = {}
    /\ pc = [w \in Writers |-> "idle"]
    /\ calls = [w \in Writers |-> 0]
    /\ attempt = [w \in Writers |-> 0]
    /\ expected = [w \in Writers |-> NoTails]
    /\ basis = [w \in Writers |-> NoTails]
    /\ reply = [w \in Writers |-> NoReply]
    /\ result = [w \in Writers |-> NoResult]

(* The caller issues its operation, or issues it again after any outcome    *)
(* that does not tell it that the operation was stored.                     *)
Call(w) ==
    /\ \/ pc[w] = "idle"
       \/ pc[w] = "done" /\ result[w].status \in {"conflict", "error"}
    /\ calls[w] < MaxCalls
    /\ pc' = [pc EXCEPT ![w] = "capture"]
    /\ calls' = [calls EXCEPT ![w] = @ + 1]
    /\ attempt' = [attempt EXCEPT ![w] = 1]
    /\ expected' = [expected EXCEPT ![w] = NoTails]
    /\ result' = [result EXCEPT ![w] = NoResult]
    /\ UNCHANGED <<stream, net, basis, reply>>

(* One read of a guarded tail. AppendBatch callers read several, one after  *)
(* the other, and other writers may commit in between.                      *)
Capture(w) ==
    /\ pc[w] = "capture"
    /\ \E g \in Op[w].guards, e \in 0 .. Len(log) :
         /\ expected[w][g] = Unread
         /\ TailIs(g, e)
         /\ expected' = [expected EXCEPT ![w][g] = e]
    /\ UNCHANGED <<stream, net, pc, calls, attempt, basis, reply, result>>

(* The projection was waited for: its state, the first v sequences, covers  *)
(* every captured tail.                                                     *)
StateCovers_Unwaited(w, v) == TRUE
StateCovers(w, v) == \A g \in Op[w].guards : expected[w][g] <= v

(* decide runs on projected state that covers every captured tail and may   *)
(* be newer: the first v sequences. A decision that finds its own fact is   *)
(* empty, a successful no-op. An unguarded operation was prepared before    *)
(* the call and looks at nothing.                                           *)
Decide(w) ==
    /\ pc[w] = "capture"
    /\ \A g \in Op[w].guards : expected[w][g] # Unread
    /\ \E v \in 0 .. Len(log) :
         /\ StateCovers(w, v)
         /\ IF Guarded(w) /\ Stored(log, v, w)
            THEN /\ Return(w, "noop")
                 /\ UNCHANGED basis
            ELSE /\ \E b \in [GuardsInUse -> Unread .. v] :
                      /\ \A g \in GuardsInUse :
                           IF g \in Op[w].guards
                           THEN TailIn(log, v, g, b[g])
                           ELSE b[g] = Unread
                      /\ basis' = [basis EXCEPT ![w] = b]
                 /\ pc' = [pc EXCEPT ![w] = "publish"]
                 /\ UNCHANGED result
    /\ UNCHANGED <<stream, net, calls, attempt, expected, reply>>

(* A tail read or the decision itself fails, or the context ends.           *)
Abort(w) ==
    /\ pc[w] \in {"capture", "publish", "backoff"}
    /\ Return(w, "error")
    /\ UNCHANGED <<stream, net, calls, attempt, expected, basis, reply>>

(* appendBatch refuses a batch that carries no guard at all.                *)
MissingOCC(w) == ~Op[w].mutation /\ ~Guarded(w) /\ Len(Op[w].subjects) > 1

RejectUnguarded(w) ==
    /\ pc[w] = "publish"
    /\ MissingOCC(w)
    /\ Return(w, "error")
    /\ UNCHANGED <<stream, net, calls, attempt, expected, basis, reply>>

(* publish sends the record; appendBatch has staged all entries but the     *)
(* last and sends the one that commits the batch. Staged entries are not    *)
(* part of the stream.                                                      *)
Send(w) ==
    /\ pc[w] = "publish"
    /\ ~MissingOCC(w)
    /\ net' = net \cup {[op |-> w, call |-> calls[w], attempt |-> attempt[w],
                         expected |-> expected[w], basis |-> basis[w]]}
    /\ pc' = [pc EXCEPT ![w] = "await"]
    /\ reply' = [reply EXCEPT ![w] = NoReply]
    /\ UNCHANGED <<stream, calls, attempt, expected, basis, result>>

(* ErrConflict: ExecuteMutation decides again on a fresh boundary until its *)
(* attempts are used up; the Append calls report the conflict.              *)
Conflict_Unbounded(w) ==
    IF Op[w].mutation /\ attempt[w] <= MaxAttempts
    THEN pc' = [pc EXCEPT ![w] = "backoff"] /\ UNCHANGED result
    ELSE Return(w, "conflict")

Conflict(w) ==
    IF Op[w].mutation /\ attempt[w] < MaxAttempts
    THEN pc' = [pc EXCEPT ![w] = "backoff"] /\ UNCHANGED result
    ELSE Return(w, "conflict")

(* The server already rejects a staged entry of a batch.                    *)
StageConflict(w) ==
    /\ pc[w] = "publish"
    /\ Len(Op[w].subjects) > 1
    /\ ~GuardsHold(w, expected[w])
    /\ Conflict(w)
    /\ UNCHANGED <<stream, net, calls, attempt, expected, basis, reply>>

----------------------------------------------------------------------------
(* The server handles one request.                                          *)

Awaits(w, r) == pc[w] = "await" /\ calls[w] = r.call /\ attempt[w] = r.attempt

(* The answer reaches the writer only if it still waits for this request.   *)
Answer(r, kind, seq) ==
    /\ net' = net \ {r}
    /\ reply' = IF Awaits(r.op, r)
                THEN [reply EXCEPT ![r.op] = [kind |-> kind, seq |-> seq]]
                ELSE reply
    /\ UNCHANGED <<pc, calls, attempt, expected, basis, result>>

ServeDuplicate(r) ==
    /\ \E i \in Parts(r.op), q \in window :
         /\ Recognised(r.op, i, q)
         /\ IF Len(Op[r.op].subjects) = 1
            THEN Answer(r, "duplicate", q)
            ELSE Answer(r, "duplicate batch", 0)
    /\ UNCHANGED stream

ServeConflict(r) ==
    /\ \A i \in Parts(r.op), q \in window : ~Recognised(r.op, i, q)
    /\ ~GuardsHold(r.op, r.expected)
    /\ Answer(r, "conflict", 0)
    /\ UNCHANGED stream

ServeStore(r) ==
    /\ \A i \in Parts(r.op), q \in window : ~Recognised(r.op, i, q)
    /\ GuardsHold(r.op, r.expected)
    /\ log' = log \o Records(r.op, r.call, r.basis)
    /\ window' = window \cup (Len(log) + 1 .. Len(log'))
    /\ Answer(r, "stored", Len(log'))
    /\ UNCHANGED deleted

Lose(r) ==
    /\ net' = net \ {r}
    /\ UNCHANGED <<stream, pc, calls, attempt, expected, basis, reply, result>>

----------------------------------------------------------------------------
(* The writer reads its answer.                                             *)

(* The acknowledgement carries the sequence of the last record; the others  *)
(* of the batch precede it.                                                 *)
Sequences_OffByOne(w, seq) == [i \in Parts(w) |-> seq - (Len(Op[w].subjects) - i) - 1]
Sequences(w, seq) == [i \in Parts(w) |-> seq - (Len(Op[w].subjects) - i)]

ReceiveOK(w) ==
    /\ pc[w] = "await"
    /\ reply[w].kind \in {"stored", "duplicate"}
    /\ pc' = [pc EXCEPT ![w] = "done"]
    /\ result' = [result EXCEPT
           ![w] = [status |-> reply[w].kind, seqs |-> Sequences(w, reply[w].seq)]]
    /\ UNCHANGED <<stream, net, calls, attempt, expected, basis, reply>>

ReceiveConflict(w) ==
    /\ pc[w] = "await"
    /\ reply[w].kind = "conflict"
    /\ Conflict(w)
    /\ UNCHANGED <<stream, net, calls, attempt, expected, basis, reply>>

(* ErrDuplicateBatchMessageID, any other server error, a timeout or a       *)
(* cancelled context end the call at once, without another attempt.         *)
ReceiveError_NoTimeout(w) ==
    /\ pc[w] = "await"
    /\ reply[w].kind \notin {"none", "stored", "duplicate", "conflict"}
    /\ Return(w, "error")
    /\ UNCHANGED <<stream, net, calls, attempt, expected, basis, reply>>

ReceiveError(w) ==
    /\ pc[w] = "await"
    /\ reply[w].kind \notin {"stored", "duplicate", "conflict"}
    /\ Return(w, "error")
    /\ UNCHANGED <<stream, net, calls, attempt, expected, basis, reply>>

(* The context ends although an answer is there or on its way.              *)
GiveUp(w) ==
    /\ pc[w] = "await"
    /\ reply[w].kind # "none"
    /\ Return(w, "error")
    /\ UNCHANGED <<stream, net, calls, attempt, expected, basis, reply>>

(* waitBeforeConflictRetry is over.                                         *)
Retry_KeepsBoundary(w) ==
    /\ pc[w] = "backoff"
    /\ pc' = [pc EXCEPT ![w] = "capture"]
    /\ attempt' = [attempt EXCEPT ![w] = @ + 1]
    /\ UNCHANGED <<stream, net, calls, expected, basis, reply, result>>

Retry(w) ==
    /\ pc[w] = "backoff"
    /\ pc' = [pc EXCEPT ![w] = "capture"]
    /\ attempt' = [attempt EXCEPT ![w] = @ + 1]
    /\ expected' = [expected EXCEPT ![w] = NoTails]
    /\ UNCHANGED <<stream, net, calls, basis, reply, result>>

----------------------------------------------------------------------------
(* Retention.                                                               *)

(* A message body is deleted only after a later record of its aggregate has *)
(* superseded it, and that record is not deleted before its own successor:  *)
(* no guard that any caller uses loses its tail.                            *)
Superseded(q) ==
    \A w \in Writers : \A g \in Op[w].guards :
        log[q].subject \in g.filter =>
            \E p \in 1 .. Len(log) :
                p > q /\ Retained(p) /\ log[p].subject \in g.filter

SecureDelete(q) ==
    /\ Retained(q)
    /\ log[q].subject \in Bodies
    /\ Superseded(q)
    /\ deleted' = deleted \cup {q}
    /\ UNCHANGED <<log, window, net, pc, calls, attempt, expected, basis, reply, result>>

(* The de-duplication window passes; IDs leave it in stream order.          *)
ExpireID ==
    /\ \E q \in window :
         /\ \A p \in window : q <= p
         /\ window' = window \ {q}
    /\ UNCHANGED <<log, deleted, net, pc, calls, attempt, expected, basis, reply, result>>

----------------------------------------------------------------------------
WriterStep(w) ==
    \/ Call(w) \/ Capture(w) \/ Decide(w) \/ Abort(w) \/ RejectUnguarded(w)
    \/ Send(w) \/ StageConflict(w) \/ ReceiveOK(w) \/ ReceiveConflict(w)
    \/ ReceiveError(w) \/ GiveUp(w) \/ Retry(w)

ServerStep ==
    \/ \E r \in net : ServeDuplicate(r) \/ ServeConflict(r) \/ ServeStore(r) \/ Lose(r)
    \/ \E q \in 1 .. Len(log) : SecureDelete(q)
    \/ ExpireID

Next == (\E w \in Writers : WriterStep(w)) \/ ServerStep

Spec == Init /\ [][Next]_vars

(* A writer keeps running, and a request that gets no answer times out.     *)
Proceed(w) ==
    \/ Capture(w) \/ Decide(w) \/ RejectUnguarded(w) \/ Send(w) \/ Retry(w)
    \/ ReceiveOK(w) \/ ReceiveConflict(w) \/ ReceiveError(w)

FairSpec == Spec /\ \A w \in Writers : WF_vars(Proceed(w))

----------------------------------------------------------------------------
(* Properties.                                                              *)

(* Every variable has its type; a request carries one captured tail and one *)
(* decided tail per guard.                                                  *)
Requests == [op : Writers, call : 1 .. MaxCalls, attempt : 1 .. MaxAttempts,
             expected : Tails, basis : Tails]
StoredRecords == [op : Writers, call : 1 .. MaxCalls, part : Nat \ {0},
                  subject : Subjects, basis : Tails]
Replies == [kind : {"none", "stored", "duplicate", "duplicate batch", "conflict"}, seq : Nat]
Results == [status : {"none", "stored", "duplicate", "noop", "conflict", "error"},
            seqs : Seq(Int)]
TypeOK ==
    /\ log \in Seq(StoredRecords)
    /\ deleted \subseteq 1 .. Len(log)
    /\ window \subseteq 1 .. Len(log)
    /\ net \subseteq Requests
    /\ pc \in [Writers -> {"idle", "capture", "publish", "await", "backoff", "done"}]
    /\ calls \in [Writers -> 0 .. MaxCalls]
    /\ attempt \in [Writers -> 0 .. MaxAttempts]
    /\ expected \in [Writers -> Tails]
    /\ basis \in [Writers -> Tails]
    /\ reply \in [Writers -> Replies]
    /\ result \in [Writers -> Results]

(* Every operation is applied as one indivisible step on the state its      *)
(* decision saw: batches are adjacent, no guarded decision is stale when it *)
(* commits, and an operation that guards its own fact is stored once, over  *)
(* all timeouts, late requests, repeated calls and expired record IDs.      *)
Atomic == INSTANCE AtomicLog
AppliedAtomically == Atomic!Spec

(* The sequences of a successful call are those of the operation's own      *)
(* records, part by part; when the call reports them as committed rather    *)
(* than as a duplicate, this very call stored them.                         *)
ReportedSequencesTrue ==
    \A w \in Writers : result[w].status \in {"stored", "duplicate"} =>
        \A i \in Parts(w) :
            LET q == result[w].seqs[i]
            IN  /\ q \in 1 .. Len(log)
                /\ log[q].op = w /\ log[q].part = i /\ log[q].subject = Op[w].subjects[i]
                /\ result[w].status = "stored" => log[q].call = calls[w]

(* A call that reports ErrConflict has stored nothing and never will: no    *)
(* request of it is still on its way.                                       *)
ConflictStoresNothing ==
    \A w \in Writers : result[w].status = "conflict" =>
        /\ \A q \in 1 .. Len(log) : ~(log[q].op = w /\ log[q].call = calls[w])
        /\ \A r \in net : ~(r.op = w /\ r.call = calls[w])

(* Every conflict of an ExecuteMutation is the doing of another request     *)
(* that did commit a record its boundary covers: contending writers can     *)
(* exhaust each other's attempts only by making progress.                   *)
Conflicts(w) ==
    IF pc[w] = "backoff" \/ result[w].status = "conflict" THEN attempt[w] ELSE attempt[w] - 1
ConflictsArePaidFor ==
    \A w \in Writers : \A g \in Op[w].guards : Op[w].mutation /\ calls[w] > 0 =>
        Conflicts(w) <= Cardinality({q \in 1 .. Len(log) :
            log[q].subject \in g.filter /\ ~(log[q].op = w /\ log[q].call = calls[w])})

(* Every call returns: retries are bounded and a lost request times out.    *)
EveryCallReturns ==
    \A w \in Writers : (pc[w] \notin {"idle", "done"}) ~> (pc[w] = "done")
=============================================================================
