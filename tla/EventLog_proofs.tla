--------------------------- MODULE EventLog_proofs --------------------------
(***************************************************************************)
(* Proofs about EventLog, for every set of writers, subjects and operations *)
(* and every number of attempts and calls.                                  *)
(***************************************************************************)
EXTENDS EventLog, SequenceTheorems, TLAPS

(* An issued operation has a call and an attempt number, and ExecuteMutation *)
(* goes back for another attempt only while it has one left.                *)
AttemptsLeft ==
    \A w \in Writers :
        /\ pc[w] # "idle" => calls[w] > 0 /\ attempt[w] > 0
        /\ pc[w] = "backoff" => attempt[w] < MaxAttempts

TypeInv == TypeOK /\ AttemptsLeft

(* A record carries the subject that its operation gives to that part.      *)
RecordsKeepSubjects ==
    \A q \in 1 .. Len(log) :
        /\ log[q].part \in Parts(log[q].op)
        /\ log[q].subject = Op[log[q].op].subjects[log[q].part]

(* A deleted record has a retained successor under every guard it was       *)
(* covered by, so that deletion never moves a guarded tail.                  *)
TailsRetained ==
    \A q \in deleted : Superseded(q)

(* A captured tail is a record that its guard covers.                       *)
CapturedIs(g, e) == e <= Len(log) /\ (e > 0 => log[e].subject \in g.filter)
TailsCaptured ==
    \A w \in Writers : \A g \in Op[w].guards :
        /\ CapturedIs(g, expected[w][g])
        /\ pc[w] = "publish" => expected[w][g] # Unread

(* What a decision leaves behind: it saw at least the captured tails, and    *)
(* the operation's fact, if it is stored at all, came after them.            *)
Decided(w, e, b) ==
    /\ b \in [GuardsInUse -> Unread .. Len(log)]
    /\ \A g \in Op[w].guards :
         /\ e[g] \in 0 .. Len(log)
         /\ b[g] \in e[g] .. Len(log)
         /\ b[g] # 0 => log[b[g]].subject \in g.filter
         /\ \A q \in 1 .. Len(log) : log[q].op = w /\ log[q].part = 1 => q > e[g]

DecisionsHold ==
    /\ \A w \in Writers : pc[w] = "publish" => Decided(w, expected[w], basis[w])
    /\ \A r \in net : Decided(r.op, r.expected, r.basis)

AtomicInv == TypeInv /\ RecordsKeepSubjects /\ TailsRetained /\ TailsCaptured /\ DecisionsHold

----------------------------------------------------------------------------
(* What appending the records of an operation does to the log: the old      *)
(* records stay where they are, part i lands i places behind the old end.   *)
LEMMA AppendRecords ==
    ASSUME NEW w \in Writers, NEW c \in 1 .. MaxCalls, NEW b \in Tails,
           log \in Seq(StoredRecords), log' = log \o Records(w, c, b)
    PROVE  /\ log' \in Seq(StoredRecords)
           /\ Len(log') = Len(log) + Len(Op[w].subjects)
           /\ Len(Op[w].subjects) \in Nat \ {0}
           /\ \A q \in 1 .. Len(log) : log'[q] = log[q]
           /\ \A q \in Len(log) + 1 .. Len(log') : log'[q] = Record(w, c, b, q - Len(log))
<1> DEFINE n == Len(Op[w].subjects)
<1>1. Op[w].subjects \in Seq(Subjects) /\ n \in Nat \ {0}
  BY OpAssumption DEF Operations
<1>2. Parts(w) = 1 .. n
  BY <1>1 DEF Parts
<1>3. \A i \in 1 .. n : Record(w, c, b, i) \in StoredRecords
  BY <1>1 DEF Record, StoredRecords
<1>4. Records(w, c, b) \in Seq(StoredRecords) /\ Len(Records(w, c, b)) = n
  BY <1>1, <1>2, <1>3 DEF Records
<1>5. \A i \in 1 .. n : Records(w, c, b)[i] = Record(w, c, b, i)
  BY <1>2 DEF Records
<1>. HIDE DEF n
<1>6. log' \in Seq(StoredRecords) /\ Len(log') = Len(log) + n
  BY <1>4, ConcatProperties
<1>7. \A q \in 1 .. Len(log) : log'[q] = log[q]
  BY <1>4, ConcatProperties
<1>8. \A q \in Len(log) + 1 .. Len(log') : log'[q] = Records(w, c, b)[q - Len(log)]
  BY <1>4, <1>6, ConcatProperties
<1>9. \A q \in Len(log) + 1 .. Len(log') : q - Len(log) \in 1 .. n
  BY <1>1, <1>6
<1>. QED
  BY <1>1, <1>5, <1>6, <1>7, <1>8, <1>9 DEF n

----------------------------------------------------------------------------
(* Type correctness.                                                        *)
LEMMA NoTailsType == NoTails \in Tails
BY DEF NoTails, Tails, Unread

LEMMA ResultTypes ==
    /\ NoReply \in Replies
    /\ \A st \in {"none", "noop", "conflict", "error"} : [status |-> st, seqs |-> << >>] \in Results
    /\ \A st \in {"stored", "duplicate"}, w \in Writers, seq \in Nat :
          [status |-> st, seqs |-> Sequences(w, seq)] \in Results
<1>1. << >> \in Seq(Int)
  BY EmptySeq
<1>2. ASSUME NEW w \in Writers, NEW seq \in Nat PROVE Sequences(w, seq) \in Seq(Int)
  <2>1. Len(Op[w].subjects) \in Nat /\ Parts(w) = 1 .. Len(Op[w].subjects)
    BY OpAssumption DEF Operations, Parts
  <2> DEFINE n == Len(Op[w].subjects)
  <2>2. Sequences(w, seq) = [i \in 1 .. n |-> seq - (n - i)]
    BY <2>1, Zenon DEF Sequences
  <2>. HIDE DEF n
  <2>3. [i \in 1 .. n |-> seq - (n - i)] \in Seq(Int)
    BY <2>1 DEF n
  <2>. QED
    BY <2>2, <2>3, Zenon
<1>. QED
  BY <1>1, <1>2 DEF Results, Replies, NoReply

LEMMA TypeInit == Init => TypeInv
<1>. SUFFICES ASSUME Init PROVE TypeInv
  OBVIOUS
<1>1. log \in Seq(StoredRecords)
  BY EmptySeq DEF Init
<1>2. MaxCalls \in Nat /\ MaxAttempts \in Nat
  BY OpAssumption, AttemptsAssumption
<1>. QED
  BY <1>1, <1>2, NoTailsType, ResultTypes DEF Init, TypeInv, TypeOK, AttemptsLeft, NoResult

(* A writer that only moves, and perhaps reports a result.                  *)
LEMMA TypeMove ==
    ASSUME TypeInv, UNCHANGED <<log, deleted, window, net, calls, attempt, expected, basis, reply>>,
           pc' \in [Writers -> {"idle", "capture", "publish", "await", "backoff", "done"}],
           result' \in [Writers -> Results],
           \A w \in Writers : pc'[w] # "idle" => pc[w] # "idle",
           \A w \in Writers : pc'[w] = "backoff" => attempt[w] < MaxAttempts
    PROVE  TypeInv'
<1>1. TypeOK'
  BY DEF TypeInv, TypeOK
<1>2. AttemptsLeft'
  BY DEF TypeInv, AttemptsLeft
<1>. QED
  BY <1>1, <1>2 DEF TypeInv

LEMMA TypeReturn ==
    ASSUME TypeInv, NEW w \in Writers, Abort(w) \/ RejectUnguarded(w) \/ ReceiveError(w) \/ GiveUp(w)
    PROVE  TypeInv'
<1>1. PICK st \in {"noop", "error"} :
          Return(w, st) /\ UNCHANGED <<log, deleted, window, net, calls, attempt, expected, basis, reply>>
  BY DEF Abort, RejectUnguarded, ReceiveError, GiveUp, stream
<1>2. pc[w] # "idle"
  BY DEF Abort, RejectUnguarded, ReceiveError, GiveUp
<1>3. pc \in [Writers -> {"idle", "capture", "publish", "await", "backoff", "done"}]
      /\ result \in [Writers -> Results] /\ \A v \in Writers : pc[v] = "backoff" => attempt[v] < MaxAttempts
  BY DEF TypeInv, TypeOK, AttemptsLeft
<1>4. pc' \in [Writers -> {"idle", "capture", "publish", "await", "backoff", "done"}]
      /\ result' \in [Writers -> Results] /\ \A v \in Writers : v = w \/ pc'[v] = pc[v]
  BY <1>1, <1>3, ResultTypes DEF Return
<1>5. pc'[w] = "done"
  BY <1>1, <1>3 DEF Return
<1>. QED
  BY <1>1, <1>2, <1>3, <1>4, <1>5, TypeMove

LEMMA TypeConflict ==
    ASSUME TypeInv, NEW w \in Writers, StageConflict(w) \/ ReceiveConflict(w)
    PROVE  TypeInv'
<1>1. Conflict(w) /\ UNCHANGED <<log, deleted, window, net, calls, attempt, expected, basis, reply>>
  BY DEF StageConflict, ReceiveConflict, stream
<1>2. pc[w] # "idle"
  BY DEF StageConflict, ReceiveConflict
<1>3. pc \in [Writers -> {"idle", "capture", "publish", "await", "backoff", "done"}]
      /\ result \in [Writers -> Results] /\ \A v \in Writers : pc[v] = "backoff" => attempt[v] < MaxAttempts
  BY DEF TypeInv, TypeOK, AttemptsLeft
<1>4. CASE attempt[w] < MaxAttempts /\ pc' = [pc EXCEPT ![w] = "backoff"] /\ result' = result
  BY <1>1, <1>2, <1>3, <1>4, TypeMove
<1>5. CASE Return(w, "conflict")
  <2>1. pc' \in [Writers -> {"idle", "capture", "publish", "await", "backoff", "done"}]
        /\ result' \in [Writers -> Results] /\ pc'[w] = "done" /\ \A v \in Writers : v = w \/ pc'[v] = pc[v]
    BY <1>3, <1>5, ResultTypes DEF Return
  <2>. QED
    BY <1>1, <1>2, <1>3, <2>1, TypeMove
<1>. QED
  BY <1>1, <1>4, <1>5 DEF Conflict

LEMMA TypeStep == TypeInv /\ [Next]_vars => TypeInv'
<1>. SUFFICES ASSUME TypeInv, [Next]_vars PROVE TypeInv'
  OBVIOUS
<1>. USE DEF TypeInv, TypeOK, AttemptsLeft
<1>0. MaxCalls \in Nat /\ MaxAttempts \in Nat \ {0}
  BY OpAssumption, AttemptsAssumption
<1>1. ASSUME NEW w \in Writers, Call(w) PROVE TypeInv'
  BY <1>0, <1>1, NoTailsType, ResultTypes DEF Call, stream, NoResult
<1>2. ASSUME NEW w \in Writers, Capture(w) PROVE TypeInv'
  <2>1. PICK g \in Op[w].guards, e \in 0 .. Len(log) : expected' = [expected EXCEPT ![w][g] = e]
    BY <1>2 DEF Capture
  <2>2. e \in Nat /\ expected[w] \in Tails
    OBVIOUS
  <2>3. [expected[w] EXCEPT ![g] = e] \in Tails
    BY <2>2 DEF Tails
  <2>4. expected' \in [Writers -> Tails]
    BY <2>1, <2>3
  <2>. QED
    BY <1>2, <2>4 DEF Capture, stream
<1>3. ASSUME NEW w \in Writers, Decide(w) PROVE TypeInv'
  <2>1. CASE Return(w, "noop") /\ UNCHANGED basis
    BY <1>3, <2>1, ResultTypes DEF Decide, Return, stream
  <2>2. ASSUME NEW v \in 0 .. Len(log), NEW b \in [GuardsInUse -> Unread .. v],
               basis' = [basis EXCEPT ![w] = b], pc' = [pc EXCEPT ![w] = "publish"],
               UNCHANGED result
        PROVE TypeInv'
    <3>1. b \in Tails
      BY DEF Tails, Unread
    <3>. QED
      BY <1>3, <2>2, <3>1 DEF Decide, stream
  <2>. QED
    BY <1>3, <2>1, <2>2 DEF Decide
<1>4. ASSUME NEW w \in Writers, Abort(w) \/ RejectUnguarded(w) \/ ReceiveError(w) \/ GiveUp(w)
      PROVE TypeInv'
  BY <1>4, TypeReturn, Zenon
<1>5. ASSUME NEW w \in Writers, Send(w) PROVE TypeInv'
  <2>1. /\ calls[w] \in 1 .. MaxCalls /\ attempt[w] \in 1 .. MaxAttempts
        /\ expected[w] \in Tails /\ basis[w] \in Tails
    <3>1. pc[w] # "idle"
      BY <1>5 DEF Send
    <3>2. calls[w] > 0 /\ attempt[w] > 0 /\ calls[w] \in 0 .. MaxCalls /\ attempt[w] \in 0 .. MaxAttempts
      BY <3>1
    <3>. QED
      BY <1>0, <3>2
  <2>2. [op |-> w, call |-> calls[w], attempt |-> attempt[w],
         expected |-> expected[w], basis |-> basis[w]] \in Requests
    BY <2>1 DEF Requests
  <2>. QED
    BY <1>5, <2>2, ResultTypes DEF Send, stream
<1>6. ASSUME NEW w \in Writers, StageConflict(w) \/ ReceiveConflict(w) PROVE TypeInv'
  BY <1>6, TypeConflict, Zenon
<1>7. ASSUME NEW w \in Writers, ReceiveOK(w) PROVE TypeInv'
  <2>1. reply[w].seq \in Nat
    BY DEF Replies
  <2>. QED
    BY <1>7, <2>1, ResultTypes DEF ReceiveOK, stream
<1>8. ASSUME NEW w \in Writers, Retry(w) PROVE TypeInv'
  BY <1>0, <1>8, NoTailsType DEF Retry, stream
<1>9. ASSUME NEW r \in net, NEW k, NEW s, Answer(r, k, s), [kind |-> k, seq |-> s] \in Replies
      PROVE /\ net' \subseteq Requests /\ reply' \in [Writers -> Replies]
            /\ UNCHANGED <<pc, calls, attempt, expected, basis, result>>
  BY <1>9 DEF Answer, Requests
<1>10. ASSUME NEW r \in net, ServeDuplicate(r) \/ ServeConflict(r) \/ Lose(r) PROVE TypeInv'
  <2>1. CASE Lose(r)
    BY <2>1 DEF Lose, stream
  <2>2. ASSUME NEW k \in {"conflict", "duplicate batch", "duplicate"}, NEW s \in Nat,
               Answer(r, k, s), UNCHANGED stream
        PROVE TypeInv'
    <3>1. [kind |-> k, seq |-> s] \in Replies
      BY DEF Replies
    <3>. QED
      BY <1>9, <2>2, <3>1 DEF stream
  <2>3. window \subseteq Nat
    OBVIOUS
  <2>. QED
    BY <1>10, <2>1, <2>2, <2>3 DEF ServeDuplicate, ServeConflict
<1>11. ASSUME NEW r \in net, ServeStore(r) PROVE TypeInv'
  <2>1. r.op \in Writers /\ r.call \in 1 .. MaxCalls /\ r.basis \in Tails
    BY DEF Requests
  <2>2. log' = log \o Records(r.op, r.call, r.basis)
    BY <1>11 DEF ServeStore
  <2>3. log' \in Seq(StoredRecords) /\ Len(log') \in Nat /\ Len(log') >= Len(log)
    <3>1. log \in Seq(StoredRecords)
      OBVIOUS
    <3>2. /\ log' \in Seq(StoredRecords)
          /\ Len(log') = Len(log) + Len(Op[r.op].subjects)
          /\ Len(Op[r.op].subjects) \in Nat \ {0}
      BY <2>1, <2>2, <3>1, AppendRecords, Zenon
    <3>3. Len(log) \in Nat
      BY <3>1, LenProperties
    <3>4. \A m \in Nat, k \in Nat \ {0} : m + k \in Nat /\ m + k >= m
      OBVIOUS
    <3>. QED
      BY <3>2, <3>3, <3>4, Zenon
  <2>4. [kind |-> "stored", seq |-> Len(log')] \in Replies
    BY <2>3 DEF Replies
  <2>5. deleted' \subseteq 1 .. Len(log') /\ window' \subseteq 1 .. Len(log')
    <3>1. deleted' = deleted /\ window' = window \cup (Len(log) + 1 .. Len(log'))
      BY <1>11 DEF ServeStore
    <3>2. Len(log) \in Nat
      OBVIOUS
    <3>3. 1 .. Len(log) \subseteq 1 .. Len(log') /\ Len(log) + 1 .. Len(log') \subseteq 1 .. Len(log')
      BY <2>3, <3>2
    <3>. QED
      BY <3>1, <3>3
  <2>6. /\ net' \subseteq Requests /\ reply' \in [Writers -> Replies]
        /\ UNCHANGED <<pc, calls, attempt, expected, basis, result>>
    BY <1>9, <1>11, <2>4 DEF ServeStore
  <2>. QED
    BY <2>3, <2>5, <2>6
<1>12. ASSUME NEW q \in 1 .. Len(log), SecureDelete(q) PROVE TypeInv'
  BY <1>12 DEF SecureDelete
<1>13. CASE ExpireID
  BY <1>13 DEF ExpireID
<1>14. CASE UNCHANGED vars
  BY <1>14 DEF vars
<1>. QED
  BY <1>1, <1>2, <1>3, <1>4, <1>5, <1>6, <1>7, <1>8, <1>10, <1>11, <1>12, <1>13, <1>14
     DEF Next, WriterStep, ServerStep

(* Every variable keeps its type.                                           *)
THEOREM TypeCorrect == Spec => []TypeOK
<1>1. TypeInv => TypeOK
  BY DEF TypeInv
<1>. QED
  BY <1>1, TypeInit, TypeStep, PTL DEF Spec

----------------------------------------------------------------------------
(* The log is append-only, and only a served request extends it.            *)
LEMMA LogStep ==
    ASSUME TypeInv, [Next]_vars
    PROVE  /\ log \in Seq(StoredRecords) /\ log' \in Seq(StoredRecords)
           /\ Len(log) \in Nat /\ Len(log') \in Nat /\ Len(log) <= Len(log')
           /\ \A q \in 1 .. Len(log) : log'[q] = log[q]
           /\ log' = log \/ \E r \in net : ServeStore(r)
<1>1. log \in Seq(StoredRecords) /\ Len(log) \in Nat
  BY DEF TypeInv, TypeOK
<1>2. ASSUME NEW r \in net, ServeStore(r)
      PROVE  /\ log' \in Seq(StoredRecords) /\ Len(log') \in Nat /\ Len(log) <= Len(log')
             /\ \A q \in 1 .. Len(log) : log'[q] = log[q]
  <2>1. r.op \in Writers /\ r.call \in 1 .. MaxCalls /\ r.basis \in Tails
    BY DEF Requests, TypeInv, TypeOK
  <2>2. log' = log \o Records(r.op, r.call, r.basis)
    BY <1>2 DEF ServeStore
  <2>3. /\ log' \in Seq(StoredRecords) /\ Len(log') = Len(log) + Len(Op[r.op].subjects)
        /\ Len(Op[r.op].subjects) \in Nat \ {0}
        /\ \A q \in 1 .. Len(log) : log'[q] = log[q]
    BY <1>1, <2>1, <2>2, AppendRecords, Zenon
  <2>. QED
    BY <1>1, <2>3
<1>3. log' = log \/ \E r \in net : ServeStore(r)
  BY DEF Next, WriterStep, ServerStep, vars, stream, Call, Capture, Decide, Abort, RejectUnguarded,
         Send, StageConflict, ReceiveOK, ReceiveConflict, ReceiveError, GiveUp, Retry,
         ServeDuplicate, ServeConflict, Lose, SecureDelete, ExpireID
<1>. QED
  BY <1>1, <1>2, <1>3

(* A guard of an operation is a subject guard or the stream guard, whose    *)
(* filter is every subject.                                                 *)
LEMMA GuardKinds ==
    ASSUME NEW w \in Writers, NEW g \in Op[w].guards
    PROVE  /\ g \in GuardsInUse
           /\ g.kind = "stream" => g.filter = Subjects
<1>1. g \in Guards
  BY OpAssumption DEF Operations
<1>. QED
  BY <1>1 DEF Guards, SubjectGuard, StreamGuard, GuardsInUse

(* A stored request adds the parts of its operation behind the old records. *)
LEMMA StoreStep ==
    ASSUME TypeInv, NEW r \in net, ServeStore(r)
    PROVE  /\ r.op \in Writers /\ r.call \in 1 .. MaxCalls /\ r.basis \in Tails /\ r.expected \in Tails
           /\ log' = log \o Records(r.op, r.call, r.basis)
           /\ Len(log') = Len(log) + Len(Op[r.op].subjects)
           /\ Len(Op[r.op].subjects) \in Nat \ {0}
           /\ \A q \in Len(log) + 1 .. Len(log') :
                  log'[q] = Record(r.op, r.call, r.basis, q - Len(log))
<1>1. r.op \in Writers /\ r.call \in 1 .. MaxCalls /\ r.basis \in Tails /\ r.expected \in Tails
  BY DEF Requests, TypeInv, TypeOK
<1>2. log' = log \o Records(r.op, r.call, r.basis) /\ log \in Seq(StoredRecords)
  BY DEF ServeStore, TypeInv, TypeOK
<1>3. /\ Len(log') = Len(log) + Len(Op[r.op].subjects)
      /\ Len(Op[r.op].subjects) \in Nat \ {0}
      /\ \A q \in Len(log) + 1 .. Len(log') :
            log'[q] = Record(r.op, r.call, r.basis, q - Len(log))
  BY <1>1, <1>2, AppendRecords, Zenon
<1>. QED
  BY <1>1, <1>2, <1>3, Zenon

LEMMA RecordsStep ==
    ASSUME TypeInv, RecordsKeepSubjects, [Next]_vars
    PROVE  RecordsKeepSubjects'
<1>1. CASE log' = log
  BY <1>1 DEF RecordsKeepSubjects
<1>2. ASSUME NEW r \in net, ServeStore(r) PROVE RecordsKeepSubjects'
  <2>1. ASSUME NEW q \in 1 .. Len(log')
        PROVE  log'[q].part \in Parts(log'[q].op)
               /\ log'[q].subject = Op[log'[q].op].subjects[log'[q].part]
    <3>1. CASE q \in 1 .. Len(log)
      BY <3>1, LogStep DEF RecordsKeepSubjects
    <3>2. CASE q \in Len(log) + 1 .. Len(log')
      <4>1. log'[q] = Record(r.op, r.call, r.basis, q - Len(log))
        BY <1>2, <3>2, StoreStep
      <4>2. q - Len(log) \in 1 .. Len(Op[r.op].subjects)
        BY <1>2, <3>2, StoreStep, LogStep
      <4>3. Parts(r.op) = 1 .. Len(Op[r.op].subjects)
        BY <1>2, StoreStep, OpAssumption DEF Parts, Operations
      <4>. QED
        BY <4>1, <4>2, <4>3 DEF Record
    <3>. QED
      BY <3>1, <3>2, LogStep
  <2>. QED
    BY <2>1 DEF RecordsKeepSubjects
<1>. QED
  BY <1>1, <1>2, LogStep

LEMMA RetainedStep ==
    ASSUME TypeInv, TailsRetained, [Next]_vars
    PROVE  TailsRetained'
<1>1. deleted \subseteq 1 .. Len(log)
  BY DEF TypeInv, TypeOK
<1>2. CASE deleted' = deleted
  <2>1. ASSUME NEW q \in deleted PROVE Superseded(q)'
    <3>1. ASSUME NEW w \in Writers, NEW g \in Op[w].guards, log'[q].subject \in g.filter
          PROVE  \E p \in 1 .. Len(log') : p > q /\ Retained(p)' /\ log'[p].subject \in g.filter
      <4>1. log'[q] = log[q]
        BY <1>1, LogStep
      <4>2. PICK p \in 1 .. Len(log) : p > q /\ Retained(p) /\ log[p].subject \in g.filter
        BY <3>1, <4>1 DEF TailsRetained, Superseded
      <4>3. p \in 1 .. Len(log') /\ log'[p] = log[p] /\ Retained(p)'
        BY <1>2, <4>2, LogStep DEF Retained
      <4>. QED
        BY <4>2, <4>3
    <3>. QED
      BY <3>1 DEF Superseded
  <2>. QED
    BY <1>2, <2>1 DEF TailsRetained
<1>3. ASSUME NEW d \in 1 .. Len(log), SecureDelete(d) PROVE TailsRetained'
  <2>1. log' = log /\ deleted' = deleted \cup {d} /\ Superseded(d)
    BY <1>3 DEF SecureDelete
  <2>2. ASSUME NEW q \in deleted' PROVE Superseded(q)'
    <3>1. Superseded(q) /\ q \in 1 .. Len(log)
      BY <1>1, <1>3, <2>1 DEF TailsRetained
    <3>2. ASSUME NEW w \in Writers, NEW g \in Op[w].guards, log[q].subject \in g.filter
          PROVE  \E p \in 1 .. Len(log) : p > q /\ p \notin deleted' /\ log[p].subject \in g.filter
      <4>1. PICK p \in 1 .. Len(log) : p > q /\ Retained(p) /\ log[p].subject \in g.filter
        BY <3>1, <3>2 DEF Superseded
      <4>2. CASE p # d
        BY <2>1, <4>1, <4>2 DEF Retained
      <4>3. CASE p = d
        <5>1. PICK s \in 1 .. Len(log) : s > d /\ Retained(s) /\ log[s].subject \in g.filter
          BY <2>1, <4>1, <4>3 DEF Superseded
        <5>. QED
          BY <2>1, <3>1, <4>1, <4>3, <5>1, LogStep DEF Retained
      <4>. QED
        BY <4>2, <4>3
    <3>. QED
      BY <2>1, <3>2 DEF Superseded, Retained
  <2>. QED
    BY <2>2 DEF TailsRetained
<1>4. deleted' = deleted \/ \E d \in 1 .. Len(log) : SecureDelete(d)
  BY DEF Next, WriterStep, ServerStep, vars, stream, Call, Capture, Decide, Abort, RejectUnguarded,
         Send, StageConflict, ReceiveOK, ReceiveConflict, ReceiveError, GiveUp, Retry,
         ServeDuplicate, ServeConflict, ServeStore, Lose, ExpireID
<1>. QED
  BY <1>2, <1>3, <1>4

(* Captured tails stay where they are, because the log only grows.          *)
LEMMA CapturedStep ==
    ASSUME TypeInv, TailsCaptured, [Next]_vars
    PROVE  TailsCaptured'
<1>. SUFFICES ASSUME NEW w \in Writers, NEW g \in Op[w].guards
              PROVE  /\ CapturedIs(g, expected[w][g])'
                     /\ pc'[w] = "publish" => expected'[w][g] # Unread
  BY DEF TailsCaptured
<1>1. ASSUME NEW e \in Nat \cup {Unread}, CapturedIs(g, e) PROVE CapturedIs(g, e)'
  BY <1>1, LogStep DEF CapturedIs, Unread
<1>2. expected[w][g] \in Nat \cup {Unread}
  BY GuardKinds DEF TypeInv, TypeOK, Tails
<1>3. CapturedIs(g, Unread)'
  BY LogStep DEF CapturedIs, Unread
<1>4. CASE expected' = expected /\ (pc'[w] = "publish" => pc[w] = "publish" \/ Decide(w))
  BY <1>1, <1>2, <1>4 DEF TailsCaptured, Decide
<1>5. ASSUME NEW u \in Writers, Call(u) \/ Retry(u)
      PROVE  /\ CapturedIs(g, expected[w][g])'
             /\ pc'[w] = "publish" => expected'[w][g] # Unread
  <2>1. CASE u = w
    <3>1. expected'[w] = NoTails /\ pc'[w] = "capture"
      BY <1>5, <2>1 DEF Call, Retry, TypeInv, TypeOK
    <3>2. expected'[w][g] = Unread
      BY <3>1, GuardKinds DEF NoTails
    <3>. QED
      BY <1>3, <3>1, <3>2
  <2>2. CASE u # w
    <3>1. expected'[w] = expected[w] /\ pc'[w] = pc[w]
      BY <1>5, <2>2 DEF Call, Retry, TypeInv, TypeOK
    <3>. QED
      BY <1>1, <1>2, <3>1 DEF TailsCaptured
  <2>. QED
    BY <2>1, <2>2
<1>6. ASSUME NEW u \in Writers, Capture(u)
      PROVE  /\ CapturedIs(g, expected[w][g])'
             /\ pc'[w] = "publish" => expected'[w][g] # Unread
  <2>1. PICK h \in Op[u].guards, e \in 0 .. Len(log) :
            TailIs(h, e) /\ expected' = [expected EXCEPT ![u][h] = e]
    BY <1>6 DEF Capture
  <2>2. pc' = pc /\ log' = log /\ pc[u] = "capture"
    BY <1>6 DEF Capture, stream
  <2>3. CASE u = w /\ h = g
    <3>1. expected'[w][g] = e
      BY <2>1, <2>3, GuardKinds DEF TypeInv, TypeOK, Tails
    <3>2. e > 0 => log[e] \in StoredRecords
      BY LogStep
    <3>3. CapturedIs(g, e)
      <4>1. e > 0 => log[e].subject \in Subjects
        BY <3>2 DEF StoredRecords
      <4>2. e \in 0 .. Len(log) /\ Len(log) \in Nat /\ TailIs(g, e) /\ (g.kind = "stream" => g.filter = Subjects)
        BY <2>1, <2>3, GuardKinds, LogStep
      <4>. QED
        BY <4>1, <4>2 DEF CapturedIs, TailIs
    <3>. QED
      BY <2>2, <2>3, <3>1, <3>3 DEF CapturedIs
  <2>4. CASE ~(u = w /\ h = g)
    <3>1. expected'[w][g] = expected[w][g]
      BY <2>1, <2>4, GuardKinds DEF TypeInv, TypeOK, Tails
    <3>. QED
      BY <1>1, <1>2, <2>2, <3>1 DEF TailsCaptured
  <2>. QED
    BY <2>3, <2>4
<1>7. \/ expected' = expected /\ (pc'[w] = "publish" => pc[w] = "publish" \/ Decide(w))
      \/ \E u \in Writers : Call(u) \/ Retry(u) \/ Capture(u)
  <2>1. ASSUME NEW u \in Writers, WriterStep(u), ~(Call(u) \/ Retry(u) \/ Capture(u))
        PROVE  expected' = expected /\ (pc'[w] = "publish" => pc[w] = "publish" \/ Decide(w))
    <3>1. CASE Decide(u)
      <4>1. expected' = expected
        BY <3>1 DEF Decide
      <4>2. u # w => pc'[w] = pc[w]
        BY <3>1 DEF Decide, Return, TypeInv, TypeOK
      <4>. QED
        BY <3>1, <4>1, <4>2
    <3>2. CASE Abort(u) \/ RejectUnguarded(u) \/ ReceiveError(u) \/ GiveUp(u)
      BY <3>2 DEF Abort, RejectUnguarded, ReceiveError, GiveUp, Return, TypeInv, TypeOK
    <3>3. CASE Send(u) \/ ReceiveOK(u)
      BY <3>3 DEF Send, ReceiveOK, TypeInv, TypeOK
    <3>4. CASE StageConflict(u) \/ ReceiveConflict(u)
      BY <3>4 DEF StageConflict, ReceiveConflict, Conflict, Return, TypeInv, TypeOK
    <3>. QED
      BY <2>1, <3>1, <3>2, <3>3, <3>4 DEF WriterStep
  <2>2. CASE ServerStep \/ UNCHANGED vars
    BY <2>2 DEF ServerStep, vars, stream, ServeDuplicate, ServeConflict, ServeStore, Lose, Answer,
         SecureDelete, ExpireID
  <2>. QED
    BY <2>1, <2>2 DEF Next
<1>. QED
  BY <1>4, <1>5, <1>6, <1>7

(* A decision, once made, stays as good as it was: what others append comes *)
(* after the tails it captured.                                             *)
LEMMA DecidedGrows ==
    ASSUME TypeInv, [Next]_vars, NEW w \in Writers, NEW e \in Tails, NEW b \in Tails, Decided(w, e, b)
    PROVE  Decided(w, e, b)'
<1>0. b \in [GuardsInUse -> Unread .. Len(log')]
  <2>1. Unread .. Len(log) \subseteq Unread .. Len(log')
    BY LogStep DEF Unread
  <2>. QED
    BY <2>1 DEF Decided
<1>. SUFFICES ASSUME NEW g \in Op[w].guards
              PROVE  /\ e[g] \in 0 .. Len(log')
                     /\ b[g] \in e[g] .. Len(log')
                     /\ b[g] # 0 => log'[b[g]].subject \in g.filter
                     /\ \A q \in 1 .. Len(log') : log'[q].op = w /\ log'[q].part = 1 => q > e[g]
  BY <1>0 DEF Decided
<1>1. /\ e[g] \in 0 .. Len(log) /\ b[g] \in e[g] .. Len(log)
      /\ b[g] # 0 => log[b[g]].subject \in g.filter
      /\ \A q \in 1 .. Len(log) : log[q].op = w /\ log[q].part = 1 => q > e[g]
  BY DEF Decided
<1>2. b[g] # 0 => b[g] \in 1 .. Len(log)
  BY <1>1, LogStep
<1>3. \A q \in 1 .. Len(log') : q \in 1 .. Len(log) \/ q > e[g]
  BY <1>1, LogStep
<1>. QED
  BY <1>1, <1>2, <1>3, LogStep

LEMMA DecisionStep ==
    ASSUME TypeInv, TailsCaptured, DecisionsHold, [Next]_vars
    PROVE  DecisionsHold'
<1>0. /\ \A w \in Writers : expected[w] \in Tails /\ basis[w] \in Tails
      /\ \A r \in net : r.op \in Writers /\ r.expected \in Tails /\ r.basis \in Tails
  BY DEF TypeInv, TypeOK, Requests
<1>1. ASSUME NEW w \in Writers, pc[w] = "publish" PROVE Decided(w, expected[w], basis[w])
  BY <1>1 DEF DecisionsHold
<1>2. ASSUME NEW r \in net PROVE Decided(r.op, r.expected, r.basis)'
  BY <1>0, <1>2, DecidedGrows DEF DecisionsHold
(* The writer side: only Decide brings a writer to "publish".                *)
<1>3. ASSUME NEW w \in Writers, pc'[w] = "publish", ~Decide(w)
      PROVE  Decided(w, expected[w], basis[w])'
  <2>1. pc[w] = "publish" /\ expected'[w] = expected[w] /\ basis'[w] = basis[w]
    <3>1. ASSUME NEW u \in Writers, Decide(u)
          PROVE  u # w => pc'[w] = pc[w] /\ basis'[w] = basis[w]
      BY <3>1 DEF Decide, Return, TypeInv, TypeOK
    <3>2. ASSUME NEW u \in Writers, Decide(u)
          PROVE  pc[w] = "publish" /\ expected'[w] = expected[w] /\ basis'[w] = basis[w]
      <4>1. u # w /\ expected' = expected
        BY <1>3, <3>2 DEF Decide
      <4>. QED
        BY <1>3, <3>1, <3>2, <4>1
    <3>3. ASSUME NEW u \in Writers, Call(u) \/ Capture(u) \/ Retry(u)
          PROVE  pc[w] = "publish" /\ expected'[w] = expected[w] /\ basis'[w] = basis[w]
      BY <1>3, <3>3 DEF Call, Capture, Retry, TypeInv, TypeOK
    <3>4. ASSUME NEW u \in Writers,
                 Abort(u) \/ RejectUnguarded(u) \/ ReceiveError(u) \/ GiveUp(u) \/ Send(u) \/ ReceiveOK(u)
          PROVE  pc[w] = "publish" /\ expected'[w] = expected[w] /\ basis'[w] = basis[w]
      BY <1>3, <3>4 DEF Abort, RejectUnguarded, ReceiveError, GiveUp, Send, ReceiveOK, Return,
                        TypeInv, TypeOK
    <3>5. ASSUME NEW u \in Writers, StageConflict(u) \/ ReceiveConflict(u)
          PROVE  pc[w] = "publish" /\ expected'[w] = expected[w] /\ basis'[w] = basis[w]
      BY <1>3, <3>5 DEF StageConflict, ReceiveConflict, Conflict, Return, TypeInv, TypeOK
    <3>6. CASE ServerStep \/ UNCHANGED vars
      BY <1>3, <3>6 DEF ServerStep, vars, ServeDuplicate, ServeConflict, ServeStore, Lose, Answer,
                        SecureDelete, ExpireID
    <3>. QED
      BY <3>2, <3>3, <3>4, <3>5, <3>6 DEF Next, WriterStep
  <2>2. Decided(w, expected[w], basis[w])
    BY <2>1, <1>1
  <2>3. PICK e \in Tails, b \in Tails : e = expected[w] /\ b = basis[w]
    BY <1>0
  <2>4. Decided(w, e, b)'
    BY <2>2, <2>3, DecidedGrows
  <2>. QED
    BY <2>1, <2>3, <2>4
<1>4. ASSUME NEW w \in Writers, Decide(w), pc'[w] = "publish"
      PROVE  Decided(w, expected[w], basis[w])'
  <2>1. PICK v \in 0 .. Len(log) :
           /\ \A g \in Op[w].guards : expected[w][g] <= v
           /\ ~(Guarded(w) /\ Stored(log, v, w))
           /\ \E b \in [GuardsInUse -> Unread .. v] :
                /\ \A g \in GuardsInUse : g \in Op[w].guards => TailIn(log, v, g, b[g])
                /\ basis' = [basis EXCEPT ![w] = b]
    BY <1>4 DEF Decide, StateCovers, Return, TypeInv, TypeOK
  <2>2. PICK b \in [GuardsInUse -> Unread .. v] :
           /\ \A g \in GuardsInUse : g \in Op[w].guards => TailIn(log, v, g, b[g])
           /\ basis' = [basis EXCEPT ![w] = b]
    BY <2>1
  <2>3. log' = log /\ expected' = expected /\ \A g \in Op[w].guards : expected[w][g] # Unread
    BY <1>4 DEF Decide, stream
  <2>4. basis'[w] = b
    BY <2>2 DEF TypeInv, TypeOK
  <2>5. ASSUME NEW g \in Op[w].guards
        PROVE  /\ expected[w][g] \in 0 .. Len(log)
               /\ b[g] \in expected[w][g] .. Len(log)
               /\ b[g] # 0 => log[b[g]].subject \in g.filter
               /\ \A q \in 1 .. Len(log) : log[q].op = w /\ log[q].part = 1 => q > expected[w][g]
    <3>1. g \in GuardsInUse /\ Guarded(w)
      BY GuardKinds DEF Guarded
    <3>2. expected[w][g] \in Nat /\ expected[w][g] <= v
      BY <1>0, <2>1, <2>3, <3>1 DEF Tails
    <3>3. TailIn(log, v, g, b[g])
      BY <2>2, <3>1
    <3>4. CapturedIs(g, expected[w][g])
      BY DEF TailsCaptured
    <3>5. expected[w][g] <= b[g]
      <4>1. CASE expected[w][g] = 0
        BY <3>3, <4>1 DEF TailIn
      <4>2. CASE expected[w][g] # 0
        BY <3>2, <3>3, <3>4, <4>2 DEF TailIn, CapturedIs
      <4>. QED
        BY <4>1, <4>2
    <3>6. ASSUME NEW q \in 1 .. Len(log), log[q].op = w, log[q].part = 1
          PROVE  q > expected[w][g]
      <4>1. q > v
        BY <2>1, <3>1, <3>6, LogStep DEF Stored
      <4>. QED
        BY <3>2, <4>1, LogStep
    <3>. QED
      BY <2>1, <3>2, <3>3, <3>5, <3>6, LogStep DEF TailIn
  <2>6. b \in [GuardsInUse -> Unread .. Len(log)]
    <3>1. Unread .. v \subseteq Unread .. Len(log)
      BY LogStep DEF Unread
    <3>. QED
      BY <3>1
  <2>. QED
    BY <2>3, <2>4, <2>5, <2>6 DEF Decided
(* A new request carries its writer's decision.                              *)
<1>5. ASSUME NEW r \in net', r \notin net PROVE Decided(r.op, r.expected, r.basis)'
  <2>1. PICK w \in Writers : Send(w)
    BY <1>5 DEF Next, WriterStep, ServerStep, vars, Call, Capture, Decide, Abort, RejectUnguarded,
         StageConflict, ReceiveOK, ReceiveConflict, ReceiveError, GiveUp, Retry,
         ServeDuplicate, ServeConflict, ServeStore, Answer, Lose, SecureDelete, ExpireID
  <2>2. r.op = w /\ r.expected = expected[w] /\ r.basis = basis[w] /\ pc[w] = "publish"
    BY <1>5, <2>1 DEF Send
  <2>. QED
    BY <1>0, <1>1, <2>2, DecidedGrows
<1>. QED
  BY <1>2, <1>3, <1>4, <1>5 DEF DecisionsHold

LEMMA AtomicInvInit == Init => AtomicInv
<1>. SUFFICES ASSUME Init PROVE AtomicInv
  OBVIOUS
<1>1. TypeInv
  BY TypeInit
<1>2. Len(log) = 0 /\ deleted = {} /\ net = {} /\ \A w \in Writers : pc[w] = "idle"
  BY DEF Init
<1>3. TailsCaptured
  <2>1. ASSUME NEW w \in Writers, NEW g \in Op[w].guards PROVE expected[w][g] = Unread
    BY GuardKinds DEF Init, NoTails
  <2>. QED
    BY <1>2, <2>1 DEF TailsCaptured, CapturedIs, Unread
<1>. QED
  BY <1>1, <1>2, <1>3 DEF AtomicInv, RecordsKeepSubjects, TailsRetained, DecisionsHold

LEMMA AtomicInvStep == AtomicInv /\ [Next]_vars => AtomicInv'
BY TypeStep, RecordsStep, RetainedStep, CapturedStep, DecisionStep DEF AtomicInv

(* When the server finds the captured tail of g in place, nothing that g     *)
(* covers was stored after it, retained or deleted.                          *)
LEMMA NothingAfterTail ==
    ASSUME AtomicInv, NEW w \in Writers, NEW g \in Op[w].guards,
           NEW e \in 0 .. Len(log), TailIs(g, e), NEW q \in 1 .. Len(log), q > e
    PROVE  log[q].subject \notin g.filter
<1>1. CASE g.kind = "stream"
  BY <1>1 DEF TailIs
<1>2. CASE g.kind # "stream" /\ Retained(q)
  BY <1>2 DEF TailIs
<1>3. CASE g.kind # "stream" /\ ~Retained(q)
  <2>1. q \in deleted
    BY <1>3 DEF Retained
  <2>. SUFFICES ASSUME log[q].subject \in g.filter PROVE FALSE
    OBVIOUS
  <2>2. PICK p \in 1 .. Len(log) : p > q /\ Retained(p) /\ log[p].subject \in g.filter
    BY <2>1 DEF AtomicInv, TailsRetained, Superseded
  <2>3. p > e
    BY <2>2
  <2>. QED
    BY <1>3, <2>2, <2>3 DEF TailIs
<1>. QED
  BY <1>1, <1>2, <1>3

(* A served request is an atomic application of its operation.              *)
LEMMA StoreApplies ==
    ASSUME AtomicInv, [Next]_vars, NEW r \in net, ServeStore(r)
    PROVE  Atomic!Apply(r.op)
<1>0. TypeInv
  BY DEF AtomicInv
<1>1. /\ r.op \in Writers /\ r.call \in 1 .. MaxCalls /\ r.basis \in Tails /\ r.expected \in Tails
      /\ log' = log \o Records(r.op, r.call, r.basis)
      /\ log' # log
  <2>1. Len(log') # Len(log)
    BY <1>0, StoreStep, LogStep
  <2>. QED
    BY <1>0, <2>1, StoreStep
<1>2. ASSUME NEW g \in Op[r.op].guards
      PROVE  /\ r.expected[g] \in 0 .. Len(log) /\ r.basis[g] = r.expected[g]
             /\ TailIn(log, Len(log), g, r.basis[g])
  <2>1. /\ r.expected[g] \in 0 .. Len(log)
        /\ r.basis[g] \in r.expected[g] .. Len(log)
        /\ r.basis[g] # 0 => log[r.basis[g]].subject \in g.filter
    BY DEF AtomicInv, DecisionsHold, Decided
  <2>2. TailIs(g, r.expected[g])
    BY DEF ServeStore, GuardsHold
  <2>3. \A q \in 1 .. Len(log) : q > r.expected[g] => log[q].subject \notin g.filter
             \/ g.kind = "stream"
    BY <1>1, <2>1, <2>2, NothingAfterTail
  <2>4. r.basis[g] = r.expected[g]
    <3>1. CASE g.kind = "stream"
      BY <1>0, <2>1, <2>2, <3>1, LogStep DEF TailIs
    <3>2. CASE g.kind # "stream"
      BY <1>0, <2>1, <2>3, <3>2, LogStep
    <3>. QED
      BY <3>1, <3>2
  <2>. QED
    BY <1>1, <2>1, <2>2, <2>4, NothingAfterTail DEF TailIn
<1>3. ASSUME Covered(r.op) PROVE ~Stored(log, Len(log), r.op)
  <2>. SUFFICES ASSUME NEW q \in 1 .. Len(log), log[q].op = r.op, log[q].part = 1 PROVE FALSE
    BY DEF Stored
  <2>1. PICK g \in Op[r.op].guards : Op[r.op].subjects[1] \in g.filter
    BY <1>3 DEF Covered, Covers
  <2>2. log[q].subject \in g.filter
    BY <2>1 DEF AtomicInv, RecordsKeepSubjects
  <2>3. q > r.expected[g]
    BY <2>1 DEF AtomicInv, DecisionsHold, Decided
  <2>4. TailIs(g, r.expected[g])
    BY <2>1 DEF ServeStore, GuardsHold
  <2>. QED
    BY <1>1, <1>2, <2>1, <2>2, <2>3, <2>4, NothingAfterTail
<1>4. r.basis \in [GuardsInUse -> Unread .. Len(log)]
  BY DEF AtomicInv, DecisionsHold, Decided
<1>5. Atomic!Covered(r.op) => ~Atomic!Stored(log, Len(log), r.op)
  BY <1>3 DEF Covered, Covers, Stored, Atomic!Covered, Atomic!Covers, Atomic!Stored
<1>6. \A g \in Op[r.op].guards : Atomic!TailIn(log, Len(log), g, r.basis[g])
  BY <1>2 DEF TailIn, Atomic!TailIn
<1>7. log' = log \o Atomic!Records(r.op, r.call, r.basis)
  BY <1>1 DEF Records, Record, Parts, Atomic!Records, Atomic!Record, Atomic!Parts
<1>8. r.basis \in [Atomic!GuardsInUse -> Atomic!Unread .. Len(log)]
  BY <1>4 DEF GuardsInUse, Unread, Atomic!GuardsInUse, Atomic!Unread
<1>. QED
  BY <1>1, <1>5, <1>6, <1>7, <1>8 DEF Atomic!Apply

(* ExecuteMutation, AppendAt, AppendBatch and AppendEventually implement    *)
(* the atomic log: every record that reaches the stream belongs to an        *)
(* operation that was applied in one step, on the state its decision saw.    *)
THEOREM AtomicityRefinement == Spec => AppliedAtomically
<1>1. Init => Atomic!Init
  BY DEF Init, Atomic!Init
<1>2. AtomicInv /\ [Next]_vars => [Atomic!Next]_log
  <2>. SUFFICES ASSUME AtomicInv, [Next]_vars PROVE Atomic!Next \/ log' = log
    OBVIOUS
  <2>1. TypeInv
    BY DEF AtomicInv
  <2>2. CASE log' = log
    BY <2>2
  <2>3. ASSUME NEW r \in net, ServeStore(r) PROVE Atomic!Next
    BY <2>1, <2>3, StoreApplies, StoreStep DEF Atomic!Next
  <2>. QED
    BY <2>1, <2>2, <2>3, LogStep
<1>. QED
  BY <1>1, <1>2, AtomicInvInit, AtomicInvStep, PTL DEF Spec, AppliedAtomically, Atomic!Spec
=============================================================================
