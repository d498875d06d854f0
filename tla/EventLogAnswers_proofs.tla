----------------------- MODULE EventLogAnswers_proofs ------------------------
(***************************************************************************)
(* Proofs about what the calls of EventLog report to their callers, for     *)
(* every set of writers, subjects and operations.                           *)
(***************************************************************************)
EXTENDS EventLog_proofs, FiniteSetTheorems

(* Nothing of the writer's current call is stored, or on its way either.    *)
NothingStored(w) == \A q \in 1 .. Len(log) : ~(log[q].op = w /\ log[q].call = calls[w])
NothingSent(w) == \A r \in net : ~(r.op = w /\ r.call = calls[w])
Clean(w) == NothingStored(w) /\ NothingSent(w)

(* The only request of the current call is the one that is waited for.      *)
OneRequest(w) ==
    \A r, s \in net : r.op = w /\ r.call = calls[w] /\ s.op = w /\ s.call = calls[w] =>
        r = s /\ Awaits(w, r)

(* Records and requests stem from calls that were issued. A call has        *)
(* published nothing until it awaits an answer, and then at most the request*)
(* it awaits; a conflict is the answer to that request.                     *)
CallAccounted(w) ==
    /\ pc[w] \in {"capture", "publish", "backoff"} => Clean(w)
    /\ pc[w] = "await" /\ reply[w].kind = "none" => NothingStored(w) /\ OneRequest(w)
    /\ pc[w] = "await" /\ reply[w].kind # "none" => NothingSent(w)
    /\ pc[w] = "await" /\ reply[w].kind = "conflict" => NothingStored(w)
    /\ result[w].status = "conflict" => Clean(w) /\ pc[w] = "done"

CallsAccounted ==
    /\ \A q \in 1 .. Len(log) : log[q].call <= calls[log[q].op]
    /\ \A r \in net : r.call <= calls[r.op]
    /\ \A w \in Writers : CallAccounted(w)

----------------------------------------------------------------------------
(* A writer's step concerns that writer, leaves the stream alone, and only   *)
(* Send puts a request on its way.                                          *)
LEMMA WriterFrame ==
    ASSUME TypeInv, NEW u \in Writers, WriterStep(u)
    PROVE  /\ UNCHANGED stream
           /\ \A w \in Writers \ {u} :
                 /\ pc'[w] = pc[w] /\ calls'[w] = calls[w] /\ attempt'[w] = attempt[w]
                 /\ reply'[w] = reply[w] /\ result'[w] = result[w]
           /\ net' = net \/ Send(u)
           /\ calls' = calls \/ Call(u)
           /\ attempt' = attempt \/ Call(u) \/ Retry(u)
           /\ reply' = reply \/ Send(u)
<1>. USE DEF TypeInv, TypeOK
<1>1. CASE Call(u) \/ Capture(u) \/ Retry(u) \/ Send(u) \/ ReceiveOK(u)
  BY <1>1 DEF Call, Capture, Retry, Send, ReceiveOK
<1>2. CASE Decide(u)
  BY <1>2 DEF Decide, Return
<1>3. CASE Abort(u) \/ RejectUnguarded(u) \/ ReceiveError(u) \/ GiveUp(u)
  BY <1>3 DEF Abort, RejectUnguarded, ReceiveError, GiveUp, Return
<1>4. CASE StageConflict(u) \/ ReceiveConflict(u)
  BY <1>4 DEF StageConflict, ReceiveConflict, Conflict, Return
<1>. QED
  BY <1>1, <1>2, <1>3, <1>4 DEF WriterStep

(* Where the steps of u that are neither Call nor Send take it.             *)
LEMMA WriterMoves ==
    ASSUME TypeInv, NEW u \in Writers, WriterStep(u), ~Call(u), ~Send(u)
    PROVE  /\ \/ pc[u] \in {"capture", "publish", "backoff"}
              \/ pc[u] = "await" /\ (pc'[u] = "done" \/ reply[u].kind = "conflict")
           /\ pc'[u] \in {"capture", "publish", "backoff", "done"}
           /\ \/ result'[u] = result[u]
              \/ /\ pc'[u] = "done"
                 /\ \/ result'[u].status \in {"noop", "error"}
                    \/ ReceiveOK(u)
                    \/ /\ result'[u].status = "conflict"
                       /\ pc[u] = "publish" \/ (pc[u] = "await" /\ reply[u].kind = "conflict")
<1>. USE DEF TypeInv, TypeOK
<1>1. CASE Capture(u) \/ Retry(u)
  BY <1>1 DEF Capture, Retry
<1>2. CASE Decide(u)
  BY <1>2 DEF Decide, Return
<1>3. CASE Abort(u) \/ RejectUnguarded(u) \/ ReceiveError(u) \/ GiveUp(u)
  BY <1>3 DEF Abort, RejectUnguarded, ReceiveError, GiveUp, Return
<1>4. CASE StageConflict(u) \/ ReceiveConflict(u)
  BY <1>4 DEF StageConflict, ReceiveConflict, Conflict, Return
<1>5. CASE ReceiveOK(u)
  BY <1>5 DEF ReceiveOK
<1>. QED
  BY <1>1, <1>2, <1>3, <1>4, <1>5 DEF WriterStep

LEMMA CallsInit == Init => CallsAccounted
<1>. SUFFICES ASSUME Init PROVE CallsAccounted
  OBVIOUS
<1>1. Len(log) = 0 /\ net = {}
  BY DEF Init
<1>. QED
  BY <1>1 DEF Init, CallsAccounted, CallAccounted, NoResult, NoReply

(* What a writer's own step does to its account.                            *)
LEMMA WriterAccount ==
    ASSUME TypeInv, CallsAccounted, NEW u \in Writers, WriterStep(u)
    PROVE  CallsAccounted'
<1>1. /\ calls \in [Writers -> Nat]
      /\ \A r \in net : r.op \in Writers /\ r.call \in Nat
      /\ \A q \in 1 .. Len(log) : log[q].op \in Writers /\ log[q].call \in Nat
  <2>1. log \in Seq(StoredRecords) /\ net \subseteq Requests
    BY DEF TypeInv, TypeOK
  <2>2. MaxCalls \in Nat
    BY OpAssumption
  <2>3. \A q \in 1 .. Len(log) : log[q] \in StoredRecords
    BY <2>1
  <2>4. calls \in [Writers -> 0 .. MaxCalls] /\ 0 .. MaxCalls \subseteq Nat /\ 1 .. MaxCalls \subseteq Nat
    BY <2>2 DEF TypeInv, TypeOK
  <2>5. calls \in [Writers -> Nat]
    BY <2>4
  <2>6. \A r \in net : r.op \in Writers /\ r.call \in Nat
    BY <2>1, <2>4 DEF Requests
  <2>7. \A q \in 1 .. Len(log) : log[q].op \in Writers /\ log[q].call \in Nat
    BY <2>3, <2>4 DEF StoredRecords
  <2>. QED
    BY <2>5, <2>6, <2>7
<1>2. log' = log
  BY WriterFrame DEF stream
<1>3. \A w \in Writers : calls[w] <= calls'[w]
  BY <1>1, WriterFrame DEF Call
<1>4. /\ \A q \in 1 .. Len(log') : log'[q].call <= calls'[log'[q].op]
      /\ \A r \in net' : r.call <= calls'[r.op]
  <2>1. \A r \in net' : r \in net \/ (r.op = u /\ r.call = calls[u])
    BY WriterFrame DEF Send
  <2>2. calls' \in [Writers -> Nat]
    BY TypeStep, OpAssumption DEF Next, TypeInv, TypeOK
  <2>. QED
    BY <1>1, <1>2, <1>3, <2>1, <2>2 DEF CallsAccounted
<1>5. ASSUME NEW w \in Writers, w # u PROVE CallAccounted(w)'
  <2>1. \A r \in net' : r.op = w => r \in net
    BY <1>5, WriterFrame DEF Send
  <2>2. CallAccounted(w)
    BY DEF CallsAccounted
  <2>3. \A r : Awaits(w, r) => Awaits(w, r)'
    BY <1>5, WriterFrame DEF Awaits
  <2>. QED
    BY <1>2, <1>5, <2>1, <2>2, <2>3, WriterFrame
       DEF CallAccounted, Clean, NothingStored, NothingSent, OneRequest
<1>6. CallAccounted(u)'
  <2>0. CallAccounted(u)
    BY DEF CallsAccounted
  <2>1. CASE Call(u)
    <3>1. calls'[u] = calls[u] + 1 /\ net' = net /\ pc'[u] = "capture" /\ result'[u] = NoResult
      BY <2>1 DEF Call, TypeInv, TypeOK
    <3>2. Clean(u)'
      <4>1. \A q \in 1 .. Len(log) : log[q].op = u => log[q].call # calls'[u]
        BY <1>1, <3>1 DEF CallsAccounted
      <4>2. \A r \in net : r.op = u => r.call # calls'[u]
        BY <1>1, <3>1 DEF CallsAccounted
      <4>. QED
        BY <1>2, <3>1, <4>1, <4>2 DEF Clean, NothingStored, NothingSent
    <3>. QED
      BY <3>1, <3>2 DEF CallAccounted, NoResult
  <2>2. CASE Send(u)
    <3>1. /\ pc[u] = "publish" /\ pc'[u] = "await" /\ reply'[u] = NoReply /\ result' = result
          /\ calls' = calls /\ attempt' = attempt
      BY <2>2 DEF Send, TypeInv, TypeOK
    <3>2. Clean(u) /\ result[u].status # "conflict"
      BY <2>0, <3>1 DEF CallAccounted
    <3>3. NothingStored(u)'
      BY <1>2, <3>1, <3>2 DEF Clean, NothingStored
    <3>4. OneRequest(u)'
      <4> DEFINE n == [op |-> u, call |-> calls[u], attempt |-> attempt[u],
                       expected |-> expected[u], basis |-> basis[u]]
      <4>1. net' = net \cup {n} /\ n.attempt = attempt[u] /\ n.call = calls[u]
        BY <2>2 DEF Send
      <4>2. \A r \in net' : r.op = u /\ r.call = calls'[u] => r = n
        BY <3>1, <3>2, <4>1 DEF Clean, NothingSent
      <4>. QED
        BY <3>1, <4>1, <4>2 DEF OneRequest, Awaits
    <3>. QED
      BY <3>1, <3>2, <3>3, <3>4 DEF CallAccounted, NoReply
  <2>3. CASE ~Call(u) /\ ~Send(u)
    <3>1. net' = net /\ calls' = calls /\ reply' = reply
      BY <2>3, WriterFrame
    <3>2. Clean(u) => Clean(u)'
      BY <1>2, <3>1 DEF Clean, NothingStored, NothingSent
    <3>3. ReceiveOK(u) => result'[u].status # "conflict"
      BY DEF ReceiveOK, TypeInv, TypeOK
    <3>4. pc'[u] \in {"capture", "publish", "backoff"} \/ result'[u].status = "conflict" => Clean(u)
      BY <2>0, <2>3, <3>3, WriterMoves DEF CallAccounted, Clean
    <3>5. result'[u].status = "conflict" => pc'[u] = "done"
      BY <2>0, <2>3, <3>3, WriterMoves DEF CallAccounted
    <3>. QED
      BY <2>3, <3>1, <3>2, <3>4, <3>5, WriterMoves DEF CallAccounted
  <2>. QED
    BY <2>1, <2>2, <2>3
<1>. QED
  BY <1>4, <1>5, <1>6 DEF CallsAccounted

(* The request r of w's current call is answered for the first time.        *)
FirstAnswer(w, r) ==
    /\ w = r.op /\ calls[w] = r.call /\ pc[w] = "await" /\ reply[w].kind = "none"
    /\ NothingStored(w)

(* An answer reaches a writer only as the first one to its only request.    *)
LEMMA AnswerReaches ==
    ASSUME TypeInv, CallsAccounted, NEW r \in net,
           NEW k \in {"stored", "conflict", "duplicate", "duplicate batch"}, NEW seq \in Nat,
           Answer(r, k, seq), NEW w \in Writers, reply'[w] # reply[w]
    PROVE  FirstAnswer(w, r) /\ NothingSent(w)'
<1>1. w = r.op /\ Awaits(w, r)
  BY DEF Answer, TypeInv, TypeOK
<1>2. CallAccounted(w) /\ net' = net \ {r} /\ calls' = calls
  BY DEF CallsAccounted, Answer
<1>3. reply[w].kind = "none"
  BY <1>1, <1>2 DEF CallAccounted, NothingSent, Awaits
<1>4. NothingStored(w) /\ OneRequest(w)
  BY <1>1, <1>2, <1>3 DEF CallAccounted, Awaits
<1>5. NothingSent(w)'
  BY <1>1, <1>2, <1>4 DEF NothingSent, OneRequest, Awaits
<1>. QED
  BY <1>1, <1>3, <1>4, <1>5 DEF Awaits, FirstAnswer

(* What a step of the server does to the accounts.                          *)
LEMMA ServerAccount ==
    ASSUME TypeInv, CallsAccounted, ServerStep
    PROVE  CallsAccounted'
<1>1. /\ calls' = calls /\ attempt' = attempt /\ pc' = pc /\ result' = result /\ net' \subseteq net
      /\ log' = log \/ \E r \in net : ServeStore(r)
  BY DEF ServerStep, ServeDuplicate, ServeConflict, ServeStore, Lose, SecureDelete, ExpireID, Answer,
         stream
<1>2. /\ \A w \in Writers : NothingSent(w) => NothingSent(w)'
      /\ \A w \in Writers : OneRequest(w) => OneRequest(w)'
  BY <1>1 DEF NothingSent, OneRequest, Awaits
<1>3. \A r \in net' : r.call <= calls'[r.op]
  BY <1>1 DEF CallsAccounted
(* A step that stores nothing: an answer, if there is one, leaves nothing   *)
(* on its way.                                                              *)
<1>4. ASSUME NEW w \in Writers, NothingStored(w) => NothingStored(w)',
             \/ reply'[w] = reply[w]
             \/ \E r \in net : ServeConflict(r) \/ ServeDuplicate(r)
      PROVE  CallAccounted(w)'
  <2>1. CallAccounted(w)
    BY DEF CallsAccounted
  <2>2. CASE reply'[w] = reply[w]
    BY <1>1, <1>2, <1>4, <2>1, <2>2 DEF CallAccounted, Clean
  <2>3. ASSUME reply'[w] # reply[w], NEW r \in net, ServeConflict(r) \/ ServeDuplicate(r)
        PROVE  CallAccounted(w)'
    <3>1. PICK k \in {"conflict", "duplicate", "duplicate batch"}, seq \in Nat : Answer(r, k, seq)
      <4>1. window \subseteq Nat
        BY DEF TypeInv, TypeOK
      <4>. QED
        BY <2>3, <4>1 DEF ServeConflict, ServeDuplicate
    <3>2. FirstAnswer(w, r) /\ NothingSent(w)'
      BY <2>3, <3>1, AnswerReaches
    <3>3. reply'[w].kind # "none"
      BY <2>3, <3>1 DEF Answer, TypeInv, TypeOK
    <3>. QED
      BY <1>1, <1>2, <1>4, <2>1, <3>2, <3>3 DEF CallAccounted, Clean, FirstAnswer
  <2>. QED
    BY <1>4, <2>2, <2>3
<1>5. CASE log' = log
  <2>1. \A w \in Writers : NothingStored(w) => NothingStored(w)'
    BY <1>1, <1>5 DEF NothingStored
  <2>2. reply' = reply \/ \E r \in net : ServeConflict(r) \/ ServeDuplicate(r)
    <3>1. ASSUME NEW r \in net, ServeStore(r) PROVE FALSE
      <4>1. Len(log') # Len(log)
        BY <3>1, StoreStep, LogStep DEF Next
      <4>. QED
        BY <1>5, <4>1
    <3>. QED
      BY <3>1 DEF ServerStep, Lose, SecureDelete, ExpireID
  <2>3. \A w \in Writers : CallAccounted(w)'
    BY <1>4, <2>1, <2>2
  <2>. QED
    BY <1>1, <1>3, <1>5, <2>3 DEF CallsAccounted
<1>6. ASSUME NEW r \in net, ServeStore(r) PROVE CallsAccounted'
  <2>1. /\ r.op \in Writers /\ Answer(r, "stored", Len(log'))
        /\ Len(log) \in Nat /\ Len(log') \in Nat /\ Len(log) <= Len(log')
        /\ \A q \in 1 .. Len(log) : log'[q] = log[q]
        /\ \A q \in Len(log) + 1 .. Len(log') : log'[q].op = r.op /\ log'[q].call = r.call
    <3>1. \A q \in Len(log) + 1 .. Len(log') :
             log'[q] = Record(r.op, r.call, r.basis, q - Len(log))
      BY <1>6, StoreStep
    <3>2. r.op \in Writers /\ Answer(r, "stored", Len(log'))
      BY <1>6, StoreStep DEF ServeStore
    <3>3. [Next]_vars
      BY DEF Next
    <3>4. \A q \in Len(log) + 1 .. Len(log') : log'[q].op = r.op /\ log'[q].call = r.call
      <4>1. \A i : Record(r.op, r.call, r.basis, i).op = r.op /\ Record(r.op, r.call, r.basis, i).call = r.call
        BY DEF Record
      <4>. QED
        BY <3>1, <4>1
    <3>. QED
      BY <3>2, <3>3, <3>4, LogStep
  <2>0. PICK n \in Nat : n = Len(log') /\ Answer(r, "stored", n)
    BY <2>1
  <2>2. \A q \in 1 .. Len(log') : q \in 1 .. Len(log) \/ q \in Len(log) + 1 .. Len(log')
    BY <2>1
  <2>3. \A q \in 1 .. Len(log') : log'[q].call <= calls'[log'[q].op]
    BY <1>1, <2>1, <2>2 DEF CallsAccounted
  <2>4. ASSUME NEW w \in Writers, ~(w = r.op /\ calls[w] = r.call) PROVE CallAccounted(w)'
    <3>1. NothingStored(w) => NothingStored(w)'
      BY <1>1, <2>1, <2>2, <2>4 DEF NothingStored
    <3>2. reply'[w] = reply[w]
      <4>. SUFFICES ASSUME reply'[w] # reply[w] PROVE FALSE
        OBVIOUS
      <4>1. FirstAnswer(w, r)
        BY <2>0, AnswerReaches
      <4>. QED
        BY <2>4, <4>1 DEF FirstAnswer
    <3>. QED
      BY <1>4, <3>1, <3>2
  <2>5. ASSUME NEW w \in Writers, w = r.op, calls[w] = r.call PROVE CallAccounted(w)'
    <3>1. CallAccounted(w) /\ ~NothingSent(w)
      BY <2>5 DEF CallsAccounted, NothingSent
    <3>2. result'[w].status # "conflict" /\ pc'[w] \notin {"capture", "publish", "backoff"}
      BY <1>1, <3>1 DEF CallAccounted, Clean
    <3>3. CASE pc[w] # "await"
      BY <1>1, <3>2, <3>3 DEF CallAccounted
    <3>4. CASE pc[w] = "await"
      <4>1. reply[w].kind = "none" /\ Awaits(w, r)
        BY <2>5, <3>1, <3>4 DEF CallAccounted, OneRequest
      <4>2. reply'[w].kind = "stored"
        BY <2>1, <2>5, <4>1 DEF Answer, TypeInv, TypeOK
      <4>3. reply'[w] # reply[w]
        BY <4>1, <4>2
      <4>4. NothingSent(w)'
        BY <2>0, <4>3, AnswerReaches
      <4>. QED
        BY <1>1, <3>2, <4>2, <4>4 DEF CallAccounted
    <3>. QED
      BY <3>3, <3>4
  <2>. QED
    BY <1>3, <2>3, <2>4, <2>5 DEF CallsAccounted
<1>. QED
  BY <1>1, <1>5, <1>6

LEMMA CallsStep == TypeInv /\ CallsAccounted /\ [Next]_vars => CallsAccounted'
<1>. SUFFICES ASSUME TypeInv, CallsAccounted, [Next]_vars PROVE CallsAccounted'
  OBVIOUS
<1>1. CASE UNCHANGED vars
  BY <1>1 DEF vars, CallsAccounted, CallAccounted, Clean, NothingStored, NothingSent, OneRequest, Awaits
<1>. QED
  BY <1>1, WriterAccount, ServerAccount DEF Next

(* A call of ExecuteMutation, AppendAt or AppendBatch that returns          *)
(* ErrConflict has stored none of its records, and no request of it is left *)
(* that could store one later.                                              *)
THEOREM ConflictsAreClean == Spec => []ConflictStoresNothing
<1>1. CallsAccounted => ConflictStoresNothing
  BY DEF CallsAccounted, CallAccounted, ConflictStoresNothing, Clean, NothingStored, NothingSent
<1>. QED
  BY <1>1, TypeInit, TypeStep, CallsInit, CallsStep, PTL DEF Spec

----------------------------------------------------------------------------
(* The records of w's operation end at sequence q, and call c stored them.  *)
PartsAt(w, q, c) ==
    \A i \in Parts(w) :
        LET p == q - (Len(Op[w].subjects) - i)
        IN  p \in 1 .. Len(log) /\ log[p].op = w /\ log[p].part = i /\ log[p].call = c

(* The server's answer tells where the awaited operation is stored.         *)
AnswerTrue(w) ==
    pc[w] = "await" =>
        /\ reply[w].kind = "stored" => PartsAt(w, reply[w].seq, calls[w])
        /\ reply[w].kind = "duplicate" => \E c \in Nat : PartsAt(w, reply[w].seq, c)

ResultTrue(w) ==
    result[w].status \in {"stored", "duplicate"} =>
        \A i \in Parts(w) :
            LET q == result[w].seqs[i]
            IN  /\ q \in 1 .. Len(log)
                /\ log[q].op = w /\ log[q].part = i /\ log[q].subject = Op[w].subjects[i]
                /\ result[w].status = "stored" => log[q].call = calls[w]

AnswersTrue == \A w \in Writers : AnswerTrue(w) /\ ResultTrue(w)

ReportInv == TypeInv /\ RecordsKeepSubjects /\ AnswersTrue

LEMMA PartsRange ==
    ASSUME NEW w \in Writers
    PROVE  Len(Op[w].subjects) \in Nat \ {0} /\ Parts(w) = 1 .. Len(Op[w].subjects)
BY OpAssumption DEF Operations, Parts

(* Stored records stay where they are.                                      *)
LEMMA PartsStay ==
    ASSUME TypeInv, [Next]_vars, NEW w \in Writers, NEW q \in Nat, NEW c \in Nat, PartsAt(w, q, c)
    PROVE  PartsAt(w, q, c)'
<1>. SUFFICES ASSUME NEW i \in Parts(w)
              PROVE  LET p == q - (Len(Op[w].subjects) - i)
                     IN  p \in 1 .. Len(log') /\ log'[p].op = w /\ log'[p].part = i /\ log'[p].call = c
  BY DEF PartsAt
<1> DEFINE p == q - (Len(Op[w].subjects) - i)
<1>1. p \in 1 .. Len(log) /\ log[p].op = w /\ log[p].part = i /\ log[p].call = c
  BY DEF PartsAt
<1>. HIDE DEF p
<1>2. p \in 1 .. Len(log') /\ log'[p] = log[p]
  BY <1>1, LogStep
<1>. QED
  BY <1>1, <1>2 DEF p

LEMMA ResultStays ==
    ASSUME TypeInv, [Next]_vars, NEW w \in Writers, ResultTrue(w),
           result'[w] = result[w], calls'[w] = calls[w]
    PROVE  ResultTrue(w)'
<1>. SUFFICES ASSUME result[w].status \in {"stored", "duplicate"}, NEW i \in Parts(w)
              PROVE  LET q == result[w].seqs[i]
                     IN  /\ q \in 1 .. Len(log')
                         /\ log'[q].op = w /\ log'[q].part = i /\ log'[q].subject = Op[w].subjects[i]
                         /\ result[w].status = "stored" => log'[q].call = calls[w]
  BY DEF ResultTrue
<1> DEFINE q == result[w].seqs[i]
<1>1. /\ q \in 1 .. Len(log)
      /\ log[q].op = w /\ log[q].part = i /\ log[q].subject = Op[w].subjects[i]
      /\ result[w].status = "stored" => log[q].call = calls[w]
  BY DEF ResultTrue
<1>. HIDE DEF q
<1>2. q \in 1 .. Len(log') /\ log'[q] = log[q]
  BY <1>1, LogStep
<1>. QED
  BY <1>1, <1>2 DEF q

(* A writer that neither gets an answer nor returns keeps what it knows.    *)
LEMMA AnswerStays ==
    ASSUME TypeInv, [Next]_vars, NEW w \in Writers, AnswerTrue(w),
           pc'[w] = "await" => pc[w] = "await" /\ calls'[w] = calls[w] /\ reply'[w] = reply[w]
    PROVE  AnswerTrue(w)'
<1>. SUFFICES ASSUME pc'[w] = "await" PROVE AnswerTrue(w)'
  BY DEF AnswerTrue
<1>1. reply[w].seq \in Nat /\ calls[w] \in Nat
  <2>1. reply[w] \in Replies /\ calls[w] \in 0 .. MaxCalls
    BY DEF TypeInv, TypeOK
  <2>2. reply[w].seq \in Nat
    BY <2>1 DEF Replies
  <2>. QED
    BY <2>1, <2>2
<1>2. PICK q \in Nat, c \in Nat : q = reply[w].seq /\ c = calls[w]
  BY <1>1
<1>3. \A d \in Nat : PartsAt(w, q, d) => PartsAt(w, q, d)'
  BY PartsStay
<1>. QED
  BY <1>2, <1>3 DEF AnswerTrue

(* The answer to a served request is true.                                  *)
LEMMA StoredAnswer ==
    ASSUME TypeInv, NEW r \in net, ServeStore(r)
    PROVE  PartsAt(r.op, Len(log), r.call)'
<1>1. /\ r.op \in Writers /\ Len(log) \in Nat /\ log \in Seq(StoredRecords)
      /\ Len(log') = Len(log) + Len(Op[r.op].subjects)
      /\ \A q \in Len(log) + 1 .. Len(log') : log'[q] = Record(r.op, r.call, r.basis, q - Len(log))
  BY StoreStep DEF TypeInv, TypeOK
<1>2. ASSUME NEW i \in Parts(r.op)
      PROVE  LET p == Len(log') - (Len(Op[r.op].subjects) - i)
             IN  p \in 1 .. Len(log') /\ log'[p] = Record(r.op, r.call, r.basis, i)
  <2>1. i \in 1 .. Len(Op[r.op].subjects) /\ Len(Op[r.op].subjects) \in Nat
    BY <1>1, PartsRange
  <2>2. Len(log') - (Len(Op[r.op].subjects) - i) = Len(log) + i /\ Len(log) + i \in Len(log) + 1 .. Len(log')
    <3>1. \A m, n, l \in Nat : \A j \in 1 .. n : l = m + n => l - (n - j) = m + j /\ m + j \in m + 1 .. l
      OBVIOUS
    <3>2. Len(log') \in Nat
      BY <1>1, <2>1
    <3>. QED
      BY <1>1, <2>1, <3>1, <3>2
  <2>3. log'[Len(log) + i] = Record(r.op, r.call, r.basis, i)
    <3>1. (Len(log) + i) - Len(log) = i
      BY <1>1, <2>1
    <3>. QED
      BY <1>1, <2>2, <3>1
  <2>. QED
    BY <1>1, <2>2, <2>3
<1>3. \A i : /\ Record(r.op, r.call, r.basis, i).op = r.op
             /\ Record(r.op, r.call, r.basis, i).call = r.call
             /\ Record(r.op, r.call, r.basis, i).part = i
  BY DEF Record
<1>. QED
  BY <1>2, <1>3 DEF PartsAt

LEMMA DuplicateAnswer ==
    ASSUME TypeInv, NEW r \in net, NEW i \in Parts(r.op), NEW q \in window,
           Recognised(r.op, i, q), Len(Op[r.op].subjects) = 1
    PROVE  \E c \in Nat : PartsAt(r.op, q, c)
<1>1. r.op \in Writers /\ q \in 1 .. Len(log) /\ log \in Seq(StoredRecords) /\ MaxCalls \in Nat
  <2>1. net \subseteq Requests /\ window \subseteq 1 .. Len(log) /\ log \in Seq(StoredRecords)
    BY DEF TypeInv, TypeOK
  <2>2. MaxCalls \in Nat
    BY OpAssumption
  <2>. QED
    BY <2>1, <2>2 DEF Requests
<1>2. Parts(r.op) = {1}
  BY <1>1, PartsRange
<1>3. log[q].call \in Nat /\ log[q].op = r.op /\ log[q].part = 1 /\ q - (1 - 1) = q
  <2>1. log[q] \in StoredRecords
    BY <1>1
  <2>2. log[q].call \in 1 .. MaxCalls
    BY <2>1 DEF StoredRecords
  <2>. QED
    BY <1>1, <1>2, <2>2 DEF Recognised
<1>4. PartsAt(r.op, q, log[q].call)
  BY <1>1, <1>2, <1>3 DEF PartsAt
<1>. QED
  BY <1>3, <1>4

LEMMA AnswersInit == Init => ReportInv
<1>. SUFFICES ASSUME Init PROVE ReportInv
  OBVIOUS
<1>1. RecordsKeepSubjects
  BY DEF Init, RecordsKeepSubjects
<1>. QED
  BY <1>1, TypeInit DEF Init, ReportInv, AnswersTrue, AnswerTrue, ResultTrue, NoResult, NoReply

(* The server's step: every answer it gives is true.                        *)
LEMMA ServerAnswers ==
    ASSUME TypeInv, AnswersTrue, ServerStep, NEW w \in Writers
    PROVE  AnswerTrue(w)' /\ ResultTrue(w)'
<1>1. /\ calls' = calls /\ attempt' = attempt /\ pc' = pc /\ result' = result
      /\ \/ reply' = reply
         \/ \E r \in net : ServeDuplicate(r) \/ ServeConflict(r) \/ ServeStore(r)
  BY DEF ServerStep, ServeDuplicate, ServeConflict, ServeStore, Lose, SecureDelete, ExpireID, Answer
<1>2. AnswerTrue(w) /\ ResultTrue(w) /\ [Next]_vars
  BY DEF AnswersTrue, Next
<1>3. ResultTrue(w)'
  BY <1>1, <1>2, ResultStays
<1>4. CASE reply'[w] = reply[w]
  BY <1>1, <1>2, <1>3, <1>4, AnswerStays
<1>5. ASSUME NEW r \in net, reply'[w] # reply[w], ServeDuplicate(r) PROVE AnswerTrue(w)'
  <2>1. PICK i \in Parts(r.op), q \in window :
           /\ Recognised(r.op, i, q)
           /\ IF Len(Op[r.op].subjects) = 1
              THEN Answer(r, "duplicate", q)
              ELSE Answer(r, "duplicate batch", 0)
    BY <1>5 DEF ServeDuplicate
  <2>2. CASE Len(Op[r.op].subjects) = 1
    <3>1. w = r.op /\ reply'[w].kind = "duplicate" /\ reply'[w].seq = q
      BY <1>5, <2>1, <2>2 DEF Answer, TypeInv, TypeOK
    <3>2. log' = log
      BY <1>5 DEF ServeDuplicate, stream
    <3>3. PICK c \in Nat : PartsAt(r.op, q, c)
      BY <2>1, <2>2, DuplicateAnswer
    <3>4. PartsAt(w, reply[w].seq, c)'
      BY <3>1, <3>2, <3>3 DEF PartsAt
    <3>. QED
      BY <3>1, <3>4 DEF AnswerTrue
  <2>3. CASE Len(Op[r.op].subjects) # 1
    <3>1. PICK k : k = "duplicate batch" /\ Answer(r, k, 0)
      BY <2>1, <2>3
    <3>2. reply'[w].kind = k
      BY <1>5, <3>1 DEF Answer, TypeInv, TypeOK
    <3>. QED
      BY <3>1, <3>2 DEF AnswerTrue
  <2>. QED
    BY <2>2, <2>3
<1>6. ASSUME NEW r \in net, reply'[w] # reply[w], ServeConflict(r) PROVE AnswerTrue(w)'
  <2>1. reply'[w].kind = "conflict"
    BY <1>6 DEF ServeConflict, Answer, TypeInv, TypeOK
  <2>. QED
    BY <2>1 DEF AnswerTrue
<1>7. ASSUME NEW r \in net, reply'[w] # reply[w], ServeStore(r) PROVE AnswerTrue(w)'
  <2>1. w = r.op /\ calls[w] = r.call /\ reply'[w].kind = "stored" /\ reply'[w].seq = Len(log')
    BY <1>7 DEF ServeStore, Answer, Awaits, TypeInv, TypeOK
  <2>2. PartsAt(r.op, Len(log), r.call)'
    BY <1>7, StoredAnswer
  <2>3. PartsAt(w, reply[w].seq, calls[w])'
    BY <1>1, <2>1, <2>2 DEF PartsAt
  <2>. QED
    BY <2>1, <2>3 DEF AnswerTrue
<1>. QED
  BY <1>1, <1>3, <1>4, <1>5, <1>6, <1>7

(* The writer's step: it reports the answer it got.                         *)
LEMMA WriterAnswers ==
    ASSUME TypeInv, RecordsKeepSubjects, AnswersTrue, NEW u \in Writers, WriterStep(u), NEW w \in Writers
    PROVE  AnswerTrue(w)' /\ ResultTrue(w)'
<1>1. AnswerTrue(w) /\ ResultTrue(w) /\ [Next]_vars
  BY DEF AnswersTrue, Next
<1>2. CASE w # u
  BY <1>1, <1>2, WriterFrame, AnswerStays, ResultStays
<1>3. CASE w = u /\ Call(u)
  <2>1. pc'[u] = "capture" /\ result'[u] = NoResult
    BY <1>3 DEF Call, TypeInv, TypeOK
  <2>. QED
    BY <1>3, <2>1 DEF AnswerTrue, ResultTrue, NoResult
<1>4. CASE w = u /\ Send(u)
  <2>1. reply'[u] = NoReply /\ result' = result /\ calls' = calls
    BY <1>4 DEF Send, TypeInv, TypeOK
  <2>2. ResultTrue(w)'
    BY <1>1, <2>1, ResultStays
  <2>. QED
    BY <1>4, <2>1, <2>2 DEF AnswerTrue, NoReply
<1>5. CASE w = u /\ ReceiveOK(u)
  <2>1. /\ pc[w] = "await" /\ reply[w].kind \in {"stored", "duplicate"} /\ pc'[w] = "done"
        /\ result'[w] = [status |-> reply[w].kind, seqs |-> Sequences(w, reply[w].seq)]
        /\ calls' = calls /\ log' = log
    BY <1>5 DEF ReceiveOK, TypeInv, TypeOK, stream
  <2>2. PICK c \in Nat : PartsAt(w, reply[w].seq, c) /\ (reply[w].kind = "stored" => c = calls[w])
    <3>1. calls[w] \in Nat
      BY DEF TypeInv, TypeOK
    <3>. QED
      BY <1>1, <2>1, <3>1 DEF AnswerTrue
  <2>3. ASSUME NEW i \in Parts(w)
        PROVE  LET q == result'[w].seqs[i]
               IN  /\ q \in 1 .. Len(log)
                   /\ log[q].op = w /\ log[q].part = i /\ log[q].subject = Op[w].subjects[i]
                   /\ result'[w].status = "stored" => log[q].call = calls[w]
    <3> DEFINE q == reply[w].seq - (Len(Op[w].subjects) - i)
    <3>1. result'[w].seqs[i] = q
      BY <2>1 DEF Sequences
    <3>2. q \in 1 .. Len(log) /\ log[q].op = w /\ log[q].part = i /\ log[q].call = c
      BY <2>2 DEF PartsAt
    <3>. HIDE DEF q
    <3>3. log[q].subject = Op[w].subjects[i]
      BY <3>2 DEF RecordsKeepSubjects
    <3>. QED
      BY <2>1, <2>2, <3>1, <3>2, <3>3
  <2>. QED
    BY <2>1, <2>3 DEF AnswerTrue, ResultTrue
<1>6. CASE w = u /\ ~Call(u) /\ ~Send(u) /\ ~ReceiveOK(u)
  <2>1. /\ pc'[u] # "await" /\ calls' = calls
        /\ result'[u] = result[u] \/ result'[u].status \notin {"stored", "duplicate"}
    BY <1>6, WriterMoves, WriterFrame
  <2>2. CASE result'[u] = result[u]
    BY <1>1, <1>6, <2>1, <2>2, ResultStays DEF AnswerTrue
  <2>3. CASE result'[u].status \notin {"stored", "duplicate"}
    BY <1>6, <2>1, <2>3 DEF AnswerTrue, ResultTrue
  <2>. QED
    BY <2>1, <2>2, <2>3
<1>. QED
  BY <1>2, <1>3, <1>4, <1>5, <1>6

LEMMA AnswersStep == ReportInv /\ [Next]_vars => ReportInv'
<1>. SUFFICES ASSUME ReportInv, [Next]_vars PROVE ReportInv'
  OBVIOUS
<1>1. TypeInv' /\ RecordsKeepSubjects'
  BY TypeStep, RecordsStep DEF ReportInv
<1>2. CASE UNCHANGED vars
  <2>1. ASSUME NEW w \in Writers PROVE AnswerTrue(w)' /\ ResultTrue(w)'
    BY <1>2, AnswerStays, ResultStays DEF vars, ReportInv, AnswersTrue
  <2>. QED
    BY <1>1, <2>1 DEF ReportInv, AnswersTrue
<1>3. CASE Next
  <2>1. \A w \in Writers : AnswerTrue(w)' /\ ResultTrue(w)'
    BY <1>3, ServerAnswers, WriterAnswers DEF ReportInv, Next
  <2>. QED
    BY <1>1, <2>1 DEF ReportInv, AnswersTrue
<1>. QED
  BY <1>2, <1>3

(* Whatever answers, duplicates and late requests a call meets, the          *)
(* sequences it reports are those of its operation's own records, in the    *)
(* order of its parts, and "stored" is said only of records that this very  *)
(* call stored.                                                             *)
THEOREM ReportsAreTrue == Spec => []ReportedSequencesTrue
<1>1. ReportInv => ReportedSequencesTrue
  BY DEF ReportInv, AnswersTrue, ResultTrue, ReportedSequencesTrue
<1>. QED
  BY <1>1, AnswersInit, AnswersStep, PTL DEF Spec

----------------------------------------------------------------------------
(* The records among the first n that g covers and that are not from w's    *)
(* current call.                                                            *)
Foreign(w, g, n) ==
    {q \in 1 .. n : log[q].subject \in g.filter /\ ~(log[q].op = w /\ log[q].call = calls[w])}
ForeignCount(w, g, n) == Cardinality(Foreign(w, g, n))

(* The attempts of w's current call that met a conflict, the one that the   *)
(* writer has not read yet included.                                        *)
Owed(w) ==
    IF pc[w] = "backoff" \/ result[w].status = "conflict" \/ (pc[w] = "await" /\ reply[w].kind = "conflict")
    THEN attempt[w]
    ELSE attempt[w] - 1

(* Every conflict is paid for by a foreign record, and when the writer read *)
(* its tail those of the earlier attempts had been paid for already.        *)
Paid(w, g) ==
    Op[w].mutation /\ calls[w] > 0 =>
        /\ Owed(w) <= ForeignCount(w, g, Len(log))
        /\ expected[w][g] # Unread => attempt[w] - 1 <= ForeignCount(w, g, expected[w][g])

AllPaid == \A w \in Writers : \A g \in Op[w].guards : Paid(w, g)

(* The request that is waited for carries the tails of the current attempt. *)
RequestsCurrent == \A r \in net : Awaits(r.op, r) => r.expected = expected[r.op]

PaidInv == AtomicInv /\ CallsAccounted /\ RequestsCurrent /\ AllPaid

LEMMA ForeignFinite ==
    ASSUME NEW w, NEW g, NEW n \in Nat
    PROVE  IsFiniteSet(Foreign(w, g, n)) /\ ForeignCount(w, g, n) \in Nat
<1>1. IsFiniteSet(1 .. n)
  BY FS_Interval
<1>2. IsFiniteSet(Foreign(w, g, n))
  BY <1>1, FS_Subset DEF Foreign
<1>. QED
  BY <1>2, FS_CardinalityType DEF ForeignCount

(* Foreign records stay foreign while the call lasts.                       *)
LEMMA ForeignGrows ==
    ASSUME TypeInv, [Next]_vars, NEW w \in Writers, NEW g, calls'[w] = calls[w],
           NEW n \in 0 .. Len(log), NEW m \in Nat, n <= m
    PROVE  /\ ForeignCount(w, g, n) \in Nat /\ ForeignCount(w, g, m)' \in Nat
           /\ ForeignCount(w, g, n) <= ForeignCount(w, g, m)'
<1>1. Foreign(w, g, n) \subseteq Foreign(w, g, m)'
  <2>. SUFFICES ASSUME NEW q \in Foreign(w, g, n) PROVE q \in Foreign(w, g, m)'
    OBVIOUS
  <2>1. q \in 1 .. n /\ log[q].subject \in g.filter /\ ~(log[q].op = w /\ log[q].call = calls[w])
    BY DEF Foreign
  <2>2. q \in 1 .. Len(log) /\ q \in 1 .. m
    BY <2>1, LogStep
  <2>3. log'[q] = log[q]
    BY <2>2, LogStep
  <2>. QED
    BY <2>1, <2>2, <2>3 DEF Foreign
<1>2. IsFiniteSet(Foreign(w, g, m)')
  <2>0. 1 \in Int /\ m \in Int
    OBVIOUS
  <2>1. IsFiniteSet(1 .. m)
    BY <2>0, FS_Interval, Zenon
  <2>2. Foreign(w, g, m)' \subseteq 1 .. m
    BY DEF Foreign
  <2>. QED
    BY <2>1, <2>2, FS_Subset
<1>3. ForeignCount(w, g, m)' \in Nat
  BY <1>2, FS_CardinalityType DEF ForeignCount
<1>4. ForeignCount(w, g, n) \in Nat
  BY ForeignFinite, LogStep
<1>. QED
  BY <1>1, <1>2, <1>3, <1>4, FS_Subset DEF ForeignCount

(* A guarded tail that moved since it was read gained a record.             *)
LEMMA MovedTail ==
    ASSUME AtomicInv, NEW w \in Writers, NEW g \in Op[w].guards,
           NEW e \in 0 .. Len(log), CapturedIs(g, e), ~TailIs(g, e)
    PROVE  \E q \in 1 .. Len(log) : q > e /\ log[q].subject \in g.filter
<1>0. Len(log) \in Nat /\ log \in Seq(StoredRecords)
  BY DEF AtomicInv, TypeInv, TypeOK
<1>1. CASE g.kind = "stream"
  <2>1. Len(log) \in 1 .. Len(log) /\ Len(log) > e
    BY <1>0, <1>1 DEF TailIs
  <2>2. log[Len(log)].subject \in Subjects
    <3>1. log[Len(log)] \in StoredRecords
      BY <1>0, <2>1
    <3>. QED
      BY <3>1 DEF StoredRecords
  <2>. QED
    BY <1>1, <2>1, <2>2, GuardKinds
<1>2. CASE g.kind # "stream" /\ \E q \in 1 .. Len(log) : q > e /\ Retained(q) /\ log[q].subject \in g.filter
  BY <1>2
<1>3. CASE g.kind # "stream" /\ e # 0 /\ ~(Retained(e) /\ log[e].subject \in g.filter)
  <2>1. e \in deleted /\ log[e].subject \in g.filter
    BY <1>0, <1>3 DEF CapturedIs, Retained
  <2>. QED
    BY <2>1 DEF AtomicInv, TailsRetained, Superseded
<1>. QED
  BY <1>1, <1>2, <1>3 DEF TailIs

(* So a conflict of a call that has stored nothing has a new foreign record *)
(* behind the tail it had read.                                             *)
LEMMA ConflictPaid ==
    ASSUME AtomicInv, NEW w \in Writers, NEW g \in Op[w].guards,
           NEW e \in 0 .. Len(log), CapturedIs(g, e), ~TailIs(g, e), NothingStored(w)
    PROVE  ForeignCount(w, g, e) + 1 <= ForeignCount(w, g, Len(log))
<1>0. Len(log) \in Nat /\ log \in Seq(StoredRecords) /\ e \in Nat
  BY DEF AtomicInv, TypeInv, TypeOK
<1>1. PICK q \in 1 .. Len(log) : q > e /\ log[q].subject \in g.filter
  BY MovedTail
<1>2. Foreign(w, g, e) \cup {q} \subseteq Foreign(w, g, Len(log))
  <2>1. q \in Foreign(w, g, Len(log))
    BY <1>1 DEF Foreign, NothingStored
  <2>2. 1 .. e \subseteq 1 .. Len(log)
    BY <1>0
  <2>. QED
    BY <2>1, <2>2 DEF Foreign
<1>3. q \notin Foreign(w, g, e)
  BY <1>0, <1>1 DEF Foreign
<1>4. Cardinality(Foreign(w, g, e) \cup {q}) = ForeignCount(w, g, e) + 1
  BY <1>0, <1>3, ForeignFinite, FS_AddElement DEF ForeignCount
<1>5. Cardinality(Foreign(w, g, e) \cup {q}) <= ForeignCount(w, g, Len(log))
  BY <1>0, <1>2, ForeignFinite, FS_Subset DEF ForeignCount
<1>. QED
  BY <1>4, <1>5

(* A tail that is read covers every foreign record so far.                  *)
LEMMA CapturePaid ==
    ASSUME AtomicInv, NEW w \in Writers, NEW g \in Op[w].guards,
           NEW e \in 0 .. Len(log), TailIs(g, e)
    PROVE  ForeignCount(w, g, Len(log)) <= ForeignCount(w, g, e)
<1>0. Len(log) \in Nat /\ e \in Nat
  BY DEF AtomicInv, TypeInv, TypeOK
<1>1. Foreign(w, g, Len(log)) \subseteq Foreign(w, g, e)
  <2>. SUFFICES ASSUME NEW q \in Foreign(w, g, Len(log)) PROVE q \in Foreign(w, g, e)
    OBVIOUS
  <2>1. q \in 1 .. Len(log) /\ log[q].subject \in g.filter
    BY DEF Foreign
  <2>2. ~(q > e)
    BY <2>1, NothingAfterTail
  <2>3. q \in 1 .. e
    BY <1>0, <2>1, <2>2
  <2>. QED
    BY <2>3 DEF Foreign
<1>. QED
  BY <1>0, <1>1, ForeignFinite, FS_Subset DEF ForeignCount

LEMMA PaidInit == Init => PaidInv
<1>. SUFFICES ASSUME Init PROVE PaidInv
  OBVIOUS
<1>1. net = {} /\ \A w \in Writers : calls[w] = 0
  BY DEF Init
<1>2. RequestsCurrent /\ AllPaid
  BY <1>1 DEF RequestsCurrent, AllPaid, Paid
<1>. QED
  BY <1>2, AtomicInvInit, CallsInit DEF PaidInv

LEMMA OwnTails ==
    ASSUME TypeInv, NEW u \in Writers, WriterStep(u), NEW w \in Writers, w # u
    PROVE  expected'[w] = expected[w]
BY DEF WriterStep, Call, Capture, Decide, Abort, RejectUnguarded, Send, StageConflict, ReceiveOK,
       ReceiveConflict, ReceiveError, GiveUp, Retry, TypeInv, TypeOK

(* Requests keep what they carry; only Send puts one on its way, and its    *)
(* writer's call had sent none before.                                      *)
LEMMA RequestsStep ==
    ASSUME TypeInv, CallsAccounted, RequestsCurrent, [Next]_vars
    PROVE  RequestsCurrent'
<1>. SUFFICES ASSUME NEW r \in net', Awaits(r.op, r)' PROVE r.expected = expected'[r.op]
  BY DEF RequestsCurrent
<1>0. \A s \in net : s.op \in Writers
  BY DEF TypeInv, TypeOK, Requests
<1>1. CASE UNCHANGED vars
  BY <1>1 DEF vars, RequestsCurrent, Awaits
<1>2. CASE ServerStep
  BY <1>2 DEF ServerStep, ServeDuplicate, ServeConflict, ServeStore, Lose, SecureDelete, ExpireID, Answer,
              RequestsCurrent, Awaits
<1>3. ASSUME NEW u \in Writers, Send(u) PROVE r.expected = expected'[r.op]
  <2>1. CASE r \notin net
    BY <1>3, <2>1 DEF Send
  <2>2. CASE r \in net /\ r.op # u
    BY <1>0, <1>3, <2>2 DEF Send, RequestsCurrent, Awaits, TypeInv, TypeOK
  <2>3. CASE r \in net /\ r.op = u
    <3>1. NothingSent(u) /\ calls' = calls
      BY <1>3 DEF Send, CallsAccounted, CallAccounted, Clean
    <3>. QED
      BY <2>3, <3>1 DEF NothingSent, Awaits
  <2>. QED
    BY <2>1, <2>2, <2>3
<1>4. ASSUME NEW u \in Writers, WriterStep(u), ~Send(u) PROVE r.expected = expected'[r.op]
  <2>1. r \in net /\ r.op \in Writers
    BY <1>0, <1>4, WriterFrame
  <2>2. CASE r.op = u
    <3>1. pc'[u] # "await"
      <4>1. CASE Call(u)
        BY <4>1 DEF Call, TypeInv, TypeOK
      <4>2. CASE ~Call(u)
        BY <1>4, <4>2, WriterMoves
      <4>. QED
        BY <4>1, <4>2
    <3>. QED
      BY <2>2, <3>1 DEF Awaits
  <2>3. CASE r.op # u
    <3>1. expected'[r.op] = expected[r.op]
      BY <1>4, <2>1, <2>3, OwnTails
    <3>2. Awaits(r.op, r)
      BY <1>4, <2>1, <2>3, WriterFrame DEF Awaits
    <3>. QED
      BY <2>1, <3>1, <3>2 DEF RequestsCurrent
  <2>. QED
    BY <2>2, <2>3
<1>. QED
  BY <1>1, <1>2, <1>3, <1>4 DEF Next

(* A step that leaves the writer's call, attempt and captured tails alone   *)
(* keeps its conflicts paid for when it brings none, or a paid one.         *)
LEMMA PaidStays ==
    ASSUME AtomicInv, [Next]_vars, NEW w \in Writers, NEW g \in Op[w].guards, Paid(w, g),
           calls'[w] = calls[w], attempt'[w] = attempt[w], expected'[w] = expected[w],
           Owed(w)' <= Owed(w) \/ attempt[w] <= ForeignCount(w, g, Len(log))
    PROVE  Paid(w, g)'
<1>. SUFFICES ASSUME Op[w].mutation, calls[w] > 0
              PROVE  /\ Owed(w)' <= ForeignCount(w, g, Len(log))'
                     /\ expected[w][g] # Unread =>
                            attempt[w] - 1 <= ForeignCount(w, g, expected[w][g])'
  BY DEF Paid
<1>1. TypeInv /\ Len(log) \in 0 .. Len(log) /\ Len(log) \in Nat /\ Len(log') \in Nat /\ Len(log) <= Len(log')
  BY LogStep DEF AtomicInv
<1>2. /\ attempt[w] \in Int /\ Owed(w) \in Int /\ attempt'[w] \in Int /\ Owed(w)' \in Int
      /\ Owed(w)' <= attempt[w]
  BY <1>1 DEF TypeInv, TypeOK, Owed
<1>3. Owed(w)' <= ForeignCount(w, g, Len(log))'
  <2>1. /\ ForeignCount(w, g, Len(log)) \in Nat /\ ForeignCount(w, g, Len(log))' \in Nat
        /\ ForeignCount(w, g, Len(log)) <= ForeignCount(w, g, Len(log))'
    <3>1. PICK n \in 0 .. Len(log), m \in Nat : n = Len(log) /\ m = Len(log')
      BY <1>1
    <3>2. /\ ForeignCount(w, g, n) \in Nat /\ ForeignCount(w, g, m)' \in Nat
          /\ ForeignCount(w, g, n) <= ForeignCount(w, g, m)'
      BY <1>1, <3>1, ForeignGrows
    <3>. QED
      BY <3>1, <3>2
  <2>. QED
    BY <1>1, <1>2, <2>1 DEF Paid
<1>4. ASSUME expected[w][g] # Unread
      PROVE  attempt[w] - 1 <= ForeignCount(w, g, expected[w][g])'
  <2>1. PICK e \in 0 .. Len(log) : e = expected[w][g]
    BY <1>1, <1>4, GuardKinds DEF AtomicInv, TailsCaptured, CapturedIs, TypeInv, TypeOK, Tails
  <2>2. /\ ForeignCount(w, g, e) \in Nat /\ ForeignCount(w, g, e)' \in Nat
        /\ ForeignCount(w, g, e) <= ForeignCount(w, g, e)'
    BY <1>1, <2>1, ForeignGrows
  <2>. QED
    BY <1>1, <1>2, <1>4, <2>1, <2>2 DEF Paid
<1>. QED
  BY <1>3, <1>4

(* A conflict of a mutation that has stored nothing is paid for.            *)
LEMMA ConflictIsPaid ==
    ASSUME AtomicInv, NEW w \in Writers, NEW g \in Op[w].guards, Op[w].mutation, calls[w] > 0,
           Paid(w, g), NothingStored(w), expected[w][g] # Unread, ~GuardsHold(w, expected[w])
    PROVE  attempt[w] <= ForeignCount(w, g, Len(log))
<1>0. /\ Len(log) \in Nat /\ log \in Seq(StoredRecords) /\ attempt[w] \in Nat
      /\ expected[w] \in Tails
  BY DEF AtomicInv, TypeInv, TypeOK
<1>1. PICK e \in 0 .. Len(log) : e = expected[w][g] /\ CapturedIs(g, e)
  BY <1>0, GuardKinds DEF AtomicInv, TailsCaptured, CapturedIs, Tails
<1>2. \A h \in Op[w].guards : h = g
  BY OpAssumption
<1>3. ~TailIs(g, e)
  BY <1>1, <1>2 DEF GuardsHold
<1>4. ForeignCount(w, g, e) + 1 <= ForeignCount(w, g, Len(log))
  BY <1>1, <1>3, ConflictPaid
<1>5. attempt[w] - 1 <= ForeignCount(w, g, e)
  BY <1>1 DEF Paid
<1>6. ForeignCount(w, g, e) \in Nat /\ ForeignCount(w, g, Len(log)) \in Nat
  BY <1>0, ForeignFinite
<1>. QED
  BY <1>0, <1>4, <1>5, <1>6

(* The steps of w that keep its attempt bring it no new conflict.           *)
LEMMA NoNewConflict ==
    ASSUME TypeInv, NEW w \in Writers, WriterStep(w),
           ~(Call(w) \/ Capture(w) \/ Retry(w) \/ StageConflict(w))
    PROVE  /\ calls'[w] = calls[w] /\ attempt'[w] = attempt[w] /\ expected'[w] = expected[w]
           /\ Owed(w)' <= Owed(w)
<1>. USE DEF TypeInv, TypeOK
<1>0. attempt[w] \in Int
  OBVIOUS
<1>1. CASE Decide(w)
  BY <1>0, <1>1 DEF Decide, Return, Owed
<1>2. CASE Abort(w) \/ RejectUnguarded(w) \/ ReceiveError(w) \/ GiveUp(w)
  BY <1>0, <1>2 DEF Abort, RejectUnguarded, ReceiveError, GiveUp, Return, Owed
<1>3. CASE Send(w)
  BY <1>0, <1>3 DEF Send, Owed, NoReply
<1>4. CASE ReceiveOK(w)
  BY <1>0, <1>4 DEF ReceiveOK, Owed
<1>5. CASE ReceiveConflict(w)
  BY <1>0, <1>5 DEF ReceiveConflict, Conflict, Return, Owed
<1>. QED
  BY <1>1, <1>2, <1>3, <1>4, <1>5 DEF WriterStep

LEMMA OwnPaid ==
    ASSUME PaidInv, NEW w \in Writers, WriterStep(w), NEW g \in Op[w].guards
    PROVE  Paid(w, g)'
<1>. SUFFICES ASSUME Op[w].mutation PROVE Paid(w, g)'
  BY DEF Paid
<1>0. /\ AtomicInv /\ TypeInv /\ CallsAccounted /\ CallAccounted(w) /\ Paid(w, g) /\ [Next]_vars
      /\ calls[w] \in Int /\ attempt[w] \in Nat /\ Len(log) \in Nat
      /\ ForeignCount(w, g, Len(log)) \in Nat
  <2>1. AtomicInv /\ TypeInv /\ CallsAccounted /\ CallAccounted(w) /\ Paid(w, g) /\ [Next]_vars
    BY DEF PaidInv, AtomicInv, CallsAccounted, AllPaid, Next
  <2>2. calls[w] \in Int /\ attempt[w] \in Nat /\ Len(log) \in Nat
    BY <2>1 DEF TypeInv, TypeOK
  <2>. QED
    BY <2>1, <2>2, ForeignFinite
<1>1. CASE Call(w)
  <2>1. attempt'[w] = 1 /\ pc'[w] = "capture" /\ result'[w] = NoResult /\ expected'[w] = NoTails
    BY <1>0, <1>1 DEF Call, TypeInv, TypeOK
  <2>2. Owed(w)' = 0 /\ expected'[w][g] = Unread
    BY <2>1, GuardKinds DEF Owed, NoResult, NoTails
  <2>3. Len(log') \in Nat
    BY <1>0, LogStep
  <2>4. ForeignCount(w, g, Len(log))' \in Nat
    <3>1. IsFiniteSet(1 .. Len(log'))
      BY <2>3, FS_Interval
    <3>2. Foreign(w, g, Len(log))' \subseteq 1 .. Len(log')
      BY DEF Foreign
    <3>. QED
      BY <3>1, <3>2, FS_Subset, FS_CardinalityType DEF ForeignCount
  <2>. QED
    BY <2>2, <2>4 DEF Paid
<1>2. CASE Retry(w)
  <2>1. /\ pc[w] = "backoff" /\ pc'[w] = "capture" /\ attempt'[w] = attempt[w] + 1
        /\ expected'[w] = NoTails /\ result' = result /\ calls' = calls /\ log' = log
    BY <1>0, <1>2 DEF Retry, TypeInv, TypeOK, stream
  <2>2. result[w].status # "conflict"
    BY <1>0, <2>1 DEF CallAccounted
  <2>3. Owed(w)' = Owed(w) /\ expected'[w][g] = Unread
    BY <1>0, <2>1, <2>2, GuardKinds DEF Owed, NoTails
  <2>4. ForeignCount(w, g, Len(log))' = ForeignCount(w, g, Len(log))
    BY <2>1 DEF ForeignCount, Foreign
  <2>. QED
    BY <1>0, <2>1, <2>3, <2>4 DEF Paid
<1>3. CASE Capture(w)
  <2>1. PICK h \in Op[w].guards, e \in 0 .. Len(log) :
           TailIs(h, e) /\ expected' = [expected EXCEPT ![w][h] = e]
    BY <1>3 DEF Capture
  <2>2. h = g
    BY OpAssumption
  <2>3. /\ log' = log /\ pc' = pc /\ calls' = calls /\ attempt' = attempt /\ reply' = reply
        /\ result' = result /\ pc[w] = "capture"
    BY <1>3 DEF Capture, stream
  <2>4. expected'[w][g] = e
    BY <1>0, <2>1, <2>2, GuardKinds DEF TypeInv, TypeOK, Tails
  <2>5. /\ ForeignCount(w, g, Len(log))' = ForeignCount(w, g, Len(log))
        /\ ForeignCount(w, g, e)' = ForeignCount(w, g, e)
        /\ Owed(w)' = Owed(w)
    BY <2>3 DEF ForeignCount, Foreign, Owed
  <2>6. ForeignCount(w, g, Len(log)) <= ForeignCount(w, g, e)
    BY <1>0, <2>1, <2>2, CapturePaid
  <2>7. ForeignCount(w, g, e) \in Nat /\ attempt[w] - 1 <= Owed(w) /\ Owed(w) \in Int
    BY <1>0, ForeignFinite DEF Owed
  <2>. QED
    BY <1>0, <2>3, <2>4, <2>5, <2>6, <2>7 DEF Paid
<1>4. CASE StageConflict(w)
  <2>1. /\ pc[w] = "publish" /\ ~GuardsHold(w, expected[w])
        /\ calls' = calls /\ attempt' = attempt /\ expected' = expected
    BY <1>4 DEF StageConflict
  <2>2. expected[w][g] # Unread /\ NothingStored(w) /\ calls[w] > 0
    BY <1>0, <2>1 DEF CallAccounted, Clean, AtomicInv, TailsCaptured, TypeInv, AttemptsLeft
  <2>3. attempt[w] <= ForeignCount(w, g, Len(log))
    BY <1>0, <2>1, <2>2, ConflictIsPaid
  <2>. QED
    BY <1>0, <2>1, <2>3, PaidStays
<1>5. CASE ~(Call(w) \/ Capture(w) \/ Retry(w) \/ StageConflict(w))
  BY <1>0, <1>5, NoNewConflict, PaidStays
<1>. QED
  BY <1>1, <1>2, <1>3, <1>4, <1>5

(* Another writer's step brings w no conflict, and the server brings it one *)
(* only when the tail that w had read has moved.                            *)
LEMMA OthersPaid ==
    ASSUME PaidInv, NEW w \in Writers, NEW g \in Op[w].guards,
           ServerStep \/ UNCHANGED vars \/ \E u \in Writers : u # w /\ WriterStep(u)
    PROVE  Paid(w, g)'
<1>. SUFFICES ASSUME Op[w].mutation, calls[w] > 0, ~(Owed(w)' <= Owed(w))
              PROVE  attempt[w] <= ForeignCount(w, g, Len(log))
  <2>1. /\ AtomicInv /\ TypeInv /\ Paid(w, g) /\ [Next]_vars
    BY DEF PaidInv, AtomicInv, AllPaid, Next
  <2>2. calls'[w] = calls[w] /\ attempt'[w] = attempt[w] /\ expected'[w] = expected[w]
    <3>1. CASE ServerStep \/ UNCHANGED vars
      BY <3>1 DEF ServerStep, vars, ServeDuplicate, ServeConflict, ServeStore, Lose, SecureDelete,
                  ExpireID, Answer
    <3>2. ASSUME NEW u \in Writers, u # w, WriterStep(u)
          PROVE  calls'[w] = calls[w] /\ attempt'[w] = attempt[w] /\ expected'[w] = expected[w]
      BY <2>1, <3>2, WriterFrame, OwnTails
    <3>. QED
      BY <3>1, <3>2
  <2>3. Op[w].mutation /\ calls[w] > 0 => Owed(w)' <= Owed(w) \/ attempt[w] <= ForeignCount(w, g, Len(log))
    OBVIOUS
  <2>4. CASE ~(Op[w].mutation /\ calls[w] > 0)
    BY <2>2, <2>4 DEF Paid
  <2>. QED
    BY <2>1, <2>2, <2>3, <2>4, PaidStays
<1>0. TypeInv /\ CallsAccounted /\ AtomicInv /\ Paid(w, g) /\ RequestsCurrent
  BY DEF PaidInv, AtomicInv, AllPaid
<1>1. PICK r \in net : ServeConflict(r) /\ reply'[w] # reply[w]
  <2>0. attempt[w] \in Int
    BY <1>0 DEF TypeInv, TypeOK
  <2>1. ~(pc'[w] = pc[w] /\ attempt'[w] = attempt[w] /\ result'[w] = result[w] /\ reply'[w] = reply[w])
    BY <2>0 DEF Owed
  <2>2. ASSUME NEW u \in Writers, u # w, WriterStep(u) PROVE FALSE
    BY <1>0, <2>1, <2>2, WriterFrame
  <2>3. ~ UNCHANGED vars
    BY <2>1 DEF vars
  <2>4. ServerStep /\ pc' = pc /\ attempt' = attempt /\ result' = result /\ reply'[w] # reply[w]
    <3>1. ServerStep
      BY <2>2, <2>3
    <3>2. pc' = pc /\ attempt' = attempt /\ result' = result
      BY <3>1 DEF ServerStep, ServeDuplicate, ServeConflict, ServeStore, Lose, SecureDelete, ExpireID, Answer
    <3>. QED
      BY <2>1, <3>1, <3>2
  <2>5. PICK r \in net : ServeDuplicate(r) \/ ServeConflict(r) \/ ServeStore(r)
    BY <2>4 DEF ServerStep, Lose, SecureDelete, ExpireID
  <2>6. reply'[w].kind = "conflict"
    BY <2>0, <2>4 DEF Owed
  <2>7. ~ServeDuplicate(r) /\ ~ServeStore(r)
    <3>1. \A k, n : Answer(r, k, n) => k = "conflict"
      BY <1>0, <2>4, <2>6 DEF Answer, TypeInv, TypeOK
    <3>. QED
      BY <3>1 DEF ServeDuplicate, ServeStore
  <2>. QED
    BY <2>4, <2>5, <2>7
<1>2. Answer(r, "conflict", 0) /\ ~GuardsHold(r.op, r.expected)
  BY <1>1 DEF ServeConflict
<1>3. FirstAnswer(w, r)
  <2>1. PICK k \in {"stored", "conflict", "duplicate", "duplicate batch"}, n \in Nat : Answer(r, k, n)
    BY <1>2
  <2>. QED
    BY <1>0, <1>1, <2>1, AnswerReaches
<1>4. w = r.op /\ NothingStored(w) /\ Awaits(r.op, r)
  <2>1. Awaits(r.op, r)
    BY <1>1, <1>2, <1>3 DEF Answer, FirstAnswer
  <2>. QED
    BY <1>3, <2>1 DEF FirstAnswer
<1>5. r.expected = expected[w]
  BY <1>0, <1>4 DEF RequestsCurrent
<1>6. expected[w][g] # Unread
  <2>1. Decided(r.op, r.expected, r.basis)
    BY <1>0 DEF AtomicInv, DecisionsHold
  <2>. QED
    BY <1>4, <1>5, <2>1 DEF Decided, Unread
<1>. QED
  BY <1>0, <1>2, <1>4, <1>5, <1>6, ConflictIsPaid

LEMMA PaidStep == PaidInv /\ [Next]_vars => PaidInv'
<1>. SUFFICES ASSUME PaidInv, [Next]_vars PROVE PaidInv'
  OBVIOUS
<1>1. AtomicInv' /\ CallsAccounted' /\ RequestsCurrent'
  BY AtomicInvStep, CallsStep, RequestsStep DEF PaidInv, AtomicInv
<1>2. ASSUME NEW w \in Writers, NEW g \in Op[w].guards PROVE Paid(w, g)'
  <2>1. CASE WriterStep(w)
    BY <2>1, OwnPaid
  <2>2. CASE ~WriterStep(w)
    <3>1. ServerStep \/ UNCHANGED vars \/ \E u \in Writers : u # w /\ WriterStep(u)
      BY <2>2 DEF Next
    <3>. QED
      BY <3>1, OthersPaid
  <2>. QED
    BY <2>1, <2>2
<1>. QED
  BY <1>1, <1>2 DEF PaidInv, AllPaid

(* A mutation that meets a conflict was overtaken: for each of its attempts *)
(* that failed, another request committed a record that its boundary        *)
(* covers, however the server's answers were delayed or lost.               *)
THEOREM ConflictsPaidFor == Spec => []ConflictsArePaidFor
<1>1. PaidInv => ConflictsArePaidFor
  <2>. SUFFICES ASSUME PaidInv, NEW w \in Writers, NEW g \in Op[w].guards, Op[w].mutation, calls[w] > 0
                PROVE  Conflicts(w) <= Cardinality({q \in 1 .. Len(log) :
                           log[q].subject \in g.filter /\ ~(log[q].op = w /\ log[q].call = calls[w])})
    BY DEF ConflictsArePaidFor
  <2>1. attempt[w] \in Int /\ Len(log) \in Nat
    BY DEF PaidInv, AtomicInv, TypeInv, TypeOK
  <2>2. Conflicts(w) <= Owed(w) /\ Conflicts(w) \in Int /\ Owed(w) \in Int
    BY <2>1 DEF Conflicts, Owed
  <2>3. Owed(w) <= ForeignCount(w, g, Len(log)) /\ ForeignCount(w, g, Len(log)) \in Nat
    BY <2>1, ForeignFinite DEF PaidInv, AllPaid, Paid
  <2>4. Conflicts(w) <= ForeignCount(w, g, Len(log))
    BY <2>2, <2>3
  <2>. QED
    BY <2>4 DEF ForeignCount, Foreign
<1>. QED
  BY <1>1, PaidInit, PaidStep, PTL DEF Spec
=============================================================================
