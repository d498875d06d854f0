-------------------------- MODULE Projector_proofs --------------------------
(***************************************************************************)
(* Proofs about Projector, for every stream, any number of callers, every   *)
(* batch size and every combination of faults.                              *)
(*                                                                         *)
(* The argument follows an event through the projector: what is applied, the*)
(* pending startup batch, the pending live batch and what was handed to the *)
(* callback are adjacent segments of the stream's history, each of which    *)
(* holds every retained event of its range, in order.                       *)
(***************************************************************************)
EXTENDS Projector, SequenceTheorems, TLAPS

(* s lists, in order, events of O from the range lo+1 .. hi, and all of     *)
(* those of that range that are not in D.                                   *)
Segment(O, D, lo, s, hi) ==
    /\ lo <= hi
    /\ s \in Seq(O)
    /\ \A i, j \in 1 .. Len(s) : i < j => s[i] < s[j]
    /\ \A i \in 1 .. Len(s) : lo < s[i] /\ s[i] <= hi
    /\ \A q \in O \ D : lo < q /\ q <= hi => \E i \in 1 .. Len(s) : s[i] = q

NoneIn(O, D, lo, hi) == \A q \in O \ D : ~(lo < q /\ q <= hi)
Covers(O, D, s, n) == \A q \in O \ D : q <= n => \E i \in 1 .. Len(s) : s[i] = q

----------------------------------------------------------------------------
(* Facts about segments.                                                    *)

LEMMA SegmentEmpty ==
    ASSUME NEW O, NEW D, NEW a, NEW b, a <= b, NoneIn(O, D, a, b)
    PROVE  Segment(O, D, a, << >>, b)
BY DEF Segment, NoneIn

LEMMA SegmentConcat ==
    ASSUME NEW O \in SUBSET Nat, NEW D, NEW a \in Nat, NEW b \in Nat, NEW c \in Nat, NEW s, NEW t,
           Segment(O, D, a, s, b), Segment(O, D, b, t, c)
    PROVE  Segment(O, D, a, s \o t, c)
<1>1. /\ s \in Seq(O) /\ t \in Seq(O) /\ Len(s) \in Nat /\ Len(t) \in Nat
      /\ s \o t \in Seq(O) /\ Len(s \o t) = Len(s) + Len(t)
      /\ \A i \in 1 .. Len(s) + Len(t) : (s \o t)[i] = IF i <= Len(s) THEN s[i] ELSE t[i - Len(s)]
      /\ \A i \in 1 .. Len(s) : s[i] \in Nat
      /\ \A i \in 1 .. Len(t) : t[i] \in Nat
  <2>1. s \in Seq(O) /\ t \in Seq(O)
    BY DEF Segment
  <2>2. /\ s \o t \in Seq(O) /\ Len(s \o t) = Len(s) + Len(t)
        /\ \A i \in 1 .. Len(s) + Len(t) : (s \o t)[i] = IF i <= Len(s) THEN s[i] ELSE t[i - Len(s)]
    BY <2>1, ConcatProperties
  <2>3. Len(s) \in Nat /\ Len(t) \in Nat
    BY <2>1, LenProperties
  <2>4. (\A i \in 1 .. Len(s) : s[i] \in O) /\ (\A i \in 1 .. Len(t) : t[i] \in O)
    BY <2>1, ElementOfSeq
  <2>. QED
    BY <2>1, <2>2, <2>3, <2>4
<1>2. \A i \in 1 .. Len(s \o t) :
        \/ i \in 1 .. Len(s) /\ (s \o t)[i] = s[i]
        \/ i > Len(s) /\ i - Len(s) \in 1 .. Len(t) /\ (s \o t)[i] = t[i - Len(s)]
  BY <1>1
<1>3. ASSUME NEW i \in 1 .. Len(s \o t), NEW j \in 1 .. Len(s \o t), i < j
      PROVE  (s \o t)[i] < (s \o t)[j]
  <2>1. CASE i > Len(s)
    <3>1. j > Len(s) /\ i - Len(s) < j - Len(s)
      BY <1>1, <1>3, <2>1
    <3>2. (s \o t)[i] = t[i - Len(s)] /\ (s \o t)[j] = t[j - Len(s)] /\ {i - Len(s), j - Len(s)} \subseteq 1 .. Len(t)
      BY <1>1, <1>2, <2>1, <3>1
    <3>. QED
      BY <3>1, <3>2 DEF Segment
  <2>2. CASE i \in 1 .. Len(s) /\ j \in 1 .. Len(s)
    BY <1>1, <1>2, <1>3, <2>2 DEF Segment
  <2>3. CASE i \in 1 .. Len(s) /\ j > Len(s)
    <3>1. (s \o t)[i] <= b /\ (s \o t)[i] \in Nat
      BY <1>1, <1>2, <2>3 DEF Segment
    <3>2. b < (s \o t)[j] /\ (s \o t)[j] \in Nat
      BY <1>1, <1>2, <2>3 DEF Segment
    <3>. QED
      BY <3>1, <3>2
  <2>4. \/ i > Len(s)
        \/ i \in 1 .. Len(s) /\ j \in 1 .. Len(s)
        \/ i \in 1 .. Len(s) /\ j > Len(s)
    BY <1>1, <1>3
  <2>. QED
    BY <2>1, <2>2, <2>3, <2>4
<1>4. ASSUME NEW i \in 1 .. Len(s \o t) PROVE a < (s \o t)[i] /\ (s \o t)[i] <= c
  BY <1>1, <1>2 DEF Segment
<1>5. ASSUME NEW q \in O \ D, a < q, q <= c PROVE \E i \in 1 .. Len(s \o t) : (s \o t)[i] = q
  <2>1. CASE q <= b
    <3>1. PICK i \in 1 .. Len(s) : s[i] = q
      BY <1>5, <2>1 DEF Segment
    <3>2. i \in 1 .. Len(s \o t) /\ (s \o t)[i] = q
      BY <1>1, <3>1
    <3>. QED
      BY <3>2
  <2>2. CASE b < q
    <3>1. PICK i \in 1 .. Len(t) : t[i] = q
      BY <1>5, <2>2 DEF Segment
    <3>2. i + Len(s) \in 1 .. Len(s \o t) /\ (s \o t)[i + Len(s)] = q
      BY <1>1, <3>1
    <3>. QED
      BY <3>2
  <2>. QED
    BY <1>5, <2>1, <2>2
<1>. QED
  BY <1>1, <1>3, <1>4, <1>5 DEF Segment

LEMMA SegmentAppend ==
    ASSUME NEW O \in SUBSET Nat, NEW D, NEW a \in Nat, NEW b \in Nat, NEW s, NEW x \in O,
           Segment(O, D, a, s, b), b < x, NoneIn(O, D, b, x - 1)
    PROVE  Segment(O, D, a, Append(s, x), x)
<1>1. Append(s, x) = s \o <<x>>
  BY DEF Segment
<1>2. Segment(O, D, b, <<x>>, x)
  <2>1. <<x>> \in Seq(O) /\ Len(<<x>>) = 1 /\ <<x>>[1] = x
    OBVIOUS
  <2>2. ASSUME NEW q \in O \ D, b < q, q <= x PROVE q = x
    BY <2>2 DEF NoneIn
  <2>. QED
    BY <2>1, <2>2 DEF Segment
<1>. QED
  BY <1>1, <1>2, SegmentConcat

LEMMA SegmentHead ==
    ASSUME NEW O \in SUBSET Nat, NEW D, NEW a \in Nat, NEW b \in Nat, NEW s,
           Segment(O, D, a, s, b), s # << >>
    PROVE  Head(s) \in O /\ a < Head(s) /\ Head(s) <= b /\ NoneIn(O, D, a, Head(s) - 1)
<1>1. s \in Seq(O) /\ Len(s) \in Nat \ {0} /\ Head(s) = s[1] /\ 1 \in 1 .. Len(s) /\ s[1] \in O
  BY EmptySeq, ElementOfSeq DEF Segment
<1>2. ASSUME NEW i \in 1 .. Len(s) PROVE s[1] <= s[i] /\ s[i] \in Nat
  <2>1. s[i] \in Nat /\ s[1] \in Nat
    BY <1>1, ElementOfSeq DEF Segment
  <2>2. CASE i = 1
    BY <2>1, <2>2
  <2>3. CASE i # 1
    <3>1. s[1] < s[i]
      BY <1>1, <2>3 DEF Segment
    <3>. QED
      BY <2>1, <3>1
  <2>. QED
    BY <2>2, <2>3
<1>3. ASSUME NEW q \in O \ D, a < q, q <= Head(s) - 1 PROVE FALSE
  <2>0. s[1] <= b /\ s[1] \in Nat /\ q \in Nat
    BY <1>1 DEF Segment
  <2>1. q <= b
    BY <1>1, <1>3, <2>0
  <2>2. PICK i \in 1 .. Len(s) : s[i] = q
    BY <1>3, <2>1 DEF Segment
  <2>. QED
    BY <1>1, <1>2, <1>3, <2>2
<1>. QED
  BY <1>1, <1>3 DEF Segment, NoneIn

LEMMA SegmentLast ==
    ASSUME NEW O \in SUBSET Nat, NEW D, NEW a \in Nat, NEW b \in Nat, NEW s,
           Segment(O, D, a, s, b), s # << >>
    PROVE  Last(s) \in O /\ a < Last(s) /\ Last(s) <= b
<1>1. Len(s) \in 1 .. Len(s)
  BY EmptySeq DEF Segment
<1>. QED
  BY <1>1, ElementOfSeq DEF Last, Segment

(* Segments stay segments when events are appended behind them or deleted.  *)
LEMMA SegmentStable ==
    ASSUME NEW O \in SUBSET Nat, NEW P \in SUBSET Nat, NEW D, NEW E, NEW a \in Nat, NEW b \in Nat, NEW s,
           Segment(O, D, a, s, b), O \subseteq P, D \subseteq E, \A q \in P \ O : q > b
    PROVE  Segment(P, E, a, s, b)
<1>1. s \in Seq(P)
  BY SeqMonotonic DEF Segment
<1>2. \A q \in P \ E : a < q /\ q <= b => q \in O \ D
  OBVIOUS
<1>. QED
  BY <1>1, <1>2 DEF Segment

LEMMA SegmentCovers ==
    ASSUME NEW O \in SUBSET (Nat \ {0}), NEW D, NEW b \in Nat, NEW n \in Int, NEW s,
           Segment(O, D, 0, s, b), n <= b \/ NoneIn(O, D, b, n)
    PROVE  Covers(O, D, s, n)
<1>. SUFFICES ASSUME NEW q \in O \ D, q <= n PROVE \E i \in 1 .. Len(s) : s[i] = q
  BY DEF Covers
<1>1. q \in Nat /\ 0 < q
  OBVIOUS
<1>2. q <= b
  BY <1>1 DEF NoneIn
<1>. QED
  BY <1>1, <1>2 DEF Segment

LEMMA CoversConcat ==
    ASSUME NEW O, NEW D, NEW n, NEW s \in Seq(O), NEW t \in Seq(O), Covers(O, D, s, n)
    PROVE  Covers(O, D, s \o t, n)
<1>. SUFFICES ASSUME NEW q \in O \ D, q <= n PROVE \E i \in 1 .. Len(s \o t) : (s \o t)[i] = q
  BY DEF Covers
<1>1. PICK i \in 1 .. Len(s) : s[i] = q
  BY DEF Covers
<1>2. Len(s) \in Nat /\ Len(t) \in Nat /\ Len(s \o t) = Len(s) + Len(t)
  BY ConcatProperties, LenProperties
<1>3. i \in 1 .. Len(s) + Len(t) /\ i <= Len(s)
  BY <1>2
<1>4. (s \o t)[i] = s[i]
  BY <1>3, ConcatProperties
<1>. QED
  BY <1>1, <1>2, <1>3, <1>4

LEMMA CoversStable ==
    ASSUME NEW O \in SUBSET Nat, NEW P \in SUBSET Nat, NEW D, NEW E, NEW n \in Int, NEW s,
           Covers(O, D, s, n), O \subseteq P, D \subseteq E, \A q \in P \ O : q > n
    PROVE  Covers(P, E, s, n)
<1>1. \A q \in P \ E : q <= n => q \in O \ D
  OBVIOUS
<1>. QED
  BY <1>1 DEF Covers

LEMMA NoneStable ==
    ASSUME NEW O \in SUBSET Nat, NEW P \in SUBSET Nat, NEW D, NEW E, NEW a \in Nat, NEW n \in Int,
           NoneIn(O, D, a, n), O \subseteq P, D \subseteq E, \A q \in P \ O : q > n
    PROVE  NoneIn(P, E, a, n)
<1>1. \A q \in P \ E : q <= n => q \in O \ D
  OBVIOUS
<1>. QED
  BY <1>1 DEF NoneIn

----------------------------------------------------------------------------
(* The inductive invariant.                                                 *)

Owned == {q \in 1 .. Len(log) : Own(q)}
Seg(lo, s, hi) == Segment(Owned, deleted, lo, s, hi)
None(lo, hi) == NoneIn(Owned, deleted, lo, hi)
Known(n) == Covers(Owned, deleted, applied, n)

(* The last sequence that is applied or waits in a batch.                   *)
Frontier == IF liveBatch = << >> THEN HandledSeq ELSE Last(liveBatch)

DataInv ==
    /\ Seg(0, applied, lastSeq)
    /\ Seg(lastSeq, startupBatch, HandledSeq)
    /\ Seg(HandledSeq, liveBatch, Frontier)
    /\ Seg(0, saved.state, saved.cutoff)
    /\ restoredSeq <= lastSeq

(* Only one batch is pending, on its side of the startup target.            *)
BatchInv ==
    /\ liveBatch # << >> =>
          startupBatch = << >> /\ LiveBatchSize > 0 /\ startupTarget < Head(liveBatch)
    /\ startupBatch # << >> => HandledSeq <= aim

(* Until Run consumes nothing has happened but the restoration.             *)
FreshInv ==
    run \in {"idle", "restore", "consume"} =>
        /\ startupBatch = << >> /\ liveBatch = << >> /\ handler.pc = "idle"
        /\ ~ended /\ ~completed /\ failed = NoFailure /\ lastSeq = restoredSeq
        /\ run # "consume" => lastSeq = 0 /\ startupTarget = 0

Gap(a, b) == a < b /\ \A q \in 1 .. Len(log) : a < q /\ q < b => ~Retained(q)
Linked ==
    /\ buffer # << >> => Gap(handed, Head(buffer))
    /\ \A i \in 1 .. Len(buffer) - 1 : Gap(buffer[i], buffer[i + 1])

(* No retained event lies between the frontier and what the handler holds,  *)
(* or, unless it failed, what the consumer handed over.                     *)
DeliveryInv ==
    /\ Linked
    /\ ~Consuming => buffer = << >>
    /\ Consuming => Frontier <= handed
    /\ Consuming /\ failed = NoFailure /\ handler.pc \in {"idle", "complete"} =>
          None(Frontier, handed)
    /\ handler.pc \in {"apply", "undecodable"} =>
          /\ handler.seq \in Owned /\ Frontier < handler.seq /\ None(Frontier, handler.seq - 1)
          /\ Consuming => handed = handler.seq

(* The target is lowered only in the step that ends startup.                *)
StartupInv ==
    /\ startupTarget <= aim
    /\ ~ended /\ (run = "consume" \/ Consuming \/ handler.pc # "idle") => startupTarget = aim
    /\ completed => Known(aim)
    /\ run = "relock" => None(current, aim)
    /\ run = "flush" /\ ~ended => None(HandledSeq, aim)

(* Everything before a failure is applied, and nothing behind it.           *)
FailureInv ==
    /\ failed # NoFailure => ended /\ Known(failed - 1)
    /\ handler.pc = "fail" => Known(handler.seq - 1)
    /\ handler.pc = "fail" /\ handler.seq > aim /\ failed = NoFailure => Frontier < handler.seq
    /\ FailedEventsStayOut

ClientInv ==
    \A c \in Clients :
        /\ client[c].pc = "woken" => client[c].seq <= lastSeq \/ failed # NoFailure
        /\ client[c].pc = "ok" => client[c].seq <= lastSeq \/ client[c].seq < failed

Inv == TypeOK /\ DataInv /\ BatchInv /\ FreshInv /\ DeliveryInv /\ StartupInv /\ FailureInv /\ ClientInv

----------------------------------------------------------------------------
N == Len(log)
ClientStates == [pc : {"idle", "entering", "waiting", "woken", "ok", "error"}, seq : 0 .. N]

(* The fields of TypeOK one by one.                                         *)
FieldTypes ==
    /\ log \in Seq({"own", "other"}) /\ N \in Nat /\ N <= MaxSeq /\ deleted \subseteq 1 .. N
    /\ buffer \in Seq(1 .. N) /\ handed \in 0 .. N
    /\ run \in {"idle", "restore", "consume", "complete", "loop", "reread", "relock", "flush", "returned"}
    /\ aim \in 0 .. N /\ current \in 0 .. N /\ lastSeq \in 0 .. N /\ restoredSeq \in 0 .. N
    /\ startupTarget \in 0 .. N /\ previous \in {NoHandled} \cup 0 .. N
    /\ handler \in [pc : {"idle", "apply", "undecodable", "fail", "complete"}, seq : 0 .. N]
    /\ applied \in Seq(1 .. N) /\ startupBatch \in Seq(1 .. N) /\ liveBatch \in Seq(1 .. N)
    /\ ended \in BOOLEAN /\ completed \in BOOLEAN
    /\ failed \in {NoFailure} \cup 0 .. N /\ client \in [Clients -> ClientStates]
    /\ saved \in [kind : Kinds, cutoff : 0 .. N, state : Seq(1 .. N)]
    /\ restarts \in 0 .. MaxRestarts

LEMMA Fields == TypeOK <=> FieldTypes
<1>1. log \in Seq({"own", "other"}) => N \in Nat
  BY LenProperties DEF N
<1>. QED
  BY <1>1 DEF TypeOK, FieldTypes, N, ClientStates

LEMMA ClientTypes ==
    ASSUME TypeOK
    PROVE  client \in [Clients -> ClientStates] /\ N \in Nat /\ lastSeq \in Int /\ failed \in Int
<1>1. client \in [Clients -> ClientStates]
  BY DEF TypeOK, ClientStates, N
<1>2. N \in Nat
  BY LenProperties DEF TypeOK, N
<1>3. lastSeq \in 0 .. N /\ failed \in {NoFailure} \cup 0 .. N
  BY DEF TypeOK, N
<1>4. lastSeq \in Int /\ failed \in Int
  BY <1>2, <1>3 DEF NoFailure
<1>. QED
  BY <1>1, <1>2, <1>4

LEMMA Basics ==
    ASSUME TypeOK, DataInv
    PROVE  /\ N \in Nat /\ Owned \in SUBSET (Nat \ {0}) /\ Owned \in SUBSET Nat /\ Owned \subseteq 1 .. N
           /\ \A q \in Owned : q \in 1 .. N
           /\ applied \in Seq(Owned) /\ startupBatch \in Seq(Owned) /\ liveBatch \in Seq(Owned)
           /\ lastSeq \in 0 .. N /\ HandledSeq \in 0 .. N /\ Frontier \in 0 .. N
           /\ lastSeq <= HandledSeq /\ HandledSeq <= Frontier
           /\ startupBatch # << >> => Last(startupBatch) = HandledSeq /\ HandledSeq \in Owned
           /\ liveBatch # << >> => Last(liveBatch) = Frontier /\ Frontier \in Owned
<1>1. N \in Nat /\ Owned \in SUBSET (Nat \ {0}) /\ Owned \in SUBSET Nat /\ Owned \subseteq 1 .. N
      /\ lastSeq \in 0 .. N
  <2>1. N \in Nat /\ lastSeq \in 0 .. N
    BY Fields DEF FieldTypes
  <2>2. Owned \subseteq 1 .. N
    BY DEF Owned, N
  <2>. QED
    BY <2>1, <2>2
<1>2. applied \in Seq(Owned) /\ startupBatch \in Seq(Owned) /\ liveBatch \in Seq(Owned)
      /\ lastSeq <= HandledSeq /\ HandledSeq <= Frontier
  BY DEF DataInv, Seg, Segment
<1>3. \A s \in Seq(Owned) : s # << >> => Last(s) \in Owned /\ Last(s) \in 0 .. N
  <2>. TAKE s \in Seq(Owned)
  <2>. HAVE s # << >>
  <2>1. Len(s) \in 1 .. Len(s)
    BY EmptySeq
  <2>2. Last(s) \in Owned
    BY <2>1, ElementOfSeq DEF Last
  <2>3. Last(s) \in 1 .. N
    BY <1>1, <2>2, Zenon
  <2>. QED
    BY <2>2, <2>3
<1>4. (startupBatch = << >> => HandledSeq = lastSeq) /\ (startupBatch # << >> => HandledSeq = Last(startupBatch))
  BY DEF HandledSeq
<1>5. (liveBatch = << >> => Frontier = HandledSeq) /\ (liveBatch # << >> => Frontier = Last(liveBatch))
  BY DEF Frontier
<1>6. HandledSeq \in 0 .. N /\ (startupBatch # << >> => Last(startupBatch) = HandledSeq /\ HandledSeq \in Owned)
  <2>1. CASE startupBatch = << >>
    BY <1>1, <1>4, <2>1
  <2>2. CASE startupBatch # << >>
    <3>1. Last(startupBatch) \in Owned /\ Last(startupBatch) \in 0 .. N
      BY <1>2, <1>3, <2>2
    <3>. QED
      BY <1>4, <2>2, <3>1, Zenon
  <2>. QED
    BY <2>1, <2>2
<1>7. Frontier \in 0 .. N /\ (liveBatch # << >> => Last(liveBatch) = Frontier /\ Frontier \in Owned)
  <2>1. CASE liveBatch = << >>
    BY <1>5, <1>6, <2>1
  <2>2. CASE liveBatch # << >>
    <3>1. Last(liveBatch) \in Owned /\ Last(liveBatch) \in 0 .. N
      BY <1>2, <1>3, <2>2
    <3>. QED
      BY <1>5, <2>2, <3>1, Zenon
  <2>. QED
    BY <2>1, <2>2
<1>. QED
  BY <1>1, <1>2, <1>6, <1>7

LEMMA OwnedSeq ==
    ASSUME TypeOK, NEW s \in Seq(Owned)
    PROVE  s \in Seq(1 .. Len(log))
BY SeqMonotonic DEF Owned

(* What is applied covers everything up to the last applied sequence, and   *)
(* up to the next retained event.                                           *)
LEMMA KnownUpTo ==
    ASSUME TypeOK, DataInv, NEW n \in Int, n <= lastSeq \/ None(lastSeq, n)
    PROVE  Known(n)
<1>1. /\ Owned \in SUBSET (Nat \ {0}) /\ lastSeq \in Nat
      /\ Segment(Owned, deleted, 0, applied, lastSeq) /\ (n <= lastSeq \/ NoneIn(Owned, deleted, lastSeq, n))
  BY Basics DEF DataInv, Seg, None
<1>. QED
  BY <1>1, SegmentCovers DEF Known

LEMMA InvInit == Init => Inv
<1>. SUFFICES ASSUME Init PROVE Inv
  OBVIOUS
<1>1. /\ log = << >> /\ Len(log) = 0 /\ Owned = {} /\ NoHandled = -1 /\ NoFailure = -1
      /\ \A S : << >> \in Seq(S)
  BY EmptySeq DEF Init, Owned, NoHandled, NoFailure
<1>2. TypeOK
  <2>1. log \in Seq({"own", "other"}) /\ N = 0 /\ MaxSeq \in Nat /\ MaxRestarts \in Nat
    BY <1>1, ProjectorAssumption DEF Init, N
  <2>2. saved \in [kind : Kinds, cutoff : 0 .. N, state : Seq(1 .. N)]
    <3>1. << >> \in Seq(1 .. N) /\ 0 \in 0 .. N /\ saved \in [kind : Kinds, cutoff : {0}, state : {<< >>}]
      BY <1>1, <2>1 DEF Init
    <3>. QED
      BY <3>1
  <2>3. client \in [Clients -> ClientStates]
    BY <2>1 DEF Init, ClientStates, Idle
  <2>4. handler \in [pc : {"idle", "apply", "undecodable", "fail", "complete"}, seq : 0 .. N]
    BY <2>1 DEF Init, Idle
  <2>5. FieldTypes
    <3>1. \A S : << >> \in Seq(S)
      BY <1>1
    <3>2. deleted \subseteq 1 .. N /\ buffer \in Seq(1 .. N)
          /\ applied \in Seq(1 .. N) /\ startupBatch \in Seq(1 .. N) /\ liveBatch \in Seq(1 .. N)
      BY <3>1 DEF Init
    <3>. QED
      <4>1. 0 \in 0 .. N /\ N \in Nat /\ N <= MaxSeq /\ 0 \in 0 .. MaxRestarts
        BY <2>1
      <4>2. previous \in {NoHandled} \cup 0 .. N /\ failed \in {NoFailure} \cup 0 .. N
        BY DEF Init
      <4>. QED
        BY <2>1, <2>2, <2>3, <2>4, <3>2, <4>1, <4>2 DEF Init, FieldTypes
  <2>. QED
    BY <2>5, Fields
<1>3. HandledSeq = 0 /\ Frontier = 0 /\ \A n \in Int : None(0, n) /\ Known(n)
  BY <1>1 DEF Init, HandledSeq, Frontier, None, NoneIn, Known, Covers
<1>4. Seg(0, << >>, 0)
  BY <1>3, SegmentEmpty DEF None, Seg
<1>5. DataInv
  BY <1>3, <1>4 DEF Init, DataInv
<1>6. BatchInv /\ FreshInv /\ StartupInv /\ ClientInv
  BY <1>1, <1>3 DEF Init, BatchInv, FreshInv, StartupInv, ClientInv, Idle, Consuming
<1>7. DeliveryInv
  BY <1>1, <1>3 DEF Init, DeliveryInv, Linked, Idle, Consuming
<1>8. FailureInv
  BY <1>1, <1>3 DEF Init, FailureInv, Idle, FailedEventsStayOut
<1>. QED
  BY <1>2, <1>5, <1>6, <1>7, <1>8 DEF Inv

(* Steps that change neither the stream nor what is applied, pending or     *)
(* saved.                                                                   *)
DataKept == UNCHANGED <<log, deleted, applied, lastSeq, startupBatch, liveBatch, restoredSeq, saved>>

LEMMA KeepsData ==
    ASSUME DataInv, DataKept
    PROVE  /\ DataInv' /\ Owned' = Owned /\ HandledSeq' = HandledSeq /\ Frontier' = Frontier
           /\ \A a, b : None(a, b)' = None(a, b)
           /\ \A n : Known(n)' = Known(n)
BY DEF DataKept, DataInv, Owned, Own, HandledSeq, Frontier, Seg, None, Known

LEMMA WokenFor ==
    ASSUME TypeOK, NEW l \in Int
    PROVE  /\ Woken(l, FALSE) \in [Clients -> ClientStates]
           /\ \A c \in Clients :
                 /\ Woken(l, FALSE)[c].seq = client[c].seq /\ client[c].seq \in 0 .. N
                 /\ \/ Woken(l, FALSE)[c].pc = client[c].pc
                    \/ Woken(l, FALSE)[c].pc = "woken" /\ client[c].seq <= l
BY Fields DEF FieldTypes, Woken, ClientStates

LEMMA WokenAll ==
    ASSUME TypeOK
    PROVE  /\ Woken(0, TRUE) \in [Clients -> ClientStates]
           /\ \A c \in Clients :
                 /\ Woken(0, TRUE)[c].seq = client[c].seq /\ client[c].seq \in 0 .. N
                 /\ Woken(0, TRUE)[c].pc = client[c].pc \/ Woken(0, TRUE)[c].pc = "woken"
BY Fields DEF FieldTypes, Woken, ClientStates

(* The state advances: whoever is released has its write applied.           *)
LEMMA AdvanceClients ==
    ASSUME TypeOK, ClientInv, NEW seq \in 0 .. N, Advance(seq), failed' = failed
    PROVE  /\ lastSeq' \in 0 .. N /\ lastSeq <= lastSeq' /\ seq <= lastSeq'
           /\ lastSeq <= seq => lastSeq' = seq
           /\ client' \in [Clients -> ClientStates]
           /\ ClientInv'
<1>1. /\ lastSeq' \in 0 .. N /\ lastSeq <= lastSeq' /\ seq <= lastSeq' /\ (lastSeq <= seq => lastSeq' = seq)
      /\ N \in Nat /\ lastSeq \in Nat /\ failed \in Int
  <2>1. N \in Nat /\ lastSeq \in 0 .. N
    BY Fields DEF FieldTypes
  <2>2. failed \in {NoFailure} \cup 0 .. N
    BY Fields DEF FieldTypes
  <2>3. lastSeq' = IF seq > lastSeq THEN seq ELSE lastSeq
    BY DEF Advance
  <2>4. failed \in Int
    BY <2>1, <2>2 DEF NoFailure
  <2>. QED
    BY <2>1, <2>3, <2>4
<1>2. client' = Woken(lastSeq', FALSE)
  BY DEF Advance
<1>3. /\ client' \in [Clients -> ClientStates]
      /\ \A c \in Clients :
            /\ client'[c].seq = client[c].seq /\ client[c].seq \in 0 .. N
            /\ \/ client'[c].pc = client[c].pc
               \/ client'[c].pc = "woken" /\ client[c].seq <= lastSeq'
  <2>1. lastSeq' \in Int
    BY <1>1
  <2>. QED
    BY <1>2, <2>1, WokenFor
<1>. QED
  BY <1>1, <1>3 DEF ClientInv

LEMMA FailClients ==
    ASSUME TypeOK, ClientInv, NEW seq \in 0 .. N, Fail(seq), lastSeq' \in Int, lastSeq <= lastSeq'
    PROVE  /\ failed' \in {NoFailure} \cup 0 .. N /\ failed' # NoFailure /\ ended' = TRUE
           /\ failed' = failed \/ (failed = NoFailure /\ failed' = seq)
           /\ client' \in [Clients -> ClientStates]
           /\ ClientInv'
<1>1. /\ failed' \in {NoFailure} \cup 0 .. N /\ failed' # NoFailure /\ ended' = TRUE
      /\ failed' = failed \/ (failed = NoFailure /\ failed' = seq)
      /\ N \in Nat /\ lastSeq \in Nat /\ NoFailure = -1 /\ failed \in Int
  <2>1. N \in Nat /\ lastSeq \in 0 .. N /\ failed \in {NoFailure} \cup 0 .. N
    BY Fields DEF FieldTypes
  <2>2. failed' = (IF failed = NoFailure THEN seq ELSE failed) /\ ended' = TRUE
    BY DEF Fail
  <2>3. NoFailure = -1
    BY DEF NoFailure
  <2>. QED
    BY <2>1, <2>2, <2>3
<1>2. client' = Woken(0, TRUE)
  BY DEF Fail
<1>3. /\ client' \in [Clients -> ClientStates]
      /\ \A c \in Clients :
            /\ client'[c].seq = client[c].seq /\ client[c].seq \in 0 .. N
            /\ \/ client'[c].pc = client[c].pc
               \/ client'[c].pc = "woken"
  BY <1>2, WokenAll
<1>. QED
  BY <1>1, <1>3 DEF ClientInv

(* Startup is completed only with everything up to the first target.        *)
LEMMA CompletionKnown ==
    ASSUME TypeOK, DataInv, StartupInv, CompleteStartup(startupTarget, lastSeq),
           ~ended => startupTarget = aim
    PROVE  /\ ended' \in BOOLEAN /\ completed' \in BOOLEAN /\ (ended => ended')
           /\ completed' => Known(aim)
<1>1. startupTarget \in Nat /\ lastSeq \in Nat /\ aim \in Nat
  BY Basics DEF TypeOK
<1>2. ~ended /\ lastSeq >= startupTarget => Known(aim)
  BY <1>1, KnownUpTo
<1>. QED
  BY <1>2 DEF CompleteStartup, StartupInv, TypeOK

----------------------------------------------------------------------------
(* Steps that change neither the stream nor the projection's data.          *)

LEMMA FieldsNext == TypeOK' <=> FieldTypes'
<1>1. log' \in Seq({"own", "other"}) => N' \in Nat
  BY LenProperties DEF N
<1>. QED
  BY <1>1 DEF TypeOK, FieldTypes, N, ClientStates

LEMMA Numbers == NoFailure = -1 /\ NoHandled = -1 /\ NoFailure \in Int /\ NoHandled \in Int
BY DEF NoFailure, NoHandled

(* The callers of WaitFor change nothing but themselves.                    *)
LEMMA ClientFrame ==
    ASSUME Inv, UNCHANGED <<stream, consumer, loop, handler, applied, lastSeq, restoredSeq, startup, batches,
                            failed, saved, restarts>>
    PROVE  /\ DataInv' /\ BatchInv' /\ FreshInv' /\ DeliveryInv' /\ StartupInv' /\ FailureInv'
           /\ (client' \in [Clients -> ClientStates] => TypeOK')
<1>. USE DEF stream, consumer, loop, startup, batches
<1>1. DataKept /\ N' = N /\ ClientStates' = ClientStates
  BY DEF DataKept, N, ClientStates
<1>2. /\ DataInv' /\ Owned' = Owned /\ HandledSeq' = HandledSeq /\ Frontier' = Frontier
      /\ \A a, b : None(a, b)' = None(a, b)
      /\ \A n : Known(n)' = Known(n)
  BY <1>1, KeepsData DEF Inv
<1>3. BatchInv' /\ FreshInv'
  BY <1>2 DEF Inv, BatchInv, FreshInv, LiveBatchSize
<1>4. DeliveryInv'
  BY <1>2 DEF Inv, DeliveryInv, Linked, Gap, Retained, Consuming
<1>5. StartupInv'
  BY <1>2 DEF Inv, StartupInv, Consuming
<1>6. FailureInv'
  BY <1>2 DEF Inv, FailureInv, FailedEventsStayOut
<1>7. ASSUME client' \in [Clients -> ClientStates] PROVE TypeOK'
  BY <1>1, <1>7, Fields, FieldsNext DEF Inv, FieldTypes
<1>. QED
  BY <1>2, <1>3, <1>4, <1>5, <1>6, <1>7

LEMMA ClientSteps ==
    ASSUME Inv, NEW c \in Clients, WaitFor(c) \/ EnterWait(c) \/ LeaveWait(c) \/ CancelWait(c)
    PROVE  Inv'
<1>1. /\ UNCHANGED <<stream, consumer, loop, handler, applied, lastSeq, restoredSeq, startup, batches,
                     failed, saved, restarts>>
  BY DEF WaitFor, EnterWait, LeaveWait, CancelWait
<1>2. /\ client \in [Clients -> ClientStates] /\ N \in Nat /\ lastSeq \in Int /\ failed \in Int
      /\ client[c].seq \in Int
  <2>1. client \in [Clients -> ClientStates] /\ N \in Nat /\ lastSeq \in Int /\ failed \in Int
    BY ClientTypes DEF Inv
  <2>2. client[c].seq \in 0 .. N
    BY <2>1 DEF ClientStates
  <2>. QED
    BY <2>1, <2>2
<1>3. CASE WaitFor(c)
  <2>1. PICK q \in 1 .. N : client' = [client EXCEPT ![c] = [pc |-> "entering", seq |-> q]]
    BY <1>3 DEF WaitFor, N
  <2>2. client' \in [Clients -> ClientStates]
    BY <1>2, <2>1 DEF ClientStates
  <2>3. ClientInv'
    BY <1>1, <1>2, <2>1 DEF Inv, ClientInv
  <2>. QED
    BY <1>1, <2>2, <2>3, ClientFrame DEF Inv
<1>4. ASSUME NEW pc \in {"waiting", "ok", "error"}, Client(c, pc),
             pc = "ok" => client[c].seq <= lastSeq \/ client[c].seq < failed
      PROVE  Inv'
  <2>1. client' \in [Clients -> ClientStates]
    BY <1>2, <1>4 DEF Client, ClientStates
  <2>2. client'[c].pc = pc /\ client'[c].seq = client[c].seq /\ \A d \in Clients \ {c} : client'[d] = client[d]
    BY <1>2, <1>4 DEF Client, ClientStates
  <2>3. ClientInv'
    BY <1>1, <1>4, <2>2 DEF Inv, ClientInv
  <2>. QED
    BY <1>1, <2>1, <2>3, ClientFrame DEF Inv
<1>5. CASE EnterWait(c)
  BY <1>2, <1>4, <1>5 DEF EnterWait
<1>6. CASE LeaveWait(c)
  <2>1. ~FailsFor(client[c].seq) => client[c].seq <= lastSeq \/ client[c].seq < failed
    BY <1>2, <1>6, Numbers DEF LeaveWait, FailsFor, Inv, ClientInv
  <2>. QED
    BY <1>4, <1>6, <2>1 DEF LeaveWait
<1>7. CASE CancelWait(c)
  BY <1>4, <1>7 DEF CancelWait
<1>. QED
  BY <1>3, <1>5, <1>6, <1>7

(* The consumer keeps its messages linked: nothing retained is skipped.     *)
LEMMA FetchStep == ASSUME Inv, Fetch PROVE Inv'
<1>. USE DEF stream, consumer, loop, startup, batches
<1> DEFINE from == IF buffer = << >> THEN handed ELSE Last(buffer)
<1>0. DataKept /\ N' = N /\ ClientStates' = ClientStates /\ Consuming' = Consuming /\ Consuming
      /\ \A a, b : Gap(a, b)' = Gap(a, b)
  BY DEF Fetch, DataKept, N, ClientStates, Consuming, Gap, Retained
<1>1. /\ DataInv' /\ Owned' = Owned /\ HandledSeq' = HandledSeq /\ Frontier' = Frontier
      /\ \A a, b : None(a, b)' = None(a, b)
      /\ \A n : Known(n)' = Known(n)
  BY <1>0, KeepsData DEF Inv
<1>2. PICK q \in from + 1 .. N : Retained(q) /\ from + 1 .. q - 1 \subseteq deleted /\ buffer' = Append(buffer, q)
  BY DEF Fetch, N
<1>3. N \in Nat /\ buffer \in Seq(1 .. N) /\ handed \in 0 .. N /\ Len(buffer) \in Nat
  BY Fields, LenProperties DEF Inv, FieldTypes
<1>4. from \in 0 .. N
  <2>1. CASE buffer = << >>
    BY <1>3, <2>1
  <2>2. CASE buffer # << >>
    <3>1. Len(buffer) \in 1 .. Len(buffer)
      BY <1>3, <2>2, EmptySeq
    <3>2. Last(buffer) \in 1 .. N
      BY <1>3, <3>1, ElementOfSeq DEF Last
    <3>. QED
      BY <1>3, <2>2, <3>2
  <2>. QED
    BY <2>1, <2>2
<1>5. q \in 1 .. N /\ q > from
  BY <1>2, <1>3, <1>4
<1>6. Gap(from, q)
  BY <1>2, <1>3, <1>4, <1>5 DEF Gap, Retained
<1>7. buffer' \in Seq(1 .. N) /\ Len(buffer') = Len(buffer) + 1 /\ buffer'[Len(buffer) + 1] = q
      /\ \A i \in 1 .. Len(buffer) : buffer'[i] = buffer[i]
  BY <1>2, <1>3, <1>5
<1>8. Linked'
  <2>1. CASE buffer = << >>
    <3>1. buffer' = <<q>> /\ Head(buffer') = q /\ Len(buffer') = 1
      BY <1>2, <2>1
    <3>. QED
      BY <1>0, <1>6, <2>1, <3>1 DEF Linked, Fetch
  <2>2. CASE buffer # << >>
    <3>0. Len(buffer) > 0 /\ Head(buffer) = buffer[1] /\ Head(buffer') = buffer'[1] /\ buffer'[1] = buffer[1]
      BY <1>3, <1>7, <2>2, EmptySeq
    <3>1. Gap(handed, Head(buffer')) /\ handed' = handed
      BY <2>2, <3>0 DEF Inv, DeliveryInv, Linked, Fetch
    <3>2. Gap(buffer[Len(buffer)], q)
      BY <1>6, <2>2 DEF Last
    <3>3. ASSUME NEW i \in 1 .. Len(buffer') - 1 PROVE Gap(buffer'[i], buffer'[i + 1])
      <4>1. CASE i = Len(buffer)
        BY <1>3, <1>7, <3>0, <3>2, <4>1
      <4>2. CASE i \in 1 .. Len(buffer) - 1
        <5>1. i \in 1 .. Len(buffer) /\ i + 1 \in 1 .. Len(buffer)
          BY <1>3, <4>2
        <5>. QED
          BY <1>7, <4>2, <5>1 DEF Inv, DeliveryInv, Linked
      <4>. QED
        BY <1>3, <1>7, <4>1, <4>2
    <3>. QED
      BY <1>0, <3>1, <3>3 DEF Linked
  <2>. QED
    BY <2>1, <2>2
<1>9. DeliveryInv'
  BY <1>0, <1>1, <1>8 DEF Inv, DeliveryInv, Fetch
<1>10. TypeOK'
  BY <1>0, <1>7, Fields, FieldsNext DEF Inv, FieldTypes, Fetch
<1>11. BatchInv' /\ FreshInv'
  BY <1>0, <1>1 DEF Inv, BatchInv, FreshInv, LiveBatchSize, Fetch
<1>12. StartupInv' /\ FailureInv' /\ ClientInv'
  BY <1>0, <1>1 DEF Inv, StartupInv, FailureInv, FailedEventsStayOut, ClientInv, Fetch
<1>. QED
  BY <1>1, <1>9, <1>10, <1>11, <1>12 DEF Inv

LEMMA DeliverStep == ASSUME Inv, Deliver PROVE Inv'
<1>. USE DEF stream, consumer, loop, startup, batches
<1> DEFINE h == Head(buffer)
<1>0. DataKept /\ N' = N /\ ClientStates' = ClientStates /\ Consuming' = Consuming /\ Consuming
      /\ \A a, b : Gap(a, b)' = Gap(a, b)
      /\ buffer # << >> /\ handed' = h /\ buffer' = Tail(buffer) /\ handler.pc = "idle"
  BY DEF Deliver, DataKept, N, ClientStates, Consuming, Gap, Retained
<1>1. /\ DataInv' /\ Owned' = Owned /\ HandledSeq' = HandledSeq /\ Frontier' = Frontier
      /\ \A a, b : None(a, b)' = None(a, b)
      /\ \A n : Known(n)' = Known(n)
  BY <1>0, KeepsData DEF Inv
<1>2. N \in Nat /\ buffer \in Seq(1 .. N) /\ handed \in 0 .. N /\ Len(buffer) \in Nat \ {0}
      /\ Frontier \in 0 .. N /\ Owned \in SUBSET Nat
  <2>1. N \in Nat /\ buffer \in Seq(1 .. N) /\ handed \in 0 .. N
    BY Fields DEF Inv, FieldTypes
  <2>. QED
    BY <1>0, <2>1, EmptySeq, Basics DEF Inv
<1>3. h = buffer[1] /\ h \in 1 .. N /\ Tail(buffer) \in Seq(1 .. N) /\ Len(Tail(buffer)) = Len(buffer) - 1
      /\ \A i \in 1 .. Len(buffer) - 1 : Tail(buffer)[i] = buffer[i + 1]
  BY <1>0, <1>2, HeadTailProperties
<1>4. Gap(handed, h) /\ handed < h /\ Frontier <= handed
  BY <1>0 DEF Inv, DeliveryInv, Linked, Gap
<1>5. Linked'
  <2>1. ASSUME Tail(buffer) # << >> PROVE Gap(h, Head(Tail(buffer)))
    <3>1. Len(Tail(buffer)) \in Nat \ {0} /\ Head(Tail(buffer)) = Tail(buffer)[1]
      BY <1>3, <2>1, EmptySeq
    <3>2. 1 \in 1 .. Len(buffer) - 1
      BY <1>2, <1>3, <3>1
    <3>. QED
      BY <1>3, <3>1, <3>2 DEF Inv, DeliveryInv, Linked
  <2>2. ASSUME NEW i \in 1 .. Len(Tail(buffer)) - 1 PROVE Gap(Tail(buffer)[i], Tail(buffer)[i + 1])
    <3>1. i \in 1 .. Len(buffer) - 1 /\ i + 1 \in 1 .. Len(buffer) - 1
      BY <1>2, <1>3
    <3>. QED
      BY <1>3, <3>1 DEF Inv, DeliveryInv, Linked
  <2>. QED
    BY <1>0, <2>1, <2>2 DEF Linked
<1>6. failed = NoFailure => None(Frontier, h - 1)
  <2>. SUFFICES ASSUME failed = NoFailure, NEW q \in Owned \ deleted, Frontier < q, q <= h - 1 PROVE FALSE
    BY DEF None, NoneIn
  <2>1. None(Frontier, handed)
    BY <1>0 DEF Inv, DeliveryInv
  <2>2. q \in 1 .. N /\ handed < q /\ q < h
    BY <1>2, <1>3, <2>1 DEF None, NoneIn, Owned, N
  <2>. QED
    BY <1>4, <2>2 DEF Gap, Retained, N
<1>7. failed = NoFailure /\ ~Own(h) => None(Frontier, h)
  <2>. SUFFICES ASSUME failed = NoFailure, ~Own(h), NEW q \in Owned \ deleted, Frontier < q, q <= h PROVE FALSE
    BY DEF None, NoneIn
  <2>1. q # h /\ q \in 1 .. N
    BY DEF Owned, N
  <2>. QED
    BY <1>2, <1>3, <1>6, <2>1 DEF None, NoneIn
<1>8. ~Restored(h)
  <2>1. restoredSeq \in Nat /\ lastSeq \in Nat
    BY Fields DEF Inv, FieldTypes
  <2>2. lastSeq <= Frontier
    BY Basics DEF Inv
  <2>3. restoredSeq <= lastSeq
    BY DEF Inv, DataInv
  <2>. QED
    BY <1>2, <1>3, <1>4, <2>1, <2>2, <2>3 DEF Restored
<1>9. \/ handler' = handler /\ (failed # NoFailure \/ ~Own(h))
      \/ handler' = [pc |-> "fail", seq |-> 0]
      \/ /\ failed = NoFailure /\ Own(h)
         /\ handler' \in {[pc |-> "apply", seq |-> h], [pc |-> "undecodable", seq |-> h]}
  BY <1>8 DEF Deliver
<1>10. TypeOK'
  <2>1. handler' \in [pc : {"idle", "apply", "undecodable", "fail", "complete"}, seq : 0 .. N]
    <3>1. handler \in [pc : {"idle", "apply", "undecodable", "fail", "complete"}, seq : 0 .. N]
      BY Fields DEF Inv, FieldTypes
    <3>2. h \in 0 .. N /\ 0 \in 0 .. N
      BY <1>2, <1>3
    <3>. QED
      BY <1>9, <3>1, <3>2
  <2>2. handed' \in 0 .. N
    BY <1>0, <1>2, <1>3
  <2>3. buffer' \in Seq(1 .. N)
    BY <1>0, <1>3
  <2>. QED
    BY <1>0, <2>1, <2>2, <2>3, Fields, FieldsNext DEF Inv, FieldTypes, Deliver
<1>11. DeliveryInv'
  <2>1. Frontier <= h
    BY <1>2, <1>3, <1>4
  <2>2. CASE handler' = handler /\ (failed # NoFailure \/ ~Own(h))
    BY <1>0, <1>1, <1>5, <1>7, <2>1, <2>2 DEF DeliveryInv, Deliver
  <2>3. CASE handler' = [pc |-> "fail", seq |-> 0]
    BY <1>0, <1>1, <1>5, <2>1, <2>3 DEF DeliveryInv, Deliver
  <2>4. CASE failed = NoFailure /\ Own(h) /\ handler'.pc \in {"apply", "undecodable"} /\ handler'.seq = h
    <3>1. h \in Owned /\ Frontier < h
      BY <1>2, <1>3, <1>4, <2>4 DEF Owned, N
    <3>. QED
      BY <1>0, <1>1, <1>5, <1>6, <2>1, <2>4, <3>1 DEF DeliveryInv, Deliver
  <2>. QED
    BY <1>9, <2>2, <2>3, <2>4
<1>12. BatchInv' /\ FreshInv' /\ ClientInv'
  BY <1>0, <1>1 DEF Inv, BatchInv, FreshInv, LiveBatchSize, Deliver, Consuming, ClientInv
<1>13. StartupInv'
  BY <1>0, <1>1 DEF Inv, StartupInv, Deliver
<1>14. FailureInv'
  <2>1. handler'.pc = "fail" => handler'.seq = 0
    BY <1>0, <1>9
  <2>2. Known(-1)
    BY <1>2, KnownUpTo, Basics DEF Inv
  <2>3. aim \in Nat
    BY Fields DEF Inv, FieldTypes
  <2>4. aim' = aim /\ failed' = failed /\ ended' = ended /\ applied' = applied
    BY DEF Deliver
  <2>. QED
    BY <1>1, <2>1, <2>2, <2>3, <2>4 DEF Inv, FailureInv, FailedEventsStayOut
<1>. QED
  BY <1>1, <1>10, <1>11, <1>12, <1>13, <1>14 DEF Inv

(* What every step keeps that leaves the projection's data alone.           *)
LEMMA KeptFrame ==
    ASSUME Inv, DataKept
    PROVE  /\ DataInv' /\ Owned' = Owned /\ HandledSeq' = HandledSeq /\ Frontier' = Frontier
           /\ \A a, b : None(a, b)' = None(a, b)
           /\ \A n : Known(n)' = Known(n)
           /\ \A a, b : Gap(a, b)' = Gap(a, b)
           /\ N' = N /\ ClientStates' = ClientStates /\ N \in Nat
           /\ aim' = aim /\ startupTarget' = startupTarget => BatchInv'
<1>1. /\ DataInv' /\ Owned' = Owned /\ HandledSeq' = HandledSeq /\ Frontier' = Frontier
      /\ \A a, b : None(a, b)' = None(a, b)
      /\ \A n : Known(n)' = Known(n)
  BY KeepsData DEF Inv
<1>2. \A a, b : Gap(a, b)' = Gap(a, b)
  BY DEF DataKept, Gap, Retained
<1>3. N' = N /\ ClientStates' = ClientStates /\ N \in Nat
  BY Fields DEF Inv, DataKept, FieldTypes, N, ClientStates
<1>4. aim' = aim /\ startupTarget' = startupTarget => BatchInv'
  BY <1>1 DEF Inv, DataKept, BatchInv, LiveBatchSize
<1>. QED
  BY <1>1, <1>2, <1>3, <1>4 DEF Inv

(* A failure recorded while the data is left alone.                         *)
LEMMA FailKeeps ==
    ASSUME Inv, DataKept, NEW seq \in 0 .. N, Fail(seq), aim' = aim,
           failed = NoFailure => Known(seq - 1) /\ (seq > aim => lastSeq < seq)
    PROVE  /\ failed' \in {NoFailure} \cup 0 .. N /\ failed' # NoFailure /\ ended' = TRUE
           /\ client' \in [Clients -> ClientStates]
           /\ Known(failed - 1)' /\ FailedEventsStayOut' /\ ClientInv'
<1>1. /\ failed' \in {NoFailure} \cup 0 .. N /\ failed' # NoFailure /\ ended' = TRUE
      /\ failed' = failed \/ (failed = NoFailure /\ failed' = seq)
      /\ client' \in [Clients -> ClientStates] /\ ClientInv'
  <2>1. lastSeq' \in Int /\ lastSeq <= lastSeq'
    BY Fields DEF Inv, DataKept, FieldTypes
  <2>. QED
    BY <2>1, FailClients DEF Inv
<1>2. CASE failed' = failed
  <2>1. Known(failed - 1) /\ FailedEventsStayOut
    BY <1>1, <1>2 DEF Inv, FailureInv
  <2>2. Known(failed - 1)'
    BY <1>2, <2>1 DEF Known, DataKept, Owned, Own
  <2>3. FailedEventsStayOut'
    BY <1>2, <2>1 DEF FailedEventsStayOut, DataKept
  <2>. QED
    BY <1>1, <2>2, <2>3
<1>3. CASE failed = NoFailure /\ failed' = seq
  <2>1. Known(failed - 1)'
    BY <1>3 DEF Known, DataKept, Owned, Own
  <2>2. ASSUME failed' > aim, NEW i \in 1 .. Len(applied) PROVE applied[i] < failed'
    <3>1. applied[i] <= lastSeq /\ applied[i] \in Nat /\ lastSeq \in Nat /\ seq \in Nat
      <4>1. lastSeq \in Nat /\ N \in Nat /\ applied \in Seq(1 .. N)
        BY Fields DEF Inv, FieldTypes
      <4>2. applied[i] \in 1 .. N
        BY <4>1, ElementOfSeq
      <4>. QED
        BY <4>1, <4>2 DEF Inv, DataInv, Seg, Segment
    <3>2. lastSeq < seq
      BY <1>3, <2>2
    <3>. QED
      BY <1>3, <3>1, <3>2
  <2>3. FailedEventsStayOut'
    BY <2>2 DEF FailedEventsStayOut, DataKept
  <2>. QED
    BY <1>1, <2>1, <2>3
<1>. QED
  BY <1>1, <1>2, <1>3

LEMMA SkipStep == ASSUME Inv, SkipEvent PROVE Inv'
<1>. USE DEF stream, consumer, loop, startup, batches
<1>1. DataKept /\ handler' = [pc |-> "complete", seq |-> 0] /\ handler.pc = "apply" /\ Consuming' = Consuming
  BY DEF SkipEvent, DataKept, HandlerTo, Applying, Consuming
<1>2. /\ failed # NoFailure
  <2>1. restoredSeq <= lastSeq /\ lastSeq <= Frontier /\ Frontier < handler.seq
        /\ {restoredSeq, lastSeq, Frontier, handler.seq} \subseteq Nat
    <3>1. lastSeq \in Nat /\ restoredSeq \in Nat
      BY Fields DEF Inv, FieldTypes
    <3>2. N \in Nat /\ Frontier \in 0 .. N /\ lastSeq <= Frontier /\ Owned \in SUBSET Nat
      BY Basics DEF Inv
    <3>3. handler.seq \in Owned /\ Frontier < handler.seq
      BY <1>1 DEF Inv, DeliveryInv
    <3>4. restoredSeq <= lastSeq
      BY DEF Inv, DataInv
    <3>5. handler.seq \in Nat
      BY <3>2, <3>3
    <3>6. Frontier \in Nat
      BY <3>2
    <3>. QED
      BY <3>1, <3>2, <3>3, <3>4, <3>5, <3>6, Zenon
  <2>2. ~Restored(handler.seq)
    BY <2>1 DEF Restored
  <2>. QED
    BY <2>2 DEF SkipEvent, Skips
<1>3. TypeOK'
  <2>1. FieldTypes
    BY Fields DEF Inv
  <2>2. FieldTypes'
    BY <1>1, <2>1, KeptFrame DEF FieldTypes, SkipEvent, DataKept
  <2>. QED
    BY <2>2, FieldsNext DEF FieldTypes
<1>4. DataInv' /\ BatchInv'
  BY <1>1, KeptFrame DEF SkipEvent
<1>5. FreshInv'
  BY <1>1 DEF Inv, FreshInv, SkipEvent
<1>6. DeliveryInv'
  BY <1>1, <1>2, KeptFrame DEF Inv, DeliveryInv, Linked, SkipEvent
<1>7. StartupInv'
  BY <1>1, KeptFrame DEF Inv, StartupInv, SkipEvent
<1>8. FailureInv' /\ ClientInv'
  BY <1>1, KeptFrame DEF Inv, FailureInv, FailedEventsStayOut, ClientInv, SkipEvent
<1>. QED
  BY <1>3, <1>4, <1>5, <1>6, <1>7, <1>8 DEF Inv

(* The next retained event that is not applied yet bounds what is known.    *)
LEMMA PendingHead ==
    ASSUME TypeOK, DataInv
    PROVE  /\ startupBatch # << >> =>
                 /\ Head(startupBatch) \in 1 .. N /\ lastSeq < Head(startupBatch)
                 /\ Head(startupBatch) <= HandledSeq /\ Known(Head(startupBatch) - 1)
           /\ startupBatch = << >> /\ liveBatch # << >> =>
                 /\ Head(liveBatch) \in 1 .. N /\ lastSeq < Head(liveBatch)
                 /\ Head(liveBatch) <= Frontier /\ Known(Head(liveBatch) - 1)
<1>0. /\ Owned \in SUBSET Nat /\ (\A q \in Owned : q \in 1 .. N) /\ lastSeq \in Nat /\ HandledSeq \in Nat
      /\ Frontier \in Nat /\ N \in Nat
  BY Basics
<1>1. ASSUME startupBatch # << >>
      PROVE  /\ Head(startupBatch) \in 1 .. N /\ lastSeq < Head(startupBatch)
             /\ Head(startupBatch) <= HandledSeq /\ Known(Head(startupBatch) - 1)
  <2>1. /\ Head(startupBatch) \in Owned /\ lastSeq < Head(startupBatch) /\ Head(startupBatch) <= HandledSeq
        /\ None(lastSeq, Head(startupBatch) - 1)
    BY <1>0, <1>1, SegmentHead DEF DataInv, Seg, None
  <2>2. Head(startupBatch) - 1 \in Int /\ Head(startupBatch) \in 1 .. N
    <3>1. Head(startupBatch) \in 1 .. N
      BY <1>0, <2>1, Zenon
    <3>. QED
      BY <1>0, <3>1
  <2>. QED
    BY <2>1, <2>2, KnownUpTo
<1>2. ASSUME startupBatch = << >>, liveBatch # << >>
      PROVE  /\ Head(liveBatch) \in 1 .. N /\ lastSeq < Head(liveBatch)
             /\ Head(liveBatch) <= Frontier /\ Known(Head(liveBatch) - 1)
  <2>1. HandledSeq = lastSeq
    BY <1>2 DEF HandledSeq
  <2>2. /\ Head(liveBatch) \in Owned /\ HandledSeq < Head(liveBatch) /\ Head(liveBatch) <= Frontier
        /\ None(HandledSeq, Head(liveBatch) - 1)
    BY <1>0, <1>2, SegmentHead DEF DataInv, Seg, None
  <2>3. Head(liveBatch) - 1 \in Int /\ Head(liveBatch) \in 1 .. N
    <3>1. Head(liveBatch) \in 1 .. N
      BY <1>0, <2>2, Zenon
    <3>. QED
      BY <1>0, <3>1
  <2>. QED
    BY <2>1, <2>2, <2>3, KnownUpTo
<1>. QED
  BY <1>1, <1>2

LEMMA FailSteps == ASSUME Inv, FailUndecodable \/ RecordFailure PROVE Inv'
<1>. USE DEF stream, consumer, loop, startup, batches
<1>1. /\ DataKept /\ handler' = [pc |-> "idle", seq |-> 0] /\ Consuming' = Consuming
      /\ aim' = aim /\ startupTarget' = startupTarget /\ completed' = completed /\ run' = run
      /\ current' = current /\ previous' = previous /\ buffer' = buffer /\ handed' = handed /\ restarts' = restarts
  BY DEF FailUndecodable, RecordFailure, DataKept, HandlerTo, Consuming
<1>2. \E seq \in 0 .. N : /\ Fail(seq)
                          /\ failed = NoFailure => Known(seq - 1) /\ (seq > aim => lastSeq < seq)
  <2>1. CASE RecordFailure
    <3>1. Fail(handler.seq) /\ handler.pc = "fail" /\ handler.seq \in 0 .. N
      BY <2>1, Fields DEF RecordFailure, Inv, FieldTypes
    <3>2. failed = NoFailure /\ handler.seq > aim => lastSeq < handler.seq
      <4>1. lastSeq <= Frontier /\ lastSeq \in Nat /\ Frontier \in Nat /\ N \in Nat
        BY Basics DEF Inv
      <4>. QED
        BY <3>1, <4>1 DEF Inv, FailureInv
    <3>. QED
      BY <3>1, <3>2 DEF Inv, FailureInv
  <2>2. CASE FailUndecodable
    <3>1. CASE startupBatch # << >>
      <4>1. Fail(Head(startupBatch))
        BY <2>2, <3>1 DEF FailUndecodable
      <4>2. Head(startupBatch) \in 0 .. N
        BY <3>1, PendingHead DEF Inv
      <4>. QED
        BY <3>1, <4>1, <4>2, PendingHead DEF Inv
    <3>2. CASE startupBatch = << >> /\ liveBatch # << >>
      <4>1. Fail(Head(liveBatch))
        BY <2>2, <3>2 DEF FailUndecodable
      <4>2. Head(liveBatch) \in 0 .. N
        BY <3>2, PendingHead DEF Inv
      <4>. QED
        BY <3>2, <4>1, <4>2, PendingHead DEF Inv
    <3>3. CASE startupBatch = << >> /\ liveBatch = << >>
      <4>1. Fail(handler.seq) /\ handler.pc = "undecodable"
        BY <2>2, <3>3 DEF FailUndecodable
      <4>2. Frontier = lastSeq
        BY <3>3 DEF Frontier, HandledSeq
      <4>3. handler.seq \in 1 .. N /\ lastSeq < handler.seq /\ None(lastSeq, handler.seq - 1)
        BY <4>1, <4>2, Basics DEF Inv, DeliveryInv
      <4>4. Known(handler.seq - 1) /\ handler.seq \in 0 .. N
        <5>1. handler.seq - 1 \in Int /\ handler.seq \in 0 .. N
          BY <4>3
        <5>. QED
          BY <4>3, <5>1, KnownUpTo DEF Inv
      <4>. QED
        BY <4>1, <4>3, <4>4
    <3>. QED
      BY <3>1, <3>2, <3>3
  <2>. QED
    BY <2>1, <2>2
<1>3. /\ failed' \in {NoFailure} \cup 0 .. N /\ failed' # NoFailure /\ ended' = TRUE
      /\ client' \in [Clients -> ClientStates]
      /\ Known(failed - 1)' /\ FailedEventsStayOut' /\ ClientInv'
  BY <1>1, <1>2, FailKeeps
<1>4. TypeOK'
  <2>1. handler' \in [pc : {"idle", "apply", "undecodable", "fail", "complete"}, seq : 0 .. N]
    BY <1>1, KeptFrame
  <2>. QED
    BY <1>1, <1>3, <2>1, KeptFrame, Fields, FieldsNext DEF Inv, FieldTypes, DataKept
<1>5. DataInv' /\ BatchInv'
  BY <1>1, KeptFrame
<1>6. FreshInv'
  <2>1. run \notin {"idle", "restore", "consume"}
    BY DEF Inv, FreshInv, FailUndecodable, RecordFailure
  <2>. QED
    BY <1>1, <2>1 DEF FreshInv
<1>7. DeliveryInv'
  BY <1>1, <1>3, KeptFrame DEF Inv, DeliveryInv, Linked
<1>8. StartupInv'
  BY <1>1, <1>3, KeptFrame DEF Inv, StartupInv
<1>9. FailureInv'
  BY <1>1, <1>3 DEF FailureInv
<1>. QED
  BY <1>3, <1>4, <1>5, <1>6, <1>7, <1>8, <1>9 DEF Inv

LEMMA HandlerCompletesStep == ASSUME Inv, HandlerCompletes PROVE Inv'
<1>. USE DEF stream, consumer, loop, startup, batches
<1>1. /\ DataKept /\ handler.pc = "complete" /\ handler' = [pc |-> "idle", seq |-> 0] /\ Consuming' = Consuming
      /\ UNCHANGED <<aim, startupTarget, run, current, previous, buffer, handed, failed, client, restarts>>
      /\ CompleteStartup(startupTarget, lastSeq)
  BY DEF HandlerCompletes, DataKept, HandlerTo, Consuming
<1>2. /\ ended' \in BOOLEAN /\ completed' \in BOOLEAN /\ (ended => ended') /\ (completed' => Known(aim))
  BY <1>1, CompletionKnown DEF Inv, StartupInv
<1>3. TypeOK'
  <2>1. handler' \in [pc : {"idle", "apply", "undecodable", "fail", "complete"}, seq : 0 .. N]
    BY <1>1, KeptFrame
  <2>. QED
    BY <1>1, <1>2, <2>1, KeptFrame, Fields, FieldsNext DEF Inv, FieldTypes, DataKept
<1>4. DataInv' /\ BatchInv'
  BY <1>1, KeptFrame
<1>5. FreshInv'
  <2>1. run \notin {"idle", "restore", "consume"}
    BY <1>1 DEF Inv, FreshInv
  <2>. QED
    BY <1>1, <2>1 DEF FreshInv
<1>6. DeliveryInv'
  BY <1>1, KeptFrame DEF Inv, DeliveryInv, Linked
<1>7. StartupInv'
  <2>1. completed' => Known(aim)'
    BY <1>1, <1>2 DEF Known, DataKept, Owned, Own
  <2>. QED
    BY <1>1, <1>2, <2>1, KeptFrame DEF Inv, StartupInv
<1>8. FailureInv' /\ ClientInv'
  BY <1>1, <1>2, KeptFrame DEF Inv, FailureInv, FailedEventsStayOut, ClientInv, DataKept
<1>. QED
  BY <1>3, <1>4, <1>5, <1>6, <1>7, <1>8 DEF Inv

LEMMA StartStep == ASSUME Inv, Start PROVE Inv'
<1>. USE DEF stream, consumer, loop, startup, batches
<1>1. /\ DataKept /\ run = "idle" /\ run' = "restore" /\ aim' \in 0 .. N
      /\ UNCHANGED <<startupTarget, current, previous, buffer, handed, failed, client, restarts, handler,
                     ended, completed>>
  BY DEF Start, DataKept, N
<1>2. /\ startupBatch = << >> /\ liveBatch = << >> /\ handler.pc = "idle" /\ ~ended /\ ~completed
      /\ failed = NoFailure /\ startupTarget = 0 /\ buffer = << >> /\ aim' \in Nat
  BY <1>1 DEF Inv, FreshInv, DeliveryInv, Consuming
<1>3. TypeOK'
  BY <1>1, KeptFrame, Fields, FieldsNext DEF Inv, FieldTypes, DataKept
<1>4. DataInv' /\ BatchInv'
  BY <1>1, <1>2, KeptFrame DEF BatchInv, DataKept
<1>5. FreshInv' /\ ClientInv'
  BY <1>1, <1>2 DEF Inv, FreshInv, DataKept, ClientInv
<1>6. DeliveryInv'
  BY <1>1, <1>2, KeptFrame DEF Inv, DeliveryInv, Linked, Consuming
<1>7. StartupInv'
  BY <1>1, <1>2 DEF StartupInv, Consuming
<1>8. FailureInv'
  BY <1>1, <1>2, Numbers DEF FailureInv, FailedEventsStayOut
<1>. QED
  BY <1>3, <1>4, <1>5, <1>6, <1>7, <1>8 DEF Inv

LEMMA ConsumeStep == ASSUME Inv, Consume PROVE Inv'
<1>. USE DEF stream, consumer, loop, startup, batches
<1>1. /\ DataKept /\ run = "consume" /\ run' = "complete" /\ handed' = restoredSeq
      /\ UNCHANGED <<startupTarget, aim, current, previous, buffer, failed, client, restarts, handler,
                     ended, completed>>
  BY DEF Consume, DataKept
<1>2. /\ startupBatch = << >> /\ liveBatch = << >> /\ handler.pc = "idle" /\ buffer = << >>
      /\ lastSeq = restoredSeq /\ Frontier = lastSeq /\ lastSeq \in Nat
  BY <1>1, Basics DEF Inv, FreshInv, DeliveryInv, Consuming, Frontier, HandledSeq
<1>3. TypeOK'
  BY <1>1, KeptFrame, Fields, FieldsNext DEF Inv, FieldTypes, DataKept
<1>4. DataInv' /\ BatchInv'
  BY <1>1, KeptFrame
<1>5. FreshInv' /\ ClientInv'
  BY <1>1 DEF Inv, FreshInv, DataKept, ClientInv
<1>6. DeliveryInv'
  <2>1. Linked'
    BY <1>1, <1>2, KeptFrame DEF Inv, DeliveryInv, Linked
  <2>2. Frontier' = handed'
    BY <1>1, <1>2, KeptFrame
  <2>3. None(Frontier, handed)'
    BY <1>2, <2>2, KeptFrame, <1>1, Basics DEF Inv, None, NoneIn
  <2>4. Frontier' <= handed'
    BY <1>1, <1>2, <2>2
  <2>. QED
    BY <1>1, <1>2, <2>1, <2>3, <2>4 DEF DeliveryInv, Consuming
<1>7. StartupInv'
  BY <1>1, <1>2, KeptFrame DEF Inv, StartupInv, Consuming
<1>8. FailureInv'
  BY <1>1, KeptFrame DEF Inv, FailureInv, FailedEventsStayOut, DataKept
<1>. QED
  BY <1>3, <1>4, <1>5, <1>6, <1>7, <1>8 DEF Inv

LEMMA RunCompletesStep == ASSUME Inv, RunCompletes PROVE Inv'
<1>. USE DEF stream, consumer, loop, startup, batches
<1>1. /\ DataKept /\ run = "complete" /\ run' = "loop" /\ CompleteStartup(startupTarget, lastSeq)
      /\ UNCHANGED <<startupTarget, aim, current, previous, buffer, handed, failed, client, restarts, handler>>
      /\ Consuming' = Consuming
  BY DEF RunCompletes, DataKept, Consuming
<1>2. /\ ended' \in BOOLEAN /\ completed' \in BOOLEAN /\ (ended => ended') /\ (completed' => Known(aim))
  BY <1>1, CompletionKnown DEF Inv, StartupInv, Consuming
<1>3. TypeOK'
  BY <1>1, <1>2, KeptFrame, Fields, FieldsNext DEF Inv, FieldTypes, DataKept
<1>4. DataInv' /\ BatchInv'
  BY <1>1, KeptFrame
<1>5. FreshInv' /\ ClientInv'
  BY <1>1 DEF Inv, FreshInv, DataKept, ClientInv
<1>6. DeliveryInv'
  BY <1>1, KeptFrame DEF Inv, DeliveryInv, Linked
<1>7. StartupInv'
  <2>1. completed' => Known(aim)'
    BY <1>1, <1>2 DEF Known, DataKept, Owned, Own
  <2>. QED
    BY <1>1, <1>2, <2>1 DEF Inv, StartupInv, Consuming
<1>8. FailureInv'
  BY <1>1, <1>2, KeptFrame DEF Inv, FailureInv, FailedEventsStayOut, DataKept
<1>. QED
  BY <1>3, <1>4, <1>5, <1>6, <1>7, <1>8 DEF Inv

(* reconcileStartup up to the flush: a target that is read again leaves no  *)
(* retained event of the startup history behind it.                         *)
LEMMA ReconcileSteps == ASSUME Inv, Tick \/ ReadCurrent \/ Relock PROVE Inv'
<1>. USE DEF stream, consumer, loop, startup, batches
<1>1. /\ DataKept /\ Consuming /\ Consuming'
      /\ UNCHANGED <<startupTarget, aim, buffer, handed, failed, client, restarts, handler, ended, completed>>
      /\ run' \in {"loop", "reread", "relock", "flush"}
      /\ run \in {"loop", "reread", "relock"}
  BY DEF Tick, ReadCurrent, Relock, DataKept, Consuming
<1>2. previous' \in {NoHandled} \cup 0 .. N /\ current' \in 0 .. N
  <2>1. HandledSeq \in 0 .. N /\ N \in Nat
    BY Basics DEF Inv
  <2>2. previous \in {NoHandled} \cup 0 .. N /\ current \in 0 .. N
    BY Fields DEF Inv, FieldTypes
  <2>3. CASE Tick
    BY <2>1, <2>2, <2>3 DEF Tick, N
  <2>4. CASE ReadCurrent
    BY <2>1, <2>2, <2>4 DEF ReadCurrent, N
  <2>5. CASE Relock
    BY <2>1, <2>2, <2>5 DEF Relock, N
  <2>. QED
    BY <2>3, <2>4, <2>5
<1>3. TypeOK'
  BY <1>1, <1>2, KeptFrame, Fields, FieldsNext DEF Inv, FieldTypes, DataKept
<1>4. DataInv' /\ BatchInv'
  BY <1>1, KeptFrame
<1>5. FreshInv' /\ ClientInv'
  BY <1>1 DEF Inv, FreshInv, DataKept, ClientInv
<1>6. DeliveryInv'
  BY <1>1, KeptFrame DEF Inv, DeliveryInv, Linked
<1>7. run' = "relock" => None(current', aim)
  <2>. SUFFICES ASSUME run' = "relock" PROVE None(current', aim)
    OBVIOUS
  <2>1. PICK t \in 0 .. N : IsCurrentTarget(t) /\ current' = t
    BY <1>1 DEF Tick, ReadCurrent, Relock, N
  <2>2. ASSUME NEW q \in Owned \ deleted, t < q PROVE FALSE
    BY <2>1, <2>2 DEF IsCurrentTarget, Owned, Retained, N
  <2>. QED
    BY <2>1, <2>2 DEF None, NoneIn
<1>8. run' = "flush" /\ ~ended => None(HandledSeq, aim)
  <2>. SUFFICES ASSUME run' = "flush" PROVE None(HandledSeq, aim)
    OBVIOUS
  <2>1. None(current, aim) /\ current <= HandledSeq
    BY <1>1 DEF Tick, ReadCurrent, Relock, NothingLeft, Inv, StartupInv
  <2>2. current \in Int /\ HandledSeq \in Int /\ \A q \in Owned : q \in Nat
    <3>1. current \in 0 .. N /\ HandledSeq \in 0 .. N /\ N \in Nat /\ Owned \in SUBSET Nat
      BY Basics, Fields DEF Inv, FieldTypes
    <3>. QED
      BY <3>1
  <2>. QED
    BY <2>1, <2>2 DEF None, NoneIn
<1>9. StartupInv'
  <2>1. run' = "relock" => None(current, aim)'
    BY <1>1, <1>7 DEF None, DataKept, Owned, Own
  <2>2. run' = "flush" /\ ~ended' => None(HandledSeq, aim)'
    BY <1>1, <1>8, KeptFrame DEF None, DataKept, Owned, Own
  <2>. QED
    BY <1>1, <2>1, <2>2, KeptFrame DEF Inv, StartupInv
<1>10. FailureInv'
  BY <1>1, KeptFrame DEF Inv, FailureInv, FailedEventsStayOut, DataKept
<1>. QED
  BY <1>3, <1>4, <1>5, <1>6, <1>9, <1>10 DEF Inv

LEMMA EndSteps == ASSUME Inv, ReturnFailed \/ RunFails \/ Shutdown PROVE Inv'
<1>. USE DEF stream, consumer, loop, startup, batches
<1>1. /\ DataKept /\ run' = "returned" /\ ~Consuming' /\ buffer' = << >>
      /\ run \in {"idle", "restore", "consume", "loop"}
      /\ UNCHANGED <<startupTarget, aim, current, previous, handed, restarts, handler, completed>>
      /\ Fail(0) \/ UNCHANGED <<failed, client, ended>>
  BY DEF ReturnFailed, RunFails, Shutdown, DataKept, Consuming
<1>2. /\ failed' \in {NoFailure} \cup 0 .. N /\ (failed' # NoFailure => ended' /\ Known(failed - 1)')
      /\ ended' \in BOOLEAN /\ (ended => ended') /\ (failed = NoFailure \/ failed' # NoFailure)
      /\ client' \in [Clients -> ClientStates] /\ FailedEventsStayOut' /\ ClientInv'
  <2>1. CASE Fail(0)
    <3>1. Known(0 - 1) /\ 0 \in 0 .. N /\ ~(0 > aim) /\ N \in Nat
      <4>1. lastSeq \in Nat /\ aim \in 0 .. N /\ N \in Nat
        BY Fields DEF Inv, FieldTypes
      <4>2. 0 - 1 \in Int /\ 0 - 1 <= lastSeq
        BY <4>1
      <4>. QED
        BY <4>1, <4>2, KnownUpTo DEF Inv
    <3>. QED
      BY <1>1, <2>1, <3>1, FailKeeps
  <2>2. CASE UNCHANGED <<failed, client, ended>>
    <3>1. failed # NoFailure => Known(failed - 1)'
      BY <1>1, <2>2 DEF Inv, FailureInv, Known, DataKept, Owned, Own
    <3>2. failed \in {NoFailure} \cup 0 .. N /\ ended \in BOOLEAN /\ client \in [Clients -> ClientStates]
      BY Fields DEF Inv, FieldTypes
    <3>3. FailedEventsStayOut' /\ ClientInv'
      BY <1>1, <2>2 DEF Inv, FailureInv, FailedEventsStayOut, ClientInv, DataKept
    <3>. QED
      BY <2>2, <3>1, <3>2, <3>3 DEF Inv, FailureInv
  <2>. QED
    BY <1>1, <2>1, <2>2
<1>3. TypeOK'
  <2>1. buffer' \in Seq(1 .. N)
    BY <1>1, EmptySeq
  <2>. QED
    BY <1>1, <1>2, <2>1, KeptFrame, Fields, FieldsNext DEF Inv, FieldTypes, DataKept
<1>4. DataInv' /\ BatchInv'
  BY <1>1, KeptFrame
<1>5. FreshInv'
  BY <1>1 DEF FreshInv
<1>6. DeliveryInv'
  <2>1. Linked'
    BY <1>1, EmptySeq DEF Linked
  <2>. QED
    BY <1>1, <2>1, KeptFrame DEF Inv, DeliveryInv
<1>7. StartupInv'
  <2>1. handler.pc # "idle" /\ ~ended => startupTarget = aim
    BY DEF Inv, StartupInv
  <2>. QED
    BY <1>1, <1>2, <2>1, KeptFrame DEF Inv, StartupInv
<1>8. FailureInv'
  BY <1>1, <1>2, KeptFrame DEF Inv, FailureInv
<1>. QED
  BY <1>2, <1>3, <1>4, <1>5, <1>6, <1>7, <1>8 DEF Inv

----------------------------------------------------------------------------
(* applyEvent.                                                              *)

(* Everything but the projection's data and its startup.                    *)
OthersKept == UNCHANGED <<log, deleted, buffer, handed, run, aim, current, previous, restoredSeq, saved, restarts>>

(* What applyEvent knows of the event it holds.                             *)
LEMMA HeldEvent ==
    ASSUME Inv, Applying, ~Skips(handler.seq)
    PROVE  /\ handler.pc = "apply" /\ failed = NoFailure /\ run # "flush"
           /\ handler.seq \in Owned /\ handler.seq \in 1 .. N
           /\ Frontier < handler.seq /\ None(Frontier, handler.seq - 1)
           /\ Consuming => handed = handler.seq
           /\ run \notin {"idle", "restore", "consume"}
           /\ ~ended => startupTarget = aim
           /\ handler.seq <= startupTarget \/ ~(LiveBatchSize > 0) => liveBatch = << >>
           /\ Seg(0, FlushedState, HandledSeq) /\ FlushedState \in Seq(Owned)
<1>1. /\ handler.pc = "apply" /\ failed = NoFailure /\ run # "flush"
      /\ handler.seq \in Owned /\ Frontier < handler.seq /\ None(Frontier, handler.seq - 1)
      /\ Consuming => handed = handler.seq
      /\ run \notin {"idle", "restore", "consume"}
      /\ ~ended => startupTarget = aim
  BY DEF Applying, Skips, Barrier, Inv, DeliveryInv, FreshInv, StartupInv
<1>2. handler.seq \in 1 .. N
  BY <1>1, Basics, Zenon DEF Inv
<1>3. handler.seq <= startupTarget \/ ~(LiveBatchSize > 0) => liveBatch = << >>
  <2>. SUFFICES ASSUME handler.seq <= startupTarget, liveBatch # << >> PROVE FALSE
    BY DEF Inv, BatchInv
  <2>1. startupTarget < Head(liveBatch) /\ startupBatch = << >>
    BY DEF Inv, BatchInv
  <2>2. Head(liveBatch) <= Frontier /\ Head(liveBatch) \in 1 .. N
    BY <2>1, PendingHead DEF Inv
  <2>3. N \in Nat /\ Frontier \in 0 .. N /\ startupTarget \in 0 .. N
    BY Basics, Fields DEF Inv, FieldTypes
  <2>. QED
    BY <1>1, <1>2, <2>1, <2>2, <2>3
<1>4. Seg(0, FlushedState, HandledSeq)
  <2>1. Owned \in SUBSET Nat /\ lastSeq \in Nat /\ HandledSeq \in Nat
    BY Basics DEF Inv
  <2>. QED
    BY <2>1, SegmentConcat DEF Inv, DataInv, Seg, FlushedState
<1>. QED
  BY <1>1, <1>2, <1>3, <1>4 DEF Seg, Segment

(* The pending event joins a segment that ends at the frontier.             *)
LEMMA Joins ==
    ASSUME Inv, Applying, ~Skips(handler.seq), NEW a \in Nat, NEW s, Seg(a, s, Frontier)
    PROVE  /\ Seg(a, Append(s, handler.seq), handler.seq)
           /\ Append(s, handler.seq) # << >> /\ Last(Append(s, handler.seq)) = handler.seq
           /\ Head(Append(s, handler.seq)) = IF s = << >> THEN handler.seq ELSE Head(s)
<1>1. /\ handler.seq \in Owned /\ Frontier < handler.seq /\ None(Frontier, handler.seq - 1)
      /\ Owned \in SUBSET Nat /\ Frontier \in Nat
  BY HeldEvent, Basics DEF Inv
<1>2. s \in Seq(Owned) /\ Len(s) \in Nat
  BY LenProperties DEF Seg, Segment
<1>3. Append(s, handler.seq) # << >> /\ Last(Append(s, handler.seq)) = handler.seq
  BY <1>1, <1>2 DEF Last
<1>4. Head(Append(s, handler.seq)) = IF s = << >> THEN handler.seq ELSE Head(s)
  <2>1. CASE s = << >>
    BY <2>1
  <2>2. CASE s # << >>
    <3>1. Len(s) > 0
      BY <1>2, <2>2, EmptySeq
    <3>. QED
      BY <1>1, <1>2, <2>2, <3>1
  <2>. QED
    BY <2>1, <2>2
<1>. QED
  BY <1>1, <1>3, <1>4, SegmentAppend DEF Seg, None

(* How applyEvent ends: the event is in the state or in a batch, or it has  *)
(* failed and everything before it is applied.                              *)
LEMMA HandlerEnds ==
    ASSUME Inv, Applying, ~Skips(handler.seq), OthersKept,
           DataInv', BatchInv', ClientInv',
           applied' \in Seq(1 .. N), startupBatch' \in Seq(1 .. N), liveBatch' \in Seq(1 .. N),
           lastSeq' \in 0 .. N, client' \in [Clients -> ClientStates],
           startupTarget' \in 0 .. N, startupTarget' <= aim, ended' \in BOOLEAN, completed' \in BOOLEAN,
           ~ended' => ~ended /\ startupTarget' = startupTarget,
           \A n : Known(n) => Known(n)',
           completed' => completed \/ Known(aim)',
           NEW seq \in 0 .. N,
           \/ /\ handler' = [pc |-> "complete", seq |-> seq]
              /\ Frontier' = handler.seq /\ failed' = failed
           \/ /\ handler' = [pc |-> "fail", seq |-> seq]
              /\ Frontier' <= handler.seq /\ Frontier' \in Nat
              /\ Known(handler.seq - 1)'
              /\ \/ failed' = failed /\ (seq > aim => Frontier' < seq)
                 \/ failed' = seq /\ ended' /\ FailedEventsStayOut'
    PROVE  Inv'
<1>0. /\ handler.pc = "apply" /\ failed = NoFailure /\ run # "flush"
      /\ handler.seq \in 1 .. N
      /\ Consuming => handed = handler.seq
      /\ run \notin {"idle", "restore", "consume"}
      /\ ~ended => startupTarget = aim
      /\ run' = run /\ aim' = aim /\ handed' = handed /\ buffer' = buffer
      /\ Owned' = Owned /\ deleted' = deleted /\ Consuming' = Consuming
      /\ N' = N /\ ClientStates' = ClientStates
  BY HeldEvent DEF OthersKept, Owned, Own, Consuming, N, ClientStates
<1>00. seq \in Int /\ aim \in Nat /\ N \in Nat /\ handler.seq \in Nat
  BY <1>0, Fields DEF Inv, FieldTypes
<1>1. TypeOK'
  <2>1. handler' \in [pc : {"idle", "apply", "undecodable", "fail", "complete"}, seq : 0 .. N]
    OBVIOUS
  <2>2. failed' \in {NoFailure} \cup 0 .. N
    BY Fields DEF Inv, FieldTypes
  <2>. QED
    BY <1>0, <2>1, <2>2, Fields, FieldsNext DEF Inv, FieldTypes, OthersKept
<1>2. FreshInv'
  BY <1>0 DEF FreshInv
<1>3. DeliveryInv'
  <2>1. Linked'
    BY <1>0 DEF Inv, DeliveryInv, Linked, Gap, Retained, OthersKept
  <2>2. Consuming' => Frontier' <= handed'
    BY <1>0, <1>00
  <2>3. handler'.pc = "complete" /\ Consuming' => None(Frontier, handed)'
    <3>. SUFFICES ASSUME handler'.pc = "complete", Consuming PROVE None(Frontier, handed)'
      BY <1>0
    <3>1. Frontier' = handed'
      BY <1>0
    <3>2. Frontier' \in Nat
      BY <1>0, <1>00
    <3>. QED
      BY <1>0, <1>00, <3>1, <3>2 DEF None, NoneIn, Owned, N
  <2>. QED
    BY <1>0, <2>1, <2>2, <2>3 DEF Inv, DeliveryInv
<1>4. StartupInv'
  <2>1. completed => Known(aim)'
    <3>1. PICK k \in Nat : k = aim
      BY <1>00
    <3>2. completed => Known(k)
      BY <3>1 DEF Inv, StartupInv
    <3>3. completed => Known(k)'
      BY <3>2
    <3>4. aim' = k
      BY <1>0, <3>1
    <3>. QED
      BY <3>3, <3>4 DEF Known
  <2>3. run = "relock" => None(current, aim)'
    BY <1>0 DEF Inv, StartupInv, None, OthersKept
  <2>. QED
    BY <1>0, <2>1, <2>3 DEF Inv, StartupInv
<1>5. FailureInv'
  BY <1>0, <1>00, Numbers DEF Inv, FailureInv, FailedEventsStayOut
<1>. QED
  BY <1>1, <1>2, <1>3, <1>4, <1>5 DEF Inv

(* What is known is not forgotten when batches are appended to the state.   *)
LEMMA KnownGrows ==
    ASSUME Inv, UNCHANGED <<log, deleted>>, NEW t \in Seq(Owned),
           applied' \in {applied \o t, FlushedState, FlushedState \o t}
    PROVE  \A n : Known(n) => Known(n)'
<1>. TAKE n
<1>. HAVE Known(n)
<1>1. applied \in Seq(Owned) /\ startupBatch \in Seq(Owned) /\ FlushedState = applied \o startupBatch
      /\ FlushedState \in Seq(Owned)
  <2>1. applied \in Seq(Owned) /\ startupBatch \in Seq(Owned)
    BY Basics DEF Inv
  <2>. QED
    BY <2>1, ConcatProperties DEF FlushedState
<1>2. Covers(Owned, deleted, applied, n)
  BY DEF Known
<1>3. Covers(Owned, deleted, FlushedState, n)
  BY <1>1, <1>2, CoversConcat
<1>4. Covers(Owned, deleted, applied \o t, n) /\ Covers(Owned, deleted, FlushedState \o t, n)
  BY <1>1, <1>2, <1>3, CoversConcat
<1>5. Owned' = Owned
  BY DEF Owned, Own
<1>. QED
  BY <1>3, <1>4, <1>5 DEF Known

(* The segments after a step that works on the projection's data.           *)
LEMMA EndData ==
    ASSUME Inv, UNCHANGED <<log, deleted, restoredSeq, saved>>,
           NEW a \in 0 .. N, NEW b \in 0 .. N, NEW c \in 0 .. N,
           lastSeq' = a, lastSeq <= a, Seg(0, applied', a),
           \/ startupBatch' = << >> /\ b = a
           \/ startupBatch' # << >> /\ Last(startupBatch') = b /\ Seg(a, startupBatch', b),
           \/ liveBatch' = << >> /\ c = b
           \/ liveBatch' # << >> /\ Last(liveBatch') = c /\ Seg(b, liveBatch', c)
    PROVE  /\ DataInv' /\ HandledSeq' = b /\ Frontier' = c
           /\ applied' \in Seq(1 .. N) /\ startupBatch' \in Seq(1 .. N) /\ liveBatch' \in Seq(1 .. N)
<1>0. N \in Nat /\ a \in Nat /\ b \in Nat /\ c \in Nat
  BY Basics DEF Inv
<1>1. \A n \in Nat : Seg(n, << >>, n)
  <2>1. \A n \in Nat : NoneIn(Owned, deleted, n, n)
    BY Basics DEF NoneIn, Inv
  <2>. QED
    BY <2>1, SegmentEmpty DEF Seg
<1>2. HandledSeq' = b /\ Seg(a, startupBatch', b)
  BY <1>0, <1>1 DEF HandledSeq
<1>3. Frontier' = c /\ Seg(b, liveBatch', c)
  BY <1>0, <1>1, <1>2 DEF Frontier
<1>4. restoredSeq \in Nat /\ lastSeq \in Nat /\ restoredSeq <= lastSeq /\ Seg(0, saved.state, saved.cutoff)
  BY <1>0, Fields DEF Inv, DataInv, FieldTypes
<1>5. Owned' = Owned /\ deleted' = deleted
  BY DEF Owned, Own
<1>6. DataInv'
  <2>1. Seg(0, applied, lastSeq)'
    BY <1>5 DEF Seg
  <2>2. Seg(lastSeq, startupBatch, HandledSeq)'
    BY <1>2, <1>5 DEF Seg
  <2>3. Seg(HandledSeq, liveBatch, Frontier)'
    BY <1>2, <1>3, <1>5 DEF Seg
  <2>4. Seg(0, saved.state, saved.cutoff)' /\ restoredSeq' <= lastSeq'
    BY <1>0, <1>4, <1>5 DEF Seg
  <2>. QED
    BY <2>1, <2>2, <2>3, <2>4 DEF DataInv
<1>7. \A s \in Seq(Owned) : s \in Seq(1 .. N)
  BY OwnedSeq DEF Inv, N
<1>. QED
  BY <1>2, <1>3, <1>6, <1>7 DEF Seg, Segment

LEMMA BufferStartupStep == ASSUME Inv, BufferStartup PROVE Inv'
<1>. USE DEF stream, consumer, loop, startup, batches
<1> DEFINE x == handler.seq
<1>1. /\ Applying /\ ~Skips(x) /\ x <= startupTarget /\ startupBatch' = Append(startupBatch, x)
      /\ handler' = [pc |-> "complete", seq |-> 0] /\ OthersKept
      /\ UNCHANGED <<applied, lastSeq, ended, completed, startupTarget, liveBatch, failed, client>>
  BY DEF BufferStartup, ShouldBatchStartup, HandlerTo, OthersKept
<1>2. /\ x \in 1 .. N /\ liveBatch = << >> /\ N \in Nat /\ lastSeq \in 0 .. N /\ Frontier < x
      /\ startupTarget \in 0 .. N /\ aim \in 0 .. N /\ startupTarget <= aim /\ ended \in BOOLEAN /\ completed \in BOOLEAN
      /\ client \in [Clients -> ClientStates]
  BY <1>1, HeldEvent, Fields DEF Inv, FieldTypes, StartupInv
<1>3. Seg(lastSeq, startupBatch, Frontier)
  BY <1>2 DEF Frontier, Inv, DataInv
<1>4. Seg(lastSeq, startupBatch', x) /\ startupBatch' # << >> /\ Last(startupBatch') = x
  BY <1>1, <1>2, <1>3, Joins
<1>5. Seg(0, applied', lastSeq')
  BY <1>1 DEF Inv, DataInv
<1>6. /\ DataInv' /\ HandledSeq' = x /\ Frontier' = x
      /\ applied' \in Seq(1 .. N) /\ startupBatch' \in Seq(1 .. N) /\ liveBatch' \in Seq(1 .. N)
  <2>1. UNCHANGED <<log, deleted, restoredSeq, saved>> /\ lastSeq <= lastSeq' /\ x \in 0 .. N
    BY <1>1, <1>2 DEF OthersKept
  <2>. QED
    BY <1>1, <1>2, <1>4, <1>5, <2>1, EndData
<1>7. BatchInv'
  <2>1. x <= aim /\ aim' = aim
    BY <1>1, <1>2 DEF OthersKept
  <2>. QED
    BY <1>1, <1>2, <1>6, <2>1 DEF BatchInv
<1>8. ClientInv'
  BY <1>1 DEF Inv, ClientInv
<1>9. \A n : Known(n) => Known(n)'
  BY <1>1 DEF Known, OthersKept, Owned, Own
<1>. QED
  <2>1. /\ startupTarget' \in 0 .. N /\ startupTarget' <= aim /\ ended' \in BOOLEAN /\ completed' \in BOOLEAN
        /\ (~ended' => ~ended /\ startupTarget' = startupTarget) /\ (completed' => completed)
    BY <1>1, <1>2
  <2>2. lastSeq' \in 0 .. N /\ client' \in [Clients -> ClientStates] /\ 0 \in 0 .. N
    BY <1>1, <1>2
  <2>3. handler' = [pc |-> "complete", seq |-> 0] /\ Frontier' = handler.seq /\ failed' = failed
    BY <1>1, <1>6
  <2>. QED
    BY <1>1, <1>2, <1>6, <1>7, <1>8, <1>9, <2>1, <2>2, <2>3, HandlerEnds

LEMMA CommitStartupBatchStep == ASSUME Inv, CommitStartupBatch PROVE Inv'
<1>. USE DEF stream, consumer, loop, startup, batches
<1> DEFINE x == handler.seq
<1>1. /\ Applying /\ ~Skips(x) /\ x <= startupTarget /\ startupBatch' = << >>
      /\ applied' = Append(FlushedState, x) /\ Advance(x)
      /\ handler' = [pc |-> "complete", seq |-> 0] /\ OthersKept
      /\ UNCHANGED <<ended, completed, startupTarget, liveBatch, failed>>
  BY DEF CommitStartupBatch, ShouldBatchStartup, HandlerTo, OthersKept
<1>2. /\ x \in 1 .. N /\ x \in Owned /\ liveBatch = << >> /\ N \in Nat /\ lastSeq \in 0 .. N /\ Frontier < x
      /\ startupTarget \in 0 .. N /\ aim \in 0 .. N /\ startupTarget <= aim /\ ended \in BOOLEAN /\ completed \in BOOLEAN
      /\ Frontier = HandledSeq /\ HandledSeq \in 0 .. N /\ lastSeq <= HandledSeq
      /\ Seg(0, FlushedState, HandledSeq) /\ FlushedState \in Seq(Owned)
  BY <1>1, HeldEvent, Fields, Basics DEF Inv, FieldTypes, StartupInv, Frontier
<1>3. Seg(0, applied', x)
  BY <1>1, <1>2, Joins
<1>4. lastSeq' = x /\ lastSeq <= x /\ x \in 0 .. N /\ client' \in [Clients -> ClientStates] /\ ClientInv'
  <2>1. lastSeq <= x /\ x \in 0 .. N
    BY <1>2
  <2>. QED
    BY <1>1, <2>1, AdvanceClients DEF Inv
<1>5. /\ DataInv' /\ HandledSeq' = x /\ Frontier' = x
      /\ applied' \in Seq(1 .. N) /\ startupBatch' \in Seq(1 .. N) /\ liveBatch' \in Seq(1 .. N)
  <2>1. UNCHANGED <<log, deleted, restoredSeq, saved>>
    BY <1>1 DEF OthersKept
  <2>. QED
    BY <1>1, <1>2, <1>3, <1>4, <2>1, EndData
<1>6. BatchInv'
  BY <1>1, <1>2 DEF BatchInv
<1>7. \A n : Known(n) => Known(n)'
  <2>1. <<x>> \in Seq(Owned) /\ applied' = FlushedState \o <<x>> /\ UNCHANGED <<log, deleted>>
    BY <1>1, <1>2 DEF OthersKept
  <2>. QED
    BY <2>1, KnownGrows
<1>. QED
  <2>1. /\ startupTarget' \in 0 .. N /\ startupTarget' <= aim /\ ended' \in BOOLEAN /\ completed' \in BOOLEAN
        /\ (~ended' => ~ended /\ startupTarget' = startupTarget) /\ (completed' => completed)
    BY <1>1, <1>2
  <2>2. lastSeq' \in 0 .. N /\ client' \in [Clients -> ClientStates] /\ 0 \in 0 .. N
    BY <1>2, <1>4
  <2>3. handler' = [pc |-> "complete", seq |-> 0] /\ Frontier' = handler.seq /\ failed' = failed
    BY <1>1, <1>5
  <2>. QED
    BY <1>1, <1>2, <1>4, <1>5, <1>6, <1>7, <2>1, <2>2, <2>3, HandlerEnds

LEMMA ApplyOneStep == ASSUME Inv, ApplyOne PROVE Inv'
<1>. USE DEF stream, consumer, loop, startup, batches
<1> DEFINE x == handler.seq
<1>1. /\ Applying /\ ~Skips(x) /\ ~(LiveBatchSize > 0 /\ x > startupTarget) /\ startupBatch' = << >> /\ OthersKept
      /\ UNCHANGED <<ended, completed, startupTarget, liveBatch, failed>>
      /\ \/ /\ applied' = Append(FlushedState, x) /\ Advance(x)
            /\ handler' = [pc |-> "complete", seq |-> 0]
         \/ /\ applied' = FlushedState /\ Advance(HandledSeq)
            /\ handler' = [pc |-> "fail", seq |-> x]
  BY DEF ApplyOne, GoesLive, HandlerTo, OthersKept, FlushedSeq
<1>2. /\ x \in 1 .. N /\ x \in Owned /\ N \in Nat /\ lastSeq \in 0 .. N /\ Frontier < x /\ None(Frontier, x - 1)
      /\ startupTarget \in 0 .. N /\ aim \in 0 .. N /\ startupTarget <= aim /\ ended \in BOOLEAN /\ completed \in BOOLEAN
      /\ HandledSeq \in 0 .. N /\ lastSeq <= HandledSeq
      /\ Seg(0, FlushedState, HandledSeq) /\ FlushedState \in Seq(Owned)
  BY <1>1, HeldEvent, Fields, Basics DEF Inv, FieldTypes, StartupInv
<1>3. liveBatch = << >> /\ Frontier = HandledSeq
  <2>1. x <= startupTarget \/ ~(LiveBatchSize > 0)
    BY <1>1, <1>2
  <2>. QED
    BY <1>1, <2>1, HeldEvent DEF Frontier
<1>4. /\ startupTarget' \in 0 .. N /\ startupTarget' <= aim /\ ended' \in BOOLEAN /\ completed' \in BOOLEAN
      /\ (~ended' => ~ended /\ startupTarget' = startupTarget) /\ (completed' => completed)
      /\ UNCHANGED <<log, deleted, restoredSeq, saved>>
  BY <1>1, <1>2 DEF OthersKept
<1>5. BatchInv'
  BY <1>1, <1>3 DEF BatchInv
<1>6. CASE applied' = Append(FlushedState, x) /\ Advance(x) /\ handler' = [pc |-> "complete", seq |-> 0]
  <2>1. Seg(0, applied', x)
    BY <1>1, <1>2, <1>3, <1>6, Joins
  <2>2. lastSeq' = x /\ lastSeq <= x /\ x \in 0 .. N /\ client' \in [Clients -> ClientStates] /\ ClientInv'
    <3>1. lastSeq <= x /\ x \in 0 .. N
      BY <1>2, <1>3
    <3>. QED
      BY <1>1, <1>6, <3>1, AdvanceClients DEF Inv
  <2>3. /\ DataInv' /\ HandledSeq' = x /\ Frontier' = x
        /\ applied' \in Seq(1 .. N) /\ startupBatch' \in Seq(1 .. N) /\ liveBatch' \in Seq(1 .. N)
    BY <1>1, <1>3, <1>4, <2>1, <2>2, EndData
  <2>4. \A n : Known(n) => Known(n)'
    <3>1. <<x>> \in Seq(Owned) /\ applied' = FlushedState \o <<x>>
      BY <1>2, <1>6
    <3>. QED
      BY <1>4, <3>1, KnownGrows
  <2>5. lastSeq' \in 0 .. N /\ 0 \in 0 .. N /\ handler' = [pc |-> "complete", seq |-> 0]
        /\ Frontier' = handler.seq /\ failed' = failed
    BY <1>1, <1>2, <1>6, <2>2, <2>3
  <2>. QED
    BY <1>1, <1>4, <1>5, <2>2, <2>3, <2>4, <2>5, HandlerEnds
<1>7. CASE applied' = FlushedState /\ Advance(HandledSeq) /\ handler' = [pc |-> "fail", seq |-> x]
  <2>1. Seg(0, applied', HandledSeq)
    BY <1>2, <1>7
  <2>2. lastSeq' = HandledSeq /\ client' \in [Clients -> ClientStates] /\ ClientInv'
    BY <1>1, <1>2, <1>7, AdvanceClients DEF Inv
  <2>3. /\ DataInv' /\ HandledSeq' = HandledSeq /\ Frontier' = HandledSeq
        /\ applied' \in Seq(1 .. N) /\ startupBatch' \in Seq(1 .. N) /\ liveBatch' \in Seq(1 .. N)
    BY <1>1, <1>2, <1>3, <1>4, <2>1, <2>2, EndData
  <2>4. \A n : Known(n) => Known(n)'
    <3>1. << >> \in Seq(Owned)
      BY EmptySeq
    <3>. QED
      BY <1>4, <1>7, <3>1, KnownGrows
  <2>5. Known(handler.seq - 1)'
    <3>1. x - 1 \in Int /\ HandledSeq \in Nat /\ Owned \in SUBSET (Nat \ {0})
      BY <1>2, Basics DEF Inv
    <3>2. Covers(Owned, deleted, FlushedState, x - 1)
      BY <1>2, <1>3, <3>1, SegmentCovers DEF Seg, None
    <3>3. handler'.seq = x /\ Owned' = Owned /\ deleted' = deleted
      BY <1>4, <1>7 DEF Owned, Own
    <3>. QED
      BY <1>7, <3>2, <3>3 DEF Known
  <2>6. /\ lastSeq' \in 0 .. N /\ x \in 0 .. N /\ handler' = [pc |-> "fail", seq |-> x]
        /\ Frontier' <= handler.seq /\ Frontier' \in Nat /\ failed' = failed /\ (x > aim => Frontier' < x)
    BY <1>1, <1>2, <1>3, <1>7, <2>2, <2>3
  <2>. QED
    BY <1>1, <1>4, <1>5, <2>2, <2>3, <2>4, <2>5, <2>6, HandlerEnds
<1>. QED
  BY <1>1, <1>6, <1>7

(* The batch that fails stays pending; its first event is to be recorded.   *)
LEMMA FailStartupBatchStep == ASSUME Inv, FailStartupBatch PROVE Inv'
<1>. USE DEF stream, consumer, loop, startup, batches
<1> DEFINE x == handler.seq
<1> DEFINE h == Head(startupBatch')
<1>1. /\ Applying /\ ~Skips(x) /\ OthersKept /\ handler' = [pc |-> "fail", seq |-> h]
      /\ UNCHANGED <<applied, lastSeq, ended, completed, startupTarget, liveBatch, failed, client>>
      /\ \/ x <= startupTarget /\ startupBatch' = Append(startupBatch, x)
         \/ startupBatch # << >> /\ startupBatch' = startupBatch
  BY DEF FailStartupBatch, ShouldBatchStartup, HandlerTo, OthersKept
<1>2. /\ x \in 1 .. N /\ N \in Nat /\ lastSeq \in 0 .. N /\ Frontier < x
      /\ startupTarget \in 0 .. N /\ aim \in 0 .. N /\ startupTarget <= aim /\ ended \in BOOLEAN /\ completed \in BOOLEAN
      /\ HandledSeq \in 0 .. N /\ lastSeq <= HandledSeq /\ client \in [Clients -> ClientStates]
      /\ Owned \in SUBSET Nat /\ \A q \in Owned : q \in 1 .. N
  BY <1>1, HeldEvent, Fields, Basics DEF Inv, FieldTypes, StartupInv
<1>3. liveBatch = << >> /\ Frontier = HandledSeq
  <2>1. CASE x <= startupTarget
    BY <1>1, <2>1, HeldEvent DEF Frontier
  <2>2. CASE startupBatch # << >>
    BY <2>2 DEF Inv, BatchInv, Frontier
  <2>. QED
    BY <1>1, <2>1, <2>2
<1>4. PICK b \in 0 .. N : /\ startupBatch' # << >> /\ Last(startupBatch') = b /\ Seg(lastSeq, startupBatch', b)
                          /\ b <= aim /\ b <= x
  <2>1. CASE x <= startupTarget /\ startupBatch' = Append(startupBatch, x)
    <3>1. Seg(lastSeq, startupBatch, Frontier)
      BY <1>3 DEF Inv, DataInv
    <3>2. Seg(lastSeq, startupBatch', x) /\ startupBatch' # << >> /\ Last(startupBatch') = x
      BY <1>1, <1>2, <2>1, <3>1, Joins
    <3>3. x <= aim /\ x \in 0 .. N /\ x <= x
      BY <1>2, <2>1
    <3>. QED
      BY <3>2, <3>3
  <2>2. CASE startupBatch # << >> /\ startupBatch' = startupBatch
    <3>1. Seg(lastSeq, startupBatch, HandledSeq) /\ HandledSeq = Last(startupBatch) /\ HandledSeq <= aim
      BY <2>2 DEF Inv, DataInv, BatchInv, HandledSeq
    <3>2. HandledSeq <= x
      BY <1>2, <1>3
    <3>. QED
      BY <1>2, <2>2, <3>1, <3>2
  <2>. QED
    BY <1>1, <2>1, <2>2
<1>5. /\ h \in Owned /\ lastSeq < h /\ h <= b /\ None(lastSeq, h - 1)
  BY <1>2, <1>4, SegmentHead DEF Seg, None
<1>6. h \in 0 .. N /\ h - 1 \in Int /\ h <= aim
  <2>1. h \in 1 .. N
    BY <1>2, <1>5, Zenon
  <2>. QED
    BY <1>2, <1>4, <1>5, <2>1
<1>7. /\ startupTarget' \in 0 .. N /\ startupTarget' <= aim /\ ended' \in BOOLEAN /\ completed' \in BOOLEAN
      /\ (~ended' => ~ended /\ startupTarget' = startupTarget) /\ (completed' => completed)
      /\ UNCHANGED <<log, deleted, restoredSeq, saved>>
  BY <1>1, <1>2 DEF OthersKept
<1>8. Seg(0, applied', lastSeq')
  BY <1>1 DEF Inv, DataInv
<1>9. /\ DataInv' /\ HandledSeq' = b /\ Frontier' = b
      /\ applied' \in Seq(1 .. N) /\ startupBatch' \in Seq(1 .. N) /\ liveBatch' \in Seq(1 .. N)
  <2>1. lastSeq' = lastSeq /\ lastSeq <= lastSeq
    BY <1>1, <1>2
  <2>. QED
    BY <1>1, <1>2, <1>3, <1>4, <1>7, <1>8, <2>1, EndData
<1>10. BatchInv'
  BY <1>1, <1>3, <1>4, <1>9 DEF BatchInv, OthersKept
<1>11. ClientInv'
  BY <1>1 DEF Inv, ClientInv
<1>12. \A n : Known(n) => Known(n)'
  BY <1>1 DEF Known, OthersKept, Owned, Own
<1>13. Known(handler.seq - 1)'
  <2>1. Covers(Owned, deleted, applied, h - 1)
    BY <1>5, <1>6, KnownUpTo DEF Inv, Known
  <2>2. handler'.seq = h /\ Owned' = Owned /\ deleted' = deleted /\ applied' = applied
    BY <1>1, <1>7 DEF Owned, Own
  <2>. QED
    BY <2>1, <2>2 DEF Known
<1>14. /\ lastSeq' \in 0 .. N /\ client' \in [Clients -> ClientStates] /\ handler' = [pc |-> "fail", seq |-> h]
       /\ Frontier' <= handler.seq /\ Frontier' \in Nat /\ failed' = failed /\ ~(h > aim)
  <2>1. lastSeq' = lastSeq /\ client' = client /\ handler' = [pc |-> "fail", seq |-> h] /\ failed' = failed
    BY <1>1
  <2>2. Frontier' = b /\ b \in Nat /\ b <= handler.seq
    BY <1>2, <1>4, <1>9
  <2>3. ~(h > aim)
    BY <1>2, <1>6
  <2>. QED
    BY <1>2, <2>1, <2>2, <2>3, Zenon
<1>. QED
  BY <1>1, <1>6, <1>7, <1>9, <1>10, <1>11, <1>12, <1>13, <1>14, HandlerEnds

(* The first event past the target: nothing of the startup history is left  *)
(* between the flushed state and the live batch.                            *)
LEMMA LiveStarts ==
    ASSUME Inv, Applying, ~Skips(handler.seq), handler.seq > startupTarget
    PROVE  Covers(Owned, deleted, FlushedState, startupTarget)
<1>1. /\ handler.seq \in 1 .. N /\ None(Frontier, handler.seq - 1) /\ Seg(0, FlushedState, HandledSeq)
      /\ Owned \in SUBSET (Nat \ {0}) /\ HandledSeq \in Nat /\ startupTarget \in Nat /\ N \in Nat
  BY HeldEvent, Basics, Fields DEF Inv, FieldTypes
<1>2. None(HandledSeq, startupTarget)
  <2>1. CASE liveBatch = << >>
    <3>1. Frontier = HandledSeq
      BY <2>1 DEF Frontier
    <3>2. ASSUME NEW q \in Owned \ deleted, HandledSeq < q, q <= startupTarget PROVE FALSE
      <4>1. q \in Nat /\ q <= handler.seq - 1
        BY <1>1, <3>2
      <4>. QED
        BY <1>1, <3>1, <3>2, <4>1 DEF None, NoneIn
    <3>. QED
      BY <3>2 DEF None, NoneIn
  <2>2. CASE liveBatch # << >>
    <3>1. startupTarget < Head(liveBatch)
      BY <2>2 DEF Inv, BatchInv
    <3>2. Head(liveBatch) \in Owned /\ None(HandledSeq, Head(liveBatch) - 1)
      <4>1. Owned \in SUBSET Nat /\ Frontier \in Nat /\ HandledSeq \in Nat
        BY Basics DEF Inv
      <4>. QED
        BY <2>2, <4>1, SegmentHead DEF Inv, DataInv, Seg, None
    <3>3. ASSUME NEW q \in Owned \ deleted, HandledSeq < q, q <= startupTarget PROVE FALSE
      <4>1. q \in Nat /\ Head(liveBatch) \in Nat
        BY <1>1, <3>2
      <4>2. q <= Head(liveBatch) - 1
        BY <1>1, <3>1, <3>3, <4>1
      <4>. QED
        BY <3>2, <3>3, <4>2 DEF None, NoneIn
    <3>. QED
      BY <3>3 DEF None, NoneIn
  <2>. QED
    BY <2>1, <2>2
<1>. QED
  BY <1>1, <1>2, SegmentCovers DEF Seg, None

LEMMA ApplyLiveStep == ASSUME Inv, ApplyLive PROVE Inv'
<1>. USE DEF stream, consumer, loop, startup, batches
<1> DEFINE x == handler.seq
<1> DEFINE l == Append(liveBatch, x)
<1> DEFINE h == Head(l)
<1>1. /\ Applying /\ ~Skips(x) /\ OthersKept /\ LiveBatchSize > 0 /\ x > startupTarget
      /\ startupBatch' = << >> /\ EndStartupBeforeLive
      /\ \/ /\ liveBatch' = l /\ applied' = FlushedState /\ Advance(HandledSeq)
            /\ handler' = [pc |-> "complete", seq |-> 0] /\ failed' = failed
         \/ /\ liveBatch' = << >> /\ applied' = FlushedState \o l /\ Advance(x)
            /\ handler' = [pc |-> "complete", seq |-> 0] /\ failed' = failed
         \/ /\ liveBatch' = l /\ applied' = FlushedState /\ lastSeq' = HandledSeq
            /\ Fail(h) /\ handler' = [pc |-> "fail", seq |-> h]
  BY DEF ApplyLive, GoesLive, HandlerTo, OthersKept, FlushedSeq
<1>2. /\ x \in 1 .. N /\ x \in Owned /\ N \in Nat /\ lastSeq \in 0 .. N /\ Frontier < x /\ failed = NoFailure
      /\ startupTarget \in 0 .. N /\ aim \in 0 .. N /\ startupTarget <= aim /\ ended \in BOOLEAN /\ completed \in BOOLEAN
      /\ (~ended => startupTarget = aim)
      /\ HandledSeq \in 0 .. N /\ lastSeq <= HandledSeq /\ HandledSeq <= Frontier
      /\ Seg(0, FlushedState, HandledSeq) /\ FlushedState \in Seq(Owned)
      /\ Owned \in SUBSET Nat /\ (\A q \in Owned : q \in 1 .. N)
  BY <1>1, HeldEvent, Fields, Basics DEF Inv, FieldTypes, StartupInv
<1>3. /\ startupTarget' \in 0 .. N /\ startupTarget' <= startupTarget /\ ended' = TRUE
      /\ completed' \in BOOLEAN /\ (completed' => completed \/ ~ended)
  <2>1. /\ startupTarget' = IF ~ended /\ HandledSeq < startupTarget THEN HandledSeq ELSE startupTarget
        /\ ended' = (ended \/ (~ended /\ HandledSeq >= startupTarget'))
        /\ completed' = (completed \/ (~ended /\ HandledSeq >= startupTarget'))
    BY <1>1 DEF EndStartupBeforeLive, CompleteStartup, FlushedSeq
  <2>2. startupTarget' \in 0 .. N /\ startupTarget' <= startupTarget /\ (~ended => HandledSeq >= startupTarget')
    BY <1>2, <2>1
  <2>3. ended' = TRUE
    BY <1>2, <2>1, <2>2
  <2>4. completed' \in BOOLEAN /\ (completed' => completed \/ ~ended)
    BY <1>2, <2>1, Zenon
  <2>. QED
    BY <2>2, <2>3, <2>4
<1>4. Seg(HandledSeq, l, x) /\ l # << >> /\ Last(l) = x /\ h = IF liveBatch = << >> THEN x ELSE Head(liveBatch)
  <2>1. Seg(HandledSeq, liveBatch, Frontier) /\ HandledSeq \in Nat
    BY <1>2 DEF Inv, DataInv
  <2>. QED
    BY <1>1, <2>1, Joins
<1>5. h \in 1 .. N /\ HandledSeq < h /\ h <= x /\ None(HandledSeq, h - 1)
  <2>1. h \in Owned /\ HandledSeq < h /\ h <= x /\ None(HandledSeq, h - 1)
    <3>1. Segment(Owned, deleted, HandledSeq, l, x) /\ l # << >> /\ HandledSeq \in Nat /\ x \in Nat /\ Owned \in SUBSET Nat
      BY <1>2, <1>4 DEF Seg
    <3>. HIDE DEF l
    <3>2. Head(l) \in Owned /\ HandledSeq < Head(l) /\ Head(l) <= x /\ NoneIn(Owned, deleted, HandledSeq, Head(l) - 1)
      BY <3>1, SegmentHead
    <3>. QED
      BY <3>2 DEF None
  <2>2. h \in 1 .. N
    BY <1>2, <2>1, Zenon
  <2>. QED
    BY <2>1, <2>2
<1>6. startupTarget' < h
  <2>1. startupTarget < h
    BY <1>1, <1>2, <1>4 DEF Inv, BatchInv
  <2>. QED
    BY <1>2, <1>3, <1>5, <2>1
<1>7. /\ startupTarget' <= aim /\ ended' \in BOOLEAN /\ (~ended' => ~ended /\ startupTarget' = startupTarget)
      /\ UNCHANGED <<log, deleted, restoredSeq, saved>> /\ x \in 0 .. N /\ h \in 0 .. N /\ 0 \in 0 .. N
  <2>1. x \in 0 .. N /\ h \in 0 .. N /\ 0 \in 0 .. N
    BY <1>2, <1>5
  <2>2. UNCHANGED <<log, deleted, restoredSeq, saved>>
    BY <1>1 DEF OthersKept
  <2>. QED
    BY <1>1, <1>2, <1>3, <2>1, <2>2
<1>8. ~ended => Covers(Owned, deleted, FlushedState, aim)
  BY <1>1, <1>2, LiveStarts
<1>9. /\ Owned' = Owned /\ deleted' = deleted /\ aim' = aim /\ LiveBatchSize' = LiveBatchSize
      /\ l \in Seq(Owned) /\ << >> \in Seq(Owned)
  BY <1>1, <1>4, EmptySeq DEF Owned, Own, OthersKept, Seg, Segment, LiveBatchSize
<1>10. CASE liveBatch' = l /\ applied' = FlushedState /\ Advance(HandledSeq)
            /\ handler' = [pc |-> "complete", seq |-> 0] /\ failed' = failed
  <2>1. lastSeq' = HandledSeq /\ client' \in [Clients -> ClientStates] /\ ClientInv'
    BY <1>2, <1>10, AdvanceClients DEF Inv
  <2>2. /\ DataInv' /\ HandledSeq' = HandledSeq /\ Frontier' = x
        /\ applied' \in Seq(1 .. N) /\ startupBatch' \in Seq(1 .. N) /\ liveBatch' \in Seq(1 .. N)
    BY <1>1, <1>2, <1>4, <1>7, <1>10, <2>1, EndData
  <2>3. BatchInv'
    BY <1>1, <1>4, <1>6, <1>9, <1>10 DEF BatchInv
  <2>4. \A n : Known(n) => Known(n)'
    BY <1>7, <1>9, <1>10, KnownGrows
  <2>5. completed' => completed \/ Known(aim)'
    BY <1>3, <1>8, <1>9, <1>10 DEF Known
  <2>6. lastSeq' \in 0 .. N /\ Frontier' = handler.seq
    BY <1>2, <2>1, <2>2
  <2>. QED
    BY <1>1, <1>3, <1>7, <1>10, <2>1, <2>2, <2>3, <2>4, <2>5, <2>6, HandlerEnds
<1>11. CASE liveBatch' = << >> /\ applied' = FlushedState \o l /\ Advance(x)
            /\ handler' = [pc |-> "complete", seq |-> 0] /\ failed' = failed
  <2>0. lastSeq <= x
    <3>1. lastSeq \in Int /\ HandledSeq \in Int /\ Frontier \in Int /\ x \in Int
      BY <1>2, Basics DEF Inv
    <3>. QED
      BY <1>2, <3>1
  <2>1. lastSeq' = x /\ client' \in [Clients -> ClientStates] /\ ClientInv'
    BY <1>7, <1>11, <2>0, AdvanceClients DEF Inv
  <2>2. Seg(0, applied', x)
    <3>1. 0 \in Nat /\ HandledSeq \in Nat /\ x \in Nat
      BY <1>2
    <3>. QED
      BY <1>2, <1>4, <1>11, <3>1, SegmentConcat DEF Seg
  <2>3. /\ DataInv' /\ HandledSeq' = x /\ Frontier' = x
        /\ applied' \in Seq(1 .. N) /\ startupBatch' \in Seq(1 .. N) /\ liveBatch' \in Seq(1 .. N)
    BY <1>1, <1>7, <1>11, <2>0, <2>1, <2>2, EndData
  <2>4. BatchInv'
    BY <1>1, <1>11 DEF BatchInv
  <2>5. \A n : Known(n) => Known(n)'
    BY <1>7, <1>9, <1>11, KnownGrows
  <2>6. completed' => completed \/ Known(aim)'
    <3>1. ~ended => Covers(Owned, deleted, FlushedState \o l, aim)
      BY <1>2, <1>8, <1>9, CoversConcat
    <3>. QED
      BY <1>3, <1>9, <1>11, <3>1 DEF Known
  <2>7. lastSeq' \in 0 .. N /\ Frontier' = handler.seq
    BY <1>7, <2>1, <2>3
  <2>. QED
    BY <1>1, <1>3, <1>7, <1>11, <2>1, <2>3, <2>4, <2>5, <2>6, <2>7, HandlerEnds
<1>12. CASE liveBatch' = l /\ applied' = FlushedState /\ lastSeq' = HandledSeq
            /\ Fail(h) /\ handler' = [pc |-> "fail", seq |-> h]
  <2>1. /\ failed' = h /\ client' \in [Clients -> ClientStates] /\ ClientInv'
    <3>1. lastSeq' \in Int /\ lastSeq <= lastSeq'
      BY <1>2, <1>12
    <3>. QED
      BY <1>2, <1>7, <1>12, <3>1, FailClients DEF Inv, Fail
  <2>2. /\ DataInv' /\ HandledSeq' = HandledSeq /\ Frontier' = x
        /\ applied' \in Seq(1 .. N) /\ startupBatch' \in Seq(1 .. N) /\ liveBatch' \in Seq(1 .. N)
    BY <1>1, <1>2, <1>4, <1>7, <1>12, EndData
  <2>3. BatchInv'
    BY <1>1, <1>4, <1>6, <1>9, <1>12 DEF BatchInv
  <2>4. \A n : Known(n) => Known(n)'
    BY <1>7, <1>9, <1>12, KnownGrows
  <2>5. completed' => completed \/ Known(aim)'
    BY <1>3, <1>8, <1>9, <1>12 DEF Known
  <2>6. Known(handler.seq - 1)'
    <3>1. h - 1 \in Int /\ HandledSeq \in Nat /\ Owned \in SUBSET (Nat \ {0})
      BY <1>2, <1>5, Basics DEF Inv
    <3>2. Covers(Owned, deleted, FlushedState, h - 1)
      BY <1>2, <1>5, <3>1, SegmentCovers DEF Seg, None
    <3>3. handler'.seq = h
      BY <1>12
    <3>. QED
      BY <1>9, <1>12, <3>2, <3>3 DEF Known
  <2>7. FailedEventsStayOut'
    <3>1. ASSUME NEW i \in 1 .. Len(FlushedState) PROVE FlushedState[i] < h
      <4>1. FlushedState[i] <= HandledSeq
        BY <1>2 DEF Seg, Segment
      <4>2. FlushedState[i] \in Owned
        BY <1>2, ElementOfSeq
      <4>3. FlushedState[i] \in 1 .. N
        BY <1>2, <4>2, Zenon
      <4>4. FlushedState[i] \in Int /\ HandledSeq \in Int /\ h \in Int
        <5>1. N \in Nat /\ HandledSeq \in 0 .. N /\ h \in 1 .. N
          BY <1>2, <1>5
        <5>. QED
          BY <4>3, <5>1
      <4>. QED
        BY <1>5, <4>1, <4>4
    <3>. QED
      BY <1>12, <2>1, <3>1 DEF FailedEventsStayOut
  <2>8. lastSeq' \in 0 .. N /\ Frontier' <= handler.seq /\ Frontier' \in Nat /\ ended'
    BY <1>2, <1>3, <1>12, <2>2
  <2>. QED
    BY <1>1, <1>3, <1>7, <1>12, <2>1, <2>2, <2>3, <2>4, <2>5, <2>6, <2>7, <2>8, HandlerEnds
<1>. QED
  BY <1>1, <1>10, <1>11, <1>12

----------------------------------------------------------------------------
(* Run's flushes.                                                           *)

LEMMA LiveTickStep == ASSUME Inv, LiveTick PROVE Inv'
<1>. USE DEF stream, consumer, loop, startup, batches
<1>1. /\ run = "loop" /\ run' = "complete" /\ liveBatch # << >> /\ Consuming /\ Consuming'
      /\ UNCHANGED <<log, deleted, buffer, handed, aim, current, previous, handler, restoredSeq, startupTarget,
                     completed, startupBatch, saved, restarts>>
      /\ \/ UNCHANGED <<applied, lastSeq, ended, liveBatch, failed, client>>
         \/ /\ failed = NoFailure /\ applied' = applied \o liveBatch /\ liveBatch' = << >>
            /\ Advance(Last(liveBatch)) /\ UNCHANGED <<ended, failed>>
         \/ /\ failed = NoFailure /\ Fail(Head(liveBatch)) /\ UNCHANGED <<applied, lastSeq, liveBatch>>
  BY DEF LiveTick, MayFlushLive, Consuming
<1>2. /\ N \in Nat /\ aim \in 0 .. N /\ lastSeq \in 0 .. N /\ Frontier \in 0 .. N
      /\ startupBatch = << >> /\ HandledSeq = lastSeq /\ Last(liveBatch) = Frontier /\ lastSeq <= Frontier
      /\ Owned \in SUBSET Nat /\ liveBatch \in Seq(Owned)
  BY <1>1, Basics, Fields DEF Inv, FieldTypes, BatchInv, HandledSeq
<1>3. N' = N /\ ClientStates' = ClientStates /\ Owned' = Owned /\ (\A a, b : None(a, b)' = None(a, b))
      /\ \A a, b : Gap(a, b)' = Gap(a, b)
  BY <1>1 DEF N, ClientStates, Owned, Own, None, Gap, Retained
<1>4. CASE UNCHANGED <<applied, lastSeq, ended, liveBatch, failed, client>>
  <2>1. DataKept
    BY <1>1, <1>4 DEF DataKept
  <2>2. TypeOK'
    BY <1>1, <1>4, <2>1, KeptFrame, Fields, FieldsNext DEF Inv, FieldTypes, DataKept
  <2>3. DataInv' /\ BatchInv' /\ FreshInv' /\ ClientInv'
    BY <1>1, <1>4, <2>1, KeptFrame DEF Inv, FreshInv, ClientInv
  <2>4. DeliveryInv' /\ StartupInv'
    BY <1>1, <1>4, <2>1, KeptFrame DEF Inv, DeliveryInv, StartupInv, Linked
  <2>5. FailureInv'
    BY <1>1, <1>4, <2>1, KeptFrame DEF Inv, FailureInv, FailedEventsStayOut
  <2>. QED
    BY <2>2, <2>3, <2>4, <2>5 DEF Inv
<1>5. CASE /\ failed = NoFailure /\ applied' = applied \o liveBatch /\ liveBatch' = << >>
           /\ Advance(Last(liveBatch)) /\ UNCHANGED <<ended, failed>>
  <2>1. lastSeq' = Frontier /\ client' \in [Clients -> ClientStates] /\ ClientInv'
    BY <1>2, <1>5, AdvanceClients DEF Inv
  <2>2. Seg(0, applied', Frontier)
    <3>1. lastSeq \in Nat /\ Frontier \in Nat /\ 0 \in Nat
      BY <1>2
    <3>2. Segment(Owned, deleted, 0, applied, lastSeq) /\ Segment(Owned, deleted, lastSeq, liveBatch, Frontier)
      BY <1>2 DEF Inv, DataInv, Seg
    <3>. QED
      BY <1>2, <1>5, <3>1, <3>2, SegmentConcat DEF Seg
  <2>3. /\ DataInv' /\ HandledSeq' = Frontier /\ Frontier' = Frontier
        /\ applied' \in Seq(1 .. N) /\ startupBatch' \in Seq(1 .. N) /\ liveBatch' \in Seq(1 .. N)
    BY <1>1, <1>2, <1>5, <2>1, <2>2, EndData
  <2>4. \A n : Known(n) => Known(n)'
    BY <1>1, <1>2, <1>5, KnownGrows
  <2>5. TypeOK'
    BY <1>1, <1>2, <1>3, <1>5, <2>1, <2>3, Fields, FieldsNext DEF Inv, FieldTypes
  <2>6. BatchInv' /\ FreshInv'
    BY <1>1, <1>2, <1>5 DEF BatchInv, FreshInv
  <2>7. DeliveryInv'
    BY <1>1, <1>3, <1>5, <2>3 DEF Inv, DeliveryInv, Linked
  <2>8. StartupInv'
    <3>1. PICK k \in 0 .. N : k = aim
      BY <1>2
    <3>2. completed => Known(k)'
      BY <2>4, <3>1 DEF Inv, StartupInv
    <3>3. completed => Known(aim)'
      BY <1>1, <3>1, <3>2 DEF Known
    <3>. QED
      BY <1>1, <1>5, <3>3 DEF Inv, StartupInv
  <2>9. FailureInv'
    <3>1. PICK k : k = handler.seq - 1
      OBVIOUS
    <3>2. handler.pc = "fail" => Known(k)'
      BY <2>4, <3>1 DEF Inv, FailureInv
    <3>3. handler.pc = "fail" => Known(handler.seq - 1)'
      BY <1>1, <3>1, <3>2 DEF Known
    <3>4. ~(failed' > aim')
      BY <1>1, <1>2, <1>5, Numbers
    <3>5. handler.pc = "fail" /\ handler.seq > aim => Frontier < handler.seq
      BY <1>5 DEF Inv, FailureInv
    <3>. QED
      BY <1>1, <1>5, <2>3, <3>3, <3>4, <3>5 DEF FailureInv, FailedEventsStayOut
  <2>. QED
    BY <2>1, <2>3, <2>5, <2>6, <2>7, <2>8, <2>9 DEF Inv
<1>6. CASE failed = NoFailure /\ Fail(Head(liveBatch)) /\ UNCHANGED <<applied, lastSeq, liveBatch>>
  <2>1. DataKept
    BY <1>1, <1>6 DEF DataKept
  <2>2. /\ failed' \in {NoFailure} \cup 0 .. N /\ failed' # NoFailure /\ ended' = TRUE
        /\ client' \in [Clients -> ClientStates]
        /\ Known(failed - 1)' /\ FailedEventsStayOut' /\ ClientInv'
    <3>1. Head(liveBatch) \in 0 .. N /\ Known(Head(liveBatch) - 1) /\ lastSeq < Head(liveBatch)
      BY <1>1, <1>2, PendingHead DEF Inv
    <3>. QED
      BY <1>1, <1>6, <2>1, <3>1, FailKeeps
  <2>3. TypeOK'
    BY <1>1, <1>6, <2>1, <2>2, KeptFrame, Fields, FieldsNext DEF Inv, FieldTypes, DataKept
  <2>4. DataInv' /\ BatchInv' /\ FreshInv'
    BY <1>1, <2>1, KeptFrame DEF FreshInv
  <2>5. DeliveryInv' /\ StartupInv'
    BY <1>1, <2>1, <2>2, KeptFrame DEF Inv, DeliveryInv, StartupInv, Linked
  <2>6. FailureInv'
    BY <1>1, <2>1, <2>2, KeptFrame DEF Inv, FailureInv
  <2>. QED
    BY <2>2, <2>3, <2>4, <2>5, <2>6 DEF Inv
<1>. QED
  BY <1>1, <1>4, <1>5, <1>6

LEMMA FlushStep == ASSUME Inv, Flush PROVE Inv'
<1>. USE DEF stream, consumer, loop, startup, batches
<1>1. /\ run = "flush" /\ run' = "loop" /\ Consuming /\ Consuming' /\ previous' = HandledSeq
      /\ UNCHANGED <<log, deleted, buffer, handed, aim, current, handler, restoredSeq, liveBatch, saved, restarts>>
      /\ \/ /\ applied' = FlushedState /\ startupBatch' = << >> /\ Advance(HandledSeq) /\ failed' = failed
            /\ startupTarget' = IF startupTarget > HandledSeq THEN HandledSeq ELSE startupTarget
            /\ CompleteStartup(startupTarget', HandledSeq)
         \/ /\ startupBatch # << >> /\ Fail(Head(startupBatch))
            /\ UNCHANGED <<applied, lastSeq, startupTarget, completed, startupBatch>>
  BY DEF Flush, FlushedSeq, Consuming
<1>2. /\ N \in Nat /\ aim \in 0 .. N /\ lastSeq \in 0 .. N /\ Frontier \in 0 .. N /\ HandledSeq \in 0 .. N
      /\ startupTarget \in 0 .. N /\ startupTarget <= aim /\ ended \in BOOLEAN /\ completed \in BOOLEAN
      /\ lastSeq <= HandledSeq /\ HandledSeq <= Frontier
      /\ Owned \in SUBSET (Nat \ {0}) /\ (\A q \in Owned : q \in 1 .. N)
      /\ applied \in Seq(Owned) /\ startupBatch \in Seq(Owned)
  BY <1>1, Basics, Fields DEF Inv, FieldTypes, StartupInv
<1>3. N' = N /\ ClientStates' = ClientStates /\ Owned' = Owned /\ (\A a, b : None(a, b)' = None(a, b))
      /\ \A a, b : Gap(a, b)' = Gap(a, b)
  BY <1>1 DEF N, ClientStates, Owned, Own, None, Gap, Retained
<1>4. previous' \in {NoHandled} \cup 0 .. N
  BY <1>1, <1>2
<1>5. CASE /\ applied' = FlushedState /\ startupBatch' = << >> /\ Advance(HandledSeq) /\ failed' = failed
           /\ startupTarget' = IF startupTarget > HandledSeq THEN HandledSeq ELSE startupTarget
           /\ CompleteStartup(startupTarget', HandledSeq)
  <2>1. /\ startupTarget' \in 0 .. N /\ startupTarget' <= startupTarget /\ ended' = TRUE
        /\ completed' \in BOOLEAN /\ (completed' => completed \/ ~ended)
    <3>1. /\ ended' = (ended \/ (~ended /\ HandledSeq >= startupTarget'))
          /\ completed' = (completed \/ (~ended /\ HandledSeq >= startupTarget'))
      BY <1>5 DEF CompleteStartup
    <3>2. startupTarget' \in 0 .. N /\ startupTarget' <= startupTarget /\ HandledSeq >= startupTarget'
      BY <1>2, <1>5
    <3>3. ended' = TRUE
      BY <1>2, <3>1, <3>2
    <3>4. completed' \in BOOLEAN /\ (completed' => completed \/ ~ended)
      BY <1>2, <3>1, Zenon
    <3>. QED
      BY <3>2, <3>3, <3>4
  <2>2. lastSeq' = HandledSeq /\ client' \in [Clients -> ClientStates] /\ ClientInv'
    BY <1>2, <1>5, AdvanceClients DEF Inv
  <2>3. Seg(0, applied', HandledSeq)
    <3>1. lastSeq \in Nat /\ HandledSeq \in Nat /\ 0 \in Nat /\ Owned \in SUBSET Nat
      BY <1>2
    <3>. QED
      BY <1>5, <3>1, SegmentConcat DEF Inv, DataInv, Seg, FlushedState
  <2>4. \/ liveBatch' = << >> /\ Frontier = HandledSeq
        \/ liveBatch' # << >> /\ Last(liveBatch') = Frontier /\ Seg(HandledSeq, liveBatch', Frontier)
    BY <1>1 DEF Frontier, Inv, DataInv
  <2>5. /\ DataInv' /\ HandledSeq' = HandledSeq /\ Frontier' = Frontier
        /\ applied' \in Seq(1 .. N) /\ startupBatch' \in Seq(1 .. N) /\ liveBatch' \in Seq(1 .. N)
    BY <1>1, <1>2, <1>5, <2>2, <2>3, <2>4, EndData
  <2>6. \A n : Known(n) => Known(n)'
    <3>1. << >> \in Seq(Owned)
      BY EmptySeq
    <3>. QED
      BY <1>1, <1>5, <3>1, KnownGrows
  <2>7. TypeOK'
    BY <1>1, <1>2, <1>3, <1>4, <1>5, <2>1, <2>2, <2>5, Fields, FieldsNext DEF Inv, FieldTypes
  <2>8. BatchInv'
    <3>1. ASSUME liveBatch # << >> PROVE startupTarget' < Head(liveBatch) /\ LiveBatchSize > 0
      <4>1. startupTarget < Head(liveBatch) /\ LiveBatchSize > 0 /\ startupBatch = << >>
        BY <3>1 DEF Inv, BatchInv
      <4>2. Head(liveBatch) \in 1 .. N
        BY <3>1, <4>1, PendingHead DEF Inv
      <4>. QED
        BY <1>2, <2>1, <4>1, <4>2
    <3>. QED
      BY <1>1, <1>5, <3>1 DEF BatchInv, LiveBatchSize
  <2>9. FreshInv'
    BY <1>1 DEF FreshInv
  <2>10. DeliveryInv'
    BY <1>1, <1>3, <1>5, <2>5 DEF Inv, DeliveryInv, Linked
  <2>11. StartupInv'
    <3>1. PICK k \in 0 .. N : k = aim
      BY <1>2
    <3>2. completed => Known(k)'
      BY <2>6, <3>1 DEF Inv, StartupInv
    <3>3. completed => Known(aim)'
      BY <1>1, <3>1, <3>2 DEF Known
    <3>4. ~ended => Known(aim)'
      <4>1. ~ended => None(HandledSeq, aim)
        BY <1>1 DEF Inv, StartupInv
      <4>2. ~ended => Covers(Owned, deleted, FlushedState, aim)
        <5>1. aim \in Int /\ HandledSeq \in Nat
          BY <1>2
        <5>. QED
          BY <1>2, <1>5, <2>3, <4>1, <5>1, SegmentCovers DEF Seg, None
      <4>. QED
        BY <1>1, <1>3, <1>5, <4>2 DEF Known
    <3>5. completed' => Known(aim)'
      BY <2>1, <3>3, <3>4
    <3>6. startupTarget' <= aim'
      BY <1>1, <1>2, <2>1
    <3>. QED
      BY <1>1, <2>1, <3>5, <3>6 DEF StartupInv
  <2>12. FailureInv'
    <3>1. PICK k : k = handler.seq - 1
      OBVIOUS
    <3>2. handler.pc = "fail" => Known(k)'
      BY <2>6, <3>1 DEF Inv, FailureInv
    <3>3. handler.pc = "fail" => Known(handler.seq - 1)'
      BY <1>1, <3>1, <3>2 DEF Known
    <3>4. PICK f : f = failed - 1
      OBVIOUS
    <3>5. failed # NoFailure => Known(f)'
      BY <2>6, <3>4 DEF Inv, FailureInv
    <3>6. failed # NoFailure => Known(failed - 1)'
      BY <1>5, <3>4, <3>5 DEF Known
    <3>7. FailedEventsStayOut'
      <4>. SUFFICES ASSUME failed > aim, NEW i \in 1 .. Len(FlushedState) PROVE FlushedState[i] < failed
        BY <1>1, <1>5 DEF FailedEventsStayOut
      <4>1. Len(applied) \in Nat /\ Len(startupBatch) \in Nat /\ Len(FlushedState) = Len(applied) + Len(startupBatch)
        BY <1>2, LenProperties, ConcatProperties DEF FlushedState
      <4>2. CASE i <= Len(applied)
        <5>1. FlushedState[i] = applied[i] /\ i \in 1 .. Len(applied)
          BY <1>2, <4>1, <4>2, ConcatProperties DEF FlushedState
        <5>. QED
          BY <5>1 DEF Inv, FailureInv, FailedEventsStayOut
      <4>3. CASE i > Len(applied)
        <5>1. FlushedState[i] = startupBatch[i - Len(applied)] /\ i - Len(applied) \in 1 .. Len(startupBatch)
          BY <1>2, <4>1, <4>3, ConcatProperties DEF FlushedState
        <5>2. startupBatch # << >>
          BY <5>1, EmptySeq
        <5>3. startupBatch[i - Len(applied)] <= HandledSeq /\ HandledSeq <= aim
          BY <5>1, <5>2 DEF Inv, DataInv, Seg, Segment, BatchInv
        <5>4. startupBatch[i - Len(applied)] \in Owned
          BY <1>2, <5>1, ElementOfSeq
        <5>5. startupBatch[i - Len(applied)] \in 1 .. N
          BY <1>2, <5>4, Zenon
        <5>6. failed \in Int
          BY <1>2, Fields, Numbers DEF Inv, FieldTypes
        <5>. QED
          BY <1>2, <5>1, <5>3, <5>5, <5>6
      <4>. QED
        BY <4>1, <4>2, <4>3
    <3>. QED
      BY <1>1, <1>5, <2>1, <2>5, <3>3, <3>6, <3>7 DEF Inv, FailureInv
  <2>. QED
    BY <2>2, <2>5, <2>7, <2>8, <2>9, <2>10, <2>11, <2>12 DEF Inv
<1>6. CASE /\ startupBatch # << >> /\ Fail(Head(startupBatch))
           /\ UNCHANGED <<applied, lastSeq, startupTarget, completed, startupBatch>>
  <2>1. DataKept
    BY <1>1, <1>6 DEF DataKept
  <2>2. /\ failed' \in {NoFailure} \cup 0 .. N /\ failed' # NoFailure /\ ended' = TRUE
        /\ client' \in [Clients -> ClientStates]
        /\ Known(failed - 1)' /\ FailedEventsStayOut' /\ ClientInv'
    <3>1. Head(startupBatch) \in 0 .. N /\ Known(Head(startupBatch) - 1) /\ lastSeq < Head(startupBatch)
      BY <1>6, PendingHead DEF Inv
    <3>. QED
      BY <1>1, <1>6, <2>1, <3>1, FailKeeps
  <2>3. TypeOK'
    BY <1>1, <1>4, <1>6, <2>1, <2>2, KeptFrame, Fields, FieldsNext DEF Inv, FieldTypes, DataKept
  <2>4. DataInv' /\ BatchInv' /\ FreshInv'
    BY <1>1, <1>6, <2>1, KeptFrame DEF FreshInv
  <2>5. DeliveryInv' /\ StartupInv'
    BY <1>1, <1>6, <2>1, <2>2, KeptFrame DEF Inv, DeliveryInv, StartupInv, Linked
  <2>6. FailureInv'
    BY <1>1, <2>1, <2>2, KeptFrame DEF Inv, FailureInv
  <2>. QED
    BY <2>2, <2>3, <2>4, <2>5, <2>6 DEF Inv
<1>. QED
  BY <1>1, <1>5, <1>6

----------------------------------------------------------------------------
(* Restoring and saving.                                                    *)

LEMMA EmptySegment == ASSUME Inv, NEW n \in Nat PROVE Seg(n, << >>, n)
<1>1. NoneIn(Owned, deleted, n, n)
  BY Basics DEF NoneIn, Inv
<1>. QED
  BY <1>1, SegmentEmpty DEF Seg

(* Run has just begun: the new state is all that changes.                   *)
LEMMA RestoreSteps == ASSUME Inv, ColdReplay \/ RestoreSaved PROVE Inv'
<1>. USE DEF stream, consumer, loop, startup, batches
<1>1. /\ run = "restore" /\ run' = "consume" /\ startupTarget' = aim
      /\ UNCHANGED <<log, deleted, buffer, handed, aim, current, previous, handler, ended, completed,
                     startupBatch, liveBatch, failed, restarts>>
      /\ \/ applied' = << >> /\ lastSeq' = 0 /\ restoredSeq' = 0 /\ client' = client /\ saved' \in {saved, NoSave}
         \/ applied' = saved.state /\ restoredSeq' = saved.cutoff /\ Advance(saved.cutoff) /\ saved' = saved
  BY DEF ColdReplay, RestoreSaved
<1>2. /\ startupBatch = << >> /\ liveBatch = << >> /\ handler.pc = "idle" /\ ~ended /\ ~completed
      /\ failed = NoFailure /\ lastSeq = 0 /\ buffer = << >>
  BY <1>1 DEF Inv, FreshInv, DeliveryInv, Consuming
<1>3. /\ N \in Nat /\ aim \in 0 .. N /\ saved.cutoff \in 0 .. N /\ saved.state \in Seq(1 .. N)
      /\ saved \in [kind : Kinds, cutoff : 0 .. N, state : Seq(1 .. N)] /\ client \in [Clients -> ClientStates]
  BY Fields DEF Inv, FieldTypes
<1>4. /\ saved' \in [kind : Kinds, cutoff : 0 .. N, state : Seq(1 .. N)] /\ Seg(0, saved'.state, saved'.cutoff)
  <2>1. CASE saved' = saved
    BY <1>3, <2>1 DEF Inv, DataInv
  <2>2. CASE saved' = NoSave
    <3>1. << >> \in Seq(1 .. N) /\ 0 \in 0 .. N /\ Seg(0, << >>, 0)
      BY <1>3, EmptySeq, EmptySegment
    <3>. QED
      BY <1>3, <2>2, <3>1 DEF NoSave, Save
  <2>. QED
    BY <1>1, <2>1, <2>2
<1>5. PICK k \in 0 .. N : /\ lastSeq' = k /\ restoredSeq' = k /\ Seg(0, applied', k) /\ applied' \in Seq(1 .. N)
                          /\ client' \in [Clients -> ClientStates] /\ ClientInv'
  <2>1. CASE applied' = << >> /\ lastSeq' = 0 /\ restoredSeq' = 0 /\ client' = client
    <3>1. << >> \in Seq(1 .. N) /\ 0 \in 0 .. N /\ Seg(0, << >>, 0)
      BY <1>3, EmptySeq, EmptySegment
    <3>2. ClientInv'
      BY <1>1, <1>2, <2>1 DEF Inv, ClientInv
    <3>. QED
      BY <1>3, <2>1, <3>1, <3>2
  <2>2. CASE applied' = saved.state /\ restoredSeq' = saved.cutoff /\ Advance(saved.cutoff)
    <3>1. lastSeq' = saved.cutoff /\ client' \in [Clients -> ClientStates] /\ ClientInv'
      BY <1>1, <1>2, <1>3, <2>2, AdvanceClients DEF Inv
    <3>2. Seg(0, saved.state, saved.cutoff)
      BY DEF Inv, DataInv
    <3>. QED
      BY <1>3, <2>2, <3>1, <3>2
  <2>. QED
    BY <1>1, <2>1, <2>2
<1>6. N' = N /\ ClientStates' = ClientStates /\ Owned' = Owned
  BY <1>1 DEF N, ClientStates, Owned, Own
<1>7. TypeOK'
  BY <1>1, <1>3, <1>4, <1>5, <1>6, Fields, FieldsNext DEF Inv, FieldTypes
<1>8. DataInv'
  <2>1. HandledSeq' = k /\ Frontier' = k
    BY <1>1, <1>2, <1>5 DEF HandledSeq, Frontier
  <2>2. Seg(k, << >>, k) /\ k \in Nat
    BY <1>3, EmptySegment
  <2>. QED
    BY <1>1, <1>2, <1>4, <1>5, <1>6, <2>1, <2>2 DEF DataInv, Seg
<1>9. BatchInv' /\ FreshInv'
  BY <1>1, <1>2, <1>5 DEF BatchInv, FreshInv
<1>10. DeliveryInv'
  BY <1>1, <1>2, EmptySeq DEF DeliveryInv, Linked, Consuming
<1>11. StartupInv'
  BY <1>1, <1>2, <1>3 DEF StartupInv, Consuming
<1>12. FailureInv'
  BY <1>1, <1>2, <1>3, Numbers DEF FailureInv, FailedEventsStayOut
<1>. QED
  BY <1>5, <1>7, <1>8, <1>9, <1>10, <1>11, <1>12 DEF Inv

LEMMA CaptureStep == ASSUME Inv, CaptureSnapshot PROVE Inv'
<1>. USE DEF stream, consumer, loop, startup, batches
<1>1. /\ saved' = [kind |-> saved.kind, cutoff |-> lastSeq, state |-> applied]
      /\ UNCHANGED <<log, deleted, buffer, handed, run, aim, current, previous, handler, applied, lastSeq, restoredSeq,
                     startupTarget, ended, completed, startupBatch, liveBatch, failed, client, restarts>>
  BY DEF CaptureSnapshot, Save
<1>2. /\ N' = N /\ ClientStates' = ClientStates /\ Owned' = Owned /\ HandledSeq' = HandledSeq /\ Frontier' = Frontier
      /\ (\A a, b : None(a, b)' = None(a, b)) /\ (\A n : Known(n)' = Known(n))
  BY <1>1 DEF N, ClientStates, Owned, Own, HandledSeq, Frontier, None, Known
<1>3. TypeOK'
  <2>1. saved' \in [kind : Kinds, cutoff : 0 .. N, state : Seq(1 .. N)]
    BY <1>1, Fields DEF Inv, FieldTypes
  <2>. QED
    BY <1>1, <1>2, <2>1, Fields, FieldsNext DEF Inv, FieldTypes
<1>4. DataInv'
  BY <1>1, <1>2 DEF Inv, DataInv, Seg
<1>5. BatchInv' /\ FreshInv' /\ ClientInv'
  BY <1>1, <1>2 DEF Inv, BatchInv, FreshInv, ClientInv, LiveBatchSize
<1>6. DeliveryInv'
  BY <1>1, <1>2 DEF Inv, DeliveryInv, Linked, Gap, Retained, Consuming
<1>7. StartupInv'
  BY <1>1, <1>2 DEF Inv, StartupInv, Consuming
<1>8. FailureInv'
  BY <1>1, <1>2 DEF Inv, FailureInv, FailedEventsStayOut
<1>. QED
  BY <1>3, <1>4, <1>5, <1>6, <1>7, <1>8 DEF Inv

(* Only the stream and what was saved survive.                              *)
LEMMA RestartStep == ASSUME Inv, Restart PROVE Inv'
<1>. USE DEF stream
<1>1. /\ restarts < MaxRestarts /\ restarts' = restarts + 1 /\ log' = log /\ deleted' = deleted
      /\ saved' = (IF RestoreMode = "checkpoint" /\ lastSeq > 0 THEN Save(lastSeq, applied) ELSE saved)
      /\ buffer' = << >> /\ handed' = 0 /\ run' = "idle" /\ aim' = 0 /\ current' = 0 /\ previous' = NoHandled
      /\ handler' = Idle /\ applied' = << >> /\ lastSeq' = 0 /\ restoredSeq' = 0
      /\ startupTarget' = 0 /\ ended' = FALSE /\ completed' = FALSE
      /\ startupBatch' = << >> /\ liveBatch' = << >> /\ failed' = NoFailure
      /\ client' = [c \in Clients |-> Idle]
  BY DEF Restart
<1>2. N' = N /\ ClientStates' = ClientStates /\ Owned' = Owned /\ N \in Nat /\ 0 \in 0 .. N
      /\ \A S : << >> \in Seq(S)
  BY <1>1, Fields, EmptySeq DEF N, ClientStates, Owned, Own, Inv, FieldTypes
<1>3. saved' \in [kind : Kinds, cutoff : 0 .. N, state : Seq(1 .. N)] /\ Seg(0, saved'.state, saved'.cutoff)
  <2>1. CASE saved' = saved
    BY <2>1, Fields DEF Inv, DataInv, FieldTypes
  <2>2. CASE saved' = [kind |-> saved.kind, cutoff |-> lastSeq, state |-> applied]
    BY <2>2, Fields DEF Inv, DataInv, FieldTypes
  <2>. QED
    BY <1>1, <2>1, <2>2 DEF Save
<1>4. TypeOK'
  <2>1. client' \in [Clients -> ClientStates] /\ handler' \in [pc : {"idle", "apply", "undecodable", "fail", "complete"}, seq : 0 .. N]
    BY <1>1, <1>2 DEF ClientStates, Idle
  <2>2. restarts' \in 0 .. MaxRestarts
    <3>1. restarts \in 0 .. MaxRestarts /\ MaxRestarts \in Nat
      BY Fields, ProjectorAssumption DEF Inv, FieldTypes
    <3>. QED
      BY <1>1, <3>1
  <2>3. buffer' \in Seq(1 .. N) /\ applied' \in Seq(1 .. N) /\ startupBatch' \in Seq(1 .. N) /\ liveBatch' \in Seq(1 .. N)
    BY <1>1, <1>2
  <2>. QED
    BY <1>1, <1>2, <1>3, <2>1, <2>2, <2>3, Fields, FieldsNext DEF Inv, FieldTypes
<1>5. DataInv'
  <2>1. HandledSeq' = 0 /\ Frontier' = 0
    BY <1>1 DEF HandledSeq, Frontier
  <2>2. Seg(0, << >>, 0)
    BY EmptySegment
  <2>. QED
    BY <1>1, <1>2, <1>3, <2>1, <2>2 DEF DataInv, Seg
<1>6. BatchInv' /\ FreshInv' /\ ClientInv'
  BY <1>1 DEF BatchInv, FreshInv, ClientInv, Idle
<1>7. DeliveryInv'
  BY <1>1, EmptySeq DEF DeliveryInv, Linked, Consuming, Idle
<1>8. StartupInv'
  BY <1>1 DEF StartupInv, Consuming, Idle
<1>9. FailureInv'
  BY <1>1, Numbers DEF FailureInv, FailedEventsStayOut, Idle
<1>. QED
  BY <1>4, <1>5, <1>6, <1>7, <1>8, <1>9 DEF Inv

----------------------------------------------------------------------------
(* The stream: what lies behind a sequence is settled once it was read.     *)

LEMMA StreamSteps == ASSUME Inv, Publish \/ (\E q \in 1 .. Len(log) : Delete(q)) PROVE Inv'
<1>. USE DEF consumer, loop, startup, batches
<1>1. /\ UNCHANGED <<buffer, handed, run, aim, current, previous, handler, applied, lastSeq, restoredSeq,
                     startupTarget, ended, completed, startupBatch, liveBatch, failed, client, saved, restarts>>
      /\ Consuming' = Consuming /\ HandledSeq' = HandledSeq /\ Frontier' = Frontier /\ LiveBatchSize' = LiveBatchSize
  BY DEF Publish, Delete, Consuming, HandledSeq, Frontier, LiveBatchSize
<1>2. /\ N \in Nat /\ log \in Seq({"own", "other"}) /\ deleted \subseteq 1 .. N /\ N <= MaxSeq
      /\ aim \in 0 .. N /\ lastSeq \in 0 .. N /\ handed \in 0 .. N /\ current \in 0 .. N
      /\ HandledSeq \in 0 .. N /\ Frontier \in 0 .. N /\ saved.cutoff \in 0 .. N /\ handler.seq \in 0 .. N
      /\ failed \in {NoFailure} \cup 0 .. N /\ buffer \in Seq(1 .. N)
      /\ Owned \in SUBSET (Nat \ {0}) /\ Owned \in SUBSET Nat /\ (\A q \in Owned : q \in 1 .. N)
  BY Basics, Fields DEF Inv, FieldTypes
<1>3. /\ log' \in Seq({"own", "other"}) /\ N' \in Nat /\ N <= N' /\ N' <= MaxSeq
      /\ \A q \in 1 .. N : log'[q] = log[q]
      /\ deleted \subseteq deleted' /\ deleted' \subseteq 1 .. N'
  <2>1. CASE Publish
    <3>1. PICK k \in {"own", "other"} : log' = Append(log, k) /\ Len(log) < MaxSeq /\ deleted' = deleted
      BY <2>1 DEF Publish
    <3>2. N' = N + 1 /\ log' \in Seq({"own", "other"}) /\ \A q \in 1 .. N : log'[q] = log[q]
      BY <1>2, <3>1 DEF N
    <3>3. N' \in Nat /\ N <= N' /\ N' <= MaxSeq
      <4>1. N \in Nat /\ MaxSeq \in Nat /\ N < MaxSeq /\ N' = N + 1
        BY <1>2, <3>1, <3>2, ProjectorAssumption DEF N
      <4>. QED
        BY <4>1
    <3>4. 1 .. N \subseteq 1 .. N'
      BY <1>2, <3>3
    <3>5. deleted' = deleted
      BY <3>1
    <3>. QED
      BY <1>2, <3>2, <3>3, <3>4, <3>5
  <2>2. CASE \E q \in 1 .. Len(log) : Delete(q)
    <3>1. PICK q \in 1 .. N : log' = log /\ deleted' = deleted \cup {q}
      BY <2>2 DEF Delete, N
    <3>. QED
      BY <1>2, <3>1 DEF N
  <2>. QED
    BY <2>1, <2>2
<1>4. Owned' \in SUBSET Nat /\ Owned \subseteq Owned' /\ \A q \in Owned' \ Owned : q \in Nat /\ q > N
  <2>1. Owned = {q \in 1 .. N : log[q] = "own"} /\ Owned' = {q \in 1 .. N' : log'[q] = "own"}
    BY DEF Owned, Own, N
  <2>2. N \in Nat /\ N' \in Nat /\ N <= N' /\ \A q \in 1 .. N : log'[q] = log[q]
    BY <1>2, <1>3
  <2>. QED
    BY <2>1, <2>2
<1>5. ASSUME NEW a \in 0 .. N, NEW b \in 0 .. N, NEW s, Seg(a, s, b)
      PROVE  Segment(Owned', deleted', a, s, b)
  <2>1. a \in Nat /\ b \in Nat /\ \A q \in Owned' \ Owned : q > b
    BY <1>2, <1>4
  <2>. QED
    BY <1>2, <1>3, <1>4, <1>5, <2>1, SegmentStable DEF Seg
<1>6. ASSUME NEW n \in Int, n <= N, Known(n) PROVE Covers(Owned', deleted', applied, n)
  <2>1. \A q \in Owned' \ Owned : q > n
    BY <1>2, <1>4, <1>6
  <2>. QED
    BY <1>2, <1>3, <1>4, <1>6, <2>1, CoversStable DEF Known
<1>7. ASSUME NEW a \in Nat, NEW n \in Int, n <= N, None(a, n) PROVE NoneIn(Owned', deleted', a, n)
  <2>1. \A q \in Owned' \ Owned : q > n
    BY <1>2, <1>4, <1>7
  <2>. QED
    BY <1>2, <1>3, <1>4, <1>7, <2>1, NoneStable DEF None
<1>8. ASSUME NEW a, NEW b \in 1 .. N, Gap(a, b) PROVE Gap(a, b)'
  <2>1. \A q \in 1 .. N' : a < q /\ q < b => q \in 1 .. N /\ ~Retained(q)
    BY <1>2, <1>3, <1>8 DEF Gap, N
  <2>. QED
    BY <1>3, <1>8, <2>1 DEF Gap, Retained, N
<1>9. TypeOK'
  <2>1. \A m \in 0 .. N : m \in 0 .. N'
    BY <1>2, <1>3
  <2>2. Seq(1 .. N) \subseteq Seq(1 .. N')
    <3>1. 1 .. N \subseteq 1 .. N'
      BY <1>2, <1>3
    <3>. QED
      BY <3>1, SeqMonotonic
  <2>3. FieldTypes
    BY Fields DEF Inv
  <2>4. client' \in [Clients -> ClientStates'] /\ handler' \in [pc : {"idle", "apply", "undecodable", "fail", "complete"}, seq : 0 .. N']
        /\ saved' \in [kind : Kinds, cutoff : 0 .. N', state : Seq(1 .. N')]
    <3>1. ClientStates \subseteq ClientStates'
      BY <2>1 DEF ClientStates
    <3>2. client' \in [Clients -> ClientStates']
      BY <1>1, <2>3, <3>1 DEF FieldTypes
    <3>3. handler' \in [pc : {"idle", "apply", "undecodable", "fail", "complete"}, seq : 0 .. N']
      BY <1>1, <2>1, <2>3 DEF FieldTypes
    <3>4. saved' \in [kind : Kinds, cutoff : 0 .. N', state : Seq(1 .. N')]
      BY <1>1, <2>1, <2>2, <2>3 DEF FieldTypes
    <3>. QED
      BY <3>2, <3>3, <3>4
  <2>5. FieldTypes'
    BY <1>1, <1>3, <2>1, <2>2, <2>3, <2>4 DEF FieldTypes
  <2>. QED
    BY <2>5, FieldsNext
<1>10. DataInv'
  <2>1. /\ Segment(Owned', deleted', 0, applied, lastSeq)
        /\ Segment(Owned', deleted', lastSeq, startupBatch, HandledSeq)
        /\ Segment(Owned', deleted', HandledSeq, liveBatch, Frontier)
        /\ Segment(Owned', deleted', 0, saved.state, saved.cutoff)
    <3>1. 0 \in 0 .. N
      BY <1>2
    <3>. QED
      BY <1>2, <1>5, <3>1 DEF Inv, DataInv
  <2>. QED
    BY <1>1, <2>1 DEF Inv, DataInv, Seg
<1>11. BatchInv' /\ FreshInv' /\ ClientInv'
  BY <1>1 DEF Inv, BatchInv, FreshInv, ClientInv
<1>12. DeliveryInv'
  <2>1. Linked'
    <3>1. \A i \in 1 .. Len(buffer) : buffer[i] \in 1 .. N
      BY <1>2, ElementOfSeq
    <3>2. buffer # << >> => Gap(handed, Head(buffer))'
      <4>. SUFFICES ASSUME buffer # << >> PROVE Gap(handed, Head(buffer))'
        OBVIOUS
      <4>1. Head(buffer) \in 1 .. N /\ Gap(handed, Head(buffer))
        BY <1>2, HeadTailProperties DEF Inv, DeliveryInv, Linked
      <4>2. PICK a \in 0 .. N, b \in 1 .. N : a = handed /\ b = Head(buffer)
        BY <1>2, <4>1
      <4>3. Gap(a, b)'
        BY <1>8, <4>1, <4>2
      <4>. QED
        BY <1>1, <4>2, <4>3 DEF Gap
    <3>3. ASSUME NEW i \in 1 .. Len(buffer) - 1 PROVE Gap(buffer[i], buffer[i + 1])'
      <4>1. Len(buffer) \in Nat
        BY <1>2, LenProperties
      <4>2. i \in 1 .. Len(buffer) /\ i + 1 \in 1 .. Len(buffer)
        BY <4>1
      <4>3. PICK a \in 1 .. N, b \in 1 .. N : a = buffer[i] /\ b = buffer[i + 1]
        BY <3>1, <4>2
      <4>4. Gap(a, b)
        BY <4>3 DEF Inv, DeliveryInv, Linked
      <4>5. Gap(a, b)'
        BY <1>8, <4>4
      <4>. QED
        BY <1>1, <4>3, <4>5 DEF Gap
    <3>. QED
      BY <1>1, <3>2, <3>3 DEF Linked
  <2>2. None(Frontier, handed) => None(Frontier, handed)'
    <3>1. Frontier \in Nat /\ handed \in Int /\ handed <= N
      BY <1>2
    <3>. QED
      BY <1>1, <1>7, <3>1 DEF None
  <2>3. None(Frontier, handler.seq - 1) => None(Frontier, handler.seq - 1)'
    <3>1. Frontier \in Nat /\ handler.seq - 1 \in Int /\ handler.seq - 1 <= N
      BY <1>2
    <3>. QED
      BY <1>1, <1>7, <3>1 DEF None
  <2>. QED
    BY <1>1, <1>4, <2>1, <2>2, <2>3 DEF Inv, DeliveryInv
<1>13. StartupInv'
  <2>1. None(current, aim) => None(current, aim)'
    <3>1. current \in Nat /\ aim \in Int /\ aim <= N
      BY <1>2
    <3>. QED
      BY <1>1, <1>7, <3>1 DEF None
  <2>2. None(HandledSeq, aim) => None(HandledSeq, aim)'
    <3>1. HandledSeq \in Nat /\ aim \in Int /\ aim <= N
      BY <1>2
    <3>. QED
      BY <1>1, <1>7, <3>1 DEF None
  <2>3. Known(aim) => Known(aim)'
    <3>1. aim \in Int /\ aim <= N
      BY <1>2
    <3>. QED
      BY <1>1, <1>6, <3>1 DEF Known
  <2>. QED
    BY <1>1, <2>1, <2>2, <2>3 DEF Inv, StartupInv
<1>14. FailureInv'
  <2>1. Known(failed - 1) => Known(failed - 1)'
    <3>1. failed - 1 \in Int /\ failed - 1 <= N
      BY <1>2, Numbers
    <3>. QED
      BY <1>1, <1>6, <3>1 DEF Known
  <2>2. Known(handler.seq - 1) => Known(handler.seq - 1)'
    <3>1. handler.seq - 1 \in Int /\ handler.seq - 1 <= N
      BY <1>2
    <3>. QED
      BY <1>1, <1>6, <3>1 DEF Known
  <2>. QED
    BY <1>1, <2>1, <2>2 DEF Inv, FailureInv, FailedEventsStayOut
<1>. QED
  BY <1>9, <1>10, <1>11, <1>12, <1>13, <1>14 DEF Inv

----------------------------------------------------------------------------
LEMMA InvStutter == ASSUME Inv, UNCHANGED vars PROVE Inv'
<1>1. UNCHANGED <<stream, consumer, loop, handler, applied, lastSeq, restoredSeq, startup, batches,
                  failed, saved, restarts>> /\ client' = client
  BY DEF vars
<1>2. client' \in [Clients -> ClientStates] /\ ClientInv'
  <2>1. client \in [Clients -> ClientStates]
    BY Fields DEF Inv, FieldTypes
  <2>. QED
    BY <1>1, <2>1 DEF Inv, ClientInv
<1>. QED
  BY <1>1, <1>2, ClientFrame DEF Inv

LEMMA InvNext == Inv /\ [Next]_vars => Inv'
<1>. SUFFICES ASSUME Inv, [Next]_vars PROVE Inv'
  OBVIOUS
<1>1. CASE Publish \/ (\E q \in 1 .. Len(log) : Delete(q))
  BY <1>1, StreamSteps
<1>2. CASE Fetch
  BY <1>2, FetchStep
<1>3. CASE Deliver
  BY <1>3, DeliverStep
<1>4. CASE HandlerStep
  BY <1>4, SkipStep, BufferStartupStep, CommitStartupBatchStep, FailStartupBatchStep, ApplyOneStep, ApplyLiveStep,
     FailSteps, HandlerCompletesStep DEF HandlerStep
<1>5. CASE RunStep
  BY <1>5, StartStep, RestoreSteps, ConsumeStep, RunCompletesStep, ReconcileSteps, FlushStep, EndSteps DEF RunStep
<1>6. CASE LiveTick
  BY <1>6, LiveTickStep
<1>7. CASE RunFails \/ Shutdown
  BY <1>7, EndSteps
<1>8. CASE \E c \in Clients : WaitFor(c) \/ EnterWait(c) \/ LeaveWait(c) \/ CancelWait(c)
  BY <1>8, ClientSteps
<1>9. CASE CaptureSnapshot
  BY <1>9, CaptureStep
<1>10. CASE Restart
  BY <1>10, RestartStep
<1>11. CASE UNCHANGED vars
  BY <1>11, InvStutter
<1>. QED
  BY <1>1, <1>2, <1>3, <1>4, <1>5, <1>6, <1>7, <1>8, <1>9, <1>10, <1>11 DEF Next

LEMMA Invariance == Spec => []Inv
BY InvInit, InvNext, PTL DEF Spec

----------------------------------------------------------------------------
(* What follows.                                                            *)

LEMMA HistoryCovered ==
    ASSUME NEW s, NEW n, Covers(Owned, deleted, s, n)
    PROVE  CoversHistory(s, n)
<1>. SUFFICES ASSUME NEW q \in 1 .. n, Own(q), Retained(q) PROVE Reflects(s, q)
  BY DEF CoversHistory
<1>1. q \in Owned \ deleted /\ q <= n
  BY DEF Owned, Retained
<1>. QED
  BY <1>1 DEF Covers, Reflects

LEMMA ExactData == Inv => StateExact
<1>. SUFFICES ASSUME Inv PROVE StateExact
  OBVIOUS
<1>1. Seg(0, applied, lastSeq) /\ applied \in Seq(Owned) /\ lastSeq \in Int
  <2>1. lastSeq \in 0 .. N /\ N \in Nat
    BY Fields DEF Inv, FieldTypes
  <2>. QED
    BY <2>1 DEF Inv, DataInv, Seg, Segment
<1>2. \A i \in 1 .. Len(applied) : Own(applied[i]) /\ applied[i] <= lastSeq
  <2>1. ASSUME NEW i \in 1 .. Len(applied) PROVE Own(applied[i])
    BY <1>1, ElementOfSeq DEF Owned
  <2>. QED
    BY <1>1, <2>1 DEF Seg, Segment
<1>3. CoversHistory(applied, lastSeq)
  <2>1. lastSeq <= lastSeq
    BY <1>1
  <2>2. Known(lastSeq)
    BY <1>1, <2>1, KnownUpTo DEF Inv
  <2>. QED
    BY <2>2, HistoryCovered DEF Known
<1>. QED
  BY <1>1, <1>2, <1>3 DEF StateExact, Seg, Segment

LEMMA ReleasedHaveRead == Inv => WaitIsReadYourWrites
<1>. SUFFICES ASSUME Inv, NEW c \in Clients, client[c].pc = "ok" PROVE CoversHistory(applied, client[c].seq)
  BY DEF WaitIsReadYourWrites
<1>1. client[c].seq \in Nat /\ failed \in Int /\ NoFailure = -1
  <2>1. N \in Nat /\ client[c] \in ClientStates /\ failed \in {NoFailure} \cup 0 .. N
    BY Fields DEF Inv, FieldTypes
  <2>2. client[c].seq \in 0 .. N
    BY <2>1 DEF ClientStates
  <2>. QED
    BY <2>1, <2>2, Numbers
<1>2. CASE client[c].seq <= lastSeq
  <2>1. Known(client[c].seq)
    BY <1>1, <1>2, KnownUpTo DEF Inv
  <2>. QED
    BY <2>1, HistoryCovered DEF Known
<1>3. CASE client[c].seq < failed
  <2>1. Known(failed - 1)
    BY <1>1, <1>3 DEF Inv, FailureInv
  <2>2. \A q \in Owned : q \in Int
    BY DEF Owned
  <2>3. Known(client[c].seq)
    BY <1>1, <1>3, <2>1, <2>2 DEF Known, Covers
  <2>. QED
    BY <2>3, HistoryCovered DEF Known
<1>. QED
  BY <1>2, <1>3 DEF Inv, ClientInv

(* Every field of the projector, its consumer and its callers keeps its     *)
(* type through every interleaving of Run, handleMessage and WaitFor.       *)
THEOREM TypeCorrect == Spec => []TypeOK
<1>1. Inv => TypeOK
  BY DEF Inv
<1>. QED
  BY <1>1, Invariance, PTL

(* The projection's state is exactly the retained history up to LastSeq:    *)
(* applyEvent, the flushes of both batches, snapshots, checkpoints and      *)
(* restarts neither lose, repeat nor reorder an event.                      *)
THEOREM StateIsExact == Spec => []StateExact
BY ExactData, Invariance, PTL

(* completeStartupLocked closes startupCh only when everything up to the    *)
(* target that Run captured first is applied, also after reconcileStartup   *)
(* or EndStartupBeforeLive lowered the target.                              *)
THEOREM ReadyIsCaughtUp == Spec => []ReadyMeansCaughtUp
<1>1. Inv => ReadyMeansCaughtUp
  BY HistoryCovered DEF Inv, StartupInv, Known, ReadyMeansCaughtUp
<1>. QED
  BY <1>1, Invariance, PTL

(* A waitForSeq that returns nil, from its first look or released by        *)
(* advance or by fail, has its event in the state.                          *)
THEOREM ReadYourWrites == Spec => []WaitIsReadYourWrites
BY ReleasedHaveRead, Invariance, PTL

(* After the failure of a live event nothing at or behind it is applied, by *)
(* flushLiveBatch, by a later applyEvent or by a flush of the startup batch.*)
THEOREM FailedStayOut == Spec => []FailedEventsStayOut
<1>1. Inv => FailedEventsStayOut
  BY DEF Inv, FailureInv
<1>. QED
  BY <1>1, Invariance, PTL
=============================================================================
