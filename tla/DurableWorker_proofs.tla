------------------------- MODULE DurableWorker_proofs -------------------------
(***************************************************************************)
(* Proofs about DurableWorker, for any number of workers, slots, messages   *)
(* and faults, and every choice of the times that HandlerAssumption allows. *)
(*                                                                         *)
(* A busy slot or a fetched message holds its message. As long as nothing   *)
(* was lost a held message is pending, has one holder, and its redelivery   *)
(* is further away than the holder's next action.                           *)
(***************************************************************************)
EXTENDS DurableWorker, FiniteSetTheorems, TLAPS

AckKinds == {"ack", "term", "nak", "progress"}
SlotStates == [st : {"free", "handling", "waiting"} \cup Results,
               msg : Messages \cup {NoMessage}, timer : Nat]
Acks == [kind : AckKinds, msg : Messages, delay : Nat]
Places == {"loop", "fetch", "pause", "got", "draining", "returned", "down"}
Statuses == {"new", "pending", "ready", "settled"}

Busy(w, i) == slot[w][i].st # "free"

(* Whoever holds a message knows which.                                     *)
MessageInv ==
    /\ \A w \in Workers : \A i \in Slots : Busy(w, i) => slot[w][i].msg \in Messages
    /\ \A w \in Workers : pc[w] = "got" => got[w] \in Messages

(* Success and termination are reported only after the fact.                *)
HandledInv ==
    /\ SettledMeansHandled
    /\ \A w \in Workers : \A i \in Slots :
          slot[w][i].st \in {"ok", "term"} => slot[w][i].msg \in handled
    /\ \A a \in late : a.kind \in {"ack", "term"} => a.msg \in handled

BaseInv == TypeOK /\ MessageInv /\ HandledInv

----------------------------------------------------------------------------
LEMMA Times ==
    /\ MaxConcurrent \in Nat \ {0} /\ AckWait \in Nat \ {0} /\ FetchMaxWait \in Nat \ {0}
    /\ HeartbeatInterval \in Nat \ {0} /\ RetryDelay \in Nat \ {0} /\ StopBound \in Nat \ {0}
    /\ MaxFaults \in Nat /\ MaxFailures \in Nat /\ NoMessage \notin Messages
    /\ HeartbeatInterval < AckWait /\ StopBound <= FetchMaxWait
    /\ HandoffDelay \in Nat /\ HandoffDelay = FetchMaxWait + 1
BY WorkerAssumption, HandlerAssumption DEF HandoffDelay

Typed ==
    /\ status \in [Messages -> Statuses] /\ left \in [Messages -> Nat] /\ gone \in BOOLEAN
    /\ late \in SUBSET Acks /\ pc \in [Workers -> Places] /\ ended \in [Workers -> BOOLEAN]
    /\ pull \in [Workers -> 0 .. FetchMaxWait] /\ got \in [Workers -> Messages \cup {NoMessage}]
    /\ slot \in [Workers -> [Slots -> SlotStates]]
    /\ handled \in SUBSET Messages /\ handedOff \in [Workers -> SUBSET Messages]
    /\ reclaimed \in BOOLEAN /\ faults \in 0 .. MaxFaults /\ failures \in 0 .. MaxFailures

(* A slot is kept for the message of a fetch.                               *)
SlotKept == \A w \in Workers : pc[w] \in {"fetch", "got"} => \E i \in Slots : ~Busy(w, i)

LEMMA Fields == TypeOK <=> Typed /\ SlotKept
<1>1. (\A w \in Workers : pc[w] \in {"fetch", "got"} => Free(w) # {}) <=> SlotKept
  BY DEF SlotKept, Free, Busy
<1>. QED
  BY <1>1 DEF TypeOK, Typed, Statuses, Places, Acks, AckKinds, SlotStates

LEMMA FieldsNext == TypeOK' <=> Typed' /\ SlotKept'
<1>1. (\A w \in Workers : pc'[w] \in {"fetch", "got"} => (Free(w))' # {}) <=> SlotKept'
  BY DEF SlotKept, Free, Busy
<1>. QED
  BY <1>1 DEF TypeOK, Typed, Statuses, Places, Acks, AckKinds, SlotStates

(* One slot changes, and the others do not.                                 *)
LEMMA SlotChange ==
    ASSUME Typed, NEW w \in Workers, NEW i \in Slots, NEW s \in SlotStates, SetSlot(w, i, s)
    PROVE  /\ slot' \in [Workers -> [Slots -> SlotStates]]
           /\ slot'[w][i] = s
           /\ \A v \in Workers : \A j \in Slots : (v = w /\ j = i) \/ slot'[v][j] = slot[v][j]
BY DEF Typed, SetSlot

LEMMA PcChange ==
    ASSUME Typed, NEW w \in Workers, NEW p \in Places, Goto(w, p)
    PROVE  /\ pc' \in [Workers -> Places] /\ pc'[w] = p
           /\ \A v \in Workers : v = w \/ pc'[v] = pc[v]
BY DEF Typed, Goto

(* What an acknowledgement changes when it arrives.                         *)
LEMMA ReceiveEffect ==
    ASSUME Typed, NEW kind \in AckKinds, NEW m \in Messages, NEW delay \in Nat, Receive(kind, m, delay)
    PROVE  /\ status' \in [Messages -> Statuses] /\ left' \in [Messages -> Nat]
           /\ \A n \in Messages : n = m \/ (status'[n] = status[n] /\ left'[n] = left[n])
           /\ kind \in {"ack", "term"} => status'[m] = "settled"
           /\ kind \notin {"ack", "term"} /\ status[m] = "settled" => status'[m] = "settled"
           /\ kind \notin {"ack", "term"} /\ status[m] # "settled" => status'[m] # "settled"
           /\ kind = "nak" /\ delay = 0 /\ status[m] = "pending" => status'[m] = "ready"
           /\ kind = "nak" /\ delay # 0 /\ status[m] = "pending" => status'[m] = "pending" /\ left'[m] = delay
           /\ kind = "progress" /\ status[m] = "pending" => status'[m] = "pending" /\ left'[m] = AckWait
<1>1. status'[m] = (IF kind \in {"ack", "term"} THEN "settled"
                    ELSE IF kind = "nak" /\ delay = 0 /\ status[m] = "pending" THEN "ready" ELSE status[m])
      /\ \A n \in Messages : n = m \/ status'[n] = status[n]
  BY DEF Receive, Typed
<1>2. left'[m] = (IF status[m] # "pending" \/ status'[m] # "pending" THEN 0
                  ELSE IF kind = "nak" THEN delay ELSE AckWait)
      /\ \A n \in Messages : n = m \/ left'[n] = left[n]
  BY DEF Receive, Typed
<1>3. status'[m] \in Statuses /\ left'[m] \in Nat
  <2>1. status[m] \in Statuses
    BY DEF Typed
  <2>. QED
    BY <1>1, <1>2, <2>1, Times DEF Statuses
<1>4. status' \in [Messages -> Statuses] /\ left' \in [Messages -> Nat]
  <2>1. DOMAIN status' = Messages /\ DOMAIN left' = Messages
    BY DEF Receive, Typed
  <2>2. status' = [n \in Messages |-> status'[n]] /\ left' = [n \in Messages |-> left'[n]]
    BY <2>1 DEF Receive, Typed
  <2>3. \A n \in Messages : status'[n] \in Statuses
    BY <1>1, <1>3 DEF Typed
  <2>4. \A n \in Messages : left'[n] \in Nat
    BY <1>2, <1>3 DEF Typed
  <2>. QED
    BY <2>2, <2>3, <2>4
<1>. QED
  BY <1>1, <1>2, <1>4 DEF AckKinds

LEMMA SendEffect ==
    ASSUME Typed, NEW kind \in AckKinds, NEW m \in Messages, NEW delay \in Nat, Send(kind, m, delay)
    PROVE  /\ status' \in [Messages -> Statuses] /\ left' \in [Messages -> Nat]
           /\ late' \in SUBSET Acks /\ faults' \in 0 .. MaxFaults
           /\ late' \subseteq late \cup {[kind |-> kind, msg |-> m, delay |-> delay]}
           /\ \A n \in Messages : status'[n] = "settled" =>
                 status[n] = "settled" \/ (n = m /\ kind \in {"ack", "term"})
           /\ faults' = 0 => faults = 0 /\ late' = late /\ (gone \/ Receive(kind, m, delay))
<1>1. CASE ~gone /\ Receive(kind, m, delay) /\ UNCHANGED <<late, faults>>
  BY <1>1, ReceiveEffect DEF Typed
<1>2. CASE gone /\ UNCHANGED <<status, left, late, faults>>
  BY <1>2 DEF Typed
<1>3. CASE /\ Fault
           /\ UNCHANGED late \/ late' = late \cup {[kind |-> kind, msg |-> m, delay |-> delay]}
           /\ UNCHANGED <<status, left>>
  <2>1. faults' \in 0 .. MaxFaults /\ faults' # 0
    BY <1>3, Times DEF Fault, Typed
  <2>2. [kind |-> kind, msg |-> m, delay |-> delay] \in Acks
    BY DEF Acks
  <2>. QED
    BY <1>3, <2>1, <2>2 DEF Typed
<1>. QED
  BY <1>1, <1>2, <1>3 DEF Send

LEMMA PcUnchanged == ASSUME UNCHANGED pc PROVE \A w \in Workers : pc'[w] = pc[w]
OBVIOUS

(* Steps that neither occupy a slot nor fetch: the slot kept stays free.    *)
LEMMA SlotStaysKept ==
    ASSUME SlotKept, \A w \in Workers : pc'[w] \in {"fetch", "got"} => pc[w] \in {"fetch", "got"},
           \A w \in Workers : \A i \in Slots : Busy(w, i)' => Busy(w, i)
    PROVE  SlotKept'
BY DEF SlotKept

LEMMA BaseInit == Init => BaseInv
<1>. SUFFICES ASSUME Init PROVE BaseInv
  OBVIOUS
<1>1. FreeSlot \in SlotStates /\ 1 \in Slots
  BY Times DEF FreeSlot, SlotStates, Slots
<1>2. Typed
  <2>1. slot \in [Workers -> [Slots -> SlotStates]]
    BY <1>1 DEF Init
  <2>2. /\ status \in [Messages -> Statuses] /\ left \in [Messages -> Nat] /\ pc \in [Workers -> Places]
        /\ ended \in [Workers -> BOOLEAN] /\ got \in [Workers -> Messages \cup {NoMessage}]
        /\ handedOff \in [Workers -> SUBSET Messages]
    BY DEF Init, Statuses, Places
  <2>3. 0 \in 0 .. FetchMaxWait /\ 0 \in 0 .. MaxFaults /\ 0 \in 0 .. MaxFailures
    BY Times
  <2>4. pull \in [Workers -> 0 .. FetchMaxWait] /\ faults \in 0 .. MaxFaults /\ failures \in 0 .. MaxFailures
    BY <2>3 DEF Init
  <2>. QED
    BY <2>1, <2>2, <2>4 DEF Init, Typed
<1>3. \A w \in Workers : \A i \in Slots : ~Busy(w, i) /\ slot[w][i].st = "free"
  BY DEF Init, Busy, FreeSlot
<1>4. SlotKept
  BY <1>1, <1>3 DEF SlotKept
<1>5. MessageInv
  BY <1>3 DEF Init, MessageInv
<1>6. HandledInv
  BY <1>3 DEF Init, HandledInv, SettledMeansHandled
<1>. QED
  BY <1>2, <1>4, <1>5, <1>6, Fields DEF BaseInv

(* The steps of the consumer and of time.                                   *)
LEMMA BaseServer ==
    ASSUME BaseInv,
           \/ (\E a \in late : Arrive(a)) \/ (\E m \in Messages : Redeliver(m)) \/ DeleteConsumer
           \/ (\E w \in Workers, m \in Messages : Deliver(w, m)) \/ Tick
    PROVE  BaseInv'
<1>. USE DEF consumer, run, history
<1>0. Typed /\ SlotKept /\ MessageInv /\ HandledInv
  BY Fields DEF BaseInv
<1>1. ASSUME NEW a \in late, Arrive(a) PROVE BaseInv'
  <2>1. a.kind \in AckKinds /\ a.msg \in Messages /\ a.delay \in Nat /\ Receive(a.kind, a.msg, a.delay)
        /\ late' \subseteq late
    BY <1>0, <1>1 DEF Arrive, Typed, Acks
  <2>2. /\ status' \in [Messages -> Statuses] /\ left' \in [Messages -> Nat]
        /\ \A n \in Messages : status'[n] = "settled" =>
              status[n] = "settled" \/ (n = a.msg /\ a.kind \in {"ack", "term"})
    BY <1>0, <2>1, ReceiveEffect
  <2>3. Typed' /\ SlotKept' /\ MessageInv'
    BY <1>0, <1>1, <2>1, <2>2 DEF Arrive, Typed, SlotKept, MessageInv, Busy
  <2>4. HandledInv'
    BY <1>0, <1>1, <2>1, <2>2 DEF Arrive, HandledInv, SettledMeansHandled
  <2>. QED
    BY <2>3, <2>4, FieldsNext DEF BaseInv
<1>2. ASSUME NEW m \in Messages, Redeliver(m) PROVE BaseInv'
  <2>1. status' \in [Messages -> Statuses]
        /\ \A n \in Messages : status'[n] = "settled" => status[n] = "settled"
    BY <1>0, <1>2 DEF Redeliver, Typed, Statuses
  <2>2. Typed' /\ SlotKept' /\ MessageInv'
    BY <1>0, <1>2, <2>1 DEF Redeliver, Typed, SlotKept, MessageInv, Busy
  <2>3. HandledInv'
    BY <1>0, <1>2, <2>1 DEF Redeliver, HandledInv, SettledMeansHandled
  <2>. QED
    BY <2>2, <2>3, FieldsNext DEF BaseInv
<1>3. CASE DeleteConsumer
  <2>1. faults' \in 0 .. MaxFaults /\ gone' \in BOOLEAN
    BY <1>0, <1>3, Times DEF DeleteConsumer, Fault, Typed
  <2>2. Typed' /\ SlotKept' /\ MessageInv'
    BY <1>0, <1>3, <2>1 DEF DeleteConsumer, Typed, SlotKept, MessageInv, Busy
  <2>3. HandledInv'
    BY <1>0, <1>3 DEF DeleteConsumer, HandledInv, SettledMeansHandled
  <2>. QED
    BY <2>2, <2>3, FieldsNext DEF BaseInv
<1>4. ASSUME NEW w \in Workers, NEW m \in Messages, Deliver(w, m) PROVE BaseInv'
  <2>1. status' \in [Messages -> Statuses] /\ left' \in [Messages -> Nat] /\ pull' \in [Workers -> 0 .. FetchMaxWait]
        /\ \A n \in Messages : status'[n] = "settled" => status[n] = "settled"
    BY <1>0, <1>4, Times DEF Deliver, Typed, Statuses
  <2>2. faults' \in 0 .. MaxFaults /\ reclaimed' \in BOOLEAN
    BY <1>0, <1>4, Times DEF Deliver, Typed, Fault
  <2>3. /\ pc' \in [Workers -> Places] /\ got' \in [Workers -> Messages \cup {NoMessage}]
        /\ \A v \in Workers : \/ pc'[v] = pc[v] /\ got'[v] = got[v]
                              \/ pc[v] = "fetch" /\ pc'[v] = "got" /\ got'[v] = m
    <3>1. pc \in [Workers -> Places] /\ got \in [Workers -> Messages \cup {NoMessage}] /\ "got" \in Places
      BY <1>0 DEF Typed, Places
    <3>2. \/ pc' = pc /\ got' = got
          \/ pc[w] = "fetch" /\ pc' = [pc EXCEPT ![w] = "got"] /\ got' = [got EXCEPT ![w] = m]
      BY <1>4 DEF Deliver, Goto
    <3>. QED
      BY <3>1, <3>2
  <2>4. Typed'
    BY <1>0, <1>4, <2>1, <2>2, <2>3 DEF Deliver, Typed
  <2>5. slot' = slot
    BY <1>4 DEF Deliver
  <2>6. SlotKept' /\ MessageInv'
    BY <1>0, <2>3, <2>5 DEF SlotKept, MessageInv, Busy
  <2>7. HandledInv'
    BY <1>0, <1>4, <2>1 DEF Deliver, HandledInv, SettledMeansHandled
  <2>. QED
    BY <2>4, <2>6, <2>7, FieldsNext DEF BaseInv
<1>5. CASE Tick
  <2>1. left' \in [Messages -> Nat] /\ pull' \in [Workers -> 0 .. FetchMaxWait]
    <3>1. \A n \in Nat : Down(n) \in Nat /\ Down(n) <= n
      BY DEF Down
    <3>. QED
      BY <1>0, <1>5, <3>1, Times DEF Tick, Typed
  <2>2. /\ slot' \in [Workers -> [Slots -> SlotStates]]
        /\ \A v \in Workers : \A j \in Slots : slot'[v][j].st = slot[v][j].st /\ slot'[v][j].msg = slot[v][j].msg
    <3>1. \A n \in Nat : Down(n) \in Nat
      BY DEF Down
    <3>4. ASSUME NEW v \in Workers, NEW j \in Slots
          PROVE  slot'[v][j] \in SlotStates /\ slot'[v][j].st = slot[v][j].st /\ slot'[v][j].msg = slot[v][j].msg
      <4>1. slot'[v][j] = [slot[v][j] EXCEPT !.timer = Down(slot[v][j].timer)]
        BY <1>5 DEF Tick
      <4>2. slot[v][j] \in SlotStates
        BY <1>0 DEF Typed
      <4>3. slot[v][j].timer \in Nat
        BY <4>2 DEF SlotStates
      <4>4. Down(slot[v][j].timer) \in Nat
        BY <3>1, <4>3
      <4>. QED
        BY <4>1, <4>2, <4>4 DEF SlotStates
    <3>5. slot' = [v \in Workers |-> [j \in Slots |-> slot'[v][j]]]
      BY <1>5 DEF Tick
    <3>6. slot' \in [Workers -> [Slots -> SlotStates]]
      BY <3>4, <3>5
    <3>. QED
      BY <3>4, <3>6
  <2>3. Typed'
    BY <1>0, <1>5, <2>1, <2>2 DEF Tick, Typed
  <2>5. SlotKept' /\ MessageInv'
    <3>1. \A v \in Workers : pc'[v] = pc[v] /\ got'[v] = got[v] /\ \A j \in Slots : Busy(v, j)' = Busy(v, j)
      BY <1>5, <2>2 DEF Tick, Busy
    <3>. QED
      BY <1>0, <2>2, <3>1 DEF SlotKept, MessageInv
  <2>4. HandledInv'
    BY <1>0, <1>5, <2>2 DEF Tick, HandledInv, SettledMeansHandled
  <2>. QED
    BY <2>3, <2>5, <2>4, FieldsNext DEF BaseInv
<1>. QED
  BY <1>1, <1>2, <1>3, <1>4, <1>5

(* The moves of Run that only change where it is.                           *)
LEMMA BaseMoves ==
    ASSUME BaseInv, NEW w \in Workers,
           Fetch(w) \/ StopLoop(w) \/ FetchTimeout(w) \/ FetchGone(w) \/ FetchError(w) \/ Resume(w) \/ Return(w) \/ Shutdown(w)
    PROVE  BaseInv'
<1>. USE DEF consumer, run, history
<1>0. Typed /\ SlotKept /\ MessageInv /\ HandledInv
  BY Fields DEF BaseInv
<1>1. /\ UNCHANGED <<status, left, gone, late, got, slot, handled, handedOff, reclaimed>>
      /\ pc' = pc \/ \E p \in {"loop", "fetch", "pause", "draining", "returned"} :
                        /\ Goto(w, p)
                        /\ p = "fetch" => Free(w) # {}
      /\ ended' = ended \/ ended' = [ended EXCEPT ![w] = TRUE]
      /\ pull' = pull \/ pull' = [pull EXCEPT ![w] = FetchMaxWait]
      /\ faults' = faults \/ Fault
      /\ failures' = failures \/ Failure
  BY DEF Fetch, StopLoop, FetchTimeout, FetchGone, FetchError, Resume, Return, Shutdown, AfterError, HasSlot
<1>2. faults' \in 0 .. MaxFaults /\ failures' \in 0 .. MaxFailures
  BY <1>0, <1>1, Times DEF Typed, Fault, Failure
<1>3. ended' \in [Workers -> BOOLEAN] /\ pull' \in [Workers -> 0 .. FetchMaxWait]
  <2>1. FetchMaxWait \in 0 .. FetchMaxWait
    BY Times
  <2>2. ended' \in [Workers -> BOOLEAN]
    BY <1>0, <1>1 DEF Typed
  <2>3. pull' \in [Workers -> 0 .. FetchMaxWait]
    BY <1>0, <1>1, <2>1 DEF Typed
  <2>. QED
    BY <2>2, <2>3
<1>4. /\ pc' \in [Workers -> Places]
      /\ \A v \in Workers : \/ pc'[v] = pc[v]
                            \/ pc'[v] # "got" /\ (pc'[v] = "fetch" => \E i \in Slots : ~Busy(v, i))
  <2>1. CASE pc' = pc
    BY <1>0, <2>1 DEF Typed
  <2>2. ASSUME NEW p \in {"loop", "fetch", "pause", "draining", "returned"}, Goto(w, p), p = "fetch" => Free(w) # {}
        PROVE  /\ pc' \in [Workers -> Places]
               /\ \A v \in Workers : \/ pc'[v] = pc[v]
                                     \/ pc'[v] # "got" /\ (pc'[v] = "fetch" => \E i \in Slots : ~Busy(v, i))
    <3>1. pc' \in [Workers -> Places] /\ pc'[w] = p /\ \A v \in Workers : v = w \/ pc'[v] = pc[v]
      BY <1>0, <2>2, PcChange DEF Places
    <3>2. p = "fetch" => \E i \in Slots : ~Busy(w, i)
      BY <2>2 DEF Free, Busy
    <3>. QED
      BY <3>1, <3>2
  <2>. QED
    BY <1>1, <2>1, <2>2
<1>5. Typed'
  BY <1>0, <1>1, <1>2, <1>3, <1>4 DEF Typed
<1>6. SlotKept' /\ MessageInv'
  BY <1>0, <1>1, <1>4 DEF SlotKept, MessageInv, Busy
<1>7. HandledInv'
  BY <1>0, <1>1 DEF HandledInv, SettledMeansHandled
<1>. QED
  BY <1>5, <1>6, <1>7, FieldsNext DEF BaseInv

LEMMA BaseGot == ASSUME BaseInv, NEW w \in Workers, GotMessage(w) PROVE BaseInv'
<1>. USE DEF consumer, run, history
<1>0. Typed /\ SlotKept /\ MessageInv /\ HandledInv
  BY Fields DEF BaseInv
<1>1. /\ pc[w] = "got" /\ got' = [got EXCEPT ![w] = NoMessage] /\ got[w] \in Messages
      /\ UNCHANGED <<gone, ended, pull, handled, handedOff, reclaimed, failures>>
  BY <1>0 DEF GotMessage, MessageInv
<1>2. got' \in [Workers -> Messages \cup {NoMessage}] /\ \A v \in Workers : v = w \/ got'[v] = got[v]
  BY <1>0, <1>1 DEF Typed
<1>3. CASE Send("nak", got[w], 0) /\ Goto(w, "draining") /\ slot' = slot
  <2>1. /\ status' \in [Messages -> Statuses] /\ left' \in [Messages -> Nat]
        /\ late' \in SUBSET Acks /\ faults' \in 0 .. MaxFaults
        /\ late' \subseteq late \cup {[kind |-> "nak", msg |-> got[w], delay |-> 0]}
        /\ \A n \in Messages : status'[n] = "settled" => status[n] = "settled"
    BY <1>0, <1>1, <1>3, SendEffect DEF AckKinds
  <2>2. pc' \in [Workers -> Places] /\ pc'[w] = "draining" /\ \A v \in Workers : v = w \/ pc'[v] = pc[v]
    BY <1>0, <1>3, PcChange DEF Places
  <2>3. Typed'
    BY <1>0, <1>1, <1>2, <1>3, <2>1, <2>2 DEF Typed
  <2>4. SlotKept' /\ MessageInv'
    BY <1>0, <1>2, <1>3, <2>2 DEF SlotKept, MessageInv, Busy
  <2>5. HandledInv'
    BY <1>0, <1>1, <1>3, <2>1 DEF HandledInv, SettledMeansHandled
  <2>. QED
    BY <2>3, <2>4, <2>5, FieldsNext DEF BaseInv
<1>4. ASSUME NEW i \in Slots, ~Busy(w, i), Goto(w, "loop"),
             SetSlot(w, i, [st |-> "handling", msg |-> got[w], timer |-> HeartbeatInterval]),
             UNCHANGED <<status, left, late, faults>>
      PROVE  BaseInv'
  <2>1. [st |-> "handling", msg |-> got[w], timer |-> HeartbeatInterval] \in SlotStates
    BY <1>1, Times DEF SlotStates
  <2>2. /\ slot' \in [Workers -> [Slots -> SlotStates]]
        /\ slot'[w][i] = [st |-> "handling", msg |-> got[w], timer |-> HeartbeatInterval]
        /\ \A v \in Workers : \A j \in Slots : (v = w /\ j = i) \/ slot'[v][j] = slot[v][j]
    BY <1>0, <1>4, <2>1, SlotChange
  <2>3. pc' \in [Workers -> Places] /\ pc'[w] = "loop" /\ \A v \in Workers : v = w \/ pc'[v] = pc[v]
    BY <1>0, <1>4, PcChange DEF Places
  <2>4. Typed'
    BY <1>0, <1>1, <1>2, <1>4, <2>2, <2>3 DEF Typed
  <2>5. SlotKept'
    BY <1>0, <1>1, <2>2, <2>3 DEF SlotKept, Busy
  <2>7. MessageInv'
    <3>1. \A v \in Workers : \A j \in Slots : Busy(v, j)' => slot'[v][j].msg \in Messages
      BY <1>0, <1>1, <2>2 DEF MessageInv, Busy
    <3>2. \A v \in Workers : pc'[v] = "got" => got'[v] \in Messages
      BY <1>0, <1>1, <1>2, <2>3 DEF MessageInv
    <3>. QED
      BY <3>1, <3>2 DEF MessageInv
  <2>6. HandledInv'
    BY <1>0, <1>1, <1>4, <2>2 DEF HandledInv, SettledMeansHandled
  <2>. QED
    BY <2>4, <2>5, <2>6, <2>7, FieldsNext DEF BaseInv
<1>5. (CHOOSE i \in Free(w) : TRUE) \in Free(w)
  BY <1>0, <1>1 DEF SlotKept, Free, Busy
<1>6. CASE ended[w]
  BY <1>3, <1>6 DEF GotMessage
<1>7. CASE ~ended[w]
  <2>1. PICK i \in Slots : i = (CHOOSE j \in Free(w) : TRUE) /\ ~Busy(w, i)
    BY <1>5 DEF Free, Busy
  <2>. QED
    BY <1>4, <1>7, <2>1 DEF GotMessage
<1>. QED
  BY <1>6, <1>7

(* A step of process: its slot keeps its message or becomes free.           *)
LEMMA BaseSlot ==
    ASSUME BaseInv, NEW w \in Workers, NEW i \in Slots, NEW s \in SlotStates, Busy(w, i), SetSlot(w, i, s),
           s.st # "free" => s.msg = slot[w][i].msg,
           s.st \in {"ok", "term"} => s.msg \in handled',
           UNCHANGED <<gone, pc, ended, pull, got, reclaimed>>,
           status' \in [Messages -> Statuses], left' \in [Messages -> Nat], late' \in SUBSET Acks,
           faults' \in 0 .. MaxFaults, failures' \in 0 .. MaxFailures,
           handedOff' \in [Workers -> SUBSET Messages],
           handled' \in {handled, handled \cup {slot[w][i].msg}},
           \A n \in Messages : status'[n] = "settled" => status[n] = "settled" \/ n \in handled,
           \A a \in late' : a \in late \/ (a.kind \in {"ack", "term"} => a.msg \in handled)
    PROVE  BaseInv'
<1>0. Typed /\ SlotKept /\ MessageInv /\ HandledInv
  BY Fields DEF BaseInv
<1>1. /\ slot' \in [Workers -> [Slots -> SlotStates]] /\ slot'[w][i] = s
      /\ \A v \in Workers : \A j \in Slots : (v = w /\ j = i) \/ slot'[v][j] = slot[v][j]
  BY <1>0, SlotChange
<1>2. slot[w][i].msg \in Messages
  BY <1>0 DEF MessageInv
<1>3. Typed'
  BY <1>0, <1>1, <1>2 DEF Typed
<1>4. SlotKept'
  <2>1. ASSUME NEW v \in Workers, NEW j \in Slots, ~Busy(v, j) PROVE ~Busy(v, j)'
    BY <1>1, <2>1 DEF Busy
  <2>. QED
    BY <1>0, <2>1 DEF SlotKept
<1>5. MessageInv'
  <2>1. ASSUME NEW v \in Workers, NEW j \in Slots, Busy(v, j)' PROVE slot'[v][j].msg \in Messages
    BY <1>0, <1>1, <1>2, <2>1 DEF MessageInv, Busy
  <2>. QED
    BY <1>0, <2>1 DEF MessageInv
<1>6. HandledInv'
  <2>1. \A m \in Messages : status'[m] = "settled" => m \in handled'
    BY <1>0 DEF HandledInv, SettledMeansHandled
  <2>2. ASSUME NEW v \in Workers, NEW j \in Slots, slot'[v][j].st \in {"ok", "term"}
        PROVE  slot'[v][j].msg \in handled'
    BY <1>0, <1>1, <2>2 DEF HandledInv
  <2>3. \A a \in late' : a.kind \in {"ack", "term"} => a.msg \in handled'
    BY <1>0 DEF HandledInv
  <2>. QED
    BY <2>1, <2>2, <2>3 DEF HandledInv, SettledMeansHandled
<1>. QED
  BY <1>3, <1>4, <1>5, <1>6, FieldsNext DEF BaseInv

LEMMA SlotFacts ==
    ASSUME BaseInv, NEW w \in Workers, NEW i \in Slots
    PROVE  /\ slot[w][i] \in SlotStates /\ slot[w][i].timer \in Nat
           /\ Busy(w, i) => slot[w][i].msg \in Messages
           /\ FreeSlot \in SlotStates /\ FreeSlot.st = "free" /\ FreeSlot.msg = NoMessage
<1>1. slot[w][i] \in SlotStates
  BY Fields DEF BaseInv, Typed
<1>2. FreeSlot \in SlotStates /\ FreeSlot.st = "free" /\ FreeSlot.msg = NoMessage
  BY DEF FreeSlot, SlotStates
<1>. QED
  BY <1>1, <1>2 DEF SlotStates, BaseInv, MessageInv

(* What a step of process sends, and what becomes of its slot.              *)
LEMMA BaseSend ==
    ASSUME BaseInv, NEW w \in Workers, NEW i \in Slots, NEW s \in SlotStates, Busy(w, i), SetSlot(w, i, s),
           s.st # "free" => s.msg = slot[w][i].msg, s.st \in {"free", "handling", "waiting"},
           NEW kind \in AckKinds, NEW delay \in Nat, Send(kind, slot[w][i].msg, delay),
           kind \in {"ack", "term"} => slot[w][i].st \in {"ok", "term"},
           UNCHANGED <<gone, pc, ended, pull, got, reclaimed, handled, failures>>,
           handedOff' \in [Workers -> SUBSET Messages]
    PROVE  BaseInv'
<1>0. Typed /\ HandledInv /\ slot[w][i].msg \in Messages
  BY Fields, SlotFacts DEF BaseInv
<1>1. kind \in {"ack", "term"} => slot[w][i].msg \in handled
  BY <1>0 DEF HandledInv
<1>2. /\ status' \in [Messages -> Statuses] /\ left' \in [Messages -> Nat]
      /\ late' \in SUBSET Acks /\ faults' \in 0 .. MaxFaults
      /\ late' \subseteq late \cup {[kind |-> kind, msg |-> slot[w][i].msg, delay |-> delay]}
      /\ \A n \in Messages : status'[n] = "settled" =>
            status[n] = "settled" \/ (n = slot[w][i].msg /\ kind \in {"ack", "term"})
  BY <1>0, SendEffect
<1>3. \A n \in Messages : status'[n] = "settled" => status[n] = "settled" \/ n \in handled
  BY <1>1, <1>2
<1>4. \A a \in late' : a \in late \/ (a.kind \in {"ack", "term"} => a.msg \in handled)
  BY <1>1, <1>2
<1>5. failures' \in 0 .. MaxFailures /\ handled' \in {handled, handled \cup {slot[w][i].msg}}
      /\ ~(s.st \in {"ok", "term"})
  BY <1>0 DEF Typed
<1>. QED
  BY <1>2, <1>3, <1>4, <1>5, BaseSlot

LEMMA BaseProcess ==
    ASSUME BaseInv, NEW w \in Workers, NEW i \in Slots,
           Process(w, i) \/ \E result \in Results : HandlerReturns(w, i, result)
    PROVE  BaseInv'
<1>. USE DEF consumer, run, history
<1>0. Typed /\ HandledInv
  BY Fields DEF BaseInv
<1>1. ASSUME NEW result \in Results, HandlerReturns(w, i, result) PROVE BaseInv'
  <2> DEFINE s == [slot[w][i] EXCEPT !.st = result, !.timer = 0]
  <2>1. /\ Busy(w, i) /\ SetSlot(w, i, s) /\ UNCHANGED <<status, left, gone, late, pc, ended, pull, got, handedOff, reclaimed, faults>>
        /\ handled' = (IF result = "error" THEN handled ELSE handled \cup {slot[w][i].msg})
        /\ failures' = failures \/ Failure
    BY <1>1 DEF HandlerReturns, Busy
  <2>2. s \in SlotStates /\ s.st = result /\ s.msg = slot[w][i].msg
    BY <1>1, SlotFacts DEF SlotStates
  <2>3. failures' \in 0 .. MaxFailures
    BY <1>0, <2>1, Times DEF Typed, Failure
  <2>4. result \in {"ok", "term"} => slot[w][i].msg \in handled'
    BY <2>1
  <2>5. /\ handled' \in {handled, handled \cup {slot[w][i].msg}}
        /\ \A n \in Messages : status'[n] = "settled" => status[n] = "settled" \/ n \in handled
        /\ \A a \in late' : a \in late \/ (a.kind \in {"ack", "term"} => a.msg \in handled)
    BY <2>1
  <2>6. /\ status' \in [Messages -> Statuses] /\ left' \in [Messages -> Nat] /\ late' \in SUBSET Acks
        /\ faults' \in 0 .. MaxFaults /\ handedOff' \in [Workers -> SUBSET Messages]
    BY <1>0, <2>1 DEF Typed
  <2>. HIDE DEF s
  <2>. QED
    BY <2>1, <2>2, <2>3, <2>4, <2>5, <2>6, BaseSlot
<1>2. CASE HandlerStops(w, i)
  <2>1. /\ Busy(w, i) /\ SetSlot(w, i, FreeSlot)
        /\ UNCHANGED <<status, left, gone, late, pc, ended, pull, got, handled, handedOff, reclaimed, faults, failures>>
    BY <1>2 DEF HandlerStops, Busy
  <2>2. /\ handled' \in {handled, handled \cup {slot[w][i].msg}}
        /\ \A n \in Messages : status'[n] = "settled" => status[n] = "settled" \/ n \in handled
        /\ \A a \in late' : a \in late \/ (a.kind \in {"ack", "term"} => a.msg \in handled)
    BY <2>1
  <2>3. /\ status' \in [Messages -> Statuses] /\ left' \in [Messages -> Nat] /\ late' \in SUBSET Acks
        /\ faults' \in 0 .. MaxFaults /\ failures' \in 0 .. MaxFailures /\ handedOff' \in [Workers -> SUBSET Messages]
    BY <1>0, <2>1 DEF Typed
  <2>4. FreeSlot \in SlotStates /\ FreeSlot.st = "free"
    BY SlotFacts
  <2>. QED
    BY <2>1, <2>2, <2>3, <2>4, BaseSlot
<1>3. CASE Heartbeat(w, i)
  <2> DEFINE s == [slot[w][i] EXCEPT !.timer = HeartbeatInterval]
  <2>1. /\ Busy(w, i) /\ SetSlot(w, i, s) /\ slot[w][i].st = "handling"
        /\ Send("progress", slot[w][i].msg, 0)
        /\ UNCHANGED <<gone, pc, ended, pull, got, handled, handedOff, reclaimed, failures>>
    BY <1>3 DEF Heartbeat, Busy
  <2>2. s \in SlotStates /\ s.st = "handling" /\ s.msg = slot[w][i].msg
    BY <2>1, SlotFacts, Times DEF SlotStates
  <2>3. "progress" \in AckKinds \ {"ack", "term"} /\ 0 \in Nat /\ handedOff' \in [Workers -> SUBSET Messages]
    BY <1>0, <2>1 DEF AckKinds, Typed
  <2>. HIDE DEF s
  <2>. QED
    BY <2>1, <2>2, <2>3, BaseSend
<1>4. CASE Handoff(w, i)
  <2> DEFINE s == IF slot[w][i].st = "handling" THEN [slot[w][i] EXCEPT !.st = "waiting", !.timer = StopBound]
                  ELSE FreeSlot
  <2>1. /\ Busy(w, i) /\ SetSlot(w, i, s) /\ Send("nak", slot[w][i].msg, HandoffDelay)
        /\ handedOff' = [handedOff EXCEPT ![w] = @ \cup {slot[w][i].msg}]
        /\ UNCHANGED <<gone, pc, ended, pull, got, handled, reclaimed, failures>>
    BY <1>4 DEF Handoff, Busy, Results
  <2>2. s \in SlotStates /\ s.st \in {"free", "waiting"} /\ (s.st # "free" => s.msg = slot[w][i].msg)
    BY SlotFacts, Times DEF SlotStates
  <2>3. handedOff' \in [Workers -> SUBSET Messages]
    <3>1. slot[w][i].msg \in Messages
      BY <2>1, SlotFacts
    <3>. QED
      BY <1>0, <2>1, <3>1 DEF Typed
  <2>4. "nak" \in AckKinds \ {"ack", "term"} /\ HandoffDelay \in Nat
    BY Times DEF AckKinds
  <2>. HIDE DEF s
  <2>. QED
    BY <2>1, <2>2, <2>3, <2>4, BaseSend
<1>5. CASE Finish(w, i)
  <2>1. PICK delay \in {0, RetryDelay} : Send(Verdict(slot[w][i].st), slot[w][i].msg, delay)
    BY <1>5 DEF Finish
  <2>2. /\ Busy(w, i) /\ SetSlot(w, i, FreeSlot) /\ slot[w][i].st \in Results
        /\ UNCHANGED <<gone, pc, ended, pull, got, handled, handedOff, reclaimed, failures>>
    BY <1>5 DEF Finish, Busy, Results
  <2>3. /\ Verdict(slot[w][i].st) \in AckKinds
        /\ Verdict(slot[w][i].st) \in {"ack", "term"} => slot[w][i].st \in {"ok", "term"}
    BY <2>2 DEF Verdict, Results, AckKinds
  <2>4. delay \in Nat
    BY Times
  <2>5. FreeSlot \in SlotStates /\ FreeSlot.st = "free" /\ handedOff' \in [Workers -> SUBSET Messages]
    BY <1>0, <2>2, SlotFacts DEF Typed
  <2>. QED
    BY <2>1, <2>2, <2>3, <2>4, <2>5, BaseSend
<1>. QED
  BY <1>1, <1>2, <1>3, <1>4, <1>5 DEF Process

LEMMA BaseCrash == ASSUME BaseInv, NEW w \in Workers, Crash(w) PROVE BaseInv'
<1>. USE DEF consumer, run, history
<1>0. Typed /\ SlotKept /\ MessageInv /\ HandledInv /\ FreeSlot \in SlotStates /\ FreeSlot.st = "free"
  BY Fields DEF BaseInv, FreeSlot, SlotStates
<1>1. failures' \in 0 .. MaxFailures
  BY <1>0, Times DEF Crash, Failure, Typed
<1>2. /\ pc' \in [Workers -> Places] /\ pc'[w] = "down" /\ \A v \in Workers : v = w \/ pc'[v] = pc[v]
      /\ got' \in [Workers -> Messages \cup {NoMessage}] /\ \A v \in Workers : v = w \/ got'[v] = got[v]
  BY <1>0, PcChange DEF Crash, Typed, Places
<1>3. /\ slot' \in [Workers -> [Slots -> SlotStates]]
      /\ \A v \in Workers : \A j \in Slots :
            IF v = w THEN slot'[v][j].st = "free" ELSE slot'[v][j] = slot[v][j]
  BY <1>0 DEF Crash, Typed
<1>4. Typed'
  BY <1>0, <1>1, <1>2, <1>3 DEF Crash, Typed
<1>5. SlotKept'
  BY <1>0, <1>2, <1>3 DEF SlotKept, Busy
<1>7. MessageInv'
  BY <1>0, <1>2, <1>3 DEF MessageInv, Busy
<1>6. HandledInv'
  BY <1>0, <1>3 DEF Crash, HandledInv, SettledMeansHandled
<1>. QED
  BY <1>4, <1>5, <1>6, <1>7, FieldsNext DEF BaseInv

LEMMA BaseNext == ASSUME BaseInv, [Next]_vars PROVE BaseInv'
<1>1. CASE UNCHANGED vars
  <2>1. Typed /\ SlotKept /\ MessageInv /\ HandledInv
    BY Fields DEF BaseInv
  <2>2. Typed' /\ SlotKept' /\ MessageInv' /\ HandledInv'
    BY <1>1, <2>1 DEF vars, consumer, run, history, Typed, SlotKept, MessageInv, HandledInv, SettledMeansHandled, Busy
  <2>. QED
    BY <2>2, FieldsNext DEF BaseInv
<1>. QED
  BY <1>1, BaseServer, BaseMoves, BaseGot, BaseProcess, BaseCrash DEF Next, Serve

----------------------------------------------------------------------------
(* What holds as long as nothing was lost, late or deleted.                 *)

Calm ==
    /\ ~gone /\ late = {}
    /\ \A w \in Workers : pc[w] \in {"draining", "returned"} => ended[w]

(* A held message is pending and is redelivered only after its holder had   *)
(* to act.                                                                  *)
SlotsHold ==
    \A w \in Workers : \A i \in Slots : Busy(w, i) =>
        status[slot[w][i].msg] = "pending" /\ slot[w][i].timer < left[slot[w][i].msg]
FetchHolds == \A w \in Workers : pc[w] = "got" => status[got[w]] = "pending" /\ left[got[w]] = AckWait

(* It has one holder.                                                       *)
OneSlot ==
    \A w, v \in Workers : \A i, j \in Slots :
        Busy(w, i) /\ Busy(v, j) /\ slot[w][i].msg = slot[v][j].msg => w = v /\ i = j
SlotOrFetch ==
    \A w, v \in Workers : \A i \in Slots : pc[w] = "got" /\ Busy(v, i) => slot[v][i].msg # got[w]
OneFetch == \A w, v \in Workers : pc[w] = "got" /\ pc[v] = "got" /\ got[w] = got[v] => w = v

HoldInv == SlotsHold /\ FetchHolds /\ OneSlot /\ SlotOrFetch /\ OneFetch

(* The success of a handler waits for its acknowledgement, or is settled.   *)
OnceInv ==
    (\A w \in Workers : ~Stopped(w)) =>
        \A m \in handled :
            \/ status[m] = "settled"
            \/ \E w \in Workers : \E i \in Slots : slot[w][i].msg = m /\ slot[w][i].st \in {"ok", "term"}

(* While a pull of the worker that handed it off is open, a message stays   *)
(* pending and only its cancelled handler still holds it.                   *)
Away(w, m) ==
    /\ status[m] = "pending" /\ left[m] > pull[w]
    /\ \A v \in Workers : \A i \in Slots : Busy(v, i) /\ slot[v][i].msg = m => slot[v][i].st = "waiting"
    /\ \A v \in Workers : pc[v] = "got" => got[v] # m
HandoffInv ==
    /\ ~reclaimed
    /\ \A w \in Workers : \A m \in handedOff[w] :
          /\ pc[w] \in {"draining", "returned", "down"}
          /\ pull[w] > 0 => Away(w, m)

Quiet == Calm /\ HoldInv /\ OnceInv /\ HandoffInv

LEMMA QuietInit == Init => Quiet
<1>. SUFFICES ASSUME Init PROVE Quiet
  OBVIOUS
<1>1. \A w \in Workers : \A i \in Slots : ~Busy(w, i)
  BY DEF Init, Busy, FreeSlot
<1>2. \A w \in Workers : pc[w] = "loop" /\ handedOff[w] = {}
  BY DEF Init
<1>3. HoldInv
  BY <1>1, <1>2 DEF HoldInv, SlotsHold, FetchHolds, OneSlot, SlotOrFetch, OneFetch
<1>. QED
  BY <1>2, <1>3 DEF Init, Quiet, Calm, OnceInv, HandoffInv

(* Faults are never taken back.                                             *)
LEMMA Faultless ==
    ASSUME BaseInv, faults' = 0, Fault PROVE FALSE
BY Fields, Times DEF BaseInv, Typed, Fault

(* What an acknowledgement does to a message that is held.                  *)
LEMMA QuietSend ==
    ASSUME BaseInv, Calm, faults' = 0, NEW kind \in AckKinds, NEW m \in Messages, NEW delay \in Nat,
           Send(kind, m, delay), status[m] = "pending"
    PROVE  /\ late' = late /\ faults = 0
           /\ status' \in [Messages -> Statuses] /\ left' \in [Messages -> Nat]
           /\ \A n \in Messages : n = m \/ (status'[n] = status[n] /\ left'[n] = left[n])
           /\ kind \in {"ack", "term"} => status'[m] = "settled"
           /\ kind = "nak" /\ delay = 0 => status'[m] = "ready"
           /\ kind = "nak" /\ delay # 0 => status'[m] = "pending" /\ left'[m] = delay
           /\ kind = "progress" => status'[m] = "pending" /\ left'[m] = AckWait
           /\ \A n \in Messages : status[n] = "settled" => status'[n] = "settled"
<1>1. Typed
  BY Fields DEF BaseInv
<1>2. faults = 0 /\ late' = late /\ Receive(kind, m, delay)
  BY <1>1, SendEffect DEF Calm
<1>. QED
  BY <1>1, <1>2, ReceiveEffect

(* A step of the process that holds m in a slot: it may change the state of *)
(* m, and it keeps the message or lets it go.                               *)
SlotStep(w, i, m, s) ==
    /\ w \in Workers /\ i \in Slots /\ Busy(w, i) /\ slot[w][i].msg = m
    /\ slot'[w][i] = s
    /\ \A v \in Workers : \A j \in Slots : (v = w /\ j = i) \/ slot'[v][j] = slot[v][j]
    /\ \A n \in Messages : n = m \/ (status'[n] = status[n] /\ left'[n] = left[n])
    /\ pc' = pc /\ got' = got
    /\ s.st # "free" => s.msg = m /\ status'[m] = "pending" /\ s.timer < left'[m]

LEMMA HoldStep ==
    ASSUME BaseInv, HoldInv, NEW w, NEW i, NEW m, NEW s, SlotStep(w, i, m, s)
    PROVE  HoldInv'
<1>0. MessageInv
  BY DEF BaseInv
<1>1. /\ \A v \in Workers : \A j \in Slots :
            Busy(v, j)' => Busy(v, j) /\ slot'[v][j].msg = slot[v][j].msg /\ slot[v][j].msg \in Messages
      /\ w \in Workers /\ i \in Slots /\ Busy(w, i) /\ slot[w][i].msg = m
  BY <1>0 DEF SlotStep, Busy, MessageInv
<1>2. SlotsHold'
  <2>. SUFFICES ASSUME NEW v \in Workers, NEW j \in Slots, Busy(v, j)'
                PROVE  status'[slot'[v][j].msg] = "pending" /\ slot'[v][j].timer < left'[slot'[v][j].msg]
    BY DEF SlotsHold
  <2>1. CASE v = w /\ j = i
    BY <2>1 DEF SlotStep, Busy
  <2>2. CASE ~(v = w /\ j = i)
    <3>1. slot'[v][j] = slot[v][j]
      BY <2>2 DEF SlotStep
    <3>2. slot[v][j].msg # m /\ slot[v][j].msg \in Messages
      BY <1>1, <2>2 DEF HoldInv, OneSlot
    <3>. QED
      BY <1>1, <3>1, <3>2 DEF SlotStep, HoldInv, SlotsHold
  <2>. QED
    BY <2>1, <2>2
<1>3. FetchHolds'
  <2>. SUFFICES ASSUME NEW v \in Workers, pc'[v] = "got"
                PROVE  status'[got'[v]] = "pending" /\ left'[got'[v]] = AckWait
    BY DEF FetchHolds
  <2>1. pc[v] = "got" /\ got'[v] = got[v] /\ got[v] \in Messages /\ got[v] # m
    BY <1>0, <1>1 DEF SlotStep, MessageInv, HoldInv, SlotOrFetch
  <2>. QED
    BY <2>1 DEF SlotStep, HoldInv, FetchHolds
<1>4. OneSlot'
  BY <1>1 DEF HoldInv, OneSlot
<1>5. SlotOrFetch' /\ OneFetch'
  BY <1>1 DEF HoldInv, SlotOrFetch, OneFetch, SlotStep
<1>. QED
  BY <1>2, <1>3, <1>4, <1>5 DEF HoldInv

(* Such a step leaves the handoffs of every worker alone, unless it is the  *)
(* cancelled handler that lets go of its message.                           *)
LEMMA AwayStep ==
    ASSUME BaseInv, HandoffInv, NEW w, NEW i, NEW m, NEW s, SlotStep(w, i, m, s), pull' = pull, reclaimed' = reclaimed,
           slot[w][i].st # "waiting" \/ (s.st = "free" /\ status' = status /\ left' = left),
           NEW v \in Workers, NEW n \in handedOff[v]
    PROVE  pc'[v] \in {"draining", "returned", "down"} /\ (pull'[v] > 0 => Away(v, n)')
<1>0. MessageInv /\ n \in Messages /\ w \in Workers /\ i \in Slots
  BY Fields DEF BaseInv, Typed, SlotStep
<1>1. pc'[v] \in {"draining", "returned", "down"}
  BY DEF HandoffInv, SlotStep
<1>2. ASSUME pull'[v] > 0 PROVE Away(v, n)'
  <2>1. Away(v, n)
    BY <1>2 DEF HandoffInv
  <2>2. status'[n] = "pending" /\ left'[n] > pull'[v]
    <3>1. CASE slot[w][i].st # "waiting"
      <4>1. n # m
        BY <1>0, <2>1, <3>1 DEF Away, SlotStep
      <4>. QED
        BY <1>0, <2>1, <4>1 DEF Away, SlotStep
    <3>2. CASE status' = status /\ left' = left
      BY <2>1, <3>2 DEF Away
    <3>. QED
      BY <3>1, <3>2
  <2>3. \A u \in Workers : \A j \in Slots : Busy(u, j)' /\ slot'[u][j].msg = n => slot'[u][j].st = "waiting"
    <3>. SUFFICES ASSUME NEW u \in Workers, NEW j \in Slots, Busy(u, j)', slot'[u][j].msg = n
                  PROVE  slot'[u][j].st = "waiting"
      OBVIOUS
    <3>1. CASE u = w /\ j = i
      BY <1>0, <2>1, <3>1 DEF Away, SlotStep, Busy
    <3>2. CASE ~(u = w /\ j = i)
      BY <2>1, <3>2 DEF Away, SlotStep, Busy
    <3>. QED
      BY <3>1, <3>2
  <2>4. \A u \in Workers : pc'[u] = "got" => got'[u] # n
    BY <2>1 DEF Away, SlotStep
  <2>. QED
    BY <2>2, <2>3, <2>4 DEF Away
<1>. QED
  BY <1>1, <1>2

(* A message whose handler has not succeeded is not yet handled.            *)
LEMMA NotYetHandled ==
    ASSUME BaseInv, HoldInv, OnceInv, NEW w \in Workers, NEW i \in Slots, Busy(w, i),
           slot[w][i].st \notin {"ok", "term"}, \A v \in Workers : ~Stopped(v)
    PROVE  slot[w][i].msg \notin handled
<1>. SUFFICES ASSUME slot[w][i].msg \in handled PROVE FALSE
  OBVIOUS
<1>1. status[slot[w][i].msg] # "settled"
  BY DEF HoldInv, SlotsHold
<1>2. PICK v \in Workers : \E j \in Slots : slot[v][j].msg = slot[w][i].msg /\ slot[v][j].st \in {"ok", "term"}
  BY <1>1 DEF OnceInv
<1>3. PICK j \in Slots : slot[v][j].msg = slot[w][i].msg /\ slot[v][j].st \in {"ok", "term"}
  BY <1>2
<1>4. v = w /\ j = i
  BY <1>3 DEF HoldInv, OneSlot, Busy
<1>. QED
  BY <1>3, <1>4

LEMMA OnceStep ==
    ASSUME BaseInv, OnceInv, NEW w, NEW i, NEW m, NEW s, SlotStep(w, i, m, s), ended' = ended,
           \A n \in handled' : n = m \/ n \in handled,
           \A n \in Messages : status[n] = "settled" => status'[n] = "settled",
           (\A v \in Workers : ~Stopped(v)) /\ m \in handled' =>
               status'[m] = "settled" \/ (s.msg = m /\ s.st \in {"ok", "term"})
    PROVE  OnceInv'
<1>. SUFFICES ASSUME \A v \in Workers : ~Stopped(v)', NEW n \in handled'
              PROVE  \/ status'[n] = "settled"
                     \/ \E v \in Workers : \E j \in Slots : slot'[v][j].msg = n /\ slot'[v][j].st \in {"ok", "term"}
  BY DEF OnceInv
<1>1. \A v \in Workers : ~Stopped(v)
  BY DEF Stopped, SlotStep
<1>2. CASE n = m
  BY <1>1, <1>2 DEF SlotStep
<1>3. CASE n # m
  <2>1. n \in handled /\ n \in Messages
    BY <1>3, Fields DEF BaseInv, Typed
  <2>2. CASE status[n] = "settled"
    BY <2>1, <2>2
  <2>3. CASE \E v \in Workers : \E j \in Slots : slot[v][j].msg = n /\ slot[v][j].st \in {"ok", "term"}
    <3>1. PICK v \in Workers, j \in Slots : slot[v][j].msg = n /\ slot[v][j].st \in {"ok", "term"}
      BY <2>3
    <3>2. slot'[v][j] = slot[v][j]
      BY <1>3, <3>1 DEF SlotStep
    <3>. QED
      BY <3>1, <3>2
  <2>. QED
    BY <1>1, <2>1, <2>2, <2>3 DEF OnceInv
<1>. QED
  BY <1>2, <1>3

(* A step of process that hands nothing off.                                *)
LEMMA QuietSlot ==
    ASSUME BaseInv, Quiet, NEW w, NEW i, NEW m, NEW s, SlotStep(w, i, m, s),
           UNCHANGED <<gone, late, ended, pull, handedOff, reclaimed>>,
           slot[w][i].st # "waiting" \/ (s.st = "free" /\ status' = status /\ left' = left),
           \A n \in handled' : n = m \/ n \in handled,
           \A n \in Messages : status[n] = "settled" => status'[n] = "settled",
           (\A v \in Workers : ~Stopped(v)) /\ m \in handled' =>
               status'[m] = "settled" \/ (s.msg = m /\ s.st \in {"ok", "term"})
    PROVE  Quiet'
<1>1. HoldInv'
  BY HoldStep DEF Quiet
<1>2. OnceInv'
  BY OnceStep DEF Quiet
<1>3. Calm'
  BY DEF Quiet, Calm, SlotStep
<1>4. HandoffInv'
  <2>1. ASSUME NEW v \in Workers, NEW n \in handedOff'[v]
        PROVE  pc'[v] \in {"draining", "returned", "down"} /\ (pull'[v] > 0 => Away(v, n)')
    <3>1. n \in handedOff[v] /\ HandoffInv
      BY <2>1 DEF Quiet
    <3>. QED
      BY <3>1, AwayStep
  <2>2. ~reclaimed'
    BY DEF Quiet, HandoffInv
  <2>. QED
    BY <2>1, <2>2 DEF HandoffInv
<1>. QED
  BY <1>1, <1>2, <1>3, <1>4 DEF Quiet

LEMMA QuietProcess ==
    ASSUME BaseInv, Quiet, faults' = 0, NEW w \in Workers, NEW i \in Slots,
           Process(w, i) \/ \E result \in Results : HandlerReturns(w, i, result)
    PROVE  Quiet'
<1>. USE DEF consumer, run, history
<1> DEFINE m == slot[w][i].msg
<1>0. /\ Typed /\ MessageInv /\ Calm /\ HoldInv /\ OnceInv
      /\ \A s \in SlotStates : SetSlot(w, i, s) =>
            slot'[w][i] = s /\ \A v \in Workers : \A j \in Slots : (v = w /\ j = i) \/ slot'[v][j] = slot[v][j]
  BY Fields, SlotChange DEF BaseInv, Quiet
<1>1. /\ slot[w][i] \in SlotStates /\ slot[w][i].timer \in Nat /\ FreeSlot \in SlotStates /\ FreeSlot.st = "free"
      /\ Busy(w, i) => /\ m \in Messages /\ status[m] = "pending" /\ slot[w][i].timer < left[m] /\ left[m] \in Nat
                       /\ slot[w][i].st \notin {"ok", "term"} /\ (\A v \in Workers : ~Stopped(v)) => m \notin handled
  BY <1>0, SlotFacts, NotYetHandled DEF HoldInv, SlotsHold, Typed
<1>. HIDE DEF m
<1>2. ASSUME NEW result \in Results, HandlerReturns(w, i, result) PROVE Quiet'
  <2> DEFINE s == [slot[w][i] EXCEPT !.st = result, !.timer = 0]
  <2>1. /\ Busy(w, i) /\ slot[w][i].st = "handling" /\ SetSlot(w, i, s)
        /\ UNCHANGED <<status, left, gone, late, pc, ended, pull, got, handedOff, reclaimed, faults>>
        /\ handled' = (IF result = "error" THEN handled ELSE handled \cup {m})
    BY <1>2 DEF HandlerReturns, Busy, m
  <2>2. s \in SlotStates /\ s.st = result /\ s.msg = m /\ s.timer = 0
    BY <1>1 DEF SlotStates, m
  <2>. HIDE DEF s
  <2>3. SlotStep(w, i, m, s)
    <3>1. s.timer < left'[m] /\ status'[m] = "pending"
      BY <1>1, <2>1, <2>2
    <3>. QED
      BY <1>0, <2>1, <2>2, <3>1 DEF SlotStep, m
  <2>4. (\A v \in Workers : ~Stopped(v)) /\ m \in handled' => s.msg = m /\ s.st \in {"ok", "term"}
    BY <1>1, <2>1, <2>2 DEF Results
  <2>5. /\ \A n \in handled' : n = m \/ n \in handled
        /\ \A n \in Messages : status[n] = "settled" => status'[n] = "settled"
    BY <2>1
  <2>. QED
    BY <2>1, <2>3, <2>4, <2>5, QuietSlot
<1>3. CASE HandlerStops(w, i)
  <2>1. /\ Busy(w, i) /\ slot[w][i].st = "waiting" /\ SetSlot(w, i, FreeSlot)
        /\ UNCHANGED <<status, left, gone, late, pc, ended, pull, got, handled, handedOff, reclaimed>>
    BY <1>3 DEF HandlerStops, Busy
  <2>2. SlotStep(w, i, m, FreeSlot)
    BY <1>0, <1>1, <2>1 DEF SlotStep, m
  <2>3. (\A v \in Workers : ~Stopped(v)) => m \notin handled'
    BY <1>1, <2>1
  <2>. QED
    BY <1>1, <2>1, <2>2, <2>3, QuietSlot
<1>4. CASE Heartbeat(w, i)
  <2> DEFINE s == [slot[w][i] EXCEPT !.timer = HeartbeatInterval]
  <2>1. /\ Busy(w, i) /\ slot[w][i].st = "handling" /\ SetSlot(w, i, s) /\ Send("progress", m, 0)
        /\ UNCHANGED <<gone, pc, ended, pull, got, handled, handedOff, reclaimed>>
    BY <1>4 DEF Heartbeat, Busy, m
  <2>2. s \in SlotStates /\ s.st = "handling" /\ s.msg = m /\ s.timer = HeartbeatInterval
    BY <1>1, <2>1, Times DEF SlotStates, m
  <2>3. /\ late' = late /\ \A n \in Messages : n = m \/ (status'[n] = status[n] /\ left'[n] = left[n])
        /\ status'[m] = "pending" /\ left'[m] = AckWait
        /\ \A n \in Messages : status[n] = "settled" => status'[n] = "settled"
    BY <1>0, <1>1, <2>1, QuietSend DEF AckKinds
  <2>. HIDE DEF s
  <2>4. SlotStep(w, i, m, s)
    BY <1>0, <2>1, <2>2, <2>3, Times DEF SlotStep, m
  <2>5. (\A v \in Workers : ~Stopped(v)) => m \notin handled'
    BY <1>1, <2>1
  <2>. QED
    BY <2>1, <2>3, <2>4, <2>5, QuietSlot
<1>5. CASE Finish(w, i)
  <2>1. PICK delay \in {0, RetryDelay} : Send(Verdict(slot[w][i].st), m, delay)
    BY <1>5 DEF Finish, m
  <2>2. /\ Busy(w, i) /\ SetSlot(w, i, FreeSlot) /\ slot[w][i].st \in Results
        /\ UNCHANGED <<gone, pc, ended, pull, got, handled, handedOff, reclaimed>>
    BY <1>5 DEF Finish, Busy, Results
  <2>3. /\ Verdict(slot[w][i].st) \in AckKinds /\ delay \in Nat
        /\ slot[w][i].st \in {"ok", "term"} => Verdict(slot[w][i].st) \in {"ack", "term"}
    BY <2>2, Times DEF Verdict, Results, AckKinds
  <2>4. /\ late' = late /\ \A n \in Messages : n = m \/ (status'[n] = status[n] /\ left'[n] = left[n])
        /\ Verdict(slot[w][i].st) \in {"ack", "term"} => status'[m] = "settled"
        /\ \A n \in Messages : status[n] = "settled" => status'[n] = "settled"
    BY <1>0, <1>1, <2>1, <2>2, <2>3, QuietSend
  <2>5. SlotStep(w, i, m, FreeSlot)
    BY <1>0, <1>1, <2>2, <2>4 DEF SlotStep, m
  <2>6. (\A v \in Workers : ~Stopped(v)) /\ m \in handled' => status'[m] = "settled"
    BY <1>1, <2>2, <2>3, <2>4
  <2>7. slot[w][i].st # "waiting" /\ handled' = handled
    BY <2>2 DEF Results
  <2>. QED
    BY <2>2, <2>4, <2>5, <2>6, <2>7, QuietSlot
<1>6. CASE Handoff(w, i)
  <2> DEFINE s == IF slot[w][i].st = "handling" THEN [slot[w][i] EXCEPT !.st = "waiting", !.timer = StopBound]
                  ELSE FreeSlot
  <2>1. /\ Busy(w, i) /\ slot[w][i].st # "waiting" /\ SetSlot(w, i, s) /\ Send("nak", m, HandoffDelay)
        /\ pc[w] = "draining" /\ handedOff' = [handedOff EXCEPT ![w] = @ \cup {m}]
        /\ UNCHANGED <<gone, pc, ended, pull, got, handled, reclaimed>>
    BY <1>6 DEF Handoff, Busy, Results, Cancelled, m
  <2>2. s \in SlotStates /\ s.st \in {"free", "waiting"}
        /\ (s.st # "free" => s.msg = m /\ s.timer = StopBound)
    BY <1>1, Times DEF SlotStates, m
  <2>3. /\ late' = late /\ \A n \in Messages : n = m \/ (status'[n] = status[n] /\ left'[n] = left[n])
        /\ status'[m] = "pending" /\ left'[m] = HandoffDelay
    BY <1>0, <1>1, <2>1, QuietSend, Times DEF AckKinds
  <2>. HIDE DEF s
  <2>4. SlotStep(w, i, m, s)
    BY <1>0, <2>1, <2>2, <2>3, Times DEF SlotStep, m
  <2>5. HoldInv' /\ Calm'
    BY <1>0, <2>1, <2>3, <2>4, HoldStep DEF Calm
  <2>6. OnceInv'
    BY <1>0, <2>1 DEF OnceInv, Stopped, Calm
  <2>7. ASSUME NEW v \in Workers, NEW n \in handedOff'[v]
        PROVE  pc'[v] \in {"draining", "returned", "down"} /\ (pull'[v] > 0 => Away(v, n)')
    <3>1. CASE n \in handedOff[v]
      BY <2>1, <2>4, <3>1, AwayStep DEF Quiet
    <3>2. CASE v = w /\ n = m
      <4>1. status'[m] = "pending" /\ left'[m] > pull'[w]
        <5>1. pull[w] \in 0 .. FetchMaxWait
          BY <1>0 DEF Typed
        <5>. QED
          BY <2>1, <2>3, <5>1, Times
      <4>2. \A u \in Workers : \A j \in Slots : Busy(u, j)' /\ slot'[u][j].msg = m => slot'[u][j].st = "waiting"
        <5>. SUFFICES ASSUME NEW u \in Workers, NEW j \in Slots, Busy(u, j)', slot'[u][j].msg = m
                      PROVE  slot'[u][j].st = "waiting"
          OBVIOUS
        <5>1. CASE u = w /\ j = i
          BY <2>2, <2>4, <5>1 DEF SlotStep, Busy
        <5>2. CASE ~(u = w /\ j = i)
          <6>1. slot'[u][j] = slot[u][j]
            BY <2>4, <5>2 DEF SlotStep
          <6>. QED
            BY <1>0, <2>1, <5>2, <6>1 DEF HoldInv, OneSlot, Busy, m
        <5>. QED
          BY <5>1, <5>2
      <4>3. \A u \in Workers : pc'[u] = "got" => got'[u] # m
        BY <1>0, <2>1 DEF HoldInv, SlotOrFetch, m
      <4>. QED
        BY <2>1, <3>2, <4>1, <4>2, <4>3 DEF Away
    <3>. QED
      BY <1>0, <2>1, <3>1, <3>2 DEF Typed
  <2>8. ~reclaimed'
    BY <2>1 DEF Quiet, HandoffInv
  <2>. QED
    BY <2>5, <2>6, <2>7, <2>8 DEF Quiet, HandoffInv
<1>. QED
  BY <1>2, <1>3, <1>4, <1>5, <1>6 DEF Process

LEMMA QuietMoves ==
    ASSUME BaseInv, Quiet, faults' = 0, NEW w \in Workers,
           Fetch(w) \/ StopLoop(w) \/ FetchTimeout(w) \/ FetchGone(w) \/ FetchError(w) \/ Resume(w) \/ Return(w) \/ Shutdown(w)
    PROVE  Quiet'
<1>. USE DEF consumer, run, history
<1>0. Typed /\ Calm /\ HoldInv /\ OnceInv /\ HandoffInv
  BY Fields DEF BaseInv, Quiet
<1>1. ~FetchGone(w) /\ ~FetchError(w)
  BY <1>0, Faultless DEF FetchGone, FetchError, Calm
<1>2. UNCHANGED <<status, left, gone, late, got, slot, handled, handedOff, reclaimed>>
  BY <1>1 DEF Fetch, StopLoop, FetchTimeout, Resume, Return, Shutdown
<1>3. /\ \A v \in Workers : v = w \/ (pc'[v] = pc[v] /\ pull'[v] = pull[v] /\ ended'[v] = ended[v])
      /\ pc[w] # "got" => pc'[w] # "got"
      /\ pc'[w] = "got" => pc[w] = "got"
      /\ ended[w] => ended'[w]
      /\ pc[w] = "down" => pc'[w] = "down"
      /\ pc[w] \in {"draining", "returned", "down"} => pc'[w] \in {"draining", "returned", "down"} /\ pull'[w] = pull[w]
      /\ pc'[w] \in {"draining", "returned"} => ended'[w]
      /\ pull'[w] = pull[w] \/ pc[w] = "loop"
  <2>1. CASE Fetch(w)
    BY <1>0, <2>1, PcChange DEF Fetch, Typed, Places
  <2>2. CASE StopLoop(w)
    BY <1>0, <2>2, PcChange DEF StopLoop, Places
  <2>3. CASE FetchTimeout(w) \/ Resume(w)
    BY <1>0, <2>3, PcChange DEF FetchTimeout, Resume, Places
  <2>4. CASE Return(w)
    BY <1>0, <2>4, PcChange DEF Return, Calm, Places
  <2>5. CASE Shutdown(w)
    BY <1>0, <2>5 DEF Shutdown, Typed, Calm
  <2>. QED
    BY <1>1, <2>1, <2>2, <2>3, <2>4, <2>5
<1>4. Calm'
  BY <1>0, <1>2, <1>3 DEF Calm
<1>5. SlotsHold' /\ OneSlot'
  BY <1>0, <1>2 DEF HoldInv, SlotsHold, OneSlot, Busy
<1>6. FetchHolds' /\ SlotOrFetch' /\ OneFetch'
  BY <1>0, <1>2, <1>3 DEF HoldInv, FetchHolds, SlotOrFetch, OneFetch, Busy
<1>7. OnceInv'
  BY <1>0, <1>2, <1>3 DEF OnceInv, Stopped
<1>8. HandoffInv'
  <2>1. ASSUME NEW v \in Workers, NEW m \in handedOff'[v]
        PROVE  pc'[v] \in {"draining", "returned", "down"} /\ (pull'[v] > 0 => Away(v, m)')
    <3>1. m \in handedOff[v] /\ pc[v] \in {"draining", "returned", "down"} /\ (pull[v] > 0 => Away(v, m))
      BY <1>0, <1>2, <2>1 DEF HandoffInv
    <3>2. pc'[v] \in {"draining", "returned", "down"} /\ pull'[v] = pull[v]
      BY <1>3, <3>1
    <3>3. ASSUME Away(v, m) PROVE Away(v, m)'
      BY <1>2, <1>3, <3>2, <3>3 DEF Away, Busy
    <3>. QED
      BY <3>1, <3>2, <3>3
  <2>. QED
    BY <1>0, <1>2, <2>1 DEF HandoffInv
<1>. QED
  BY <1>4, <1>5, <1>6, <1>7, <1>8 DEF Quiet, HoldInv

(* A fetched message is handed back, or takes a free slot.                  *)
LEMMA QuietGot == ASSUME BaseInv, Quiet, faults' = 0, NEW w \in Workers, GotMessage(w) PROVE Quiet'
<1>. USE DEF consumer, run, history
<1> DEFINE m == got[w]
<1>0. Typed /\ SlotKept /\ MessageInv /\ Calm /\ HoldInv /\ OnceInv /\ HandoffInv
  BY Fields DEF BaseInv, Quiet
<1>1. /\ pc[w] = "got" /\ m \in Messages /\ status[m] = "pending" /\ left[m] = AckWait
      /\ UNCHANGED <<gone, ended, pull, handled, handedOff, reclaimed>>
      /\ \A v \in Workers : v = w \/ got'[v] = got[v]
  BY <1>0 DEF GotMessage, MessageInv, HoldInv, FetchHolds, Typed
<1>2. /\ \A v \in Workers : \A j \in Slots : Busy(v, j) => slot[v][j].msg # m /\ slot[v][j].msg \in Messages
      /\ \A v \in Workers : v # w /\ pc[v] = "got" => got[v] # m /\ got[v] \in Messages
  BY <1>0, <1>1 DEF HoldInv, SlotOrFetch, OneFetch, MessageInv
<1>3. ASSUME NEW v \in Workers, NEW n \in handedOff[v], pull[v] > 0
      PROVE  Away(v, n) /\ n # m /\ n \in Messages
  BY <1>0, <1>1, <1>3 DEF HandoffInv, Away, Typed
<1>. HIDE DEF m
<1>4. CASE ended[w] /\ Send("nak", m, 0) /\ Goto(w, "draining") /\ slot' = slot
  <2>1. late' = late /\ \A n \in Messages : n = m \/ (status'[n] = status[n] /\ left'[n] = left[n])
    BY <1>0, <1>1, <1>4, QuietSend DEF AckKinds
  <2>2. pc'[w] = "draining" /\ \A v \in Workers : v = w \/ pc'[v] = pc[v]
    BY <1>0, <1>4, PcChange DEF Places
  <2>3. Calm'
    BY <1>0, <1>1, <1>4, <2>1, <2>2 DEF Calm
  <2>4. SlotsHold' /\ OneSlot'
    BY <1>0, <1>2, <1>4, <2>1 DEF HoldInv, SlotsHold, OneSlot, Busy
  <2>5. FetchHolds' /\ SlotOrFetch' /\ OneFetch'
    <3>1. \A v \in Workers : pc'[v] = "got" => /\ pc[v] = "got" /\ got'[v] = got[v]
                                                /\ status'[got[v]] = status[got[v]] /\ left'[got[v]] = left[got[v]]
      BY <1>1, <1>2, <2>1, <2>2
    <3>. QED
      BY <1>0, <1>4, <3>1 DEF HoldInv, FetchHolds, SlotOrFetch, OneFetch, Busy
  <2>6. OnceInv'
    BY <1>1, <1>4 DEF OnceInv, Stopped
  <2>7. ASSUME NEW v \in Workers, NEW n \in handedOff'[v]
        PROVE  pc'[v] \in {"draining", "returned", "down"} /\ (pull'[v] > 0 => Away(v, n)')
    <3>1. n \in handedOff[v] /\ pc[v] \in {"draining", "returned", "down"}
      BY <1>0, <1>1, <2>7 DEF HandoffInv
    <3>2. ASSUME pull'[v] > 0 PROVE Away(v, n)'
      <4>1. Away(v, n) /\ n # m /\ n \in Messages /\ pull'[v] = pull[v]
        BY <1>1, <1>3, <3>1, <3>2
      <4>2. \A u \in Workers : pc'[u] = "got" => got'[u] # n
        BY <1>1, <2>2, <4>1 DEF Away
      <4>3. status'[n] = "pending" /\ left'[n] > pull'[v]
        BY <2>1, <4>1 DEF Away
      <4>. QED
        BY <1>4, <4>1, <4>2, <4>3 DEF Away, Busy
    <3>. QED
      BY <2>2, <3>1, <3>2
  <2>. QED
    BY <1>0, <1>1, <2>3, <2>4, <2>5, <2>6, <2>7 DEF Quiet, HoldInv, HandoffInv
<1>5. ASSUME NEW i \in Slots, ~Busy(w, i), Goto(w, "loop"),
             SetSlot(w, i, [st |-> "handling", msg |-> m, timer |-> HeartbeatInterval]),
             UNCHANGED <<status, left, late, faults>>
      PROVE  Quiet'
  <2>1. [st |-> "handling", msg |-> m, timer |-> HeartbeatInterval] \in SlotStates
    BY <1>1, Times DEF SlotStates
  <2>2. /\ slot'[w][i] = [st |-> "handling", msg |-> m, timer |-> HeartbeatInterval]
        /\ \A v \in Workers : \A j \in Slots : (v = w /\ j = i) \/ slot'[v][j] = slot[v][j]
    BY <1>0, <1>5, <2>1, SlotChange
  <2>3. pc'[w] = "loop" /\ \A v \in Workers : v = w \/ pc'[v] = pc[v]
    BY <1>0, <1>5, PcChange DEF Places
  <2>4. /\ slot'[w][i].st = "handling" /\ slot'[w][i].msg = m /\ slot'[w][i].timer = HeartbeatInterval
        /\ \A v \in Workers : \A j \in Slots : Busy(v, j)' =>
              (v = w /\ j = i) \/ (Busy(v, j) /\ slot'[v][j] = slot[v][j])
    BY <2>2 DEF Busy
  <2>5. Calm'
    BY <1>0, <1>1, <1>5, <2>3 DEF Calm
  <2>6. SlotsHold'
    <3>. SUFFICES ASSUME NEW v \in Workers, NEW j \in Slots, Busy(v, j)'
                  PROVE  status'[slot'[v][j].msg] = "pending" /\ slot'[v][j].timer < left'[slot'[v][j].msg]
      BY DEF SlotsHold
    <3>1. CASE v = w /\ j = i
      BY <1>1, <1>5, <2>4, <3>1, Times
    <3>2. CASE Busy(v, j) /\ slot'[v][j] = slot[v][j]
      BY <1>0, <1>5, <3>2 DEF HoldInv, SlotsHold
    <3>. QED
      BY <2>4, <3>1, <3>2
  <2>7. OneSlot'
    BY <1>0, <1>2, <2>4 DEF HoldInv, OneSlot
  <2>8. \A v \in Workers : pc'[v] = "got" => pc[v] = "got" /\ v # w /\ got'[v] = got[v] /\ got[v] # m
    BY <1>1, <1>2, <2>3
  <2>9. FetchHolds' /\ SlotOrFetch' /\ OneFetch'
    BY <1>0, <1>5, <2>4, <2>8 DEF HoldInv, FetchHolds, SlotOrFetch, OneFetch
  <2>10. OnceInv'
    <3>. SUFFICES ASSUME \A v \in Workers : ~Stopped(v)', NEW n \in handled, status[n] # "settled"
                  PROVE  \E v \in Workers : \E j \in Slots : slot'[v][j].msg = n /\ slot'[v][j].st \in {"ok", "term"}
      BY <1>1, <1>5 DEF OnceInv
    <3>1. \A v \in Workers : ~Stopped(v)
      BY <1>1, <2>3 DEF Stopped
    <3>2. PICK v \in Workers, j \in Slots : slot[v][j].msg = n /\ slot[v][j].st \in {"ok", "term"}
      BY <1>0, <3>1 DEF OnceInv
    <3>3. slot'[v][j] = slot[v][j]
      BY <1>5, <2>2, <3>2 DEF Busy
    <3>. QED
      BY <3>2, <3>3
  <2>11. ASSUME NEW v \in Workers, NEW n \in handedOff'[v]
         PROVE  pc'[v] \in {"draining", "returned", "down"} /\ (pull'[v] > 0 => Away(v, n)')
    <3>1. n \in handedOff[v] /\ pc[v] \in {"draining", "returned", "down"}
      BY <1>0, <1>1, <2>11 DEF HandoffInv
    <3>2. ASSUME pull'[v] > 0 PROVE Away(v, n)'
      <4>1. Away(v, n) /\ n # m /\ n \in Messages /\ pull'[v] = pull[v]
        BY <1>1, <1>3, <3>1, <3>2
      <4>2. \A u \in Workers : pc'[u] = "got" => got'[u] # n
        BY <2>8, <4>1 DEF Away
      <4>3. \A u \in Workers : \A j \in Slots : Busy(u, j)' /\ slot'[u][j].msg = n => slot'[u][j].st = "waiting"
        BY <2>4, <4>1 DEF Away
      <4>4. status'[n] = "pending" /\ left'[n] > pull'[v]
        BY <1>5, <4>1 DEF Away
      <4>. QED
        BY <4>2, <4>3, <4>4 DEF Away
    <3>. QED
      BY <1>1, <2>3, <3>1, <3>2
  <2>. QED
    BY <1>0, <1>1, <2>5, <2>6, <2>7, <2>9, <2>10, <2>11 DEF Quiet, HoldInv, HandoffInv
<1>6. CASE ended[w]
  BY <1>4, <1>6 DEF GotMessage, m
<1>7. CASE ~ended[w]
  <2>1. (CHOOSE i \in Free(w) : TRUE) \in Free(w)
    BY <1>0, <1>1 DEF SlotKept, Free, Busy
  <2>2. PICK i \in Slots : i = (CHOOSE j \in Free(w) : TRUE) /\ ~Busy(w, i)
    BY <2>1 DEF Free, Busy
  <2>. QED
    BY <1>5, <1>7, <2>2 DEF GotMessage, m
<1>. QED
  BY <1>6, <1>7

LEMMA QuietCrash == ASSUME BaseInv, Quiet, faults' = 0, NEW w \in Workers, Crash(w) PROVE Quiet'
<1>. USE DEF consumer, run, history
<1>0. Typed /\ Calm /\ HoldInv /\ HandoffInv
  BY Fields DEF BaseInv, Quiet
<1>1. UNCHANGED <<status, left, gone, late, ended, pull, handled, handedOff, reclaimed>>
  BY DEF Crash
<1>2. pc'[w] = "down" /\ \A v \in Workers : v = w \/ (pc'[v] = pc[v] /\ got'[v] = got[v])
  BY <1>0, PcChange DEF Crash, Typed, Places
<1>3. \A v \in Workers : \A j \in Slots : Busy(v, j)' => Busy(v, j) /\ slot'[v][j] = slot[v][j]
  <2>1. FreeSlot.st = "free"
    BY DEF FreeSlot
  <2>. QED
    BY <1>0, <2>1 DEF Crash, Typed, Busy
<1>4. \A v \in Workers : pc'[v] = "got" => pc[v] = "got" /\ got'[v] = got[v]
  BY <1>2
<1>5. Calm'
  BY <1>0, <1>1, <1>2 DEF Calm
<1>6. SlotsHold' /\ OneSlot'
  BY <1>0, <1>1, <1>3 DEF HoldInv, SlotsHold, OneSlot
<1>7. FetchHolds' /\ SlotOrFetch' /\ OneFetch'
  BY <1>0, <1>1, <1>3, <1>4 DEF HoldInv, FetchHolds, SlotOrFetch, OneFetch
<1>8. OnceInv'
  BY <1>2 DEF OnceInv, Stopped
<1>9. ASSUME NEW v \in Workers, NEW n \in handedOff'[v]
      PROVE  pc'[v] \in {"draining", "returned", "down"} /\ (pull'[v] > 0 => Away(v, n)')
  <2>1. pc'[v] \in {"draining", "returned", "down"} /\ (pull'[v] > 0 => Away(v, n))
    BY <1>0, <1>1, <1>2, <1>9 DEF HandoffInv
  <2>2. ASSUME Away(v, n) PROVE Away(v, n)'
    BY <1>1, <1>3, <1>4, <2>2 DEF Away
  <2>. QED
    BY <2>1, <2>2
<1>. QED
  BY <1>0, <1>1, <1>5, <1>6, <1>7, <1>8, <1>9 DEF Quiet, HoldInv, HandoffInv

(* A message that is delivered was held by nobody.                          *)
LEMMA QuietDeliver ==
    ASSUME BaseInv, Quiet, faults' = 0, NEW w \in Workers, NEW m \in Messages, Deliver(w, m)
    PROVE  Quiet'
<1>0. Typed /\ MessageInv /\ Calm /\ HoldInv /\ OnceInv /\ HandoffInv
  BY Fields DEF BaseInv, Quiet
<1>1. /\ status[m] # "pending" /\ status[m] # "settled" /\ pull[w] > 0
      /\ status'[m] = "pending" /\ left'[m] = AckWait
      /\ \A n \in Messages : n = m \/ (status'[n] = status[n] /\ left'[n] = left[n])
      /\ pull'[w] = 0 /\ \A v \in Workers : v = w \/ pull'[v] = pull[v]
      /\ UNCHANGED <<gone, late, ended, slot, handled, handedOff>>
  BY <1>0 DEF Deliver, Typed
<1>2. IF pc[w] = "fetch"
      THEN /\ pc'[w] = "got" /\ got'[w] = m
           /\ \A v \in Workers : v = w \/ (pc'[v] = pc[v] /\ got'[v] = got[v])
      ELSE pc' = pc /\ got' = got
  BY <1>0, Faultless, PcChange DEF Deliver, Typed, Places
<1>3. \A v \in Workers : pc'[v] = "got" => (pc[v] = "got" /\ got'[v] = got[v]) \/ (v = w /\ got'[v] = m)
  BY <1>2
<1>4. /\ \A v \in Workers : \A j \in Slots : Busy(v, j) => slot[v][j].msg # m /\ slot[v][j].msg \in Messages
      /\ \A v \in Workers : pc[v] = "got" => got[v] # m /\ got[v] \in Messages
  BY <1>0, <1>1 DEF HoldInv, SlotsHold, FetchHolds, MessageInv
<1>5. ASSUME NEW v \in Workers, NEW n \in handedOff[v], pull[v] > 0
      PROVE  Away(v, n) /\ n # m /\ n \in Messages
  BY <1>0, <1>1, <1>5 DEF HandoffInv, Away, Typed
<1>6. Calm'
  <2>1. \A v \in Workers : pc'[v] \in {"draining", "returned"} => pc[v] = pc'[v]
    BY <1>2
  <2>. QED
    BY <1>0, <1>1, <2>1 DEF Calm
<1>7. SlotsHold' /\ OneSlot'
  BY <1>0, <1>1, <1>4 DEF HoldInv, SlotsHold, OneSlot, Busy
<1>8. FetchHolds'
  BY <1>0, <1>1, <1>3, <1>4 DEF HoldInv, FetchHolds
<1>9. SlotOrFetch' /\ OneFetch'
  BY <1>0, <1>1, <1>3, <1>4 DEF HoldInv, SlotOrFetch, OneFetch, Busy
<1>10. OnceInv'
  <2>. SUFFICES ASSUME \A v \in Workers : ~Stopped(v)', NEW n \in handled
                PROVE  \/ status'[n] = "settled"
                       \/ \E v \in Workers : \E j \in Slots : slot[v][j].msg = n /\ slot[v][j].st \in {"ok", "term"}
    BY <1>1 DEF OnceInv
  <2>1. \A v \in Workers : ~Stopped(v)
    <3>1. \A v \in Workers : pc[v] = "down" => pc'[v] = "down"
      BY <1>2
    <3>. QED
      BY <1>1, <3>1 DEF Stopped
  <2>2. n \in Messages
    BY <1>0 DEF Typed
  <2>. QED
    BY <1>0, <1>1, <2>1, <2>2 DEF OnceInv
<1>11. ~reclaimed'
  <2>1. m \in handedOff[w] => FALSE
    BY <1>1, <1>5
  <2>. QED
    BY <1>0, <2>1 DEF Deliver, HandoffInv
<1>12. ASSUME NEW v \in Workers, NEW n \in handedOff'[v]
       PROVE  pc'[v] \in {"draining", "returned", "down"} /\ (pull'[v] > 0 => Away(v, n)')
  <2>1. n \in handedOff[v] /\ pc[v] \in {"draining", "returned", "down"}
    BY <1>0, <1>1, <1>12 DEF HandoffInv
  <2>2. pc'[v] = pc[v]
    BY <1>2, <2>1
  <2>3. ASSUME pull'[v] > 0 PROVE Away(v, n)'
    <3>1. Away(v, n) /\ n # m /\ n \in Messages /\ pull'[v] = pull[v]
      BY <1>1, <1>5, <2>1, <2>3
    <3>2. \A u \in Workers : pc'[u] = "got" => got'[u] # n
      BY <1>3, <3>1 DEF Away
    <3>. QED
      BY <1>1, <3>1, <3>2 DEF Away, Busy
  <2>. QED
    BY <2>1, <2>2, <2>3
<1>. QED
  BY <1>6, <1>7, <1>8, <1>9, <1>10, <1>11, <1>12 DEF Quiet, HoldInv, HandoffInv

(* So was a message that is redelivered.                                    *)
LEMMA QuietRedeliver ==
    ASSUME BaseInv, Quiet, faults' = 0, NEW m \in Messages, Redeliver(m)
    PROVE  Quiet'
<1>. USE DEF run, history
<1>0. Typed /\ MessageInv /\ Calm /\ HoldInv /\ OnceInv /\ HandoffInv
  BY Fields DEF BaseInv, Quiet
<1>1. /\ status[m] = "pending" /\ left[m] = 0
      /\ \A n \in Messages : n = m \/ status'[n] = status[n]
      /\ UNCHANGED <<left, gone, late, pc, ended, pull, got, slot, handled, handedOff, reclaimed>>
  BY <1>0 DEF Redeliver, Typed
<1>2. /\ \A v \in Workers : \A j \in Slots : Busy(v, j) => slot[v][j].msg # m /\ slot[v][j].msg \in Messages
      /\ \A v \in Workers : pc[v] = "got" => got[v] # m /\ got[v] \in Messages
  <2>1. ASSUME NEW v \in Workers, NEW j \in Slots, Busy(v, j)
        PROVE  slot[v][j].msg # m /\ slot[v][j].msg \in Messages
    <3>1. slot[v][j].timer < left[slot[v][j].msg] /\ slot[v][j].timer \in Nat /\ slot[v][j].msg \in Messages
      BY <1>0, <2>1, SlotFacts DEF HoldInv, SlotsHold
    <3>. QED
      BY <1>1, <3>1
  <2>. QED
    BY <1>0, <1>1, <2>1, Times DEF HoldInv, FetchHolds, MessageInv
<1>3. \A v \in Workers : \A n \in Messages : Away(v, n) => n # m
  BY <1>0, <1>1, Times DEF Away, Typed
<1>4. HoldInv'
  <2>1. SlotsHold' /\ OneSlot'
    BY <1>0, <1>1, <1>2 DEF HoldInv, SlotsHold, OneSlot, Busy
  <2>2. FetchHolds' /\ SlotOrFetch' /\ OneFetch'
    BY <1>0, <1>1, <1>2 DEF HoldInv, FetchHolds, SlotOrFetch, OneFetch, Busy
  <2>. QED
    BY <2>1, <2>2 DEF HoldInv
<1>5. OnceInv'
  <2>1. \A n \in handled : status[n] = "settled" => status'[n] = "settled"
    BY <1>0, <1>1 DEF Typed
  <2>. QED
    BY <1>0, <1>1, <2>1 DEF OnceInv, Stopped
<1>6. ASSUME NEW v \in Workers, NEW n \in handedOff'[v]
      PROVE  pc'[v] \in {"draining", "returned", "down"} /\ (pull'[v] > 0 => Away(v, n)')
  <2>1. n \in Messages /\ pc'[v] \in {"draining", "returned", "down"} /\ (pull'[v] > 0 => Away(v, n))
    BY <1>0, <1>1, <1>6 DEF HandoffInv, Typed
  <2>2. ASSUME Away(v, n) PROVE Away(v, n)'
    <3>1. status'[n] = status[n]
      BY <1>1, <1>3, <2>1, <2>2
    <3>. QED
      BY <1>1, <2>2, <3>1 DEF Away, Busy
  <2>. QED
    BY <2>1, <2>2
<1>7. Calm'
  BY <1>0, <1>1 DEF Calm
<1>. QED
  BY <1>0, <1>1, <1>4, <1>5, <1>6, <1>7 DEF Quiet, HandoffInv

(* Time passes only when nobody has to act, so holders keep ahead.          *)
LEMMA QuietTick == ASSUME BaseInv, Quiet, Tick PROVE Quiet'
<1>. USE DEF history
<1>0. Typed /\ MessageInv /\ Calm /\ HoldInv /\ OnceInv /\ HandoffInv
  BY Fields DEF BaseInv, Quiet
<1>1. UNCHANGED <<status, gone, late, pc, ended, got, handled, handedOff, reclaimed>>
  BY DEF Tick
<1>2. /\ \A n \in Messages : left'[n] = Down(left[n]) /\ left[n] \in Nat
      /\ \A v \in Workers : pull'[v] = Down(pull[v]) /\ pull[v] \in Nat
  BY <1>0, Times DEF Tick, Typed
<1>3. ASSUME NEW v \in Workers, NEW j \in Slots
      PROVE  /\ slot'[v][j].st = slot[v][j].st /\ slot'[v][j].msg = slot[v][j].msg
             /\ slot'[v][j].timer = Down(slot[v][j].timer) /\ slot[v][j].timer \in Nat
  <2>1. slot'[v][j] = [slot[v][j] EXCEPT !.timer = Down(slot[v][j].timer)]
    BY DEF Tick
  <2>. QED
    BY <2>1, SlotFacts DEF SlotStates
<1>4. \A v \in Workers : \A j \in Slots : Busy(v, j) => slot[v][j].timer > 0
  <2>. SUFFICES ASSUME NEW v \in Workers, NEW j \in Slots, Busy(v, j) PROVE slot[v][j].timer > 0
    OBVIOUS
  <2>1. slot[v][j].st \in {"handling", "waiting"} \cup Results
    BY SlotFacts DEF SlotStates, Busy
  <2>2. (CASE slot[v][j].st = "handling" -> ~Cancelled(v) /\ slot[v][j].timer > 0
           [] slot[v][j].st = "waiting" -> slot[v][j].timer > 0
           [] slot[v][j].st \in Results -> FALSE
           [] OTHER -> TRUE)
    BY DEF Tick, MayWait
  <2>3. CASE slot[v][j].st = "handling"
    BY <2>2, <2>3 DEF Results
  <2>4. CASE slot[v][j].st = "waiting"
    BY <2>2, <2>4 DEF Results
  <2>5. CASE slot[v][j].st \in Results
    BY <2>2, <2>5 DEF Results
  <2>. QED
    BY <2>1, <2>3, <2>4, <2>5
<1>5. \A v \in Workers : \A j \in Slots : Busy(v, j)' = Busy(v, j)
  BY <1>3 DEF Busy
<1>6. SlotsHold'
  <2>. SUFFICES ASSUME NEW v \in Workers, NEW j \in Slots, Busy(v, j)
                PROVE  status'[slot'[v][j].msg] = "pending" /\ slot'[v][j].timer < left'[slot'[v][j].msg]
    BY <1>5 DEF SlotsHold
  <2>1. slot[v][j].msg \in Messages /\ status[slot[v][j].msg] = "pending" /\ slot[v][j].timer < left[slot[v][j].msg]
    BY <1>0 DEF HoldInv, SlotsHold, MessageInv
  <2>2. slot'[v][j].timer < left'[slot[v][j].msg]
    BY <1>2, <1>3, <1>4, <2>1 DEF Down
  <2>. QED
    BY <1>1, <1>3, <2>1, <2>2
<1>7. \A v \in Workers : pc'[v] # "got"
  BY <1>1 DEF Tick, MayWait
<1>8. FetchHolds' /\ SlotOrFetch' /\ OneFetch'
  BY <1>7 DEF FetchHolds, SlotOrFetch, OneFetch
<1>9. OneSlot'
  BY <1>0, <1>3, <1>5 DEF HoldInv, OneSlot
<1>10. OnceInv'
  BY <1>0, <1>1, <1>3 DEF OnceInv, Stopped
<1>11. ASSUME NEW v \in Workers, NEW n \in handedOff'[v]
       PROVE  pc'[v] \in {"draining", "returned", "down"} /\ (pull'[v] > 0 => Away(v, n)')
  <2>1. n \in Messages /\ pc'[v] \in {"draining", "returned", "down"} /\ (pull[v] > 0 => Away(v, n))
    BY <1>0, <1>1, <1>11 DEF HandoffInv, Typed
  <2>2. ASSUME pull'[v] > 0 PROVE Away(v, n)'
    <3>1. pull[v] > 0 /\ pull'[v] = pull[v] - 1
      BY <1>2, <2>2 DEF Down
    <3>2. Away(v, n)
      BY <2>1, <3>1
    <3>3. left'[n] > pull'[v]
      BY <1>2, <2>1, <3>1, <3>2 DEF Down, Away
    <3>. QED
      BY <1>1, <1>3, <1>5, <1>7, <3>2, <3>3 DEF Away
  <2>. QED
    BY <2>1, <2>2
<1>12. Calm'
  BY <1>0, <1>1 DEF Calm
<1>. QED
  BY <1>0, <1>1, <1>6, <1>8, <1>9, <1>10, <1>11, <1>12 DEF Quiet, HoldInv, HandoffInv

LEMMA FaultsStay == ASSUME BaseInv, [Next]_vars, faults' = 0 PROVE faults = 0
<1>. USE DEF consumer, run, history
<1>1. \A kind, m, delay : Send(kind, m, delay) => faults' = faults \/ Fault
  BY DEF Send
<1>2. faults' = faults \/ Fault
  <2>1. CASE UNCHANGED vars
    BY <2>1 DEF vars
  <2>2. ASSUME NEW w \in Workers, Serve(w) \/ FetchError(w) \/ Shutdown(w) \/ Crash(w)
        PROVE  faults' = faults \/ Fault
    BY <1>1, <2>2 DEF Serve, Fetch, StopLoop, FetchTimeout, FetchGone, FetchError, Resume, GotMessage, Return,
                      Shutdown, Crash
  <2>3. ASSUME NEW w \in Workers, NEW m \in Messages, Deliver(w, m) PROVE faults' = faults \/ Fault
    BY <2>3 DEF Deliver
  <2>4. ASSUME NEW w \in Workers, NEW i \in Slots, Process(w, i) \/ \E result \in Results : HandlerReturns(w, i, result)
        PROVE  faults' = faults \/ Fault
    BY <1>1, <2>4 DEF Process, HandlerStops, Heartbeat, Handoff, Finish, HandlerReturns
  <2>5. CASE (\E a \in late : Arrive(a)) \/ (\E m \in Messages : Redeliver(m)) \/ DeleteConsumer \/ Tick
    BY <2>5 DEF Arrive, Redeliver, DeleteConsumer, Tick
  <2>. QED
    BY <2>1, <2>2, <2>3, <2>4, <2>5 DEF Next
<1>. QED
  BY <1>2, Faultless

LEMMA QuietNext == ASSUME BaseInv, Quiet, [Next]_vars, faults' = 0 PROVE Quiet'
<1>1. CASE UNCHANGED vars
  BY <1>1 DEF vars, consumer, run, history, Quiet, Calm, HoldInv, SlotsHold, FetchHolds, OneSlot, SlotOrFetch,
              OneFetch, OnceInv, Stopped, HandoffInv, Away, Busy
<1>2. ASSUME NEW a \in late, Arrive(a) PROVE FALSE
  BY DEF Quiet, Calm
<1>3. ~DeleteConsumer
  BY Faultless DEF DeleteConsumer
<1>. QED
  BY <1>1, <1>2, <1>3, QuietMoves, QuietGot, QuietCrash, QuietProcess, QuietDeliver, QuietRedeliver, QuietTick
     DEF Next, Serve

----------------------------------------------------------------------------
Inv == BaseInv /\ (faults = 0 => Quiet)

LEMMA Invariance == Spec => []Inv
<1>1. Init => Inv
  BY BaseInit, QuietInit DEF Inv
<1>2. Inv /\ [Next]_vars => Inv'
  BY BaseNext, QuietNext, FaultsStay DEF Inv
<1>. QED
  BY <1>1, <1>2, PTL DEF Spec

(* The types of the model, and the slot of active that Run keeps for the    *)
(* message it fetches.                                                      *)
THEOREM TypeCorrect == Spec => []TypeOK
<1>1. Inv => TypeOK
  BY DEF Inv, BaseInv
<1>. QED
  BY <1>1, Invariance, PTL

(* At least once: whatever acknowledgements are lost or late, and whichever *)
(* workers stop or crash, the consumer gives a message up only after some   *)
(* handler succeeded with it or terminated it (process, finish).            *)
THEOREM AtLeastOnce == Spec => []SettledMeansHandled
<1>1. Inv => SettledMeansHandled
  BY DEF Inv, BaseInv, HandledInv
<1>. QED
  BY <1>1, Invariance, PTL

(* As long as nothing is lost, heartbeats and the handoff delay keep a      *)
(* message from a second handler, in this process or another (process,      *)
(* heartbeat, durableWorkerHandoffDelay).                                   *)
THEOREM NoTwoHandlers == Spec => []OneHandlerAtATime
<1>1. Inv => OneHandlerAtATime
  <2>. SUFFICES ASSUME Inv, faults = 0, NEW m \in Messages PROVE Cardinality(Handlers(m)) <= 1
    BY DEF OneHandlerAtATime
  <2>1. \A g, h \in Handlers(m) : g = h
    BY DEF Inv, Quiet, HoldInv, OneSlot, Handlers, Handling, Busy
  <2>2. CASE Handlers(m) = {}
    BY <2>2, FS_EmptySet
  <2>3. ASSUME NEW h \in Handlers(m) PROVE Cardinality(Handlers(m)) <= 1
    <3>1. Handlers(m) = {h}
      BY <2>1
    <3>. QED
      BY <3>1, FS_Singleton
  <2>. QED
    BY <2>2, <2>3
<1>. QED
  BY <1>1, Invariance, PTL

(* Without losses and without a worker that stops, a handler's success      *)
(* reaches the consumer before it can deliver the message again (finish,    *)
(* DoubleAck).                                                              *)
THEOREM NotHandledAgain == Spec => []HandledAgainOnlyAfterFaults
<1>1. Inv => HandledAgainOnlyAfterFaults
  <2>. SUFFICES ASSUME Inv, faults = 0, \A w \in Workers : ~Stopped(w), NEW m \in handled, NEW h \in Handlers(m)
                PROVE  FALSE
    BY DEF HandledAgainOnlyAfterFaults
  <2>1. PICK w \in Workers, i \in Slots : Handling(w, i) /\ slot[w][i].msg = m
    BY DEF Handlers
  <2>2. Busy(w, i) /\ slot[w][i].st \notin {"ok", "term"}
    BY <2>1 DEF Handling, Busy
  <2>. QED
    BY <2>1, <2>2, NotYetHandled DEF Inv, Quiet
<1>. QED
  BY <1>1, Invariance, PTL

(* While its last pull request stays open at the server, a stopping worker  *)
(* does not get its own handoffs back: the delay outlasts every pull        *)
(* (durableWorkerHandoffDelay, handoff).                                    *)
THEOREM HandoffsNotReclaimed == Spec => []HandoffsLeave
<1>1. Inv => HandoffsLeave
  BY DEF Inv, Quiet, HandoffInv, HandoffsLeave
<1>. QED
  BY <1>1, Invariance, PTL
=============================================================================
