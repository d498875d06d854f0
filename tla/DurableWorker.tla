---------------------------- MODULE DurableWorker ----------------------------
(***************************************************************************)
(* DurableWorker of pkg/events: the workers of several processes that take  *)
(* deliveries from one durable JetStream pull consumer (external), created  *)
(* by CreateEffectConsumer of evtstream with explicit acknowledgements,     *)
(* unlimited redelivery and MaxAckPending equal to the workers'             *)
(* MaxConcurrent.                                                           *)
(*                                                                         *)
(* Acknowledgements of every kind may be lost or arrive late, a delivery    *)
(* may never reach its worker, fetches fail, the consumer may be deleted,   *)
(* and processes shut down or crash. JetStream attributes an                *)
(* acknowledgement to its message, whichever delivery it answers.           *)
(*                                                                         *)
(* Time is discrete. Tick waits for whoever has to act at this instant:     *)
(* heartbeats and handoffs are sent when due, and a handler whose context   *)
(* ended returns within StopBound.                                          *)
(*                                                                         *)
(* An operator Name_Variant is a mistaken form of the operator Name that    *)
(* follows it; it is not part of the specification and shows that a         *)
(* property can fail.                                                       *)
(***************************************************************************)
EXTENDS Integers, FiniteSets

CONSTANTS
    Workers,            \* processes, each with one worker
    Messages,           \* the stream's messages
    NoMessage,
    MaxConcurrent,      \* slots per worker, and MaxAckPending of the consumer
    AckWait,            \* AckWait of the consumer
    FetchMaxWait,       \* lifetime of a pull request
    HeartbeatInterval,
    RetryDelay,
    StopBound,          \* longest time a cancelled handler takes to return
    MaxFaults,          \* lost or late messages, failed fetches, deletion (bound)
    MaxFailures         \* shutdowns, crashes and handler errors (bound)

ASSUME WorkerAssumption ==
    /\ NoMessage \notin Messages
    /\ {MaxConcurrent, AckWait, FetchMaxWait, HeartbeatInterval, RetryDelay, StopBound}
         \subseteq Nat \ {0}
    /\ {MaxFaults, MaxFailures} \subseteq Nat

(* What the application must respect for a handler to have its message to   *)
(* itself: heartbeats come before AckWait ends, and a cancelled handler     *)
(* returns before its handoff is redelivered.                               *)
ASSUME HandlerAssumption ==
    /\ HeartbeatInterval < AckWait
    /\ StopBound <= FetchMaxWait

VARIABLES
    status,       \* per message: "new", "pending", "ready" (again) or "settled"
    left,         \* time until a pending message is redelivered
    gone,         \* the consumer was deleted
    late,         \* acknowledgements that may still arrive
    pc,           \* where each Run is
    ended,        \* its context has ended
    pull,         \* time its last pull request stays open at the server
    got,          \* the message its fetch returned
    slot,         \* per slot of active: state, message and timer of process
    handled,      \* messages some handler completed or terminated
    handedOff,    \* per worker, the messages it handed off
    reclaimed,    \* a stopping worker's pull took back one of its handoffs
    faults,
    failures

consumer == <<status, left, gone, late>>
run == <<pc, ended, pull, got>>
history == <<handled, handedOff, reclaimed>>
vars == <<consumer, run, slot, history, faults, failures>>

Slots == 1 .. MaxConcurrent
FreeSlot == [st |-> "free", msg |-> NoMessage, timer |-> 0]
Results == {"ok", "error", "term"}

Init ==
    /\ status = [m \in Messages |-> "new"]
    /\ left = [m \in Messages |-> 0]
    /\ gone = FALSE
    /\ late = {}
    /\ pc = [w \in Workers |-> "loop"]
    /\ ended = [w \in Workers |-> FALSE]
    /\ pull = [w \in Workers |-> 0]
    /\ got = [w \in Workers |-> NoMessage]
    /\ slot = [w \in Workers |-> [i \in Slots |-> FreeSlot]]
    /\ handled = {}
    /\ handedOff = [w \in Workers |-> {}]
    /\ reclaimed = FALSE
    /\ faults = 0 /\ failures = 0

Fault == faults < MaxFaults /\ faults' = faults + 1
Failure == failures < MaxFailures /\ failures' = failures + 1
Goto(w, place) == pc' = [pc EXCEPT ![w] = place]

Free(w) == {i \in Slots : slot[w][i].st = "free"}
SetSlot(w, i, s) == slot' = [slot EXCEPT ![w][i] = s]
(* The handler goroutine of a slot is running.                              *)
Handling(w, i) == slot[w][i].st \in {"handling", "waiting"}

----------------------------------------------------------------------------
(* The consumer.                                                            *)

(* What an acknowledgement does when it reaches the server: "ack" and       *)
(* "term" remove the message, "nak" makes it available after a delay,       *)
(* "progress" restarts AckWait.                                             *)
Receive(kind, m, delay) ==
    /\ status' = [status EXCEPT ![m] =
         IF kind \in {"ack", "term"} THEN "settled"
         ELSE IF kind = "nak" /\ delay = 0 /\ @ = "pending" THEN "ready" ELSE @]
    /\ left' = [left EXCEPT ![m] =
         IF status[m] # "pending" \/ status'[m] # "pending" THEN 0
         ELSE IF kind = "nak" THEN delay ELSE AckWait]

(* A worker sends an acknowledgement: it arrives, is lost, or arrives late. *)
Send(kind, m, delay) ==
    \/ /\ ~gone
       /\ Receive(kind, m, delay)
       /\ UNCHANGED <<late, faults>>
    \/ /\ gone
       /\ UNCHANGED <<status, left, late, faults>>
    \/ /\ Fault
       /\ \/ UNCHANGED late
          \/ late' = late \cup {[kind |-> kind, msg |-> m, delay |-> delay]}
       /\ UNCHANGED <<status, left>>

Arrive(a) ==
    /\ ~gone
    /\ Receive(a.kind, a.msg, a.delay)
    /\ late' = late \ {a}
    /\ UNCHANGED <<gone, run, slot, history, faults, failures>>

Redeliver(m) ==
    /\ ~gone
    /\ status[m] = "pending" /\ left[m] = 0
    /\ status' = [status EXCEPT ![m] = "ready"]
    /\ UNCHANGED <<left, gone, late, run, slot, history, faults, failures>>

Outstanding == {m \in Messages : status[m] \in {"pending", "ready"}}

(* A message goes to an open pull request. Nobody receives it when the      *)
(* worker stopped waiting, or when the delivery is lost.                    *)
Deliver(w, m) ==
    /\ ~gone
    /\ pull[w] > 0
    /\ \/ status[m] = "ready"
       \/ status[m] = "new" /\ Cardinality(Outstanding) < MaxConcurrent
    /\ status' = [status EXCEPT ![m] = "pending"]
    /\ left' = [left EXCEPT ![m] = AckWait]
    /\ pull' = [pull EXCEPT ![w] = 0]
    /\ \/ /\ pc[w] = "fetch"
          /\ Goto(w, "got")
          /\ got' = [got EXCEPT ![w] = m]
          /\ UNCHANGED faults
       \/ /\ IF pc[w] = "fetch" THEN Fault ELSE UNCHANGED faults
          /\ UNCHANGED <<pc, got>>
    /\ reclaimed' = (reclaimed \/ (pc[w] # "fetch" /\ m \in handedOff[w]))
    /\ UNCHANGED <<gone, late, ended, slot, handled, handedOff, failures>>

DeleteConsumer ==
    /\ ~gone /\ Fault
    /\ gone' = TRUE
    /\ UNCHANGED <<status, left, late, run, slot, history, failures>>

----------------------------------------------------------------------------
(* Run: take a slot of active, fetch one message, start process. The slot   *)
(* taken is held at "fetch" and "got".                                      *)

HasSlot_Unchecked(w) == TRUE
HasSlot(w) == Free(w) # {}

Fetch(w) ==
    /\ pc[w] = "loop" /\ ~ended[w]
    /\ HasSlot(w)
    /\ Goto(w, "fetch")
    /\ pull' = [pull EXCEPT ![w] = FetchMaxWait]
    /\ UNCHANGED <<consumer, ended, got, slot, history, faults, failures>>

(* The context ended while Run waited for a slot, for a message or for the  *)
(* next attempt: handlers are cancelled. The server may not have noticed    *)
(* that the pull request is gone.                                           *)
StopLoop(w) ==
    /\ pc[w] \in {"loop", "fetch", "pause"} /\ ended[w]
    /\ Goto(w, "draining")
    /\ UNCHANGED <<consumer, ended, pull, got, slot, history, faults, failures>>

FetchTimeout(w) ==
    /\ pc[w] = "fetch" /\ ~ended[w] /\ pull[w] = 0 /\ ~gone
    /\ Goto(w, "loop")
    /\ UNCHANGED <<consumer, ended, pull, got, slot, history, faults, failures>>

(* The consumer is gone: Run returns. Any other error: it tries again.      *)
FetchGone(w) ==
    /\ pc[w] = "fetch" /\ ~ended[w] /\ gone
    /\ Goto(w, "draining")
    /\ UNCHANGED <<consumer, ended, pull, got, slot, history, faults, failures>>

AfterError_Returns(w) == Goto(w, "draining")
AfterError(w) == Goto(w, "pause")

FetchError(w) ==
    /\ pc[w] = "fetch" /\ ~ended[w] /\ Fault
    /\ AfterError(w)
    /\ UNCHANGED <<consumer, ended, pull, got, slot, history, failures>>

Resume(w) ==
    /\ pc[w] = "pause" /\ ~ended[w]
    /\ Goto(w, "loop")
    /\ UNCHANGED <<consumer, ended, pull, got, slot, history, faults, failures>>

(* A message came in; when the context has ended it is handed back at once. *)
GotMessage(w) ==
    /\ pc[w] = "got"
    /\ got' = [got EXCEPT ![w] = NoMessage]
    /\ IF ended[w]
       THEN /\ Send("nak", got[w], 0)
            /\ Goto(w, "draining")
            /\ UNCHANGED slot
       ELSE /\ Goto(w, "loop")
            /\ SetSlot(w, CHOOSE i \in Free(w) : TRUE,
                       [st |-> "handling", msg |-> got[w], timer |-> HeartbeatInterval])
            /\ UNCHANGED <<status, left, late, faults>>
    /\ UNCHANGED <<gone, ended, pull, history, failures>>

(* group.Wait                                                               *)
Drained(w) == Free(w) = Slots

Return(w) ==
    /\ pc[w] = "draining"
    /\ Drained(w)
    /\ Goto(w, "returned")
    /\ UNCHANGED <<consumer, ended, pull, got, slot, history, faults, failures>>

----------------------------------------------------------------------------
(* process: one goroutine per delivery, with a goroutine for its handler.   *)

(* cancelHandlers was called.                                               *)
Cancelled(w) == pc[w] = "draining"

HandlerReturns(w, i, result) ==
    /\ slot[w][i].st = "handling"
    /\ IF result = "error" THEN Failure ELSE UNCHANGED failures
    /\ SetSlot(w, i, [slot[w][i] EXCEPT !.st = result, !.timer = 0])
    /\ handled' = IF result = "error" THEN handled ELSE handled \cup {slot[w][i].msg}
    /\ UNCHANGED <<consumer, run, handedOff, reclaimed, faults>>

(* A handler whose delivery was handed off returns: its result is dropped.  *)
HandlerStops(w, i) ==
    /\ slot[w][i].st = "waiting"
    /\ SetSlot(w, i, FreeSlot)
    /\ UNCHANGED <<consumer, run, history, faults, failures>>

Heartbeat(w, i) ==
    /\ slot[w][i].st = "handling" /\ slot[w][i].timer = 0
    /\ Send("progress", slot[w][i].msg, 0)
    /\ SetSlot(w, i, [slot[w][i] EXCEPT !.timer = HeartbeatInterval])
    /\ UNCHANGED <<gone, run, history, failures>>

(* durableWorkerHandoffDelay: longer than any pull request lives.           *)
HandoffDelay_None == 0
HandoffDelay == FetchMaxWait + 1

(* ctx.Done, or a result that came after the context had ended.             *)
Handoff(w, i) ==
    /\ Cancelled(w) /\ slot[w][i].st \in {"handling"} \cup Results
    /\ Send("nak", slot[w][i].msg, HandoffDelay)
    /\ SetSlot(w, i, IF slot[w][i].st = "handling"
                     THEN [slot[w][i] EXCEPT !.st = "waiting", !.timer = StopBound]
                     ELSE FreeSlot)
    /\ handedOff' = [handedOff EXCEPT ![w] = @ \cup {slot[w][i].msg}]
    /\ UNCHANGED <<gone, run, handled, reclaimed, failures>>

(* finish: terminate, retry after a delay the handler may choose, or        *)
(* DoubleAck. None of them is repeated when it fails.                       *)
Verdict_AlwaysAck(result) == "ack"
Verdict_Retry(result) == IF result = "term" THEN "term" ELSE "nak"
Verdict(result) ==
    CASE result = "ok" -> "ack"
      [] result = "term" -> "term"
      [] result = "error" -> "nak"

Finish(w, i) ==
    /\ ~Cancelled(w) /\ slot[w][i].st \in Results
    /\ \E delay \in IF slot[w][i].st = "error" THEN {0, RetryDelay} ELSE {0} :
         Send(Verdict(slot[w][i].st), slot[w][i].msg, delay)
    /\ SetSlot(w, i, FreeSlot)
    /\ UNCHANGED <<gone, run, history, failures>>

----------------------------------------------------------------------------
(* Processes and time.                                                      *)

Shutdown(w) ==
    /\ pc[w] \notin {"returned", "down"} /\ ~ended[w] /\ Failure
    /\ ended' = [ended EXCEPT ![w] = TRUE]
    /\ UNCHANGED <<consumer, pc, pull, got, slot, history, faults>>

Crash(w) ==
    /\ pc[w] # "down" /\ Failure
    /\ Goto(w, "down")
    /\ got' = [got EXCEPT ![w] = NoMessage]
    /\ slot' = [slot EXCEPT ![w] = [i \in Slots |-> FreeSlot]]
    /\ UNCHANGED <<consumer, ended, pull, history, faults>>

Down(t) == IF t > 0 THEN t - 1 ELSE 0

MayWait(w) ==
    /\ pc[w] # "got"
    /\ pc[w] = "fetch" => pull[w] > 0
    /\ pc[w] \in {"loop", "fetch", "pause"} => ~ended[w]
    /\ \A i \in Slots :
         CASE slot[w][i].st = "handling" -> ~Cancelled(w) /\ slot[w][i].timer > 0
           [] slot[w][i].st = "waiting" -> slot[w][i].timer > 0
           [] slot[w][i].st \in Results -> FALSE
           [] OTHER -> TRUE

Tick ==
    /\ \A w \in Workers : MayWait(w)
    /\ left' = [m \in Messages |-> Down(left[m])]
    /\ pull' = [w \in Workers |-> Down(pull[w])]
    /\ slot' = [w \in Workers |-> [i \in Slots |-> [slot[w][i] EXCEPT !.timer = Down(@)]]]
    /\ UNCHANGED <<status, gone, late, pc, ended, got, history, faults, failures>>

Serve(w) ==
    \/ Fetch(w) \/ StopLoop(w) \/ FetchTimeout(w) \/ FetchGone(w) \/ Resume(w)
    \/ GotMessage(w) \/ Return(w)
Process(w, i) ==
    \/ HandlerStops(w, i) \/ Heartbeat(w, i) \/ Handoff(w, i) \/ Finish(w, i)

Next ==
    \/ \E w \in Workers :
         \/ Serve(w) \/ FetchError(w) \/ Shutdown(w) \/ Crash(w)
         \/ \E m \in Messages : Deliver(w, m)
         \/ \E i \in Slots :
              Process(w, i) \/ \E result \in Results : HandlerReturns(w, i, result)
    \/ \E m \in Messages : Redeliver(m)
    \/ \E a \in late : Arrive(a)
    \/ DeleteConsumer
    \/ Tick

Spec == Init /\ [][Next]_vars

(* Goroutines run, handlers return, the server redelivers and serves the    *)
(* open pulls with every message in turn, and time passes.                  *)
Fairness ==
    /\ \A w \in Workers :
         /\ WF_vars(Serve(w))
         /\ \A i \in Slots :
              /\ WF_vars(Process(w, i))
              /\ WF_vars(\E result \in Results : HandlerReturns(w, i, result))
    /\ \A m \in Messages :
         /\ WF_vars(Redeliver(m))
         /\ SF_vars(\E w \in Workers : Deliver(w, m))
    /\ WF_vars(Tick)

LiveSpec == Spec /\ Fairness

----------------------------------------------------------------------------
(* The types of the variables; a slot is kept for the message a fetch       *)
(* returns.                                                                 *)
TypeOK ==
    /\ status \in [Messages -> {"new", "pending", "ready", "settled"}]
    /\ left \in [Messages -> Nat]
    /\ gone \in BOOLEAN
    /\ late \subseteq [kind : {"ack", "term", "nak", "progress"}, msg : Messages, delay : Nat]
    /\ pc \in [Workers -> {"loop", "fetch", "pause", "got", "draining", "returned", "down"}]
    /\ ended \in [Workers -> BOOLEAN]
    /\ pull \in [Workers -> 0 .. FetchMaxWait]
    /\ got \in [Workers -> Messages \cup {NoMessage}]
    /\ slot \in [Workers -> [Slots -> [st : {"free", "handling", "waiting"} \cup Results,
                                      msg : Messages \cup {NoMessage}, timer : Nat]]]
    /\ \A w \in Workers : pc[w] \in {"fetch", "got"} => Free(w) # {}
    /\ handled \subseteq Messages
    /\ handedOff \in [Workers -> SUBSET Messages]
    /\ reclaimed \in BOOLEAN
    /\ faults \in 0 .. MaxFaults /\ failures \in 0 .. MaxFailures

(* At least once: a message leaves the consumer only after some handler     *)
(* returned success for it or terminated it. A result that arrives after    *)
(* the context has ended is not acknowledged (process).                     *)
SettledMeansHandled == \A m \in Messages : status[m] = "settled" => m \in handled

Stopped(w) == ended[w] \/ pc[w] = "down"

Handlers(m) ==
    {h \in Workers \X Slots : Handling(h[1], h[2]) /\ slot[h[1]][h[2]].msg = m}

(* As long as nothing is lost or late, no message is in two handlers at     *)
(* once, in any process: heartbeats hold AckWait off, and a shutdown hands  *)
(* a delivery off with a delay that outlasts its handler, even while the    *)
(* server still serves the pull of the stopping worker.                     *)
OneHandlerAtATime == faults = 0 => \A m \in Messages : Cardinality(Handlers(m)) <= 1

(* As long as nothing was lost and no worker stopped, a message whose       *)
(* handler succeeded is not handled again (finish, DoubleAck).              *)
HandledAgainOnlyAfterFaults ==
    faults = 0 /\ (\A w \in Workers : ~Stopped(w)) =>
        \A m \in handled : Handlers(m) = {}

(* A stopping worker does not take its own handoffs back through a pull     *)
(* request that outlives it at the server ("cannot reclaim the handoff",    *)
(* handoff).                                                                *)
HandoffsLeave == faults = 0 => ~reclaimed

(* Every message is settled as long as one worker runs and the consumer     *)
(* exists, although MaxAckPending is taken up by deliveries that were lost, *)
(* handed off or delayed, and fetches fail.                                 *)
EveryMessageSettled ==
    \A m \in Messages :
        <>(status[m] = "settled" \/ gone \/ \A w \in Workers : Stopped(w))
=============================================================================
