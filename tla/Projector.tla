------------------------------ MODULE Projector ------------------------------
(***************************************************************************)
(* A Projector of pkg/events: the Run goroutine, the handleMessage callback *)
(* of the ordered consumer, the callers of WaitFor, and the capture of      *)
(* snapshots, over a stream that is appended to and deleted from meanwhile. *)
(*                                                                         *)
(* The projection's state is the sequence of the stream sequences that were *)
(* folded into it. A batch applies completely or not at all, as             *)
(* pkg/events/README.md requires of projections. Steps between two locks    *)
(* are separate actions; applyMu is held over more than one action only     *)
(* while reconcileStartup flushes (run = "flush").                          *)
(*                                                                         *)
(* An operator Name_Variant is a mistaken form of the operator Name that    *)
(* follows it; it is not part of the specification and shows that a         *)
(* property can fail.                                                       *)
(***************************************************************************)
EXTENDS Integers, Sequences

CONSTANTS
    Clients,            \* goroutines that call WaitFor or WaitForCurrent
    StartupBatchSize,   \* 1 without StartupBatchEventProjection
    Kinds,              \* what restoreForRun starts from, and the size of live batches
    Faults,             \* what may fail
    MaxSeq,             \* length of the stream (bound)
    MaxRestarts         \* number of process restarts (bound)

ASSUME ProjectorAssumption ==
    /\ StartupBatchSize \in Nat \ {0}
    /\ Kinds \subseteq [restore : {"cold", "snapshot", "checkpoint"}, live : Nat]
    /\ Faults \subseteq {"metadata", "decode", "apply", "run"}
    /\ MaxSeq \in Nat
    /\ MaxRestarts \in Nat

VARIABLES
    log,            \* per sequence, whether it matches the projection's subjects
    deleted,        \* sequences deleted from the stream
    buffer,         \* messages the consumer fetched and has not handed over
    handed,         \* the last sequence given to handleMessage
    run,            \* where Run is
    aim,            \* the target that Run captured first
    current,        \* reconcileStartup: the target read again
    previous,       \* reconcileStartup: handled sequence of the last tick
    handler,        \* where handleMessage is, and its sequence
    applied,        \* the projection's state
    lastSeq,        \* the sequence that state represents
    restoredSeq,    \* cutoff of the restored snapshot or checkpoint
    startupTarget,  \* startupTargetSeq
    startupBatch,   \* events that wait for the startup batch
    liveBatch,      \* events that wait for the live batch
    ended,          \* startupEndedAt is set
    completed,      \* startupCh is closed: WaitForStartup returns nil
    failed,         \* failedSeq, or NoFailure
    client,         \* where each waiting caller is, and its sequence
    saved,          \* the kind of projection, and what survives a restart
    restarts

stream == <<log, deleted>>
consumer == <<buffer, handed>>
loop == <<run, aim, current, previous>>
startup == <<startupTarget, ended, completed>>
batches == <<startupBatch, liveBatch>>
vars == <<stream, consumer, loop, handler, applied, lastSeq, restoredSeq, startup,
          batches, failed, client, saved, restarts>>

----------------------------------------------------------------------------
Own(q) == log[q] = "own"
Retained(q) == q \in 1 .. Len(log) /\ q \notin deleted
Last(s) == s[Len(s)]

(* currentTarget: the last retained message that matches the subjects.      *)
IsCurrentTarget(t) ==
    /\ t # 0 => Retained(t) /\ Own(t)
    /\ \A q \in 1 .. Len(log) : q > t /\ Retained(q) => ~Own(q)

(* State.FirstSeq of the stream.                                            *)
IsFirstSequence(f) ==
    /\ f <= Len(log) => f \notin deleted
    /\ 1 .. f - 1 \subseteq deleted

NoFailure == -1
RestoreMode == saved.kind.restore
LiveBatchSize == saved.kind.live     \* 0 without LiveBatchEventProjection
Save(cutoff, state) == [kind |-> saved.kind, cutoff |-> cutoff, state |-> state]
NoSave == Save(0, << >>)
NoHandled == -1
Idle == [pc |-> "idle", seq |-> 0]

(* applyMu is free.                                                         *)
Barrier == run # "flush"

Consuming == run \in {"complete", "loop", "reread", "relock", "flush"}

----------------------------------------------------------------------------
(* What the methods that hold applyMu or mu do to the shared fields.        *)

Woken_Strict(l, all) ==
    [c \in Clients |->
        IF client[c].pc = "waiting" /\ (all \/ client[c].seq < l)
        THEN [client[c] EXCEPT !.pc = "woken"] ELSE client[c]]

Woken(l, all) ==
    [c \in Clients |->
        IF client[c].pc = "waiting" /\ (all \/ client[c].seq <= l)
        THEN [client[c] EXCEPT !.pc = "woken"] ELSE client[c]]

Advance_PastEnd(seq) ==
    /\ lastSeq' = seq + 1
    /\ client' = Woken(lastSeq', FALSE)

Advance(seq) ==
    /\ lastSeq' = IF seq > lastSeq THEN seq ELSE lastSeq
    /\ client' = Woken(lastSeq', FALSE)

(* The first failure is kept; it ends startup and releases every waiter.    *)
Fail(seq) ==
    /\ failed' = IF failed = NoFailure THEN seq ELSE failed
    /\ ended' = TRUE
    /\ client' = Woken(0, TRUE)

(* completeStartupLocked                                                    *)
CompleteStartup(target, last) ==
    LET now == ~ended /\ last >= target
    IN  /\ ended' = (ended \/ now)
        /\ completed' = (completed \/ now)

(* startupProgress                                                          *)
HandledSeq == IF startupBatch = << >> THEN lastSeq ELSE Last(startupBatch)
StartupPending == ~ended /\ failed = NoFailure

(* The state after flushStartupBatch succeeds.                              *)
FlushedState_Dropped == applied
FlushedState == applied \o startupBatch
FlushedSeq == HandledSeq

----------------------------------------------------------------------------
Init ==
    /\ log = << >> /\ deleted = {}
    /\ buffer = << >> /\ handed = 0
    /\ run = "idle" /\ aim = 0 /\ current = 0 /\ previous = NoHandled
    /\ handler = Idle
    /\ applied = << >> /\ lastSeq = 0 /\ restoredSeq = 0
    /\ startupTarget = 0 /\ ended = FALSE /\ completed = FALSE
    /\ startupBatch = << >> /\ liveBatch = << >>
    /\ failed = NoFailure
    /\ client = [c \in Clients |-> Idle]
    /\ saved \in [kind : Kinds, cutoff : {0}, state : {<< >>}]
    /\ restarts = 0

----------------------------------------------------------------------------
(* The stream and its ordered consumer.                                     *)

Publish ==
    /\ Len(log) < MaxSeq
    /\ \E k \in {"own", "other"} : log' = Append(log, k)
    /\ UNCHANGED <<deleted, consumer, loop, handler, applied, lastSeq, restoredSeq, startup,
                   batches, failed, client, saved, restarts>>

Delete(q) ==
    /\ Retained(q)
    /\ deleted' = deleted \cup {q}
    /\ UNCHANGED <<log, consumer, loop, handler, applied, lastSeq, restoredSeq, startup,
                   batches, failed, client, saved, restarts>>

(* The consumer pulls the next retained message. Dropping the buffer in a   *)
(* recovery of the ordered consumer is the same as not having pulled yet.   *)
Fetch ==
    /\ Consuming
    /\ LET from == IF buffer = << >> THEN handed ELSE Last(buffer)
       IN  \E q \in from + 1 .. Len(log) :
             /\ Retained(q)
             /\ from + 1 .. q - 1 \subseteq deleted
             /\ buffer' = Append(buffer, q)
    /\ UNCHANGED <<stream, handed, loop, handler, applied, lastSeq, restoredSeq, startup,
                   batches, failed, client, saved, restarts>>

----------------------------------------------------------------------------
(* handleMessage.                                                           *)

Restored(seq) == restoredSeq > 0 /\ seq <= restoredSeq

Deliver ==
    /\ Consuming
    /\ handler.pc = "idle"
    /\ buffer # << >>
    /\ handed' = Head(buffer)
    /\ buffer' = Tail(buffer)
    /\ LET seq == Head(buffer)
       IN  \/ /\ failed # NoFailure \/ ~Own(seq) \/ Restored(seq)
              /\ UNCHANGED handler
           \/ /\ failed = NoFailure
              /\ "metadata" \in Faults
              /\ handler' = [pc |-> "fail", seq |-> 0]
           \/ /\ failed = NoFailure /\ Own(seq) /\ ~Restored(seq)
              /\ \/ handler' = [pc |-> "apply", seq |-> seq]
                 \/ "decode" \in Faults /\ handler' = [pc |-> "undecodable", seq |-> seq]
    /\ UNCHANGED <<stream, loop, applied, lastSeq, restoredSeq, startup, batches, failed,
                   client, saved, restarts>>

(* applyEvent has the barrier: the cases below are disjoint.                *)
Applying == handler.pc = "apply" /\ Barrier
Skips(seq) == failed # NoFailure \/ Restored(seq)
ShouldBatchStartup(seq) == StartupBatchSize > 1 /\ ~ended /\ seq <= startupTarget
BatchFull(seq) == Len(startupBatch) + 1 >= StartupBatchSize \/ seq >= startupTarget
GoesLive(seq) == LiveBatchSize > 0 /\ seq > startupTarget
LiveFull == Len(liveBatch) + 1 >= LiveBatchSize

HandlerTo(pc, seq) == handler' = [pc |-> pc, seq |-> seq]

SkipEvent ==
    /\ Applying
    /\ Skips(handler.seq)
    /\ HandlerTo("complete", 0)
    /\ UNCHANGED <<stream, consumer, loop, applied, lastSeq, restoredSeq, startup, batches,
                   failed, client, saved, restarts>>

BufferStartup ==
    /\ Applying
    /\ ~Skips(handler.seq) /\ ShouldBatchStartup(handler.seq) /\ ~BatchFull(handler.seq)
    /\ startupBatch' = Append(startupBatch, handler.seq)
    /\ HandlerTo("complete", 0)
    /\ UNCHANGED <<stream, consumer, loop, applied, lastSeq, restoredSeq, startup, liveBatch,
                   failed, client, saved, restarts>>

CommitStartupBatch ==
    /\ Applying
    /\ ~Skips(handler.seq) /\ ShouldBatchStartup(handler.seq) /\ BatchFull(handler.seq)
    /\ applied' = Append(FlushedState, handler.seq)
    /\ startupBatch' = << >>
    /\ Advance(handler.seq)
    /\ HandlerTo("complete", 0)
    /\ UNCHANGED <<stream, consumer, loop, restoredSeq, startup, liveBatch, failed, saved,
                   restarts>>

(* The batch stays where it is; the failure is recorded only after the      *)
(* barrier has opened again.                                                *)
FailStartupBatch ==
    /\ Applying
    /\ "apply" \in Faults
    /\ ~Skips(handler.seq)
    /\ IF ShouldBatchStartup(handler.seq)
       THEN BatchFull(handler.seq) /\ startupBatch' = Append(startupBatch, handler.seq)
       ELSE startupBatch # << >> /\ UNCHANGED startupBatch
    /\ HandlerTo("fail", Head(startupBatch'))
    /\ UNCHANGED <<stream, consumer, loop, applied, lastSeq, restoredSeq, startup, liveBatch,
                   failed, client, saved, restarts>>

(* Past the startup batch: a pending one is flushed, then the event itself  *)
(* is applied, or collected for the live batch.                             *)
ApplyOne ==
    /\ Applying
    /\ ~Skips(handler.seq) /\ ~ShouldBatchStartup(handler.seq) /\ ~GoesLive(handler.seq)
    /\ startupBatch' = << >>
    /\ \/ /\ applied' = Append(FlushedState, handler.seq)
          /\ Advance(handler.seq)
          /\ HandlerTo("complete", 0)
       \/ /\ "apply" \in Faults
          /\ applied' = FlushedState
          /\ Advance(FlushedSeq)
          /\ HandlerTo("fail", handler.seq)
    /\ UNCHANGED <<stream, consumer, loop, restoredSeq, startup, liveBatch, failed, saved,
                   restarts>>

(* An event past the target proves that startup is over; a target that was  *)
(* deleted is lowered to what is applied.                                   *)
EndStartupBeforeLive ==
    /\ startupTarget' = IF ~ended /\ FlushedSeq < startupTarget THEN FlushedSeq
                        ELSE startupTarget
    /\ CompleteStartup(startupTarget', FlushedSeq)

ApplyLive ==
    /\ Applying
    /\ ~Skips(handler.seq) /\ ~ShouldBatchStartup(handler.seq) /\ GoesLive(handler.seq)
    /\ startupBatch' = << >>
    /\ EndStartupBeforeLive
    /\ \/ /\ ~LiveFull
          /\ liveBatch' = Append(liveBatch, handler.seq)
          /\ applied' = FlushedState
          /\ Advance(FlushedSeq)
          /\ HandlerTo("complete", 0)
          /\ UNCHANGED failed
       \/ /\ LiveFull
          /\ liveBatch' = << >>
          /\ applied' = FlushedState \o Append(liveBatch, handler.seq)
          /\ Advance(handler.seq)
          /\ HandlerTo("complete", 0)
          /\ UNCHANGED failed
       \/ /\ LiveFull /\ "apply" \in Faults
          /\ liveBatch' = Append(liveBatch, handler.seq)
          /\ applied' = FlushedState
          /\ lastSeq' = FlushedSeq
          /\ Fail(Head(liveBatch'))
          /\ HandlerTo("fail", Head(liveBatch'))
    /\ UNCHANGED <<stream, consumer, loop, restoredSeq, saved, restarts>>

(* failPendingBatch                                                         *)
FailUndecodable ==
    /\ handler.pc = "undecodable"
    /\ Barrier
    /\ Fail(IF startupBatch # << >> THEN Head(startupBatch)
            ELSE IF liveBatch # << >> THEN Head(liveBatch) ELSE handler.seq)
    /\ HandlerTo("idle", 0)
    /\ UNCHANGED <<stream, consumer, loop, applied, lastSeq, restoredSeq, startupTarget,
                   completed, batches, saved, restarts>>

(* p.fail after applyEvent returned an error, or for bad metadata.          *)
RecordFailure ==
    /\ handler.pc = "fail"
    /\ Fail(handler.seq)
    /\ HandlerTo("idle", 0)
    /\ UNCHANGED <<stream, consumer, loop, applied, lastSeq, restoredSeq, startupTarget,
                   completed, batches, saved, restarts>>

(* maybeCompleteStartup at the end of handleMessage.                        *)
HandlerCompletes ==
    /\ handler.pc = "complete"
    /\ Barrier \/ completed
    /\ CompleteStartup(startupTarget, lastSeq)
    /\ HandlerTo("idle", 0)
    /\ UNCHANGED <<stream, consumer, loop, applied, lastSeq, restoredSeq, startupTarget,
                   batches, failed, client, saved, restarts>>

HandlerStep ==
    \/ SkipEvent \/ BufferStartup \/ CommitStartupBatch \/ FailStartupBatch \/ ApplyOne
    \/ ApplyLive \/ FailUndecodable \/ RecordFailure \/ HandlerCompletes

----------------------------------------------------------------------------
(* Run.                                                                     *)

Start ==
    /\ run = "idle"
    /\ run' = "restore"
    /\ \E t \in 0 .. Len(log) : IsCurrentTarget(t) /\ aim' = t
    /\ UNCHANGED <<stream, consumer, current, previous, handler, applied, lastSeq,
                   restoredSeq, startup, batches, failed, client, saved, restarts>>

(* resetForColdReplay, or an invalid checkpoint that is reset.              *)
ColdReplay ==
    /\ run = "restore"
    /\ run' = "consume"
    /\ applied' = << >> /\ lastSeq' = 0 /\ restoredSeq' = 0
    /\ startupTarget' = aim
    /\ saved' = IF RestoreMode = "checkpoint" THEN NoSave ELSE saved
    /\ UNCHANGED <<stream, consumer, aim, current, previous, handler, ended, completed,
                   batches, failed, client, restarts>>

(* The saved state is usable: a snapshot is not newer than the target, a    *)
(* checkpoint not newer than the stream and not behind its retained start.  *)
Usable ==
    \/ RestoreMode = "snapshot" /\ saved.cutoff <= aim
    \/ /\ RestoreMode = "checkpoint"
       /\ saved.cutoff <= Len(log)
       /\ \E f \in 1 .. Len(log) + 1 : IsFirstSequence(f) /\ f <= saved.cutoff + 1

RestoreSaved ==
    /\ run = "restore"
    /\ saved # NoSave
    /\ Usable
    /\ run' = "consume"
    /\ applied' = saved.state
    /\ restoredSeq' = saved.cutoff
    /\ Advance(saved.cutoff)
    /\ startupTarget' = aim
    /\ UNCHANGED <<stream, consumer, aim, current, previous, handler, ended, completed,
                   batches, failed, saved, restarts>>

Consume ==
    /\ run = "consume"
    /\ run' = "complete"
    /\ handed' = restoredSeq
    /\ UNCHANGED <<stream, buffer, aim, current, previous, handler, applied, lastSeq,
                   restoredSeq, startup, batches, failed, client, saved, restarts>>

RunCompletes ==
    /\ run = "complete"
    /\ run' = "loop"
    /\ CompleteStartup(startupTarget, lastSeq)
    /\ UNCHANGED <<stream, consumer, aim, current, previous, handler, applied, lastSeq,
                   restoredSeq, startupTarget, batches, failed, client, saved, restarts>>

(* flushLiveBatch does nothing after a failure.                             *)
MayFlushLive_Always == TRUE
MayFlushLive == failed = NoFailure

(* flushLiveBatch when its timer fires; then maybeCompleteStartup.          *)
LiveTick ==
    /\ run = "loop"
    /\ liveBatch # << >>
    /\ run' = "complete"
    /\ \/ /\ ~MayFlushLive
          /\ UNCHANGED <<applied, lastSeq, ended, liveBatch, failed, client>>
       \/ /\ MayFlushLive
          /\ applied' = applied \o liveBatch
          /\ liveBatch' = << >>
          /\ Advance(Last(liveBatch))
          /\ UNCHANGED <<ended, failed>>
       \/ /\ MayFlushLive /\ "apply" \in Faults
          /\ Fail(Head(liveBatch))
          /\ UNCHANGED <<applied, lastSeq, liveBatch>>
    /\ UNCHANGED <<stream, consumer, aim, current, previous, handler, restoredSeq,
                   startupTarget, completed, startupBatch, saved, restarts>>

(* reconcileStartup: a tick that finds no progress since the last one reads *)
(* the target again; ticks after the end of startup do nothing.             *)
Tick ==
    /\ run = "loop"
    /\ StartupPending
    /\ previous' = HandledSeq
    /\ run' = IF HandledSeq = previous THEN "reread" ELSE "loop"
    /\ UNCHANGED <<stream, consumer, aim, current, handler, applied, lastSeq, restoredSeq,
                   startup, batches, failed, client, saved, restarts>>

ReadCurrent ==
    /\ run = "reread"
    /\ \/ /\ \E t \in 0 .. Len(log) : IsCurrentTarget(t) /\ current' = t
          /\ run' = "relock"
       \/ /\ "run" \in Faults
          /\ run' = "loop"
          /\ UNCHANGED current
    /\ UNCHANGED <<stream, consumer, aim, previous, handler, applied, lastSeq, restoredSeq,
                   startup, batches, failed, client, saved, restarts>>

(* No retained event of the startup history is left to deliver.             *)
NothingLeft_AtTarget == StartupPending /\ startupTarget <= HandledSeq
NothingLeft == StartupPending /\ current <= HandledSeq

Relock ==
    /\ run = "relock"
    /\ IF NothingLeft
       THEN run' = "flush" /\ UNCHANGED previous
       ELSE run' = "loop" /\ previous' = HandledSeq
    /\ current' = 0
    /\ UNCHANGED <<stream, consumer, aim, handler, applied, lastSeq, restoredSeq,
                   startup, batches, failed, client, saved, restarts>>

(* The pending batch is flushed, the target lowered and startup completed   *)
(* before the barrier opens, or the failure is recorded before that.        *)
Flush ==
    /\ run = "flush"
    /\ run' = "loop"
    /\ previous' = HandledSeq
    /\ \/ /\ applied' = FlushedState
          /\ startupBatch' = << >>
          /\ Advance(FlushedSeq)
          /\ startupTarget' = IF startupTarget > FlushedSeq THEN FlushedSeq ELSE startupTarget
          /\ CompleteStartup(startupTarget', FlushedSeq)
          /\ UNCHANGED failed
       \/ /\ "apply" \in Faults
          /\ startupBatch # << >>
          /\ Fail(Head(startupBatch))
          /\ UNCHANGED <<applied, lastSeq, startupTarget, completed, startupBatch>>
    /\ UNCHANGED <<stream, consumer, aim, current, handler, restoredSeq, liveBatch, saved,
                   restarts>>

(* Run returns the failure; its deferred p.fail finds one already recorded. *)
ReturnFailed ==
    /\ run = "loop"
    /\ failed # NoFailure
    /\ run' = "returned"
    /\ buffer' = << >>
    /\ Fail(0)
    /\ UNCHANGED <<stream, handed, aim, current, previous, handler, applied, lastSeq,
                   restoredSeq, startupTarget, completed, batches, saved, restarts>>

(* Reading the target, restoring, or setting up the consumer fails.         *)
RunFails ==
    /\ "run" \in Faults
    /\ run \in {"idle", "restore", "consume"}
    /\ run' = "returned"
    /\ buffer' = << >>
    /\ Fail(0)
    /\ UNCHANGED <<stream, handed, aim, current, previous, handler, applied, lastSeq,
                   restoredSeq, startupTarget, completed, batches, saved, restarts>>

(* The context ends. A handler that is under way still finishes.            *)
Shutdown ==
    /\ run \in {"restore", "consume", "loop"}
    /\ run' = "returned"
    /\ buffer' = << >>
    /\ UNCHANGED <<stream, handed, aim, current, previous, handler, applied, lastSeq,
                   restoredSeq, startup, batches, failed, client, saved, restarts>>

RunStep ==
    \/ Start \/ ColdReplay \/ RestoreSaved \/ Consume \/ RunCompletes \/ Tick \/ ReadCurrent
    \/ Relock \/ Flush \/ ReturnFailed

----------------------------------------------------------------------------
(* Read-your-writes.                                                        *)

Client(c, pc) == client' = [client EXCEPT ![c].pc = pc]

(* WaitFor has validated its position, WaitForCurrent has read its target:  *)
(* the message is retained and matches the projection's subjects.           *)
WaitFor(c) ==
    /\ client[c].pc = "idle"
    /\ \E q \in 1 .. Len(log) :
         /\ Retained(q) /\ Own(q)
         /\ client' = [client EXCEPT ![c] = [pc |-> "entering", seq |-> q]]
    /\ UNCHANGED <<stream, consumer, loop, handler, applied, lastSeq, restoredSeq, startup,
                   batches, failed, saved, restarts>>

FailsFor_Strict(seq) == failed # NoFailure /\ seq > failed
FailsFor(seq) == failed # NoFailure /\ seq >= failed

(* waitForSeq before it blocks.                                             *)
EnterWait(c) ==
    /\ client[c].pc = "entering"
    /\ Client(c, IF FailsFor(client[c].seq) THEN "error"
                 ELSE IF lastSeq >= client[c].seq THEN "ok" ELSE "waiting")
    /\ UNCHANGED <<stream, consumer, loop, handler, applied, lastSeq, restoredSeq, startup,
                   batches, failed, saved, restarts>>

(* waitForSeq after its channel was closed.                                 *)
LeaveWait(c) ==
    /\ client[c].pc = "woken"
    /\ Client(c, IF FailsFor(client[c].seq) THEN "error" ELSE "ok")
    /\ UNCHANGED <<stream, consumer, loop, handler, applied, lastSeq, restoredSeq, startup,
                   batches, failed, saved, restarts>>

CancelWait(c) ==
    /\ client[c].pc \in {"waiting", "woken"}
    /\ Client(c, "error")
    /\ UNCHANGED <<stream, consumer, loop, handler, applied, lastSeq, restoredSeq, startup,
                   batches, failed, saved, restarts>>

----------------------------------------------------------------------------
(* Durable state.                                                           *)

(* CaptureSnapshot under the barrier; the repository keeps no snapshot that *)
(* is older than the one it has.                                            *)
CaptureSnapshot_CountsPending ==
    /\ RestoreMode = "snapshot"
    /\ Barrier
    /\ HandledSeq > 0 /\ HandledSeq >= saved.cutoff
    /\ saved' = Save(HandledSeq, applied)
    /\ UNCHANGED <<stream, consumer, loop, handler, applied, lastSeq, restoredSeq, startup,
                   batches, failed, client, restarts>>

CaptureSnapshot ==
    /\ RestoreMode = "snapshot"
    /\ Barrier
    /\ lastSeq > 0 /\ lastSeq >= saved.cutoff
    /\ saved' = Save(lastSeq, applied)
    /\ UNCHANGED <<stream, consumer, loop, handler, applied, lastSeq, restoredSeq, startup,
                   batches, failed, client, restarts>>

(* The process ends, at any point, and starts again with a new Projector.   *)
(* A checkpointed projection commits its cutoff together with its state.    *)
Restart ==
    /\ restarts < MaxRestarts
    /\ run # "idle"
    /\ restarts' = restarts + 1
    /\ saved' = IF RestoreMode = "checkpoint" /\ lastSeq > 0
                THEN Save(lastSeq, applied) ELSE saved
    /\ buffer' = << >> /\ handed' = 0
    /\ run' = "idle" /\ aim' = 0 /\ current' = 0 /\ previous' = NoHandled
    /\ handler' = Idle
    /\ applied' = << >> /\ lastSeq' = 0 /\ restoredSeq' = 0
    /\ startupTarget' = 0 /\ ended' = FALSE /\ completed' = FALSE
    /\ startupBatch' = << >> /\ liveBatch' = << >>
    /\ failed' = NoFailure
    /\ client' = [c \in Clients |-> Idle]
    /\ UNCHANGED stream

----------------------------------------------------------------------------
Next ==
    \/ Publish \/ (\E q \in 1 .. Len(log) : Delete(q)) \/ Fetch
    \/ Deliver \/ HandlerStep
    \/ RunStep \/ LiveTick \/ RunFails \/ Shutdown
    \/ \E c \in Clients : WaitFor(c) \/ EnterWait(c) \/ LeaveWait(c) \/ CancelWait(c)
    \/ CaptureSnapshot \/ Restart

Spec == Init /\ [][Next]_vars

(* Run and the consumer keep going; the live timer fires while a batch is   *)
(* pending; a released caller runs on.                                      *)
FairSpec ==
    /\ Spec
    /\ WF_vars(RunStep) /\ WF_vars(LiveTick)
    /\ WF_vars(Fetch) /\ WF_vars(Deliver) /\ WF_vars(HandlerStep)
    /\ \A c \in Clients : WF_vars(EnterWait(c) \/ LeaveWait(c))

----------------------------------------------------------------------------
(* Properties.                                                              *)

(* Every field of the projector, its consumer and its callers has its type. *)
TypeOK ==
    /\ log \in Seq({"own", "other"}) /\ Len(log) <= MaxSeq
    /\ deleted \subseteq 1 .. Len(log)
    /\ buffer \in Seq(1 .. Len(log)) /\ handed \in 0 .. Len(log)
    /\ run \in {"idle", "restore", "consume", "complete", "loop", "reread", "relock",
                "flush", "returned"}
    /\ {aim, current, lastSeq, restoredSeq, startupTarget} \subseteq 0 .. Len(log)
    /\ previous \in {NoHandled} \cup 0 .. Len(log)
    /\ handler \in [pc : {"idle", "apply", "undecodable", "fail", "complete"},
                    seq : 0 .. Len(log)]
    /\ {applied, startupBatch, liveBatch} \subseteq Seq(1 .. Len(log))
    /\ {ended, completed} \subseteq BOOLEAN
    /\ failed \in {NoFailure} \cup 0 .. Len(log)
    /\ client \in [Clients -> [pc : {"idle", "entering", "waiting", "woken", "ok", "error"},
                               seq : 0 .. Len(log)]]
    /\ saved \in [kind : Kinds, cutoff : 0 .. Len(log), state : Seq(1 .. Len(log))]
    /\ restarts \in 0 .. MaxRestarts

Reflects(state, q) == \E i \in 1 .. Len(state) : state[i] = q
(* Everything the projection should know of the first n sequences.          *)
CoversHistory(state, n) ==
    \A q \in 1 .. n : Own(q) /\ Retained(q) => Reflects(state, q)

(* Events are folded in once, in stream order, and LastSeq is exact: every  *)
(* retained event up to it is in the state and nothing beyond it is, over   *)
(* batches, failures, deletions, snapshots, checkpoints and restarts.       *)
StateExact ==
    /\ \A i, j \in 1 .. Len(applied) : i < j => applied[i] < applied[j]
    /\ \A i \in 1 .. Len(applied) : Own(applied[i]) /\ applied[i] <= lastSeq
    /\ CoversHistory(applied, lastSeq)

(* WaitForStartup returns nil only when every retained event up to the      *)
(* target captured by Run is in the state, although the target may have     *)
(* been lowered since.                                                      *)
ReadyMeansCaughtUp == completed => CoversHistory(applied, aim)

(* A WaitFor that returns nil has made its write readable, also when it was *)
(* released by a failure beyond its sequence.                               *)
WaitIsReadYourWrites ==
    \A c \in Clients : client[c].pc = "ok" => CoversHistory(applied, client[c].seq)

(* A live event or batch that failed is never folded in afterwards, by the  *)
(* timer or by a later callback, nor is anything behind it.                 *)
FailedEventsStayOut ==
    failed > aim => \A i \in 1 .. Len(applied) : applied[i] < failed

(* Startup ends, also when the target was deleted before it was delivered.  *)
StartupEnds ==
    (run = "restore") ~> (completed \/ failed # NoFailure \/ run \in {"returned", "idle"})

(* A caller is released unless its message was deleted or Run has ended.    *)
WaitersReleased ==
    \A c \in Clients : (client[c].pc = "waiting") ~>
        (client[c].pc # "waiting" \/ client[c].seq \in deleted \/ run = "returned")

(* WaitForStartup "returns a fatal startup failure ... instead of reporting *)
(* readiness": when it has returned nil, no failure at a sequence of the    *)
(* startup history is recorded.                                             *)
ReadinessExcludesStartupFailure ==
    completed /\ failed # NoFailure => failed = 0 \/ failed > aim
=============================================================================
