# A TLA+ verification of Chatto's event-sourcing core

Chatto keeps its state in one JetStream stream (EVT). Commands append events to
it under optimistic concurrency control, projections fold the events into
memory, and every read is answered from a projection or, for message bodies,
from the stream through a cache. All of that goes through `pkg/events`, and the
correctness of every feature of the chat server rests on it: that two commands
on the same room cannot both be accepted on the same old state, that a
projection holds exactly the events it claims to hold, that a caller reads its
own write, that a deleted message body stays deleted. On that core stand the
services every replica shares with the others: the lease for singleton work,
durable workers, stored projection snapshots, and realtime delivery to clients
that come and go. This project models the core and these services, checks them
with TLC and proves every safety property of every module with TLAPS; liveness
is left to TLC.

## The system

| Component | State | Operations | Hard behaviour | What makes it correct |
|---|---|---|---|---|
| Event log (`encoded_event_log.go`, `mutation.go`, `expectation.go`) | the stream; per call its boundary, attempt and answer | `ExecuteMutation`, `AppendAt`, `AppendBatch`, `AppendEventually` | contention, lost and late requests, repeated calls, the de-duplication window, deletions under a guard | a decision commits only on the state it saw; a batch is adjacent; no operation is stored twice; answers are true |
| Projector (`projector.go`, `projection_snapshot.go`, `projection_checkpoint.go`) | projected state, `lastSeq`, startup target, two batches, waiters, failure, snapshot or checkpoint | `Run`, `handleMessage`, `reconcileStartup`, `WaitFor`, `WaitForStartup`, `CaptureSnapshot` | three kinds of goroutine, two locks, a target that disappears, failures in the middle of a batch, restarts | state and `lastSeq` agree; readiness and read-your-writes are never reported early; startup ends |
| Stream message reader (`stream_message_reader.go`) | cache, cache generation, semaphore | `Message(s)`, `Forget`, `Clear`, expiry | a load that races with a deletion | a forgotten record never comes back; every read returns |
| Body deletion (`core/message_body_cleanup.go`) | the stream, the reader's cache | `secureDeleteMessageBodyEvents` | stream deletion and `Forget` are two steps; failures are only logged | superseded bodies go, guards keep their tails |
| Durable worker (`durable_worker.go`, `evtstream/effects.go`) | per slot a delivery and its heartbeat timer; at the server the pending deliveries and their redelivery timers | fetch, handle, heartbeat, handoff, acknowledge, retry, terminate | redelivery of work that was done, pulls that outlive their worker, a full `MaxAckPending`, shutdown while a handler runs | nothing is dropped unhandled; nothing is repeated, or handled twice at once, without a fault; everything is settled |
| Lease (`lease/lease.go`) | one KV record with a TTL | `Run`, `TryRun`, `TryRunWithCooldown`, renewal, release | expiry while work runs, ambiguous renewals, writes applied late, crashes | work is exclusive; a cooldown holds; leadership passes on |
| Snapshot repository (`projectionsnapshot`) | blobs, and a pointer to the current and the previous generation | `Save(Cohort)`, `Load(Cohort)`, deletion of dropped generations, `Expire` | a publication that took effect although it failed, racing savers, a loader racing with the deletion | the pointer leads to a complete generation; no older snapshot wins; nothing is left behind |
| Realtime delivery (`my_events_hub.go`, `my_events_model.go`, `realtime_replay.go`, `nats_recovery.go`, `http_server/realtime.go`) | the hub's ingress, generation and visibility per user; per session its snapshot, boundary and queue; the client's cursor | subscribe, register, plan and replay, live delivery, quarantine, reset, recovery | gaps in the ingress that no message announces, admission during a gap, overlap of replay and live events, membership that changes meanwhile | a client that resumes after its cursor has lost nothing and keeps no room it has left |
| Core models (`cli/internal/core`) | projections of rooms, messages, members, roles, users, notifications; KV runtime state for sessions, presence, read state | commands and reads of the chat | idempotency keys, session rotation, read boundaries, key shredding | each aggregate's own invariants, on top of the above |

Callers use the parts together. A command captures the tail of its boundary,
waits until the projection covers it (`WaitFor`), decides on the projection and
publishes with a guard on that tail; after success it waits for its own
sequence. Projectors read the stream through ordered consumers. Body events are
read back by sequence through the reader and deleted from the stream once a
later record has superseded them. Background jobs run under a lease, or as
handlers of a durable worker. A projector starts from the newest loadable
snapshot of the repository. Clients get events from the hub, which passes on the
live republish of the stream once the projections have applied it, and what
they missed from a replay of the stream. `PROJECT.json` lists all components, the
ones that are not modelled too, and the hazards at their lines.

## The modules

### EventOps, AtomicLog, EventLog

`EventOps` is the shared vocabulary: subjects, guards (the tail of a subject
filter or of the whole stream), and operations. An operation is what one caller
wants to append: the subjects of its records, the guards its decision depends
on, and whether it goes through `ExecuteMutation` or one of the `Append` calls.
Record IDs are stable over retries, so a record is identified by its operation
and its part. Payloads are left out. `ExecuteMutation` publishes with the one
expectation of its boundary, so a mutation has at most one guard
(`OpAssumption`); the entries of an `AppendBatch` may each have their own.

`AtomicLog` is what the event log promises: an append-only log to which every
operation is added in one step; each of its guards had, in the state the
decision looked at, exactly the tail it has in the log at that moment; and an
operation that guards its own fact is added at most once.

`EventLog` is the code. A writer is at `capture` (reading tails, one at a
time), `publish`, `await` or `backoff`; `Call` starts an operation or repeats
one whose outcome was a conflict or an error. `Decide` looks at the first `v`
sequences of the stream, any `v` that covers the captured tails: the projection
was waited for and may be newer. `basis` records which tails the decision had
seen; it is what the refinement compares. A publish is a request in `net` that
travels on its own, so `GiveUp`, `ReceiveError` and a new `Call` can overtake
it, and `Lose` drops it. The server's part (`ServeStore`, `ServeConflict`,
`ServeDuplicate`, `ExpireID`) is external and follows what the code relies on:
guards are compared with the tails of *retained* messages, IDs in the
de-duplication window are recognised before the guards are looked at, and they
leave the window oldest first. A batch is one request, the committing one;
`StageConflict` is the rejection of a staged entry.

`SecureDelete` deletes a body only when every guard in use that covers it also
covers a later retained record. This is what the callers do: a body becomes
obsolete through a later body or a retraction of the same message, which is an
event of the same room. It matters: without it the tail of a guard could move
back and an old decision could commit.

### Projector

One projector of a stream that is appended to and deleted from meanwhile. The
projected state is the sequence of stream sequences folded into it, so that
order, repetition and omission are visible. The actors are the Run goroutine
(`run`), the callback of the ordered consumer (`handler`), the callers of
`WaitFor` (`client`) and the capture of snapshots. A step is what happens
between taking and releasing a lock; where a method takes `applyMu` twice, or
records something after releasing it, there are two actions. `applyMu` is held
over two actions only by `reconcileStartup` (`run = "flush"`), because the
handler can record a failure meanwhile, for which it does not need that lock.

| Action | Code |
|---|---|
| `Deliver` | `handleMessage` up to the barrier |
| `SkipEvent`, `BufferStartup`, `CommitStartupBatch`, `FailStartupBatch`, `ApplyOne`, `ApplyLive` | the disjoint paths of `applyEvent` |
| `RecordFailure`, `FailUndecodable`, `HandlerCompletes` | the rest of `handleMessage` |
| `Start`, `ColdReplay`, `RestoreSaved`, `Consume`, `RunCompletes` | `Run` before its loop |
| `LiveTick`, `Tick`, `ReadCurrent`, `Relock`, `Flush`, `ReturnFailed`, `Shutdown`, `RunFails` | the loop of `Run`, `reconcileStartup` and the returns |
| `WaitFor`, `EnterWait`, `LeaveWait`, `CancelWait` | `WaitFor`, `waitForSeq` |
| `CaptureSnapshot`, `Restart` | `CaptureSnapshot` and its publication; the end of the process |

The constants select the kind of projection: batch sizes (1 and 0 switch
batching off) and what it restores from (`Kinds`, one of which is chosen
initially and kept in `saved.kind`), and which faults happen: bad message
metadata, an undecodable event, a failing application, a failing read in Run.
Application is all or nothing, as `pkg/events/README.md` demands of
projections. A snapshot is stored when it is captured, unless it is older than
the stored one; a checkpoint is part of the projection's own transaction and so
always equals the state at the end of the process. That a stored snapshot is
complete and never replaced by an older one is what `SnapshotRepository`
establishes. The lookup of the current
target is one step for all filters; the code makes them concurrently, but all
of them after the startup target was captured, and a message published in
between lies past that target.

### StreamMessageReader

`message` as five steps (lookup, slot, second lookup with the capture of the
cache generation, load, store), `Forget` and `Clear` as one step each, as they
hold `invalidationMu`. `SecureDelete` and `Forget` of the same sequence are
separate actions, with reads in between. Least-recently-used eviction and idle
expiry are `Evict`. The cost accounting of the cache is left out.

### ExclusiveWork, Lease

`ExclusiveWork` is the promise: one holder, work that runs only while its owner
holds, and a lease that ends only after the work has. `Lease` is the code, for
the three ways it is used (`mode`): `Run`, `TryRun`, `TryRunWithCooldown`. The
place `pc[o]` names the request an owner waits for or the part of `runAsLeader`
it is in.

| Action | Code |
|---|---|
| `Call`, `Acquired`, `Refused`, `Wake` | `Run`, `TryRun`, `TryRunWithCooldown`, `TryAcquire`, `tryCreate` |
| `RenewTick`, `Renewed`, `ContextDone`, `Lost`, `WorkReturned` | `runAsLeader`, `Renew` |
| `Get`, `Released` | the reads of `TryAcquire`, `Renew`, `Release`; `releaseBestEffort` |
| `RequestError` | any of their requests fails, times out or is cancelled |
| `Apply`, `ApplyLate`, `Expire` | the KV bucket (external) |
| `WorkDone`, `ContextEnds`, `Crash`, `Tick` | the job, its caller, the process, time |

A write that was abandoned stays in `late` and may be applied at any time. What
protects the lease is that updates and deletes name the revision they replace,
that any failed renewal cancels the work and waits for it, and that the TTL is
long enough, which is an assumption on the constants, `ExclusionAssumption`:

    RenewEvery + 3 * RequestTimeout + StopBound < TTL
    RequestTimeout + WorkBound < TTL

The record may have been written a whole request before its answer arrived;
then come one interval, the two requests of a renewal that fails, and the time
the work needs to stop. With the default TTL of 45 s, renewal every 15 s and
the client's request timeout of 5 s, cancelled work must return in less than
15 s. Nothing in the code enforces that bound; it is the obligation of every
job that runs under a lease. The second line says the same of
`TryRunWithCooldown`, which does not renew.

`WorkIsExclusive` is conditional on this assumption, and outside of it the code
promises nothing. `lease.go:4-7` says so: "This is deliberately a coordination
primitive, not a consensus or fencing layer. Callers still need idempotent work
and durable OCC-protected writes for correctness if leadership changes, a lease
expires, or two processes race near a renewal boundary."

Revisions come from the set `Revisions`, and one to which neither the record nor
any owner or late request refers may be used again. `RevisionLeft` is the bound
this puts on a run: a request takes effect only while such a revision is left.

The refinement maps `holder` to the owner of the live record and `workers` to
the owners whose job runs. A renewal whose update is rejected does not happen
as long as the assumption holds; `Renewed` keeps the branch the code has for it.

### DurableWorker

The workers of several processes over one pull consumer with `MaxAckPending`
equal to their `MaxConcurrent` (`CreateEffectConsumer`). `pc[w]` is the place of
`Run`; each of its slots has the state of one `process` goroutine together with
its handler. `Fetch`, `StopLoop`, `FetchTimeout`, `FetchGone`, `FetchError`,
`Resume`, `GotMessage` and `Return` are `Run`; `HandlerReturns`, `Heartbeat`,
`Handoff`, `HandlerStops` and `Finish` are `process` and `finish`. `Deliver`,
`Redeliver`, `Arrive` and `DeleteConsumer` are the consumer (external): a pull
request has a lifetime of its own there and may be served after the worker has
stopped waiting for it. An acknowledgement arrives, is lost, or arrives late;
the server attributes it to the message, not to the delivery.

`HandlerAssumption` says what the application owes: heartbeats come before
`AckWait` ends, and a cancelled handler returns within the lifetime of a pull
request, which is what `durableWorkerHandoffDelay` is derived from.

### SnapshotRepository

A cohort is a manifest and its parts. Single snapshots (`Save`, `Load`) are
cohorts without parts. A save reads the pointer (`Save`), stores the parts and
then the manifest (`Put`), publishes at the pointer's revision (`Publish`), and
deletes either the generation that fell out of the pointer (`DropBegin`,
`Drop`) or, when it failed, what it had stored (`CleanUp`), one object at a time.
`PutError` and `PublishError` are requests that fail before or after they took
effect, `PublishLate` is one that takes effect later. A load tries the current
generation and then the previous one (`Load`, `ReadManifest`, `ReadPart`,
`ReadError`), over a pointer it read once. `Expire` goes by age alone.

### RealtimeDelivery

One replica, and the connections of one client, one after the other, of a user
who joins and leaves one private room. The stream holds these facts, posts to
the room, and `other` facts that reach every session; that is enough for a
cursor to move past an event that was not delivered. `client` is what the
client has: its cursor, the posts it received, the sequence up to which a
snapshot covered them, and what it believes of its membership.

| Action | Code |
|---|---|
| `Publish`, `Project` | the stream and its republish (external); the projections |
| `Handle` | `handleMessage`, `filterReadyEVTRoomSubjectEvent`, distribution to the sessions |
| `Overflow`, `Reset`, `Resubscribe`, `Open` | `Run`, `runGeneration`, `quarantine`, `beginGeneration` |
| `Disconnect`, `Suspend`, `Reconnect`, `Recover` | the connection (external); `runNATSRecovery`, `verifyNATSRecovery` |
| `Connect`, `Subscribe`, `Capture`, `CaptureVisibleRooms`, `Request`, `Register` | `Subscribe`, `captureVisibilitySnapshot`, `registerAtIngressBoundary`, `handleRegistration` |
| `PlanBoundary`, `Replay` | `PlanRealtimeReplay` |
| `CaptureSnapshot` | `realtimeSnapshotFrame` of a session whose plan is a reset |
| `WriteSnapshot`, `WriteEvent`, `WriteCaughtUp`, `WriteLive` | the write loop of the session |
| `Hangup`, `Unsubscribe` | the end of a connection, `removeSubscriberLocked` |

`Replay` puts the events to be replayed into `catchup`, a set that `WriteEvent`
empties in the order of the stream. The read of the memberships and the
authorization of each event, which in the code come one after the other, are
this one step; a change in between could only withhold posts from a user who
has left by then. The snapshot of a reset is captured later, at its own
sequence (`CaptureSnapshot`). A snapshot frame and the `caught_up` frame
after it are one step, because a client that loses the connection between them
keeps neither.

The sessions of a user share one visibility state (`room`), which an abandoned
subscription keeps alive until the server notices (`lingering`). `holes` is a
history variable for the two things that go wrong without the code noticing:
`snapshot`, an admission with a visibility snapshot from before a gap, and
`leave`, a leave after the boundary of a served session that is not passed on
to it, because the hub handled the join before it late (see below). A leave up
to the boundary is no hole, whether the hub skips it because the visibility
snapshot covers it (`my_events_hub.go:721`) or because `visibleRooms` was
captured after it had been projected: the replay or the snapshot of the session
brings it. `CursorCoversPosts` excludes the first of the two, `MembershipTrue`
both, and nothing else.

The header of the module lists what is assumed of the environment: a lost
connection is noticed before it is back, an overflow before the queue has been
read to its end, and no loss falls between a successful flush and
`beginGeneration`. The hub empties `msgChan` before it serves a registration;
the model allows a registration at any time, which has more behaviours.

### Conventions

An operator `Name_Variant` is a mistaken form of the operator `Name` after it:
a dropped check, an off-by-one, a missing release. Specifications do not use
them; substituting one for its original shows that a property can fail.
The modules `MC*` give the constants values. History variables (`quiet` in
`Lease`; `handled`, `handedOff` and `reclaimed` in `DurableWorker`; `saved` and
the count of publications in `SnapshotRepository`; `client` in part, and
`holes`, in `RealtimeDelivery`) influence no action.

## Runs

| Run | Distinct states | What it shows |
|---|---|---|
| `EventLogContending` | 77,427 | Two mutations of one room, one a batch with a body, two attempts and two calls each. `AppliedAtomically`: the log refines `AtomicLog`. `ReportedSequencesTrue`, `ConflictStoresNothing`: answers are true. `ConflictsArePaidFor`: each conflict is due to a record that another request committed. `EveryCallReturns`. |
| `EventLogMixed` | 196,960 | A batch guarded by two rooms, a stream-tail mutation, an unguarded record, and an `AppendBatch` without a guard, one call each. `TypeOK` and the safety properties. |
| `ProjectorBatching` | 5,657,209 | A projection with a checkpoint, or with snapshots captured at any moment; both batches of two, all faults, one restart. `StateExact`: events are folded in once, in order, and `lastSeq` is exact. `ReadyMeansCaughtUp`, `WaitIsReadYourWrites`, `FailedEventsStayOut`. |
| `ProjectorLiveness` | 88,491 | A cold replay, with live batches of two and without. `StartupEnds` although the target may be deleted at any time; `WaitersReleased`. |
| `ProjectorStartupFailure` | - | Expected violation, see below. |
| `StreamMessageReader` | 66,597 | Three readers, two slots, one record. `ForgottenStaysOut`, `NoReadAfterForget`, `ReadsReturn`, and no deadlock. |
| `Lease` | 274,321 | Two processes in each mode, the shortest TTL allowed. `WorkIsExclusive`: the lease refines `ExclusiveWork`. `CooldownHonoured`. `Succession`: no process inside `Run` waits for ever while nobody works. |
| `DurableWorkerHandoff` | 2,426,868 | Two workers, one message, two faults, two failures. `SettledMeansHandled`, `OneHandlerAtATime`, `HandledAgainOnlyAfterFaults`, `HandoffsLeave`. |
| `DurableWorkerShared` | 172,000 | Two messages for two workers with one slot each and `MaxAckPending` 1: `EveryMessageSettled`. |
| `SnapshotRepository` | 1,822,857 | Two savers and a loader, three generations of a manifest and two parts. `OneFaultLeavesASnapshot`, `LoadOutlivesOnePublication`, `NothingLeftBehind`, `NeverRegresses`. |
| `RealtimeDelivery` | 3,331,758 | Three events, two gaps. `CursorCoversPosts`, `MembershipTrue`, `CursorNeverRegresses`. |
| `RealtimeStaleSnapshot` | - | Expected violation, see below. |

**Bounds.** `MaxAttempts = 2` has a first, a last and a retried attempt;
`MaxCalls = 2` has a late request of the first call meet the second.
Two writers suffice to contend, and the mixed run has one writer per kind of
call. `MaxSeq = 3` with batches of two gives a full batch, a partial one and an
event behind it, own or foreign, with any of them deleted; the liveness run has
two events, which is a target, its deletion and one event after it. One restart
meets a saved state, a second would meet the same kinds of state. Readers of
different records share only the generation and the semaphore, and one record
exercises both; the safety properties were also checked once with two records
(3.4 million states).

The lease runs with a TTL of 6 and every other duration 1, the shortest TTL
that `ExclusionAssumption` allows: one tick less and work overlaps. One failed
request and one crash suffice for a late write to meet a successor's record. A
handoff needs two workers and a message; two slots let a stopping worker have a
second pull open, two faults lose an acknowledgement and the one that repeats
it. `AckWait` 3 leaves one tick after a heartbeat. For settlement two messages
must compete for one place at the consumer. Three generations of snapshots are
the fewest for which one falls out of the pointer; with two faults and one part
(5,989,900 states), and with four generations and two faults (12.1 million),
the repository's safety properties were checked once. In realtime delivery three
events hold a join, a post and an event behind it, or a join, a leave and a new
join; two gaps are one during the recovery from another. Once
checked: four events with one gap (8.2 million states) and three events with
three gaps (8.8 million).

Deadlock is not checked where a system really stops: all
calls have returned, or the stream is full and Run has ended.

**Fairness.** A writer keeps running, and a request without an answer times out
(`Proceed`: `nats.go` and every caller bound the wait by a context). Run, the
consumer, the handler and a released caller are goroutines that the scheduler
runs, the live timer fires while a batch is pending, the reconcile ticker fires.
Nothing obliges anyone to publish, delete, fail, restart or cancel. The
liveness run leaves out the fault `run`, a target lookup that fails: without a
bound it could fail for ever, and then startup does not end. For the reader,
the semaphore is a Go channel whose waiters are served in order, hence strong
fairness of `Acquire`; `GetMsg` returns, with a record or an error.

In `Lease` requests are answered, an expired record is removed, cancelled work
stops and time passes; these are weak. `WorkReturned` is strong, because
the `select` of `runAsLeader` chooses at random among its ready cases, so
that a ticker that is always ready does not hide the result of the work for
ever. Nobody has to call `Run`, and work that is not cancelled need not end. In
`DurableWorker` goroutines run, handlers return, the consumer redelivers, and it
serves the open pulls with every message in turn (strong: a pull closes and
opens again).

**What does not hold.** `ReadinessExcludesStartupFailure` is the doc comment of
`WaitForStartup` (`projector.go:442-444`): a fatal startup failure is returned
"instead of reporting readiness". When a startup batch fails in
`handleMessage`, the barrier is open before the failure is recorded
(`projector.go:970`). If `reconcileStartup` is waiting for it, it flushes the
failed batch a second time, and when that succeeds it reports readiness; then
the failure is recorded. The batch is applied once only, so `StateExact` still
holds; what fails is the promise of the comment. `FailedEventsStayOut`
therefore speaks of live events (`failed > aim`). `WaitersReleased` excludes a
caller whose own message was deleted before delivery: nothing but a later event
or its context releases it.

`NoUnobservableGap` is the promise of `docs/architecture/subjects-and-events.md`
(187-190) that no session continues or reconnects across a gap, and of ADR-049
(66-67) that reconnecting sessions rebuild their visibility in the new
generation. `Subscribe` captures the visible rooms before
`registerAtIngressBoundary` reads the generation (`my_events_hub.go:286`), and
waits through a quarantine in between (275-283). Neither `quarantine` nor
`beginGeneration` bumps `visibilityVersion`, so a snapshot from before the gap is
accepted after it. A join whose live message fell into the gap stays unknown to
the session, posts of the room are dropped, and other events move the cursor
past them.

Smaller observations, which the modules state where they matter:

- A leave that is projected before the hub handles the join before it makes the
  join invisible, and then neither is passed on (`my_events_hub.go:767`; hole
  `leave`). A session whose boundary lies before that leave keeps the room.
- A reconnect whose status changes are coalesced is noticed only by polling
  (`nats_recovery.go:130`); the model assumes it is noticed.
- The hub's own `beginGeneration` (`my_events_hub.go:146`) can admit sessions
  while the NATS recovery still waits for the projections. The properties hold
  all the same, because a registered session waits for them itself.
- A publication of a snapshot that took effect although it reported an error
  has its blobs deleted while the pointer names them. One such fault leaves the
  previous generation (`OneFaultLeavesASnapshot`); two can leave none, and the
  next start replays the stream.
- A lease whose renewal ends with its context is not released; the next leader
  waits for the TTL.

## Proofs

TLC checks the instances above; the theorems hold for every value of the
constants, any number of writers, readers, processes, workers, savers and
loaders, and any bound. The bounds of the models (`MaxSeq`, `MaxGaps`,
`MaxFaults` and the like) are natural numbers without a limit in the proofs.
Each run evaluates the assumptions of its module, so that they are known to be
satisfiable.

| Module | Theorems | Assumes |
|---|---|---|
| `EventLog_proofs` | `TypeCorrect`, `AtomicityRefinement` | `OpAssumption`, `AttemptsAssumption` |
| `EventLogAnswers_proofs` | `ConflictsAreClean`, `ReportsAreTrue`, `ConflictsPaidFor` | the same |
| `Projector_proofs` | `TypeCorrect`, `StateIsExact`, `ReadyIsCaughtUp`, `ReadYourWrites`, `FailedStayOut` | `ProjectorAssumption` |
| `StreamMessageReader_proofs` | `TypeCorrect`, `ForgottenNeverCached`, `ForgottenNeverRead` | `ReaderAssumption` |
| `Lease_proofs` | `TypeCorrect`, `WorkExclusive`, `CooldownsHonoured` | `LeaseAssumption`, `ExclusionAssumption` |
| `DurableWorker_proofs` | `TypeCorrect`, `AtLeastOnce`, `NoTwoHandlers`, `NotHandledAgain`, `HandoffsNotReclaimed` | `WorkerAssumption`, `HandlerAssumption` |
| `SnapshotRepository_proofs` | `TypeCorrect`, `PointerNeverRegresses`, `SnapshotSurvivesOneFault`, `LoadsOutliveAPublication`, `NoGarbage` | `RepositoryAssumption` |
| `RealtimeDelivery_proofs` | `TypeCorrect`, `ResumeLosesNothing`, `MembershipIsTrue`, `CursorOnlyAdvances` | `RealtimeAssumption` |

Each proof has one lemma for the initial states, lemmas for the steps, one per
action or group of actions, and temporal theorems that combine them. Hardly any
property is inductive as it stands. The inductive invariants, which TLC
confirmed before they were proved, say why the code is right:

**Event log, atomicity.** `TypeOK` bounds attempts by `MaxAttempts`, which is
inductive only together with `AttemptsLeft`: a writer in `backoff` has an
attempt left. `AtomicInv` adds four facts. Records keep the subjects their
operation gives them. `TailsRetained`: a deleted record has a retained successor
under every guard that covers it, so that the tail of the retained messages is
the tail of all messages; this carries the argument over deletions.
`TailsCaptured`: a captured tail is a record its guard covers. `DecisionsHold`:
for every pending decision and every request on its way, `basis` is at least
`expected`, and the operation's own fact, if it is stored at all, came after
`expected`. When the server then finds the guards unchanged, `expected` is the
tail, so `basis` is too, and a fact under the guard cannot be stored already.

**Event log, answers.** `CallsAccounted` follows one call: until it awaits an
answer it has published nothing, then at most the request it awaits, and a
conflict answers exactly that request. Late requests are those of earlier calls.
`AnswersTrue` places the records of an answered call at the reported sequences.
For `ConflictsArePaidFor`, `Paid` counts the records of others under the guard:
there are as many as there were conflicts, and as many as earlier conflicts up
to the tail that the writer captured last. A new conflict means a tail beyond
that one, hence one more.

**Projector.** `DataInv`: what is applied, the startup batch and the live batch
are adjacent segments of the stream's history, each of which is in order and
leaves out nothing retained. `DeliveryInv` continues the chain through the
handler and the consumer's buffer. `BatchInv` keeps the batches on their sides
of the startup target, `StartupInv` relates the target that `WaitForStartup`
promised, the one that is lowered when its messages are deleted, and what Run
has read and not yet acted on. `FailureInv` says that everything before a failed
event is applied and nothing behind it; `ClientInv` follows a caller from its
release to its answer, between which the state may fail.

**Stream message reader.** `SlotsAccounted`: the free slots and the holders
together are the capacity. `LoadedIsFresh`: a loaded record whose generation is
still current has not been forgotten, and captured generations are never ahead.
`LateFindsNothing`: a reader that starts after `Forget` holds no record at any
point of the read.

**Lease.** The invariant relates two clocks. `Need` is how long an owner's work
may still run before the owner has renewed or stopped it, summed over the place
in `runAsLeader`; `InTime` says that the record lives longer than that whenever
the work runs, which `ExclusionAssumption` makes hold at each renewal.
`HolderOwns`, `ReadsOwn` and `LateOwn` say that the revisions an owner read, or
a late request of it names, are those of its own record or of none, so that no
late write touches another's record; `NoLateDelete` that none deletes the
holder's own. For the cooldown, `CooldownInv` says that while it lasts the
record outlives it and nothing late or pending can delete it. Both need that a
revision someone still refers to is not given to a new record.

**Durable worker.** `HandledInv` gives at-least-once under all faults: an
acknowledgement exists only after its handler has succeeded. The other
properties speak of what no fault has touched, and hold through `Quiet` as long
as there was none: a held message is pending and its holder acts before it is
redelivered (`SlotsHold`, which rests on `HeartbeatInterval < AckWait`), it has
one holder, a success waits for its acknowledgement or has been settled, and a
message that was handed off stays away from the consumer for as long as a pull
of its old worker is open (`Away`, which rests on `durableWorkerHandoffDelay`).

**Snapshot repository.** `FreshInv` and `DropInv`: a generation that is being
saved is named nowhere, one that is dropped is behind the pointer for good.
`CutoffInv`: a save, even a late one, publishes over nothing newer; since the
pointer's revision is checked, `NeverRegresses` follows. `KeptInv` speaks of
snapshots that have not grown old, and allows one fault one exception: every
generation that the pointer names, or that a late publication would make it
name, is complete and nobody cleans it up, except at most one, and the pointer
does not name that one alone. Without faults every blob belongs to the pointer
or to one save, and a loader's generation is still named until it was published
over twice (`Quiet`).

**Realtime delivery.** No message announces a gap, so the invariant says what
the hub cannot know: an event is `Missing` if it is still in the ingress, or was
lost and nothing behind it has come since; the second lasts only until the new
generation, which drops all sessions. `RoomInv`: the visibility state is true at
some position after which the hub has handled no change. `DeliveryInv`: whatever
the client needs (`Wanted`) is behind its cursor, in the replay, in the
session's queue, or missing. `SnapshotInv` says the same of an admission on its
way, and its condition, that no generation began meanwhile, is the one whose
absence is the hole `snapshot`. `CursorInv` keeps replay and live delivery on
their sides of the boundary, from which `CursorNeverRegresses` follows as well.

Only model-checked: liveness, which is outside the prover (`EveryCallReturns`,
`StartupEnds`, `WaitersReleased`, `ReadsReturn`, `Succession`,
`EveryMessageSettled`), the absence of deadlock where it is checked, and the two
expected violations.

## Not modelled

The table above and `PROJECT.json` give the reasons component by component.

- Most lines of the repository hold no behaviour of their own for a model
  checker: generated protobuf code, the user interfaces and clients, the CLI and
  configuration, request mapping and validation of the public API, adapters to
  mail, push, search and image processing. The projections of `cli/internal/core`
  are large deterministic folds; what can go wrong about them concurrently is in
  `Projector`.
- In the event log: data (payloads, codecs, subjects as text, routing to
  components), record TTLs, page reads. A stream that is recreated with reused
  sequences, and stream identity checks, except in the repository, whose
  snapshots carry an identity.
- In the reader: more than one process per cache.
- In the lease: `CheckOwnership`, which only reads.
- In the repository: encryption, compression, checksums (a blob is intact or
  absent), size limits, the delete budget of `Expire`, and when the worker
  decides to capture.
- In realtime delivery: presence and `live.sync` events, assets, invitations,
  memberships that change with roles, `LIVE_ONLY` subscriptions, budgets of a
  catch-up, termination of sessions; several rooms, several users and
  several replicas, which share no state but the stream. Room facts of a member
  (added, removed, banned) come with a joined or left fact, which is what the
  model has.
- Of the application protocols: message idempotency, sessions and tokens,
  notifications, invitations, authorization, key shredding, calls. They are
  callers of the modelled log and its projections.

## Plan

1. Done: event log with its abstract specification and refinement proof,
   projector, stream message reader with proofs.
2. Done: lease with its abstract specification, durable worker, snapshot
   repository, realtime delivery with its recovery.
3. Done: proofs of all safety properties and both refinements.
4. Next: renewable sessions, message idempotency, notification read
   boundaries, key shredding against cached keys; subject paging as an algorithm
   checked against a reference definition; a recreated stream.
