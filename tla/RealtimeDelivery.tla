-------------------------- MODULE RealtimeDelivery --------------------------
(***************************************************************************)
(* Durable realtime delivery to one client: the process-wide MyEventsHub    *)
(* that reads the live republish of the event stream, its quarantine after  *)
(* an ingress loss, the recovery after a NATS reconnect, the admission of a *)
(* session, the replay after its cursor, and the hand-over from the replay  *)
(* to the live queue.                                                       *)
(*                                                                         *)
(* The stream holds posts to one private room, the user's own joins and     *)
(* leaves of that room, and "other" facts that every session receives. The  *)
(* user's sessions share one visibility state in the hub; a subscription    *)
(* that the server has not yet seen to be dead (lingering) keeps it alive.  *)
(* ingress is what the NATS subscription will hand over in order: what is   *)
(* on its way, and what waits in msgChan.                                   *)
(*                                                                         *)
(* Assumptions on the environment: the status listener sees that the        *)
(* connection is lost before it is back; after msgChan has overflowed the   *)
(* hub sees the slow consumer before it has read all that msgChan held; the *)
(* connection is not lost between a successful flush and beginGeneration.   *)
(*                                                                         *)
(* An operator Name_Variant is a mistaken form of the operator Name that    *)
(* follows it; it is not part of the specification and shows that a         *)
(* property can fail.                                                       *)
(***************************************************************************)
EXTENDS Integers, Sequences, FiniteSetsExt

CONSTANTS
    MaxSeq,     \* length of the stream (bound)
    MaxGaps     \* number of lost connections, overflows and failed waits (bound)

ASSUME RealtimeAssumption == MaxSeq \in Nat \ {0} /\ MaxGaps \in Nat

VARIABLES
    log,        \* the event stream
    projected,  \* the sequence that the projections of this replica have applied
    ingress,    \* live messages that the hub has still to handle
    linked,     \* the NATS connection is up
    noticed,    \* the status listener has seen the last loss of it
    recovery,   \* the stream position that recovery waits for, or Recovered
    hub,        \* where Run is
    lossy,      \* msgChan has overflowed
    accepting,
    room,       \* the shared visibility state of the user, or NoRoom
    lingering,  \* an abandoned subscription keeps that state alive
    session,    \* the connection that is being served
    catchup,    \* replayed events still to be written
    live,       \* the subscription's queue
    client,     \* what the client has
    holes,      \* history: what went wrong that the code does not notice
    gaps

stream == <<log, projected>>
nats == <<linked, noticed, recovery, lossy, gaps>>
queues == <<catchup, live>>
vars == <<stream, ingress, nats, hub, accepting, room, lingering, session, queues, client,
          holes>>

Recovered == -1
NoCursor == -1
NoRoom == [member |-> FALSE, visible |-> FALSE, since |-> -1]
NoSession == [pc |-> "offline", current |-> FALSE, crossed |-> FALSE, boundary |-> 0,
              snapshot |-> NoRoom]

ChangesVisibility(q) == log[q] \in {"join", "leave"}
MemberAt(n) == \E j \in 1 .. n : log[j] = "join" /\ \A k \in j + 1 .. n : log[k] # "leave"
VisibilityTail == Max({0} \cup {q \in 1 .. Len(log) : ChangesVisibility(q)})

Planned == session.pc \in {"replay", "snapshot", "events", "live"}
Registered == Planned \/ session.pc \in {"plan", "reset"}
To(pc) == session' = [session EXCEPT !.pc = pc]

----------------------------------------------------------------------------
Init ==
    /\ log \in {<< >>, <<"join">>}
    /\ projected = Len(log)
    /\ ingress = << >>
    /\ linked = TRUE /\ noticed = TRUE /\ recovery = Recovered
    /\ hub = "up" /\ lossy = FALSE /\ accepting = TRUE
    /\ room = NoRoom /\ lingering = FALSE
    /\ session = NoSession /\ catchup = {} /\ live = << >>
    /\ client = [cursor |-> NoCursor, floor |-> 0, posts |-> {}, member |-> FALSE]
    /\ holes = {}
    /\ gaps = 0

----------------------------------------------------------------------------
(* The stream, its republish and the projections.                           *)

Publish(fact) ==
    /\ Len(log) < MaxSeq
    /\ fact = "join" => ~MemberAt(Len(log))
    /\ fact \in {"leave", "post"} => MemberAt(Len(log))
    /\ log' = Append(log, fact)
    /\ ingress' = IF linked /\ hub # "down" /\ ~lossy THEN Append(ingress, Len(log')) ELSE ingress
    /\ UNCHANGED <<projected, nats, hub, accepting, room, lingering, session, queues, client,
                   holes>>

Project ==
    /\ linked
    /\ projected < Len(log)
    /\ projected' = projected + 1
    /\ UNCHANGED <<log, ingress, nats, hub, accepting, room, lingering, session, queues,
                   client, holes>>

----------------------------------------------------------------------------
(* quarantine and beginGeneration. Both wake the sessions whose request is  *)
(* not answered yet; they subscribe again.                                  *)

Quarantine ==
    /\ accepting' = FALSE
    /\ room' = NoRoom /\ lingering' = FALSE
    /\ catchup' = {} /\ live' = << >>
    /\ session' = IF Registered THEN NoSession
                  ELSE IF session.pc = "requested" THEN [session EXCEPT !.pc = "subscribe"]
                  ELSE session

BeginGeneration ==
    /\ accepting' = TRUE
    /\ session' = IF session.pc = "requested" THEN [session EXCEPT !.pc = "subscribe"]
                  ELSE [session EXCEPT !.crossed = session.pc \in {"rooms", "admit"}]
    /\ UNCHANGED <<room, lingering, queues>>

----------------------------------------------------------------------------
(* The NATS connection and runNATSRecovery.                                 *)

(* What was on its way is lost; what has reached msgChan is still handled.  *)
Disconnect ==
    /\ linked
    /\ gaps < MaxGaps
    /\ gaps' = gaps + 1
    /\ linked' = FALSE /\ noticed' = FALSE
    /\ \E n \in 0 .. Len(ingress) : ingress' = SubSeq(ingress, 1, n)
    /\ UNCHANGED <<stream, recovery, lossy, hub, accepting, room, lingering, session, queues,
                   client, holes>>

Suspend ==
    /\ ~linked /\ ~noticed
    /\ noticed' = TRUE
    /\ recovery' = MaxSeq
    /\ Quarantine
    /\ UNCHANGED <<stream, ingress, linked, lossy, gaps, hub, client, holes>>

(* The SDK subscribes again; verifyNATSRecovery reads the projections' aim. *)
Reconnect ==
    /\ ~linked /\ noticed
    /\ linked' = TRUE
    /\ recovery' = Len(log)
    /\ UNCHANGED <<stream, ingress, noticed, lossy, gaps, hub, accepting, room, lingering,
                   session, queues, client, holes>>

Recover ==
    /\ linked
    /\ recovery # Recovered /\ projected >= recovery
    /\ recovery' = Recovered
    /\ BeginGeneration
    /\ UNCHANGED <<stream, ingress, linked, noticed, lossy, gaps, hub, client, holes>>

----------------------------------------------------------------------------
(* Run of the hub.                                                          *)

Overflow ==
    /\ linked /\ hub = "up" /\ ~lossy
    /\ gaps < MaxGaps
    /\ gaps' = gaps + 1
    /\ lossy' = TRUE
    /\ UNCHANGED <<stream, ingress, linked, noticed, recovery, hub, accepting, room,
                   lingering, session, queues, client, holes>>

(* runGeneration returns: for a slow consumer, or because handleMessage     *)
(* could not make the next message safe to deliver. Its subscriptions are   *)
(* dropped and what they had received is drained.                           *)
Reset ==
    /\ hub = "up"
    /\ \/ lossy /\ gaps' = gaps
       \/ ingress # << >> /\ gaps < MaxGaps /\ gaps' = gaps + 1
    /\ hub' = "down" /\ lossy' = FALSE /\ ingress' = << >>
    /\ Quarantine
    /\ UNCHANGED <<stream, linked, noticed, recovery, client, holes>>

Resubscribe ==
    /\ hub = "down"
    /\ linked
    /\ hub' = "opening"
    /\ UNCHANGED <<stream, ingress, nats, accepting, room, lingering, session, queues, client,
                   holes>>

Open ==
    /\ hub = "opening"
    /\ linked
    /\ hub' = "up"
    /\ BeginGeneration
    /\ UNCHANGED <<stream, ingress, nats, client, holes>>

(* handleMessage has waited for the projections. A change of visibility     *)
(* bumps visibilityVersion. filterReadyEVTRoomSubjectEvent passes a post to *)
(* a member who may read it now; a change reaches the sessions when the     *)
(* room is visible now, or was before and no longer is.                     *)
Reaches(q) ==
    CASE log[q] = "other" -> TRUE
      [] log[q] = "post" -> q > room.since /\ room.member /\ MemberAt(projected)
      [] OTHER -> q > room.since /\ (MemberAt(projected) \/ room.visible)

RoomAfter(q) ==
    IF ChangesVisibility(q) /\ q > room.since
    THEN [room EXCEPT !.member = (log[q] = "join"), !.visible = MemberAt(projected)]
    ELSE room

(* A leave that is not passed on because the hub handled the join before it *)
(* late, when the room was no longer visible. It matters to a session whose *)
(* boundary lies before it: no replay and no snapshot brings it either.     *)
Overtaken(q) ==
    /\ Planned /\ q > session.boundary
    /\ log[q] = "leave" /\ room.member /\ ~Reaches(q)

Handle ==
    /\ hub = "up"
    /\ ingress # << >>
    /\ LET q == Head(ingress)
       IN  /\ projected >= q
           /\ ingress' = Tail(ingress)
           /\ session' = IF ChangesVisibility(q) THEN [session EXCEPT !.current = FALSE]
                         ELSE session
           /\ room' = IF room = NoRoom THEN room ELSE RoomAfter(q)
           /\ live' = IF room # NoRoom /\ Registered /\ Reaches(q) THEN Append(live, q)
                      ELSE live
           /\ holes' = IF Overtaken(q) THEN holes \cup {"leave"} ELSE holes
    /\ UNCHANGED <<stream, nats, hub, accepting, lingering, catchup, client>>

----------------------------------------------------------------------------
(* Admission of a session.                                                  *)

Connect ==
    /\ session.pc = "offline"
    /\ To("subscribe")
    /\ UNCHANGED <<stream, ingress, nats, hub, accepting, room, lingering, queues, client,
                   holes>>

(* Subscribe reads visibilityVersion and whether the user has a state.      *)
Subscribe ==
    /\ session.pc = "subscribe"
    /\ session' = [NoSession EXCEPT !.pc = IF room = NoRoom THEN "capture" ELSE "admit",
                                    !.current = TRUE]
    /\ UNCHANGED <<stream, ingress, nats, hub, accepting, room, lingering, queues, client,
                   holes>>

(* captureVisibilitySnapshot: between two equal reads of the tails.         *)
Capture ==
    /\ session.pc = "capture"
    /\ linked
    /\ projected >= VisibilityTail
    /\ session' = [session EXCEPT !.pc = "rooms", !.snapshot.member = MemberAt(Len(log)),
                                  !.snapshot.since = VisibilityTail]
    /\ UNCHANGED <<stream, ingress, nats, hub, accepting, room, lingering, queues, client,
                   holes>>

CaptureVisibleRooms ==
    /\ session.pc = "rooms"
    /\ session' = [session EXCEPT !.pc = "admit", !.snapshot.visible = MemberAt(projected)]
    /\ UNCHANGED <<stream, ingress, nats, hub, accepting, room, lingering, queues, client,
                   holes>>

(* registerAtIngressBoundary waits until the hub accepts.                   *)
Request ==
    /\ session.pc = "admit"
    /\ accepting
    /\ To("requested")
    /\ UNCHANGED <<stream, ingress, nats, hub, accepting, room, lingering, queues, client,
                   holes>>

(* The request is of the current generation: the others were woken.         *)
Admissible_AnyVersion == room # NoRoom \/ session.snapshot # NoRoom
Admissible == session.current /\ (room # NoRoom \/ session.snapshot # NoRoom)

(* A membership change behind the snapshot that the hub will not see.       *)
MissesChange ==
    \E q \in session.snapshot.since + 1 .. Len(log) :
        ChangesVisibility(q) /\ \A i \in 1 .. Len(ingress) : ingress[i] # q

(* handleRegistration                                                       *)
Register ==
    /\ hub = "up"
    /\ session.pc = "requested"
    /\ IF Admissible
       THEN /\ room' = IF room = NoRoom THEN session.snapshot ELSE room
            /\ holes' = IF room = NoRoom /\ session.crossed /\ MissesChange
                        THEN holes \cup {"snapshot"} ELSE holes
            /\ session' = [NoSession EXCEPT !.pc = "plan"]
       ELSE /\ To("subscribe")
            /\ UNCHANGED <<room, holes>>
    /\ UNCHANGED <<stream, ingress, nats, hub, accepting, lingering, queues, client>>

----------------------------------------------------------------------------
(* Replay and live delivery.                                                *)

(* PlanRealtimeReplay reads the boundary, then waits for the projections.   *)
PlanBoundary ==
    /\ session.pc = "plan"
    /\ linked
    /\ session' = [session EXCEPT !.pc = "replay", !.boundary = Len(log)]
    /\ UNCHANGED <<stream, ingress, nats, hub, accepting, room, lingering, queues, client,
                   holes>>

(* No cursor, or a change that the current membership cannot authorize.     *)
MustReset ==
    \/ client.cursor = NoCursor
    \/ /\ ~MemberAt(projected)
       /\ \E q \in client.cursor + 1 .. session.boundary : log[q] = "join"

Replayed_MembersOnly(q) == log[q] = "other" \/ MemberAt(projected)
Replayed(q) == log[q] \in {"other", "leave"} \/ MemberAt(projected)

(* The rest of the plan. Between its read of the memberships and its        *)
(* authorization of an event, which are one step here, a change could only  *)
(* withhold posts from a user who has left by then.                         *)
Replay ==
    /\ session.pc = "replay"
    /\ linked
    /\ projected >= session.boundary
    /\ IF MustReset
       THEN To("reset") /\ UNCHANGED catchup
       ELSE /\ catchup' = {q \in client.cursor + 1 .. session.boundary : Replayed(q)}
            /\ To("events")
    /\ UNCHANGED <<stream, ingress, nats, hub, accepting, room, lingering, live, client,
                   holes>>

(* realtimeSnapshotFrame, after the plan: the projections at one sequence.  *)
CaptureSnapshot ==
    /\ session.pc = "reset"
    /\ session' = [session EXCEPT !.pc = "snapshot", !.boundary = projected]
    /\ UNCHANGED <<stream, ingress, nats, hub, accepting, room, lingering, queues, client,
                   holes>>

Event(q) ==
    client' = [client EXCEPT !.cursor = q,
                             !.posts = IF log[q] = "post" THEN @ \cup {q} ELSE @,
                             !.member = IF ChangesVisibility(q) THEN log[q] = "join" ELSE @]

(* The snapshot and its caught_up frame: without it the client drops both.  *)
WriteSnapshot ==
    /\ session.pc = "snapshot"
    /\ client' = [client EXCEPT !.cursor = session.boundary, !.floor = session.boundary,
                                !.member = MemberAt(session.boundary)]
    /\ To("live")
    /\ UNCHANGED <<stream, ingress, nats, hub, accepting, room, lingering, queues, holes>>

WriteEvent ==
    /\ session.pc = "events"
    /\ \E q \in catchup :
         /\ \A k \in catchup : q <= k
         /\ catchup' = catchup \ {q}
         /\ Event(q)
    /\ UNCHANGED <<stream, ingress, nats, hub, accepting, room, lingering, session, live,
                   holes>>

WriteCaughtUp ==
    /\ session.pc = "events"
    /\ catchup = {}
    /\ client' = [client EXCEPT !.cursor = session.boundary]
    /\ To("live")
    /\ UNCHANGED <<stream, ingress, nats, hub, accepting, room, lingering, queues, holes>>

(* An event up to the boundary came with the replay or the snapshot.        *)
Discards_None(q) == FALSE
Discards(q) == q <= session.boundary

WriteLive ==
    /\ session.pc = "live"
    /\ live # << >>
    /\ live' = Tail(live)
    /\ IF Discards(Head(live)) THEN UNCHANGED client ELSE Event(Head(live))
    /\ UNCHANGED <<stream, ingress, nats, hub, accepting, room, lingering, session, catchup,
                   holes>>

----------------------------------------------------------------------------
(* The state that removeSubscriberLocked leaves.                            *)
RoomLeft_Kept(others) == room
RoomLeft(others) == IF others THEN room ELSE NoRoom

(* The connection ends: the client leaves, or its queue is full. The server *)
(* unsubscribes at once or later.                                           *)
Hangup ==
    /\ session.pc # "offline"
    /\ session' = NoSession /\ catchup' = {} /\ live' = << >>
    /\ \/ /\ Registered
          /\ lingering' = TRUE
          /\ UNCHANGED room
       \/ /\ room' = RoomLeft(lingering)
          /\ UNCHANGED lingering
    /\ UNCHANGED <<stream, ingress, nats, hub, accepting, client, holes>>

Unsubscribe ==
    /\ lingering
    /\ lingering' = FALSE
    /\ room' = RoomLeft(Registered)
    /\ UNCHANGED <<stream, ingress, nats, hub, accepting, session, queues, client, holes>>

----------------------------------------------------------------------------
Next ==
    \/ \E fact \in {"join", "leave", "post", "other"} : Publish(fact)
    \/ Project
    \/ Disconnect \/ Suspend \/ Reconnect \/ Recover
    \/ Overflow \/ Reset \/ Resubscribe \/ Open \/ Handle
    \/ Connect \/ Subscribe \/ Capture \/ CaptureVisibleRooms \/ Request \/ Register
    \/ PlanBoundary \/ Replay \/ CaptureSnapshot
    \/ WriteSnapshot \/ WriteEvent \/ WriteCaughtUp \/ WriteLive
    \/ Hangup \/ Unsubscribe

Spec == Init /\ [][Next]_vars

----------------------------------------------------------------------------
(* Properties.                                                              *)

Positions == 0 .. Len(log)

(* Every variable has its type; a session that is served has a state in the *)
(* hub, and the state goes with the last subscription.                      *)
TypeOK ==
    /\ log \in Seq({"join", "leave", "post", "other"}) /\ Len(log) <= MaxSeq
    /\ projected \in Positions
    /\ ingress \in Seq(1 .. Len(log)) /\ live \in Seq(1 .. Len(log))
    /\ {linked, noticed, lossy, accepting, lingering} \subseteq BOOLEAN
    /\ recovery \in {Recovered} \cup 0 .. MaxSeq
    /\ hub \in {"up", "down", "opening"}
    /\ room \in [member : BOOLEAN, visible : BOOLEAN, since : {-1} \cup Positions]
    /\ session.pc \in {"offline", "subscribe", "capture", "rooms", "admit", "requested",
                       "plan", "replay", "reset", "snapshot", "events", "live"}
    /\ session.boundary \in Positions
    /\ catchup \subseteq 1 .. Len(log)
    /\ client.cursor \in {NoCursor} \cup Positions /\ client.posts \subseteq 1 .. Len(log)
    /\ holes \subseteq {"snapshot", "leave"}
    /\ gaps \in 0 .. MaxGaps
    /\ (room # NoRoom) <=> (Registered \/ lingering)

StillMemberSince(q) == MemberAt(q) /\ \A k \in q .. Len(log) : log[k] # "leave"

Complete ==
    \A q \in 1 .. client.cursor :
        log[q] = "post" /\ StillMemberSince(q) => q \in client.posts \/ q <= client.floor

(* A client that resumes after its cursor loses nothing: it has every post  *)
(* up to the cursor of a room it is still in, one by one or in a snapshot,  *)
(* over lost connections, resets of the hub, reconnects and the hand-over   *)
(* from replay to live delivery.                                            *)
CursorCoversPosts == "snapshot" \notin holes => Complete

(* What the client believes of its membership is true at its cursor, unless *)
(* a leave further on will correct it: a room it has left is never kept.    *)
MembershipTrue ==
    holes = {} /\ client.cursor # NoCursor =>
        /\ client.member => MemberAt(client.cursor)
        /\ MemberAt(client.cursor) /\ StillMemberSince(client.cursor) => client.member

(* A cursor never moves back, so that no durable event is received twice:   *)
(* live events that the replay or the snapshot covered are discarded.       *)
CursorNeverRegresses == [][client'.cursor >= client.cursor]_client

(* "No session continues or reconnects across an unobservable gap": what    *)
(* CursorCoversPosts says, also of sessions that were admitted with a       *)
(* snapshot of an earlier generation.                                       *)
NoUnobservableGap == Complete
=============================================================================
