----------------------- MODULE RealtimeDelivery_proofs -----------------------
(***************************************************************************)
(* Proofs about RealtimeDelivery, for a stream of any length and any number *)
(* of gaps.                                                                 *)
(***************************************************************************)
EXTENDS RealtimeDelivery, SequenceTheorems, WellFoundedInduction, TLAPS

Facts == {"join", "leave", "post", "other"}
Pcs == {"offline", "subscribe", "capture", "rooms", "admit", "requested",
        "plan", "replay", "reset", "snapshot", "events", "live"}
Rooms == [member : BOOLEAN, visible : BOOLEAN, since : -1 .. MaxSeq]
Sessions == [pc : Pcs, current : BOOLEAN, crossed : BOOLEAN, boundary : 0 .. MaxSeq, snapshot : Rooms]
Clients == [cursor : -1 .. MaxSeq, floor : 0 .. MaxSeq, posts : SUBSET (1 .. MaxSeq), member : BOOLEAN]

Typed ==
    /\ log \in Seq(Facts) /\ Len(log) <= MaxSeq /\ projected \in Nat
    /\ ingress \in Seq(Nat) /\ live \in Seq(Nat)
    /\ linked \in BOOLEAN /\ noticed \in BOOLEAN /\ lossy \in BOOLEAN
    /\ accepting \in BOOLEAN /\ lingering \in BOOLEAN
    /\ recovery \in -1 .. MaxSeq /\ hub \in {"up", "down", "opening"}
    /\ room \in Rooms /\ session \in Sessions /\ client \in Clients
    /\ catchup \in SUBSET Nat
    /\ holes \in SUBSET {"snapshot", "leave"} /\ gaps \in 0 .. MaxGaps

In(q, s) == \E i \in 1 .. Len(s) : s[i] = q
Ordered(s) == \A i, j \in 1 .. Len(s) : i < j => s[i] < s[j]

(* Everything that is named is in the stream.                               *)
BoundsInv ==
    /\ projected <= Len(log)
    /\ \A q : In(q, ingress) \/ In(q, live) \/ q \in catchup \/ q \in client.posts => q \in 1 .. Len(log)
    /\ room.since <= Len(log) /\ session.snapshot.since <= Len(log)
    /\ session.boundary <= Len(log) /\ client.cursor <= Len(log)

(* Live messages come in the order of the stream.                           *)
OrderInv ==
    /\ Ordered(ingress) /\ Ordered(live)
    /\ \A p, q : In(p, live) /\ In(q, ingress) => p < q

(* A state of the room exists for a served session or a lingering one, and  *)
(* only in a running generation of the hub.                                 *)
HubInv ==
    /\ room = NoRoom \/ room.since >= 0
    /\ session.snapshot = NoRoom \/ session.snapshot.since >= 0
    /\ session.pc = "rooms" => session.snapshot.since >= 0
    /\ (room # NoRoom) <=> (Registered \/ lingering)
    /\ room # NoRoom => hub = "up" /\ accepting
    /\ ~linked /\ noticed => ~accepting
    /\ session.pc = "requested" => accepting

(* Where the session stands relative to its boundary.                       *)
CursorInv ==
    /\ session.pc \in {"replay", "reset", "snapshot", "events"} => client.cursor <= session.boundary
    /\ session.pc = "reset" => session.boundary <= projected
    /\ session.pc = "reset" \/ Planned => room.since <= session.boundary
    /\ session.pc = "events" =>
         client.cursor >= 0 /\ \A q \in catchup : client.cursor < q /\ q <= session.boundary
    /\ session.pc = "live" =>
         /\ session.boundary <= client.cursor
         /\ \A q : (In(q, live) \/ In(q, ingress)) /\ q > session.boundary => q > client.cursor

(* Messages that are on their way, or were lost and nothing after them has  *)
(* come.                                                                    *)
Behind(q) == \A p : In(p, ingress) \/ In(p, live) => p < q
Broken == ~linked \/ lossy
Missing(q) == In(q, ingress) \/ (Broken /\ Behind(q))

LogInv ==
    \A q \in 1 .. Len(log) : /\ log[q] \in {"leave", "post"} => MemberAt(q - 1)
                             /\ log[q] = "join" => ~MemberAt(q - 1)

Changes(n) == {q \in 1 .. Len(log) : q > n /\ ChangesVisibility(q)}

(* A snapshot is true where it was captured, and the hub will see what has  *)
(* changed since, unless a generation began in between.                     *)
SnapshotInv ==
    session.pc \in {"rooms", "admit", "requested"} /\ session.snapshot # NoRoom =>
        /\ session.snapshot.member = MemberAt(session.snapshot.since)
        /\ session.current /\ ~session.crossed /\ hub = "up" /\ accepting =>
             \A q \in Changes(session.snapshot.since) : Missing(q)

(* The state of the room is that at some position after which the hub has   *)
(* handled no change.                                                       *)
TrueUpTo(m) ==
    /\ room.since <= m /\ m <= Len(log)
    /\ room.member = MemberAt(m)
    /\ \A q \in Changes(m) : Missing(q)
    /\ \A q \in Changes(room.since) : In(q, ingress) => q > m
RoomInv == room # NoRoom /\ "snapshot" \notin holes => \E m \in Nat : TrueUpTo(m)

(* What a session must not miss.                                            *)
Wanted(q) ==
    \/ log[q] \in {"post", "join"} /\ StillMemberSince(q)
    \/ log[q] = "leave" /\ holes = {}
DeliveryInv ==
    "snapshot" \notin holes =>
        /\ session.pc = "events" =>
             \A q \in client.cursor + 1 .. session.boundary : Wanted(q) => q \in catchup
        /\ session.pc \in {"replay", "snapshot", "events"} =>
             \A q \in session.boundary + 1 .. Len(log) : Wanted(q) => In(q, live) \/ Missing(q)
        /\ session.pc = "reset" =>
             \A q \in projected + 1 .. Len(log) : Wanted(q) => In(q, live) \/ Missing(q)
        /\ session.pc = "live" =>
             \A q \in client.cursor + 1 .. Len(log) : Wanted(q) => In(q, live) \/ Missing(q)

Inv ==
    /\ Typed /\ BoundsInv /\ OrderInv /\ HubInv /\ CursorInv /\ LogInv
    /\ SnapshotInv /\ RoomInv /\ DeliveryInv /\ CursorCoversPosts /\ MembershipTrue

----------------------------------------------------------------------------
(* Sequences of positions.                                                  *)

LEMMA InAppend ==
    ASSUME NEW s \in Seq(Nat), NEW e \in Nat
    PROVE  /\ Append(s, e) \in Seq(Nat)
           /\ \A q : In(q, Append(s, e)) <=> In(q, s) \/ q = e
           /\ Ordered(s) /\ (\A q : In(q, s) => q < e) => Ordered(Append(s, e))
<1>1. /\ Append(s, e) \in Seq(Nat) /\ Len(Append(s, e)) = Len(s) + 1 /\ Len(s) \in Nat
      /\ \A i \in 1 .. Len(s) : Append(s, e)[i] = s[i] /\ i \in 1 .. Len(s) + 1
      /\ Append(s, e)[Len(s) + 1] = e
  OBVIOUS
<1>2. ASSUME NEW q PROVE In(q, Append(s, e)) <=> In(q, s) \/ q = e
  <2>1. \A i \in 1 .. Len(s) + 1 : i \in 1 .. Len(s) \/ i = Len(s) + 1
    BY <1>1
  <2>2. Len(s) + 1 \in 1 .. Len(s) + 1
    BY <1>1
  <2>. QED
    BY <1>1, <2>1, <2>2 DEF In
<1>3. ASSUME Ordered(s), \A q : In(q, s) => q < e PROVE Ordered(Append(s, e))
  <2>. SUFFICES ASSUME NEW i \in 1 .. Len(s) + 1, NEW j \in 1 .. Len(s) + 1, i < j
                PROVE  Append(s, e)[i] < Append(s, e)[j]
    BY <1>1 DEF Ordered
  <2>1. i \in 1 .. Len(s)
    BY <1>1
  <2>2. CASE j \in 1 .. Len(s)
    BY <1>1, <1>3, <2>1, <2>2 DEF Ordered
  <2>3. CASE j = Len(s) + 1
    BY <1>1, <1>3, <2>1, <2>3 DEF In
  <2>. QED
    BY <1>1, <2>2, <2>3
<1>. QED
  BY <1>1, <1>2, <1>3

LEMMA InTail ==
    ASSUME NEW s \in Seq(Nat), s # << >>, Ordered(s)
    PROVE  /\ Tail(s) \in Seq(Nat) /\ Head(s) \in Nat /\ In(Head(s), s)
           /\ \A q : In(q, s) => q \in Nat /\ Head(s) <= q
           /\ \A q : In(q, Tail(s)) <=> In(q, s) /\ q # Head(s)
           /\ Ordered(Tail(s))
<1>1. /\ Tail(s) \in Seq(Nat) /\ Len(s) \in Nat /\ Len(s) >= 1 /\ Len(Tail(s)) = Len(s) - 1
      /\ Head(s) = s[1] /\ \A i \in 1 .. Len(s) : s[i] \in Nat
      /\ \A i \in 1 .. Len(s) - 1 : Tail(s)[i] = s[i + 1] /\ i + 1 \in 1 .. Len(s)
  OBVIOUS
<1>2. 1 \in 1 .. Len(s) /\ \A i \in 1 .. Len(s) : i = 1 \/ (1 < i /\ i - 1 \in 1 .. Len(s) - 1 /\ (i - 1) + 1 = i)
  BY <1>1
<1>3. ASSUME NEW i \in 1 .. Len(s) PROVE s[1] <= s[i] /\ (i # 1 => s[1] < s[i])
  BY <1>1, <1>2 DEF Ordered
<1>4. \A q : In(q, s) => q \in Nat /\ Head(s) <= q
  BY <1>1, <1>3 DEF In
<1>5. ASSUME NEW q PROVE In(q, Tail(s)) <=> In(q, s) /\ q # Head(s)
  <2>1. ASSUME NEW i \in 1 .. Len(s) - 1, Tail(s)[i] = q PROVE In(q, s) /\ q # Head(s)
    <3>1. i + 1 \in 1 .. Len(s) /\ s[i + 1] = q /\ i + 1 # 1
      BY <1>1, <2>1
    <3>2. s[1] < q /\ s[1] \in Nat /\ q \in Nat
      BY <1>1, <1>2, <1>3, <3>1
    <3>. QED
      BY <1>1, <3>1, <3>2 DEF In
  <2>2. ASSUME NEW i \in 1 .. Len(s), s[i] = q, q # s[1] PROVE In(q, Tail(s))
    <3>1. i - 1 \in 1 .. Len(s) - 1 /\ (i - 1) + 1 = i
      BY <1>2, <2>2
    <3>2. Tail(s)[i - 1] = q
      BY <1>1, <2>2, <3>1
    <3>. QED
      BY <1>1, <3>1, <3>2 DEF In
  <2>. QED
    BY <1>1, <2>1, <2>2 DEF In
<1>6. Ordered(Tail(s))
  <2>. SUFFICES ASSUME NEW i \in 1 .. Len(s) - 1, NEW j \in 1 .. Len(s) - 1, i < j PROVE Tail(s)[i] < Tail(s)[j]
    BY <1>1 DEF Ordered
  <2>1. i + 1 \in 1 .. Len(s) /\ j + 1 \in 1 .. Len(s) /\ i + 1 < j + 1
    BY <1>1
  <2>2. s[i + 1] < s[j + 1]
    BY <2>1 DEF Ordered
  <2>. QED
    BY <1>1, <2>2
<1>7. In(Head(s), s)
  BY <1>1, <1>2 DEF In
<1>. QED
  BY <1>1, <1>4, <1>5, <1>6, <1>7

LEMMA InPrefix ==
    ASSUME NEW s \in Seq(Nat), Ordered(s), NEW n \in 0 .. Len(s)
    PROVE  /\ SubSeq(s, 1, n) \in Seq(Nat) /\ Ordered(SubSeq(s, 1, n))
           /\ \A q : In(q, SubSeq(s, 1, n)) => In(q, s)
           /\ \A q : In(q, s) => In(q, SubSeq(s, 1, n)) \/ \A p : In(p, SubSeq(s, 1, n)) => p < q
<1>1. Len(s) \in Nat /\ n \in Nat /\ n <= Len(s)
  OBVIOUS
<1>2. /\ SubSeq(s, 1, n) \in Seq(Nat) /\ Len(SubSeq(s, 1, n)) = n
      /\ \A i \in 1 .. n : SubSeq(s, 1, n)[i] = s[i] /\ i \in 1 .. Len(s)
  <2>1. \A i \in 1 .. n : i \in 1 .. Len(s) /\ s[i] \in Nat
    BY <1>1
  <2>2. SubSeq(s, 1, n) = [i \in 1 .. n |-> s[i]]
    BY <1>1
  <2>. QED
    BY <1>1, <2>1, <2>2
<1>3. Ordered(SubSeq(s, 1, n))
  BY <1>2 DEF Ordered
<1>4. \A q : In(q, SubSeq(s, 1, n)) => In(q, s)
  BY <1>2 DEF In
<1>5. ASSUME NEW q, In(q, s), ~In(q, SubSeq(s, 1, n)), NEW p, In(p, SubSeq(s, 1, n)) PROVE p < q
  <2>1. PICK j \in 1 .. Len(s) : s[j] = q
    BY <1>5 DEF In
  <2>2. PICK i \in 1 .. n : s[i] = p /\ i \in 1 .. Len(s)
    BY <1>2, <1>5 DEF In
  <2>3. j \notin 1 .. n
    BY <1>2, <1>5, <2>1 DEF In
  <2>4. i < j
    BY <1>1, <2>3
  <2>. QED
    BY <2>1, <2>2, <2>4 DEF Ordered
<1>. QED
  BY <1>2, <1>3, <1>4, <1>5

LEMMA MaxFacts ==
    ASSUME NEW n \in Nat, NEW S \in SUBSET (0 .. n), S # {}
    PROVE  Max(S) \in S /\ \A y \in S : Max(S) >= y
<1>. DEFINE T == {i \in Nat : n - i \in S}
<1>1. \A x \in S : x \in Nat /\ n - x \in Nat /\ n - (n - x) = x
  OBVIOUS
<1>2. T \subseteq Nat /\ T # {}
  BY <1>1
<1>3. PICK i \in T : \A j \in T : ~(<<j, i>> \in OpToRel(<, Nat))
  <2>. HIDE DEF T
  <2>. QED
    BY <1>2, NatLessThanWellFounded, WFMin
<1>4. i \in Nat /\ n - i \in S
  BY <1>3
<1>5. \A j \in T : ~(j < i)
  <2>1. ASSUME NEW j \in T, j < i PROVE <<j, i>> \in OpToRel(<, Nat)
    BY <1>4, <2>1 DEF OpToRel
  <2>. QED
    BY <1>3, <2>1
<1>6. ASSUME NEW y \in S PROVE n - i >= y
  <2>1. n - y \in T /\ y \in Nat
    BY <1>1
  <2>2. ~(n - y < i)
    BY <1>5, <2>1
  <2>. QED
    BY <1>4, <2>1, <2>2
<1>. QED
  BY <1>4, <1>6 DEF Max

----------------------------------------------------------------------------
(* Membership along the stream.                                             *)

LEMMA MemberJoin == ASSUME NEW q \in Nat, q # 0, log[q] = "join" PROVE MemberAt(q)
BY DEF MemberAt

LEMMA MemberLeave == ASSUME NEW q \in Nat, log[q] = "leave" PROVE ~MemberAt(q)
<1>. SUFFICES ASSUME NEW j \in 1 .. q, log[j] = "join", \A k \in j + 1 .. q : log[k] # "leave" PROVE FALSE
  BY DEF MemberAt
<1>1. j = q \/ q \in j + 1 .. q
  OBVIOUS
<1>. QED
  BY <1>1

LEMMA MemberForward ==
    ASSUME NEW n \in Nat, NEW m \in Nat, n <= m, MemberAt(n), \A q \in n + 1 .. m : log[q] # "leave"
    PROVE  MemberAt(m)
<1>1. PICK j \in 1 .. n : log[j] = "join" /\ \A k \in j + 1 .. n : log[k] # "leave"
  BY DEF MemberAt
<1>2. j \in 1 .. m /\ \A k \in j + 1 .. m : k \in j + 1 .. n \/ k \in n + 1 .. m
  OBVIOUS
<1>. QED
  BY <1>1, <1>2 DEF MemberAt

LEMMA MemberBack ==
    ASSUME NEW n \in Nat, NEW m \in Nat, n <= m, MemberAt(m), \A q \in n + 1 .. m : log[q] # "join"
    PROVE  MemberAt(n)
<1>1. PICK j \in 1 .. m : log[j] = "join" /\ \A k \in j + 1 .. m : log[k] # "leave"
  BY DEF MemberAt
<1>2. j \in 1 .. n /\ \A k \in j + 1 .. n : k \in j + 1 .. m
  BY <1>1
<1>. QED
  BY <1>1, <1>2 DEF MemberAt

LEMMA MemberSame ==
    ASSUME NEW n \in Nat, NEW m \in Nat, n <= m, \A q \in n + 1 .. m : ~ChangesVisibility(q)
    PROVE  MemberAt(n) <=> MemberAt(m)
BY MemberForward, MemberBack DEF ChangesVisibility

LEMMA TailFacts ==
    ASSUME Typed
    PROVE  /\ VisibilityTail \in 0 .. Len(log)
           /\ \A q \in 1 .. Len(log) : q > VisibilityTail => ~ChangesVisibility(q)
           /\ MemberAt(VisibilityTail) <=> MemberAt(Len(log))
<1>. DEFINE S == {0} \cup {q \in 1 .. Len(log) : ChangesVisibility(q)}
<1>1. Len(log) \in Nat
  BY DEF Typed
<1>2. S \in SUBSET (0 .. Len(log)) /\ S # {}
  BY <1>1
<1>3. VisibilityTail = Max(S)
  BY DEF VisibilityTail
<1>4. VisibilityTail \in S /\ \A y \in S : VisibilityTail >= y
  <2>. HIDE DEF S
  <2>. QED
    BY <1>1, <1>2, <1>3, MaxFacts
<1>5. VisibilityTail \in 0 .. Len(log)
  BY <1>2, <1>4
<1>6. \A q \in 1 .. Len(log) : q > VisibilityTail => ~ChangesVisibility(q)
  BY <1>1, <1>4, <1>5
<1>7. \A q \in VisibilityTail + 1 .. Len(log) : ~ChangesVisibility(q)
  BY <1>1, <1>5, <1>6
<1>. QED
  BY <1>1, <1>5, <1>6, <1>7, MemberSame

LEMMA Publishes ==
    ASSUME Typed, NEW fact \in Facts, Publish(fact)
    PROVE  /\ Len(log) \in Nat /\ log' \in Seq(Facts) /\ Len(log') = Len(log) + 1 /\ Len(log') <= MaxSeq
           /\ \A q \in 1 .. Len(log) : log'[q] = log[q]
           /\ log'[Len(log) + 1] = fact
           /\ ingress' = IF linked /\ hub # "down" /\ ~lossy THEN Append(ingress, Len(log) + 1) ELSE ingress
           /\ fact = "join" => ~MemberAt(Len(log))
           /\ fact \in {"leave", "post"} => MemberAt(Len(log))
<1>1. Len(log) \in Nat /\ Len(log) < MaxSeq /\ log' = Append(log, fact)
  BY DEF Typed, Publish
<1>2. Len(log') = Len(log) + 1 /\ log' \in Seq(Facts)
  BY <1>1 DEF Typed
<1>3. /\ \A q \in 1 .. Len(log) : log'[q] = log[q]
      /\ log'[Len(log) + 1] = fact
  BY <1>1 DEF Typed
<1>. QED
  BY <1>1, <1>2, <1>3, RealtimeAssumption DEF Publish

LEMMA MemberStays ==
    ASSUME Len(log) \in Nat, \A q \in 1 .. Len(log) : log'[q] = log[q], NEW n \in 0 .. Len(log)
    PROVE  MemberAt(n)' = MemberAt(n)
<1>1. \A j \in 1 .. n : j \in 1 .. Len(log) /\ \A k \in j + 1 .. n : k \in 1 .. Len(log)
  OBVIOUS
<1>. QED
  BY <1>1 DEF MemberAt

----------------------------------------------------------------------------
(* What the actions do to the session.                                      *)

LEMMA Constants == /\ MaxSeq \in Nat /\ MaxSeq # 0 /\ MaxGaps \in Nat
                   /\ NoCursor = -1 /\ Recovered = -1
BY RealtimeAssumption DEF NoCursor, Recovered

LEMMA NoneFacts ==
    /\ NoRoom \in Rooms /\ NoRoom.since = -1 /\ NoRoom.member = FALSE
    /\ NoSession \in Sessions /\ NoSession.pc = "offline" /\ NoSession.snapshot = NoRoom
    /\ NoSession.boundary = 0 /\ NoSession.current = FALSE /\ NoSession.crossed = FALSE
BY Constants DEF NoRoom, Rooms, NoSession, Sessions, Pcs

LEMMA RoomFacts ==
    ASSUME NEW r \in Rooms
    PROVE  r.member \in BOOLEAN /\ r.visible \in BOOLEAN /\ r.since \in -1 .. MaxSeq /\ r.since \in Int
BY Constants DEF Rooms

LEMMA SessionFacts ==
    ASSUME Typed
    PROVE  /\ session.pc \in Pcs /\ session.current \in BOOLEAN /\ session.crossed \in BOOLEAN
           /\ session.boundary \in Nat /\ session.boundary <= MaxSeq
           /\ session.snapshot \in Rooms /\ session.snapshot.since \in Int /\ session.snapshot.since >= -1
           /\ room \in Rooms /\ room.since \in Int /\ room.since >= -1
           /\ client.cursor \in Int /\ client.cursor >= -1 /\ client.floor \in Nat /\ client.member \in BOOLEAN
           /\ projected \in Nat /\ Len(log) \in Nat /\ Len(log) <= MaxSeq
<1>1. session \in Sessions /\ room \in Rooms /\ client \in Clients /\ projected \in Nat
      /\ Len(log) \in Nat /\ Len(log) <= MaxSeq
  BY DEF Typed
<1>2. /\ session.pc \in Pcs /\ session.current \in BOOLEAN /\ session.crossed \in BOOLEAN
      /\ session.boundary \in 0 .. MaxSeq /\ session.snapshot \in Rooms
  BY <1>1 DEF Sessions
<1>3. client.cursor \in -1 .. MaxSeq /\ client.floor \in 0 .. MaxSeq /\ client.member \in BOOLEAN
  BY <1>1 DEF Clients
<1>4. room.since \in -1 .. MaxSeq /\ session.snapshot.since \in -1 .. MaxSeq
  BY <1>1, <1>2, RoomFacts
<1>. QED
  BY <1>1, <1>2, <1>3, <1>4, Constants

(* Only the place changes.                                                  *)
SamePlan == /\ session'.current = session.current /\ session'.crossed = session.crossed
            /\ session'.boundary = session.boundary /\ session'.snapshot = session.snapshot

LEMMA ToEffect ==
    ASSUME Typed, NEW p \in Pcs, To(p)
    PROVE  session' \in Sessions /\ session'.pc = p /\ SamePlan
<1>1. session \in Sessions /\ session' = [session EXCEPT !.pc = p]
  BY DEF Typed, To
<1>. QED
  BY <1>1 DEF Sessions, SamePlan

LEMMA QuarantineEffect ==
    ASSUME Typed, Quarantine
    PROVE  /\ accepting' = FALSE /\ room' = NoRoom /\ lingering' = FALSE /\ catchup' = {} /\ live' = << >>
           /\ live' \in Seq(Nat) /\ session' \in Sessions
           /\ session'.pc \in {"offline", "subscribe", "capture", "rooms", "admit"}
           /\ \/ session' = NoSession
              \/ session'.pc = "subscribe" /\ SamePlan
              \/ session'.pc = session.pc /\ SamePlan
<1>0. session \in Sessions /\ session.pc \in Pcs
  BY SessionFacts DEF Typed
<1>1. CASE Registered
  BY <1>1, NoneFacts DEF Quarantine
<1>2. CASE ~Registered /\ session.pc = "requested"
  <2>1. session' = [session EXCEPT !.pc = "subscribe"]
    BY <1>2 DEF Quarantine
  <2>. QED
    BY <1>0, <2>1 DEF Sessions, Pcs, SamePlan, Quarantine
<1>3. CASE ~Registered /\ session.pc # "requested"
  <2>1. session' = session
    BY <1>3 DEF Quarantine
  <2>. QED
    BY <1>0, <1>3, <2>1 DEF Registered, Planned, Pcs, SamePlan, Quarantine
<1>. QED
  BY <1>1, <1>2, <1>3

LEMMA BeginEffect ==
    ASSUME Typed, BeginGeneration
    PROVE  /\ accepting' = TRUE /\ UNCHANGED <<room, lingering, catchup, live>>
           /\ session' \in Sessions
           /\ session'.boundary = session.boundary /\ session'.snapshot = session.snapshot
           /\ session'.current = session.current
           /\ session'.pc = (IF session.pc = "requested" THEN "subscribe" ELSE session.pc)
           /\ session'.pc \in {"rooms", "admit"} => session'.crossed
<1>0. session \in Sessions /\ session.pc \in Pcs
  BY SessionFacts DEF Typed
<1>1. CASE session.pc = "requested"
  <2>1. session' = [session EXCEPT !.pc = "subscribe"]
    BY <1>1 DEF BeginGeneration
  <2>. QED
    BY <1>0, <1>1, <2>1 DEF Sessions, Pcs, BeginGeneration, queues
<1>2. CASE session.pc # "requested"
  <2>1. session' = [session EXCEPT !.crossed = (session.pc \in {"rooms", "admit"})]
    BY <1>2 DEF BeginGeneration
  <2>2. (session.pc \in {"rooms", "admit"}) \in BOOLEAN
    OBVIOUS
  <2>3. session' \in Sessions /\ session'.crossed = (session.pc \in {"rooms", "admit"})
        /\ session'.boundary = session.boundary /\ session'.snapshot = session.snapshot
        /\ session'.current = session.current /\ session'.pc = session.pc
    BY <1>0, <2>1, <2>2 DEF Sessions
  <2>. QED
    BY <1>2, <2>3 DEF BeginGeneration, queues
<1>. QED
  BY <1>1, <1>2

LEMMA SubscribeEffect ==
    ASSUME Typed, Subscribe
    PROVE  /\ session' \in Sessions /\ session'.pc \in {"capture", "admit"} /\ session'.snapshot = NoRoom
           /\ session'.boundary = 0 /\ session'.current = TRUE /\ session'.crossed = FALSE
           /\ session.pc = "subscribe"
<1>1. PICK p \in {"capture", "admit"} : session' = [NoSession EXCEPT !.pc = p, !.current = TRUE]
  BY DEF Subscribe
<1>. QED
  BY <1>1, NoneFacts DEF Sessions, Pcs, Subscribe

LEMMA CaptureEffect ==
    ASSUME Typed, Capture
    PROVE  /\ session' \in Sessions /\ session.pc = "capture" /\ session'.pc = "rooms"
           /\ session'.snapshot \in Rooms
           /\ session'.snapshot.member = MemberAt(Len(log)) /\ session'.snapshot.since = VisibilityTail
           /\ session'.boundary = session.boundary
<1>1. session \in Sessions /\ session.snapshot \in Rooms /\ Len(log) <= MaxSeq /\ Len(log) \in Nat
  BY SessionFacts DEF Typed
<1>2. VisibilityTail \in -1 .. MaxSeq /\ MemberAt(Len(log)) \in BOOLEAN
  BY <1>1, TailFacts, Constants DEF MemberAt
<1>3. session' = [session EXCEPT !.pc = "rooms", !.snapshot.member = MemberAt(Len(log)),
                                 !.snapshot.since = VisibilityTail]
  BY DEF Capture
<1>4. session' = [session EXCEPT !.pc = "rooms",
                    !.snapshot = [session.snapshot EXCEPT !.member = MemberAt(Len(log)), !.since = VisibilityTail]]
  BY <1>1, <1>3 DEF Sessions, Rooms
<1>5. PICK r : r = [session.snapshot EXCEPT !.member = MemberAt(Len(log)), !.since = VisibilityTail]
  OBVIOUS
<1>6. r \in Rooms /\ r.member = MemberAt(Len(log)) /\ r.since = VisibilityTail
  BY <1>1, <1>2, <1>5 DEF Rooms
<1>7. session' = [session EXCEPT !.pc = "rooms", !.snapshot = r]
  BY <1>4, <1>5
<1>. QED
  BY <1>1, <1>6, <1>7 DEF Sessions, Pcs, Capture

LEMMA VisibleRoomsEffect ==
    ASSUME Typed, CaptureVisibleRooms
    PROVE  /\ session' \in Sessions /\ session.pc = "rooms" /\ session'.pc = "admit"
           /\ session'.snapshot.member = session.snapshot.member
           /\ session'.snapshot.since = session.snapshot.since /\ session'.snapshot \in Rooms
           /\ session'.boundary = session.boundary
           /\ session'.current = session.current /\ session'.crossed = session.crossed
<1>1. session \in Sessions /\ session.snapshot \in Rooms /\ MemberAt(projected) \in BOOLEAN
  BY SessionFacts DEF Typed, MemberAt
<1>2. session' = [session EXCEPT !.pc = "admit", !.snapshot.visible = MemberAt(projected)]
  BY DEF CaptureVisibleRooms
<1>3. PICK r : r = [session.snapshot EXCEPT !.visible = MemberAt(projected)]
  OBVIOUS
<1>4. r \in Rooms /\ r.member = session.snapshot.member /\ r.since = session.snapshot.since
  BY <1>1, <1>3 DEF Rooms
<1>5. session' = [session EXCEPT !.pc = "admit", !.snapshot = r]
  BY <1>1, <1>2, <1>3 DEF Sessions, Rooms
<1>. QED
  BY <1>1, <1>4, <1>5 DEF Sessions, Pcs, CaptureVisibleRooms

LEMMA RegisterEffect ==
    ASSUME Typed, Register
    PROVE  /\ session' \in Sessions /\ session.pc = "requested" /\ hub = "up"
           /\ holes' \in SUBSET {"snapshot", "leave"} /\ holes \subseteq holes'
           /\ \/ /\ session'.pc = "subscribe" /\ SamePlan /\ room' = room
              \/ /\ session' = [NoSession EXCEPT !.pc = "plan"]
                 /\ session'.pc = "plan" /\ session'.boundary = 0 /\ session'.snapshot = NoRoom
                 /\ session.current
                 /\ \/ room # NoRoom /\ room' = room
                    \/ /\ room = NoRoom /\ session.snapshot # NoRoom /\ room' = session.snapshot
                       /\ session.crossed /\ MissesChange => "snapshot" \in holes'
<1>1. session \in Sessions /\ holes \in SUBSET {"snapshot", "leave"}
  BY DEF Typed
<1>2. CASE Admissible
  <2>1. session' = [NoSession EXCEPT !.pc = "plan"]
    BY <1>2 DEF Register
  <2>2. session' \in Sessions /\ session'.pc = "plan" /\ session'.boundary = 0 /\ session'.snapshot = NoRoom
    BY <2>1, NoneFacts DEF Sessions, Pcs
  <2>. QED
    BY <1>1, <1>2, <2>1, <2>2 DEF Register, Admissible
<1>3. CASE ~Admissible
  <2>1. To("subscribe") /\ room' = room /\ holes' = holes
    BY <1>3 DEF Register
  <2>. QED
    BY <1>1, <2>1, ToEffect DEF Register, Pcs
<1>. QED
  BY <1>2, <1>3

LEMMA PlanEffect ==
    ASSUME Typed, PlanBoundary
    PROVE  /\ session' \in Sessions /\ session.pc = "plan" /\ session'.pc = "replay"
           /\ session'.boundary = Len(log) /\ session'.snapshot = session.snapshot
<1>1. session \in Sessions /\ Len(log) \in 0 .. MaxSeq
  BY SessionFacts DEF Typed
<1>2. session' = [session EXCEPT !.pc = "replay", !.boundary = Len(log)]
  BY DEF PlanBoundary
<1>. QED
  BY <1>1, <1>2 DEF PlanBoundary, Sessions, Pcs

LEMMA ReplayEffect ==
    ASSUME Typed, projected <= Len(log), Replay
    PROVE  /\ session' \in Sessions /\ session.pc = "replay" /\ session.boundary <= projected
           /\ session'.snapshot = session.snapshot
           /\ session'.boundary = session.boundary
           /\ \/ session'.pc = "reset" /\ catchup' = catchup
              \/ /\ session'.pc = "events"
                 /\ client.cursor # NoCursor
                 /\ catchup' = {q \in client.cursor + 1 .. session.boundary : Replayed(q)}
<1>1. session \in Sessions /\ projected \in 0 .. MaxSeq
  BY SessionFacts, Constants DEF Typed
<1>2. CASE MustReset
  <2>1. To("reset")
    BY <1>2 DEF Replay
  <2>. QED
    BY <1>1, <1>2, <2>1, SessionFacts, ToEffect DEF Replay, Pcs, SamePlan
<1>3. CASE ~MustReset
  <2>1. To("events") /\ client.cursor # NoCursor
    BY <1>3 DEF Replay, MustReset
  <2>. QED
    BY <1>1, <1>3, <2>1, SessionFacts, ToEffect DEF Replay, Pcs, SamePlan
<1>. QED
  BY <1>2, <1>3

(* What the client makes of an event.                                       *)
LEMMA CaptureSnapshotEffect ==
    ASSUME Typed, projected <= Len(log), CaptureSnapshot
    PROVE  /\ session' \in Sessions /\ session.pc = "reset" /\ session'.pc = "snapshot"
           /\ session'.boundary = projected /\ session'.snapshot = session.snapshot
           /\ UNCHANGED <<catchup, live, ingress, client, holes, room, log, projected>>
<1>1. session \in Sessions /\ projected \in 0 .. MaxSeq
  BY SessionFacts, Constants DEF Typed
<1>2. session' = [session EXCEPT !.pc = "snapshot", !.boundary = projected]
  BY DEF CaptureSnapshot
<1>. QED
  BY <1>1, <1>2 DEF CaptureSnapshot, Sessions, Pcs, stream, queues

LEMMA EventEffect ==
    ASSUME Typed, NEW q \in 1 .. Len(log), Event(q)
    PROVE  /\ client' \in Clients /\ client'.cursor = q /\ client'.floor = client.floor
           /\ client'.posts = IF log[q] = "post" THEN client.posts \cup {q} ELSE client.posts
           /\ client'.member = IF ChangesVisibility(q) THEN log[q] = "join" ELSE client.member
<1>1. client \in Clients /\ q \in -1 .. MaxSeq /\ q \in 1 .. MaxSeq
  BY SessionFacts, Constants DEF Typed
<1>2. client' = [client EXCEPT !.cursor = q,
                               !.posts = IF log[q] = "post" THEN client.posts \cup {q} ELSE client.posts,
                               !.member = IF ChangesVisibility(q) THEN log[q] = "join" ELSE client.member]
  BY DEF Event
<1>3. PICK ps : ps = IF log[q] = "post" THEN client.posts \cup {q} ELSE client.posts
  OBVIOUS
<1>4. PICK b : b = IF ChangesVisibility(q) THEN log[q] = "join" ELSE client.member
  OBVIOUS
<1>5. ps \in SUBSET (1 .. MaxSeq) /\ b \in BOOLEAN
  BY <1>1, <1>3, <1>4 DEF Clients
<1>6. client' = [client EXCEPT !.cursor = q, !.posts = ps, !.member = b]
  BY <1>2, <1>3, <1>4
<1>7. client' \in Clients /\ client'.cursor = q /\ client'.floor = client.floor /\ client'.posts = ps /\ client'.member = b
  BY <1>1, <1>5, <1>6 DEF Clients
<1>. QED
  BY <1>3, <1>4, <1>7

LEMMA WriteSnapshotEffect ==
    ASSUME Typed, WriteSnapshot
    PROVE  /\ session' \in Sessions /\ session.pc = "snapshot" /\ session'.pc = "live" /\ SamePlan
           /\ client' \in Clients /\ client'.cursor = session.boundary /\ client'.floor = session.boundary
           /\ client'.posts = client.posts /\ client'.member = MemberAt(session.boundary)
<1>1. client \in Clients /\ session.boundary \in -1 .. MaxSeq /\ session.boundary \in 0 .. MaxSeq
      /\ MemberAt(session.boundary) \in BOOLEAN
  BY SessionFacts DEF Typed, MemberAt
<1>2. client' = [client EXCEPT !.cursor = session.boundary, !.floor = session.boundary,
                               !.member = MemberAt(session.boundary)]
  BY DEF WriteSnapshot
<1>3. client' \in Clients /\ client'.cursor = session.boundary /\ client'.floor = session.boundary
      /\ client'.posts = client.posts /\ client'.member = MemberAt(session.boundary)
  BY <1>1, <1>2 DEF Clients
<1>. QED
  BY <1>3, ToEffect DEF WriteSnapshot, Pcs

LEMMA WriteCaughtUpEffect ==
    ASSUME Typed, WriteCaughtUp
    PROVE  /\ session' \in Sessions /\ session.pc = "events" /\ session'.pc = "live" /\ SamePlan
           /\ catchup = {}
           /\ client' \in Clients /\ client'.cursor = session.boundary /\ client'.floor = client.floor
           /\ client'.posts = client.posts /\ client'.member = client.member
<1>1. client \in Clients /\ session.boundary \in -1 .. MaxSeq
  BY SessionFacts DEF Typed
<1>2. client' = [client EXCEPT !.cursor = session.boundary]
  BY DEF WriteCaughtUp
<1>. QED
  BY <1>1, <1>2, ToEffect DEF WriteCaughtUp, Pcs, Clients

(* A message leaves the ingress, to the session's queue or for good.        *)
LEMMA HandleEffect ==
    ASSUME Typed, Ordered(ingress), Handle
    PROVE  \E q \in Nat :
              /\ ingress # << >> /\ q = Head(ingress) /\ ingress' = Tail(ingress) /\ projected >= q /\ hub = "up"
              /\ session' \in Sessions /\ session'.pc = session.pc /\ session'.boundary = session.boundary
              /\ session'.snapshot = session.snapshot /\ session'.crossed = session.crossed
              /\ session'.current = (IF ChangesVisibility(q) THEN FALSE ELSE session.current)
              /\ room' \in Rooms /\ room'.since = room.since
              /\ room = NoRoom => room' = NoRoom
              /\ room # NoRoom =>
                   room'.member = IF ChangesVisibility(q) /\ q > room.since THEN log[q] = "join" ELSE room.member
              /\ live' = IF room # NoRoom /\ Registered /\ Reaches(q) THEN Append(live, q) ELSE live
              /\ live' \in Seq(Nat)
              /\ holes' = IF Overtaken(q) THEN holes \cup {"leave"} ELSE holes
              /\ UNCHANGED <<stream, nats, hub, accepting, lingering, catchup, client>>
<1>1. session \in Sessions /\ ingress \in Seq(Nat) /\ room \in Rooms /\ live \in Seq(Nat) /\ ingress # << >>
  BY DEF Typed, Handle
<1>2. PICK q \in Nat : q = Head(ingress)
  BY <1>1, InTail
<1>3. session' = IF ChangesVisibility(q) THEN [session EXCEPT !.current = FALSE] ELSE session
  BY <1>2 DEF Handle
<1>4. /\ session' \in Sessions /\ session'.pc = session.pc /\ session'.boundary = session.boundary
      /\ session'.snapshot = session.snapshot /\ session'.crossed = session.crossed
      /\ session'.current = (IF ChangesVisibility(q) THEN FALSE ELSE session.current)
  BY <1>1, <1>3 DEF Sessions
<1>5. room' = IF room = NoRoom THEN room ELSE RoomAfter(q)
  BY <1>2 DEF Handle
<1>6. RoomAfter(q) \in Rooms /\ RoomAfter(q).since = room.since
      /\ RoomAfter(q).member = (IF ChangesVisibility(q) /\ q > room.since THEN log[q] = "join" ELSE room.member)
  <2>1. MemberAt(projected) \in BOOLEAN
    BY DEF MemberAt
  <2>2. CASE ChangesVisibility(q) /\ q > room.since
    <3>1. RoomAfter(q) = [room EXCEPT !.member = (log[q] = "join"), !.visible = MemberAt(projected)]
      BY <2>2 DEF RoomAfter
    <3>2. PICK b : b = MemberAt(projected)
      OBVIOUS
    <3>. QED
      BY <1>1, <2>1, <2>2, <3>1, <3>2 DEF Rooms
  <2>3. CASE ~(ChangesVisibility(q) /\ q > room.since)
    BY <1>1, <2>3 DEF RoomAfter
  <2>. QED
    BY <2>2, <2>3
<1>7. live' = IF room # NoRoom /\ Registered /\ Reaches(q) THEN Append(live, q) ELSE live
  BY <1>2 DEF Handle
<1>8. live' \in Seq(Nat)
  BY <1>1, <1>7, InAppend
<1>9. /\ ingress' = Tail(ingress) /\ projected >= q /\ hub = "up"
      /\ holes' = IF Overtaken(q) THEN holes \cup {"leave"} ELSE holes
      /\ UNCHANGED <<stream, nats, hub, accepting, lingering, catchup, client>>
  BY <1>2 DEF Handle
<1>10. /\ room' \in Rooms /\ room'.since = room.since
       /\ room = NoRoom => room' = NoRoom
       /\ room # NoRoom =>
            room'.member = IF ChangesVisibility(q) /\ q > room.since THEN log[q] = "join" ELSE room.member
  BY <1>1, <1>5, <1>6
<1>. QED
  BY <1>1, <1>2, <1>4, <1>7, <1>8, <1>9, <1>10

LEMMA HangupEffect ==
    ASSUME Typed, Hangup
    PROVE  /\ session' = NoSession /\ session' \in Sessions /\ catchup' = {} /\ live' = << >> /\ live' \in Seq(Nat)
           /\ room' \in Rooms /\ lingering' \in BOOLEAN
           /\ room' = room \/ room' = NoRoom
<1>1. << >> \in Seq(Nat)
  OBVIOUS
<1>2. session' = NoSession /\ catchup' = {} /\ live' = << >>
  BY DEF Hangup
<1>3. (lingering' = TRUE /\ room' = room) \/ (room' = RoomLeft(lingering) /\ lingering' = lingering)
  BY DEF Hangup
<1>4. RoomLeft(lingering) = room \/ RoomLeft(lingering) = NoRoom
  BY DEF RoomLeft
<1>. QED
  BY <1>1, <1>2, <1>3, <1>4, NoneFacts DEF Typed

LEMMA UnsubscribeEffect ==
    ASSUME Typed, Unsubscribe
    PROVE  /\ lingering /\ lingering' = FALSE /\ room' \in Rooms /\ room' = (IF Registered THEN room ELSE NoRoom)
           /\ UNCHANGED <<stream, ingress, nats, hub, accepting, session, queues, client, holes>>
BY NoneFacts DEF Typed, Unsubscribe, RoomLeft

LEMMA WriteEventEffect ==
    ASSUME Typed, BoundsInv, WriteEvent
    PROVE  /\ session.pc = "events" /\ session' = session
           /\ \E q \in catchup : /\ q \in 1 .. Len(log) /\ \A k \in catchup : q <= k
                                 /\ catchup' = catchup \ {q} /\ Event(q)
           /\ UNCHANGED <<stream, ingress, nats, hub, accepting, room, lingering, session, live, holes>>
BY DEF WriteEvent, BoundsInv

LEMMA WriteLiveEffect ==
    ASSUME Typed, BoundsInv, Ordered(live), WriteLive
    PROVE  /\ session.pc = "live" /\ session' = session /\ live # << >> /\ live' = Tail(live) /\ live' \in Seq(Nat)
           /\ Head(live) \in 1 .. Len(log) /\ In(Head(live), live)
           /\ IF Head(live) <= session.boundary THEN client' = client ELSE Event(Head(live))
           /\ UNCHANGED <<stream, ingress, nats, hub, accepting, room, lingering, session, catchup, holes>>
<1>1. live \in Seq(Nat) /\ live # << >>
  BY DEF Typed, WriteLive
<1>2. Tail(live) \in Seq(Nat) /\ In(Head(live), live)
  BY <1>1, InTail
<1>. QED
  BY <1>1, <1>2 DEF WriteLive, Discards, BoundsInv

----------------------------------------------------------------------------
(* Types and bounds.                                                        *)

LEMMA BaseInit == Init => Typed /\ BoundsInv /\ OrderInv
<1>. SUFFICES ASSUME Init PROVE Typed /\ BoundsInv /\ OrderInv
  OBVIOUS
<1>1. Len(log) \in {0, 1} /\ log \in Seq(Facts) /\ Len(log) <= MaxSeq
  <2>1. << >> \in Seq(Facts) /\ Len(<< >>) = 0 /\ <<"join">> \in Seq(Facts) /\ Len(<<"join">>) = 1
    BY DEF Facts
  <2>2. log = << >> \/ log = <<"join">>
    BY DEF Init
  <2>3. 0 <= MaxSeq /\ 1 <= MaxSeq
    BY Constants
  <2>4. CASE log = << >>
    BY <2>1, <2>3, <2>4
  <2>5. CASE log = <<"join">>
    BY <2>1, <2>3, <2>5
  <2>. QED
    BY <2>2, <2>4, <2>5
<1>2. client = [cursor |-> -1, floor |-> 0, posts |-> {}, member |-> FALSE]
  BY Constants DEF Init
<1>3. client \in Clients /\ client.cursor = -1 /\ client.posts = {}
  BY <1>2, Constants DEF Clients
<1>4. Typed
  <2>1. recovery \in -1 .. MaxSeq /\ gaps \in 0 .. MaxGaps /\ projected \in Nat
    BY <1>1, Constants DEF Init
  <2>2. << >> \in Seq(Nat)
    OBVIOUS
  <2>. QED
    BY <1>1, <1>3, <2>1, <2>2, NoneFacts DEF Init, Typed
<1>5. \A q : ~In(q, ingress) /\ ~In(q, live) /\ q \notin catchup /\ q \notin client.posts
  BY <1>3 DEF Init, In
<1>6. BoundsInv
  <2>1. room.since = -1 /\ session.snapshot.since = -1 /\ session.boundary = 0 /\ projected = Len(log)
    BY NoneFacts DEF Init
  <2>. QED
    BY <1>1, <1>3, <1>5, <2>1 DEF BoundsInv
<1>7. OrderInv
  BY <1>5 DEF OrderInv, Ordered, Init
<1>. QED
  BY <1>4, <1>6, <1>7

LEMMA TypedNext == ASSUME Typed, BoundsInv, OrderInv, [Next]_vars PROVE Typed'
<1>. USE DEF stream, nats, queues
<1>0. Ordered(ingress) /\ Ordered(live) /\ projected <= Len(log)
  BY DEF OrderInv, BoundsInv
<1>1. ASSUME NEW fact \in Facts, Publish(fact) PROVE Typed'
  <2>1. log' \in Seq(Facts) /\ Len(log') <= MaxSeq /\ Len(log) + 1 \in Nat
    BY <1>1, Publishes
  <2>2. ingress' \in Seq(Nat)
    <3>1. Append(ingress, Len(log) + 1) \in Seq(Nat)
      BY <2>1, InAppend DEF Typed
    <3>. QED
      BY <1>1, <3>1, Publishes DEF Typed
  <2>. QED
    BY <1>1, <2>1, <2>2 DEF Typed, Publish
<1>2. CASE Project
  BY <1>2 DEF Typed, Project
<1>3. CASE Disconnect
  <2>1. ingress' \in Seq(Nat) /\ gaps' \in 0 .. MaxGaps
    BY <1>0, <1>3, InPrefix, Constants DEF Typed, Disconnect
  <2>. QED
    BY <1>3, <2>1 DEF Typed, Disconnect
<1>4. CASE Suspend
  <2>1. recovery' \in -1 .. MaxSeq
    BY <1>4, Constants DEF Suspend
  <2>. QED
    BY <1>4, <2>1, QuarantineEffect, NoneFacts DEF Typed, Suspend
<1>5. CASE Reconnect
  <2>1. recovery' \in -1 .. MaxSeq
    BY <1>5, SessionFacts, Constants DEF Reconnect
  <2>. QED
    BY <1>5, <2>1 DEF Typed, Reconnect
<1>6. CASE Recover
  <2>1. recovery' \in -1 .. MaxSeq
    BY <1>6, Constants DEF Recover
  <2>. QED
    BY <1>6, <2>1, BeginEffect DEF Typed, Recover
<1>7. CASE Overflow
  BY <1>7, Constants DEF Typed, Overflow
<1>8. CASE Reset
  <2>1. gaps' \in 0 .. MaxGaps /\ ingress' \in Seq(Nat)
    BY <1>8, Constants DEF Typed, Reset
  <2>. QED
    BY <1>8, <2>1, QuarantineEffect, NoneFacts DEF Typed, Reset
<1>9. CASE Resubscribe
  BY <1>9 DEF Typed, Resubscribe
<1>10. CASE Open
  BY <1>10, BeginEffect DEF Typed, Open
<1>11. CASE Handle
  <2>1. ingress' \in Seq(Nat) /\ holes' \in SUBSET {"snapshot", "leave"}
    BY <1>0, <1>11, HandleEffect, InTail DEF Typed
  <2>. QED
    BY <1>0, <1>11, <2>1, HandleEffect DEF Typed
<1>12. CASE Connect
  BY <1>12, ToEffect DEF Typed, Connect, Pcs
<1>13. CASE Subscribe
  BY <1>13, SubscribeEffect DEF Typed, Subscribe
<1>14. CASE Capture
  BY <1>14, CaptureEffect DEF Typed, Capture
<1>15. CASE CaptureVisibleRooms
  BY <1>15, VisibleRoomsEffect DEF Typed, CaptureVisibleRooms
<1>16. CASE Request
  BY <1>16, ToEffect DEF Typed, Request, Pcs
<1>17. CASE Register
  BY <1>17, RegisterEffect, SessionFacts DEF Typed, Register
<1>18. CASE PlanBoundary
  BY <1>18, PlanEffect DEF Typed, PlanBoundary
<1>19. CASE Replay
  <2>1. catchup' \in SUBSET Nat
    <3>1. {q \in client.cursor + 1 .. session.boundary : Replayed(q)} \in SUBSET Nat
      BY SessionFacts
    <3>. QED
      BY <1>0, <1>19, <3>1, ReplayEffect DEF Typed
  <2>. QED
    BY <1>0, <1>19, <2>1, ReplayEffect DEF Typed, Replay
<1>20. CASE WriteSnapshot
  BY <1>20, WriteSnapshotEffect DEF Typed, WriteSnapshot
<1>21. CASE WriteEvent
  BY <1>21, WriteEventEffect, EventEffect DEF Typed
<1>22. CASE WriteCaughtUp
  BY <1>22, WriteCaughtUpEffect DEF Typed, WriteCaughtUp
<1>23. CASE WriteLive
  BY <1>0, <1>23, WriteLiveEffect, EventEffect DEF Typed
<1>24. CASE Hangup
  BY <1>24, HangupEffect DEF Typed, Hangup
<1>25. CASE Unsubscribe
  BY <1>25, UnsubscribeEffect DEF Typed
<1>26. CASE UNCHANGED vars
  BY <1>26 DEF Typed, vars
<1>27. CASE CaptureSnapshot
  BY <1>0, <1>27, CaptureSnapshotEffect DEF Typed, CaptureSnapshot
<1>. QED
  BY <1>1, <1>2, <1>3, <1>4, <1>5, <1>6, <1>7, <1>8, <1>9, <1>10, <1>11, <1>12, <1>13, <1>14, <1>15, <1>16, <1>17,
     <1>18, <1>19, <1>20, <1>21, <1>22, <1>23, <1>24, <1>25, <1>26, <1>27
  DEF Next, Facts

LEMMA BoundsStep ==
    ASSUME Typed, BoundsInv, Typed', Len(log) <= Len(log'), projected' <= Len(log'),
           \A q : In(q, ingress') \/ In(q, live') =>
                    In(q, ingress) \/ In(q, live) \/ (Len(log') = Len(log) + 1 /\ q = Len(log) + 1),
           catchup' \subseteq 1 .. Len(log), client'.posts \subseteq 1 .. Len(log), client'.cursor <= Len(log),
           room'.since <= Len(log), session'.snapshot.since <= Len(log), session'.boundary <= Len(log)
    PROVE  BoundsInv'
<1>1. Len(log) \in Nat /\ Len(log') \in Nat
  BY DEF Typed
<1>2. 1 .. Len(log) \subseteq 1 .. Len(log')
  BY <1>1
<1>3. \A q : In(q, ingress') \/ In(q, live') \/ q \in catchup' \/ q \in client'.posts => q \in 1 .. Len(log')
  <2>1. \A q : In(q, ingress') \/ In(q, live') => q \in 1 .. Len(log')
    BY <1>1, <1>2 DEF BoundsInv
  <2>. QED
    BY <1>2, <2>1
<1>4. /\ room'.since \in Int /\ session'.snapshot.since \in Int /\ session'.boundary \in Int /\ client'.cursor \in Int
  <2>1. room' \in Rooms /\ session' \in Sessions /\ client' \in Clients
    BY DEF Typed
  <2>. QED
    BY <2>1, RoomFacts, Constants DEF Sessions, Clients
<1>5. /\ room'.since <= Len(log') /\ session'.snapshot.since <= Len(log')
      /\ session'.boundary <= Len(log') /\ client'.cursor <= Len(log')
  BY <1>1, <1>4
<1>. QED
  BY <1>3, <1>5 DEF BoundsInv

LEMMA QueuesStep ==
    ASSUME Typed, BoundsInv, OrderInv, [Next]_vars
    PROVE  /\ OrderInv'
           /\ \A q : In(q, ingress') \/ In(q, live') =>
                    In(q, ingress) \/ In(q, live) \/ (Len(log') = Len(log) + 1 /\ q = Len(log) + 1)
<1>. USE DEF stream, nats, queues
<1>0. /\ ingress \in Seq(Nat) /\ live \in Seq(Nat) /\ Ordered(ingress) /\ Ordered(live) /\ Len(log) \in Nat
      /\ \A p, q : In(p, live) /\ In(q, ingress) => p < q
      /\ \A q : In(q, ingress) \/ In(q, live) => q \in 1 .. Len(log)
  BY DEF Typed, OrderInv, BoundsInv
<1>e. << >> \in Seq(Nat) /\ Ordered(<< >>) /\ \A q : ~In(q, << >>)
  BY DEF Ordered, In
<1>1. ASSUME NEW fact \in Facts, Publish(fact), ingress' = Append(ingress, Len(log) + 1)
      PROVE  /\ OrderInv'
             /\ \A q : In(q, ingress') \/ In(q, live') =>
                    In(q, ingress) \/ In(q, live) \/ (Len(log') = Len(log) + 1 /\ q = Len(log) + 1)
  <2>1. live' = live /\ Len(log') = Len(log) + 1 /\ Len(log) + 1 \in Nat
    BY <1>0, <1>1, Publishes DEF Publish
  <2>2. \A q : In(q, ingress) \/ In(q, live) => q < Len(log) + 1
    BY <1>0
  <2>3. /\ \A q : In(q, ingress') <=> In(q, ingress) \/ q = Len(log) + 1
        /\ Ordered(ingress')
    BY <1>0, <1>1, <2>1, <2>2, InAppend
  <2>. QED
    BY <1>0, <2>1, <2>2, <2>3 DEF OrderInv
<1>2. CASE \E n \in 0 .. Len(ingress) : ingress' = SubSeq(ingress, 1, n) /\ live' = live
  <2>1. PICK n \in 0 .. Len(ingress) : ingress' = SubSeq(ingress, 1, n) /\ live' = live
    BY <1>2
  <2>2. Ordered(ingress') /\ \A q : In(q, ingress') => In(q, ingress)
    BY <1>0, <2>1, InPrefix
  <2>. QED
    BY <1>0, <2>1, <2>2 DEF OrderInv
<1>3. CASE live' = << >> /\ (ingress' = ingress \/ ingress' = << >>)
  BY <1>0, <1>e, <1>3 DEF OrderInv
<1>4. CASE Handle
  <2>1. PICK q \in Nat :
          /\ ingress # << >> /\ q = Head(ingress) /\ ingress' = Tail(ingress)
          /\ live' = Append(live, q) \/ live' = live
    BY <1>0, <1>4, HandleEffect
  <2>2. /\ Ordered(ingress') /\ In(q, ingress)
        /\ \A p : In(p, ingress') <=> In(p, ingress) /\ p # q
        /\ \A p : In(p, ingress) => p \in Nat /\ q <= p
    BY <1>0, <2>1, InTail
  <2>3. /\ \A p : In(p, live') => In(p, live) \/ p = q
        /\ Ordered(live')
    <3>1. \A p : In(p, live) => p < q
      BY <1>0, <2>2
    <3>2. /\ \A p : In(p, Append(live, q)) <=> In(p, live) \/ p = q
          /\ Ordered(Append(live, q))
      BY <1>0, <2>1, <3>1, InAppend
    <3>3. CASE live' = Append(live, q)
      BY <3>2, <3>3
    <3>4. CASE live' = live
      BY <1>0, <3>4
    <3>. QED
      BY <2>1, <3>3, <3>4
  <2>4. ASSUME NEW p, NEW r, In(p, live'), In(r, ingress') PROVE p < r
    <3>1. r \in Nat /\ q <= r /\ r # q /\ In(r, ingress)
      BY <2>2, <2>4
    <3>. QED
      BY <1>0, <2>3, <2>4, <3>1
  <2>. QED
    BY <2>2, <2>3, <2>4 DEF OrderInv
<1>5. CASE WriteLive
  <2>1. ingress' = ingress /\ live # << >> /\ live' = Tail(live)
    BY <1>5 DEF WriteLive
  <2>2. Ordered(live') /\ \A q : In(q, live') => In(q, live)
    BY <1>0, <2>1, InTail
  <2>. QED
    BY <1>0, <2>1, <2>2 DEF OrderInv
<1>6. CASE ingress' = ingress /\ live' = live
  BY <1>0, <1>6 DEF OrderInv
<1>7. ASSUME NEW fact \in Facts, Publish(fact)
      PROVE  ingress' = Append(ingress, Len(log) + 1) \/ (ingress' = ingress /\ live' = live)
  BY <1>7, Publishes DEF Publish
<1>8. CASE Disconnect
  BY <1>2, <1>8 DEF Disconnect
<1>9. CASE Suspend \/ Reset
  BY <1>3, <1>9, QuarantineEffect DEF Suspend, Reset
<1>10. CASE Recover \/ Open
  BY <1>6, <1>10, BeginEffect DEF Recover, Open
<1>11. CASE Hangup
  BY <1>3, <1>11 DEF Hangup
<1>12. CASE \/ Project \/ Reconnect \/ Overflow \/ Resubscribe \/ Connect \/ Subscribe \/ Capture \/ CaptureVisibleRooms
            \/ Request \/ Register \/ PlanBoundary \/ Replay \/ CaptureSnapshot \/ WriteSnapshot \/ WriteEvent \/ WriteCaughtUp
            \/ Unsubscribe \/ UNCHANGED vars
  <2>1. ingress' = ingress /\ live' = live
    BY <1>12 DEF Project, Reconnect, Overflow, Resubscribe, Connect, Subscribe, Capture, CaptureVisibleRooms,
       Request, Register, PlanBoundary, Replay, CaptureSnapshot, WriteSnapshot, WriteEvent, WriteCaughtUp, Unsubscribe, vars
  <2>. QED
    BY <1>6, <2>1
<1>. QED
  BY <1>1, <1>4, <1>5, <1>6, <1>7, <1>8, <1>9, <1>10, <1>11, <1>12 DEF Next, Facts

LEMMA BoundsNext == ASSUME Typed, BoundsInv, OrderInv, [Next]_vars, Typed' PROVE BoundsInv'
<1>. USE DEF stream, nats, queues
<1>0. /\ Len(log) \in Nat /\ projected \in Nat /\ projected <= Len(log)
      /\ room.since <= Len(log) /\ session.snapshot.since <= Len(log)
      /\ session.boundary <= Len(log) /\ client.cursor <= Len(log)
      /\ session.boundary \in Nat /\ client.cursor \in Int
      /\ catchup \subseteq 1 .. Len(log) /\ client.posts \subseteq 1 .. Len(log)
      /\ NoRoom.since <= Len(log) /\ NoSession.snapshot.since <= Len(log) /\ NoSession.boundary <= Len(log)
  BY SessionFacts, NoneFacts DEF BoundsInv
<1>q. \A q : In(q, ingress') \/ In(q, live') =>
               In(q, ingress) \/ In(q, live) \/ (Len(log') = Len(log) + 1 /\ q = Len(log) + 1)
  BY QueuesStep
<1>1. CASE \/ \E fact \in Facts : Publish(fact)
           \/ Project \/ Disconnect \/ Reconnect \/ Overflow \/ Resubscribe \/ UNCHANGED vars
  <2>1. UNCHANGED <<session, room, catchup, client>> /\ Len(log) <= Len(log') /\ projected' <= Len(log')
    <3>1. CASE \E fact \in Facts : Publish(fact)
      BY <1>0, <3>1, Publishes DEF Publish
    <3>2. CASE Project
      BY <1>0, <3>2 DEF Project
    <3>3. CASE Disconnect \/ Reconnect \/ Overflow \/ Resubscribe \/ UNCHANGED vars
      BY <1>0, <3>3 DEF Disconnect, Reconnect, Overflow, Resubscribe, vars
    <3>. QED
      BY <1>1, <3>1, <3>2, <3>3
  <2>. QED
    BY <1>0, <1>q, <2>1, BoundsStep
<1>2. CASE Suspend \/ Reset \/ Hangup
  <2>1. /\ session' = NoSession \/ SamePlan
        /\ room' = room \/ room' = NoRoom
        /\ catchup' = {} /\ UNCHANGED <<log, projected, client>>
    BY <1>2, QuarantineEffect, HangupEffect DEF Suspend, Reset, Hangup
  <2>2. session'.snapshot.since <= Len(log) /\ session'.boundary <= Len(log) /\ room'.since <= Len(log)
    BY <1>0, <2>1 DEF SamePlan
  <2>. QED
    BY <1>0, <1>q, <2>1, <2>2, BoundsStep
<1>3. CASE Recover \/ Open
  <2>1. /\ session'.boundary = session.boundary /\ session'.snapshot = session.snapshot
        /\ UNCHANGED <<log, projected, client, catchup, room>>
    BY <1>3, BeginEffect DEF Recover, Open
  <2>. QED
    BY <1>0, <1>q, <2>1, BoundsStep
<1>4. CASE Handle
  <2>1. /\ session'.boundary = session.boundary /\ session'.snapshot = session.snapshot
        /\ room'.since = room.since /\ UNCHANGED <<log, projected, client, catchup>>
    BY <1>4, HandleEffect DEF OrderInv
  <2>. QED
    BY <1>0, <1>q, <2>1, BoundsStep
<1>5. CASE Connect \/ Request \/ WriteSnapshot \/ WriteCaughtUp
  <2>1. /\ SamePlan /\ UNCHANGED <<log, projected, catchup, room>> /\ client'.posts = client.posts
        /\ client'.cursor = client.cursor \/ client'.cursor = session.boundary
    BY <1>5, ToEffect, WriteSnapshotEffect, WriteCaughtUpEffect
       DEF Connect, Request, WriteSnapshot, WriteCaughtUp, Pcs
  <2>2. session'.snapshot.since <= Len(log) /\ session'.boundary <= Len(log) /\ client'.cursor <= Len(log)
    BY <1>0, <2>1 DEF SamePlan
  <2>. QED
    BY <1>0, <1>q, <2>1, <2>2, BoundsStep
<1>6. CASE Subscribe \/ Capture \/ CaptureVisibleRooms \/ PlanBoundary
  <2>1. /\ UNCHANGED <<log, projected, catchup, room, client>>
        /\ session'.boundary \in {0, session.boundary, Len(log)}
        /\ session'.snapshot.since \in {-1, session.snapshot.since, VisibilityTail}
    <3>1. CASE Subscribe
      BY <3>1, SubscribeEffect, NoneFacts DEF Subscribe
    <3>2. CASE Capture
      BY <3>2, CaptureEffect DEF Capture
    <3>3. CASE CaptureVisibleRooms
      BY <3>3, VisibleRoomsEffect DEF CaptureVisibleRooms
    <3>4. CASE PlanBoundary
      BY <3>4, PlanEffect DEF PlanBoundary
    <3>. QED
      BY <1>6, <3>1, <3>2, <3>3, <3>4
  <2>2. VisibilityTail <= Len(log)
    BY <1>0, TailFacts
  <2>3. session'.snapshot.since <= Len(log) /\ session'.boundary <= Len(log)
    BY <1>0, <2>1, <2>2
  <2>. QED
    BY <1>0, <1>q, <2>1, <2>3, BoundsStep
<1>7. CASE Register
  <2>1. /\ UNCHANGED <<log, projected, catchup, client>>
        /\ session'.boundary \in {0, session.boundary}
        /\ session'.snapshot.since \in {-1, session.snapshot.since}
        /\ room'.since \in {room.since, session.snapshot.since}
    BY <1>7, RegisterEffect, NoneFacts DEF Register, SamePlan
  <2>2. session'.snapshot.since <= Len(log) /\ session'.boundary <= Len(log) /\ room'.since <= Len(log)
    BY <1>0, <2>1
  <2>. QED
    BY <1>0, <1>q, <2>1, <2>2, BoundsStep
<1>8. CASE Replay
  <2>1. /\ UNCHANGED <<log, projected, room, client>>
        /\ session'.boundary = session.boundary /\ session'.snapshot = session.snapshot
    BY <1>0, <1>8, ReplayEffect DEF Replay
  <2>2. catchup' \subseteq 1 .. Len(log)
    <3>1. client.cursor # NoCursor => {q \in client.cursor + 1 .. session.boundary : Replayed(q)} \subseteq 1 .. Len(log)
      BY <1>0, SessionFacts, Constants
    <3>. QED
      BY <1>0, <1>8, <3>1, ReplayEffect
  <2>3. session'.snapshot.since <= Len(log) /\ session'.boundary <= Len(log)
    BY <1>0, <2>1
  <2>. QED
    BY <1>0, <1>q, <2>1, <2>2, <2>3, BoundsStep
<1>9. CASE WriteEvent \/ WriteLive
  <2>1. /\ UNCHANGED <<log, projected, room, session>> /\ catchup' \subseteq catchup
        /\ client' = client \/ \E q \in 1 .. Len(log) : Event(q)
    BY <1>9, WriteEventEffect, WriteLiveEffect DEF OrderInv
  <2>2. client'.posts \subseteq 1 .. Len(log) /\ client'.cursor <= Len(log)
    <3>1. CASE client' = client
      BY <1>0, <3>1
    <3>2. ASSUME NEW q \in 1 .. Len(log), Event(q) PROVE client'.posts \subseteq 1 .. Len(log) /\ client'.cursor <= Len(log)
      <4>1. client'.cursor = q /\ client'.posts = IF log[q] = "post" THEN client.posts \cup {q} ELSE client.posts
        BY <3>2, EventEffect
      <4>. QED
        BY <1>0, <4>1
    <3>. QED
      BY <2>1, <3>1, <3>2
  <2>. QED
    BY <1>0, <1>q, <2>1, <2>2, BoundsStep
<1>10. CASE Unsubscribe
  <2>1. UNCHANGED <<log, projected, catchup, client, session>> /\ room'.since <= Len(log)
    BY <1>0, <1>10, UnsubscribeEffect
  <2>. QED
    BY <1>0, <1>q, <2>1, BoundsStep
<1>11. CASE CaptureSnapshot
  <2>1. /\ UNCHANGED <<log, projected, catchup, room, client>>
        /\ session'.boundary = projected /\ session'.snapshot = session.snapshot
    BY <1>0, <1>11, CaptureSnapshotEffect
  <2>2. session'.snapshot.since <= Len(log) /\ session'.boundary <= Len(log)
    BY <1>0, <2>1
  <2>. QED
    BY <1>0, <1>q, <2>1, <2>2, BoundsStep
<1>. QED
  BY <1>1, <1>2, <1>3, <1>4, <1>5, <1>6, <1>7, <1>8, <1>9, <1>10, <1>11 DEF Next, Facts

----------------------------------------------------------------------------
(* The hub and the session.                                                 *)

LEMMA HubInit == Init => HubInv
BY NoneFacts DEF Init, HubInv, Registered, Planned

LEMMA HubNext == ASSUME Typed, BoundsInv, OrderInv, HubInv, [Next]_vars, Typed' PROVE HubInv'
<1>. USE DEF stream, nats, queues
<1>0. session.pc \in Pcs /\ session.snapshot \in Rooms /\ NoRoom.since = -1 /\ Len(log) \in Nat
  BY SessionFacts, NoneFacts
<1>1. CASE \/ \E fact \in Facts : Publish(fact)
           \/ Project \/ Overflow \/ UNCHANGED vars \/ WriteEvent \/ WriteLive
  <2>1. UNCHANGED <<session, room, accepting, linked, noticed, hub, lingering>>
    BY <1>1, WriteLiveEffect, WriteEventEffect DEF Publish, Project, Overflow, vars, WriteEvent, WriteLive
  <2>. QED
    BY <2>1 DEF HubInv, Registered, Planned
<1>2. CASE Disconnect \/ Reconnect \/ Resubscribe
  BY <1>2 DEF Disconnect, Reconnect, Resubscribe, HubInv, Registered, Planned
<1>3. CASE Suspend \/ Reset
  <2>1. /\ accepting' = FALSE /\ room' = NoRoom /\ lingering' = FALSE
        /\ session'.pc \in {"offline", "subscribe", "capture", "rooms", "admit"}
        /\ \/ session' = NoSession
           \/ session'.snapshot = session.snapshot /\ session'.pc \in {"subscribe", session.pc}
    BY <1>3, QuarantineEffect DEF Suspend, Reset, SamePlan
  <2>2. /\ session'.snapshot = NoRoom \/ session'.snapshot.since >= 0
        /\ session'.pc = "rooms" => session'.snapshot.since >= 0
    BY <2>1, NoneFacts DEF HubInv
  <2>. QED
    BY <2>1, <2>2, <1>0 DEF HubInv, Registered, Planned
<1>4. CASE Recover \/ Open
  <2>1. /\ accepting' = TRUE /\ UNCHANGED <<room, lingering>> /\ session'.snapshot = session.snapshot
        /\ session'.pc = (IF session.pc = "requested" THEN "subscribe" ELSE session.pc)
        /\ linked /\ linked' = linked /\ (hub' = hub \/ hub' = "up")
    BY <1>4, BeginEffect DEF Recover, Open
  <2>. QED
    BY <2>1, <1>0 DEF HubInv, Registered, Planned
<1>5. CASE Handle
  <2>1. /\ UNCHANGED <<accepting, lingering, linked, noticed, hub>> /\ session'.pc = session.pc
        /\ session'.snapshot = session.snapshot /\ room'.since = room.since /\ (room = NoRoom => room' = NoRoom)
    BY <1>5, HandleEffect DEF OrderInv
  <2>2. room # NoRoom => room' # NoRoom
    BY <2>1, <1>0, SessionFacts DEF HubInv
  <2>. QED
    BY <2>1, <2>2, <1>0 DEF HubInv, Registered, Planned
<1>6. CASE Connect \/ Request \/ WriteSnapshot \/ WriteCaughtUp
  <2>1. /\ SamePlan /\ UNCHANGED <<accepting, lingering, linked, noticed, hub, room>>
        /\ (session'.pc \in {"subscribe", "requested"} /\ ~Registered)
             \/ (session.pc \in {"snapshot", "events"} /\ session'.pc = "live")
        /\ session'.pc = "requested" => accepting
    BY <1>6, ToEffect, WriteSnapshotEffect, WriteCaughtUpEffect
       DEF Connect, Request, WriteSnapshot, WriteCaughtUp, Pcs, Registered, Planned
  <2>. QED
    BY <2>1 DEF HubInv, Registered, Planned, SamePlan
<1>7. CASE Subscribe \/ Capture \/ CaptureVisibleRooms \/ PlanBoundary \/ Replay \/ CaptureSnapshot
  <2>1. /\ UNCHANGED <<accepting, lingering, linked, noticed, hub, room>>
        /\ session'.pc # "requested" /\ (Registered' <=> Registered)
        /\ session'.snapshot = NoRoom \/ session'.snapshot.since >= 0
        /\ session'.pc = "rooms" => session'.snapshot.since >= 0
    <3>1. CASE Subscribe
      BY <3>1, SubscribeEffect, NoneFacts DEF Subscribe, Registered, Planned
    <3>2. CASE Capture
      BY <3>2, CaptureEffect, TailFacts DEF Capture, Registered, Planned
    <3>3. CASE CaptureVisibleRooms
      BY <3>3, VisibleRoomsEffect DEF CaptureVisibleRooms, Registered, Planned, HubInv
    <3>4. CASE PlanBoundary
      BY <3>4, PlanEffect DEF PlanBoundary, Registered, Planned, HubInv
    <3>5. CASE Replay
      BY <3>5, ReplayEffect DEF Replay, Registered, Planned, HubInv, BoundsInv
    <3>6. CASE CaptureSnapshot
      BY <3>6, CaptureSnapshotEffect DEF CaptureSnapshot, Registered, Planned, HubInv, BoundsInv
    <3>. QED
      BY <1>7, <3>1, <3>2, <3>3, <3>4, <3>5, <3>6
  <2>. QED
    BY <2>1 DEF HubInv
<1>8. CASE Register
  BY <1>8, RegisterEffect, NoneFacts, <1>0 DEF Register, HubInv, Registered, Planned, SamePlan
<1>9. CASE Hangup
  BY <1>9, HangupEffect, NoneFacts DEF Hangup, HubInv, Registered, Planned, RoomLeft
<1>10. CASE Unsubscribe
  BY <1>10, UnsubscribeEffect DEF HubInv, Registered, Planned
<1>. QED
  BY <1>1, <1>2, <1>3, <1>4, <1>5, <1>6, <1>7, <1>8, <1>9, <1>10 DEF Next, Facts

(* A live message that is not discarded is further on than the cursor, and  *)
(* so is one that is published now.                                         *)
LEMMA CursorInit == Init => CursorInv
BY NoneFacts DEF Init, CursorInv

LEMMA CursorNext ==
    ASSUME Typed, BoundsInv, OrderInv, HubInv, CursorInv, [Next]_vars, Typed', BoundsInv' PROVE CursorInv'
<1>. USE DEF stream, nats, queues
<1>0. /\ session.pc \in Pcs /\ Len(log) \in Nat /\ projected \in Nat /\ projected <= Len(log)
      /\ room.since <= Len(log) /\ room.since \in Int /\ client.cursor \in Int /\ client.cursor <= Len(log)
      /\ session.boundary \in Nat /\ NoRoom.since = -1 /\ room.since >= -1 /\ NoSession.pc = "offline" /\ client.cursor >= -1
      /\ session.boundary <= Len(log)
      /\ \A q : In(q, ingress) \/ In(q, live) \/ q \in catchup => q \in 1 .. Len(log)
  BY SessionFacts, NoneFacts DEF BoundsInv
<1>q. \A q : In(q, ingress') \/ In(q, live') =>
               In(q, ingress) \/ In(q, live) \/ (Len(log') = Len(log) + 1 /\ q = Len(log) + 1)
  BY QueuesStep
<1>1. CASE \/ \E fact \in Facts : Publish(fact)
           \/ Project \/ Disconnect \/ Reconnect \/ Overflow \/ Resubscribe \/ Handle \/ UNCHANGED vars \/ Unsubscribe
  <2>1. /\ UNCHANGED <<catchup, client>> /\ session'.pc = session.pc /\ session'.boundary = session.boundary
        /\ room'.since <= room.since /\ projected' \in Nat /\ projected <= projected'
    <3>1. CASE Handle
      <4>1. /\ UNCHANGED <<catchup, client>> /\ session'.pc = session.pc /\ session'.boundary = session.boundary
            /\ room'.since = room.since /\ projected' = projected
        BY <3>1, HandleEffect DEF OrderInv
      <4>. QED
        BY <1>0, <4>1
    <3>2. CASE Unsubscribe
      <4>1. /\ UNCHANGED <<catchup, client, session, projected>>
            /\ room' = room \/ room' = NoRoom
        BY <3>2, UnsubscribeEffect
      <4>. QED
        BY <1>0, <4>1
    <3>3. CASE \/ \E fact \in Facts : Publish(fact)
               \/ Project \/ Disconnect \/ Reconnect \/ Overflow \/ Resubscribe \/ UNCHANGED vars
      BY <1>0, <3>3 DEF Publish, Project, Disconnect, Reconnect, Overflow, Resubscribe, vars
    <3>. QED
      BY <1>1, <3>1, <3>2, <3>3
  <2>2. /\ session'.pc \in {"replay", "reset", "snapshot", "events"} => client'.cursor <= session'.boundary
        /\ session'.pc = "events" =>
             client'.cursor >= 0 /\ \A q \in catchup' : client'.cursor < q /\ q <= session'.boundary
        /\ session'.pc = "live" => session'.boundary <= client'.cursor
    BY <2>1 DEF CursorInv
  <2>3. session'.pc = "reset" \/ Planned' => room'.since <= session'.boundary
    <3>1. room'.since \in Int
      BY RoomFacts DEF Typed
    <3>. QED
      BY <1>0, <2>1, <3>1 DEF CursorInv, Planned
  <2>5. session'.pc = "reset" => session'.boundary <= projected'
    BY <1>0, <2>1 DEF CursorInv
  <2>4. ASSUME session'.pc = "live", NEW q, In(q, live') \/ In(q, ingress'), q > session'.boundary
        PROVE  q > client'.cursor
    <3>1. CASE In(q, ingress) \/ In(q, live)
      BY <2>1, <2>4, <3>1 DEF CursorInv
    <3>2. CASE q = Len(log) + 1
      BY <1>0, <2>1, <3>2
    <3>. QED
      BY <1>q, <2>4, <3>1, <3>2
  <2>. QED
    BY <2>2, <2>3, <2>4, <2>5 DEF CursorInv
<1>2. CASE Suspend \/ Reset \/ Hangup
  <2>1. session'.pc \in {"offline", "subscribe", "capture", "rooms", "admit"}
    BY <1>2, <1>0, QuarantineEffect, HangupEffect DEF Suspend, Reset
  <2>. QED
    BY <2>1 DEF CursorInv, Planned
<1>3. CASE Recover \/ Open
  <2>1. /\ session'.boundary = session.boundary /\ UNCHANGED <<client, catchup, room, live, ingress, projected>>
        /\ session'.pc = (IF session.pc = "requested" THEN "subscribe" ELSE session.pc)
    BY <1>3, BeginEffect DEF Recover, Open
  <2>. QED
    BY <2>1 DEF CursorInv, Planned
<1>4. CASE Connect \/ Request \/ Subscribe \/ Capture \/ CaptureVisibleRooms \/ Register
  <2>1. session'.pc \in {"subscribe", "requested", "capture", "rooms", "admit", "plan"}
    BY <1>4, ToEffect, SubscribeEffect, CaptureEffect, VisibleRoomsEffect, RegisterEffect DEF Connect, Request, Pcs
  <2>. QED
    BY <2>1 DEF CursorInv, Planned
<1>5. CASE PlanBoundary
  BY <1>0, <1>5, PlanEffect DEF CursorInv, Planned, PlanBoundary
<1>6. CASE Replay
  <2>1. /\ session.pc = "replay" /\ session.boundary <= projected /\ UNCHANGED <<room, live, ingress, client, projected>>
        /\ session'.boundary = session.boundary
    BY <1>0, <1>6, ReplayEffect DEF Replay
  <2>2. CASE session'.pc = "reset"
    BY <1>0, <2>1, <2>2 DEF CursorInv, Planned
  <2>3. CASE /\ session'.pc = "events" /\ client.cursor # NoCursor
             /\ catchup' = {q \in client.cursor + 1 .. session.boundary : Replayed(q)}
    <3>1. client.cursor >= 0 /\ \A q \in catchup' : client.cursor < q /\ q <= session.boundary
      BY <1>0, <2>3, Constants
    <3>. QED
      BY <1>0, <2>1, <2>3, <3>1 DEF CursorInv, Planned
  <2>. QED
    BY <1>0, <1>6, <2>2, <2>3, ReplayEffect
<1>7. CASE WriteSnapshot \/ WriteCaughtUp
  <2>1. /\ session.pc \in {"snapshot", "events"} /\ session'.pc = "live" /\ session'.boundary = session.boundary
        /\ client'.cursor = session.boundary /\ UNCHANGED <<room, live, ingress>>
    BY <1>7, WriteSnapshotEffect, WriteCaughtUpEffect DEF WriteSnapshot, WriteCaughtUp, SamePlan
  <2>2. session'.boundary <= client'.cursor
    BY <1>0, <2>1
  <2>. QED
    BY <2>1, <2>2 DEF CursorInv, Planned
<1>8. CASE WriteEvent
  <2>1. PICK q \in catchup : /\ q \in 1 .. Len(log) /\ \A k \in catchup : q <= k
                             /\ catchup' = catchup \ {q} /\ Event(q)
    BY <1>8, WriteEventEffect
  <2>2. session.pc = "events" /\ UNCHANGED <<session, room, live, ingress>> /\ client'.cursor = q
    BY <1>8, <2>1, WriteEventEffect, EventEffect
  <2>3. q >= 0 /\ \A k \in catchup' : q < k /\ k <= session.boundary
    BY <1>0, <2>1, <2>2 DEF CursorInv
  <2>. QED
    BY <2>1, <2>2, <2>3 DEF CursorInv, Planned
<1>9. CASE WriteLive
  <2>1. /\ session.pc = "live" /\ UNCHANGED <<session, room, ingress>> /\ live # << >> /\ live' = Tail(live)
        /\ Head(live) \in 1 .. Len(log) /\ In(Head(live), live)
        /\ IF Head(live) <= session.boundary THEN client' = client ELSE Event(Head(live))
    BY <1>9, WriteLiveEffect DEF OrderInv
  <2>2. live \in Seq(Nat) /\ Ordered(live) /\ \A p, q : In(p, live) /\ In(q, ingress) => p < q
    BY DEF Typed, OrderInv
  <2>3. /\ \A q : In(q, live') <=> In(q, live) /\ q # Head(live)
        /\ \A q : In(q, live) => q \in Nat /\ Head(live) <= q
    BY <2>1, <2>2, InTail
  <2>4. CASE Head(live) <= session.boundary
    BY <2>1, <2>3, <2>4 DEF CursorInv, Planned
  <2>5. CASE ~(Head(live) <= session.boundary)
    <3>1. client'.cursor = Head(live)
      BY <2>1, <2>5, EventEffect
    <3>2. session'.boundary <= client'.cursor
      BY <1>0, <2>1, <2>5, <3>1
    <3>3. ASSUME NEW q, In(q, live') \/ In(q, ingress') PROVE q > client'.cursor
      <4>1. CASE In(q, live')
        <5>1. q \in Nat /\ Head(live) <= q /\ q # Head(live)
          BY <2>3, <4>1
        <5>. QED
          BY <2>1, <3>1, <5>1
      <4>2. CASE In(q, ingress)
        <5>1. q \in Nat /\ Head(live) < q
          BY <1>0, <2>1, <2>2, <4>2
        <5>. QED
          BY <2>1, <3>1, <5>1
      <4>. QED
        BY <2>1, <3>3, <4>1, <4>2
    <3>. QED
      BY <2>1, <3>2, <3>3 DEF CursorInv, Planned
  <2>. QED
    BY <2>4, <2>5
<1>10. CASE CaptureSnapshot
  <2>1. /\ session.pc = "reset" /\ session'.pc = "snapshot" /\ session'.boundary = projected
        /\ UNCHANGED <<room, live, ingress, client>>
    BY <1>0, <1>10, CaptureSnapshotEffect
  <2>2. client.cursor <= session.boundary /\ session.boundary <= projected /\ room.since <= session.boundary
    BY <2>1 DEF CursorInv
  <2>3. client.cursor <= projected /\ room.since <= projected
    BY <1>0, <2>2
  <2>. QED
    BY <2>1, <2>3 DEF CursorInv, Planned
<1>. QED
  BY <1>1, <1>2, <1>3, <1>4, <1>5, <1>6, <1>7, <1>8, <1>9, <1>10 DEF Next, Facts

(* Only a frame moves the cursor, and never back.                           *)
LEMMA CursorStep ==
    ASSUME Typed, BoundsInv, OrderInv, CursorInv, [Next]_vars PROVE client' = client \/ client'.cursor >= client.cursor
<1>. USE DEF stream, nats, queues
<1>0. Len(log) \in Nat /\ client.cursor \in Int /\ session.boundary \in Nat
  BY SessionFacts
<1>1. CASE WriteSnapshot \/ WriteCaughtUp
  BY <1>0, <1>1, WriteSnapshotEffect, WriteCaughtUpEffect DEF CursorInv
<1>2. CASE WriteEvent
  <2>1. session.pc = "events" /\ \E q \in catchup : q \in 1 .. Len(log) /\ Event(q)
    BY <1>2, WriteEventEffect
  <2>2. PICK q \in catchup : q \in 1 .. Len(log) /\ Event(q)
    BY <2>1
  <2>3. client'.cursor = q
    BY <2>2, EventEffect
  <2>4. client.cursor < q
    BY <2>1, <2>2 DEF CursorInv
  <2>. QED
    BY <1>0, <2>2, <2>3, <2>4
<1>3. CASE WriteLive
  <2>1. /\ session.pc = "live" /\ Head(live) \in 1 .. Len(log) /\ In(Head(live), live)
        /\ IF Head(live) <= session.boundary THEN client' = client ELSE Event(Head(live))
    BY <1>3, WriteLiveEffect DEF OrderInv
  <2>2. CASE Head(live) <= session.boundary
    BY <2>1, <2>2
  <2>3. CASE ~(Head(live) <= session.boundary)
    <3>1. client'.cursor = Head(live)
      BY <2>1, <2>3, EventEffect
    <3>2. Head(live) > client.cursor
      BY <1>0, <2>1, <2>3 DEF CursorInv
    <3>. QED
      BY <1>0, <2>1, <3>1, <3>2
  <2>. QED
    BY <2>2, <2>3
<1>4. CASE \/ \E fact \in Facts : Publish(fact)
           \/ Project \/ Disconnect \/ Suspend \/ Reconnect \/ Recover
           \/ Overflow \/ Reset \/ Resubscribe \/ Open \/ Handle
           \/ Connect \/ Subscribe \/ Capture \/ CaptureVisibleRooms \/ Request \/ Register
           \/ PlanBoundary \/ Replay \/ CaptureSnapshot \/ Hangup \/ Unsubscribe \/ UNCHANGED vars
  BY <1>4 DEF Publish, Project, Disconnect, Suspend, Reconnect, Recover, Overflow, Reset, Resubscribe, Open, Handle,
     Connect, Subscribe, Capture, CaptureVisibleRooms, Request, Register, PlanBoundary, Replay, CaptureSnapshot, Hangup, Unsubscribe, vars
<1>. QED
  BY <1>1, <1>2, <1>3, <1>4 DEF Next, Facts

----------------------------------------------------------------------------
(* The stream only grows, and what is missing stays missing until it is     *)
(* handled.                                                                 *)

LEMMA LogGrows ==
    ASSUME Typed, [Next]_vars
    PROVE  /\ Len(log) \in Nat /\ Len(log') \in Nat /\ Len(log) <= Len(log')
           /\ \A q \in 1 .. Len(log) : log'[q] = log[q]
           /\ Len(log') = Len(log) + 1 \/ log' = log
           /\ holes \subseteq holes'
<1>. USE DEF stream, nats, queues
<1>0. Len(log) \in Nat
  BY DEF Typed
<1>1. ASSUME NEW fact \in Facts, Publish(fact)
      PROVE  Len(log') = Len(log) + 1 /\ (\A q \in 1 .. Len(log) : log'[q] = log[q]) /\ holes \subseteq holes'
  BY <1>1, Publishes DEF Publish
<1>2. CASE Handle
  BY <1>2 DEF Handle
<1>3. CASE Register
  BY <1>3, RegisterEffect DEF Register
<1>4. CASE \/ Project \/ Disconnect \/ Suspend \/ Reconnect \/ Recover
           \/ Overflow \/ Reset \/ Resubscribe \/ Open
           \/ Connect \/ Subscribe \/ Capture \/ CaptureVisibleRooms \/ Request
           \/ PlanBoundary \/ Replay \/ CaptureSnapshot \/ WriteSnapshot \/ WriteEvent \/ WriteCaughtUp \/ WriteLive
           \/ Hangup \/ Unsubscribe \/ UNCHANGED vars
  BY <1>4 DEF Project, Disconnect, Suspend, Reconnect, Recover, Overflow, Reset, Resubscribe, Open, Connect,
     Subscribe, Capture, CaptureVisibleRooms, Request, PlanBoundary, Replay, CaptureSnapshot, WriteSnapshot, WriteEvent, WriteCaughtUp,
     WriteLive, Hangup, Unsubscribe, vars
<1>5. /\ holes \subseteq holes'
      /\ \/ log' = log
         \/ Len(log') = Len(log) + 1 /\ \A q \in 1 .. Len(log) : log'[q] = log[q]
  BY <1>1, <1>2, <1>3, <1>4 DEF Next, Facts
<1>6. CASE log' = log
  BY <1>0, <1>5, <1>6
<1>7. CASE Len(log') = Len(log) + 1 /\ \A q \in 1 .. Len(log) : log'[q] = log[q]
  BY <1>0, <1>5, <1>7
<1>. QED
  BY <1>5, <1>6, <1>7

LEMMA ChangesGrow ==
    ASSUME Typed, [Next]_vars, NEW n \in Int, NEW q, q \in Changes(n)'
    PROVE  q \in Changes(n) \/ (Len(log') = Len(log) + 1 /\ q = Len(log) + 1)
<1>1. q \in 1 .. Len(log') /\ q > n /\ ChangesVisibility(q)'
  BY DEF Changes
<1>2. CASE q \in 1 .. Len(log)
  BY <1>1, <1>2, LogGrows DEF Changes, ChangesVisibility
<1>3. CASE q \notin 1 .. Len(log)
  BY <1>1, <1>3, LogGrows
<1>. QED
  BY <1>2, <1>3

LEMMA StillGrows ==
    ASSUME Typed, [Next]_vars, NEW q \in 0 .. Len(log), StillMemberSince(q)'
    PROVE  StillMemberSince(q)
<1>1. MemberAt(q)' <=> MemberAt(q)
  BY LogGrows, MemberStays
<1>2. MemberAt(q)
  BY <1>1 DEF StillMemberSince
<1>3. q # 0
  BY <1>2 DEF MemberAt
<1>4. \A k \in q .. Len(log) : k \in q .. Len(log') /\ k \in 1 .. Len(log)
  BY <1>3, LogGrows
<1>. QED
  BY <1>2, <1>4, LogGrows DEF StillMemberSince

LEMMA WantedGrows ==
    ASSUME Typed, [Next]_vars, NEW q \in 1 .. Len(log), Wanted(q)'
    PROVE  Wanted(q)
<1>1. log'[q] = log[q]
  BY LogGrows
<1>2. CASE (log[q] \in {"post", "join"} /\ StillMemberSince(q))'
  BY <1>1, <1>2, StillGrows DEF Wanted
<1>3. CASE (log[q] = "leave" /\ holes = {})'
  <2>1. holes = {}
    BY <1>3, LogGrows
  <2>. QED
    BY <1>1, <1>3, <2>1 DEF Wanted
<1>. QED
  BY <1>2, <1>3 DEF Wanted

LEMMA LogInit == Init => LogInv
<1>. SUFFICES ASSUME Init PROVE LogInv
  OBVIOUS
<1>1. CASE log = << >>
  BY <1>1 DEF LogInv
<1>2. CASE log = <<"join">>
  <2>1. Len(log) = 1 /\ log[1] = "join"
    BY <1>2
  <2>2. \A q \in 1 .. Len(log) : log[q] = "join" /\ q - 1 = 0
    BY <2>1
  <2>3. ~MemberAt(0)
    BY DEF MemberAt
  <2>. QED
    BY <2>2, <2>3 DEF LogInv
<1>. QED
  BY <1>1, <1>2 DEF Init

LEMMA LogNext == ASSUME Typed, LogInv, [Next]_vars PROVE LogInv'
<1>. SUFFICES ASSUME NEW q \in 1 .. Len(log')
              PROVE  (/\ log[q] \in {"leave", "post"} => MemberAt(q - 1)
                      /\ log[q] = "join" => ~MemberAt(q - 1))'
  BY DEF LogInv
<1>0. Len(log) \in Nat
  BY LogGrows
<1>1. CASE q \in 1 .. Len(log)
  <2>1. q - 1 \in 0 .. Len(log)
    BY <1>0, <1>1
  <2>2. PICK n \in 0 .. Len(log) : n = q - 1
    BY <2>1
  <2>3. MemberAt(n)' <=> MemberAt(n)
    BY LogGrows, MemberStays
  <2>4. log'[q] = log[q] /\ (log[q] \in {"leave", "post"} => MemberAt(n)) /\ (log[q] = "join" => ~MemberAt(n))
    BY <1>1, <2>2, LogGrows DEF LogInv
  <2>. QED
    BY <2>2, <2>3, <2>4
<1>2. CASE q \notin 1 .. Len(log)
  <2>1. q = Len(log) + 1 /\ log' # log
    BY <1>0, <1>2, LogGrows
  <2>2. PICK fact \in Facts : Publish(fact)
    BY <2>1 DEF Next, Facts, Project, Disconnect, Suspend, Reconnect, Recover, Overflow, Reset, Resubscribe, Open,
       Connect, Subscribe, Capture, CaptureVisibleRooms, Request, PlanBoundary, Replay, CaptureSnapshot, WriteSnapshot, WriteEvent,
       WriteCaughtUp, WriteLive, Hangup, Unsubscribe, Handle, Register, vars, stream
  <2>3. PICK n \in 0 .. Len(log) : n = q - 1 /\ n = Len(log)
    BY <1>0, <2>1
  <2>4. MemberAt(n)' <=> MemberAt(n)
    BY LogGrows, MemberStays
  <2>5. log'[q] = fact /\ (fact = "join" => ~MemberAt(n)) /\ (fact \in {"leave", "post"} => MemberAt(n))
    BY <2>1, <2>2, <2>3, Publishes
  <2>. QED
    BY <2>3, <2>4, <2>5
<1>. QED
  BY <1>1, <1>2

(* While a generation runs, a missing message stays so until it is handled. *)
LEMMA MissingStep ==
    ASSUME Typed, BoundsInv, OrderInv, HubInv, [Next]_vars, hub = "up", accepting, accepting',
           NEW q \in 1 .. Len(log), Missing(q)
    PROVE  Missing(q)' \/ (Handle /\ ingress # << >> /\ q = Head(ingress))
<1>. USE DEF stream, nats, queues
<1>0. /\ ingress \in Seq(Nat) /\ live \in Seq(Nat) /\ Ordered(ingress) /\ Ordered(live) /\ Len(log) \in Nat
      /\ \A p, r : In(p, live) /\ In(r, ingress) => p < r
      /\ \A p : In(p, ingress) \/ In(p, live) => p \in 1 .. Len(log)
  BY DEF Typed, OrderInv, BoundsInv
<1>e. \A p : ~In(p, << >>)
  BY DEF In
<1>1. ASSUME Broken => Broken',
             \A p : In(p, ingress) => In(p, ingress'),
             Broken => \A p : In(p, ingress') \/ In(p, live') => In(p, ingress) \/ In(p, live)
      PROVE  Missing(q)'
  BY <1>1 DEF Missing, Behind
<1>2. ASSUME NEW fact \in Facts, Publish(fact) PROVE Missing(q)'
  <2>1. live' = live /\ UNCHANGED <<linked, lossy>>
    BY <1>2 DEF Publish
  <2>2. CASE ingress' = ingress
    BY <1>1, <2>1, <2>2 DEF Broken
  <2>3. CASE ~Broken /\ ingress' = Append(ingress, Len(log) + 1)
    <3>1. \A p : In(p, ingress) => In(p, ingress')
      BY <1>0, <2>3, InAppend
    <3>. QED
      BY <1>1, <2>3, <3>1
  <2>. QED
    BY <1>2, <2>2, <2>3, Publishes DEF Broken
<1>3. CASE Disconnect
  <2>1. PICK n \in 0 .. Len(ingress) : ingress' = SubSeq(ingress, 1, n)
    BY <1>3 DEF Disconnect
  <2>2. /\ \A p : In(p, ingress') => In(p, ingress)
        /\ In(q, ingress) => In(q, ingress') \/ \A p : In(p, ingress') => p < q
    BY <1>0, <2>1, InPrefix
  <2>3. Broken' /\ live' = live
    BY <1>3 DEF Disconnect, Broken
  <2>4. CASE In(q, ingress)
    BY <1>0, <2>2, <2>3, <2>4 DEF Missing, Behind
  <2>5. CASE Behind(q)
    BY <2>2, <2>3, <2>5 DEF Missing, Behind
  <2>. QED
    BY <2>4, <2>5 DEF Missing
<1>4. CASE Handle
  <2>1. PICK h \in Nat :
          /\ ingress # << >> /\ h = Head(ingress) /\ ingress' = Tail(ingress)
          /\ live' = Append(live, h) \/ live' = live
          /\ UNCHANGED <<linked, lossy>>
    BY <1>0, <1>4, HandleEffect
  <2>2. /\ In(h, ingress)
        /\ \A p : In(p, ingress') <=> In(p, ingress) /\ p # h
    BY <1>0, <2>1, InTail
  <2>3. \A p : In(p, live') => In(p, live) \/ p = h
    <3>1. \A p : In(p, Append(live, h)) <=> In(p, live) \/ p = h
      BY <1>0, InAppend
    <3>. QED
      BY <2>1, <3>1
  <2>4. CASE q = h
    BY <1>4, <2>1, <2>4
  <2>5. CASE q # h /\ In(q, ingress)
    BY <2>2, <2>5 DEF Missing
  <2>6. CASE Broken /\ Behind(q)
    <3>1. Broken'
      BY <2>1, <2>6 DEF Broken
    <3>2. \A p : In(p, ingress') \/ In(p, live') => In(p, ingress) \/ In(p, live)
      BY <2>2, <2>3
    <3>. QED
      BY <2>6, <3>1, <3>2 DEF Missing, Behind
  <2>. QED
    BY <2>4, <2>5, <2>6 DEF Missing
<1>5. CASE WriteLive
  <2>1. UNCHANGED <<ingress, linked, lossy>> /\ live # << >> /\ live' = Tail(live)
    BY <1>5 DEF WriteLive
  <2>2. \A p : In(p, live') => In(p, live)
    BY <1>0, <2>1, InTail
  <2>. QED
    BY <1>1, <2>1, <2>2 DEF Broken
<1>6. CASE Hangup
  <2>1. UNCHANGED <<ingress, linked, lossy>> /\ live' = << >>
    BY <1>6 DEF Hangup
  <2>. QED
    BY <1>1, <1>e, <2>1 DEF Broken
<1>7. CASE Overflow \/ Recover
  <2>1. UNCHANGED <<ingress, linked, live>> /\ (lossy => lossy')
    BY <1>7, BeginEffect DEF Overflow, Recover
  <2>. QED
    BY <1>1, <2>1 DEF Broken
<1>8. CASE Suspend \/ Reset \/ Reconnect \/ Open \/ Resubscribe
  <2>1. FALSE
    BY <1>8, QuarantineEffect DEF Suspend, Reset, Reconnect, Open, Resubscribe, HubInv
  <2>. QED
    BY <2>1
<1>9. CASE \/ Project \/ Connect \/ Subscribe \/ Capture \/ CaptureVisibleRooms
           \/ Request \/ Register \/ PlanBoundary \/ Replay \/ CaptureSnapshot \/ WriteSnapshot \/ WriteEvent \/ WriteCaughtUp
           \/ Unsubscribe \/ UNCHANGED vars
  <2>1. UNCHANGED <<ingress, live, linked, lossy>>
    BY <1>9 DEF Project, Connect, Subscribe, Capture, CaptureVisibleRooms,
       Request, Register, PlanBoundary, Replay, CaptureSnapshot, WriteSnapshot, WriteEvent, WriteCaughtUp, Unsubscribe, vars
  <2>. QED
    BY <1>1, <2>1 DEF Broken
<1>. QED
  BY <1>2, <1>3, <1>4, <1>5, <1>6, <1>7, <1>8, <1>9 DEF Next, Facts

(* What is published while the hub is up is missing from the start.         *)
LEMMA MissingNew ==
    ASSUME Typed, BoundsInv, [Next]_vars, hub = "up", Len(log') = Len(log) + 1,
           NEW q \in Nat, q = Len(log) + 1
    PROVE  Missing(q)'
<1>0. Len(log) \in Nat /\ ingress \in Seq(Nat) /\ log' # log
      /\ \A p : In(p, ingress) \/ In(p, live) => p \in 1 .. Len(log)
  BY DEF Typed, BoundsInv
<1>1. PICK fact \in Facts : Publish(fact)
  BY <1>0 DEF Next, Facts, Project, Disconnect, Suspend, Reconnect, Recover, Overflow, Reset, Resubscribe, Open,
     Connect, Subscribe, Capture, CaptureVisibleRooms, Request, PlanBoundary, Replay, CaptureSnapshot, WriteSnapshot, WriteEvent,
     WriteCaughtUp, WriteLive, Hangup, Unsubscribe, Handle, Register, vars, stream
<1>2. /\ UNCHANGED <<linked, lossy, live>>
      /\ ingress' = IF linked /\ ~lossy THEN Append(ingress, Len(log) + 1) ELSE ingress
  BY <1>1, Publishes DEF Publish, nats, queues
<1>3. CASE linked /\ ~lossy
  <2>1. In(q, ingress')
    BY <1>0, <1>2, <1>3, InAppend
  <2>. QED
    BY <2>1 DEF Missing
<1>4. CASE ~(linked /\ ~lossy)
  <2>1. Broken' /\ ingress' = ingress
    BY <1>2, <1>4 DEF Broken
  <2>2. \A p : In(p, ingress') \/ In(p, live') => p < q
    BY <1>0, <1>2, <2>1
  <2>. QED
    BY <2>1, <2>2 DEF Missing, Behind
<1>. QED
  BY <1>3, <1>4

----------------------------------------------------------------------------
(* The snapshot that a session is admitted with.                            *)

LEMMA SnapshotInit == Init => SnapshotInv
BY NoneFacts DEF Init, SnapshotInv

LEMMA SnapshotStep ==
    ASSUME NEW n \in Int, session'.snapshot.since = n,
           session'.snapshot.member = MemberAt(n)',
           session'.current /\ ~session'.crossed /\ hub' = "up" /\ accepting' =>
             \A q \in Changes(n)' : Missing(q)'
    PROVE  SnapshotInv'
BY DEF SnapshotInv, MemberAt, Changes, ChangesVisibility, Missing, Broken, Behind, In

(* A step that leaves the snapshot alone.                                   *)
LEMMA SnapshotKept ==
    ASSUME Typed, BoundsInv, OrderInv, HubInv, SnapshotInv, [Next]_vars,
           session.pc \in {"rooms", "admit", "requested"}, session.snapshot # NoRoom,
           session'.snapshot.member = session.snapshot.member, session'.snapshot.since = session.snapshot.since,
           session'.current /\ ~session'.crossed /\ hub' = "up" /\ accepting' =>
             session.current /\ ~session.crossed /\ hub = "up" /\ accepting,
           Handle /\ ingress # << >> /\ ChangesVisibility(Head(ingress)) => ~session'.current
    PROVE  SnapshotInv'
<1>1. PICK n \in Int : n = session.snapshot.since
  BY SessionFacts
<1>2. n \in 0 .. Len(log)
  BY <1>1 DEF HubInv, BoundsInv
<1>3. session'.snapshot.member = MemberAt(n)'
  <2>1. session.snapshot.member = MemberAt(n)
    BY <1>1 DEF SnapshotInv
  <2>. QED
    BY <1>2, <2>1, LogGrows, MemberStays
<1>4. ASSUME session'.current, ~session'.crossed, hub' = "up", accepting', NEW q \in Changes(n)'
      PROVE  Missing(q)'
  <2>1. session.current /\ ~session.crossed /\ hub = "up" /\ accepting
    BY <1>4
  <2>2. \A r \in Changes(n) : Missing(r)
    BY <1>1, <2>1 DEF SnapshotInv
  <2>3. CASE q \in Changes(n)
    <3>1. Missing(q) /\ q \in 1 .. Len(log) /\ ChangesVisibility(q)
      BY <2>2, <2>3 DEF Changes
    <3>2. Missing(q)' \/ (Handle /\ ingress # << >> /\ q = Head(ingress))
      BY <1>4, <2>1, <3>1, MissingStep
    <3>. QED
      BY <1>4, <3>1, <3>2
  <2>4. CASE Len(log') = Len(log) + 1 /\ q = Len(log) + 1
    <3>1. q \in Nat
      BY <2>4, LogGrows
    <3>. QED
      BY <2>1, <2>4, <3>1, MissingNew
  <2>. QED
    BY <1>4, <2>3, <2>4, ChangesGrow
<1>. QED
  BY <1>1, <1>3, <1>4, SnapshotStep

LEMMA SnapshotNext ==
    ASSUME Typed, BoundsInv, OrderInv, HubInv, SnapshotInv, [Next]_vars PROVE SnapshotInv'
<1>. USE DEF stream, nats, queues
<1>. SUFFICES ASSUME session'.pc \in {"rooms", "admit", "requested"}, session'.snapshot # NoRoom PROVE SnapshotInv'
  BY DEF SnapshotInv
<1>0. session.pc \in Pcs /\ session.snapshot.since \in Int /\ Len(log) \in Nat
      /\ (session.snapshot # NoRoom => session.snapshot.since >= 0)
  BY SessionFacts DEF HubInv
<1>1. CASE \/ \E fact \in Facts : Publish(fact)
           \/ Project \/ Disconnect \/ Reconnect \/ Overflow \/ Resubscribe \/ UNCHANGED vars \/ WriteEvent \/ WriteLive
           \/ Unsubscribe
  <2>1. session' = session /\ accepting' = accepting /\ (hub' = "up" => hub = "up")
    BY <1>1 DEF Publish, Project, Disconnect, Reconnect, Overflow, Resubscribe, vars, WriteEvent, WriteLive, Unsubscribe
  <2>2. Handle /\ ingress # << >> /\ ChangesVisibility(Head(ingress)) => ~session'.current
    <3>. SUFFICES ASSUME Handle, ingress # << >>, ChangesVisibility(Head(ingress)) PROVE ~session'.current
      OBVIOUS
    <3>1. session' = [session EXCEPT !.current = FALSE] /\ session \in Sessions
      BY DEF Handle, Typed
    <3>. QED
      BY <3>1 DEF Sessions
  <2>. QED
    BY <2>1, <2>2, SnapshotKept
<1>2. CASE Handle
  <2>1. /\ session'.pc = session.pc /\ session'.snapshot = session.snapshot /\ session'.crossed = session.crossed
        /\ UNCHANGED <<hub, accepting>>
        /\ session'.current = (IF ChangesVisibility(Head(ingress)) THEN FALSE ELSE session.current)
    BY <1>2, HandleEffect DEF OrderInv
  <2>. QED
    BY <2>1, SnapshotKept
<1>3. CASE Suspend \/ Reset
  <2>1. ~accepting' /\ session'.snapshot = session.snapshot /\ session'.pc = session.pc /\ log' = log
    BY <1>3, QuarantineEffect, NoneFacts DEF Suspend, Reset, SamePlan
  <2>2. PICK n \in 0 .. Len(log) : n = session.snapshot.since
    BY <1>0, <2>1 DEF BoundsInv
  <2>3. session'.snapshot.member = MemberAt(n)'
    <3>1. session.snapshot.member = MemberAt(n)
      BY <2>1, <2>2 DEF SnapshotInv
    <3>. QED
      BY <2>1, <3>1, LogGrows, MemberStays
  <2>4. session'.snapshot.since = n /\ n \in Int
    BY <2>1, <2>2
  <2>. QED
    BY <2>1, <2>3, <2>4, SnapshotStep
<1>4. CASE Recover \/ Open
  <2>1. session'.crossed /\ session'.snapshot = session.snapshot /\ session'.pc = session.pc /\ log' = log
    BY <1>4, BeginEffect DEF Recover, Open
  <2>2. PICK n \in 0 .. Len(log) : n = session.snapshot.since
    BY <1>0, <2>1 DEF BoundsInv
  <2>3. session'.snapshot.member = MemberAt(n)'
    <3>1. session.snapshot.member = MemberAt(n)
      BY <2>1, <2>2 DEF SnapshotInv
    <3>. QED
      BY <2>1, <3>1, LogGrows, MemberStays
  <2>4. session'.snapshot.since = n /\ n \in Int
    BY <2>1, <2>2
  <2>. QED
    BY <2>1, <2>3, <2>4, SnapshotStep
<1>5. CASE Capture
  <2>1. session'.snapshot.member = MemberAt(Len(log)) /\ session'.snapshot.since = VisibilityTail /\ log' = log
    BY <1>5, CaptureEffect DEF Capture
  <2>2. PICK n \in 0 .. Len(log) : n = VisibilityTail
    BY TailFacts
  <2>3. (MemberAt(n) <=> MemberAt(Len(log))) /\ \A q \in 1 .. Len(log) : q > n => ~ChangesVisibility(q)
    BY <2>2, TailFacts
  <2>4. session'.snapshot.member = MemberAt(n)'
    <3>1. MemberAt(n)' <=> MemberAt(n)
      BY LogGrows, MemberStays
    <3>2. MemberAt(n) \in BOOLEAN /\ MemberAt(Len(log)) \in BOOLEAN /\ MemberAt(n)' \in BOOLEAN
      BY DEF MemberAt
    <3>. QED
      BY <2>1, <2>3, <3>1, <3>2
  <2>5. Changes(n)' = {}
    <3>1. Changes(n) = {}
      BY <2>3 DEF Changes
    <3>. QED
      BY <2>1, <3>1 DEF Changes, ChangesVisibility
  <2>6. session'.snapshot.since = n /\ n \in Int
    BY <2>1, <2>2
  <2>. QED
    BY <2>4, <2>5, <2>6, SnapshotStep
<1>6. CASE CaptureVisibleRooms \/ Request
  <2>1. /\ session'.snapshot.member = session.snapshot.member /\ session'.snapshot.since = session.snapshot.since
        /\ session'.current = session.current /\ session'.crossed = session.crossed
        /\ UNCHANGED <<accepting, hub, ingress>>
        /\ session.pc \in {"rooms", "admit"}
        /\ session.snapshot # NoRoom
    <3>1. CASE CaptureVisibleRooms
      BY <3>1, VisibleRoomsEffect, NoneFacts DEF CaptureVisibleRooms, HubInv
    <3>2. CASE Request
      BY <3>2, ToEffect DEF Request, SamePlan, Pcs
    <3>. QED
      BY <1>6, <3>1, <3>2
  <2>2. ~Handle
    <3>1. ASSUME Handle PROVE Tail(ingress) = ingress /\ ingress # << >> /\ ingress \in Seq(Nat)
      BY <2>1, <3>1 DEF Handle, Typed
    <3>2. ASSUME Tail(ingress) = ingress, ingress # << >>, ingress \in Seq(Nat) PROVE FALSE
      BY <3>2
    <3>. QED
      BY <3>1, <3>2
  <2>. QED
    BY <2>1, <2>2, SnapshotKept
<1>7. CASE \/ Connect \/ Subscribe \/ Register \/ PlanBoundary \/ Replay \/ CaptureSnapshot \/ WriteSnapshot \/ WriteCaughtUp \/ Hangup
  <2>1. session'.pc \notin {"rooms", "admit", "requested"} \/ session'.snapshot = NoRoom
    BY <1>7, ToEffect, SubscribeEffect, RegisterEffect, PlanEffect, ReplayEffect, CaptureSnapshotEffect,
       WriteSnapshotEffect, WriteCaughtUpEffect, HangupEffect, NoneFacts DEF Connect, Pcs, BoundsInv
  <2>. QED
    BY <2>1
<1>. QED
  BY <1>1, <1>2, <1>3, <1>4, <1>5, <1>6, <1>7 DEF Next, Facts

----------------------------------------------------------------------------
(* The state of the room in the hub.                                        *)

LEMMA RoomInit == Init => RoomInv
BY DEF Init, RoomInv

LEMMA RoomStep ==
    ASSUME NEW m \in Nat, NEW n \in Int, room'.since = n, n <= m, m <= Len(log'),
           room'.member = MemberAt(m)', \A q \in Changes(m)' : Missing(q)',
           \A q \in Changes(n)' : In(q, ingress') => q > m
    PROVE  RoomInv'
<1>1. TrueUpTo(m)'
  BY DEF TrueUpTo, Changes, ChangesVisibility, In
<1>. QED
  BY <1>1 DEF RoomInv

(* What the room's state was true up to, with its parameters named.         *)
LEMMA RoomTrue ==
    ASSUME Typed, RoomInv, room # NoRoom, "snapshot" \notin holes
    PROVE  \E m \in Nat, n \in Int :
              /\ n = room.since /\ n <= m /\ m <= Len(log) /\ room.member = MemberAt(m)
              /\ \A q \in Changes(m) : Missing(q)
              /\ \A q \in Changes(n) : In(q, ingress) => q > m
<1>1. PICK m \in Nat : TrueUpTo(m)
  BY DEF RoomInv
<1>2. PICK n \in Int : n = room.since
  BY SessionFacts
<1>. QED
  BY <1>1, <1>2 DEF TrueUpTo

(* What remains missing of the changes after a position.                    *)
LEMMA ChangesMissing ==
    ASSUME Typed, BoundsInv, OrderInv, HubInv, [Next]_vars, hub = "up", accepting, accepting',
           NEW m \in Int, \A q \in Changes(m) : Missing(q),
           Handle /\ ingress # << >> => Head(ingress) \notin Changes(m)
    PROVE  \A q \in Changes(m)' : Missing(q)'
<1>. SUFFICES ASSUME NEW q \in Changes(m)' PROVE Missing(q)'
  OBVIOUS
<1>1. CASE q \in Changes(m)
  <2>1. q \in 1 .. Len(log) /\ Missing(q)
    BY <1>1 DEF Changes
  <2>. QED
    BY <1>1, <2>1, MissingStep
<1>2. CASE Len(log') = Len(log) + 1 /\ q = Len(log) + 1
  <2>1. q \in Nat
    BY <1>2, LogGrows
  <2>. QED
    BY <1>2, <2>1, MissingNew
<1>. QED
  BY <1>1, <1>2, ChangesGrow

LEMMA RoomNext ==
    ASSUME Typed, BoundsInv, OrderInv, HubInv, SnapshotInv, RoomInv, [Next]_vars, HubInv' PROVE RoomInv'
<1>. USE DEF stream, nats, queues
<1>. SUFFICES ASSUME room' # NoRoom, "snapshot" \notin holes' PROVE RoomInv'
  BY DEF RoomInv
<1>0. /\ "snapshot" \notin holes /\ hub' = "up" /\ accepting'
      /\ Len(log) \in Nat /\ Len(log') \in Nat /\ Len(log) <= Len(log')
      /\ \A q : In(q, ingress) => q \in 1 .. Len(log)
  BY LogGrows DEF HubInv, BoundsInv
<1>q. \A q : In(q, ingress') \/ In(q, live') =>
               In(q, ingress) \/ In(q, live) \/ (Len(log') = Len(log) + 1 /\ q = Len(log) + 1)
  BY QueuesStep
<1>1. ASSUME room' = room, ~Handle, \A q : In(q, ingress') => In(q, ingress) \/ q = Len(log) + 1 PROVE RoomInv'
  <2>1. hub = "up" /\ accepting
    BY <1>1 DEF HubInv
  <2>2. PICK m \in Nat, n \in Int :
              /\ n = room.since /\ n <= m /\ m <= Len(log) /\ room.member = MemberAt(m)
              /\ \A q \in Changes(m) : Missing(q)
              /\ \A q \in Changes(n) : In(q, ingress) => q > m
    BY <1>0, <1>1, RoomTrue
  <2>3. \A q \in Changes(m)' : Missing(q)'
    BY <1>0, <1>1, <2>1, <2>2, ChangesMissing
  <2>4. \A q \in Changes(n)' : In(q, ingress') => q > m
    <3>. SUFFICES ASSUME NEW q \in Changes(n)', In(q, ingress') PROVE q > m
      OBVIOUS
    <3>1. CASE q = Len(log) + 1
      BY <1>0, <2>2, <3>1
    <3>2. CASE In(q, ingress)
      <4>1. q \in 1 .. Len(log)
        BY <1>0, <3>2
      <4>2. q \in Changes(n)
        BY <1>0, <4>1, ChangesGrow
      <4>. QED
        BY <2>2, <3>2, <4>2
    <3>. QED
      BY <1>1, <3>1, <3>2
  <2>5. room'.member = MemberAt(m)'
    BY <1>1, <2>2, LogGrows, MemberStays
  <2>6. room'.since = n /\ m <= Len(log')
    BY <1>0, <1>1, <2>2
  <2>. QED
    BY <2>2, <2>3, <2>4, <2>5, <2>6, RoomStep
<1>2. CASE Handle
  <2>1. PICK h \in Nat :
              /\ ingress # << >> /\ h = Head(ingress) /\ ingress' = Tail(ingress) /\ hub = "up"
              /\ room'.since = room.since
              /\ room = NoRoom => room' = NoRoom
              /\ room # NoRoom =>
                   room'.member = IF ChangesVisibility(h) /\ h > room.since THEN log[h] = "join" ELSE room.member
              /\ accepting' = accepting /\ log' = log
    BY <1>2, HandleEffect DEF OrderInv
  <2>2. ingress \in Seq(Nat) /\ Ordered(ingress)
    BY DEF Typed, OrderInv
  <2>3. /\ In(h, ingress) /\ h \in 1 .. Len(log)
        /\ \A p : In(p, ingress') <=> In(p, ingress) /\ p # h
        /\ \A p : In(p, ingress) => p \in Nat /\ h <= p
    BY <1>0, <2>1, <2>2, InTail
  <2>4. PICK m \in Nat, n \in Int :
              /\ n = room.since /\ n <= m /\ m <= Len(log) /\ room.member = MemberAt(m)
              /\ \A q \in Changes(m) : Missing(q)
              /\ \A q \in Changes(n) : In(q, ingress) => q > m
    BY <1>0, <2>1, RoomTrue
  <2>5. \A k \in Int : Changes(k)' = Changes(k)
    BY <2>1 DEF Changes, ChangesVisibility
  <2>6. CASE ChangesVisibility(h) /\ h > room.since
    <3>1. h \in Changes(n)
      BY <2>3, <2>4, <2>6 DEF Changes
    <3>2. h > m /\ n <= h
      BY <2>3, <2>4, <3>1
    <3>3. \A q \in Changes(h) : q \in Changes(m)
      BY <2>4, <3>2 DEF Changes
    <3>4. \A q \in Changes(h)' : Missing(q)'
      <4>1. \A q \in Changes(h) : Missing(q)
        BY <2>4, <3>3
      <4>2. h \notin Changes(h)
        BY <2>1 DEF Changes
      <4>3. h \in Int
        OBVIOUS
      <4>. QED
        BY <1>0, <2>1, <4>1, <4>2, <4>3, ChangesMissing
    <3>5. room'.member = MemberAt(h)'
      <4>1. MemberAt(h) = (log[h] = "join")
        <5>1. MemberAt(h) \in BOOLEAN
          BY DEF MemberAt
        <5>2. h # 0 /\ (log[h] = "join" \/ log[h] = "leave")
          BY <2>3, <2>6 DEF ChangesVisibility
        <5>3. log[h] = "join" => MemberAt(h)
          BY <5>2, MemberJoin
        <5>4. log[h] = "leave" => ~MemberAt(h)
          BY MemberLeave
        <5>. QED
          BY <5>1, <5>2, <5>3, <5>4
      <4>2. h \in 0 .. Len(log)
        BY <1>0, <2>3
      <4>3. room # NoRoom
        BY <2>1
      <4>. QED
        BY <2>1, <2>6, <4>1, <4>2, <4>3, LogGrows, MemberStays
    <3>6. \A q \in Changes(n)' : In(q, ingress') => q > h
      BY <2>3
    <3>7. room'.since = n /\ h <= Len(log')
      BY <1>0, <2>1, <2>3, <2>4
    <3>. QED
      BY <3>2, <3>4, <3>5, <3>6, <3>7, RoomStep
  <2>7. CASE ~(ChangesVisibility(h) /\ h > room.since)
    <3>1. h \notin Changes(m)
      BY <2>4, <2>7 DEF Changes
    <3>2. \A q \in Changes(m)' : Missing(q)'
      BY <1>0, <2>1, <2>4, <3>1, ChangesMissing
    <3>3. room'.member = MemberAt(m)'
      <4>1. room'.member = MemberAt(m)
        BY <2>1, <2>4, <2>7
      <4>. QED
        BY <2>4, <4>1, LogGrows, MemberStays
    <3>4. \A q \in Changes(n)' : In(q, ingress') => q > m
      BY <2>3, <2>4, <2>5
    <3>5. room'.since = n /\ m <= Len(log')
      BY <2>1, <2>4
    <3>. QED
      BY <2>4, <3>2, <3>3, <3>4, <3>5, RoomStep
  <2>. QED
    BY <2>6, <2>7
<1>3. CASE Register
  <2>1. room' = room \/ (/\ room = NoRoom /\ session.snapshot # NoRoom /\ room' = session.snapshot
                         /\ session.crossed /\ MissesChange => "snapshot" \in holes'
                         /\ session.current)
    BY <1>3, RegisterEffect
  <2>2. session.pc = "requested" /\ hub = "up" /\ accepting /\ UNCHANGED <<log, ingress>> /\ ~Handle
    <3>1. ASSUME Handle PROVE Tail(ingress) = ingress /\ ingress # << >> /\ ingress \in Seq(Nat)
      BY <1>3, <3>1 DEF Handle, Typed, Register
    <3>2. ASSUME Tail(ingress) = ingress, ingress # << >>, ingress \in Seq(Nat) PROVE FALSE
      BY <3>2
    <3>. QED
      BY <1>3, <3>1, <3>2 DEF Register, HubInv
  <2>3. CASE room' = room
    BY <1>1, <2>2, <2>3
  <2>4. CASE /\ room = NoRoom /\ session.snapshot # NoRoom /\ room' = session.snapshot
             /\ session.crossed /\ MissesChange => "snapshot" \in holes'
             /\ session.current
    <3>1. PICK n \in Nat : n = session.snapshot.since /\ n <= Len(log)
      BY <2>4, SessionFacts DEF HubInv, BoundsInv
    <3>2. room'.since = n /\ room'.member = MemberAt(n)
      BY <2>2, <2>4, <3>1 DEF SnapshotInv
    <3>3. \A q \in Changes(n) : Missing(q)
      <4>1. CASE session.crossed
        <5>1. \A q \in n + 1 .. Len(log) : ChangesVisibility(q) => \E i \in 1 .. Len(ingress) : ingress[i] = q
          BY <2>4, <3>1, <4>1 DEF MissesChange
        <5>2. \A q \in Changes(n) : q \in n + 1 .. Len(log) /\ ChangesVisibility(q)
          BY <1>0, <3>1 DEF Changes
        <5>. QED
          BY <5>1, <5>2 DEF Missing, In
      <4>2. CASE ~session.crossed
        BY <2>2, <2>4, <3>1, <4>2 DEF SnapshotInv
      <4>. QED
        BY <4>1, <4>2
    <3>4. \A q \in Changes(n)' : Missing(q)'
      BY <1>0, <2>2, <3>3, ChangesMissing
    <3>5. room'.member = MemberAt(n)'
      BY <3>1, <3>2, LogGrows, MemberStays
    <3>6. \A q \in Changes(n)' : In(q, ingress') => q > n
      BY DEF Changes
    <3>7. n \in Int /\ n <= n /\ n <= Len(log')
      BY <1>0, <3>1
    <3>. QED
      BY <3>2, <3>4, <3>5, <3>6, <3>7, RoomStep
  <2>. QED
    BY <2>1, <2>3, <2>4
<1>4. ASSUME ~Handle, ~Register PROVE RoomInv'
  <2>1. \A q : In(q, ingress') => In(q, ingress) \/ q = Len(log) + 1
    <3>1. CASE \E fact \in Facts : Publish(fact)
      <4>1. ingress' = Append(ingress, Len(log) + 1) \/ ingress' = ingress
        BY <3>1, Publishes
      <4>2. Len(log) + 1 \in Nat /\ ingress \in Seq(Nat)
        BY <1>0 DEF Typed
      <4>3. \A q : In(q, Append(ingress, Len(log) + 1)) <=> In(q, ingress) \/ q = Len(log) + 1
        BY <4>2, InAppend
      <4>. QED
        BY <4>1, <4>3
    <3>2. CASE Disconnect
      BY <3>2, InPrefix DEF Disconnect, Typed, OrderInv
    <3>3. CASE ingress' = ingress \/ ingress' = << >>
      BY <3>3 DEF In
    <3>. QED
      BY <1>4, <3>1, <3>2, <3>3 DEF Next, Facts, Project, Suspend, Reconnect, Recover, Overflow, Reset, Resubscribe,
         Open, Connect, Subscribe, Capture, CaptureVisibleRooms, Request, PlanBoundary, Replay, CaptureSnapshot, WriteSnapshot, WriteEvent,
         WriteCaughtUp, WriteLive, Hangup, Unsubscribe, vars
  <2>2. room' = room
    <3>1. CASE Suspend \/ Reset
      BY <3>1, QuarantineEffect DEF Suspend, Reset
    <3>2. CASE Hangup
      BY <3>2, HangupEffect
    <3>3. CASE Unsubscribe
      BY <3>3, UnsubscribeEffect
    <3>4. CASE Recover \/ Open
      BY <3>4, BeginEffect DEF Recover, Open
    <3>. QED
      BY <1>4, <3>1, <3>2, <3>3, <3>4 DEF Next, Facts, Project, Reconnect, Overflow, Resubscribe, Publish, Disconnect,
         Connect, Subscribe, Capture, CaptureVisibleRooms, Request, PlanBoundary, Replay, CaptureSnapshot, WriteSnapshot, WriteEvent,
         WriteCaughtUp, WriteLive, vars
  <2>. QED
    BY <1>1, <1>4, <2>1, <2>2
<1>. QED
  BY <1>2, <1>3, <1>4

----------------------------------------------------------------------------
(* What a session must not miss reaches it.                                 *)

(* The hub passes on the next message if the session must not miss it.      *)
LEMMA ReachesWanted ==
    ASSUME Typed, BoundsInv, OrderInv, HubInv, CursorInv, LogInv, RoomInv, [Next]_vars, Handle, "snapshot" \notin holes',
           room # NoRoom, NEW h \in Nat, ingress # << >>, h = Head(ingress), h > room.since, Wanted(h)',
           Planned, h > session.boundary
    PROVE  Reaches(h)
<1>. USE DEF stream, nats, queues
<1>1. /\ ingress \in Seq(Nat) /\ Ordered(ingress) /\ Len(log) \in Nat /\ projected >= h /\ projected <= Len(log)
      /\ projected \in Nat /\ log' = log
      /\ holes' = IF Overtaken(h) THEN holes \cup {"leave"} ELSE holes
      /\ "snapshot" \notin holes
  BY LogGrows, SessionFacts DEF Typed, OrderInv, Handle, BoundsInv
<1>2. /\ In(h, ingress) /\ h \in 1 .. Len(log)
      /\ \A p : In(p, ingress) => p \in Nat /\ h <= p
  BY <1>1, InTail DEF BoundsInv
<1>3. PICK m \in Nat, n \in Int :
         /\ n = room.since /\ n <= m /\ m <= Len(log) /\ room.member = MemberAt(m)
         /\ \A q \in Changes(m) : Missing(q)
         /\ \A q \in Changes(n) : In(q, ingress) => q > m
  BY <1>1, RoomTrue
<1>4. ASSUME NEW q \in 1 .. Len(log), q > m, q < h PROVE ~ChangesVisibility(q)
  <2>. SUFFICES ASSUME ChangesVisibility(q) PROVE FALSE
    OBVIOUS
  <2>1. Missing(q)
    BY <1>3, <1>4 DEF Changes
  <2>2. CASE In(q, ingress)
    BY <1>2, <1>4, <2>2
  <2>3. CASE Behind(q)
    <3>1. h < q
      BY <1>2, <2>3 DEF Behind
    <3>. QED
      BY <1>2, <1>4, <3>1
  <2>. QED
    BY <2>1, <2>2, <2>3 DEF Missing
<1>5. Wanted(h)
  BY <1>2, WantedGrows
<1>6. ASSUME MemberAt(h), StillMemberSince(h) PROVE MemberAt(projected)
  <2>1. \A k \in h + 1 .. projected : log[k] # "leave"
    BY <1>1, <1>2, <1>6 DEF StillMemberSince
  <2>. QED
    BY <1>1, <1>2, <1>6, <2>1, MemberForward
<1>7. CASE log[h] = "join" /\ StillMemberSince(h)
  <2>1. MemberAt(projected)
    BY <1>6, <1>7 DEF StillMemberSince
  <2>. QED
    BY <1>7, <2>1 DEF Reaches
<1>8. CASE log[h] = "post" /\ StillMemberSince(h)
  <2>1. MemberAt(h) /\ MemberAt(projected)
    BY <1>6, <1>8 DEF StillMemberSince
  <2>2. MemberAt(m)
    <3>1. CASE m <= h
      <4>1. \A q \in m + 1 .. h : ~ChangesVisibility(q)
        BY <1>2, <1>3, <1>4, <1>8 DEF ChangesVisibility
      <4>. QED
        BY <1>3, <2>1, <3>1, <4>1, MemberSame
    <3>2. CASE h <= m
      <4>1. \A k \in h + 1 .. m : log[k] # "leave"
        <5>1. \A k \in h + 1 .. m : k \in h .. Len(log)
          BY <1>1, <1>3
        <5>2. \A k \in h .. Len(log) : log[k] # "leave"
          BY <1>8 DEF StillMemberSince
        <5>. QED
          BY <5>1, <5>2
      <4>. QED
        BY <1>3, <2>1, <3>2, <4>1, MemberForward
    <3>. QED
      BY <3>1, <3>2
  <2>. QED
    BY <1>3, <1>8, <2>1, <2>2 DEF Reaches
<1>9. CASE log[h] = "leave" /\ holes' = {}
  <2>1. ~Overtaken(h)
    BY <1>1, <1>9
  <2>2. h > m
    BY <1>2, <1>3, <1>9 DEF Changes, ChangesVisibility
  <2>3. room.member
    <3>1. MemberAt(h - 1)
      BY <1>2, <1>9 DEF LogInv
    <3>2. h - 1 \in Nat /\ m <= h - 1 /\ \A q \in m + 1 .. h - 1 : ~ChangesVisibility(q)
      BY <1>2, <1>3, <1>4, <2>2
    <3>. QED
      BY <1>3, <3>1, <3>2, MemberSame
  <2>. QED
    BY <1>9, <2>1, <2>3 DEF Overtaken
<1>. QED
  BY <1>1, <1>5, <1>7, <1>8, <1>9 DEF Wanted

(* What is queued or missing stays so while the session is served.          *)
LEMMA Carry ==
    ASSUME Typed, BoundsInv, OrderInv, HubInv, CursorInv, LogInv, RoomInv, [Next]_vars, HubInv',
           "snapshot" \notin holes', Registered, Registered',
           NEW q \in 1 .. Len(log), q > room.since, Wanted(q)', In(q, live) \/ Missing(q),
           WriteLive => q # Head(live),
           q > session.boundary, Planned \/ (session.pc = "reset" /\ q > projected)
    PROVE  In(q, live') \/ Missing(q)'
<1>. USE DEF stream, nats, queues
<1>0. /\ ingress \in Seq(Nat) /\ live \in Seq(Nat) /\ Ordered(ingress) /\ Ordered(live)
      /\ room # NoRoom /\ hub = "up" /\ accepting /\ accepting'
  BY DEF Typed, OrderInv, HubInv
<1>1. CASE In(q, live)
  <2>1. CASE Handle
    <3>1. PICK h \in Nat : live' = Append(live, h) \/ live' = live
      BY <1>0, <2>1, HandleEffect
    <3>2. In(q, Append(live, h))
      BY <1>0, <1>1, InAppend
    <3>. QED
      BY <1>1, <3>1, <3>2
  <2>2. CASE WriteLive
    <3>1. live # << >> /\ live' = Tail(live)
      BY <2>2 DEF WriteLive
    <3>2. In(q, live')
      BY <1>0, <1>1, <2>2, <3>1, InTail
    <3>. QED
      BY <3>2
  <2>3. CASE Suspend \/ Reset \/ Hangup
    <3>1. ~Registered'
      BY <2>3, QuarantineEffect, HangupEffect, NoneFacts DEF Suspend, Reset, Registered, Planned
    <3>. QED
      BY <3>1
  <2>4. CASE Recover \/ Open
    BY <1>1, <2>4, BeginEffect DEF Recover, Open
  <2>. QED
    BY <1>1, <2>1, <2>2, <2>3, <2>4 DEF Next, Facts, Publish, Project, Disconnect, Reconnect, Overflow, Resubscribe,
       Connect, Subscribe, Capture, CaptureVisibleRooms, Request, Register, PlanBoundary, Replay, CaptureSnapshot, WriteSnapshot,
       WriteEvent, WriteCaughtUp, Unsubscribe, vars
<1>2. CASE Missing(q) /\ ~(Handle /\ ingress # << >> /\ q = Head(ingress))
  BY <1>0, <1>2, MissingStep
<1>3. CASE Handle /\ ingress # << >> /\ q = Head(ingress)
  <2>0. q \in Nat /\ Len(log) \in Nat /\ projected \in Nat /\ projected >= q
    BY <1>3 DEF Typed, Handle
  <2>1. Reaches(q)
    BY <1>0, <1>3, <2>0, ReachesWanted
  <2>2. live' = Append(live, q)
    BY <1>0, <1>3, <2>0, <2>1 DEF Handle
  <2>. QED
    BY <1>0, <2>0, <2>2, InAppend
<1>. QED
  BY <1>1, <1>2, <1>3

LEMMA CarryNew ==
    ASSUME Typed, BoundsInv, HubInv, [Next]_vars, Registered,
           NEW q \in 1 .. Len(log'), q \notin 1 .. Len(log)
    PROVE  Missing(q)'
<1>1. Len(log') = Len(log) + 1 /\ q = Len(log) + 1 /\ q \in Nat
  BY LogGrows
<1>2. hub = "up"
  BY DEF HubInv
<1>. QED
  BY <1>1, <1>2, MissingNew

LEMMA DeliveryInit == Init => DeliveryInv
BY NoneFacts DEF Init, DeliveryInv

(* A step that writes nothing to the client of a served session.            *)
LEMMA DeliveryKept ==
    ASSUME Typed, BoundsInv, OrderInv, HubInv, CursorInv, LogInv, RoomInv, DeliveryInv, [Next]_vars, HubInv', ~WriteLive,
           session'.pc = session.pc, session'.boundary = session.boundary, client' = client, catchup' = catchup,
           projected' \in Nat, projected <= projected'
    PROVE  DeliveryInv'
<1>. SUFFICES ASSUME "snapshot" \notin holes', session.pc = "reset" \/ Planned PROVE DeliveryInv'
  BY DEF DeliveryInv, Planned
<1>0. /\ "snapshot" \notin holes /\ Registered /\ Registered'
      /\ session.boundary \in Nat /\ room.since <= session.boundary /\ room.since \in Int
      /\ client.cursor \in Int /\ session.boundary <= Len(log) /\ client.cursor >= -1
      /\ Len(log) \in Nat /\ Len(log') \in Nat /\ (session.pc = "live" => session.boundary <= client.cursor)
      /\ projected \in Nat /\ (session.pc = "reset" => session.boundary <= projected)
  BY LogGrows, SessionFacts DEF Registered, Planned, CursorInv, BoundsInv
<1>1. ASSUME NEW q \in 1 .. Len(log'), q > session.boundary, Wanted(q)', session.pc = "live" => q > client.cursor,
             session.pc = "reset" => q > projected
      PROVE  In(q, live') \/ Missing(q)'
  <2>1. CASE q \notin 1 .. Len(log)
    BY <1>0, <2>1, CarryNew
  <2>2. CASE q \in 1 .. Len(log)
    <3>1. Wanted(q)
      BY <1>1, <2>2, WantedGrows
    <3>2. q > room.since
      BY <1>0, <1>1
    <3>3. In(q, live) \/ Missing(q)
      BY <1>0, <1>1, <2>2, <3>1 DEF DeliveryInv, Planned
    <3>. QED
      BY <1>0, <1>1, <2>2, <3>2, <3>3, Carry
  <2>. QED
    BY <2>1, <2>2
<1>2. ASSUME session.pc = "events", NEW q \in client.cursor + 1 .. session.boundary, Wanted(q)' PROVE q \in catchup
  <2>1. client.cursor >= 0
    BY <1>2 DEF CursorInv
  <2>2. q \in 1 .. Len(log)
    BY <1>0, <2>1
  <2>3. Wanted(q)
    BY <1>2, <2>2, WantedGrows
  <2>. QED
    BY <1>0, <1>2, <2>3 DEF DeliveryInv
<1>3. \A q \in session.boundary + 1 .. Len(log') : q \in 1 .. Len(log') /\ q > session.boundary
  BY <1>0
<1>4. session.pc = "live" =>
        \A q \in client.cursor + 1 .. Len(log') : q \in 1 .. Len(log') /\ q > session.boundary /\ q > client.cursor
  BY <1>0
<1>5. session.pc \in {"replay", "snapshot", "events"} =>
         \A q \in session.boundary + 1 .. Len(log') : Wanted(q)' => In(q, live') \/ Missing(q)'
  BY <1>1, <1>3
<1>6. session.pc = "live" =>
         \A q \in client.cursor + 1 .. Len(log') : Wanted(q)' => In(q, live') \/ Missing(q)'
  BY <1>1, <1>4
<1>7. session.pc = "reset" =>
         \A q \in projected' + 1 .. Len(log') : Wanted(q)' => In(q, live') \/ Missing(q)'
  <2>. SUFFICES ASSUME session.pc = "reset", NEW q \in projected' + 1 .. Len(log'), Wanted(q)'
                PROVE  In(q, live') \/ Missing(q)'
    OBVIOUS
  <2>1. /\ session.boundary <= projected /\ projected <= projected'
        /\ session.boundary \in Nat /\ projected \in Nat /\ projected' \in Nat /\ Len(log') \in Nat
    BY <1>0
  <2>2. q \in Int /\ projected' < q /\ q <= Len(log')
    <3>1. \A n, l \in Nat : \A i \in n + 1 .. l : i \in Int /\ n < i /\ i <= l
      OBVIOUS
    <3>. QED
      BY <2>1, <3>1
  <2>3. q \in 1 .. Len(log') /\ q > session.boundary /\ q > projected
    BY <2>1, <2>2
  <2>4. session.pc # "live"
    OBVIOUS
  <2>. QED
    BY <1>1, <2>3, <2>4
<1>. QED
  BY <1>2, <1>5, <1>6, <1>7 DEF DeliveryInv

LEMMA DeliveryNext ==
    ASSUME Typed, BoundsInv, OrderInv, HubInv, CursorInv, LogInv, RoomInv, DeliveryInv, [Next]_vars, HubInv', CursorInv'
    PROVE  DeliveryInv'
<1>. USE DEF stream, nats, queues
<1>0. /\ session.boundary \in Nat /\ room.since \in Int /\ client.cursor \in Int /\ client.cursor >= -1
      /\ session.boundary <= Len(log) /\ client.cursor <= Len(log) /\ projected \in Nat /\ projected <= Len(log)
      /\ Len(log) \in Nat /\ Len(log') \in Nat
  BY LogGrows, SessionFacts DEF BoundsInv
<1>. SUFFICES ASSUME "snapshot" \notin holes', session'.pc = "reset" \/ Planned' PROVE DeliveryInv'
  BY DEF DeliveryInv, Planned
<1>h. "snapshot" \notin holes
  BY LogGrows
<1>1. CASE /\ ~WriteLive
           /\ \/ \E fact \in Facts : Publish(fact)
              \/ Project \/ Disconnect \/ Reconnect \/ Overflow \/ Resubscribe \/ Handle \/ UNCHANGED vars \/ Unsubscribe
              \/ Recover \/ Open
  <2>1. /\ UNCHANGED <<catchup, client>> /\ session'.pc = session.pc /\ session'.boundary = session.boundary
        /\ projected' \in {projected, projected + 1}
    <3>1. CASE Handle
      BY <3>1, HandleEffect DEF OrderInv
    <3>2. CASE Recover \/ Open
      BY <3>2, BeginEffect DEF Recover, Open, Planned
    <3>3. CASE ~Handle /\ ~Recover /\ ~Open
      BY <1>1, <3>3 DEF Publish, Project, Disconnect, Reconnect, Overflow, Resubscribe, Unsubscribe, vars
    <3>. QED
      BY <3>1, <3>2, <3>3
  <2>2. projected' \in Nat /\ projected <= projected'
    BY <1>0, <2>1
  <2>. QED
    BY <1>1, <2>1, <2>2, DeliveryKept
<1>2. CASE Suspend \/ Reset \/ Hangup \/ Connect \/ Request \/ Subscribe \/ Capture \/ CaptureVisibleRooms \/ Register
  <2>1. session'.pc \in {"offline", "subscribe", "requested", "capture", "rooms", "admit", "plan"}
    BY <1>2, NoneFacts, QuarantineEffect, HangupEffect, ToEffect, SubscribeEffect, CaptureEffect, VisibleRoomsEffect,
       RegisterEffect DEF Connect, Request, Pcs, Suspend, Reset
  <2>. QED
    BY <2>1 DEF Planned
<1>c. ASSUME session.pc \in {"replay", "snapshot", "events"}, ~WriteLive,
             NEW q \in 1 .. Len(log), q > session.boundary, Wanted(q)'
      PROVE  In(q, live') \/ Missing(q)'
  <2>1. Registered /\ Registered'
    BY <1>c DEF Registered, Planned
  <2>2. Wanted(q)
    BY <1>c, WantedGrows
  <2>3. In(q, live) \/ Missing(q)
    BY <1>0, <1>h, <1>c, <2>2 DEF DeliveryInv
  <2>4. q > room.since
    BY <1>0, <1>c DEF CursorInv, Planned
  <2>. QED
    BY <1>c, <2>1, <2>3, <2>4, Carry DEF Planned
<1>3. CASE PlanBoundary
  <2>1. session'.pc = "replay" /\ session'.boundary = Len(log) /\ log' = log
    BY <1>3, PlanEffect DEF PlanBoundary
  <2>2. Len(log) + 1 .. Len(log) = {}
    BY <1>0
  <2>. QED
    BY <2>1, <2>2 DEF DeliveryInv
<1>4. CASE Replay /\ ~WriteLive
  <2>1. /\ session.pc = "replay" /\ session.boundary <= projected /\ UNCHANGED <<log, client, holes>>
        /\ session'.boundary = session.boundary /\ projected' = projected
        /\ \/ session'.pc = "reset"
           \/ /\ session'.pc = "events" /\ client.cursor # NoCursor
              /\ catchup' = {q \in client.cursor + 1 .. session.boundary : Replayed(q)}
    BY <1>0, <1>4, ReplayEffect DEF Replay
  <2>2. session'.boundary \in Nat /\ session.boundary <= session'.boundary
    BY <1>0, <2>1
  <2>3. \A q \in session'.boundary + 1 .. Len(log') : Wanted(q)' => In(q, live') \/ Missing(q)'
    <3>1. \A q \in session'.boundary + 1 .. Len(log') : q \in 1 .. Len(log) /\ q > session.boundary
      BY <1>0, <2>1, <2>2
    <3>. QED
      BY <1>4, <1>c, <2>1, <3>1
  <2>4. ASSUME session'.pc = "events", NEW q \in client.cursor + 1 .. session.boundary, Wanted(q)' PROVE q \in catchup'
    <3>1. q \in 1 .. Len(log)
      BY <1>0, <2>1, <2>4, Constants
    <3>2. Wanted(q)
      BY <2>4, <3>1, WantedGrows
    <3>3. StillMemberSince(q) => MemberAt(projected)
      <4>. SUFFICES ASSUME StillMemberSince(q) PROVE MemberAt(projected)
        OBVIOUS
      <4>1. \A k \in q + 1 .. projected : k \in q .. Len(log)
        BY <1>0, <3>1
      <4>2. MemberAt(q) /\ \A k \in q + 1 .. projected : log[k] # "leave"
        BY <4>1 DEF StillMemberSince
      <4>3. q \in Nat /\ q <= projected
        BY <1>0, <2>1, <2>4, <3>1
      <4>. QED
        BY <1>0, <4>2, <4>3, MemberForward
    <3>4. Replayed(q)
      BY <3>2, <3>3 DEF Wanted, Replayed
    <3>. QED
      BY <2>1, <2>4, <3>4
  <2>5. session'.pc = "events" => session'.boundary = session.boundary /\ client' = client
    BY <2>1
  <2>6. session'.pc = "events" => \A q \in client'.cursor + 1 .. session'.boundary : Wanted(q)' => q \in catchup'
    BY <2>4, <2>5
  <2>7. session'.pc # "live"
    BY <2>1
  <2>8. \A q \in projected' + 1 .. Len(log') : q \in session'.boundary + 1 .. Len(log')
    BY <1>0, <2>1
  <2>. QED
    BY <2>3, <2>6, <2>7, <2>8 DEF DeliveryInv
<1>8. CASE CaptureSnapshot /\ ~WriteLive
  <2>1. /\ session.pc = "reset" /\ session'.pc = "snapshot" /\ session'.boundary = projected
        /\ UNCHANGED <<log, room>>
        /\ session.boundary <= projected /\ room.since <= session.boundary
    BY <1>0, <1>8, CaptureSnapshotEffect DEF CursorInv
  <2>2. ASSUME NEW q \in projected + 1 .. Len(log'), Wanted(q)' PROVE In(q, live') \/ Missing(q)'
    <3>1. q \in 1 .. Len(log) /\ q > session.boundary /\ q > projected /\ q > room.since
      BY <1>0, <2>1
    <3>2. Wanted(q)
      BY <2>2, <3>1, WantedGrows
    <3>3. In(q, live) \/ Missing(q)
      BY <1>0, <1>h, <2>1, <2>2, <3>2 DEF DeliveryInv
    <3>4. Registered /\ Registered'
      BY <2>1 DEF Registered, Planned
    <3>. QED
      BY <1>8, <2>1, <2>2, <3>1, <3>3, <3>4, Carry
  <2>. QED
    BY <2>1, <2>2 DEF DeliveryInv
<1>5. CASE (WriteSnapshot \/ WriteCaughtUp) /\ ~WriteLive
  <2>1. /\ session.pc \in {"snapshot", "events"} /\ session'.pc = "live" /\ log' = log
        /\ client'.cursor = session.boundary
    BY <1>5, WriteSnapshotEffect, WriteCaughtUpEffect DEF WriteSnapshot, WriteCaughtUp, SamePlan
  <2>2. \A q \in client'.cursor + 1 .. Len(log') : Wanted(q)' => In(q, live') \/ Missing(q)'
    <3>1. \A q \in client'.cursor + 1 .. Len(log') : q \in 1 .. Len(log) /\ q > session.boundary
      BY <1>0, <2>1
    <3>. QED
      BY <1>5, <1>c, <2>1, <3>1
  <2>. QED
    BY <2>1, <2>2 DEF DeliveryInv
<1>6. CASE WriteEvent /\ ~WriteLive
  <2>1. PICK e \in catchup : /\ e \in 1 .. Len(log) /\ \A k \in catchup : e <= k
                             /\ catchup' = catchup \ {e} /\ Event(e)
    BY <1>6, WriteEventEffect
  <2>2. /\ session.pc = "events" /\ session' = session /\ log' = log
        /\ client'.cursor = e /\ client.cursor < e /\ client.cursor >= 0
    BY <1>6, <2>1, WriteEventEffect, EventEffect DEF CursorInv
  <2>3. \A q \in session'.boundary + 1 .. Len(log') : Wanted(q)' => In(q, live') \/ Missing(q)'
    <3>1. \A q \in session'.boundary + 1 .. Len(log') : q \in 1 .. Len(log) /\ q > session.boundary
      BY <1>0, <2>2
    <3>. QED
      BY <1>6, <1>c, <2>2, <3>1
  <2>4. \A q \in client'.cursor + 1 .. session'.boundary : Wanted(q)' => q \in catchup'
    <3>. SUFFICES ASSUME NEW q \in e + 1 .. session.boundary, Wanted(q)' PROVE q \in catchup \ {e}
      BY <2>1, <2>2
    <3>1. q \in 1 .. Len(log) /\ q # e /\ q \in client.cursor + 1 .. session.boundary
      BY <1>0, <2>1, <2>2
    <3>2. Wanted(q)
      BY <3>1, WantedGrows
    <3>. QED
      BY <1>h, <2>2, <3>1, <3>2 DEF DeliveryInv
  <2>. QED
    BY <2>2, <2>3, <2>4 DEF DeliveryInv
<1>7. CASE WriteLive
  <2>1. /\ session.pc = "live" /\ session' = session /\ live # << >> /\ live' = Tail(live)
        /\ Head(live) \in 1 .. Len(log) /\ log' = log
        /\ IF Head(live) <= session.boundary THEN client' = client ELSE Event(Head(live))
        /\ session.boundary <= client.cursor
    BY <1>7, WriteLiveEffect DEF OrderInv, CursorInv
  <2>2. /\ client.cursor <= client'.cursor /\ client'.cursor \in Int
        /\ \A q \in client'.cursor + 1 .. Len(log) : q # Head(live)
    <3>1. Head(live) > session.boundary => Head(live) > client.cursor
      BY <2>1, WriteLiveEffect, <1>7 DEF CursorInv, OrderInv
    <3>2. CASE Head(live) <= session.boundary
      <4>1. client'.cursor = client.cursor
        BY <2>1, <3>2
      <4>. QED
        BY <1>0, <2>1, <3>2, <4>1
    <3>3. CASE ~(Head(live) <= session.boundary)
      <4>1. client'.cursor = Head(live)
        BY <2>1, <3>3, EventEffect
      <4>. QED
        BY <1>0, <2>1, <3>1, <3>3, <4>1
    <3>. QED
      BY <1>0, <2>1, <3>2, <3>3
  <2>3. ASSUME NEW q \in client'.cursor + 1 .. Len(log), Wanted(q)' PROVE In(q, live') \/ Missing(q)'
    <3>1. /\ q \in client.cursor + 1 .. Len(log) /\ q \in 1 .. Len(log) /\ q # Head(live) /\ q > room.since
          /\ q > session.boundary
      <4>1. room.since <= session.boundary /\ session.boundary <= client.cursor
        BY <2>1 DEF CursorInv, Planned
      <4>2. client.cursor \in Int /\ Len(log) \in Nat /\ session.boundary \in Nat /\ room.since \in Int
        BY <1>0
      <4>3. client.cursor <= client'.cursor /\ client'.cursor \in Int /\ q # Head(live)
        BY <2>2, <2>3
      <4>4. q \in Int /\ client'.cursor < q /\ q <= Len(log)
        BY <4>2, <4>3
      <4>5. client.cursor < q /\ room.since < q /\ session.boundary < q /\ 0 < q
        BY <4>1, <4>2, <4>3, <4>4
      <4>6. q \in client.cursor + 1 .. Len(log) /\ q \in 1 .. Len(log)
        BY <4>2, <4>4, <4>5
      <4>. QED
        BY <4>3, <4>5, <4>6
    <3>2. Wanted(q)
      BY <2>3, <3>1, WantedGrows
    <3>3. In(q, live) \/ Missing(q)
      BY <1>h, <2>1, <3>1, <3>2 DEF DeliveryInv
    <3>4. Registered /\ Registered' /\ Planned
      BY <2>1 DEF Registered, Planned
    <3>. QED
      BY <2>3, <3>1, <3>3, <3>4, Carry
  <2>. QED
    BY <2>1, <2>3 DEF DeliveryInv
<1>. QED
  BY <1>1, <1>2, <1>3, <1>4, <1>5, <1>6, <1>7, <1>8 DEF Next, Facts

----------------------------------------------------------------------------
(* What the client has.                                                     *)

(* The client skips nothing that it must not miss: its cursor passes from   *)
(* one position to a later one.                                             *)
Skips(c, e) == \A q \in 1 .. Len(log) : c < q /\ q < e => ~Wanted(q)

LEMMA ClientStep ==
    ASSUME Typed, BoundsInv, OrderInv, CursorInv, DeliveryInv, [Next]_vars, client' # client, "snapshot" \notin holes
    PROVE  /\ log' = log /\ holes' = holes
           /\ \/ /\ client'.floor = client'.cursor /\ client'.cursor \in 0 .. Len(log)
                 /\ client'.member = MemberAt(client'.cursor)
              \/ /\ client'.cursor \in 0 .. Len(log) /\ client.cursor >= 0 /\ client.cursor <= client'.cursor
                 /\ client'.posts = client.posts /\ client'.floor = client.floor /\ client'.member = client.member
                 /\ Skips(client.cursor, client'.cursor + 1)
              \/ \E e \in 1 .. Len(log) :
                    /\ Event(e) /\ client.cursor >= 0 /\ client.cursor < e /\ Skips(client.cursor, e)
<1>. USE DEF stream, nats, queues
<1>0. /\ session.boundary \in Nat /\ client.cursor \in Int /\ client.cursor >= -1
      /\ session.boundary <= Len(log) /\ client.cursor <= Len(log) /\ Len(log) \in Nat
  BY SessionFacts DEF BoundsInv
<1>1. CASE WriteSnapshot
  BY <1>0, <1>1, WriteSnapshotEffect DEF WriteSnapshot
<1>2. CASE WriteCaughtUp
  <2>1. /\ session.pc = "events" /\ catchup = {} /\ client'.cursor = session.boundary /\ log' = log /\ holes' = holes
        /\ client'.posts = client.posts /\ client'.floor = client.floor /\ client'.member = client.member
        /\ client.cursor >= 0 /\ client.cursor <= session.boundary
    BY <1>2, WriteCaughtUpEffect DEF WriteCaughtUp, CursorInv
  <2>2. Skips(client.cursor, client'.cursor + 1)
    <3>. SUFFICES ASSUME NEW q \in 1 .. Len(log), client.cursor < q, q < session.boundary + 1, Wanted(q) PROVE FALSE
      BY <2>1 DEF Skips
    <3>1. q \in client.cursor + 1 .. session.boundary
      BY <1>0
    <3>. QED
      BY <2>1, <3>1 DEF DeliveryInv
  <2>. QED
    BY <1>0, <2>1, <2>2
<1>3. CASE WriteEvent
  <2>1. PICK e \in catchup : /\ e \in 1 .. Len(log) /\ Event(e) /\ \A k \in catchup : e <= k
    BY <1>3, WriteEventEffect
  <2>2. session.pc = "events" /\ log' = log /\ holes' = holes
        /\ client.cursor < e /\ client.cursor >= 0 /\ e <= session.boundary
    BY <1>3, <2>1 DEF CursorInv, WriteEvent
  <2>3. Skips(client.cursor, e)
    <3>. SUFFICES ASSUME NEW q \in 1 .. Len(log), client.cursor < q, q < e, Wanted(q) PROVE FALSE
      BY DEF Skips
    <3>1. q \in client.cursor + 1 .. session.boundary
      BY <1>0, <2>1, <2>2
    <3>2. q \in catchup
      BY <2>2, <3>1 DEF DeliveryInv
    <3>3. e <= q
      BY <2>1, <3>2
    <3>. QED
      BY <2>1, <3>3
  <2>. QED
    BY <2>1, <2>2, <2>3
<1>4. CASE WriteLive
  <2>1. /\ session.pc = "live" /\ log' = log /\ holes' = holes /\ live # << >>
        /\ Head(live) \in 1 .. Len(log) /\ In(Head(live), live)
        /\ IF Head(live) <= session.boundary THEN client' = client ELSE Event(Head(live))
    BY <1>4, WriteLiveEffect DEF OrderInv
  <2>2. PICK e \in 1 .. Len(log) : e = Head(live) /\ Event(e) /\ e > session.boundary
    <3>1. ~(Head(live) <= session.boundary)
      BY <2>1
    <3>2. Head(live) > session.boundary
      BY <1>0, <2>1, <3>1
    <3>. QED
      BY <2>1, <3>1, <3>2
  <2>3. client.cursor < e /\ client.cursor >= 0
    BY <1>0, <2>1, <2>2 DEF CursorInv
  <2>4. Skips(client.cursor, e)
    <3>. SUFFICES ASSUME NEW q \in 1 .. Len(log), client.cursor < q, q < e, Wanted(q) PROVE FALSE
      BY DEF Skips
    <3>1. q \in client.cursor + 1 .. Len(log)
      BY <1>0
    <3>2. In(q, live) \/ Missing(q)
      BY <2>1, <3>1 DEF DeliveryInv
    <3>3. live \in Seq(Nat) /\ Ordered(live)
      BY DEF Typed, OrderInv
    <3>4. CASE In(q, live)
      <4>1. e <= q
        BY <2>1, <2>2, <3>3, <3>4, InTail
      <4>. QED
        BY <4>1
    <3>5. CASE In(q, ingress) \/ Behind(q)
      <4>1. e < q
        BY <2>1, <2>2, <3>5 DEF OrderInv, Behind
      <4>. QED
        BY <4>1
    <3>. QED
      BY <3>2, <3>4, <3>5 DEF Missing
  <2>. QED
    BY <2>1, <2>2, <2>3, <2>4
<1>5. CASE \/ \E fact \in Facts : Publish(fact)
           \/ Project \/ Disconnect \/ Suspend \/ Reconnect \/ Recover
           \/ Overflow \/ Reset \/ Resubscribe \/ Open \/ Handle
           \/ Connect \/ Subscribe \/ Capture \/ CaptureVisibleRooms \/ Request \/ Register
           \/ PlanBoundary \/ Replay \/ CaptureSnapshot \/ Hangup \/ Unsubscribe \/ UNCHANGED vars
  BY <1>5 DEF Publish, Project, Disconnect, Suspend, Reconnect, Recover, Overflow, Reset, Resubscribe, Open, Handle,
     Connect, Subscribe, Capture, CaptureVisibleRooms, Request, Register, PlanBoundary, Replay, CaptureSnapshot, Hangup, Unsubscribe, vars
<1>. QED
  BY <1>1, <1>2, <1>3, <1>4, <1>5 DEF Next, Facts

(* Over what is skipped, membership is what it was.                         *)
LEMMA MembershipSkips ==
    ASSUME Typed, holes = {}, NEW c \in 0 .. Len(log), NEW e \in 0 .. Len(log), c <= e,
           \A q \in 1 .. Len(log) : c < q /\ q <= e /\ ChangesVisibility(q) => ~Wanted(q)
    PROVE  /\ MemberAt(c) => MemberAt(e)
           /\ MemberAt(e) /\ StillMemberSince(e) => MemberAt(c) /\ StillMemberSince(c)
<1>0. Len(log) \in Nat /\ c \in Nat /\ e \in Nat
  BY DEF Typed
<1>1. \A q \in c + 1 .. e : q \in 1 .. Len(log) /\ log[q] # "leave"
  BY <1>0 DEF ChangesVisibility, Wanted
<1>2. MemberAt(c) => MemberAt(e)
  BY <1>0, <1>1, MemberForward
<1>3. ASSUME MemberAt(e), StillMemberSince(e) PROVE MemberAt(c) /\ StillMemberSince(c)
  <2>1. \A k \in e .. Len(log) : log[k] # "leave"
    BY <1>3 DEF StillMemberSince
  <2>2. \A k \in c + 1 .. Len(log) : log[k] # "leave"
    BY <1>0, <1>1, <2>1
  <2>3. MemberAt(c)
    <3>1. ASSUME NEW q \in c + 1 .. e, log[q] = "join" PROVE FALSE
      <4>1. q \in Nat /\ q # 0 /\ q \in 1 .. Len(log) /\ c < q /\ q <= e
        BY <1>0, <3>1
      <4>2. MemberAt(q)
        BY <3>1, <4>1, MemberJoin
      <4>3. \A k \in q .. Len(log) : log[k] # "leave"
        BY <1>0, <2>2, <4>1
      <4>. QED
        BY <3>1, <4>1, <4>2, <4>3 DEF Wanted, StillMemberSince, ChangesVisibility
    <3>. QED
      BY <1>0, <1>3, <3>1, MemberBack
  <2>4. log[c] # "leave"
    BY <1>0, <2>3, MemberLeave
  <2>5. \A k \in c .. Len(log) : k = c \/ k \in c + 1 .. Len(log)
    BY <1>0
  <2>. QED
    BY <2>2, <2>3, <2>4, <2>5 DEF StillMemberSince
<1>. QED
  BY <1>2, <1>3

LEMMA CompleteNext ==
    ASSUME Typed, BoundsInv, OrderInv, CursorInv, DeliveryInv, CursorCoversPosts, [Next]_vars PROVE CursorCoversPosts'
<1>. SUFFICES ASSUME "snapshot" \notin holes' PROVE Complete'
  BY DEF CursorCoversPosts
<1>0. /\ "snapshot" \notin holes /\ Complete /\ client.cursor \in Int /\ client.cursor <= Len(log) /\ Len(log) \in Nat
  BY LogGrows, SessionFacts DEF CursorCoversPosts, BoundsInv
<1>1. CASE client' = client
  <2>. SUFFICES ASSUME NEW q \in 1 .. client.cursor, log'[q] = "post", StillMemberSince(q)'
                PROVE  q \in client.posts \/ q <= client.floor
    BY <1>1 DEF Complete
  <2>1. q \in 1 .. Len(log) /\ q \in 0 .. Len(log)
    BY <1>0
  <2>2. log[q] = "post" /\ StillMemberSince(q)
    BY <2>1, LogGrows, StillGrows
  <2>. QED
    BY <1>0, <2>2 DEF Complete
<1>2. CASE client' # client
  <2>1. log' = log
    BY <1>0, <1>2, ClientStep
  <2>s. \A q : StillMemberSince(q)' = StillMemberSince(q)
    BY <2>1 DEF StillMemberSince, MemberAt
  <2>2. CASE client'.floor = client'.cursor /\ client'.cursor \in 0 .. Len(log)
    BY <2>2 DEF Complete
  <2>3. CASE /\ client'.cursor \in 0 .. Len(log) /\ client.cursor >= 0 /\ client.cursor <= client'.cursor
             /\ client'.posts = client.posts /\ client'.floor = client.floor
             /\ Skips(client.cursor, client'.cursor + 1)
    <3>. SUFFICES ASSUME NEW q \in 1 .. client'.cursor, log[q] = "post", StillMemberSince(q)
                  PROVE  q \in client.posts \/ q <= client.floor
      BY <2>1, <2>3, <2>s DEF Complete
    <3>1. CASE q <= client.cursor
      BY <1>0, <3>1 DEF Complete
    <3>2. CASE q > client.cursor
      <4>1. q \in 1 .. Len(log) /\ client.cursor < q /\ q < client'.cursor + 1
        BY <1>0, <2>3, <3>2
      <4>2. ~Wanted(q)
        BY <2>3, <4>1 DEF Skips
      <4>. QED
        BY <4>2 DEF Wanted
    <3>. QED
      BY <1>0, <3>1, <3>2
  <2>4. ASSUME NEW e \in 1 .. Len(log), Event(e), client.cursor >= 0, client.cursor < e, Skips(client.cursor, e)
        PROVE  Complete'
    <3>1. /\ client'.cursor = e /\ client'.floor = client.floor
          /\ client'.posts = IF log[e] = "post" THEN client.posts \cup {e} ELSE client.posts
      BY <2>4, EventEffect
    <3>. SUFFICES ASSUME NEW q \in 1 .. e, log[q] = "post", StillMemberSince(q)
                  PROVE  q \in client'.posts \/ q <= client.floor
      BY <2>1, <2>s, <3>1 DEF Complete
    <3>2. CASE q <= client.cursor
      <4>1. q \in client.posts \/ q <= client.floor
        BY <1>0, <3>2 DEF Complete
      <4>. QED
        BY <3>1, <4>1
    <3>3. CASE q > client.cursor /\ q # e
      <4>1. q \in 1 .. Len(log) /\ client.cursor < q /\ q < e
        BY <1>0, <3>3
      <4>2. ~Wanted(q)
        BY <2>4, <4>1 DEF Skips
      <4>. QED
        BY <4>2 DEF Wanted
    <3>4. CASE q = e
      BY <3>1, <3>4
    <3>. QED
      BY <1>0, <3>2, <3>3, <3>4
  <2>. QED
    BY <1>0, <1>2, <2>2, <2>3, <2>4, ClientStep
<1>. QED
  BY <1>1, <1>2

LEMMA MembershipStep ==
    ASSUME NEW c \in Int, client'.cursor = c,
           client'.member => MemberAt(c)', MemberAt(c)' /\ StillMemberSince(c)' => client'.member
    PROVE  MembershipTrue'
BY DEF MembershipTrue, MemberAt, StillMemberSince

LEMMA MembershipNext ==
    ASSUME Typed, BoundsInv, OrderInv, CursorInv, DeliveryInv, MembershipTrue, [Next]_vars PROVE MembershipTrue'
<1>. SUFFICES ASSUME holes' = {}, client'.cursor # NoCursor PROVE MembershipTrue'
  BY DEF MembershipTrue
<1>0. /\ holes = {} /\ client.cursor \in Int /\ client.cursor <= Len(log) /\ Len(log) \in Nat /\ client.cursor >= -1
      /\ client.member \in BOOLEAN /\ NoCursor = -1
  BY LogGrows, SessionFacts, Constants DEF BoundsInv
<1>1. ASSUME client.cursor # NoCursor, NEW c \in 0 .. Len(log), c = client.cursor
      PROVE  (client.member => MemberAt(c)) /\ (MemberAt(c) /\ StillMemberSince(c) => client.member)
  BY <1>0, <1>1 DEF MembershipTrue
<1>2. CASE client' = client
  <2>1. PICK c \in 0 .. Len(log) : c = client.cursor
    BY <1>0, <1>2
  <2>2. MemberAt(c)' = MemberAt(c) /\ (StillMemberSince(c)' => StillMemberSince(c))
    BY LogGrows, MemberStays, StillGrows
  <2>3. (client'.member => MemberAt(c)') /\ (MemberAt(c)' /\ StillMemberSince(c)' => client'.member)
    BY <1>1, <1>2, <2>1, <2>2
  <2>4. client'.cursor = c /\ c \in Int
    BY <1>2, <2>1
  <2>. QED
    BY <2>3, <2>4, MembershipStep
<1>3. CASE client' # client
  <2>1. log' = log
    BY <1>0, <1>3, ClientStep
  <2>s. \A q : MemberAt(q)' = MemberAt(q) /\ StillMemberSince(q)' = StillMemberSince(q)
    BY <2>1 DEF StillMemberSince, MemberAt
  <2>2. CASE client'.cursor \in 0 .. Len(log) /\ client'.member = MemberAt(client'.cursor)
    <3>1. PICK e \in 0 .. Len(log) : e = client'.cursor
      BY <2>2
    <3>2. client'.member = MemberAt(e) /\ e \in Int /\ client'.cursor = e
      BY <2>2, <3>1
    <3>. QED
      BY <2>s, <3>2, MembershipStep
  <2>3. ASSUME NEW e \in 0 .. Len(log), client'.cursor = e, client.cursor >= 0, client.cursor <= e,
               client'.member = client.member,
               \A q \in 1 .. Len(log) : client.cursor < q /\ q <= e /\ ChangesVisibility(q) => ~Wanted(q)
        PROVE  MembershipTrue'
    <3>1. PICK c \in 0 .. Len(log) : c = client.cursor
      BY <1>0, <2>3
    <3>2. /\ MemberAt(c) => MemberAt(e)
          /\ MemberAt(e) /\ StillMemberSince(e) => MemberAt(c) /\ StillMemberSince(c)
      BY <1>0, <2>3, <3>1, MembershipSkips
    <3>3. client.cursor # NoCursor
      BY <1>0, <2>3
    <3>4. (client'.member => MemberAt(e)) /\ (MemberAt(e) /\ StillMemberSince(e) => client'.member)
      BY <1>1, <2>3, <3>1, <3>2, <3>3
    <3>5. e \in Int
      OBVIOUS
    <3>. QED
      BY <2>3, <2>s, <3>4, <3>5, MembershipStep
  <2>4. CASE /\ client'.cursor \in 0 .. Len(log) /\ client.cursor >= 0 /\ client.cursor <= client'.cursor
             /\ client'.member = client.member
             /\ Skips(client.cursor, client'.cursor + 1)
    <3>1. PICK e \in 0 .. Len(log) : e = client'.cursor
      BY <2>4
    <3>2. \A q \in 1 .. Len(log) : client.cursor < q /\ q <= e => ~Wanted(q)
      BY <1>0, <2>4, <3>1 DEF Skips
    <3>. QED
      BY <2>3, <2>4, <3>1, <3>2
  <2>5. ASSUME NEW e \in 1 .. Len(log), Event(e), client.cursor >= 0, client.cursor < e, Skips(client.cursor, e)
        PROVE  MembershipTrue'
    <3>1. /\ client'.cursor = e
          /\ client'.member = IF ChangesVisibility(e) THEN log[e] = "join" ELSE client.member
      BY <2>5, EventEffect
    <3>2. e \in Nat /\ e # 0 /\ e \in Int /\ e \in 0 .. Len(log)
      BY <1>0
    <3>3. CASE ChangesVisibility(e)
      <4>1. log[e] = "join" => MemberAt(e)
        BY <3>2, MemberJoin
      <4>2. log[e] = "leave" => ~MemberAt(e)
        BY <3>2, MemberLeave
      <4>. QED
        BY <2>s, <3>1, <3>2, <3>3, <4>1, <4>2, MembershipStep DEF ChangesVisibility
    <3>4. CASE ~ChangesVisibility(e)
      <4>1. \A q \in 1 .. Len(log) : client.cursor < q /\ q <= e /\ ChangesVisibility(q) => ~Wanted(q)
        BY <2>5, <3>2, <3>4 DEF Skips
      <4>2. client.cursor <= e /\ client'.member = client.member
        BY <1>0, <2>5, <3>1, <3>2, <3>4
      <4>. QED
        BY <2>3, <2>5, <3>1, <3>2, <4>1, <4>2
    <3>. QED
      BY <3>3, <3>4
  <2>. QED
    BY <1>0, <1>3, <2>2, <2>4, <2>5, ClientStep
<1>. QED
  BY <1>2, <1>3

LEMMA ClientInit == Init => CursorCoversPosts /\ MembershipTrue
<1>. SUFFICES ASSUME Init PROVE CursorCoversPosts /\ MembershipTrue
  OBVIOUS
<1>1. client.cursor = -1 /\ NoCursor = -1
  BY Constants DEF Init
<1>2. 1 .. -1 = {}
  OBVIOUS
<1>. QED
  BY <1>1, <1>2 DEF CursorCoversPosts, Complete, MembershipTrue

----------------------------------------------------------------------------
(* The inductive invariant, and what follows from it.                       *)

LEMMA InitInv == Init => Inv
BY BaseInit, HubInit, CursorInit, LogInit, SnapshotInit, RoomInit, DeliveryInit, ClientInit DEF Inv

LEMMA InvNext == Inv /\ [Next]_vars => Inv'
<1>. SUFFICES ASSUME Inv, [Next]_vars PROVE Inv'
  OBVIOUS
<1>1. /\ Typed /\ BoundsInv /\ OrderInv /\ HubInv /\ CursorInv /\ LogInv
      /\ SnapshotInv /\ RoomInv /\ DeliveryInv /\ CursorCoversPosts /\ MembershipTrue
  BY DEF Inv
<1>2. Typed'
  BY <1>1, TypedNext
<1>3. BoundsInv' /\ OrderInv'
  BY <1>1, <1>2, BoundsNext, QueuesStep
<1>4. HubInv'
  BY <1>1, <1>2, HubNext
<1>5. CursorInv' /\ LogInv'
  BY <1>1, <1>2, <1>3, CursorNext, LogNext
<1>6. SnapshotInv' /\ RoomInv'
  BY <1>1, <1>4, SnapshotNext, RoomNext
<1>7. DeliveryInv'
  BY <1>1, <1>4, <1>5, DeliveryNext
<1>8. CursorCoversPosts' /\ MembershipTrue'
  BY <1>1, CompleteNext, MembershipNext
<1>. QED
  BY <1>2, <1>3, <1>4, <1>5, <1>6, <1>7, <1>8 DEF Inv

(* Typed bounds by the length of the stream what TypeOK bounds by it.       *)
LEMMA InvTypeOK == Inv => TypeOK
<1>. SUFFICES ASSUME Inv PROVE TypeOK
  OBVIOUS
<1>1. Typed /\ BoundsInv /\ HubInv
  BY DEF Inv
<1>2. /\ log \in Seq({"join", "leave", "post", "other"}) /\ Len(log) <= MaxSeq /\ Len(log) \in Nat
      /\ {linked, noticed, lossy, accepting, lingering} \subseteq BOOLEAN
      /\ recovery \in {Recovered} \cup 0 .. MaxSeq /\ hub \in {"up", "down", "opening"}
      /\ holes \subseteq {"snapshot", "leave"} /\ gaps \in 0 .. MaxGaps
  BY <1>1, Constants DEF Typed, Facts
<1>3. projected \in Positions /\ session.boundary \in Positions /\ client.cursor \in {NoCursor} \cup Positions
  BY <1>1, SessionFacts, Constants DEF BoundsInv, Positions
<1>4. session.pc \in {"offline", "subscribe", "capture", "rooms", "admit", "requested",
                       "plan", "replay", "reset", "snapshot", "events", "live"}
  BY <1>1, SessionFacts DEF Pcs
<1>5. catchup \subseteq 1 .. Len(log) /\ client.posts \subseteq 1 .. Len(log)
  BY <1>1 DEF BoundsInv
<1>6. room \in [member : BOOLEAN, visible : BOOLEAN, since : {-1} \cup Positions]
  <2>1. room \in Rooms /\ room.since \in {-1} \cup Positions
    BY <1>1, SessionFacts DEF BoundsInv, Positions
  <2>. QED
    BY <2>1 DEF Rooms
<1>7. ASSUME NEW s \in Seq(Nat), \A q : In(q, s) => q \in 1 .. Len(log) PROVE s \in Seq(1 .. Len(log))
  <2>1. \A i \in 1 .. Len(s) : s[i] \in 1 .. Len(log)
    BY <1>7 DEF In
  <2>. QED
    BY <2>1
<1>8. ingress \in Seq(1 .. Len(log)) /\ live \in Seq(1 .. Len(log))
  BY <1>1, <1>7 DEF Typed, BoundsInv
<1>9. (room # NoRoom) <=> (Registered \/ lingering)
  BY <1>1 DEF HubInv
<1>. QED
  BY <1>2, <1>3, <1>4, <1>5, <1>6, <1>8, <1>9 DEF TypeOK

LEMMA Invariance == Spec => []Inv
<1>1. Init => Inv
  BY InitInv
<1>2. Inv /\ [Next]_vars => Inv'
  BY InvNext
<1>. QED
  BY <1>1, <1>2, PTL DEF Spec

(* Every variable keeps its type. A user has a visibility state exactly as  *)
(* long as a session that handleRegistration admitted or an abandoned       *)
(* subscription (removeSubscriberLocked).                                   *)
THEOREM TypeCorrect == Spec => []TypeOK
<1>1. Inv => TypeOK
  BY InvTypeOK
<1>. QED
  BY <1>1, Invariance, PTL

(* Over any number of lost connections, resets of the hub and reconnects, a *)
(* client that resumes after its cursor misses no post of the room it is    *)
(* still in, as long as no session was admitted with a snapshot of an       *)
(* earlier generation that a change of membership had overtaken             *)
(* (quarantine, handleRegistration, PlanRealtimeReplay, the write loop).    *)
THEOREM ResumeLosesNothing == Spec => []CursorCoversPosts
<1>1. Inv => CursorCoversPosts
  BY DEF Inv
<1>. QED
  BY <1>1, Invariance, PTL

(* What the client has been told of its membership is true at its cursor:   *)
(* neither PlanRealtimeReplay nor fanoutReadyRoomEvent skips a change of it,*)
(* but for the leave that the hub handles too late (hole "leave").          *)
THEOREM MembershipIsTrue == Spec => []MembershipTrue
<1>1. Inv => MembershipTrue
  BY DEF Inv
<1>. QED
  BY <1>1, Invariance, PTL

(* At the hand-over from the replay to the live queue no event is written a *)
(* second time: what the boundary covers is discarded, and what lies behind *)
(* it is in the order of the stream.                                        *)
THEOREM CursorOnlyAdvances == Spec => CursorNeverRegresses
<1>1. Inv /\ [Next]_vars => [client'.cursor >= client.cursor]_client
  BY CursorStep DEF Inv
<1>. QED
  BY <1>1, Invariance, PTL DEF Spec, CursorNeverRegresses
=============================================================================
