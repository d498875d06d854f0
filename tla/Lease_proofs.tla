---------------------------- MODULE Lease_proofs ----------------------------
(***************************************************************************)
(* Proofs about Lease, for every set of owners, every supply of revisions   *)
(* and all durations that the assumptions allow.                            *)
(***************************************************************************)
EXTENDS Lease, TLAPS

Entries == [owner : Owners \cup {NoOne}, rev : Revisions \cup {NoRevision}, left : 0 .. TTL]

(* o has written a record at a revision that nothing refers to.             *)
Puts(o) ==
    /\ entry' \in Entries
    /\ entry'.owner = o /\ entry'.left = TTL
    /\ entry'.rev \in Revisions \ Referenced

Deletes == entry' = NoEntry

----------------------------------------------------------------------------
LEMMA Durations ==
    /\ TTL \in Nat \ {0} /\ RenewEvery \in Nat \ {0} /\ RetryEvery \in Nat \ {0}
    /\ RequestTimeout \in Nat \ {0} /\ StopBound \in Nat \ {0} /\ WorkBound \in Nat \ {0}
    /\ MaxFaults \in Nat /\ MaxCrashes \in Nat
    /\ RenewEvery + 3 * RequestTimeout + StopBound < TTL
    /\ RequestTimeout + WorkBound < TTL
BY LeaseAssumption, ExclusionAssumption

(* Every write leaves the record alone, replaces it or removes it.          *)
LEMMA EffectCases ==
    ASSUME NEW op, NEW o \in Owners, NEW rev, Effect(op, o, rev)
    PROVE  \/ ~Accepted(op, rev) /\ entry' = entry
           \/ Accepted(op, rev) /\ op = "releaseDelete" /\ Deletes
           \/ Accepted(op, rev) /\ op # "releaseDelete" /\ Puts(o)
<1>1. Fresh \in Revisions \ Referenced
  <2>1. \E r \in Revisions : r \notin Referenced
    BY DEF Effect, RevisionLeft
  <2>. QED
    BY <2>1, Zenon DEF Fresh
<1>2. Record(o) \in Entries /\ Record(o).owner = o /\ Record(o).left = TTL /\ Record(o).rev = Fresh
  <2>1. TTL \in 0 .. TTL /\ Fresh \in Revisions \cup {NoRevision} /\ o \in Owners \cup {NoOne}
    BY <1>1, Durations
  <2>. QED
    BY <2>1 DEF Record, Entries
<1>3. CASE ~Accepted(op, rev)
  BY <1>3 DEF Effect
<1>4. CASE Accepted(op, rev) /\ op = "releaseDelete"
  BY <1>4 DEF Effect, Deletes
<1>5. CASE Accepted(op, rev) /\ op # "releaseDelete"
  <2>1. entry' = Record(o)
    BY <1>5 DEF Effect
  <2>. QED
    BY <1>1, <1>2, <1>5, <2>1 DEF Puts
<1>. QED
  BY <1>3, <1>4, <1>5

LEMMA TypeInit == Init => TypeOK
BY Durations DEF Init, TypeOK, NoEntry, Places

(* The places that Goto and Leave are used with.                            *)
LEMMA LeaveTypes ==
    ASSUME TypeOK, NEW o \in Owners, NEW place \in Places, Leave(o, place)
    PROVE  /\ pc' \in [Owners -> Places] /\ wait' \in [Owners -> Nat]
           /\ answer' \in [Owners -> {"none", "yes", "no"}]
           /\ read' \in [Owners -> Revisions \cup {NoRevision}]
           /\ tick' \in [Owners -> 0 .. RenewEvery]
           /\ due' \in [Owners -> BOOLEAN] /\ ended' \in [Owners -> BOOLEAN]
           /\ working' \in [Owners -> BOOLEAN] /\ outcome' \in [Owners -> {"ok", "error", "yield"}]
<1>1. Duration(place) \in Nat
  BY Durations DEF Duration
<1>. QED
  BY <1>1, Durations DEF Leave, Goto, TypeOK

LEMMA GotoTypes ==
    ASSUME TypeOK, NEW o \in Owners, NEW place \in Places, Goto(o, place)
    PROVE  /\ pc' \in [Owners -> Places] /\ wait' \in [Owners -> Nat]
           /\ answer' \in [Owners -> {"none", "yes", "no"}]
<1>1. Duration(place) \in Nat
  BY Durations DEF Duration
<1>. QED
  BY <1>1 DEF Goto, TypeOK

OwnerTypes ==
    /\ pc \in [Owners -> Places] /\ wait \in [Owners -> Nat]
    /\ answer \in [Owners -> {"none", "yes", "no"}]
    /\ read \in [Owners -> Revisions \cup {NoRevision}]
    /\ tick \in [Owners -> 0 .. RenewEvery]
    /\ due \in [Owners -> BOOLEAN] /\ ended \in [Owners -> BOOLEAN]
    /\ working \in [Owners -> BOOLEAN] /\ outcome \in [Owners -> {"ok", "error", "yield"}]

LateRequests == [op : Writes, owner : Owners, rev : Revisions \cup {NoRevision}]

(* How the owner's steps end.                                               *)
LEMMA EndingTypes ==
    ASSUME TypeOK, NEW o \in Owners,
           \/ NotAcquired(o) \/ Cancelled(o) \/ AfterRelease(o) \/ KeepLeading(o) \/ Lead(o)
           \/ \E place \in Places : Leave(o, place)
    PROVE  OwnerTypes'
<1>1. ASSUME NEW place \in Places, Leave(o, place) PROVE OwnerTypes'
  BY <1>1, LeaveTypes DEF OwnerTypes
<1>2. CASE NotAcquired(o) \/ Cancelled(o) \/ AfterRelease(o)
  <2>1. {"sleep", "idle", "losing"} \subseteq Places
    BY DEF Places
  <2>. QED
    BY <1>1, <1>2, <2>1 DEF NotAcquired, Cancelled, AfterRelease
<1>3. CASE KeepLeading(o)
  <2>1. "lead" \in Places
    BY DEF Places
  <2>. QED
    BY <1>3, <2>1, GotoTypes DEF KeepLeading, OwnerTypes, TypeOK
<1>4. CASE Lead(o)
  <2>1. "lead" \in Places /\ "work" \in Places
    BY DEF Places
  <2>2. PICK place \in Places : Goto(o, place)
    BY <1>4, <2>1 DEF Lead
  <2>. QED
    BY <1>4, <2>2, GotoTypes, Durations DEF Lead, OwnerTypes, TypeOK
<1>. QED
  BY <1>1, <1>2, <1>3, <1>4

LEMMA TypeStep == TypeOK /\ [Next]_vars => TypeOK'
<1>. SUFFICES ASSUME TypeOK, [Next]_vars PROVE TypeOK'
  OBVIOUS
<1>0. TypeOK <=> /\ OwnerTypes /\ entry \in Entries /\ late \subseteq LateRequests
                 /\ mode \in {"run", "try", "cooldown"}
                 /\ age \in [Owners -> 0 .. TTL] /\ quiet \in 0 .. TTL
                 /\ faults \in 0 .. MaxFaults /\ crashes \in 0 .. MaxCrashes
  BY DEF TypeOK, OwnerTypes, Entries, LateRequests
<1>00. (TypeOK <=> /\ OwnerTypes /\ entry \in Entries /\ late \subseteq LateRequests
                   /\ mode \in {"run", "try", "cooldown"}
                   /\ age \in [Owners -> 0 .. TTL] /\ quiet \in 0 .. TTL
                   /\ faults \in 0 .. MaxFaults /\ crashes \in 0 .. MaxCrashes)'
  BY DEF TypeOK, OwnerTypes, Entries, LateRequests
<1>1. ASSUME NEW op, NEW o \in Owners, NEW rev, Effect(op, o, rev) PROVE entry' \in Entries
  <2>1. NoEntry \in Entries
    BY Durations DEF NoEntry, Entries
  <2>. QED
    BY <1>0, <1>1, <2>1, EffectCases DEF Puts, Deletes
<1>2. ASSUME NEW o \in Owners, Apply(o) PROVE TypeOK'
  <2>1. entry' \in Entries
    BY <1>1, <1>2 DEF Apply
  <2>2. OwnerTypes'
    BY <1>2 DEF Apply, TypeOK, OwnerTypes
  <2>3. TTL \in 0 .. TTL
    BY Durations
  <2>4. age' \in [Owners -> 0 .. TTL]
    BY <1>2, <2>3 DEF Apply, TypeOK
  <2>. QED
    BY <1>0, <1>00, <1>2, <2>1, <2>2, <2>4 DEF Apply
<1>3. ASSUME NEW r \in late, ApplyLate(r) PROVE TypeOK'
  <2>1. r.owner \in Owners
    BY DEF TypeOK
  <2>2. entry' \in Entries
    BY <1>1, <1>3, <2>1 DEF ApplyLate
  <2>. QED
    BY <1>0, <1>00, <1>3, <2>2 DEF ApplyLate, owner, history, OwnerTypes
<1>4. CASE Expire
  <2>1. NoEntry \in Entries
    BY Durations DEF NoEntry, Entries
  <2>. QED
    BY <1>0, <1>00, <1>4, <2>1 DEF Expire, owner, history, OwnerTypes
<1>5. ASSUME NEW o \in Owners,
             Call(o) \/ RenewTick(o) \/ ContextEnds(o) \/ (\E result \in Results : WorkDone(o, result))
      PROVE TypeOK'
  <2>0. "create" \in Places /\ "renewGet" \in Places
    BY DEF Places, Requests, Gets, Writes
  <2>1. CASE Call(o)
    BY <1>0, <1>00, <2>0, <2>1, GotoTypes DEF Call, OwnerTypes, history
  <2>2. CASE RenewTick(o)
    BY <1>0, <1>00, <2>0, <2>2, GotoTypes DEF RenewTick, OwnerTypes, history
  <2>3. CASE ContextEnds(o)
    BY <1>0, <1>00, <2>3, Durations DEF ContextEnds, OwnerTypes
  <2>4. ASSUME NEW result \in Results, WorkDone(o, result) PROVE TypeOK'
    <3>1. result \in {"ok", "error", "yield"}
      BY <1>0 DEF Results
    <3>. QED
      BY <1>0, <1>00, <2>4, <3>1 DEF WorkDone, OwnerTypes
  <2>. QED
    BY <1>5, <2>1, <2>2, <2>3, <2>4
<1>6. ASSUME NEW o \in Owners,
             \/ Acquired(o) \/ Refused(o) \/ Wake(o) \/ Renewed(o) \/ ContextDone(o) \/ Lost(o)
             \/ WorkReturned(o) \/ Released(o)
      PROVE TypeOK'
  <2>1. {"idle", "create", "acquireGet", "releaseGet", "stopping"} \subseteq Places
    BY DEF Places, Requests, Gets, Writes
  <2>2. OwnerTypes'
    BY <1>6, <2>1, EndingTypes
       DEF Acquired, Refused, Wake, Renewed, ContextDone, Lost, WorkReturned, Released
  <2>. QED
    BY <1>0, <1>00, <1>6, <2>2
       DEF Acquired, Refused, Wake, Renewed, ContextDone, Lost, WorkReturned, Released, history
<1>7. ASSUME NEW o \in Owners, Get(o) PROVE TypeOK'
  <2>1. OwnerTypes'
    <3>1. CASE NotMine(o)
      BY <1>7, <3>1, EndingTypes DEF Get, NotMine, Gets
    <3>2. CASE WriteRead(o)
      <4>1. {"acquireUpdate", "renewUpdate", "releaseDelete"} \subseteq Places
        BY DEF Places, Requests, Writes
      <4>. QED
        BY <1>0, <1>7, <3>2, <4>1, Durations DEF Get, WriteRead, OwnerTypes, Gets, Entries
    <3>. QED
      BY <1>7, <3>1, <3>2 DEF Get
  <2>. QED
    BY <1>0, <1>00, <1>7, <2>1 DEF Get, history
<1>8. ASSUME NEW o \in Owners, RequestError(o) PROVE TypeOK'
  <2>1. OwnerTypes'
    BY <1>8, EndingTypes DEF RequestError
  <2>2. late' \subseteq LateRequests
    BY <1>0, <1>8 DEF RequestError, LateRequests, OwnerTypes
  <2>3. faults' \in 0 .. MaxFaults
    BY <1>0, <1>8, Durations DEF RequestError
  <2>. QED
    BY <1>0, <1>00, <1>8, <2>1, <2>2, <2>3 DEF RequestError
<1>9. ASSUME NEW o \in Owners, Crash(o) PROVE TypeOK'
  <2>0. "down" \in Places /\ 0 \in 0 .. RenewEvery
    BY Durations DEF Places
  <2>1. OwnerTypes'
    BY <1>0, <1>9, <2>0, GotoTypes DEF Crash, OwnerTypes
  <2>2. late' \subseteq LateRequests
    BY <1>0, <1>9 DEF Crash, LateRequests, OwnerTypes
  <2>3. crashes' \in 0 .. MaxCrashes
    BY <1>0, <1>9, Durations DEF Crash
  <2>. QED
    BY <1>0, <1>00, <1>9, <2>1, <2>2, <2>3 DEF Crash
<1>10. CASE Tick
  <2>1. \A n \in Nat : Down(n) \in Nat /\ Down(n) <= n
    BY DEF Down
  <2>2. entry' \in Entries
    BY <1>0, <1>10, <2>1, Durations DEF Tick, Entries
  <2>3. OwnerTypes'
    BY <1>0, <1>10, <2>1, Durations DEF Tick, OwnerTypes
  <2>4. age' \in [Owners -> 0 .. TTL] /\ quiet' \in 0 .. TTL
    BY <1>0, <1>10, <2>1, Durations DEF Tick
  <2>. QED
    BY <1>0, <1>00, <1>10, <2>2, <2>3, <2>4 DEF Tick
<1>11. CASE UNCHANGED vars
  BY <1>0, <1>00, <1>11 DEF vars, owner, history, OwnerTypes
<1>. QED
  BY <1>2, <1>3, <1>4, <1>5, <1>6, <1>7, <1>8, <1>9, <1>10, <1>11 DEF Next, Step, Finish

(* Every variable keeps its type, and no record outlives its TTL.           *)
THEOREM TypeCorrect == Spec => []TypeOK
BY TypeInit, TypeStep, PTL DEF Spec

----------------------------------------------------------------------------
(* An owner holds the lease while its work runs, and from the server's      *)
(* answer to its claim until the work begins.                               *)
Claimed(o) == pc[o] \in {"create", "acquireUpdate"} /\ answer[o] = "yes"
Holds(o) == working[o] \/ Claimed(o)

(* How much longer the work may run before the next successful renewal or   *)
(* its end: the ticker, the two requests of a renewal, and the time that    *)
(* cancelled work takes.                                                    *)
Need(o) ==
    IF pc[o] = "lead" THEN (IF due[o] THEN 0 ELSE tick[o]) + 2 * RequestTimeout + StopBound
    ELSE IF pc[o] = "renewGet" THEN wait[o] + RequestTimeout + StopBound
    ELSE IF pc[o] = "renewUpdate" THEN wait[o] + StopBound
    ELSE wait[o]

(* Whoever holds the lease owns the record; work runs only where it is      *)
(* supervised.                                                              *)
HolderOwns(o) ==
    /\ Holds(o) => entry.owner = o
    /\ working[o] => pc[o] \in Leading \cup {"work", "losing", "stopping"}

(* A revision that an owner read, or that a late request of it names, is the*)
(* revision of its own record or of no record at all.                       *)
ReadsOwn(o) == entry.owner # NoOne /\ read[o] = entry.rev => entry.owner = o
LateOwn == \A r \in late : entry.owner # NoOne /\ r.rev = entry.rev => r.owner = entry.owner

(* No late delete meets the record of an owner that holds the lease.        *)
NoLateDelete(o) ==
    Holds(o) => \A r \in late : r.op = "releaseDelete" /\ r.owner = o => r.rev # entry.rev

Answered(o) == answer[o] # "none" => pc[o] \in Writes

TimersSet(o) ==
    /\ pc[o] \in Requests => wait[o] <= RequestTimeout
    /\ pc[o] \in Leading => tick[o] > 0

(* The record lives longer than the work that it protects.                  *)
InTime(o) ==
    /\ Claimed(o) \/ (pc[o] = "renewUpdate" /\ answer[o] = "yes" /\ working[o]) =>
          entry.left >= wait[o] + TTL - RequestTimeout
    /\ working[o] => entry.left > Need(o)

OwnerInv(o) == Answered(o) /\ HolderOwns(o) /\ ReadsOwn(o) /\ NoLateDelete(o) /\ TimersSet(o) /\ InTime(o)

LeaseInv ==
    /\ TypeOK
    /\ entry.owner # NoOne => entry.rev \in Revisions
    /\ LateOwn
    /\ \A o \in Owners : OwnerInv(o)

Kept(o) ==
    /\ pc'[o] = pc[o] /\ answer'[o] = answer[o] /\ read'[o] = read[o] /\ wait'[o] = wait[o]
    /\ tick'[o] = tick[o] /\ due'[o] = due[o] /\ working'[o] = working[o]
    /\ outcome'[o] = outcome[o]

(* A step abandons at most its owner's request, a delete only after the     *)
(* owner's work has ended.                                                  *)
Abandons(o) ==
    \/ late' = late
    \/ /\ late' = late \cup {[op |-> pc[o], owner |-> o, rev |-> read[o]]}
       /\ pc[o] = "releaseDelete" => ~Holds(o)'

----------------------------------------------------------------------------
LEMMA LeaseInit == Init => LeaseInv
<1>. SUFFICES ASSUME Init PROVE LeaseInv
  OBVIOUS
<1>1. entry.owner = NoOne /\ late = {}
  BY DEF Init, NoEntry
<1>2. ASSUME NEW o \in Owners PROVE OwnerInv(o)
  <2>1. pc[o] = "idle" /\ working[o] = FALSE /\ answer[o] = "none"
    BY DEF Init
  <2>. QED
    BY <1>1, <2>1 DEF OwnerInv, Answered, HolderOwns, ReadsOwn, NoLateDelete, TimersSet, InTime, Holds, Claimed,
                      Requests, Gets, Writes, Leading
<1>. QED
  BY <1>1, <1>2, TypeInit DEF LeaseInv, LateOwn

(* A step of one owner that does not touch the record does not concern the  *)
(* others.                                                                  *)
LEMMA OthersKept ==
    ASSUME LeaseInv, NEW o \in Owners, NEW p \in Owners, p # o, entry' = entry, Abandons(o), Kept(p)
    PROVE  OwnerInv(p)'
<1>1. OwnerInv(p)
  BY DEF LeaseInv
<1>2. NoLateDelete(p)'
  BY <1>1 DEF OwnerInv, NoLateDelete, Holds, Claimed, Kept, Abandons
<1>. QED
  BY <1>1, <1>2 DEF OwnerInv, Answered, HolderOwns, ReadsOwn, TimersSet, InTime, Holds, Claimed, Need, Kept

LEMMA LateKept ==
    ASSUME LeaseInv, NEW o \in Owners, entry' = entry, Abandons(o)
    PROVE  LateOwn'
BY DEF LeaseInv, LateOwn, Abandons, OwnerInv, ReadsOwn

(* An owner without running work may go anywhere.                           *)
LEMMA LeavesIdle ==
    ASSUME LeaseInv, NEW o \in Owners, NEW place \in Places \ Leading, entry' = entry,
           Leave(o, place), ~working[o]
    PROVE  OwnerInv(o)'
<1>0. NoRevision \notin Revisions
  BY LeaseAssumption DEF NoRevision
<1>1. /\ pc'[o] = place /\ answer'[o] = "none" /\ read'[o] = NoRevision /\ working'[o] = FALSE
      /\ wait'[o] = Duration(place)
  BY DEF Leave, Goto, LeaseInv, TypeOK
<1>2. ~Holds(o)'
  BY <1>1 DEF Holds, Claimed
<1>3. place \in Requests => Duration(place) <= RequestTimeout
  BY Durations DEF Duration, Requests, Gets, Writes
<1>4. ReadsOwn(o)'
  BY <1>0, <1>1 DEF ReadsOwn, LeaseInv
<1>. QED
  BY <1>1, <1>2, <1>3, <1>4 DEF OwnerInv, Answered, HolderOwns, NoLateDelete, TimersSet, InTime, Holds

(* Work that is cancelled is over before the record expires.                *)
LEMMA LeavesWorking ==
    ASSUME LeaseInv, NEW o \in Owners, NEW place \in {"losing", "stopping"}, entry' = entry, Abandons(o),
           Leave(o, place), pc[o] \in Leading
    PROVE  OwnerInv(o)'
<1>0. /\ NoRevision \notin Revisions /\ OwnerInv(o) /\ wait[o] \in Nat /\ tick[o] \in Nat
      /\ entry.left \in Nat
  BY LeaseAssumption DEF NoRevision, LeaseInv, TypeOK
<1>1. /\ pc'[o] = place /\ answer'[o] = "none" /\ read'[o] = NoRevision /\ working'[o] = working[o]
      /\ wait'[o] = StopBound
  BY DEF Leave, Goto, LeaseInv, TypeOK, Duration, Requests, Gets, Writes
<1>2. working[o] => entry.left > StopBound
  BY <1>0, Durations DEF OwnerInv, InTime, Need, Leading
<1>3. ReadsOwn(o)'
  BY <1>0, <1>1 DEF ReadsOwn, LeaseInv
<1>4. ~Claimed(o)' /\ (Holds(o)' => Holds(o)) /\ Need(o)' = StopBound
  BY <1>1 DEF Holds, Claimed, Need
<1>5. HolderOwns(o)' /\ NoLateDelete(o)'
  BY <1>0, <1>1, <1>4 DEF OwnerInv, Answered, HolderOwns, NoLateDelete, Abandons, Leading
<1>6. TimersSet(o)' /\ InTime(o)'
  BY <1>1, <1>2, <1>4 DEF TimersSet, InTime, Requests, Gets, Writes, Leading
<1>7. Answered(o)'
  BY <1>1 DEF Answered
<1>. QED
  BY <1>3, <1>5, <1>6, <1>7 DEF OwnerInv

(* The steps of an owner that leave the record alone.                       *)
OwnStep(o) ==
    \/ Call(o) \/ Acquired(o) \/ Refused(o) \/ Wake(o) \/ RenewTick(o) \/ Renewed(o) \/ ContextDone(o)
    \/ Lost(o) \/ WorkReturned(o) \/ Released(o) \/ Get(o) \/ RequestError(o)
    \/ (\E result \in Results : WorkDone(o, result)) \/ ContextEnds(o) \/ Crash(o)

LEMMA OwnFrame ==
    ASSUME TypeOK, NEW o \in Owners, OwnStep(o)
    PROVE  entry' = entry /\ mode' = mode /\ \A p \in Owners \ {o} : Kept(p)
<1>. USE DEF TypeOK, Kept
<1>1. ASSUME NEW place, Leave(o, place) PROVE \A p \in Owners \ {o} : Kept(p)
  BY <1>1 DEF Leave, Goto
<1>2. CASE Call(o) \/ RenewTick(o) \/ ContextEnds(o) \/ Crash(o)
  BY <1>2 DEF Call, RenewTick, ContextEnds, Crash, Goto
<1>3. CASE Acquired(o)
  BY <1>3 DEF Acquired, Lead, Goto
<1>4. CASE Refused(o) \/ Wake(o) \/ ContextDone(o) \/ Lost(o) \/ WorkReturned(o) \/ Released(o)
  BY <1>1, <1>4 DEF Refused, NotAcquired, Wake, ContextDone, Lost, WorkReturned, Released, AfterRelease
<1>5. CASE Renewed(o)
  BY <1>1, <1>5 DEF Renewed, KeepLeading, Cancelled, Goto
<1>6. CASE Get(o)
  <2>1. CASE WriteRead(o)
    BY <1>6, <2>1 DEF Get, WriteRead
  <2>2. CASE NotMine(o)
    BY <1>1, <1>6, <2>2 DEF Get, NotMine, Gets, NotAcquired, Cancelled, AfterRelease
  <2>. QED
    BY <1>6, <2>1, <2>2 DEF Get
<1>7. CASE RequestError(o)
  <2>1. NotAcquired(o) \/ Cancelled(o) \/ AfterRelease(o)
    BY <1>7 DEF RequestError
  <2>. QED
    BY <1>1, <1>7, <2>1 DEF RequestError, NotAcquired, Cancelled, AfterRelease
<1>8. ASSUME NEW result \in Results, WorkDone(o, result)
      PROVE  entry' = entry /\ mode' = mode /\ \A p \in Owners \ {o} : Kept(p)
  BY <1>8 DEF WorkDone
<1>. QED
  BY <1>2, <1>3, <1>4, <1>5, <1>6, <1>7, <1>8 DEF OwnStep

(* Each of them keeps what the lease needs of the owner itself.             *)
LEMMA OwnKept ==
    ASSUME LeaseInv, NEW o \in Owners, OwnStep(o)
    PROVE  OwnerInv(o)' /\ Abandons(o)
<1>0. /\ TypeOK /\ OwnerInv(o) /\ entry' = entry /\ NoRevision \notin Revisions
      /\ wait[o] \in Nat /\ tick[o] \in Nat /\ entry.left \in Nat
  BY OwnFrame, LeaseAssumption DEF LeaseInv, TypeOK, NoRevision
<1>1. working[o] => pc[o] \in Leading \cup {"work", "losing", "stopping"}
  BY <1>0 DEF OwnerInv, Answered, HolderOwns
<1>. USE DEF Leading, Requests, Gets, Writes
<1>2. CASE Call(o)
  <2>1. /\ pc'[o] = "create" /\ answer'[o] = "none" /\ wait'[o] = RequestTimeout /\ read' = read
        /\ working'[o] = FALSE /\ late' = late
    BY <1>0, <1>1, <1>2 DEF Call, Goto, Duration, TypeOK, history
  <2>. QED
    BY <1>0, <2>1, Durations DEF Abandons, OwnerInv, Answered, HolderOwns, ReadsOwn, NoLateDelete, TimersSet, InTime,
                                 Holds, Claimed
<1>3. CASE Acquired(o)
  <2>1. /\ Claimed(o) /\ pc'[o] \in {"work", "lead"} /\ answer'[o] = "none" /\ read'[o] = NoRevision
        /\ late' = late /\ wait'[o] = (IF pc'[o] = "work" THEN WorkBound ELSE 0)
        /\ pc'[o] = "lead" => tick'[o] = RenewEvery
        /\ due'[o] = FALSE
    BY <1>0, <1>3 DEF Acquired, Claimed, Lead, Goto, Duration, TypeOK
  <2>2. entry.owner = o /\ Holds(o) /\ entry.left >= TTL - RequestTimeout
    BY <1>0, <2>1, Durations DEF OwnerInv, Answered, HolderOwns, InTime, Holds
  <2>3. entry.left > Need(o)'
    BY <1>0, <2>1, <2>2, Durations DEF Need
  <2>. QED
    BY <1>0, <2>1, <2>2, <2>3, Durations
       DEF Abandons, OwnerInv, Answered, HolderOwns, ReadsOwn, NoLateDelete, TimersSet, InTime, Holds, Claimed
<1>4. CASE Refused(o) \/ Wake(o) \/ Lost(o) \/ WorkReturned(o) \/ Released(o)
  <2>1. late' = late /\ ~working[o]
    BY <1>1, <1>4 DEF Refused, Wake, Lost, WorkReturned, WorkOver, Released, TypeOK, history
  <2>2. {"sleep", "idle", "create", "acquireGet", "releaseGet"} \subseteq Places \ Leading
    BY DEF Places
  <2>3. \E place \in Places \ Leading : Leave(o, place)
    BY <1>4, <2>2 DEF Refused, NotAcquired, Wake, Lost, WorkReturned, Released, AfterRelease
  <2>. QED
    BY <1>0, <2>1, <2>3, LeavesIdle DEF Abandons
<1>5. CASE RenewTick(o)
  <2>1. /\ pc[o] = "lead" /\ due[o] /\ pc'[o] = "renewGet" /\ answer'[o] = "none" /\ wait'[o] = RequestTimeout
        /\ read' = read /\ tick' = tick /\ working' = working /\ late' = late
    BY <1>0, <1>5 DEF RenewTick, Goto, Duration, TypeOK
  <2>2. working[o] => entry.left > 2 * RequestTimeout + StopBound
    <3>1. Need(o) = 2 * RequestTimeout + StopBound
      BY <2>1, Durations DEF Need
    <3>. QED
      BY <1>0, <3>1 DEF OwnerInv, InTime
  <2>3. working[o] => entry.left > Need(o)'
    BY <1>0, <2>1, <2>2, Durations DEF Need
  <2>. QED
    BY <1>0, <2>1, <2>3, Durations
       DEF Abandons, OwnerInv, Answered, HolderOwns, ReadsOwn, NoLateDelete, TimersSet, InTime, Holds, Claimed
<1>6. CASE Renewed(o)
  <2>1. CASE Cancelled(o)
    BY <1>0, <1>6, <2>1, LeavesWorking DEF Renewed, Cancelled, Abandons
  <2>2. CASE answer[o] = "yes" /\ KeepLeading(o)
    <3>1. /\ pc[o] = "renewUpdate" /\ pc'[o] = "lead" /\ answer'[o] = "none" /\ wait'[o] = 0
          /\ read' = read /\ tick' = tick /\ due' = due /\ working' = working /\ late' = late
      BY <1>0, <1>6, <2>2 DEF Renewed, KeepLeading, Goto, Duration, TypeOK
    <3>2. working[o] => entry.left >= TTL - RequestTimeout
      BY <1>0, <2>2, <3>1, Durations DEF OwnerInv, InTime
    <3>3. tick[o] <= RenewEvery
      BY <1>0, Durations DEF TypeOK
    <3>4. working[o] => entry.left > Need(o)'
      BY <1>0, <3>1, <3>2, <3>3, Durations DEF Need
    <3>. QED
      BY <1>0, <3>1, <3>4, Durations
         DEF Abandons, OwnerInv, Answered, HolderOwns, ReadsOwn, NoLateDelete, TimersSet, InTime, Holds, Claimed
  <2>. QED
    BY <1>6, <2>1, <2>2 DEF Renewed
<1>7. CASE ContextDone(o)
  BY <1>0, <1>7, LeavesWorking DEF ContextDone, Abandons
<1>8. CASE Get(o)
  <2>1. late' = late
    BY <1>8 DEF Get
  <2>2. CASE pc[o] = "renewGet" /\ Cancelled(o)
    BY <1>0, <2>1, <2>2, LeavesWorking DEF Cancelled, Abandons
  <2>3. CASE pc[o] \in {"acquireGet", "releaseGet"} /\ (NotAcquired(o) \/ AfterRelease(o))
    <3>1. "sleep" \in Places \ Leading /\ "idle" \in Places \ Leading
      BY DEF Places
    <3>. QED
      BY <1>0, <1>1, <2>1, <2>3, <3>1, LeavesIdle DEF NotAcquired, AfterRelease, Abandons
  <2>4. CASE entry.owner = o /\ WriteRead(o)
    <3>1. /\ pc[o] = "renewGet" => pc'[o] = "renewUpdate"
          /\ pc[o] # "renewGet" => pc'[o] \in {"acquireUpdate", "releaseDelete"}
          /\ answer' = answer /\ read'[o] = entry.rev /\ working' = working /\ tick' = tick
          /\ wait'[o] <= RequestTimeout /\ wait'[o] \in Nat
      BY <1>0, <1>8, <2>4, Durations DEF Get, WriteRead, TypeOK, OwnerInv, TimersSet
    <3>2. pc[o] \in Gets /\ answer[o] = "none"
      BY <1>0, <1>8 DEF Get, OwnerInv, Answered
    <3>. QED
      BY <1>0, <1>1, <2>1, <2>4, <3>1, <3>2, Durations
       DEF Abandons, OwnerInv, Answered, HolderOwns, ReadsOwn, NoLateDelete, TimersSet, InTime, Holds, Claimed, Need
  <2>. QED
    BY <1>8, <2>2, <2>3, <2>4 DEF Get, NotMine
<1>9. CASE RequestError(o)
  <2>1. /\ \/ late' = late
           \/ late' = late \cup {[op |-> pc[o], owner |-> o, rev |-> read[o]]}
    BY <1>9 DEF RequestError
  <2>2. CASE pc[o] \in {"renewGet", "renewUpdate"}
    <3>1. Leave(o, "losing") /\ Abandons(o)
      BY <1>9, <2>1, <2>2 DEF RequestError, Cancelled, Abandons
    <3>. QED
      BY <1>0, <2>2, <3>1, LeavesWorking
  <2>3. CASE pc[o] \notin {"renewGet", "renewUpdate"}
    <3>1. ~working[o]
      BY <1>1, <1>9, <2>3 DEF RequestError
    <3>2. "sleep" \in Places \ Leading /\ "idle" \in Places \ Leading
      BY DEF Places
    <3>3. PICK place \in Places \ Leading : Leave(o, place)
      BY <1>9, <2>3, <3>2 DEF RequestError, NotAcquired, AfterRelease
    <3>4. ~Holds(o)'
      BY <1>0, <3>1, <3>3 DEF Leave, Goto, Holds, Claimed, TypeOK
    <3>. QED
      BY <1>0, <2>1, <3>1, <3>3, <3>4, LeavesIdle DEF Abandons
  <2>. QED
    BY <2>2, <2>3
<1>10. ASSUME NEW result \in Results, WorkDone(o, result) PROVE OwnerInv(o)' /\ Abandons(o)
  <2>1. /\ working[o] /\ working'[o] = FALSE /\ pc' = pc /\ answer' = answer /\ read' = read
        /\ wait' = wait /\ tick' = tick /\ late' = late
    BY <1>0, <1>10 DEF WorkDone, TypeOK
  <2>2. ~Holds(o)' /\ ~Claimed(o)'
    BY <1>1, <2>1 DEF Holds, Claimed
  <2>. QED
    BY <1>0, <2>1, <2>2 DEF Abandons, OwnerInv, Answered, HolderOwns, ReadsOwn, NoLateDelete, TimersSet, InTime, Holds
<1>11. CASE ContextEnds(o)
  BY <1>0, <1>11 DEF ContextEnds, Abandons, OwnerInv, Answered, HolderOwns, ReadsOwn, NoLateDelete, TimersSet,
                     InTime, Need, Holds, Claimed
<1>12. CASE Crash(o)
  <2>1. /\ pc'[o] = "down" /\ answer'[o] = "none" /\ read'[o] = NoRevision /\ working'[o] = FALSE
        /\ \/ late' = late
           \/ late' = late \cup {[op |-> pc[o], owner |-> o, rev |-> read[o]]}
    BY <1>0, <1>12 DEF Crash, Goto, TypeOK
  <2>2. ~Holds(o)' /\ ~Claimed(o)'
    BY <2>1 DEF Holds, Claimed
  <2>3. ReadsOwn(o)'
    BY <1>0, <2>1 DEF ReadsOwn, LeaseInv
  <2>. QED
    BY <1>0, <2>1, <2>2, <2>3 DEF Abandons, OwnerInv, Answered, HolderOwns, NoLateDelete, TimersSet, InTime, Holds
<1>. QED
  BY <1>2, <1>3, <1>4, <1>5, <1>6, <1>7, <1>8, <1>9, <1>10, <1>11, <1>12 DEF OwnStep

(* A write that is accepted finds no record, or its own owner's.            *)
LEMMA AcceptedOwn ==
    ASSUME LeaseInv, NEW op, NEW o \in Owners, NEW rev, Accepted(op, rev),
           rev = read[o] \/ \E r \in late : r.rev = rev /\ r.owner = o
    PROVE  /\ entry.owner \in {NoOne, o}
           /\ op # "create" => entry.owner = o /\ entry.rev = rev
           /\ op = "create" => entry.owner = NoOne
<1>1. OwnerInv(o) /\ LateOwn
  BY DEF LeaseInv
<1>. QED
  BY <1>1 DEF Accepted, OwnerInv, ReadsOwn, LateOwn

(* A fresh record disturbs nobody: its revision is named nowhere, and only  *)
(* its own owner may hold the lease.                                        *)
LEMMA PutKeeps ==
    ASSUME LeaseInv, NEW o \in Owners, Puts(o), entry.owner \in {NoOne, o}, late' \subseteq late
    PROVE  /\ \A p \in Owners : Kept(p) => OwnerInv(p)'
           /\ LateOwn'
           /\ entry'.owner # NoOne => entry'.rev \in Revisions
<1>1. /\ entry'.rev \in Revisions /\ entry'.owner = o /\ entry'.left = TTL
      /\ \A p \in Owners : entry'.rev # read[p]
      /\ \A r \in late : entry'.rev # r.rev
  BY DEF Puts, Referenced
<1>2. ASSUME NEW p \in Owners, Kept(p) PROVE OwnerInv(p)'
  <2>1. OwnerInv(p) /\ (Holds(p)' => Holds(p)) /\ NoOne \notin Owners /\ Need(p)' = Need(p)
    BY <1>2, LeaseAssumption DEF LeaseInv, Holds, Claimed, Kept, Need
  <2>2. Holds(p) => p = o
    BY <2>1 DEF OwnerInv, HolderOwns
  <2>3. entry.left <= entry'.left /\ entry.left \in Nat /\ wait[p] \in Nat
    BY <1>1, Durations DEF LeaseInv, TypeOK
  <2>4. Answered(p)' /\ HolderOwns(p)' /\ TimersSet(p)'
    BY <1>1, <1>2, <2>1, <2>2 DEF OwnerInv, Answered, HolderOwns, TimersSet, Kept
  <2>5. ReadsOwn(p)' /\ NoLateDelete(p)'
    BY <1>1, <1>2 DEF ReadsOwn, NoLateDelete, Kept
  <2>6. InTime(p)'
    <3>1. working[p] => entry'.left > Need(p)'
      <4>1. Need(p) \in Int
        BY Durations DEF Need, LeaseInv, TypeOK
      <4>. QED
        BY <1>1, <2>1, <2>3, <4>1, Durations DEF OwnerInv, InTime
    <3>. QED
      BY <1>1, <1>2, <2>1, <2>3, <3>1, Durations DEF OwnerInv, InTime, Kept, Claimed
  <2>. QED
    BY <2>4, <2>5, <2>6 DEF OwnerInv
<1>. QED
  BY <1>1, <1>2 DEF LateOwn

(* A record that goes away while nobody holds the lease disturbs nobody.    *)
LEMMA GoneKeeps ==
    ASSUME LeaseInv, entry' = NoEntry, late' \subseteq late, \A p \in Owners : ~Holds(p)
    PROVE  /\ \A p \in Owners : Kept(p) => OwnerInv(p)'
           /\ LateOwn'
           /\ entry'.owner # NoOne => entry'.rev \in Revisions
<1>1. entry'.owner = NoOne
  BY DEF NoEntry
<1>2. ASSUME NEW p \in Owners, Kept(p) PROVE OwnerInv(p)'
  <2>1. OwnerInv(p) /\ ~Holds(p)' /\ (pc'[p] = "renewUpdate" => ~Claimed(p)')
    BY <1>2 DEF LeaseInv, Holds, Claimed, Kept
  <2>. QED
    BY <1>1, <1>2, <2>1 DEF OwnerInv, Answered, HolderOwns, ReadsOwn, NoLateDelete, TimersSet, InTime, Holds, Kept
<1>. QED
  BY <1>1, <1>2 DEF LateOwn

(* Nobody holds a lease whose record is absent, or about to be deleted by   *)
(* its owner.                                                               *)
LEMMA NobodyHolds ==
    ASSUME LeaseInv, entry.owner \in Owners => ~Holds(entry.owner)
    PROVE  \A p \in Owners : ~Holds(p)
BY DEF LeaseInv, OwnerInv, HolderOwns

LEMMA ApplyKeeps ==
    ASSUME LeaseInv, NEW o \in Owners, Apply(o)
    PROVE  /\ \A p \in Owners : OwnerInv(p)'
           /\ LateOwn'
           /\ entry'.owner # NoOne => entry'.rev \in Revisions
<1>0. /\ TypeOK /\ OwnerInv(o) /\ NoRevision \notin Revisions /\ NoOne \notin Owners
      /\ wait[o] \in Nat /\ entry.left \in Nat
  BY LeaseAssumption DEF LeaseInv, TypeOK, NoRevision
<1>1. /\ pc[o] \in Writes /\ answer[o] = "none" /\ Effect(pc[o], o, read[o]) /\ late' = late
      /\ \A p \in Owners \ {o} : Kept(p)
      /\ pc' = pc /\ wait' = wait /\ tick' = tick /\ due' = due /\ working' = working
      /\ read'[o] = NoRevision
      /\ answer'[o] = IF Accepted(pc[o], read[o]) THEN "yes" ELSE "no"
  BY <1>0 DEF Apply, TypeOK, Kept
<1>2. CASE ~Accepted(pc[o], read[o])
  <2>1. entry' = entry
    BY <1>1, <1>2, EffectCases
  <2>2. \A p \in Owners \ {o} : OwnerInv(p)'
    BY <1>1, <2>1, OthersKept DEF Abandons
  <2>3. answer'[o] = "no"
    BY <1>1, <1>2
  <2>4. ReadsOwn(o)'
    BY <1>0, <1>1, <2>1 DEF ReadsOwn, LeaseInv
  <2>5. (Holds(o)' => Holds(o)) /\ ~Claimed(o)' /\ Need(o)' = Need(o)
    BY <1>1, <2>3 DEF Holds, Claimed, Need
  <2>6. OwnerInv(o)'
    BY <1>0, <1>1, <2>1, <2>3, <2>4, <2>5
       DEF OwnerInv, Answered, HolderOwns, NoLateDelete, TimersSet, InTime
  <2>7. LateOwn'
    BY <1>1, <2>1 DEF LateOwn, LeaseInv
  <2>. QED
    BY <2>1, <2>2, <2>6, <2>7 DEF LeaseInv
<1>3. CASE Accepted(pc[o], read[o]) /\ pc[o] = "releaseDelete" /\ Deletes
  <2>1. entry.owner = o
    BY <1>3, AcceptedOwn
  <2>2. ~Holds(o)
    BY <1>0, <1>3 DEF Holds, Claimed, OwnerInv, HolderOwns, Leading
  <2>3. \A p \in Owners : ~Holds(p)
    BY <2>1, <2>2, NobodyHolds
  <2>4. /\ \A p \in Owners \ {o} : OwnerInv(p)'
        /\ LateOwn' /\ entry'.owner = NoOne
    BY <1>1, <1>3, <2>3, GoneKeeps DEF Deletes, NoEntry
  <2>5. ~Holds(o)'
    BY <1>1, <1>3, <2>2 DEF Holds, Claimed
  <2>6. OwnerInv(o)'
    BY <1>0, <1>1, <1>3, <2>4, <2>5
       DEF OwnerInv, Answered, HolderOwns, ReadsOwn, NoLateDelete, TimersSet, InTime, Holds
  <2>. QED
    BY <2>4, <2>6
<1>4. CASE Accepted(pc[o], read[o]) /\ Puts(o)
  <2>1. entry.owner \in {NoOne, o}
    BY <1>4, AcceptedOwn
  <2>2. /\ \A p \in Owners \ {o} : OwnerInv(p)'
        /\ LateOwn' /\ (entry'.owner # NoOne => entry'.rev \in Revisions)
    BY <1>1, <1>4, <2>1, PutKeeps
  <2>3. /\ entry'.rev \in Revisions /\ entry'.owner = o /\ entry'.left = TTL
        /\ \A r \in late : entry'.rev # r.rev
    BY <1>4 DEF Puts, Referenced
  <2>4. working[o] => pc[o] = "renewUpdate"
    BY <1>0, <1>1 DEF OwnerInv, HolderOwns, Leading, Writes
  <2>5. wait[o] <= RequestTimeout
    BY <1>0, <1>1 DEF OwnerInv, TimersSet, Requests
  <2>6. InTime(o)'
    BY <1>0, <1>1, <2>3, <2>4, <2>5, Durations DEF InTime, Need
  <2>7. Answered(o)' /\ HolderOwns(o)' /\ ReadsOwn(o)' /\ NoLateDelete(o)' /\ TimersSet(o)'
    BY <1>0, <1>1, <2>3 DEF OwnerInv, Answered, HolderOwns, ReadsOwn, NoLateDelete, TimersSet
  <2>. QED
    BY <2>2, <2>6, <2>7 DEF OwnerInv
<1>. QED
  BY <1>1, <1>2, <1>3, <1>4, EffectCases

LEMMA ApplyLateKeeps ==
    ASSUME LeaseInv, NEW r \in late, ApplyLate(r)
    PROVE  /\ \A p \in Owners : OwnerInv(p)'
           /\ LateOwn'
           /\ entry'.owner # NoOne => entry'.rev \in Revisions
<1>0. r.owner \in Owners /\ NoOne \notin Owners
  BY LeaseAssumption DEF LeaseInv, TypeOK
<1>1. Effect(r.op, r.owner, r.rev) /\ late' \subseteq late /\ \A p \in Owners : Kept(p)
  BY DEF ApplyLate, owner, Kept
<1>2. CASE entry' = entry
  <2>1. ASSUME NEW p \in Owners PROVE OwnerInv(p)'
    <3>1. OwnerInv(p) /\ Kept(p)
      BY <1>1 DEF LeaseInv
    <3>2. NoLateDelete(p)'
      BY <1>1, <1>2, <3>1 DEF OwnerInv, NoLateDelete, Holds, Claimed, Kept
    <3>. QED
      BY <1>2, <3>1, <3>2 DEF OwnerInv, Answered, HolderOwns, ReadsOwn, TimersSet, InTime, Holds, Claimed, Need, Kept
  <2>. QED
    BY <1>1, <1>2, <2>1 DEF LeaseInv, LateOwn
<1>3. CASE Accepted(r.op, r.rev) /\ r.op = "releaseDelete" /\ Deletes
  <2>1. entry.owner = r.owner /\ entry.rev = r.rev
    BY <1>0, <1>3, AcceptedOwn
  <2>2. ~Holds(r.owner)
    BY <1>0, <1>3, <2>1 DEF LeaseInv, OwnerInv, NoLateDelete
  <2>3. \A p \in Owners : ~Holds(p)
    BY <2>1, <2>2, NobodyHolds
  <2>. QED
    BY <1>1, <1>3, <2>3, GoneKeeps DEF Deletes
<1>4. CASE Accepted(r.op, r.rev) /\ Puts(r.owner)
  <2>1. entry.owner \in {NoOne, r.owner}
    BY <1>0, <1>4, AcceptedOwn
  <2>. QED
    BY <1>0, <1>1, <1>4, <2>1, PutKeeps
<1>. QED
  BY <1>0, <1>1, <1>2, <1>3, <1>4, EffectCases

(* The record of an owner that holds the lease has time left.               *)
LEMMA ExpireKeeps ==
    ASSUME LeaseInv, Expire
    PROVE  /\ \A p \in Owners : OwnerInv(p)' /\ ~Holds(p)
           /\ LateOwn'
           /\ entry'.owner # NoOne => entry'.rev \in Revisions
<1>1. \A p \in Owners : Kept(p)
  BY DEF Expire, owner, Kept
<1>2. ASSUME NEW p \in Owners PROVE ~Holds(p)
  <2>1. /\ OwnerInv(p) /\ entry.left = 0 /\ wait[p] \in Nat /\ tick[p] \in Nat
    BY Durations DEF LeaseInv, Expire, TypeOK
  <2>2. Need(p) >= 0
    BY <2>1, Durations DEF Need
  <2>3. ~working[p]
    BY <2>1, <2>2, Durations DEF OwnerInv, InTime, Need
  <2>4. ~Claimed(p)
    BY <2>1, Durations DEF OwnerInv, InTime
  <2>. QED
    BY <2>3, <2>4 DEF Holds
<1>. QED
  BY <1>1, <1>2, GoneKeeps DEF Expire

(* Time passes for the record and for its owner alike.                      *)
LEMMA TickKeeps ==
    ASSUME LeaseInv, Tick
    PROVE  /\ \A p \in Owners : OwnerInv(p)'
           /\ LateOwn'
           /\ entry'.owner # NoOne => entry'.rev \in Revisions
<1>0. entry \in Entries /\ entry.left \in Nat /\ TypeOK
  BY Durations DEF LeaseInv, TypeOK, Entries
<1>1. /\ entry'.owner = entry.owner /\ entry'.rev = entry.rev /\ entry'.left = Down(entry.left)
      /\ late' = late /\ pc' = pc /\ answer' = answer /\ read' = read /\ working' = working
  BY <1>0 DEF Tick, Entries
<1>2. ASSUME NEW p \in Owners PROVE OwnerInv(p)'
  <2>1. /\ OwnerInv(p) /\ MayWait(p) /\ wait[p] \in Nat /\ tick[p] \in 0 .. RenewEvery
        /\ wait'[p] = Down(wait[p])
        /\ tick'[p] = (IF pc[p] \notin Leading THEN 0
                       ELSE IF tick[p] = 1 THEN RenewEvery ELSE Down(tick[p]))
        /\ due'[p] = (pc[p] \in Leading /\ (due[p] \/ tick[p] = 1))
    BY <1>0 DEF LeaseInv, Tick, TypeOK
  <2>2. Answered(p)' /\ HolderOwns(p)' /\ ReadsOwn(p)' /\ NoLateDelete(p)'
    BY <1>1, <2>1 DEF OwnerInv, Answered, HolderOwns, ReadsOwn, NoLateDelete, Holds, Claimed
  <2>3. TimersSet(p)'
    BY <1>1, <2>1, Durations DEF OwnerInv, TimersSet, Down
  <2>4. pc[p] \in Requests \cup {"losing", "stopping", "work"} => wait[p] > 0 /\ wait'[p] = wait[p] - 1
    <3>1. pc[p] \in Requests \cup {"losing", "stopping", "work"} => wait[p] > 0
      BY <2>1 DEF MayWait, Requests, Gets, Writes
    <3>. QED
      BY <2>1, <3>1 DEF Down
  <2>5. working[p] => entry'.left > Need(p)'
    <3>. SUFFICES ASSUME working[p] PROVE entry'.left > Need(p)'
      OBVIOUS
    <3>1. entry.left > Need(p) /\ pc[p] \in Leading \cup {"work", "losing", "stopping"}
      BY <2>1 DEF OwnerInv, InTime, HolderOwns
    <3>2. CASE pc[p] = "lead"
      <4>1. ~due[p] /\ tick[p] > 0
        BY <2>1, <3>2 DEF MayWait, Requests, Gets, Writes, OwnerInv, TimersSet, Leading
      <4>2. Need(p) = tick[p] + 2 * RequestTimeout + StopBound
        BY <3>2, <4>1 DEF Need
      <4>3. Need(p)' <= (tick[p] - 1) + 2 * RequestTimeout + StopBound
        <5>1. CASE tick[p] = 1
          <6>1. due'[p] /\ pc'[p] = "lead"
            BY <1>1, <2>1, <3>2, <5>1 DEF Leading
          <6>2. Need(p)' = 0 + 2 * RequestTimeout + StopBound
            BY <6>1, Zenon DEF Need
          <6>. QED
            BY <5>1, <6>2, Durations
        <5>2. CASE tick[p] # 1
          BY <1>1, <2>1, <3>2, <4>1, <5>2, Durations DEF Need, Leading, Down
        <5>. QED
          BY <5>1, <5>2
      <4>4. Need(p)' \in Int
        BY <1>1, <2>1, <3>2, Durations DEF Need, Leading, Down
      <4>. QED
        BY <1>0, <1>1, <2>1, <3>1, <4>1, <4>2, <4>3, <4>4, Durations DEF Down
    <3>3. CASE pc[p] # "lead"
      <4>1. wait[p] > 0 /\ wait'[p] = wait[p] - 1
        BY <2>4, <3>1, <3>3 DEF Leading, Requests, Gets, Writes
      <4>2. Need(p)' = Need(p) - 1 /\ Need(p) > 0 /\ Need(p) \in Int
        BY <1>1, <2>1, <3>3, <4>1, Durations DEF Need
      <4>. QED
        BY <1>0, <1>1, <3>1, <4>2 DEF Down
    <3>. QED
      BY <3>2, <3>3
  <2>6. InTime(p)'
    BY <1>0, <1>1, <2>1, <2>4, <2>5, Durations DEF OwnerInv, InTime, Claimed, Requests, Writes, Down
  <2>. QED
    BY <2>2, <2>3, <2>6 DEF OwnerInv
<1>. QED
  BY <1>1, <1>2 DEF LeaseInv, LateOwn

LEMMA LeaseStep == LeaseInv /\ [Next]_vars => LeaseInv'
<1>. SUFFICES ASSUME LeaseInv, [Next]_vars PROVE LeaseInv'
  OBVIOUS
<1>1. TypeOK'
  BY TypeStep DEF LeaseInv
<1>2. ASSUME NEW o \in Owners, OwnStep(o) PROVE LeaseInv'
  <2>1. /\ entry' = entry /\ Abandons(o) /\ OwnerInv(o)' /\ \A p \in Owners \ {o} : Kept(p)
    BY <1>2, OwnFrame, OwnKept DEF LeaseInv
  <2>2. \A p \in Owners : OwnerInv(p)'
    BY <2>1, OthersKept
  <2>3. LateOwn'
    BY <2>1, LateKept
  <2>. QED
    BY <1>1, <2>1, <2>2, <2>3 DEF LeaseInv
<1>3. ASSUME NEW o \in Owners, Apply(o) PROVE LeaseInv'
  BY <1>1, <1>3, ApplyKeeps DEF LeaseInv
<1>4. ASSUME NEW r \in late, ApplyLate(r) PROVE LeaseInv'
  BY <1>1, <1>4, ApplyLateKeeps DEF LeaseInv
<1>5. CASE Expire
  BY <1>1, <1>5, ExpireKeeps DEF LeaseInv
<1>6. CASE Tick
  BY <1>1, <1>6, TickKeeps DEF LeaseInv
<1>7. CASE UNCHANGED vars
  BY <1>1, <1>7 DEF vars, owner, LeaseInv, LateOwn, OwnerInv, Answered, HolderOwns, ReadsOwn, NoLateDelete,
                    TimersSet, InTime, Holds, Claimed, Need
<1>. QED
  BY <1>2, <1>3, <1>4, <1>5, <1>6, <1>7 DEF Next, Step, Finish, OwnStep

----------------------------------------------------------------------------
(* The refinement, step by step.                                            *)

LEMMA WorkBegins ==
    ASSUME TypeOK, NEW o \in Owners, OwnStep(o), ~working[o], working'[o]
    PROVE  Acquired(o)
<1>. SUFFICES ASSUME ~Acquired(o) PROVE working' = working \/ working'[o] = FALSE
  OBVIOUS
<1>1. ASSUME NotAcquired(o) \/ Cancelled(o) \/ AfterRelease(o) \/ KeepLeading(o) \/ WriteRead(o)
      PROVE working' = working
  BY <1>1 DEF NotAcquired, Cancelled, AfterRelease, KeepLeading, WriteRead, Leave
<1>2. CASE Call(o) \/ RenewTick(o) \/ ContextEnds(o)
  BY <1>2 DEF Call, RenewTick, ContextEnds
<1>3. CASE Refused(o) \/ Released(o) \/ Renewed(o)
  BY <1>1, <1>3 DEF Refused, Released, Renewed, Leave
<1>4. CASE Wake(o) \/ ContextDone(o) \/ Lost(o) \/ WorkReturned(o)
  BY <1>4 DEF Wake, ContextDone, Lost, WorkReturned, Leave
<1>5. CASE Get(o)
  BY <1>1, <1>5 DEF Get, NotMine, Gets
<1>6. CASE RequestError(o)
  BY <1>1, <1>6 DEF RequestError
<1>7. CASE Crash(o)
  BY <1>7 DEF Crash, TypeOK
<1>8. ASSUME NEW result \in Results, WorkDone(o, result) PROVE working'[o] = FALSE
  BY <1>8 DEF WorkDone, TypeOK
<1>. QED
  BY <1>2, <1>3, <1>4, <1>5, <1>6, <1>7, <1>8 DEF OwnStep

LEMMA OwnStepRefines ==
    ASSUME LeaseInv, NEW o \in Owners, OwnStep(o)
    PROVE  [Ideal!Next]_<<entry.owner, Workers>>
<1>. USE DEF Workers
<1>0. /\ TypeOK /\ entry' = entry /\ \A p \in Owners \ {o} : working'[p] = working[p]
      /\ \A p \in Owners : Holds(p) => entry.owner = p
      /\ working' \in [Owners -> BOOLEAN]
  <2>1. TypeOK'
    BY LeaseStep DEF LeaseInv, Next, Step, Finish, OwnStep
  <2>. QED
    BY <2>1, OwnFrame DEF LeaseInv, Kept, OwnerInv, HolderOwns, TypeOK
<1>1. CASE working'[o] = working[o]
  <2>1. Workers' = Workers
    BY <1>0, <1>1
  <2>. QED
    BY <1>0, <2>1
<1>2. CASE ~working[o] /\ working'[o]
  <2>1. Claimed(o)
    BY <1>0, <1>2, WorkBegins DEF Acquired, Claimed
  <2>2. entry.owner = o
    BY <1>0, <2>1 DEF Holds
  <2>3. Workers = {} /\ Workers' = {o}
    BY <1>0, <1>2, <2>2 DEF Holds
  <2>4. Ideal!Begin(o)
    BY <1>0, <2>2, <2>3 DEF Ideal!Begin
  <2>. QED
    BY <2>4 DEF Ideal!Next
<1>3. CASE working[o] /\ ~working'[o]
  <2>1. Workers = {o} /\ Workers' = {}
    BY <1>0, <1>3 DEF Holds
  <2>2. Ideal!End(o)
    BY <1>0, <2>1 DEF Ideal!End
  <2>. QED
    BY <2>2 DEF Ideal!Next
<1>. QED
  BY <1>0, <1>1, <1>2, <1>3 DEF TypeOK

(* A write takes the free lease, renews it for its owner, or gives it up    *)
(* after the owner's work.                                                  *)
LEMMA EffectRefines ==
    ASSUME LeaseInv, NEW op, NEW o \in Owners, NEW rev, Effect(op, o, rev),
           rev = read[o] \/ (\E r \in late : r.rev = rev /\ r.owner = o),
           Accepted(op, rev) /\ op = "releaseDelete" => ~Holds(o),
           working' = working
    PROVE  [Ideal!Next]_<<entry.owner, Workers>>
<1>. USE DEF Workers
<1>0. Workers' = Workers
  OBVIOUS
<1>1. CASE entry' = entry
  BY <1>0, <1>1
<1>2. CASE Accepted(op, rev) /\ op = "releaseDelete" /\ Deletes
  <2>1. entry.owner = o
    BY <1>2, AcceptedOwn
  <2>2. Workers = {}
    BY <1>2, <2>1, NobodyHolds DEF Holds
  <2>3. entry'.owner = NoOne
    BY <1>2 DEF Deletes, NoEntry
  <2>4. Ideal!GiveUp(o)
    BY <1>0, <2>1, <2>2, <2>3 DEF Ideal!GiveUp
  <2>. QED
    BY <2>4 DEF Ideal!Next
<1>3. CASE Accepted(op, rev) /\ Puts(o)
  <2>1. entry.owner \in {NoOne, o} /\ entry'.owner = o
    BY <1>3, AcceptedOwn DEF Puts
  <2>2. CASE entry.owner = o
    BY <1>0, <2>1, <2>2
  <2>3. CASE entry.owner = NoOne
    <3>1. Workers = {}
      BY <2>3, NobodyHolds, LeaseAssumption DEF Holds
    <3>2. Ideal!Take(o)
      BY <1>0, <2>1, <2>3, <3>1 DEF Ideal!Take
    <3>. QED
      BY <3>2 DEF Ideal!Next
  <2>. QED
    BY <2>1, <2>2, <2>3
<1>. QED
  BY <1>1, <1>2, <1>3, EffectCases

LEMMA Refines == LeaseInv /\ [Next]_vars => [Ideal!Next]_<<entry.owner, Workers>>
<1>. USE DEF Workers
<1>. SUFFICES ASSUME LeaseInv, [Next]_vars PROVE [Ideal!Next]_<<entry.owner, Workers>>
  OBVIOUS
<1>1. ASSUME NEW o \in Owners, Apply(o) PROVE [Ideal!Next]_<<entry.owner, Workers>>
  <2>1. Effect(pc[o], o, read[o]) /\ working' = working
    BY <1>1 DEF Apply
  <2>2. pc[o] = "releaseDelete" => ~Holds(o)
    BY DEF LeaseInv, OwnerInv, HolderOwns, Holds, Claimed, Leading
  <2>. QED
    BY <2>1, <2>2, EffectRefines
<1>2. ASSUME NEW r \in late, ApplyLate(r) PROVE [Ideal!Next]_<<entry.owner, Workers>>
  <2>1. r.owner \in Owners /\ NoOne \notin Owners
    BY LeaseAssumption DEF LeaseInv, TypeOK
  <2>2. Effect(r.op, r.owner, r.rev) /\ working' = working
    BY <1>2 DEF ApplyLate, owner
  <2>3. Accepted(r.op, r.rev) /\ r.op = "releaseDelete" => ~Holds(r.owner)
    BY <2>1 DEF Accepted, LeaseInv, OwnerInv, NoLateDelete
  <2>. QED
    BY <2>1, <2>2, <2>3, EffectRefines
<1>3. CASE Expire
  <2>1. \A p \in Owners : ~Holds(p)
    BY <1>3, ExpireKeeps
  <2>2. Workers = {} /\ Workers' = {}
    BY <1>3, <2>1 DEF Expire, owner, Holds
  <2>3. entry.owner \in Owners /\ entry'.owner = NoOne
    BY <1>3 DEF Expire, LeaseInv, TypeOK, NoEntry
  <2>4. Ideal!GiveUp(entry.owner)
    BY <2>2, <2>3 DEF Ideal!GiveUp
  <2>. QED
    BY <2>3, <2>4 DEF Ideal!Next
<1>4. CASE Tick
  <2>1. entry'.owner = entry.owner /\ working' = working
    BY <1>4 DEF Tick, LeaseInv, TypeOK
  <2>. QED
    BY <2>1
<1>5. CASE UNCHANGED vars
  BY <1>5 DEF vars, owner
<1>. QED
  BY <1>1, <1>2, <1>3, <1>4, <1>5, OwnStepRefines DEF Next, Step, Finish, OwnStep

LEMMA LeaseAlways == Spec => []LeaseInv
BY LeaseInit, LeaseStep, PTL DEF Spec

(* Work of two processes never overlaps, begins only under the lease, and   *)
(* is over before the lease is released, taken over or expires: every step  *)
(* of Lease is a step of ExclusiveWork or leaves holder and workers alone.  *)
THEOREM WorkExclusive == Spec => WorkIsExclusive
<1>1. Init => Ideal!Init
  BY DEF Init, NoEntry, Ideal!Init, Workers
<1>. QED
  BY <1>1, Refines, LeaseAlways, PTL DEF Spec, WorkIsExclusive, Ideal!Spec

----------------------------------------------------------------------------
(* The cooldown of TryRunWithCooldown.                                      *)

CooldownPlaces == {"idle", "create", "work", "releaseGet", "releaseDelete", "down"}

(* While a cooldown lasts the record does, nobody holds the lease, and no   *)
(* request that is late or still to come can delete the record.             *)
RecordStays ==
    /\ entry.owner # NoOne /\ quiet <= entry.left
    /\ \A o \in Owners : ~Holds(o)
    /\ \A r \in late : r.op = "releaseDelete" => r.rev # entry.rev

OwnerKeeps(o) ==
    entry.owner = o => /\ pc[o] \notin {"releaseGet", "releaseDelete"}
                       /\ pc[o] = "work" => outcome[o] = "ok"

CooldownInv ==
    /\ mode # "cooldown" => quiet = 0
    /\ mode = "cooldown" =>
          /\ \A o \in Owners : pc[o] \in CooldownPlaces
          /\ \A o \in Owners : Holds(o) => age[o] <= entry.left
          /\ \A r \in late : r.op \in {"create", "releaseDelete"}
          /\ quiet > 0 => RecordStays /\ \A o \in Owners : OwnerKeeps(o)

LEMMA CooldownInit == Init => CooldownInv
BY DEF Init, CooldownInv, CooldownPlaces, Holds, Claimed

(* What a step of an owner means for the cooldown: only a success starts    *)
(* one.                                                                     *)
Succeeds(o) ==
    /\ working[o] /\ working'[o] = FALSE /\ pc'[o] = pc[o] /\ outcome'[o] = "ok"
    /\ quiet' = age[o] /\ late' = late

OwnCooldown(o) ==
    /\ age' = age /\ pc'[o] \in CooldownPlaces
    /\ Holds(o)' => Holds(o)
    /\ quiet' = quiet \/ Succeeds(o)
    /\ ~Holds(o) /\ OwnerKeeps(o) => OwnerKeeps(o)'

LEMMA LeaveCooldown ==
    ASSUME LeaseInv, NEW o \in Owners, entry' = entry, age' = age, quiet' = quiet,
           ~working[o], pc[o] \in CooldownPlaces,
           \/ Leave(o, "idle")
           \/ Leave(o, "releaseGet") /\ (pc[o] = "work" => outcome[o] # "ok") /\ pc[o] = "work"
    PROVE  OwnCooldown(o)
<1>1. /\ answer'[o] = "none" /\ working'[o] = working[o]
      /\ pc'[o] = "idle" \/ (pc'[o] = "releaseGet" /\ pc[o] = "work" /\ outcome[o] # "ok")
  BY DEF Leave, Goto, LeaseInv, TypeOK
<1>. QED
  BY <1>1 DEF OwnCooldown, CooldownPlaces, Holds, Claimed, OwnerKeeps

LEMMA OwnCooldownStep ==
    ASSUME LeaseInv, CooldownInv, mode = "cooldown", NEW o \in Owners, OwnStep(o)
    PROVE  OwnCooldown(o)
<1>0. /\ TypeOK /\ OwnerInv(o) /\ entry' = entry /\ pc[o] \in CooldownPlaces
  BY OwnFrame DEF LeaseInv, CooldownInv
<1>1. /\ pc[o] \notin Leading \cup {"losing", "stopping", "sleep", "acquireGet", "acquireUpdate"}
      /\ working[o] => pc[o] = "work"
  BY <1>0 DEF CooldownPlaces, Leading, OwnerInv, HolderOwns
<1>2. CASE Call(o)
  <2>1. pc'[o] = "create" /\ answer'[o] = "none" /\ working' = working /\ age' = age /\ quiet' = quiet
    BY <1>0, <1>2 DEF Call, Goto, TypeOK, history
  <2>. QED
    BY <1>0, <2>1 DEF OwnCooldown, CooldownPlaces, Holds, Claimed, OwnerKeeps
<1>3. CASE Acquired(o)
  <2>1. Claimed(o) /\ pc'[o] = "work" /\ age' = age /\ quiet' = quiet
    BY <1>0, <1>3 DEF Acquired, Claimed, Lead, Goto, TypeOK, history
  <2>. QED
    BY <1>0, <2>1 DEF OwnCooldown, CooldownPlaces, Holds
<1>4. CASE Refused(o) \/ Released(o)
  <2>1. Leave(o, "idle") /\ ~working[o] /\ age' = age /\ quiet' = quiet
    BY <1>1, <1>4 DEF Refused, NotAcquired, Released, AfterRelease, history
  <2>. QED
    BY <1>0, <2>1, LeaveCooldown
<1>5. CASE WorkReturned(o)
  <2>1. ~working[o] /\ pc[o] = "work" /\ age' = age /\ quiet' = quiet
    BY <1>1, <1>5 DEF WorkReturned, WorkOver, Leading, history
  <2>2. Leave(o, "idle") \/ (Leave(o, "releaseGet") /\ outcome[o] # "ok")
    BY <1>5 DEF WorkReturned, KeepsRecord
  <2>. QED
    BY <1>0, <2>1, <2>2, LeaveCooldown
<1>6. CASE Get(o)
  <2>1. pc[o] = "releaseGet" /\ ~working[o] /\ age' = age /\ quiet' = quiet
    BY <1>1, <1>6 DEF Get, Gets, Leading, history
  <2>2. CASE WriteRead(o) /\ entry.owner = o
    <3>1. pc'[o] = "releaseDelete" /\ working' = working
      BY <1>0, <2>1, <2>2 DEF WriteRead, TypeOK
    <3>. QED
      BY <1>0, <2>1, <2>2, <3>1 DEF OwnCooldown, CooldownPlaces, Holds, Claimed, OwnerKeeps
  <2>3. CASE NotMine(o)
    <3>1. Leave(o, "idle")
      BY <2>1, <2>3 DEF NotMine, AfterRelease
    <3>. QED
      BY <1>0, <2>1, <3>1, LeaveCooldown
  <2>. QED
    BY <1>6, <2>2, <2>3 DEF Get
<1>7. CASE RequestError(o)
  <2>1. pc[o] \in {"create", "releaseGet", "releaseDelete"}
    BY <1>0, <1>7 DEF RequestError, CooldownPlaces, Requests, Gets, Writes
  <2>2. ~working[o] /\ age' = age /\ quiet' = quiet
    BY <1>1, <1>7, <2>1 DEF RequestError
  <2>3. Leave(o, "idle")
    BY <1>7, <2>1 DEF RequestError, NotAcquired, AfterRelease
  <2>. QED
    BY <1>0, <2>2, <2>3, LeaveCooldown
<1>8. ASSUME NEW result \in Results, WorkDone(o, result) PROVE OwnCooldown(o)
  <2>1. /\ working[o] /\ pc[o] = "work" /\ working'[o] = FALSE /\ pc' = pc /\ outcome'[o] = result
        /\ quiet' = (IF result = "ok" THEN age[o] ELSE quiet) /\ age' = age /\ late' = late
        /\ answer' = answer
    BY <1>0, <1>1, <1>8 DEF WorkDone, TypeOK
  <2>. QED
    BY <1>0, <2>1 DEF OwnCooldown, Succeeds, Holds, Claimed
<1>9. CASE ContextEnds(o)
  BY <1>0, <1>9 DEF ContextEnds, OwnCooldown, Holds, Claimed, OwnerKeeps
<1>10. CASE Crash(o)
  <2>1. pc'[o] = "down" /\ working'[o] = FALSE /\ age' = age /\ quiet' = quiet
    BY <1>0, <1>10 DEF Crash, Goto, TypeOK
  <2>. QED
    BY <1>0, <2>1 DEF OwnCooldown, CooldownPlaces, Holds, Claimed, OwnerKeeps
<1>11. ~Wake(o) /\ ~RenewTick(o) /\ ~Renewed(o) /\ ~ContextDone(o) /\ ~Lost(o)
  BY <1>1 DEF Wake, RenewTick, Renewed, ContextDone, Lost, Leading
<1>. QED
  BY <1>2, <1>3, <1>4, <1>5, <1>6, <1>7, <1>8, <1>9, <1>10, <1>11 DEF OwnStep

(* A cooldown lasts until the record that counts it expires.                *)
LEMMA OwnKeepsCooldown ==
    ASSUME LeaseInv, CooldownInv, LeaseInv', NEW o \in Owners, OwnStep(o)
    PROVE  CooldownInv'
<1>0. /\ entry' = entry /\ mode' = mode /\ Abandons(o) /\ TypeOK /\ TypeOK'
      /\ \A p \in Owners \ {o} : Kept(p)
  BY OwnFrame, OwnKept DEF LeaseInv
<1>1. CASE mode # "cooldown"
  <2>1. quiet' = quiet
    BY <1>1 DEF OwnStep, Call, Acquired, Refused, Wake, RenewTick, Renewed, ContextDone, Lost, WorkReturned,
                Released, Get, RequestError, WorkDone, ContextEnds, Crash, history
  <2>. QED
    BY <1>0, <1>1, <2>1 DEF CooldownInv
<1>2. CASE mode = "cooldown"
  <2>1. OwnCooldown(o)
    BY <1>2, OwnCooldownStep
  <2>2. \A p \in Owners : pc'[p] \in CooldownPlaces /\ (Holds(p)' => Holds(p))
    BY <1>0, <1>2, <2>1 DEF OwnCooldown, CooldownInv, Kept, Holds, Claimed
  <2>3. \A r \in late' : r.op \in {"create", "releaseDelete"}
    <3>1. \A r \in late' : r.op \in Writes
      BY <1>0 DEF TypeOK
    <3>. QED
      BY <1>0, <1>2, <3>1 DEF Abandons, CooldownInv, CooldownPlaces, Writes
  <2>4. CASE quiet' = quiet
    <3>. SUFFICES ASSUME quiet > 0 PROVE RecordStays' /\ \A p \in Owners : OwnerKeeps(p)'
      BY <1>0, <1>2, <2>1, <2>2, <2>3, <2>4 DEF CooldownInv, OwnCooldown
    <3>1. RecordStays /\ \A p \in Owners : OwnerKeeps(p)
      BY <1>2 DEF CooldownInv
    <3>2. \A p \in Owners : OwnerKeeps(p)'
      BY <1>0, <2>1, <3>1 DEF OwnCooldown, OwnerKeeps, Kept, RecordStays
    <3>3. pc[o] = "releaseDelete" => read[o] # entry.rev
      BY <3>1 DEF RecordStays, OwnerKeeps, LeaseInv, OwnerInv, ReadsOwn
    <3>4. \A r \in late' : r.op = "releaseDelete" => r.rev # entry.rev
      BY <1>0, <3>1, <3>3 DEF Abandons, RecordStays
    <3>. QED
      BY <1>0, <2>2, <2>4, <3>1, <3>2, <3>4 DEF RecordStays
  <2>5. CASE Succeeds(o)
    <3>1. Holds(o) /\ OwnerInv(o) /\ entry.owner = o /\ age[o] <= entry.left /\ NoOne \notin Owners
      BY <1>2, <2>5, LeaseAssumption DEF Succeeds, Holds, LeaseInv, OwnerInv, HolderOwns, CooldownInv
    <3>2. working[o] /\ pc[o] = "work"
      BY <1>2, <2>5, <3>1 DEF Succeeds, OwnerInv, HolderOwns, CooldownInv, CooldownPlaces, Leading
    <3>3. \A p \in Owners : ~Holds(p)'
      BY <2>2, <2>5, <3>1, <3>2 DEF Succeeds, Holds, Claimed, LeaseInv, OwnerInv, HolderOwns
    <3>4. \A r \in late : r.op = "releaseDelete" => r.rev # entry.rev
      BY <3>1 DEF LeaseInv, LateOwn, OwnerInv, NoLateDelete
    <3>5. RecordStays'
      BY <1>0, <2>5, <3>1, <3>3, <3>4 DEF RecordStays, Succeeds
    <3>6. \A p \in Owners : OwnerKeeps(p)'
      BY <1>0, <2>5, <3>1, <3>2 DEF OwnerKeeps, Succeeds
    <3>. QED
      BY <1>0, <1>2, <2>1, <2>2, <2>3, <3>3, <3>5, <3>6 DEF CooldownInv
  <2>. QED
    BY <2>1, <2>4, <2>5 DEF OwnCooldown
<1>. QED
  BY <1>1, <1>2

LEMMA CooldownStep == LeaseInv /\ CooldownInv /\ [Next]_vars => CooldownInv'
<1>. SUFFICES ASSUME LeaseInv, CooldownInv, [Next]_vars PROVE CooldownInv'
  OBVIOUS
<1>0. LeaseInv' /\ TypeOK /\ entry.left \in Nat /\ NoOne \notin Owners
  BY LeaseStep, LeaseAssumption, Durations DEF LeaseInv, TypeOK
<1>1. ASSUME NEW o \in Owners, OwnStep(o) PROVE CooldownInv'
  BY <1>0, <1>1, OwnKeepsCooldown
<1>2. ASSUME NEW o \in Owners, Apply(o) PROVE CooldownInv'
  <2>1. /\ pc[o] \in Writes /\ answer[o] = "none" /\ Effect(pc[o], o, read[o]) /\ late' = late
        /\ pc' = pc /\ working' = working /\ outcome' = outcome /\ quiet' = quiet /\ mode' = mode
        /\ \A p \in Owners \ {o} : answer'[p] = answer[p] /\ age'[p] = age[p]
        /\ answer'[o] = IF Accepted(pc[o], read[o]) THEN "yes" ELSE "no"
    BY <1>0, <1>2 DEF Apply, TypeOK
  <2>2. CASE mode # "cooldown"
    BY <2>1, <2>2 DEF CooldownInv
  <2>3. CASE mode = "cooldown" /\ ~Accepted(pc[o], read[o])
    <3>1. entry' = entry /\ answer'[o] = "no" /\ age' = age
      BY <1>0, <1>2, <2>1, <2>3, EffectCases DEF Apply, TypeOK, Accepted
    <3>2. \A p \in Owners : Holds(p)' => Holds(p)
      BY <2>1, <3>1 DEF Holds, Claimed
    <3>. QED
      BY <2>1, <2>3, <3>1, <3>2 DEF CooldownInv, RecordStays, OwnerKeeps
  <2>4. CASE mode = "cooldown" /\ Accepted(pc[o], read[o])
    <3>1. pc[o] = "create" \/ pc[o] = "releaseDelete"
      BY <2>1, <2>4 DEF CooldownInv, CooldownPlaces, Writes
    <3>2. ~(quiet > 0)
      <4>. SUFFICES ASSUME quiet > 0 PROVE FALSE
        OBVIOUS
      <4>1. RecordStays /\ OwnerKeeps(o)
        BY <2>4 DEF CooldownInv
      <4>. QED
        BY <2>4, <3>1, <4>1, AcceptedOwn DEF RecordStays, OwnerKeeps
    <3>3. \A p \in Owners : Holds(p)' => age'[p] <= entry'.left
      <4>1. ASSUME NEW p \in Owners, p # o, Holds(p)' PROVE FALSE
        <5>1. Holds(p) /\ entry.owner = p
          BY <2>1, <4>1 DEF Holds, Claimed, LeaseInv, OwnerInv, HolderOwns
        <5>. QED
          BY <1>0, <2>4, <4>1, <5>1, AcceptedOwn
      <4>2. CASE pc[o] = "create"
        <5>1. age'[o] = TTL /\ entry'.left = TTL
          BY <1>0, <1>2, <2>1, <2>4, <4>2, EffectCases DEF Apply, TypeOK, Puts, Accepted
        <5>. QED
          BY <4>1, <5>1, Durations
      <4>3. CASE pc[o] = "releaseDelete"
        <5>1. ~Holds(o)'
          BY <2>1, <4>3 DEF Holds, Claimed, LeaseInv, OwnerInv, HolderOwns, Leading
        <5>. QED
          BY <4>1, <5>1
      <4>. QED
        BY <3>1, <4>2, <4>3
    <3>. QED
      BY <2>1, <2>4, <3>2, <3>3 DEF CooldownInv
  <2>. QED
    BY <2>2, <2>3, <2>4
<1>3. ASSUME NEW r \in late, ApplyLate(r) PROVE CooldownInv'
  <2>1. /\ Effect(r.op, r.owner, r.rev) /\ late' \subseteq late /\ r.owner \in Owners
        /\ UNCHANGED <<mode, owner, history>>
    BY <1>0, <1>3 DEF ApplyLate, TypeOK
  <2>2. CASE mode # "cooldown"
    BY <2>1, <2>2 DEF CooldownInv, history
  <2>3. CASE mode = "cooldown" /\ entry' = entry
    BY <2>1, <2>3 DEF CooldownInv, RecordStays, OwnerKeeps, Holds, Claimed, owner, history
  <2>4. CASE mode = "cooldown" /\ Accepted(r.op, r.rev) /\ (Deletes \/ Puts(r.owner))
    <3>1. r.op = "create" \/ r.op = "releaseDelete"
      BY <2>4 DEF CooldownInv
    <3>2. ~(quiet > 0)
      BY <2>4, <3>1 DEF CooldownInv, RecordStays, Accepted
    <3>3. \A p \in Owners : ~Holds(p)
      <4>1. CASE r.op = "create"
        BY <1>0, <2>4, <4>1, NobodyHolds DEF Accepted
      <4>2. CASE r.op = "releaseDelete"
        <5>1. entry.owner = r.owner /\ entry.rev = r.rev
          BY <2>1, <2>4, <4>2, AcceptedOwn
        <5>2. ~Holds(r.owner)
          BY <2>1, <4>2, <5>1 DEF LeaseInv, OwnerInv, NoLateDelete
        <5>. QED
          BY <5>1, <5>2, NobodyHolds
      <4>. QED
        BY <3>1, <4>1, <4>2
    <3>. QED
      BY <2>1, <2>4, <3>2, <3>3 DEF CooldownInv, Holds, Claimed, owner, history
  <2>. QED
    BY <2>1, <2>2, <2>3, <2>4, EffectCases DEF LeaseInv, TypeOK
<1>4. CASE Expire
  <2>1. \A p \in Owners : ~Holds(p)
    BY <1>4, ExpireKeeps
  <2>2. mode = "cooldown" => ~(quiet > 0)
    BY <1>0, <1>4 DEF Expire, CooldownInv, RecordStays, TypeOK
  <2>. QED
    BY <1>4, <2>1, <2>2 DEF Expire, CooldownInv, Holds, Claimed, owner, history
<1>5. CASE Tick
  <2>1. /\ entry'.owner = entry.owner /\ entry'.rev = entry.rev /\ entry'.left = Down(entry.left)
        /\ \A o \in Owners : age'[o] = Down(age[o]) /\ age[o] \in Nat
        /\ quiet' = Down(quiet) /\ quiet \in Nat
        /\ UNCHANGED <<mode, late, pc, answer, working, outcome>>
    BY <1>0, <1>5, Durations DEF Tick, TypeOK
  <2>2. \A m, n \in Nat : m <= n => Down(m) <= Down(n)
    BY DEF Down
  <2>3. Down(0) = 0 /\ (Down(quiet) > 0 => quiet > 0)
    BY <2>1 DEF Down
  <2>4. \A o \in Owners : Holds(o)' = Holds(o) /\ OwnerKeeps(o)' = OwnerKeeps(o)
    BY <2>1 DEF Holds, Claimed, OwnerKeeps
  <2>5. mode = "cooldown" => \A o \in Owners : Holds(o)' => age'[o] <= entry'.left
    <3>1. mode = "cooldown" => \A o \in Owners : Holds(o) => age[o] <= entry.left
      BY DEF CooldownInv
    <3>. QED
      BY <1>0, <2>1, <2>2, <2>4, <3>1
  <2>6. RecordStays => RecordStays'
    <3>1. quiet <= entry.left => quiet' <= entry'.left
      BY <1>0, <2>1, <2>2
    <3>. QED
      BY <2>1, <2>4, <3>1 DEF RecordStays
  <2>. QED
    BY <2>1, <2>3, <2>4, <2>5, <2>6 DEF CooldownInv
<1>6. CASE UNCHANGED vars
  BY <1>6 DEF vars, owner, history, CooldownInv, RecordStays, OwnerKeeps, Holds, Claimed
<1>. QED
  BY <1>1, <1>2, <1>3, <1>4, <1>5, <1>6 DEF Next, Step, Finish, OwnStep

(* After a successful run of TryRunWithCooldown nobody runs the work again  *)
(* within one TTL of the claim, whichever creates and deletes come late.    *)
THEOREM CooldownsHonoured == Spec => []CooldownHonoured
<1>1. CooldownInv => CooldownHonoured
  <2>. SUFFICES ASSUME CooldownInv, quiet > 0, NEW o \in Owners PROVE ~working[o]
    BY DEF CooldownHonoured
  <2>1. mode = "cooldown"
    BY DEF CooldownInv
  <2>. QED
    BY <2>1 DEF CooldownInv, RecordStays, Holds
<1>. QED
  BY <1>1, CooldownInit, CooldownStep, LeaseAlways, PTL DEF Spec
=============================================================================
