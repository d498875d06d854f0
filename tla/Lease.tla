-------------------------------- MODULE Lease --------------------------------
(***************************************************************************)
(* Lease of cli/internal/lease: one KV record with a TTL that decides which *)
(* process does a singleton job, used through Run, TryRun or                *)
(* TryRunWithCooldown.                                                      *)
(*                                                                         *)
(* Every write of the record is a request: the server (external) applies    *)
(* it, the answer arrives later, and the caller may see an error or a       *)
(* timeout in its place, before or after the request was applied. An        *)
(* abandoned write may be applied at any later time. A read takes its time  *)
(* before it looks at the record; what it saw may be stale when the write   *)
(* that follows is applied. Processes crash; a restarted one has a new      *)
(* owner ID and counts as another owner.                                    *)
(*                                                                         *)
(* Time is discrete. Timers count down with Tick, which waits for whoever   *)
(* has to act at this instant: requests end within RequestTimeout (the      *)
(* default timeout of the NATS client), a leader reacts to its ticker, and  *)
(* cancelled work stops within StopBound. Only the order of KV revisions on *)
(* one record matters, so a revision nobody refers to any more is reused.   *)
(*                                                                         *)
(* An operator Name_Variant is a mistaken form of the operator Name that    *)
(* follows it; it is not part of the specification and shows that a         *)
(* property can fail.                                                       *)
(***************************************************************************)
EXTENDS Integers

CONSTANTS
    Owners,           \* processes, by owner ID
    NoOne,            \* owner of the absent record
    Revisions,        \* KV revisions
    TTL,              \* ttl
    RenewEvery,       \* renewEvery
    RetryEvery,       \* retryEvery
    RequestTimeout,   \* longest duration of a KV request, and of a release
    StopBound,        \* longest time cancelled work takes to return
    WorkBound,        \* longest runtime of work that runs with a cooldown
    MaxFaults,        \* failed requests and ended contexts (bound)
    MaxCrashes        \* crashes (bound)

ASSUME LeaseAssumption ==
    /\ NoOne \notin Owners
    /\ Revisions \subseteq Nat \ {0}
    /\ {TTL, RenewEvery, RetryEvery, RequestTimeout, StopBound, WorkBound} \subseteq Nat \ {0}
    /\ {MaxFaults, MaxCrashes} \subseteq Nat
    /\ RenewEvery < TTL

(* What a caller must respect for its work to be exclusive: from the write  *)
(* of a record, the answer, one renewal interval, the two requests of a     *)
(* failing renewal and the end of the work fit into the TTL. Outside of it  *)
(* the package promises nothing: it is "deliberately a coordination         *)
(* primitive, not a consensus or fencing layer", and "callers still need    *)
(* idempotent work and durable OCC-protected writes for correctness if      *)
(* leadership changes, a lease expires, or two processes race near a        *)
(* renewal boundary" (lease.go:4-7).                                        *)
ASSUME ExclusionAssumption ==
    /\ RenewEvery + 3 * RequestTimeout + StopBound < TTL
    /\ RequestTimeout + WorkBound < TTL

VARIABLES
    mode,         \* how this lease is used: "run", "try" or "cooldown"
    entry,        \* the KV record: owner, revision, time left to live
    late,         \* abandoned requests that may still be applied
    pc,           \* where each owner is
    answer,       \* the server's answer to its write: "none", "yes", "no"
    read,         \* the revision its last Get returned
    wait,         \* time left of its request, pause or work
    tick,         \* time to the next tick of its renewal ticker
    due,          \* a tick is in the ticker's channel
    ended,        \* its caller's context has ended
    working,      \* its work is running
    outcome,      \* what its work returned
    age,          \* cooldown: time left until its claim is one TTL old
    quiet,        \* cooldown: time left of the last successful run's cooldown
    faults,
    crashes

owner == <<pc, answer, read, wait, tick, due, ended, working, outcome>>
history == <<age, quiet, faults, crashes>>
vars == <<mode, entry, late, owner, history>>

NoRevision == 0
NoEntry == [owner |-> NoOne, rev |-> NoRevision, left |-> 0]

Gets == {"acquireGet", "renewGet", "releaseGet"}
Writes == {"create", "acquireUpdate", "renewUpdate", "releaseDelete"}
Requests == Gets \cup Writes
Leading == {"lead", "renewGet", "renewUpdate"}
Places == Requests \cup {"idle", "sleep", "lead", "work", "losing", "stopping", "down"}

Init ==
    /\ mode \in {"run", "try", "cooldown"}
    /\ entry = NoEntry
    /\ late = {}
    /\ pc = [o \in Owners |-> "idle"]
    /\ answer = [o \in Owners |-> "none"]
    /\ read = [o \in Owners |-> NoRevision]
    /\ wait = [o \in Owners |-> 0]
    /\ tick = [o \in Owners |-> 0]
    /\ due = [o \in Owners |-> FALSE]
    /\ ended = [o \in Owners |-> FALSE]
    /\ working = [o \in Owners |-> FALSE]
    /\ outcome = [o \in Owners |-> "ok"]
    /\ age = [o \in Owners |-> 0]
    /\ quiet = 0 /\ faults = 0 /\ crashes = 0

----------------------------------------------------------------------------
(* The KV bucket.                                                           *)

Referenced == {entry.rev} \cup {read[o] : o \in Owners} \cup {r.rev : r \in late}
Fresh == CHOOSE r \in Revisions : r \notin Referenced

(* The bound on revisions: a write needs one that nobody refers to.         *)
RevisionLeft == \E r \in Revisions : r \notin Referenced

(* The payload of marshalRecord, stored with the lease's TTL.               *)
Record_NoTTL(o) == [owner |-> o, rev |-> Fresh, left |-> -1]
Record(o) == [owner |-> o, rev |-> Fresh, left |-> TTL]

(* Create needs an absent key; Update and Delete name the revision they     *)
(* replace.                                                                 *)
Accepted(op, rev) ==
    IF op = "create" THEN entry.owner = NoOne ELSE entry.owner # NoOne /\ entry.rev = rev

Effect(op, o, rev) ==
    /\ RevisionLeft
    /\ entry' = IF ~Accepted(op, rev) THEN entry
                ELSE IF op = "releaseDelete" THEN NoEntry ELSE Record(o)

Apply(o) ==
    /\ pc[o] \in Writes /\ answer[o] = "none"
    /\ Effect(pc[o], o, read[o])
    /\ answer' = [answer EXCEPT ![o] = IF Accepted(pc[o], read[o]) THEN "yes" ELSE "no"]
    /\ read' = [read EXCEPT ![o] = NoRevision]
    /\ age' = [age EXCEPT ![o] = IF /\ mode = "cooldown" /\ pc[o] = "create"
                                    /\ Accepted("create", NoRevision)
                                 THEN TTL ELSE @]
    /\ UNCHANGED <<mode, late, pc, wait, tick, due, ended, working, outcome, quiet, faults, crashes>>

ApplyLate(r) ==
    /\ Effect(r.op, r.owner, r.rev)
    /\ late' = late \ {r}
    /\ UNCHANGED <<mode, owner, history>>

Expire ==
    /\ entry.owner # NoOne /\ entry.left = 0
    /\ entry' = NoEntry
    /\ UNCHANGED <<mode, late, owner, history>>

----------------------------------------------------------------------------
(* Steps of an owner. Goto also starts the timer of the place it goes to.   *)

Duration(place) ==
    CASE place = "sleep" -> RetryEvery
      [] place \in Requests -> RequestTimeout
      [] place \in {"losing", "stopping"} -> StopBound
      [] place = "work" -> WorkBound
      [] OTHER -> 0

Goto(o, place) ==
    /\ pc' = [pc EXCEPT ![o] = place]
    /\ wait' = [wait EXCEPT ![o] = Duration(place)]
    /\ answer' = [answer EXCEPT ![o] = "none"]

(* Leave the current function: what it read, its ticker and the result it   *)
(* no longer needs are gone.                                                *)
Leave(o, place) ==
    /\ Goto(o, place)
    /\ read' = [read EXCEPT ![o] = NoRevision]
    /\ ended' = [ended EXCEPT ![o] = @ /\ place # "idle"]
    /\ outcome' = [outcome EXCEPT ![o] = IF place = "releaseGet" THEN @ ELSE "ok"]
    /\ tick' = [tick EXCEPT ![o] = 0]
    /\ due' = [due EXCEPT ![o] = FALSE]
    /\ UNCHANGED working

(* TryAcquire without success: Run sleeps, TryRun returns.                  *)
NotAcquired(o) == Leave(o, IF mode = "run" THEN "sleep" ELSE "idle")

(* runAsLeader starts the work and its renewal ticker; TryRunWithCooldown   *)
(* calls the work.                                                          *)
Lead(o) ==
    /\ Goto(o, IF mode = "cooldown" THEN "work" ELSE "lead")
    /\ working' = [working EXCEPT ![o] = TRUE]
    /\ tick' = [tick EXCEPT ![o] = IF mode = "cooldown" THEN 0 ELSE RenewEvery]
    /\ due' = [due EXCEPT ![o] = FALSE]
    /\ read' = [read EXCEPT ![o] = NoRevision]
    /\ UNCHANGED <<ended, outcome>>

(* Run, TryRun and TryRunWithCooldown check the context and try to create   *)
(* the record.                                                              *)
Call(o) ==
    /\ pc[o] = "idle"
    /\ Goto(o, "create")
    /\ UNCHANGED <<mode, entry, late, read, tick, due, ended, working, outcome, history>>

Acquired(o) ==
    /\ pc[o] \in {"create", "acquireUpdate"} /\ answer[o] = "yes"
    /\ Lead(o)
    /\ UNCHANGED <<mode, entry, late, history>>

(* The record exists, or changed after it was read.                         *)
Refused(o) ==
    /\ pc[o] \in {"create", "acquireUpdate"} /\ answer[o] = "no"
    /\ IF pc[o] = "create" /\ mode # "cooldown"
       THEN Leave(o, "acquireGet")
       ELSE NotAcquired(o)
    /\ UNCHANGED <<mode, entry, late, history>>

(* The pause before the next attempt of Run, which the context may cut off. *)
Wake(o) ==
    /\ pc[o] = "sleep" /\ (wait[o] = 0 \/ ended[o])
    /\ Leave(o, IF ended[o] THEN "idle" ELSE "create")
    /\ UNCHANGED <<mode, entry, late, history>>

----------------------------------------------------------------------------
(* runAsLeader: select over the work's result, the ticker and the context.  *)

RenewTick(o) ==
    /\ pc[o] = "lead" /\ due[o]
    /\ Goto(o, "renewGet")
    /\ due' = [due EXCEPT ![o] = FALSE]
    /\ UNCHANGED <<mode, entry, late, read, tick, ended, working, outcome, history>>

(* Renew returned an error, whichever: cancel the work and wait for it.     *)
Cancelled_KeepsLeading(o) == Leave(o, "lead")
Cancelled(o) == Leave(o, "losing")

KeepLeading(o) == Goto(o, "lead") /\ UNCHANGED <<read, tick, due, ended, working, outcome>>

(* That the update is rejected, ErrLost, is excluded by ExclusionAssumption.*)
Renewed(o) ==
    /\ pc[o] = "renewUpdate" /\ answer[o] # "none"
    /\ IF answer[o] = "yes" THEN KeepLeading(o) ELSE Cancelled(o)
    /\ UNCHANGED <<mode, entry, late, history>>

ContextDone(o) ==
    /\ pc[o] = "lead" /\ ended[o]
    /\ Leave(o, "stopping")
    /\ UNCHANGED <<mode, entry, late, history>>

(* <-errCh after a failed renewal: ErrLost, on which Run starts over and    *)
(* TryRun returns; nothing is released.                                     *)
Lost(o) ==
    /\ pc[o] = "losing" /\ ~working[o]
    /\ Leave(o, IF mode = "run" /\ ~ended[o] THEN "create" ELSE "idle")
    /\ UNCHANGED <<mode, entry, late, history>>

(* The work's result is in: by itself, or after the context ended and the   *)
(* work was waited for. A cooldown keeps the record when the work           *)
(* succeeded; otherwise the record is released.                             *)
KeepsRecord_Never(o) == FALSE
KeepsRecord(o) == mode = "cooldown" /\ outcome[o] = "ok"

WorkOver(o) == pc[o] \in {"lead", "work", "stopping"} /\ ~working[o]

WorkReturned(o) ==
    /\ WorkOver(o)
    /\ Leave(o, IF KeepsRecord(o) THEN "idle" ELSE "releaseGet")
    /\ UNCHANGED <<mode, entry, late, history>>

(* releaseBestEffort only logs an error. Run continues after ErrYield.      *)
AfterRelease(o) ==
    Leave(o, IF mode = "run" /\ outcome[o] = "yield" THEN "sleep" ELSE "idle")

Released(o) ==
    /\ pc[o] = "releaseDelete" /\ answer[o] # "none"
    /\ AfterRelease(o)
    /\ UNCHANGED <<mode, entry, late, history>>

(* The Get of TryAcquire, Renew and Release. Its owner's record is then     *)
(* updated, or deleted, at the revision that was read; one timeout covers   *)
(* both requests of a release. Without such a record there is nothing to    *)
(* reacquire, the lease is lost, or there is nothing to release.            *)
NotMine(o) ==
    CASE pc[o] = "acquireGet" -> NotAcquired(o)
      [] pc[o] = "renewGet" -> Cancelled(o)
      [] pc[o] = "releaseGet" -> AfterRelease(o)

WriteRead(o) ==
    /\ pc' = [pc EXCEPT ![o] = CASE @ = "acquireGet" -> "acquireUpdate"
                                 [] @ = "renewGet" -> "renewUpdate"
                                 [] @ = "releaseGet" -> "releaseDelete"]
    /\ wait' = [wait EXCEPT ![o] = IF pc[o] = "releaseGet" THEN @ ELSE RequestTimeout]
    /\ read' = [read EXCEPT ![o] = entry.rev]
    /\ UNCHANGED <<answer, tick, due, ended, working, outcome>>

Get(o) ==
    /\ pc[o] \in Gets
    /\ IF entry.owner = o THEN WriteRead(o) ELSE NotMine(o)
    /\ UNCHANGED <<mode, entry, late, history>>

(* A request reports an error: it failed, timed out, or its context ended.  *)
(* It may have been applied, may still be, or never will.                   *)
RequestError(o) ==
    /\ pc[o] \in Requests
    /\ IF ended[o] /\ pc[o] \notin {"releaseGet", "releaseDelete"}
       THEN UNCHANGED faults
       ELSE faults < MaxFaults /\ faults' = faults + 1
    /\ \/ UNCHANGED late
       \/ /\ pc[o] \in Writes /\ answer[o] = "none"
          /\ late' = late \cup {[op |-> pc[o], owner |-> o, rev |-> read[o]]}
    /\ CASE pc[o] \in {"create", "acquireGet", "acquireUpdate"} -> NotAcquired(o)
         [] pc[o] \in {"renewGet", "renewUpdate"} -> Cancelled(o)
         [] OTHER -> AfterRelease(o)
    /\ UNCHANGED <<mode, entry, age, quiet, crashes>>

----------------------------------------------------------------------------
(* The work, the callers' contexts and the processes.                       *)

(* The results the caller tells apart.                                      *)
Results ==
    CASE mode = "run" -> {"ok", "yield"}
      [] mode = "try" -> {"ok"}
      [] mode = "cooldown" -> {"ok", "error"}

WorkDone(o, result) ==
    /\ working[o]
    /\ working' = [working EXCEPT ![o] = FALSE]
    /\ outcome' = [outcome EXCEPT ![o] = IF pc[o] = "stopping" THEN "ok" ELSE result]
    /\ quiet' = IF mode = "cooldown" /\ result = "ok" THEN age[o] ELSE quiet
    /\ UNCHANGED <<mode, entry, late, pc, answer, read, wait, tick, due, ended, age, faults, crashes>>

ContextEnds(o) ==
    /\ pc[o] \notin {"idle", "down"} /\ ~ended[o]
    /\ faults < MaxFaults
    /\ faults' = faults + 1
    /\ ended' = [ended EXCEPT ![o] = TRUE]
    /\ UNCHANGED <<mode, entry, late, pc, answer, read, wait, tick, due, working, outcome,
                   age, quiet, crashes>>

Crash(o) ==
    /\ pc[o] # "down" /\ crashes < MaxCrashes
    /\ crashes' = crashes + 1
    /\ \/ UNCHANGED late
       \/ /\ pc[o] \in Writes /\ answer[o] = "none"
          /\ late' = late \cup {[op |-> pc[o], owner |-> o, rev |-> read[o]]}
    /\ Goto(o, "down")
    /\ read' = [read EXCEPT ![o] = NoRevision]
    /\ working' = [working EXCEPT ![o] = FALSE]
    /\ ended' = [ended EXCEPT ![o] = FALSE]
    /\ tick' = [tick EXCEPT ![o] = 0]
    /\ due' = [due EXCEPT ![o] = FALSE]
    /\ outcome' = [outcome EXCEPT ![o] = "ok"]
    /\ UNCHANGED <<mode, entry, age, quiet, faults>>

----------------------------------------------------------------------------
(* Time.                                                                    *)

Down(t) == IF t > 0 THEN t - 1 ELSE t

MayWait(o) ==
    CASE pc[o] \in Requests \cup {"losing", "stopping", "work"} -> wait[o] > 0
      [] pc[o] = "lead" -> working[o] /\ ~due[o] /\ ~ended[o]
      [] OTHER -> TRUE

Tick ==
    /\ \A o \in Owners : MayWait(o)
    /\ entry' = [entry EXCEPT !.left = Down(@)]
    /\ wait' = [o \in Owners |-> Down(wait[o])]
    /\ tick' = [o \in Owners |-> IF pc[o] \notin Leading THEN 0
                                 ELSE IF tick[o] = 1 THEN RenewEvery ELSE Down(tick[o])]
    /\ due' = [o \in Owners |-> pc[o] \in Leading /\ (due[o] \/ tick[o] = 1)]
    /\ age' = [o \in Owners |-> Down(age[o])]
    /\ quiet' = Down(quiet)
    /\ UNCHANGED <<mode, late, pc, answer, read, ended, working, outcome, faults, crashes>>

Step(o) ==
    \/ Apply(o) \/ Get(o)
    \/ Acquired(o) \/ Refused(o) \/ Wake(o)
    \/ RenewTick(o) \/ Renewed(o) \/ ContextDone(o) \/ Lost(o)
    \/ WorkReturned(o) \/ Released(o)
Finish(o) == \E result \in Results : WorkDone(o, result)

Next ==
    \/ \E o \in Owners : \/ Call(o) \/ Step(o) \/ RequestError(o)
                         \/ Finish(o) \/ ContextEnds(o) \/ Crash(o)
    \/ \E r \in late : ApplyLate(r)
    \/ Expire
    \/ Tick

Spec == Init /\ [][Next]_vars

(* Requests are answered, expired records are removed, work that must stop  *)
(* stops, every owner proceeds, and time passes. The select of runAsLeader  *)
(* chooses at random among its ready cases, so that the work's result is    *)
(* not passed over for ever.                                                *)
Fairness ==
    /\ \A o \in Owners :
         /\ WF_vars(Step(o))
         /\ SF_vars(WorkReturned(o))
         /\ WF_vars(pc[o] \in {"losing", "stopping", "work"} /\ Finish(o))
    /\ WF_vars(Expire)
    /\ WF_vars(Tick)

LiveSpec == Spec /\ Fairness

----------------------------------------------------------------------------
(* The types of the variables. A record never lives longer than its TTL,    *)
(* however it was written (lease.go, tryCreate and renewAtRevision).        *)
TypeOK ==
    /\ mode \in {"run", "try", "cooldown"}
    /\ entry \in [owner : Owners \cup {NoOne}, rev : Revisions \cup {NoRevision}, left : 0 .. TTL]
    /\ late \subseteq [op : Writes, owner : Owners, rev : Revisions \cup {NoRevision}]
    /\ pc \in [Owners -> Places]
    /\ answer \in [Owners -> {"none", "yes", "no"}]
    /\ read \in [Owners -> Revisions \cup {NoRevision}]
    /\ wait \in [Owners -> Nat]
    /\ tick \in [Owners -> 0 .. RenewEvery]
    /\ due \in [Owners -> BOOLEAN]
    /\ ended \in [Owners -> BOOLEAN]
    /\ working \in [Owners -> BOOLEAN]
    /\ outcome \in [Owners -> {"ok", "error", "yield"}]
    /\ age \in [Owners -> 0 .. TTL]
    /\ quiet \in 0 .. TTL
    /\ faults \in 0 .. MaxFaults /\ crashes \in 0 .. MaxCrashes

(* The lease as ExclusiveWork: the holder is the owner of the live record.  *)
Workers == {o \in Owners : working[o]}
Ideal == INSTANCE ExclusiveWork WITH holder <- entry.owner, workers <- Workers

(* Work of two processes never overlaps, begins only while its process      *)
(* holds the record, and is over before the record is released, taken over  *)
(* or expires, whichever requests are lost, late or reported as failed      *)
(* (runAsLeader cancels the work and waits for it on any failed renewal;    *)
(* writes name the revision they replace).                                  *)
WorkIsExclusive == Ideal!Spec

(* After a successful run of TryRunWithCooldown nobody runs the work again  *)
(* before the claim is one TTL old, not even after late deletes and creates *)
(* of other runs.                                                           *)
CooldownHonoured == quiet > 0 => \A o \in Owners : ~working[o]

(* A process inside Run does not wait for ever while nobody works: when the *)
(* leader crashed or lost its record, the record expires and somebody leads.*)
Succession ==
    \A o \in Owners :
        (mode = "run" /\ pc[o] \notin {"idle", "down"})
            ~> (pc[o] \in {"idle", "down"} \/ \E p \in Owners : working[p])
=============================================================================
