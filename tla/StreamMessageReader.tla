------------------------ MODULE StreamMessageReader ------------------------
(***************************************************************************)
(* StreamMessageReader of pkg/events: exact reads of stream sequences with  *)
(* a process-local cache, and secureDeleteMessageBodyEvents of ChattoCore,  *)
(* which deletes a message body from the stream and then forgets it here.   *)
(* A read that is under way while the body is deleted must not put it back  *)
(* into the cache.                                                          *)
(*                                                                         *)
(* An operator Name_Variant is a mistaken form of the operator Name that    *)
(* follows it; it is not part of the specification and shows that a         *)
(* property can fail.                                                       *)
(***************************************************************************)
EXTENDS Integers

CONSTANTS
    Readers,              \* goroutines inside Message or Messages
    Records,              \* stream sequences
    MaxConcurrentReads,   \* capacity of readSemaphore
    MaxClears             \* number of Clear calls (bound)

ASSUME ReaderAssumption ==
    /\ MaxConcurrentReads \in Nat \ {0}
    /\ MaxClears \in Nat

VARIABLES
    deleted,      \* sequences deleted from the stream
    forgotten,    \* deleted sequences for which Forget has returned since
    cache,        \* sequences whose record is cached
    generation,   \* cacheGeneration
    clears,       \* number of Clear calls
    slots,        \* free slots of readSemaphore
    pc,           \* where each read is
    seq,          \* the sequence it reads
    gen,          \* the generation it captured
    late          \* its sequence was forgotten before the read began

reads == <<pc, seq, gen, late>>
vars == <<deleted, forgotten, cache, generation, clears, slots, reads>>

Init ==
    /\ deleted = {} /\ forgotten = {} /\ cache = {}
    /\ generation = 0 /\ clears = 0
    /\ slots = MaxConcurrentReads
    /\ pc = [r \in Readers |-> "idle"]
    /\ seq \in [Readers -> Records]
    /\ gen = [r \in Readers |-> 0]
    /\ late = [r \in Readers |-> FALSE]

Goto(r, to) == pc' = [pc EXCEPT ![r] = to]

----------------------------------------------------------------------------
(* message                                                                  *)

Begin(r) ==
    /\ pc[r] = "idle"
    /\ \E q \in Records :
         /\ seq' = [seq EXCEPT ![r] = q]
         /\ late' = [late EXCEPT ![r] = q \in forgotten]
    /\ Goto(r, "lookup")
    /\ UNCHANGED <<deleted, forgotten, cache, generation, clears, slots, gen>>

(* cached, without invalidationMu.                                          *)
Lookup(r) ==
    /\ pc[r] = "lookup"
    /\ Goto(r, IF seq[r] \in cache THEN "served" ELSE "acquire")
    /\ UNCHANGED <<deleted, forgotten, cache, generation, clears, slots, seq, gen, late>>

Acquire(r) ==
    /\ pc[r] = "acquire"
    /\ slots > 0
    /\ slots' = slots - 1
    /\ Goto(r, "begin")
    /\ UNCHANGED <<deleted, forgotten, cache, generation, clears, seq, gen, late>>

(* The context ends while the read waits for a slot.                        *)
CancelAcquire(r) ==
    /\ pc[r] = "acquire"
    /\ Goto(r, "error")
    /\ UNCHANGED <<deleted, forgotten, cache, generation, clears, slots, seq, gen, late>>

(* The deferred release of the slot, on every return after Acquire.         *)
Release_Twice(to) == slots + 2
Release_OnlyLoaded(to) == IF to = "served" THEN slots + 1 ELSE slots
Release(to) == slots + 1

(* cachedOrBeginRead: one lookup and the capture of the generation, under   *)
(* invalidationMu.                                                          *)
BeginRead(r) ==
    /\ pc[r] = "begin"
    /\ IF seq[r] \in cache
       THEN Goto(r, "served") /\ slots' = Release("served") /\ UNCHANGED gen
       ELSE Goto(r, "load") /\ gen' = [gen EXCEPT ![r] = generation] /\ UNCHANGED slots
    /\ UNCHANGED <<deleted, forgotten, cache, generation, clears, seq, late>>

(* GetMsg of the stream; it may also fail for a message that exists.        *)
Load(r) ==
    /\ pc[r] = "load"
    /\ \/ /\ seq[r] \notin deleted
          /\ Goto(r, "store")
          /\ UNCHANGED slots
       \/ /\ Goto(r, "error")
          /\ slots' = Release("error")
    /\ UNCHANGED <<deleted, forgotten, cache, generation, clears, seq, gen, late>>

(* storeIfCurrent                                                           *)
Current_Unchecked(r) == TRUE
Current(r) == gen[r] = generation

Store(r) ==
    /\ pc[r] = "store"
    /\ cache' = IF Current(r) THEN cache \cup {seq[r]} ELSE cache
    /\ Goto(r, "served")
    /\ slots' = Release("served")
    /\ UNCHANGED <<deleted, forgotten, generation, clears, seq, gen, late>>

(* The caller has its record or its error and may read again.               *)
Finish(r) ==
    /\ pc[r] \in {"served", "error"}
    /\ Goto(r, "idle")
    /\ UNCHANGED <<deleted, forgotten, cache, generation, clears, slots, seq, gen, late>>

----------------------------------------------------------------------------
(* Invalidation.                                                            *)

(* SecureDeleteMsg; when it fails, nothing is forgotten.                    *)
SecureDelete(q) ==
    /\ q \notin deleted
    /\ deleted' = deleted \cup {q}
    /\ UNCHANGED <<forgotten, cache, generation, clears, slots, reads>>

Forget(q) ==
    /\ q \in deleted \ forgotten
    /\ generation' = generation + 1
    /\ cache' = cache \ {q}
    /\ forgotten' = forgotten \cup {q}
    /\ UNCHANGED <<deleted, clears, slots, reads>>

Clear ==
    /\ clears < MaxClears
    /\ clears' = clears + 1
    /\ generation' = generation + 1
    /\ cache' = {}
    /\ UNCHANGED <<deleted, forgotten, slots, reads>>

(* Least-recently-used eviction and idle expiry.                            *)
Evict(q) ==
    /\ q \in cache
    /\ cache' = cache \ {q}
    /\ UNCHANGED <<deleted, forgotten, generation, clears, slots, reads>>

----------------------------------------------------------------------------
Read(r) == Lookup(r) \/ BeginRead(r) \/ Load(r) \/ Store(r)

Next ==
    \/ \E r \in Readers :
         Begin(r) \/ Read(r) \/ Acquire(r) \/ CancelAcquire(r) \/ Finish(r)
    \/ \E q \in Records : SecureDelete(q) \/ Forget(q) \/ Evict(q)
    \/ Clear

Spec == Init /\ [][Next]_vars

(* A read keeps running; waiting for a slot is first come, first served.    *)
FairSpec ==
    /\ Spec
    /\ \A r \in Readers : WF_vars(Read(r)) /\ SF_vars(Acquire(r))

----------------------------------------------------------------------------
(* Properties.                                                              *)

(* Every field has its type; no more slots are free than there are.         *)
TypeOK ==
    /\ deleted \subseteq Records
    /\ forgotten \subseteq deleted
    /\ cache \subseteq Records
    /\ generation \in Nat
    /\ clears \in 0 .. MaxClears
    /\ slots \in 0 .. MaxConcurrentReads
    /\ pc \in [Readers -> {"idle", "lookup", "acquire", "begin", "load", "store",
                           "served", "error"}]
    /\ seq \in [Readers -> Records]
    /\ gen \in [Readers -> Nat]
    /\ late \in [Readers -> BOOLEAN]

(* Once a deleted body has been forgotten it never enters the cache again,  *)
(* not even through a read that was under way.                              *)
ForgottenStaysOut == forgotten \cap cache = {}

(* A read that begins after a body was deleted and forgotten never returns  *)
(* the body.                                                                *)
NoReadAfterForget == \A r \in Readers : late[r] => pc[r] # "served"

(* Every read ends: each path gives its slot back.                          *)
ReadsReturn ==
    \A r \in Readers : (pc[r] = "acquire") ~> (pc[r] \in {"served", "error"})
=============================================================================
