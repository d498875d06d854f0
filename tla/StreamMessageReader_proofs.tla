--------------------- MODULE StreamMessageReader_proofs ---------------------
(***************************************************************************)
(* The cache of StreamMessageReader never takes a forgotten body back, for  *)
(* any number of readers, records, slots and invalidations.                 *)
(***************************************************************************)
EXTENDS StreamMessageReader, FiniteSetTheorems, TLAPS

(* The readers that hold a slot of readSemaphore.                           *)
Holders == {r \in Readers : pc[r] \in {"begin", "load", "store"}}

(* A slot is either free or held by exactly one reader.                     *)
SlotsAccounted ==
    /\ IsFiniteSet(Holders)
    /\ slots = MaxConcurrentReads - Cardinality(Holders)

(* TypeOK without the bound on slots, which follows from SlotsAccounted.    *)
TypeInv ==
    /\ deleted \subseteq Records
    /\ forgotten \subseteq deleted
    /\ cache \subseteq Records
    /\ generation \in Nat
    /\ clears \in 0 .. MaxClears
    /\ slots \in Int
    /\ pc \in [Readers -> {"idle", "lookup", "acquire", "begin", "load", "store",
                           "served", "error"}]
    /\ seq \in [Readers -> Records]
    /\ gen \in [Readers -> Nat]
    /\ late \in [Readers -> BOOLEAN]

(* A read that has loaded its record and still has the current generation   *)
(* loaded it before any Forget of that record; and a captured generation is *)
(* never ahead, so that an invalidation always outdates it.                 *)
LoadedIsFresh ==
    \A r \in Readers :
        /\ gen[r] <= generation
        /\ pc[r] = "store" /\ gen[r] = generation => seq[r] \notin forgotten

(* A read that began after its record was forgotten finds it nowhere.       *)
LateFindsNothing ==
    \A r \in Readers : late[r] => seq[r] \in forgotten /\ pc[r] \notin {"store", "served"}

Inv == TypeInv /\ LoadedIsFresh /\ ForgottenStaysOut /\ LateFindsNothing

(* Every step keeps the fields well typed.                                  *)
LEMMA TypeStep == ASSUME TypeInv, [Next]_vars PROVE TypeInv'
<1> USE ReaderAssumption DEF TypeInv, Goto, reads, Release
<1>1. ASSUME NEW r \in Readers, Begin(r) PROVE TypeInv'
  BY <1>1 DEF Begin
<1>2. ASSUME NEW r \in Readers, Lookup(r) PROVE TypeInv'
  BY <1>2 DEF Lookup
<1>3. ASSUME NEW r \in Readers, BeginRead(r) PROVE TypeInv'
  BY <1>3 DEF BeginRead
<1>4. ASSUME NEW r \in Readers, Load(r) PROVE TypeInv'
  BY <1>4 DEF Load
<1>5. ASSUME NEW r \in Readers, Store(r) PROVE TypeInv'
  BY <1>5 DEF Store
<1>6. ASSUME NEW r \in Readers, Acquire(r) \/ CancelAcquire(r) \/ Finish(r) PROVE TypeInv'
  BY <1>6 DEF Acquire, CancelAcquire, Finish
<1>7. ASSUME NEW q \in Records, SecureDelete(q) \/ Forget(q) \/ Evict(q) PROVE TypeInv'
  BY <1>7 DEF SecureDelete, Forget, Evict
<1>8. CASE Clear
  BY <1>8 DEF Clear
<1>9. CASE UNCHANGED vars
  BY <1>9 DEF vars
<1> QED
  BY <1>1, <1>2, <1>3, <1>4, <1>5, <1>6, <1>7, <1>8, <1>9 DEF Next, Read

(* The invariant holds at the start and every step keeps it.                *)
LEMMA InvInit == Init => Inv
BY ReaderAssumption DEF Init, Inv, TypeInv, LoadedIsFresh, ForgottenStaysOut, LateFindsNothing

LEMMA InvStep == ASSUME Inv, [Next]_vars PROVE Inv'
<1>0. TypeInv'
  BY TypeStep DEF Inv
<1> USE DEF Inv, LoadedIsFresh, ForgottenStaysOut, LateFindsNothing, TypeInv, Goto, reads
<1>1. ASSUME NEW r \in Readers, Begin(r) PROVE Inv'
  <2>1. PICK q \in Records :
           seq' = [seq EXCEPT ![r] = q] /\ late' = [late EXCEPT ![r] = q \in forgotten]
    BY <1>1 DEF Begin
  <2>2. /\ forgotten' = forgotten /\ cache' = cache /\ generation' = generation /\ gen' = gen
        /\ pc' = [pc EXCEPT ![r] = "lookup"]
    BY <1>1 DEF Begin
  <2>3. late'[r] = (q \in forgotten) /\ seq'[r] = q /\ pc'[r] = "lookup"
    BY <2>1, <2>2
  <2>4. ASSUME NEW x \in Readers, late'[x]
        PROVE  seq'[x] \in forgotten /\ pc'[x] \notin {"store", "served"}
    <3>1. CASE x = r
      BY <2>3, <2>4, <3>1
    <3>2. CASE x # r
      BY <2>1, <2>2, <2>4, <3>2
    <3> QED
      BY <3>1, <3>2
  <2>5. LoadedIsFresh'
    BY <2>1, <2>2
  <2> QED
    BY <1>0, <2>2, <2>4, <2>5
<1>2. ASSUME NEW r \in Readers, Lookup(r) PROVE Inv'
  BY <1>0, <1>2 DEF Lookup
<1>3. ASSUME NEW r \in Readers, BeginRead(r) PROVE Inv'
  BY <1>0, <1>3 DEF BeginRead
<1>4. ASSUME NEW r \in Readers, Load(r) PROVE Inv'
  BY <1>0, <1>4 DEF Load
<1>5. ASSUME NEW r \in Readers, Store(r) PROVE Inv'
  BY <1>0, <1>5 DEF Store, Current
<1>6. ASSUME NEW r \in Readers, Acquire(r) \/ CancelAcquire(r) \/ Finish(r) PROVE Inv'
  BY <1>0, <1>6 DEF Acquire, CancelAcquire, Finish
<1>7. ASSUME NEW q \in Records, SecureDelete(q) \/ Forget(q) \/ Evict(q) PROVE Inv'
  BY <1>0, <1>7 DEF SecureDelete, Forget, Evict
<1>8. CASE Clear
  BY <1>0, <1>8 DEF Clear
<1>9. CASE UNCHANGED vars
  BY <1>0, <1>9 DEF vars
<1> QED
  BY <1>1, <1>2, <1>3, <1>4, <1>5, <1>6, <1>7, <1>8, <1>9 DEF Next, Read

LEMMA InvAlways == Spec => []Inv
BY InvInit, InvStep, PTL DEF Spec

(* A deleted body that was forgotten never enters the cache again.          *)
THEOREM ForgottenNeverCached == Spec => []ForgottenStaysOut
<1>1. Inv => ForgottenStaysOut
  BY DEF Inv
<1> QED
  BY <1>1, InvAlways, PTL

(* A read that begins after that never returns the body.                    *)
THEOREM ForgottenNeverRead == Spec => []NoReadAfterForget
<1>1. Inv => NoReadAfterForget
  BY DEF Inv, LateFindsNothing, NoReadAfterForget
<1> QED
  BY <1>1, InvAlways, PTL

(* Acquire takes one slot for one reader; every return gives it back.       *)
LEMMA SlotsStep ==
    ASSUME TypeInv, TypeInv', SlotsAccounted, [Next]_vars
    PROVE  SlotsAccounted'
<1> USE ReaderAssumption DEF SlotsAccounted
<1>1. Cardinality(Holders) \in Nat
  BY FS_CardinalityType
<1>2. CASE Holders' = Holders /\ slots' = slots
  BY <1>2
<1>3. ASSUME NEW r \in Readers, r \notin Holders, Holders' = Holders \cup {r}, slots' = slots - 1
      PROVE  SlotsAccounted'
  BY <1>1, <1>3, FS_AddElement
<1>4. ASSUME NEW r \in Readers, r \in Holders, Holders' = Holders \ {r}, slots' = slots + 1
      PROVE  SlotsAccounted'
  <2>1. IsFiniteSet(Holders \ {r}) /\ Cardinality(Holders \ {r}) = Cardinality(Holders) - 1
    BY <1>4, FS_RemoveElement
  <2> QED
    BY <1>1, <1>4, <2>1
<1>5. ASSUME NEW r \in Readers,
             Begin(r) \/ Lookup(r) \/ CancelAcquire(r) \/ Finish(r)
      PROVE  Holders' = Holders /\ slots' = slots
  BY <1>5 DEF TypeInv, Holders, Goto, Begin, Lookup, CancelAcquire, Finish
<1>6. ASSUME NEW r \in Readers, Acquire(r) PROVE SlotsAccounted'
  <2>1. r \notin Holders /\ Holders' = Holders \cup {r} /\ slots' = slots - 1
    BY <1>6 DEF TypeInv, Holders, Goto, Acquire
  <2> QED
    BY <2>1, <1>3
<1>7. ASSUME NEW r \in Readers, BeginRead(r) \/ Load(r) \/ Store(r)
      PROVE  SlotsAccounted'
  <2>1. \/ Holders' = Holders /\ slots' = slots
        \/ r \in Holders /\ Holders' = Holders \ {r} /\ slots' = slots + 1
    BY <1>7 DEF TypeInv, Holders, Goto, BeginRead, Load, Store, Release
  <2> QED
    BY <2>1, <1>2, <1>4
<1>8. ASSUME NEW q \in Records, SecureDelete(q) \/ Forget(q) \/ Evict(q)
      PROVE  Holders' = Holders /\ slots' = slots
  BY <1>8 DEF Holders, reads, SecureDelete, Forget, Evict
<1>9. CASE Clear \/ UNCHANGED vars
  <2>1. Holders' = Holders /\ slots' = slots
    BY <1>9 DEF Holders, reads, Clear, vars
  <2> QED
    BY <2>1, <1>2
<1> QED
  BY <1>2, <1>5, <1>6, <1>7, <1>8, <1>9 DEF Next, Read

(* Every field has its type, and readSemaphore neither runs below zero nor  *)
(* grows beyond its capacity.                                               *)
THEOREM TypeCorrect == Spec => []TypeOK
<1>1. Init => SlotsAccounted
  <2>1. Init => Holders = {}
    BY DEF Init, Holders
  <2> QED
    BY <2>1, FS_EmptySet, ReaderAssumption DEF Init, SlotsAccounted
<1>2. Init => slots >= 0
  BY ReaderAssumption DEF Init
<1>3. Inv /\ SlotsAccounted /\ slots >= 0 /\ [Next]_vars => (SlotsAccounted /\ slots >= 0)'
  <2> SUFFICES ASSUME Inv, SlotsAccounted, slots >= 0, [Next]_vars
               PROVE  (SlotsAccounted /\ slots >= 0)'
    OBVIOUS
  <2>1. SlotsAccounted'
    BY SlotsStep, TypeStep DEF Inv
  <2>2. slots \in Nat
    BY DEF Inv, TypeInv
  <2>3. slots' >= 0
    BY <2>2 DEF Next, Read, vars, reads, Goto, Release, Begin, Lookup, Acquire, CancelAcquire,
       BeginRead, Load, Store, Finish, SecureDelete, Forget, Evict, Clear
  <2> QED
    BY <2>1, <2>3
<1>4. Inv /\ SlotsAccounted /\ slots >= 0 => TypeOK
  <2> SUFFICES ASSUME Inv, SlotsAccounted, slots >= 0 PROVE TypeOK
    OBVIOUS
  <2>1. Cardinality(Holders) \in Nat
    BY FS_CardinalityType DEF SlotsAccounted
  <2>2. slots \in 0 .. MaxConcurrentReads
    BY <2>1, ReaderAssumption DEF SlotsAccounted, Inv, TypeInv
  <2> QED
    BY <2>2 DEF Inv, TypeInv, TypeOK
<1> QED
  BY <1>1, <1>2, <1>3, <1>4, InvAlways, PTL DEF Spec
=============================================================================
