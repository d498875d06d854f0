-------------------------- MODULE SnapshotRepository --------------------------
(***************************************************************************)
(* Repository of cli/internal/projectionsnapshot: snapshot generations in a *)
(* blob store and one pointer record that names the current and the         *)
(* previous generation. Several processes save and load one projection;     *)
(* generations that were dropped from the pointer are deleted, and so are   *)
(* those of failed saves and, by age, those Expire finds.                   *)
(*                                                                         *)
(* A cohort is a manifest and its parts, stored as separate blobs. Save and *)
(* Load are SaveCohort and LoadCohort for a cohort without parts. Payloads, *)
(* encryption and checksums are left out: a blob is intact or absent.       *)
(*                                                                         *)
(* An operator Name_Variant is a mistaken form of the operator Name that    *)
(* follows it; it is not part of the specification and shows that a         *)
(* property can fail.                                                       *)
(***************************************************************************)
EXTENDS Integers, FiniteSets

CONSTANTS
    Savers,
    Loaders,
    MaxGenerations,   \* number of saves (bound)
    Parts,            \* parts of a cohort
    Manifest,
    Ranges,           \* what a snapshot may cover: cutoff sequence and stream identity
    MaxFaults         \* failed requests, crashes, expired generations (bound)

ASSUME RepositoryAssumption ==
    /\ MaxGenerations \in Nat /\ MaxFaults \in Nat
    /\ Ranges \subseteq [cutoff : Nat, identity : Nat]
    /\ Manifest \notin Parts

VARIABLES
    blobs,      \* stored objects, as generation and object
    pointer,    \* current and previous generation, or NoGeneration
    info,       \* what each generation covers: cutoff, stream identity
    used,       \* number of generations begun
    late,       \* pointer writes that were abandoned and may still be applied
    old,        \* generations past their retention
    pc,         \* where each saver is
    gen,        \* the generation it saves
    base,       \* the pointer it read
    written,    \* objects of gen it has stored (writtenKeys), less those deleted
    load,       \* each loader: place, input, pointer read, generation, parts left
    saved,      \* a save has returned success
    faults

saver == <<pc, gen, base, written>>
vars == <<blobs, pointer, info, used, late, old, saver, load, saved, faults>>

Generations == 1 .. MaxGenerations
NoGeneration == 0
Slots == Generations \cup {NoGeneration}
NoPointer == [cur |-> NoGeneration, prev |-> NoGeneration]
Pointers == {p \in [cur : Slots, prev : Slots] : p = NoPointer \/ p.prev < p.cur}
Objects == Parts \cup {Manifest}
Nothing == [cutoff |-> 0, identity |-> 0]
NotLoading == [at |-> "idle", range |-> Nothing, base |-> NoPointer,
               gen |-> NoGeneration, left |-> {}, publications |-> 0]

Init ==
    /\ blobs = {}
    /\ pointer = NoPointer
    /\ info = [g \in Generations |-> Nothing]
    /\ used = 0
    /\ late = {}
    /\ old = {}
    /\ pc = [s \in Savers |-> "idle"]
    /\ gen = [s \in Savers |-> NoGeneration]
    /\ base = [s \in Savers |-> NoPointer]
    /\ written = [s \in Savers |-> {}]
    /\ load = [l \in Loaders |-> NotLoading]
    /\ saved = FALSE
    /\ faults = 0

Fault == faults < MaxFaults /\ faults' = faults + 1
Goto(s, place) == pc' = [pc EXCEPT ![s] = place] /\ UNCHANGED <<gen, base>>

(* The save returns.                                                        *)
End(s) ==
    /\ pc' = [pc EXCEPT ![s] = "idle"]
    /\ gen' = [gen EXCEPT ![s] = NoGeneration]
    /\ base' = [base EXCEPT ![s] = NoPointer]
    /\ written' = [written EXCEPT ![s] = {}]

Complete(g) == \A o \in Objects : <<g, o>> \in blobs

----------------------------------------------------------------------------
(* SaveCohort                                                               *)

(* The snapshot is older than the current generation of its stream.         *)
Regressed_Unchecked(range) == FALSE
Regressed(range) ==
    /\ pointer.cur # NoGeneration
    /\ info[pointer.cur].identity = range.identity
    /\ range.cutoff < info[pointer.cur].cutoff

(* Read the pointer, an absent or invalid one as empty. A regressed save    *)
(* returns at once, and so does one that finds the current generation fresh *)
(* and intact; neither changes anything.                                    *)
Save(s) ==
    /\ pc[s] = "idle" /\ used < MaxGenerations
    /\ \E range \in Ranges :
         /\ ~Regressed(range)
         /\ info' = [info EXCEPT ![used + 1] = range]
    /\ used' = used + 1
    /\ gen' = [gen EXCEPT ![s] = used + 1]
    /\ base' = [base EXCEPT ![s] = pointer]
    /\ written' = [written EXCEPT ![s] = {}]
    /\ pc' = [pc EXCEPT ![s] = "write"]
    /\ UNCHANGED <<blobs, pointer, late, old, load, saved, faults>>

(* Parts first, the manifest last.                                          *)
NextObjects(s) == IF Parts \subseteq written[s] THEN {Manifest} ELSE Parts \ written[s]

Put(s) ==
    /\ pc[s] = "write"
    /\ \E o \in NextObjects(s) :
         /\ blobs' = blobs \cup {<<gen[s], o>>}
         /\ written' = [written EXCEPT ![s] = @ \cup {o}]
         /\ Goto(s, IF o = Manifest THEN "publish" ELSE "write")
    /\ UNCHANGED <<pointer, info, used, late, old, load, saved, faults>>

(* A Put reports an error, stored or not: the objects known to be written   *)
(* are deleted.                                                             *)
PutError(s) ==
    /\ pc[s] = "write" /\ Fault
    /\ \E o \in NextObjects(s) : blobs' \in {blobs, blobs \cup {<<gen[s], o>>}}
    /\ Goto(s, "cleanup")
    /\ UNCHANGED <<pointer, info, used, late, old, written, load, saved>>

(* The pointer this save writes, at the revision it read. Generation IDs    *)
(* are unique, so the revision is as good as the pointer read.              *)
NewPointer_CurrentFirst(s) == [cur |-> gen[s], prev |-> gen[s]]
NewPointer_KeepsPrevious(s) == [cur |-> gen[s], prev |-> base[s].prev]
NewPointer(s) == [cur |-> gen[s], prev |-> base[s].cur]

Published ==
    load' = [l \in Loaders |-> IF load[l].at \in {"manifest", "parts"}
                               THEN [load[l] EXCEPT !.publications = @ + 1] ELSE load[l]]

(* What is deleted after a successful publication: the generation that fell *)
(* out of the pointer.                                                      *)
Dropped_Current(s) == base[s].cur
Dropped(s) == base[s].prev

Publish(s) ==
    /\ pc[s] = "publish"
    /\ IF pointer = base[s]
       THEN /\ pointer' = NewPointer(s)
            /\ Published
            /\ saved' = TRUE
            /\ IF Dropped(s) = NoGeneration THEN End(s) ELSE Goto(s, "drop") /\ UNCHANGED written
       ELSE /\ Goto(s, "cleanup")
            /\ UNCHANGED <<pointer, load, saved, written>>
    /\ UNCHANGED <<blobs, info, used, late, old, faults>>

(* The write of the pointer reports an error. It was applied, may be        *)
(* applied later, or never is; the save cleans up in any case.              *)
PublishError(s) ==
    /\ pc[s] = "publish" /\ Fault
    /\ \/ UNCHANGED <<pointer, late, load>>
       \/ /\ late' = late \cup {[from |-> base[s], to |-> NewPointer(s)]}
          /\ UNCHANGED <<pointer, load>>
       \/ /\ pointer = base[s]
          /\ pointer' = NewPointer(s)
          /\ Published
          /\ UNCHANGED late
    /\ Goto(s, "cleanup")
    /\ UNCHANGED <<blobs, info, used, old, written, saved>>

PublishLate(w) ==
    /\ late' = late \ {w}
    /\ IF pointer = w.from
       THEN pointer' = w.to /\ Published
       ELSE UNCHANGED <<pointer, load>>
    /\ UNCHANGED <<blobs, info, used, old, saver, saved, faults>>

(* cleanupWritten: one object at a time; a failed deletion is only logged.  *)
Delete(g, o) ==
    \/ blobs' = blobs \ {<<g, o>>} /\ UNCHANGED faults
    \/ UNCHANGED blobs /\ Fault

Unwanted_NoManifest(s) == written[s] \ {Manifest}
Unwanted(s) == written[s]

CleanUp(s) ==
    /\ pc[s] = "cleanup"
    /\ IF Unwanted(s) = {}
       THEN End(s) /\ UNCHANGED <<blobs, faults>>
       ELSE \E o \in Unwanted(s) :
              /\ Delete(gen[s], o)
              /\ written' = [written EXCEPT ![s] = @ \ {o}]
              /\ UNCHANGED <<pc, gen, base>>
    /\ UNCHANGED <<pointer, info, used, late, old, load, saved>>

(* deleteCohortGeneration: read the manifest, delete the parts it lists,    *)
(* then the manifest; written now holds what is left to delete. Without the *)
(* manifest nothing is deleted.                                             *)
DropBegin(s) ==
    /\ pc[s] = "drop"
    /\ IF <<Dropped(s), Manifest>> \in blobs
       THEN \/ pc' = [pc EXCEPT ![s] = "dropping"] /\ UNCHANGED <<gen, base, written, faults>>
            \/ End(s) /\ Fault
       ELSE End(s) /\ UNCHANGED faults
    /\ UNCHANGED <<blobs, pointer, info, used, late, old, load, saved>>

Drop(s) ==
    /\ pc[s] = "dropping"
    /\ \E o \in IF written[s] = {Manifest} THEN {Manifest} ELSE written[s] \ {Manifest} :
         /\ Delete(Dropped(s), o)
         /\ IF o = Manifest
            THEN End(s)
            ELSE written' = [written EXCEPT ![s] = @ \ {o}] /\ UNCHANGED <<pc, gen, base>>
    /\ UNCHANGED <<pointer, info, used, late, old, load, saved>>

Crash(s) ==
    /\ pc[s] # "idle" /\ Fault
    /\ \/ UNCHANGED late
       \/ pc[s] = "publish" /\ late' = late \cup {[from |-> base[s], to |-> NewPointer(s)]}
    /\ End(s)
    /\ UNCHANGED <<blobs, pointer, info, used, old, load, saved>>

----------------------------------------------------------------------------
(* LoadCohort: the current generation, then the previous one.               *)

SetLoad(l, r) == load' = [load EXCEPT ![l] = r]

(* Continue with generation g of the pointer read, or fail.                 *)
Try(l, r, g) ==
    SetLoad(l, [r EXCEPT !.at = IF g = NoGeneration THEN "failed" ELSE "manifest",
                         !.gen = g, !.left = Parts])

Load(l) ==
    /\ load[l].at = "idle"
    /\ \E range \in Ranges :
         Try(l, [NotLoading EXCEPT !.range = range, !.base = pointer], pointer.cur)
    /\ UNCHANGED <<blobs, pointer, info, used, late, old, saver, saved, faults>>

TryPrevious(l) ==
    Try(l, load[l], IF load[l].gen = load[l].base.cur THEN load[l].base.prev ELSE NoGeneration)

(* The stream the loader knows has this identity and reaches far enough.    *)
Compatible(l, g) ==
    /\ info[g].identity = load[l].range.identity
    /\ info[g].cutoff <= load[l].range.cutoff

ReadManifest(l) ==
    /\ load[l].at = "manifest"
    /\ IF <<load[l].gen, Manifest>> \in blobs /\ Compatible(l, load[l].gen)
       THEN SetLoad(l, [load[l] EXCEPT !.at = IF Parts = {} THEN "loaded" ELSE "parts"])
       ELSE TryPrevious(l)
    /\ UNCHANGED <<blobs, pointer, info, used, late, old, saver, saved, faults>>

ReadPart(l) ==
    /\ load[l].at = "parts"
    /\ \E o \in load[l].left :
         IF <<load[l].gen, o>> \in blobs
         THEN SetLoad(l, [load[l] EXCEPT !.left = @ \ {o},
                                         !.at = IF load[l].left = {o} THEN "loaded" ELSE "parts"])
         ELSE TryPrevious(l)
    /\ UNCHANGED <<blobs, pointer, info, used, late, old, saver, saved, faults>>

(* The blob store is unavailable for one read.                              *)
ReadError(l) ==
    /\ load[l].at \in {"manifest", "parts"} /\ Fault
    /\ TryPrevious(l)
    /\ UNCHANGED <<blobs, pointer, info, used, late, old, saver, saved>>

(* The caller restores what was loaded, or replays the stream.              *)
LoadDone(l) ==
    /\ load[l].at \in {"loaded", "failed"}
    /\ SetLoad(l, NotLoading)
    /\ UNCHANGED <<blobs, pointer, info, used, late, old, saver, saved, faults>>

----------------------------------------------------------------------------
(* Expire: age alone decides, the pointer is not inspected.                 *)

GrowOld(g) ==
    /\ g \notin old /\ g <= used /\ 1 .. (g - 1) \subseteq old
    /\ Fault
    /\ old' = old \cup {g}
    /\ UNCHANGED <<blobs, pointer, info, used, late, saver, load, saved>>

Expire(b) ==
    /\ b[1] \in old
    /\ blobs' = blobs \ {b}
    /\ UNCHANGED <<pointer, info, used, late, old, saver, load, saved, faults>>

Next ==
    \/ \E s \in Savers : \/ Save(s) \/ Put(s) \/ PutError(s) \/ Publish(s) \/ PublishError(s)
                         \/ CleanUp(s) \/ DropBegin(s) \/ Drop(s) \/ Crash(s)
    \/ \E w \in late : PublishLate(w)
    \/ \E l \in Loaders : Load(l) \/ ReadManifest(l) \/ ReadPart(l) \/ ReadError(l) \/ LoadDone(l)
    \/ \E g \in Generations : GrowOld(g)
    \/ \E b \in blobs : Expire(b)

Spec == Init /\ [][Next]_vars

----------------------------------------------------------------------------
(* The types of the variables. The previous generation was begun before the *)
(* current one.                                                             *)
TypeOK ==
    /\ blobs \subseteq Generations \X Objects
    /\ pointer \in Pointers
    /\ \A g \in 1 .. used : info[g] \in Ranges
    /\ used \in 0 .. MaxGenerations
    /\ late \subseteq [from : Pointers, to : Pointers]
    /\ old \subseteq Generations
    /\ pc \in [Savers -> {"idle", "write", "publish", "cleanup", "drop", "dropping"}]
    /\ gen \in [Savers -> Slots]
    /\ base \in [Savers -> Pointers]
    /\ written \in [Savers -> SUBSET Objects]
    /\ \A l \in Loaders : load[l].at \in {"idle", "manifest", "parts", "loaded", "failed"}
    /\ saved \in BOOLEAN
    /\ faults \in 0 .. MaxFaults

(* A publication never replaces the current generation of a stream by one   *)
(* with an older cutoff, whichever saves race, fail or are applied late     *)
(* (Save compares with the pointer it read and writes at its revision).     *)
NeverRegresses ==
    [][pointer'.cur # pointer.cur /\ pointer.cur # NoGeneration
         /\ info[pointer.cur].identity = info[pointer'.cur].identity
         => info[pointer.cur].cutoff <= info[pointer'.cur].cutoff]_vars

(* After a successful save the pointer names a complete generation as long  *)
(* as nothing expired and no more than one request failed or process        *)
(* crashed: a publication that was reported as failed, and whose blobs were *)
(* deleted although the pointer names them, leaves the previous generation. *)
OneFaultLeavesASnapshot ==
    saved /\ faults <= 1 /\ old = {} =>
        \E g \in {pointer.cur, pointer.prev} : g # NoGeneration /\ Complete(g)

(* Without faults a load that began while the current generation suited it  *)
(* fails only if two later saves were published meanwhile: one publication  *)
(* deletes only what the pointer read did not name.                         *)
LoadOutlivesOnePublication ==
    \A l \in Loaders :
        load[l].at = "failed" /\ faults = 0 /\ load[l].base.cur # NoGeneration
          /\ Compatible(l, load[l].base.cur)
        => load[l].publications >= 2

(* Without faults every stored object belongs to a generation the pointer   *)
(* names, or to one that a save is storing or deleting.                     *)
NothingLeftBehind ==
    faults = 0 =>
        \A b \in blobs :
            \/ b[1] \in {pointer.cur, pointer.prev}
            \/ \E s \in Savers :
                 b[1] \in {gen[s]} \cup IF pc[s] \in {"drop", "dropping"} THEN {Dropped(s)} ELSE {}
=============================================================================
