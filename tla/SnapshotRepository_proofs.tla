---------------------- MODULE SnapshotRepository_proofs ----------------------
(***************************************************************************)
(* Proofs about SnapshotRepository, for any number of savers, loaders,      *)
(* parts, generations and faults.                                           *)
(*                                                                         *)
(* Generations are numbered as they begin, and a save publishes only over   *)
(* the pointer it read, so the pointer's generations only grow and what was *)
(* dropped is behind them. A generation that the pointer names is sound:    *)
(* complete, and deleted by nobody. One fault can make at most one          *)
(* generation an exception: that of the save whose publication was reported *)
(* as failed.                                                               *)
(***************************************************************************)
EXTENDS SnapshotRepository, TLAPS

Places == {"idle", "write", "publish", "cleanup", "drop", "dropping"}
LoadPlaces == {"idle", "manifest", "parts", "loaded", "failed"}
LoadStates == [at : LoadPlaces, range : Ranges \cup {Nothing}, base : Pointers,
               gen : Slots, left : SUBSET Parts, publications : Nat]
Writes == [from : Pointers, to : Pointers]

SaverTyped ==
    /\ pc \in [Savers -> Places] /\ gen \in [Savers -> Slots]
    /\ base \in [Savers -> Pointers] /\ written \in [Savers -> SUBSET Objects]
Typed ==
    /\ blobs \in SUBSET (Generations \X Objects) /\ pointer \in Pointers
    /\ info \in [Generations -> Ranges \cup {Nothing}]
    /\ used \in 0 .. MaxGenerations /\ late \in SUBSET Writes /\ old \in SUBSET Generations
    /\ SaverTyped
    /\ load \in [Loaders -> LoadStates]
    /\ saved \in BOOLEAN /\ faults \in 0 .. MaxFaults

Saving(s) == pc[s] \in {"write", "publish"}
Dropping(s) == pc[s] \in {"drop", "dropping"}

(* Everything the savers, the pointer and abandoned writes refer to has     *)
(* begun, and each generation has one saver.                                *)
BegunInv ==
    /\ \A g \in 1 .. used : info[g] \in Ranges
    /\ pointer.cur <= used
    /\ \A s \in Savers : pc[s] # "idle" =>
          gen[s] # NoGeneration /\ gen[s] <= used /\ base[s].cur < gen[s] /\ base[s].cur <= pointer.cur
    /\ \A s, t \in Savers : pc[s] # "idle" /\ pc[t] # "idle" /\ gen[s] = gen[t] => s = t
    /\ \A w \in late : /\ w.from.cur < w.to.cur /\ w.to.cur <= used
                       /\ w.to.prev = w.from.cur /\ w.from.cur <= pointer.cur
    /\ \A l \in Loaders : load[l].base.cur <= used

(* A generation that is being saved is named nowhere yet.                   *)
FreshInv ==
    \A s \in Savers : Saving(s) =>
        /\ gen[s] # pointer.cur /\ gen[s] # pointer.prev
        /\ \A w \in late : w.to.cur # gen[s]
        /\ \A t \in Savers : Dropping(t) => Dropped(t) # gen[s]

(* What is dropped is behind the pointer, and is dropped once.              *)
DropInv ==
    /\ \A s \in Savers : Dropping(s) => base[s].cur <= pointer.prev /\ Dropped(s) # NoGeneration
    /\ \A s, t \in Savers : Dropping(s) /\ Dropping(t) /\ Dropped(s) = Dropped(t) => s = t

WrittenInv == \A s \in Savers : pc[s] \in {"publish", "drop"} => written[s] = Objects

BaseInv == Typed /\ BegunInv /\ FreshInv /\ DropInv /\ WrittenInv

(* What a generation is published over is no newer than it.                 *)
NotOlder(g, h) ==
    g # NoGeneration /\ info[g].identity = info[h].identity => info[g].cutoff <= info[h].cutoff
CutoffInv ==
    /\ \A s \in Savers : pc[s] # "idle" => NotOlder(base[s].cur, gen[s])
    /\ \A w \in late : NotOlder(w.from.cur, w.to.cur)

(* Complete, and no save cleans it up.                                      *)
Sound(g) == Complete(g) /\ \A s \in Savers : pc[s] = "cleanup" => gen[s] # g

(* Generations that the pointer names, or may name when a late write        *)
(* reaches it.                                                              *)
Named(g) ==
    \/ g \in {pointer.cur, pointer.prev}
    \/ \E w \in late : w.from = pointer /\ w.to.cur = g

(* All of them are sound, with x as the exception.                          *)
SoundInv(x) ==
    /\ x <= used
    /\ \A s \in Savers : Saving(s) => gen[s] # x /\ \A o \in written[s] : <<gen[s], o>> \in blobs
    /\ \A g \in Generations : Named(g) /\ g # x => Sound(g)
    /\ saved => pointer.cur # NoGeneration /\ ~({pointer.cur, pointer.prev} \subseteq {NoGeneration, x})

KeptInv == faults <= 1 /\ old = {} => \E x \in Slots : (faults = 0 => x = NoGeneration) /\ SoundInv(x)

(* Without faults a blob belongs to the pointer or to one save.             *)
Owned(b) ==
    \/ b[1] \in {pointer.cur, pointer.prev}
    \/ \E s \in Savers : pc[s] \in {"write", "publish", "cleanup"} /\ gen[s] = b[1]
    \/ \E s \in Savers : Dropping(s) /\ Dropped(s) = b[1]
KnownInv ==
    /\ late = {} /\ old = {}
    /\ \A b \in blobs : Owned(b)
    /\ \A s \in Savers : pc[s] \in {"write", "publish", "cleanup"} =>
          \A o \in Objects : <<gen[s], o>> \in blobs => o \in written[s]
    /\ \A s \in Savers : pc[s] = "drop" => Sound(Dropped(s))
    /\ \A s \in Savers : pc[s] = "dropping" => \A o \in Objects : <<Dropped(s), o>> \in blobs => o \in written[s]

(* A loader's generation is one that the pointer names until it was         *)
(* published over twice.                                                    *)
Outlived(l) ==
    load[l].publications >= 2 \/ load[l].base.cur = NoGeneration \/ ~Compatible(l, load[l].base.cur)
LoadInv ==
    \A l \in Loaders :
        /\ load[l].at \in {"manifest", "parts"} =>
             /\ load[l].publications = 0 => load[l].base = pointer
             /\ load[l].publications = 1 => load[l].base.cur = pointer.prev
             /\ Outlived(l) \/ load[l].gen = load[l].base.cur
        /\ load[l].at = "failed" => Outlived(l)

Quiet == KnownInv /\ LoadInv
Inv == BaseInv /\ CutoffInv /\ KeptInv /\ (faults = 0 => Quiet)

----------------------------------------------------------------------------
LEMMA Numbers ==
    /\ MaxGenerations \in Nat /\ MaxFaults \in Nat
    /\ NoGeneration = 0 /\ NoGeneration \in Slots
    /\ \A g \in Slots : g \in Nat /\ (g # NoGeneration => g \in Generations)
    /\ \A g \in Generations : g \in Slots /\ g # NoGeneration /\ g >= 1
    /\ \A g \in Nat : g # NoGeneration /\ g <= MaxGenerations => g \in Generations
BY RepositoryAssumption DEF Slots, Generations, NoGeneration

LEMMA PointerFacts ==
    ASSUME NEW p \in Pointers
    PROVE  /\ p.cur \in Slots /\ p.prev \in Slots /\ p.cur \in Nat /\ p.prev \in Nat
           /\ p.prev <= p.cur /\ (p.cur # NoGeneration => p.prev < p.cur)
           /\ p = [cur |-> p.cur, prev |-> p.prev]
<1>1. p \in [cur : Slots, prev : Slots] /\ (p = NoPointer \/ p.prev < p.cur)
  BY DEF Pointers
<1>2. p.cur \in Nat /\ p.prev \in Nat
  BY <1>1, Numbers
<1>3. p = NoPointer => p.prev = NoGeneration /\ p.cur = NoGeneration
  BY DEF NoPointer
<1>. QED
  BY <1>1, <1>2, <1>3

LEMMA NewPointerFacts ==
    ASSUME Typed, NEW s \in Savers, base[s].cur < gen[s]
    PROVE  /\ NewPointer(s) \in Pointers /\ NewPointer(s).cur = gen[s] /\ NewPointer(s).prev = base[s].cur
           /\ [from |-> base[s], to |-> NewPointer(s)] \in Writes
<1>1. base[s] \in Pointers /\ base[s].cur \in Slots /\ gen[s] \in Slots
  BY PointerFacts DEF Typed, SaverTyped
<1>2. NewPointer(s) = [cur |-> gen[s], prev |-> base[s].cur]
  BY DEF NewPointer
<1>. QED
  BY <1>1, <1>2 DEF Pointers, Writes

LEMMA NoPointerFacts == NoPointer \in Pointers /\ NoPointer.cur = NoGeneration /\ NoPointer.prev = NoGeneration
BY Numbers DEF NoPointer, Pointers

(* The other saves go on as before.                                         *)
OthersSame(s) ==
    \A t \in Savers : t = s \/ (pc'[t] = pc[t] /\ gen'[t] = gen[t] /\ base'[t] = base[t] /\ written'[t] = written[t])

LEMMA EndEffect ==
    ASSUME Typed, NEW s \in Savers, End(s)
    PROVE  SaverTyped' /\ OthersSame(s) /\ pc'[s] = "idle"
BY NoPointerFacts, Numbers DEF Typed, SaverTyped, End, OthersSame, Places

LEMMA GotoEffect ==
    ASSUME Typed, NEW s \in Savers, NEW p \in Places, Goto(s, p),
           NEW o \in SUBSET Objects, written' = [written EXCEPT ![s] = o]
    PROVE  /\ SaverTyped' /\ OthersSame(s)
           /\ pc'[s] = p /\ gen'[s] = gen[s] /\ base'[s] = base[s] /\ written'[s] = o
BY DEF Typed, SaverTyped, Goto, OthersSame

LEMMA PlaceEffect ==
    ASSUME Typed, NEW s \in Savers, NEW p \in Places, Goto(s, p), written' = written
    PROVE  /\ SaverTyped' /\ OthersSame(s)
           /\ pc'[s] = p /\ gen'[s] = gen[s] /\ base'[s] = base[s] /\ written'[s] = written[s]
BY DEF Typed, SaverTyped, Goto, OthersSame

(* A step of save s after its first: it ends, or goes on with its           *)
(* generation.                                                              *)
SaveStep(s) ==
    /\ SaverTyped' /\ OthersSame(s)
    /\ pc[s] # "idle"
    /\ pc'[s] = "idle" \/ (gen'[s] = gen[s] /\ base'[s] = base[s])
    /\ info' = info /\ used' = used
    /\ pc'[s] \in {"write", "publish"} => pc[s] \in {"write", "publish"}
    /\ pc'[s] \in {"publish", "drop"} => written'[s] = Objects

(* What publishing does to the loads that are under way.                    *)
LEMMA PublishedEffect ==
    ASSUME Typed, Published
    PROVE  /\ load' \in [Loaders -> LoadStates]
           /\ \A l \in Loaders :
                /\ load'[l].at = load[l].at /\ load'[l].range = load[l].range /\ load'[l].base = load[l].base
                /\ load'[l].gen = load[l].gen
                /\ load'[l].publications = load[l].publications
                     + (IF load[l].at \in {"manifest", "parts"} THEN 1 ELSE 0)
                /\ load[l].publications \in Nat
<1>1. ASSUME NEW l \in Loaders
      PROVE  /\ load'[l] \in LoadStates
             /\ load'[l].at = load[l].at /\ load'[l].range = load[l].range /\ load'[l].base = load[l].base
             /\ load'[l].gen = load[l].gen
             /\ load'[l].publications = load[l].publications
                  + (IF load[l].at \in {"manifest", "parts"} THEN 1 ELSE 0)
             /\ load[l].publications \in Nat
  <2>1. load'[l] = IF load[l].at \in {"manifest", "parts"}
                   THEN [load[l] EXCEPT !.publications = load[l].publications + 1] ELSE load[l]
    BY DEF Published
  <2>2. load[l] \in LoadStates
    BY DEF Typed
  <2>. QED
    BY <2>1, <2>2 DEF LoadStates
<1>2. load' = [l \in Loaders |-> load'[l]]
  BY DEF Published
<1>. QED
  BY <1>1, <1>2

LEMMA SaverFacts ==
    ASSUME BaseInv, NEW s \in Savers
    PROVE  /\ pc[s] \in Places /\ gen[s] \in Slots /\ base[s] \in Pointers /\ written[s] \in SUBSET Objects
           /\ gen[s] \in Nat /\ base[s].cur \in Nat /\ base[s].prev \in Nat /\ base[s].prev <= base[s].cur
           /\ pointer.cur \in Nat /\ pointer.prev \in Nat /\ pointer.prev <= pointer.cur
           /\ pointer.cur # NoGeneration => pointer.prev < pointer.cur
           /\ used \in Nat
           /\ pc[s] # "idle" => /\ gen[s] \in Generations /\ gen[s] <= used
                                /\ base[s].cur < gen[s] /\ base[s].cur <= pointer.cur
                                /\ base[s].cur # NoGeneration => base[s].prev < base[s].cur
<1>1. /\ pc[s] \in Places /\ gen[s] \in Slots /\ base[s] \in Pointers /\ written[s] \in SUBSET Objects
      /\ pointer \in Pointers /\ used \in 0 .. MaxGenerations
  BY DEF BaseInv, Typed, SaverTyped
<1>2. used \in Nat
  BY <1>1, Numbers
<1>3. pc[s] # "idle" => /\ gen[s] # NoGeneration /\ gen[s] <= used
                        /\ base[s].cur < gen[s] /\ base[s].cur <= pointer.cur
  BY DEF BaseInv, BegunInv
<1>. QED
  BY <1>1, <1>2, <1>3, Numbers, PointerFacts

(* A step of a save that does not publish.                                  *)
LEMMA BaseStep ==
    ASSUME BaseInv, NEW s \in Savers, SaveStep(s), pointer' = pointer, load' = load, saved' \in BOOLEAN,
           blobs' \in SUBSET (Generations \X Objects), old' = old, faults' \in 0 .. MaxFaults,
           late' = late \/ (/\ pc[s] = "publish" /\ ~Saving(s)'
                            /\ late' = late \cup {[from |-> base[s], to |-> NewPointer(s)]}),
           Dropping(s)' => Dropping(s)
    PROVE  BaseInv'
<1>0. Typed /\ BegunInv /\ FreshInv /\ DropInv /\ WrittenInv
  BY DEF BaseInv
<1>1. /\ pc[s] # "idle" /\ base[s].cur < gen[s] /\ gen[s] <= used /\ base[s].cur <= pointer.cur
      /\ pc'[s] # "idle" => gen'[s] = gen[s] /\ base'[s] = base[s]
      /\ \A t \in Savers : t = s \/ (pc'[t] = pc[t] /\ gen'[t] = gen[t] /\ base'[t] = base[t] /\ written'[t] = written[t])
  BY SaverFacts DEF SaveStep, OthersSame
<1>2. /\ NewPointer(s) \in Pointers /\ NewPointer(s).cur = gen[s] /\ NewPointer(s).prev = base[s].cur
      /\ [from |-> base[s], to |-> NewPointer(s)] \in Writes
  BY <1>0, <1>1, NewPointerFacts
<1>3. Typed'
  BY <1>0, <1>2 DEF Typed, SaveStep
<1>4. BegunInv'
  <2>1. \A t, u \in Savers : pc'[t] # "idle" /\ pc'[u] # "idle" /\ gen'[t] = gen'[u] => t = u
    BY <1>0, <1>1 DEF BegunInv
  <2>2. \A t \in Savers : pc'[t] # "idle" =>
          gen'[t] # NoGeneration /\ gen'[t] <= used /\ base'[t].cur < gen'[t] /\ base'[t].cur <= pointer.cur
    BY <1>0, <1>1 DEF BegunInv
  <2>3. \A w \in late' : /\ w.from.cur < w.to.cur /\ w.to.cur <= used
                         /\ w.to.prev = w.from.cur /\ w.from.cur <= pointer.cur
    <3>. SUFFICES ASSUME NEW w \in late', w \notin late
                  PROVE  /\ w.from.cur < w.to.cur /\ w.to.cur <= used
                         /\ w.to.prev = w.from.cur /\ w.from.cur <= pointer.cur
      BY <1>0 DEF BegunInv
    <3>1. w.from = base[s] /\ w.to = NewPointer(s)
      OBVIOUS
    <3>. QED
      BY <1>1, <1>2, <3>1
  <2>. QED
    BY <1>0, <2>1, <2>2, <2>3 DEF BegunInv, SaveStep
<1>5. /\ \A t \in Savers : Saving(t)' => Saving(t) /\ gen'[t] = gen[t]
      /\ \A t \in Savers : Dropping(t)' => Dropping(t) /\ base'[t] = base[t] /\ (Dropped(t))' = Dropped(t)
  BY <1>1 DEF Saving, Dropping, Dropped, SaveStep
<1>6. FreshInv'
  <2>1. ASSUME NEW t \in Savers, Saving(t)', NEW w \in late' PROVE w.to.cur # gen'[t]
    <3>1. CASE w \in late
      BY <1>0, <1>5, <2>1, <3>1 DEF FreshInv
    <3>2. CASE w \notin late
      <4>1. w.to = NewPointer(s) /\ ~Saving(s)' /\ t # s
        BY <2>1, <3>2
      <4>2. pc[t] # "idle" /\ gen[t] # gen[s] /\ gen'[t] = gen[t]
        BY <1>0, <1>1, <1>5, <2>1, <4>1 DEF BegunInv, Saving
      <4>. QED
        BY <1>2, <4>1, <4>2
    <3>. QED
      BY <3>1, <3>2
  <2>. QED
    BY <1>0, <1>5, <2>1 DEF FreshInv
<1>7. DropInv'
  BY <1>0, <1>5 DEF DropInv
<1>8. WrittenInv'
  BY <1>0, <1>1 DEF WrittenInv, SaveStep
<1>. QED
  BY <1>3, <1>4, <1>6, <1>7, <1>8 DEF BaseInv

(* The pointer moves on from the generation that is current.                *)
LEMMA BaseAdvance ==
    ASSUME BaseInv, pointer' \in Pointers, pointer.cur < pointer'.cur, pointer'.prev = pointer.cur, pointer'.cur <= used,
           Published, UNCHANGED <<info, used, old>>, late' \subseteq late,
           blobs' \in SUBSET (Generations \X Objects), saved' \in BOOLEAN, faults' \in 0 .. MaxFaults, SaverTyped',
           \A t \in Savers : pc'[t] # "idle" => pc[t] # "idle" /\ gen'[t] = gen[t] /\ base'[t] = base[t],
           \A t \in Savers : Saving(t)' => Saving(t) /\ gen[t] # pointer'.cur,
           NEW s, \A t \in Savers : Dropping(t)' => Dropping(t)
                                       \/ (t = s /\ base[t] = pointer /\ pointer.prev # NoGeneration),
           \A t \in Savers : pc'[t] \in {"publish", "drop"} => written'[t] = Objects
    PROVE  BaseInv'
<1>0. Typed /\ BegunInv /\ FreshInv /\ DropInv
  BY DEF BaseInv
<1>1. pointer.cur \in Nat /\ pointer.prev \in Nat /\ pointer.prev <= pointer.cur
      /\ pointer'.cur \in Nat /\ pointer'.prev \in Nat /\ used \in Nat
  BY <1>0, PointerFacts, Numbers DEF Typed
<1>2. /\ load' \in [Loaders -> LoadStates]
      /\ \A l \in Loaders : load'[l].base = load[l].base
  BY <1>0, PublishedEffect
<1>3. Typed'
  BY <1>0, <1>2 DEF Typed
<1>4. BegunInv'
  <2>1. \A t, u \in Savers : pc'[t] # "idle" /\ pc'[u] # "idle" /\ gen'[t] = gen'[u] => t = u
    BY <1>0 DEF BegunInv
  <2>2. ASSUME NEW t \in Savers, pc'[t] # "idle"
        PROVE  gen'[t] # NoGeneration /\ gen'[t] <= used /\ base'[t].cur < gen'[t] /\ base'[t].cur <= pointer'.cur
    BY <1>1, <2>2, SaverFacts, Numbers
  <2>3. ASSUME NEW w \in late'
        PROVE  /\ w.from.cur < w.to.cur /\ w.to.cur <= used
               /\ w.to.prev = w.from.cur /\ w.from.cur <= pointer'.cur
    <3>1. w \in late /\ w.from \in Pointers
      BY <1>0, <2>3 DEF Typed, Writes
    <3>2. w.from.cur \in Nat
      BY <3>1, PointerFacts
    <3>. QED
      BY <1>0, <1>1, <3>1, <3>2 DEF BegunInv
  <2>. QED
    BY <1>0, <1>2, <2>1, <2>2, <2>3 DEF BegunInv
<1>5. FreshInv'
  <2>. SUFFICES ASSUME NEW t \in Savers, Saving(t)'
                PROVE  /\ gen'[t] # pointer'.cur /\ gen'[t] # pointer'.prev
                       /\ \A w \in late' : w.to.cur # gen'[t]
                       /\ \A u \in Savers : Dropping(u)' => (Dropped(u))' # gen'[t]
    BY DEF FreshInv
  <2>1. gen'[t] = gen[t] /\ Saving(t)
    BY DEF Saving
  <2>2. gen[t] # pointer.cur /\ gen[t] # pointer.prev
    BY <1>0, <2>1 DEF FreshInv
  <2>3. ASSUME NEW u \in Savers, Dropping(u)' PROVE (Dropped(u))' # gen'[t]
    <3>1. (Dropped(u))' = base[u].prev
      BY <2>3 DEF Dropping, Dropped
    <3>. QED
      BY <1>0, <2>1, <2>2, <2>3, <3>1 DEF FreshInv, Dropped
  <2>. QED
    BY <1>0, <2>1, <2>2, <2>3 DEF FreshInv
<1>6. DropInv'
  <2>1. \A t \in Savers : Dropping(t)' => (Dropped(t))' = base[t].prev /\ base'[t] = base[t]
    BY DEF Dropping, Dropped
  <2>2. ASSUME NEW t \in Savers, Dropping(t) PROVE base[t].cur <= pointer.prev /\ base[t].prev < pointer.prev
    <3>1. base[t].cur <= pointer.prev /\ base[t].prev # NoGeneration
      BY <1>0, <2>2 DEF DropInv, Dropped
    <3>. QED
      BY <1>1, <3>1, SaverFacts, PointerFacts, Numbers
  <2>3. ASSUME NEW t \in Savers, Dropping(t)' PROVE base'[t].cur <= pointer'.prev /\ (Dropped(t))' # NoGeneration
    <3>1. base[t].cur \in Nat
      BY SaverFacts
    <3>2. base[t].cur <= pointer.cur
      BY <1>1, <2>2, <2>3, <3>1
    <3>. QED
      BY <1>0, <2>1, <2>3, <3>2 DEF DropInv, Dropped
  <2>4. ASSUME NEW t \in Savers, NEW u \in Savers, Dropping(t)', Dropping(u)', (Dropped(t))' = (Dropped(u))'
        PROVE  t = u
    <3>1. base[t].prev = base[u].prev /\ base[t].prev \in Nat
      BY <2>1, <2>4, SaverFacts
    <3>2. CASE Dropping(t) /\ Dropping(u)
      BY <1>0, <3>1, <3>2 DEF DropInv, Dropped
    <3>3. CASE ~Dropping(t) /\ Dropping(u)
      BY <1>1, <2>2, <2>4, <3>1, <3>3
    <3>4. CASE Dropping(t) /\ ~Dropping(u)
      BY <1>1, <2>2, <2>4, <3>1, <3>4
    <3>5. CASE ~Dropping(t) /\ ~Dropping(u)
      BY <2>4, <3>5
    <3>. QED
      BY <3>2, <3>3, <3>4, <3>5
  <2>. QED
    BY <2>3, <2>4 DEF DropInv
<1>7. WrittenInv'
  BY DEF WrittenInv
<1>. QED
  BY <1>3, <1>4, <1>5, <1>6, <1>7 DEF BaseInv

----------------------------------------------------------------------------
(* What each step of a save does.                                           *)

LEMMA FaultEffect == ASSUME BaseInv, Fault PROVE faults' \in 0 .. MaxFaults /\ faults' = faults + 1 /\ faults' > 0
BY Numbers DEF BaseInv, Typed, Fault

LEMMA PutEffect ==
    ASSUME BaseInv, NEW s \in Savers, Put(s)
    PROVE  /\ SaveStep(s) /\ pc[s] = "write" /\ pc'[s] \in {"write", "publish"}
           /\ \E o \in Objects : /\ blobs' = blobs \cup {<<gen[s], o>>}
                                 /\ written'[s] = written[s] \cup {o}
           /\ UNCHANGED <<pointer, info, used, late, old, load, saved, faults>>
<1>. USE DEF saver
<1>0. Typed /\ written[s] \in SUBSET Objects
  BY SaverFacts DEF BaseInv
<1>1. PICK o \in NextObjects(s) :
        /\ blobs' = blobs \cup {<<gen[s], o>>}
        /\ written' = [written EXCEPT ![s] = @ \cup {o}]
        /\ Goto(s, IF o = Manifest THEN "publish" ELSE "write")
  BY DEF Put
<1>2. o \in Objects /\ (o = Manifest => written[s] \cup {o} = Objects)
  BY <1>0, RepositoryAssumption DEF NextObjects, Objects
<1>3. /\ SaverTyped' /\ OthersSame(s) /\ gen'[s] = gen[s] /\ base'[s] = base[s] /\ written'[s] = written[s] \cup {o}
      /\ pc'[s] = (IF o = Manifest THEN "publish" ELSE "write")
  <2> DEFINE ws == written[s] \cup {o}
  <2> DEFINE p == IF o = Manifest THEN "publish" ELSE "write"
  <2>1. ws \in SUBSET Objects
    BY <1>0, <1>2
  <2>2. written' = [written EXCEPT ![s] = ws]
    BY <1>1
  <2>3. p \in Places /\ Goto(s, p)
    BY <1>1 DEF Places
  <2>4. SaverTyped' /\ OthersSame(s) /\ pc'[s] = p /\ gen'[s] = gen[s] /\ base'[s] = base[s] /\ written'[s] = ws
    <3>. HIDE DEF ws, p
    <3>. QED
      BY <1>0, <2>1, <2>2, <2>3, GotoEffect
  <2>. QED
    BY <2>4
<1>4. pc[s] = "write" /\ UNCHANGED <<pointer, info, used, late, old, load, saved, faults>>
  BY DEF Put
<1>. QED
  BY <1>1, <1>2, <1>3, <1>4 DEF SaveStep

LEMMA PutErrorEffect ==
    ASSUME BaseInv, NEW s \in Savers, PutError(s)
    PROVE  /\ SaveStep(s) /\ pc[s] = "write" /\ pc'[s] = "cleanup"
           /\ \E o \in Objects : blobs' \in {blobs, blobs \cup {<<gen[s], o>>}}
           /\ UNCHANGED <<pointer, info, used, late, old, load, saved>> /\ Fault
<1>0. Typed /\ written[s] \in SUBSET Objects
  BY SaverFacts DEF BaseInv
<1>1. NextObjects(s) \subseteq Objects
  BY DEF NextObjects, Objects
<1>2. SaverTyped' /\ OthersSame(s) /\ gen'[s] = gen[s] /\ base'[s] = base[s] /\ pc'[s] = "cleanup"
  BY <1>0, PlaceEffect DEF PutError, Places
<1>. QED
  BY <1>1, <1>2 DEF PutError, SaveStep

(* A successful publication.                                                *)
LEMMA PublishEffect ==
    ASSUME BaseInv, NEW s \in Savers, Publish(s), pointer = base[s]
    PROVE  /\ SaveStep(s) /\ pc[s] = "publish" /\ pointer' = NewPointer(s) /\ Published /\ saved' = TRUE
           /\ IF Dropped(s) = NoGeneration THEN pc'[s] = "idle" ELSE pc'[s] = "drop"
           /\ UNCHANGED <<blobs, info, used, late, old, faults>>
<1>0. Typed /\ WrittenInv
  BY DEF BaseInv
<1>1. /\ pc[s] = "publish" /\ pointer' = NewPointer(s) /\ Published /\ saved' = TRUE
      /\ IF Dropped(s) = NoGeneration THEN End(s) ELSE Goto(s, "drop") /\ UNCHANGED written
      /\ UNCHANGED <<blobs, info, used, late, old, faults>>
  BY DEF Publish
<1>2. CASE Dropped(s) = NoGeneration
  BY <1>0, <1>1, <1>2, EndEffect DEF SaveStep
<1>3. CASE Dropped(s) # NoGeneration
  <2>1. /\ SaverTyped' /\ OthersSame(s) /\ gen'[s] = gen[s] /\ base'[s] = base[s] /\ written'[s] = written[s]
        /\ pc'[s] = "drop"
    BY <1>0, <1>1, <1>3, PlaceEffect DEF Places
  <2>. QED
    BY <1>0, <1>1, <1>3, <2>1 DEF SaveStep, WrittenInv
<1>. QED
  BY <1>2, <1>3

LEMMA ConflictEffect ==
    ASSUME BaseInv, NEW s \in Savers, Publish(s), pointer # base[s]
    PROVE  /\ SaveStep(s) /\ pc[s] = "publish" /\ pc'[s] = "cleanup" /\ written'[s] = written[s]
           /\ UNCHANGED <<blobs, pointer, info, used, late, old, load, saved, faults>>
<1>0. Typed
  BY DEF BaseInv
<1>1. /\ pc[s] = "publish" /\ Goto(s, "cleanup")
      /\ UNCHANGED <<blobs, pointer, info, used, late, old, load, saved, written, faults>>
  BY DEF Publish
<1>. QED
  BY <1>0, <1>1, PlaceEffect DEF SaveStep, Places

LEMMA PublishErrorEffect ==
    ASSUME BaseInv, NEW s \in Savers, PublishError(s)
    PROVE  /\ SaveStep(s) /\ pc[s] = "publish" /\ pc'[s] = "cleanup" /\ gen'[s] = gen[s]
           /\ \/ UNCHANGED <<pointer, late, load>>
              \/ /\ late' = late \cup {[from |-> base[s], to |-> NewPointer(s)]}
                 /\ UNCHANGED <<pointer, load>>
              \/ pointer = base[s] /\ pointer' = NewPointer(s) /\ Published /\ late' = late
           /\ UNCHANGED <<blobs, info, used, old, saved>> /\ Fault
<1>0. Typed
  BY DEF BaseInv
<1>1. SaverTyped' /\ OthersSame(s) /\ gen'[s] = gen[s] /\ base'[s] = base[s] /\ pc'[s] = "cleanup"
  BY <1>0, PlaceEffect DEF PublishError, Places
<1>. QED
  BY <1>1 DEF PublishError, SaveStep

(* One object of the generation that is cleaned up is deleted, or none is   *)
(* left.                                                                    *)
LEMMA CleanUpEffect ==
    ASSUME BaseInv, NEW s \in Savers, CleanUp(s)
    PROVE  /\ SaveStep(s) /\ pc[s] = "cleanup"
           /\ \/ pc'[s] = "idle" /\ written[s] = {} /\ UNCHANGED <<blobs, faults>>
              \/ /\ pc'[s] = "cleanup" /\ gen'[s] = gen[s]
                 /\ \E o \in Objects : Delete(gen[s], o) /\ written'[s] = written[s] \ {o}
           /\ UNCHANGED <<pointer, info, used, late, old, load, saved>>
<1>0. Typed /\ written[s] \in SUBSET Objects
  BY SaverFacts DEF BaseInv
<1>1. pc[s] = "cleanup" /\ UNCHANGED <<pointer, info, used, late, old, load, saved>>
  BY DEF CleanUp
<1>2. CASE Unwanted(s) = {}
  BY <1>0, <1>1, <1>2, EndEffect DEF CleanUp, SaveStep, Unwanted
<1>3. CASE Unwanted(s) # {}
  <2>1. PICK o \in written[s] :
          Delete(gen[s], o) /\ written' = [written EXCEPT ![s] = @ \ {o}] /\ UNCHANGED <<pc, gen, base>>
    BY <1>3 DEF CleanUp, Unwanted
  <2>2. /\ SaverTyped' /\ OthersSame(s) /\ pc'[s] = pc[s] /\ gen'[s] = gen[s] /\ base'[s] = base[s]
        /\ written'[s] = written[s] \ {o} /\ o \in Objects
    BY <1>0, <2>1 DEF Typed, SaverTyped, OthersSame
  <2>. QED
    BY <1>1, <2>1, <2>2 DEF SaveStep
<1>. QED
  BY <1>2, <1>3

LEMMA DropBeginEffect ==
    ASSUME BaseInv, NEW s \in Savers, DropBegin(s)
    PROVE  /\ SaveStep(s) /\ pc[s] = "drop"
           /\ IF <<Dropped(s), Manifest>> \in blobs
              THEN \/ pc'[s] = "dropping" /\ written'[s] = written[s] /\ UNCHANGED faults
                   \/ pc'[s] = "idle" /\ Fault
              ELSE pc'[s] = "idle" /\ UNCHANGED faults
           /\ UNCHANGED <<blobs, pointer, info, used, late, old, load, saved>>
<1>0. Typed
  BY DEF BaseInv
<1>1. pc[s] = "drop" /\ UNCHANGED <<blobs, pointer, info, used, late, old, load, saved>>
  BY DEF DropBegin
<1>2. CASE End(s)
  <2>1. SaveStep(s) /\ pc'[s] = "idle"
    BY <1>0, <1>1, <1>2, EndEffect DEF SaveStep
  <2>2. IF <<Dropped(s), Manifest>> \in blobs THEN Fault ELSE UNCHANGED faults
    <3>1. pc' # [pc EXCEPT ![s] = "dropping"]
      BY <1>0, <1>2 DEF End, Typed, SaverTyped
    <3>. QED
      BY <3>1 DEF DropBegin
  <2>. QED
    BY <1>1, <2>1, <2>2
<1>3. CASE /\ <<Dropped(s), Manifest>> \in blobs
           /\ pc' = [pc EXCEPT ![s] = "dropping"] /\ UNCHANGED <<gen, base, written, faults>>
  BY <1>0, <1>1, <1>3 DEF SaveStep, Typed, SaverTyped, OthersSame, Places
<1>. QED
  BY <1>2, <1>3 DEF DropBegin

LEMMA DropEffect ==
    ASSUME BaseInv, NEW s \in Savers, Drop(s)
    PROVE  /\ SaveStep(s) /\ pc[s] = "dropping"
           /\ \E o \in Objects :
                /\ Delete(Dropped(s), o)
                /\ \/ pc'[s] = "idle" /\ written[s] \subseteq {o}
                   \/ pc'[s] = "dropping" /\ base'[s] = base[s] /\ written'[s] = written[s] \ {o}
           /\ UNCHANGED <<pointer, info, used, late, old, load, saved>>
<1>0. Typed /\ written[s] \in SUBSET Objects
  BY SaverFacts DEF BaseInv
<1>1. pc[s] = "dropping" /\ UNCHANGED <<pointer, info, used, late, old, load, saved>>
  BY DEF Drop
<1>2. PICK o \in (IF written[s] = {Manifest} THEN {Manifest} ELSE written[s] \ {Manifest}) :
        /\ Delete(Dropped(s), o)
        /\ IF o = Manifest THEN End(s)
           ELSE written' = [written EXCEPT ![s] = @ \ {o}] /\ UNCHANGED <<pc, gen, base>>
  BY DEF Drop
<1>3. o \in Objects /\ (o = Manifest => written[s] = {Manifest})
  BY <1>0, <1>2
<1>4. CASE o = Manifest
  BY <1>0, <1>1, <1>2, <1>3, <1>4, EndEffect DEF SaveStep
<1>5. CASE o # Manifest
  <2>1. /\ SaverTyped' /\ OthersSame(s) /\ pc'[s] = pc[s] /\ gen'[s] = gen[s] /\ base'[s] = base[s]
        /\ written'[s] = written[s] \ {o}
    BY <1>0, <1>2, <1>5 DEF Typed, SaverTyped, OthersSame
  <2>. QED
    BY <1>1, <1>2, <1>3, <2>1 DEF SaveStep
<1>. QED
  BY <1>4, <1>5

LEMMA CrashEffect ==
    ASSUME BaseInv, NEW s \in Savers, Crash(s)
    PROVE  /\ SaveStep(s) /\ pc'[s] = "idle"
           /\ \/ late' = late
              \/ pc[s] = "publish" /\ late' = late \cup {[from |-> base[s], to |-> NewPointer(s)]}
           /\ UNCHANGED <<blobs, pointer, info, used, old, load, saved>> /\ Fault
<1>0. Typed
  BY DEF BaseInv
<1>. QED
  BY <1>0, EndEffect DEF Crash, SaveStep

(* A save begins with the next generation.                                  *)
LEMMA SaveEffect ==
    ASSUME BaseInv, NEW s \in Savers, Save(s)
    PROVE  /\ SaverTyped' /\ OthersSame(s)
           /\ pc[s] = "idle" /\ pc'[s] = "write" /\ gen'[s] = used + 1 /\ base'[s] = pointer /\ written'[s] = {}
           /\ used + 1 \in Generations /\ used' = used + 1
           /\ \E range \in Ranges : ~Regressed(range) /\ info' = [info EXCEPT ![used + 1] = range]
           /\ UNCHANGED <<blobs, pointer, late, old, load, saved, faults>>
<1>1. used \in Nat /\ used < MaxGenerations /\ MaxGenerations \in Nat
  BY Numbers DEF BaseInv, Typed, Save
<1>2. used + 1 \in Generations /\ used + 1 \in Slots
  BY <1>1 DEF Generations, Slots
<1>. QED
  BY <1>2 DEF BaseInv, Typed, SaverTyped, Save, OthersSame, Places

(* One load continues.                                                      *)
LoadStep(l) ==
    /\ load' \in [Loaders -> LoadStates]
    /\ \A k \in Loaders : k = l \/ load'[k] = load[k]
    /\ UNCHANGED <<blobs, pointer, info, used, late, old, saver, saved>>
    /\ faults' = faults \/ Fault

LEMMA SetLoadEffect ==
    ASSUME BaseInv, NEW l \in Loaders, NEW r \in LoadStates, SetLoad(l, r)
    PROVE  /\ load' \in [Loaders -> LoadStates] /\ load'[l] = r
           /\ \A k \in Loaders : k = l \/ load'[k] = load[k]
BY DEF BaseInv, Typed, SetLoad

LEMMA TryEffect ==
    ASSUME BaseInv, NEW l \in Loaders, NEW r \in LoadStates, NEW g \in Slots, Try(l, r, g)
    PROVE  /\ load' \in [Loaders -> LoadStates] /\ \A k \in Loaders : k = l \/ load'[k] = load[k]
           /\ load'[l].at = (IF g = NoGeneration THEN "failed" ELSE "manifest")
           /\ load'[l].gen = g /\ load'[l].base = r.base /\ load'[l].range = r.range
           /\ load'[l].publications = r.publications
<1> DEFINE q == [r EXCEPT !.at = IF g = NoGeneration THEN "failed" ELSE "manifest", !.gen = g, !.left = Parts]
<1>1. /\ q \in LoadStates /\ q.at = (IF g = NoGeneration THEN "failed" ELSE "manifest")
      /\ q.gen = g /\ q.base = r.base /\ q.range = r.range /\ q.publications = r.publications
  BY DEF LoadStates, LoadPlaces
<1>2. SetLoad(l, q)
  BY DEF Try
<1>. HIDE DEF q
<1>3. load' \in [Loaders -> LoadStates] /\ load'[l] = q /\ \A k \in Loaders : k = l \/ load'[k] = load[k]
  BY <1>1, <1>2, SetLoadEffect
<1>. QED
  BY <1>1, <1>3

LEMMA NotLoadingFacts == NotLoading \in LoadStates /\ NotLoading.at = "idle" /\ NotLoading.base.cur = NoGeneration
<1>1. NoGeneration \in Slots /\ NoPointer \in Pointers /\ 0 \in Nat /\ NoPointer.cur = NoGeneration
  BY Numbers, NoPointerFacts
<1>. QED
  BY <1>1 DEF NotLoading, LoadStates, LoadPlaces

LEMMA LoadEffect ==
    ASSUME BaseInv, NEW l \in Loaders, Load(l)
    PROVE  /\ LoadStep(l) /\ faults' = faults
           /\ load'[l].at = (IF pointer.cur = NoGeneration THEN "failed" ELSE "manifest")
           /\ load'[l].base = pointer /\ load'[l].gen = pointer.cur /\ load'[l].publications = 0
<1>1. PICK range \in Ranges : Try(l, [NotLoading EXCEPT !.range = range, !.base = pointer], pointer.cur)
  BY DEF Load
<1> DEFINE r == [NotLoading EXCEPT !.range = range, !.base = pointer]
<1>2. pointer \in Pointers /\ pointer.cur \in Slots
  BY PointerFacts DEF BaseInv, Typed
<1>3. r \in LoadStates /\ r.base = pointer /\ r.publications = 0
  BY <1>2, NotLoadingFacts DEF NotLoading, LoadStates
<1>. HIDE DEF r
<1>4. Try(l, r, pointer.cur)
  BY <1>1 DEF r
<1>5. UNCHANGED <<blobs, pointer, info, used, late, old, saver, saved, faults>>
  BY DEF Load
<1>. QED
  BY <1>2, <1>3, <1>4, <1>5, TryEffect DEF LoadStep

LEMMA TryPreviousEffect ==
    ASSUME BaseInv, NEW l \in Loaders, TryPrevious(l)
    PROVE  /\ load' \in [Loaders -> LoadStates] /\ \A k \in Loaders : k = l \/ load'[k] = load[k]
           /\ load'[l].at \in {"failed", "manifest"}
           /\ load'[l].base = load[l].base /\ load'[l].range = load[l].range
           /\ load'[l].publications = load[l].publications
<1>1. load[l] \in LoadStates
  BY DEF BaseInv, Typed
<1>2. PICK g : g = IF load[l].gen = load[l].base.cur THEN load[l].base.prev ELSE NoGeneration
  OBVIOUS
<1>3. load[l].base \in Pointers
  BY <1>1 DEF LoadStates
<1>4. g \in Slots
  BY <1>2, <1>3, PointerFacts, Numbers
<1>5. Try(l, load[l], g)
  BY <1>2 DEF TryPrevious
<1>. QED
  BY <1>1, <1>4, <1>5, TryEffect

(* A load gives its generation up only when an object is missing, the       *)
(* generation does not suit it, or a read fails.                            *)
LEMMA ReadEffect ==
    ASSUME BaseInv, NEW l \in Loaders, ReadManifest(l) \/ ReadPart(l) \/ ReadError(l)
    PROVE  /\ LoadStep(l) /\ load[l].at \in {"manifest", "parts"}
           /\ load'[l].base = load[l].base /\ load'[l].range = load[l].range
           /\ load'[l].publications = load[l].publications
           /\ faults' = faults /\ Complete(load[l].gen) /\ Compatible(l, load[l].gen) =>
                 load'[l].gen = load[l].gen /\ load'[l].at \in {"parts", "loaded"}
<1>0. load[l] \in LoadStates
  BY DEF BaseInv, Typed
<1>1. CASE ReadError(l)
  <2>1. faults' = faults + 1 /\ faults \in Nat
    BY <1>1, Numbers DEF ReadError, Fault, BaseInv, Typed
  <2>2. faults' # faults
    BY <2>1
  <2>. QED
    BY <1>1, <2>2, TryPreviousEffect DEF ReadError, LoadStep
<1>2. CASE ReadManifest(l)
  <2>1. load[l].at = "manifest" /\ UNCHANGED <<blobs, pointer, info, used, late, old, saver, saved, faults>>
    BY <1>2 DEF ReadManifest
  <2>2. CASE <<load[l].gen, Manifest>> \in blobs /\ Compatible(l, load[l].gen)
    <3> DEFINE r == [load[l] EXCEPT !.at = IF Parts = {} THEN "loaded" ELSE "parts"]
    <3>1. /\ r \in LoadStates /\ r.at \in {"parts", "loaded"} /\ r.base = load[l].base /\ r.range = load[l].range
          /\ r.publications = load[l].publications /\ r.gen = load[l].gen
      BY <1>0 DEF LoadStates, LoadPlaces
    <3>2. SetLoad(l, r)
      BY <1>2, <2>2 DEF ReadManifest
    <3>. HIDE DEF r
    <3>. QED
      BY <2>1, <3>1, <3>2, SetLoadEffect DEF LoadStep
  <2>3. CASE ~(<<load[l].gen, Manifest>> \in blobs /\ Compatible(l, load[l].gen))
    <3>1. TryPrevious(l)
      BY <1>2, <2>3 DEF ReadManifest
    <3>2. ~(Complete(load[l].gen) /\ Compatible(l, load[l].gen))
      BY <2>3 DEF Complete, Objects
    <3>. QED
      BY <2>1, <3>1, <3>2, TryPreviousEffect DEF LoadStep
  <2>. QED
    BY <2>2, <2>3
<1>3. CASE ReadPart(l)
  <2>1. load[l].at = "parts" /\ UNCHANGED <<blobs, pointer, info, used, late, old, saver, saved, faults>>
    BY <1>3 DEF ReadPart
  <2>2. PICK o \in load[l].left :
          IF <<load[l].gen, o>> \in blobs
          THEN SetLoad(l, [load[l] EXCEPT !.left = @ \ {o},
                                          !.at = IF load[l].left = {o} THEN "loaded" ELSE "parts"])
          ELSE TryPrevious(l)
    BY <1>3 DEF ReadPart
  <2>3. load[l].left \in SUBSET Parts /\ o \in Objects
    BY <1>0 DEF LoadStates, Objects
  <2>4. CASE <<load[l].gen, o>> \in blobs
    <3> DEFINE r == [load[l] EXCEPT !.left = @ \ {o}, !.at = IF load[l].left = {o} THEN "loaded" ELSE "parts"]
    <3>1. /\ r \in LoadStates /\ r.at \in {"parts", "loaded"} /\ r.base = load[l].base /\ r.range = load[l].range
          /\ r.publications = load[l].publications /\ r.gen = load[l].gen
      BY <1>0, <2>3 DEF LoadStates, LoadPlaces
    <3>2. SetLoad(l, r)
      BY <2>2, <2>4
    <3>. HIDE DEF r
    <3>. QED
      BY <2>1, <3>1, <3>2, SetLoadEffect DEF LoadStep
  <2>5. CASE <<load[l].gen, o>> \notin blobs
    <3>1. TryPrevious(l)
      BY <2>2, <2>5
    <3>2. ~Complete(load[l].gen)
      BY <2>3, <2>5 DEF Complete
    <3>. QED
      BY <2>1, <3>1, <3>2, TryPreviousEffect DEF LoadStep
  <2>. QED
    BY <2>4, <2>5
<1>. QED
  BY <1>1, <1>2, <1>3

LEMMA LoadDoneEffect ==
    ASSUME BaseInv, NEW l \in Loaders, LoadDone(l)
    PROVE  LoadStep(l) /\ load'[l] = NotLoading /\ faults' = faults
BY SetLoadEffect, NotLoadingFacts DEF LoadDone, LoadStep

----------------------------------------------------------------------------
LEMMA BaseInit == Init => BaseInv
<1>. SUFFICES ASSUME Init PROVE BaseInv
  OBVIOUS
<1>1. /\ NoPointer \in Pointers /\ NoPointer.cur = NoGeneration /\ NotLoading \in LoadStates
      /\ NotLoading.base.cur = NoGeneration /\ NoGeneration = 0 /\ NoGeneration \in Slots
      /\ MaxGenerations \in Nat /\ MaxFaults \in Nat
  BY NoPointerFacts, NotLoadingFacts, Numbers
<1>2. used = 0 /\ faults = 0 /\ 0 \in 0 .. MaxGenerations /\ 0 \in 0 .. MaxFaults
  BY <1>1 DEF Init
<1>3. Typed
  BY <1>1, <1>2 DEF Init, Typed, SaverTyped, Places
<1>4. BegunInv
  <2>1. 1 .. used = {}
    BY <1>2
  <2>. QED
    BY <1>1, <1>2, <2>1 DEF Init, BegunInv
<1>5. FreshInv /\ DropInv /\ WrittenInv
  BY DEF Init, FreshInv, DropInv, WrittenInv, Saving, Dropping
<1>. QED
  BY <1>3, <1>4, <1>5 DEF BaseInv

LEMMA BaseSave == ASSUME BaseInv, NEW s \in Savers, Save(s) PROVE BaseInv'
<1>0. Typed /\ BegunInv /\ FreshInv /\ DropInv /\ WrittenInv
  BY DEF BaseInv
<1>1. /\ SaverTyped' /\ OthersSame(s)
      /\ pc[s] = "idle" /\ pc'[s] = "write" /\ gen'[s] = used + 1 /\ base'[s] = pointer
      /\ used + 1 \in Generations /\ used' = used + 1
      /\ UNCHANGED <<blobs, pointer, late, old, load, saved, faults>>
  BY SaveEffect
<1>2. PICK range \in Ranges : info' = [info EXCEPT ![used + 1] = range]
  BY SaveEffect
<1>3. used \in Nat /\ MaxGenerations \in Nat /\ pointer.cur \in Nat /\ pointer.cur <= used
  BY <1>0, Numbers, PointerFacts DEF Typed, BegunInv
<1>4. used' \in 0 .. MaxGenerations
  BY <1>1, <1>3 DEF Generations
<1>5. Typed'
  BY <1>0, <1>1, <1>2, <1>4 DEF Typed
<1>6. \A t \in Savers : t = s \/ (pc'[t] = pc[t] /\ gen'[t] = gen[t] /\ base'[t] = base[t] /\ written'[t] = written[t])
  BY <1>1 DEF OthersSame
<1>7. \A t \in Savers : pc[t] # "idle" =>
         gen[t] # NoGeneration /\ gen[t] <= used /\ gen[t] \in Nat /\ base[t].cur < gen[t] /\ base[t].cur <= pointer.cur
  BY SaverFacts, Numbers
<1>8. BegunInv'
  <2>1. \A g \in 1 .. used' : info'[g] \in Ranges
    <3>. SUFFICES ASSUME NEW g \in 1 .. used' PROVE info'[g] \in Ranges
      OBVIOUS
    <3>1. g \in 1 .. used \/ g = used + 1
      BY <1>1, <1>3
    <3>2. g = used + 1 => info'[g] = range
      BY <1>0, <1>1, <1>2 DEF Typed
    <3>3. g \in 1 .. used => info'[g] = info[g]
      BY <1>0, <1>2, <1>3 DEF Typed
    <3>. QED
      BY <1>0, <3>1, <3>2, <3>3 DEF BegunInv
  <2>2. \A t, u \in Savers : pc'[t] # "idle" /\ pc'[u] # "idle" /\ gen'[t] = gen'[u] => t = u
    <3>1. \A t \in Savers : t # s /\ pc'[t] # "idle" => pc[t] # "idle" /\ gen'[t] = gen[t] /\ gen'[t] # used + 1
      BY <1>3, <1>6, <1>7
    <3>. QED
      BY <1>0, <1>1, <3>1 DEF BegunInv
  <2>3. ASSUME NEW t \in Savers, pc'[t] # "idle"
        PROVE  gen'[t] # NoGeneration /\ gen'[t] <= used' /\ base'[t].cur < gen'[t] /\ base'[t].cur <= pointer.cur
    BY <1>1, <1>3, <1>6, <1>7, <2>3, Numbers
  <2>4. ASSUME NEW w \in late
        PROVE  /\ w.from.cur < w.to.cur /\ w.to.cur <= used'
               /\ w.to.prev = w.from.cur /\ w.from.cur <= pointer.cur
    <3>1. w.to \in Pointers
      BY <1>0 DEF Typed, Writes
    <3>2. w.to.cur \in Nat
      BY <3>1, PointerFacts
    <3>. QED
      BY <1>0, <1>1, <1>3, <3>2 DEF BegunInv
  <2>5. ASSUME NEW l \in Loaders PROVE load[l].base.cur <= used'
    <3>1. load[l].base \in Pointers
      BY <1>0 DEF Typed, LoadStates
    <3>2. load[l].base.cur \in Nat
      BY <3>1, PointerFacts
    <3>. QED
      BY <1>0, <1>1, <1>3, <3>2 DEF BegunInv
  <2>. QED
    BY <1>1, <1>3, <2>1, <2>2, <2>3, <2>4, <2>5 DEF BegunInv
<1>9. /\ \A t \in Savers : Saving(t)' => t = s \/ (Saving(t) /\ gen'[t] = gen[t])
      /\ \A t \in Savers : Dropping(t)' => Dropping(t) /\ (Dropped(t))' = Dropped(t) /\ base'[t] = base[t]
      /\ \A t \in Savers : Dropping(t) => pc[t] # "idle"
  BY <1>1, <1>6 DEF Saving, Dropping, Dropped
<1>10. FreshInv'
  <2>1. gen'[s] # pointer.cur /\ gen'[s] # pointer.prev
    <3>1. pointer \in Pointers
      BY <1>0 DEF Typed
    <3>. QED
      BY <1>1, <1>3, <3>1, PointerFacts
  <2>2. \A w \in late : w.to.cur # gen'[s]
    <3>. SUFFICES ASSUME NEW w \in late PROVE w.to.cur # gen'[s]
      OBVIOUS
    <3>1. w.to.cur <= used
      BY <1>0 DEF BegunInv
    <3>. QED
      BY <1>1, <1>3, <3>1
  <2>3. \A t \in Savers : Dropping(t) => Dropped(t) # gen'[s]
    <3>. SUFFICES ASSUME NEW t \in Savers, Dropping(t) PROVE Dropped(t) # gen'[s]
      OBVIOUS
    <3>1. base[t].prev <= base[t].cur /\ base[t].cur <= pointer.cur /\ base[t].prev \in Nat /\ base[t].cur \in Nat
      BY <1>9, SaverFacts
    <3>. QED
      BY <1>1, <1>3, <3>1 DEF Dropped
  <2>. QED
    BY <1>0, <1>1, <1>9, <2>1, <2>2, <2>3 DEF FreshInv
<1>11. DropInv'
  BY <1>0, <1>1, <1>9 DEF DropInv
<1>12. WrittenInv'
  BY <1>0, <1>1, <1>6 DEF WrittenInv
<1>. QED
  BY <1>5, <1>8, <1>10, <1>11, <1>12 DEF BaseInv

LEMMA BlobsStay ==
    ASSUME BaseInv
    PROVE  /\ \A g \in Generations : \A o \in Objects : blobs \cup {<<g, o>>} \in SUBSET (Generations \X Objects)
           /\ \A g, o : Delete(g, o) => /\ blobs' \in SUBSET (Generations \X Objects) /\ faults' \in 0 .. MaxFaults
                                        /\ faults' = 0 => blobs' = blobs \ {<<g, o>>}
                                        /\ blobs \ {<<g, o>>} \subseteq blobs' /\ blobs' \subseteq blobs
BY FaultEffect DEF BaseInv, Typed, Delete

(* The steps of a save that move the pointer.                               *)
LEMMA BasePublished ==
    ASSUME BaseInv, NEW s \in Savers, SaveStep(s), pc[s] = "publish", pointer = base[s], pointer' = NewPointer(s),
           Published, UNCHANGED <<blobs, old, late>>, saved' \in BOOLEAN, faults' \in 0 .. MaxFaults,
           ~Saving(s)', Dropping(s)' => Dropped(s) # NoGeneration
    PROVE  BaseInv'
<1>0. Typed /\ BegunInv /\ WrittenInv
  BY DEF BaseInv
<1>1. base[s].cur < gen[s] /\ gen[s] <= used
  BY SaverFacts
<1>2. pointer' \in Pointers /\ pointer'.cur = gen[s] /\ pointer'.prev = pointer.cur
  BY <1>0, <1>1, NewPointerFacts
<1>3. \A t \in Savers : pc'[t] # "idle" => pc[t] # "idle" /\ gen'[t] = gen[t] /\ base'[t] = base[t]
  BY DEF SaveStep, OthersSame
<1>4. \A t \in Savers : Saving(t)' => Saving(t) /\ gen[t] # pointer'.cur
  <2>. SUFFICES ASSUME NEW t \in Savers, Saving(t)' PROVE Saving(t) /\ gen[t] # pointer'.cur
    OBVIOUS
  <2>1. t # s /\ pc'[t] = pc[t]
    BY DEF SaveStep, OthersSame
  <2>2. Saving(t) /\ pc[t] # "idle"
    BY <2>1 DEF Saving
  <2>. QED
    BY <1>0, <1>2, <2>1, <2>2 DEF BegunInv
<1>5. \A t \in Savers : Dropping(t)' => Dropping(t) \/ (t = s /\ base[t] = pointer /\ pointer.prev # NoGeneration)
  BY DEF SaveStep, OthersSame, Dropping, Dropped
<1>6. \A t \in Savers : pc'[t] \in {"publish", "drop"} => written'[t] = Objects
  BY <1>0 DEF SaveStep, OthersSame, WrittenInv
<1>7. SaverTyped' /\ UNCHANGED <<info, used>> /\ pointer.cur < pointer'.cur /\ pointer'.cur <= used
  BY <1>1, <1>2 DEF SaveStep
<1>8. blobs' \in SUBSET (Generations \X Objects)
  BY <1>0 DEF Typed
<1>. QED
  BY <1>2, <1>3, <1>4, <1>5, <1>6, <1>7, <1>8, BaseAdvance

LEMMA BaseSaver ==
    ASSUME BaseInv, NEW s \in Savers,
           \/ Put(s) \/ PutError(s) \/ Publish(s) \/ PublishError(s)
           \/ CleanUp(s) \/ DropBegin(s) \/ Drop(s) \/ Crash(s)
    PROVE  BaseInv'
<1>0. /\ blobs \in SUBSET (Generations \X Objects) /\ saved \in BOOLEAN /\ faults \in 0 .. MaxFaults
      /\ pc[s] # "idle" => gen[s] \in Generations
  BY SaverFacts DEF BaseInv, Typed
<1>1. CASE Put(s)
  BY <1>0, <1>1, PutEffect, BlobsStay, BaseStep DEF Dropping
<1>2. CASE PutError(s)
  BY <1>0, <1>2, PutErrorEffect, BlobsStay, FaultEffect, BaseStep DEF Dropping
<1>3. CASE Publish(s) /\ pointer = base[s]
  BY <1>0, <1>3, PublishEffect, BasePublished DEF Dropping, Saving
<1>4. CASE Publish(s) /\ pointer # base[s]
  BY <1>0, <1>4, ConflictEffect, BaseStep DEF Dropping
<1>5. CASE PublishError(s)
  <2>1. /\ SaveStep(s) /\ pc[s] = "publish" /\ pc'[s] = "cleanup" /\ faults' \in 0 .. MaxFaults
        /\ UNCHANGED <<blobs, info, used, old, saved>>
    BY <1>5, PublishErrorEffect, FaultEffect
  <2>2. CASE pointer' = pointer /\ load' = load
    BY <1>0, <1>5, <2>1, <2>2, PublishErrorEffect, BaseStep DEF Dropping, Saving
  <2>3. CASE pointer = base[s] /\ pointer' = NewPointer(s) /\ Published /\ late' = late
    BY <1>0, <2>1, <2>3, BasePublished DEF Dropping, Saving
  <2>. QED
    BY <1>5, <2>2, <2>3, PublishErrorEffect
<1>6. CASE CleanUp(s)
  <2>1. /\ SaveStep(s) /\ pc[s] = "cleanup" /\ ~Dropping(s)'
        /\ UNCHANGED <<pointer, late, old, load, saved>>
    BY <1>6, CleanUpEffect DEF Dropping
  <2>2. blobs' \in SUBSET (Generations \X Objects) /\ faults' \in 0 .. MaxFaults
    BY <1>0, <1>6, CleanUpEffect, BlobsStay
  <2>. QED
    BY <1>0, <2>1, <2>2, BaseStep
<1>7. CASE DropBegin(s)
  <2>1. /\ SaveStep(s) /\ Dropping(s)
        /\ UNCHANGED <<blobs, pointer, late, old, load, saved>>
    BY <1>7, DropBeginEffect DEF Dropping
  <2>2. faults' \in 0 .. MaxFaults
    BY <1>0, <1>7, DropBeginEffect, FaultEffect
  <2>. QED
    BY <1>0, <2>1, <2>2, BaseStep
<1>8. CASE Drop(s)
  <2>1. /\ SaveStep(s) /\ Dropping(s)
        /\ UNCHANGED <<pointer, late, old, load, saved>>
    BY <1>8, DropEffect DEF Dropping
  <2>2. blobs' \in SUBSET (Generations \X Objects) /\ faults' \in 0 .. MaxFaults
    BY <1>0, <1>8, DropEffect, BlobsStay
  <2>. QED
    BY <1>0, <2>1, <2>2, BaseStep
<1>9. CASE Crash(s)
  BY <1>0, <1>9, CrashEffect, FaultEffect, BaseStep DEF Dropping, Saving
<1>. QED
  BY <1>1, <1>2, <1>3, <1>4, <1>5, <1>6, <1>7, <1>8, <1>9

(* An abandoned write reaches the pointer record, at its revision or not.   *)
LEMMA LateEffect ==
    ASSUME BaseInv, NEW w \in late, PublishLate(w)
    PROVE  /\ w \in Writes /\ w.to.cur <= used /\ w.to.prev = w.from.cur /\ w.from.cur < w.to.cur
           /\ late' \subseteq late /\ UNCHANGED <<blobs, info, used, old, saver, saved, faults>>
           /\ \/ pointer' = pointer /\ load' = load
              \/ pointer = w.from /\ pointer' = w.to /\ Published
BY DEF BaseInv, Typed, BegunInv, PublishLate

LEMMA BaseLate == ASSUME BaseInv, NEW w \in late, PublishLate(w) PROVE BaseInv'
<1>. USE DEF saver
<1>0. Typed /\ BegunInv /\ FreshInv /\ DropInv /\ WrittenInv
  BY DEF BaseInv
<1>1. /\ w \in Writes /\ w.to.cur <= used /\ w.to.prev = w.from.cur /\ w.from.cur < w.to.cur
      /\ late' \subseteq late /\ UNCHANGED <<blobs, info, used, old, pc, gen, base, written, saved, faults>>
  BY LateEffect
<1>2. CASE pointer' = pointer /\ load' = load
  <2>1. \A s \in Savers : Dropping(s)' = Dropping(s) /\ Saving(s)' = Saving(s) /\ (Dropped(s))' = Dropped(s)
    BY <1>1 DEF Dropping, Saving, Dropped
  <2>2. Typed'
    BY <1>0, <1>1, <1>2 DEF Typed, SaverTyped
  <2>3. BegunInv'
    BY <1>0, <1>1, <1>2 DEF BegunInv
  <2>4. FreshInv' /\ DropInv' /\ WrittenInv'
    BY <1>0, <1>1, <1>2, <2>1 DEF FreshInv, DropInv, WrittenInv
  <2>. QED
    BY <2>2, <2>3, <2>4 DEF BaseInv
<1>3. CASE pointer = w.from /\ pointer' = w.to /\ Published
  <2>1. pointer' \in Pointers /\ pointer.cur < pointer'.cur /\ pointer'.prev = pointer.cur /\ pointer'.cur <= used
    BY <1>1, <1>3 DEF Writes
  <2>2. SaverTyped' /\ blobs' \in SUBSET (Generations \X Objects) /\ saved' \in BOOLEAN /\ faults' \in 0 .. MaxFaults
    BY <1>0, <1>1 DEF Typed, SaverTyped
  <2>3. \A t \in Savers : Saving(t)' => Saving(t) /\ gen[t] # pointer'.cur
    BY <1>0, <1>1, <1>3 DEF Saving, FreshInv
  <2>4. \A t \in Savers : Dropping(t)' => Dropping(t)
    BY <1>1 DEF Dropping
  <2>5. \A t \in Savers : pc'[t] \in {"publish", "drop"} => written'[t] = Objects
    BY <1>0, <1>1 DEF WrittenInv
  <2>6. \A t \in Savers : pc'[t] # "idle" => pc[t] # "idle" /\ gen'[t] = gen[t] /\ base'[t] = base[t]
    BY <1>1
  <2>. QED
    BY <1>1, <1>3, <2>1, <2>2, <2>3, <2>4, <2>5, <2>6, BaseAdvance
<1>. QED
  BY <1>2, <1>3, LateEffect

LEMMA BaseLoad ==
    ASSUME BaseInv, NEW l \in Loaders, LoadStep(l), load'[l].base.cur <= used
    PROVE  BaseInv'
<1>. USE DEF saver
<1>0. Typed /\ BegunInv /\ FreshInv /\ DropInv /\ WrittenInv
  BY DEF BaseInv
<1>1. \A s \in Savers : Dropping(s)' = Dropping(s) /\ Saving(s)' = Saving(s) /\ (Dropped(s))' = Dropped(s)
  BY DEF Dropping, Saving, Dropped, LoadStep
<1>2. faults' \in 0 .. MaxFaults
  BY <1>0, FaultEffect DEF LoadStep, Typed
<1>3. Typed'
  BY <1>0, <1>2 DEF Typed, SaverTyped, LoadStep
<1>4. BegunInv'
  <2>1. \A k \in Loaders : load'[k].base.cur <= used
    BY <1>0 DEF BegunInv, LoadStep
  <2>. QED
    BY <1>0, <2>1 DEF BegunInv, LoadStep
<1>5. FreshInv' /\ DropInv' /\ WrittenInv'
  BY <1>0, <1>1 DEF FreshInv, DropInv, WrittenInv, LoadStep
<1>. QED
  BY <1>3, <1>4, <1>5 DEF BaseInv

LEMMA BaseLoader ==
    ASSUME BaseInv, NEW l \in Loaders, Load(l) \/ ReadManifest(l) \/ ReadPart(l) \/ ReadError(l) \/ LoadDone(l)
    PROVE  BaseInv'
<1>1. used \in Nat /\ pointer.cur <= used /\ load[l].base.cur <= used
  BY Numbers DEF BaseInv, Typed, BegunInv
<1>2. LoadStep(l) /\ load'[l].base.cur <= used
  BY <1>1, LoadEffect, ReadEffect, LoadDoneEffect, NotLoadingFacts, Numbers
<1>. QED
  BY <1>2, BaseLoad

LEMMA BaseExpiry ==
    ASSUME BaseInv, (\E g \in Generations : GrowOld(g)) \/ (\E b \in blobs : Expire(b)) \/ UNCHANGED vars
    PROVE  BaseInv'
<1>. USE DEF saver, vars
<1>0. Typed /\ BegunInv /\ FreshInv /\ DropInv /\ WrittenInv
  BY DEF BaseInv
<1>1. /\ UNCHANGED <<pointer, info, used, late, pc, gen, base, written, load, saved>>
      /\ faults' \in 0 .. MaxFaults
      /\ blobs' \subseteq blobs /\ old' \in SUBSET Generations
  BY <1>0, FaultEffect DEF GrowOld, Expire, Typed
<1>2. \A s \in Savers : Dropping(s)' = Dropping(s) /\ Saving(s)' = Saving(s) /\ (Dropped(s))' = Dropped(s)
  BY <1>1 DEF Dropping, Saving, Dropped
<1>3. Typed'
  BY <1>0, <1>1 DEF Typed, SaverTyped
<1>4. BegunInv'
  BY <1>0, <1>1 DEF BegunInv
<1>5. FreshInv' /\ DropInv' /\ WrittenInv'
  BY <1>0, <1>1, <1>2 DEF FreshInv, DropInv, WrittenInv
<1>. QED
  BY <1>3, <1>4, <1>5 DEF BaseInv

LEMMA BaseNext == ASSUME BaseInv, [Next]_vars PROVE BaseInv'
BY BaseSave, BaseSaver, BaseLate, BaseLoader, BaseExpiry DEF Next

----------------------------------------------------------------------------
(* Cutoffs.                                                                 *)

(* What has begun does not change.                                          *)
LEMMA InfoStays ==
    ASSUME BaseInv, [Next]_vars, NEW g \in Generations, g <= used
    PROVE  info'[g] = info[g]
<1>. USE DEF saver, vars
<1>1. CASE UNCHANGED info
  BY <1>1
<1>2. ASSUME NEW s \in Savers, Save(s) PROVE info'[g] = info[g]
  <2>1. PICK range \in Ranges : info' = [info EXCEPT ![used + 1] = range]
    BY <1>2, SaveEffect
  <2>2. g # used + 1
    BY Numbers DEF BaseInv, Typed
  <2>. QED
    BY <2>1, <2>2 DEF BaseInv, Typed
<1>. QED
  BY <1>1, <1>2 DEF Next, Put, PutError, Publish, PublishError, CleanUp, DropBegin, Drop, Crash, PublishLate,
     Load, ReadManifest, ReadPart, ReadError, LoadDone, GrowOld, Expire

LEMMA NotOlderStays ==
    ASSUME BaseInv, [Next]_vars, NEW g \in Slots, NEW h \in Generations, g <= used, h <= used, NotOlder(g, h)
    PROVE  NotOlder(g, h)'
<1>1. g # NoGeneration => g \in Generations
  BY Numbers
<1>. QED
  BY <1>1, InfoStays DEF NotOlder

LEMMA SaversKeep ==
    ASSUME BaseInv, [Next]_vars, NEW s \in Savers, pc'[s] # "idle"
    PROVE  Save(s) \/ (pc[s] # "idle" /\ gen'[s] = gen[s] /\ base'[s] = base[s])
<1>. USE DEF saver, vars
<1>1. CASE UNCHANGED <<pc, gen, base>>
  BY <1>1
<1>2. ASSUME NEW t \in Savers, SaveStep(t) PROVE pc[s] # "idle" /\ gen'[s] = gen[s] /\ base'[s] = base[s]
  BY <1>2 DEF SaveStep, OthersSame
<1>3. ASSUME NEW t \in Savers, Save(t)
      PROVE  Save(s) \/ (pc[s] # "idle" /\ gen'[s] = gen[s] /\ base'[s] = base[s])
  BY <1>3, SaveEffect DEF OthersSame
<1>4. ASSUME NEW t \in Savers,
             \/ Put(t) \/ PutError(t) \/ Publish(t) \/ PublishError(t)
             \/ CleanUp(t) \/ DropBegin(t) \/ Drop(t) \/ Crash(t)
      PROVE  SaveStep(t)
  BY <1>4, PutEffect, PutErrorEffect, PublishEffect, ConflictEffect, PublishErrorEffect, CleanUpEffect,
     DropBeginEffect, DropEffect, CrashEffect
<1>5. CASE \/ \E w \in late : PublishLate(w)
           \/ \E l \in Loaders : Load(l) \/ ReadManifest(l) \/ ReadPart(l) \/ ReadError(l) \/ LoadDone(l)
           \/ \E g \in Generations : GrowOld(g)
           \/ \E b \in blobs : Expire(b)
           \/ UNCHANGED vars
  BY <1>1, <1>5 DEF PublishLate, Load, ReadManifest, ReadPart, ReadError, LoadDone, GrowOld, Expire
<1>. QED
  BY <1>2, <1>3, <1>4, <1>5 DEF Next

LEMMA LateKeeps ==
    ASSUME BaseInv, [Next]_vars, NEW w \in late', w \notin late
    PROVE  \E s \in Savers : pc[s] = "publish" /\ w = [from |-> base[s], to |-> NewPointer(s)]
<1>. USE DEF saver, vars
<1>1. ASSUME NEW t \in Savers, PublishError(t) \/ Crash(t)
      PROVE  \E s \in Savers : pc[s] = "publish" /\ w = [from |-> base[s], to |-> NewPointer(s)]
  BY <1>1, PublishErrorEffect, CrashEffect
<1>2. CASE late' \subseteq late
  BY <1>2
<1>. QED
  BY <1>1, <1>2 DEF Next, Save, Put, PutError, Publish, CleanUp, DropBegin, Drop, PublishLate,
     Load, ReadManifest, ReadPart, ReadError, LoadDone, GrowOld, Expire

LEMMA CutoffNext == ASSUME BaseInv, CutoffInv, [Next]_vars PROVE CutoffInv'
<1>0. Typed /\ BegunInv
  BY DEF BaseInv
<1>1. ASSUME NEW s \in Savers, pc[s] # "idle"
      PROVE  /\ base[s].cur \in Slots /\ base[s].cur <= used /\ gen[s] \in Generations /\ gen[s] <= used
             /\ NotOlder(base[s].cur, gen[s])
  <2>1. base[s].cur \in Slots /\ base[s].cur \in Nat /\ pointer.cur \in Nat /\ used \in Nat
    BY SaverFacts, PointerFacts
  <2>2. base[s].cur <= pointer.cur /\ pointer.cur <= used
    BY <1>0, <1>1 DEF BegunInv
  <2>. QED
    BY <1>1, <2>1, <2>2, SaverFacts DEF CutoffInv
<1>2. ASSUME NEW s \in Savers, pc'[s] # "idle" PROVE NotOlder(base[s].cur, gen[s])'
  <2>1. CASE pc[s] # "idle" /\ gen'[s] = gen[s] /\ base'[s] = base[s]
    <3>1. PICK g \in Slots, h \in Generations : g = base[s].cur /\ h = gen[s]
      BY <1>1, <2>1
    <3>2. NotOlder(g, h)'
      BY <1>1, <2>1, <3>1, NotOlderStays
    <3>. QED
      BY <2>1, <3>1, <3>2 DEF NotOlder
  <2>2. CASE Save(s)
    <3>1. PICK range \in Ranges : ~Regressed(range) /\ info' = [info EXCEPT ![used + 1] = range]
      BY <2>2, SaveEffect
    <3>2. gen'[s] = used + 1 /\ base'[s] = pointer /\ used + 1 \in Generations
      BY <2>2, SaveEffect
    <3>3. pointer.cur \in Slots /\ pointer.cur \in Nat /\ pointer.cur <= used /\ used \in Nat
      BY <1>0, PointerFacts, Numbers DEF Typed, BegunInv
    <3>4. info'[used + 1] = range
      BY <1>0, <3>1, <3>2 DEF Typed
    <3>5. CASE pointer.cur = NoGeneration
      BY <3>2, <3>5 DEF NotOlder
    <3>6. CASE pointer.cur # NoGeneration
      <4>1. pointer.cur \in Generations /\ pointer.cur \in 1 .. used
        BY <3>3, <3>6, Numbers
      <4>2. info'[pointer.cur] = info[pointer.cur] /\ info[pointer.cur] \in Ranges
        BY <1>0, <3>3, <4>1, InfoStays DEF BegunInv
      <4>3. range.cutoff \in Nat /\ info[pointer.cur].cutoff \in Nat
        BY <4>2, RepositoryAssumption
      <4>4. info[pointer.cur].identity = range.identity => info[pointer.cur].cutoff <= range.cutoff
        BY <3>1, <3>6, <4>3 DEF Regressed
      <4>. QED
        BY <3>2, <3>4, <4>2, <4>4 DEF NotOlder
    <3>. QED
      BY <3>5, <3>6
  <2>. QED
    BY <1>2, <2>1, <2>2, SaversKeep
<1>3. ASSUME NEW w \in late' PROVE NotOlder(w.from.cur, w.to.cur)'
  <2>1. /\ w.from.cur \in Slots /\ w.to.cur \in Generations /\ w.from.cur <= used /\ w.to.cur <= used
        /\ NotOlder(w.from.cur, w.to.cur)
    <3>1. CASE w \in late
      <4>1. w.from \in Pointers /\ w.to \in Pointers
        BY <1>0, <3>1 DEF Typed, Writes
      <4>2. /\ w.from.cur \in Slots /\ w.to.cur \in Slots /\ w.from.cur \in Nat /\ w.to.cur \in Nat
            /\ w.from.cur < w.to.cur /\ w.to.cur <= used /\ used \in Nat
        BY <1>0, <3>1, <4>1, PointerFacts, Numbers DEF BegunInv, Typed
      <4>3. w.from.cur <= used /\ w.to.cur \in Generations
        BY <4>2, Numbers
      <4>. QED
        BY <3>1, <4>2, <4>3 DEF CutoffInv
    <3>2. CASE w \notin late
      <4>1. PICK s \in Savers : pc[s] = "publish" /\ w = [from |-> base[s], to |-> NewPointer(s)]
        BY <3>2, LateKeeps
      <4>2. w.from.cur = base[s].cur /\ w.to.cur = gen[s]
        BY <4>1 DEF NewPointer
      <4>. QED
        BY <1>1, <4>1, <4>2
    <3>. QED
      BY <3>1, <3>2
  <2>. QED
    BY <2>1, NotOlderStays
<1>. QED
  BY <1>2, <1>3 DEF CutoffInv

LEMMA CutoffInit == Init => CutoffInv
BY DEF Init, CutoffInv

(* A publication moves the pointer to a generation that is no older.        *)
LEMMA NoRegress ==
    ASSUME BaseInv, CutoffInv, [Next]_vars, pointer' # pointer
    PROVE  NotOlder(pointer.cur, pointer'.cur)
<1>. USE DEF saver, vars
<1>1. ASSUME NEW s \in Savers, Publish(s) \/ PublishError(s) PROVE NotOlder(pointer.cur, pointer'.cur)
  <2>1. pointer = base[s] /\ pointer' = NewPointer(s) /\ pc[s] = "publish"
    BY <1>1, PublishEffect, ConflictEffect, PublishErrorEffect
  <2>2. pointer'.cur = gen[s]
    BY <2>1 DEF NewPointer
  <2>. QED
    BY <2>1, <2>2 DEF CutoffInv
<1>2. ASSUME NEW w \in late, PublishLate(w) PROVE NotOlder(pointer.cur, pointer'.cur)
  BY <1>2 DEF PublishLate, CutoffInv
<1>3. CASE pointer' = pointer
  BY <1>3
<1>. QED
  BY <1>1, <1>2, <1>3 DEF Next, Save, Put, PutError, CleanUp, DropBegin, Drop, Crash,
     Load, ReadManifest, ReadPart, ReadError, LoadDone, GrowOld, Expire

----------------------------------------------------------------------------
(* What the pointer names stays complete.                                   *)

LEMMA NamedSafe ==
    ASSUME BaseInv, NEW g \in Generations, Named(g), NEW s \in Savers
    PROVE  (Saving(s) => gen[s] # g) /\ (Dropping(s) => Dropped(s) # g)
<1>0. BegunInv /\ FreshInv /\ DropInv
  BY DEF BaseInv
<1>1. Saving(s) => gen[s] # g
  BY <1>0 DEF Named, FreshInv
<1>2. ASSUME Dropping(s) PROVE Dropped(s) < g
  <2>1. /\ base[s].cur <= pointer.prev /\ base[s].prev # NoGeneration /\ base[s].prev \in Nat /\ base[s].cur \in Nat
        /\ pointer.prev \in Nat /\ pointer.cur \in Nat /\ pointer.prev <= pointer.cur
        /\ base[s].prev <= base[s].cur /\ (base[s].cur # NoGeneration => base[s].prev < base[s].cur)
    BY <1>0, <1>2, SaverFacts, PointerFacts DEF DropInv, Dropped, BaseInv, Typed, SaverTyped
  <2>2. base[s].prev < pointer.prev
    BY <2>1, Numbers
  <2>3. CASE g \in {pointer.cur, pointer.prev}
    BY <2>1, <2>2, <2>3 DEF Dropped
  <2>4. CASE \E w \in late : w.from = pointer /\ w.to.cur = g
    <3>1. PICK w \in late : w.from = pointer /\ w.to.cur = g
      BY <2>4
    <3>2. pointer.cur < g /\ g \in Nat
      BY <1>0, <3>1, Numbers DEF BegunInv
    <3>. QED
      BY <2>1, <2>2, <3>2 DEF Dropped
  <2>. QED
    BY <2>3, <2>4 DEF Named
<1>3. Dropping(s) => Dropped(s) \in Nat
  BY SaverFacts DEF Dropped
<1>. QED
  BY <1>1, <1>2, <1>3, Numbers

LEMMA SoundStays ==
    ASSUME NEW g, Sound(g), \A o \in Objects : <<g, o>> \in blobs => <<g, o>> \in blobs',
           \A s \in Savers : pc'[s] = "cleanup" => gen'[s] # g \/ (pc[s] = "cleanup" /\ gen'[s] = gen[s])
    PROVE  Sound(g)'
BY DEF Sound, Complete

(* What a step of a save deletes.                                           *)
DeletesOwn(s) ==
    \A g \in Generations : \A o \in Objects :
        <<g, o>> \in blobs =>
            <<g, o>> \in blobs' \/ (pc[s] = "cleanup" /\ gen[s] = g) \/ (Dropping(s) /\ Dropped(s) = g)

LEMMA SoundKept ==
    ASSUME BaseInv, NEW s \in Savers, SaveStep(s), DeletesOwn(s), pc'[s] = "cleanup" => pc[s] = "cleanup" \/ Saving(s),
           NEW g \in Generations, Named(g), Sound(g)
    PROVE  Sound(g)'
<1>1. \A o \in Objects : <<g, o>> \in blobs => <<g, o>> \in blobs'
  BY NamedSafe DEF DeletesOwn, Sound
<1>2. \A t \in Savers : pc'[t] = "cleanup" => gen'[t] # g \/ (pc[t] = "cleanup" /\ gen'[t] = gen[t])
  BY NamedSafe DEF SaveStep, OthersSame
<1>. QED
  BY <1>1, <1>2, SoundStays

(* Saves store what they have written.                                      *)
Stored(s) == \A o \in written[s] : <<gen[s], o>> \in blobs

LEMMA StoredKept ==
    ASSUME BaseInv, NEW s \in Savers, SaveStep(s), DeletesOwn(s), NEW t \in Savers, t # s, Saving(t), Stored(t)
    PROVE  Stored(t)' /\ gen'[t] = gen[t]
<1>1. /\ gen'[t] = gen[t] /\ written'[t] = written[t] /\ written[t] \in SUBSET Objects
      /\ pc[t] # "idle" /\ pc[s] # "idle" /\ gen[t] \in Generations
  BY SaverFacts DEF SaveStep, OthersSame, Saving
<1>2. gen[t] # gen[s] /\ (Dropping(s) => Dropped(s) # gen[t])
  BY <1>1 DEF BaseInv, BegunInv, FreshInv
<1>. QED
  BY <1>1, <1>2 DEF Stored, DeletesOwn

LEMMA SoundStep ==
    ASSUME BaseInv, NEW x \in Slots, SoundInv(x), NEW s \in Savers, SaveStep(s), DeletesOwn(s),
           pc'[s] = "cleanup" => pc[s] = "cleanup" \/ Saving(s),
           pointer' = pointer, saved' = saved, Saving(s)' => Stored(s)',
           late' = late \/ (late' = late \cup {[from |-> base[s], to |-> NewPointer(s)]}
                            /\ \A g \in Generations : g = gen[s] => Sound(g)')
    PROVE  SoundInv(x)'
<1>1. ASSUME NEW t \in Savers, Saving(t)' PROVE (gen[t] # x)' /\ Stored(t)'
  <2>1. Saving(t) /\ gen'[t] = gen[t]
    BY <1>1 DEF Saving, SaveStep, OthersSame
  <2>2. gen[t] # x /\ Stored(t)
    BY <2>1 DEF SoundInv, Stored
  <2>3. CASE t = s
    BY <1>1, <2>1, <2>2, <2>3
  <2>4. CASE t # s
    BY <2>1, <2>2, <2>4, StoredKept
  <2>. QED
    BY <2>3, <2>4
<1>2. ASSUME NEW g \in Generations, Named(g)', g # x PROVE Sound(g)'
  <2>1. CASE Named(g)
    BY <1>2, <2>1, SoundKept DEF SoundInv
  <2>2. CASE ~Named(g)
    BY <1>2, <2>2 DEF Named, NewPointer
  <2>. QED
    BY <2>1, <2>2
<1>3. saved' => pointer'.cur # NoGeneration /\ ~({pointer'.cur, pointer'.prev} \subseteq {NoGeneration, x})
  BY DEF SoundInv
<1>4. x <= used'
  BY DEF SoundInv, SaveStep
<1>. QED
  BY <1>1, <1>2, <1>3, <1>4 DEF SoundInv, Stored

(* What a save publishes is complete.                                       *)
LEMMA SoundToPublish ==
    ASSUME BaseInv, NEW x \in Slots, SoundInv(x), NEW s \in Savers, pc[s] = "publish"
    PROVE  /\ gen[s] \in Generations /\ gen[s] # x /\ gen[s] <= used /\ pointer.cur \in Nat
           /\ gen[s] # pointer.cur /\ gen[s] # pointer.prev
           /\ Sound(gen[s]) /\ base[s].cur < gen[s] /\ base[s].cur <= pointer.cur
           /\ \A t \in Savers : pc[t] # "idle" /\ gen[t] = gen[s] => t = s
<1>1. Stored(s) /\ gen[s] # x /\ written[s] = Objects
  BY DEF SoundInv, Saving, Stored, BaseInv, WrittenInv
<1>2. \A t \in Savers : pc[t] # "idle" /\ gen[t] = gen[s] => t = s
  BY DEF BaseInv, BegunInv
<1>3. gen[s] # pointer.cur /\ gen[s] # pointer.prev
  BY DEF BaseInv, FreshInv, Saving
<1>. QED
  BY <1>1, <1>2, <1>3, SaverFacts DEF Sound, Complete, Stored

LEMMA LateBehind ==
    ASSUME BaseInv, NEW p \in Pointers, pointer.cur < p.cur, NEW w \in late PROVE w.from # p
<1>1. w.from \in Pointers /\ pointer \in Pointers /\ w.from.cur <= pointer.cur
  BY DEF BaseInv, Typed, BegunInv, Writes
<1>. QED
  BY <1>1, PointerFacts

LEMMA SoundPublish ==
    ASSUME BaseInv, NEW x \in Slots, SoundInv(x), NEW s \in Savers, Publish(s), pointer = base[s]
    PROVE  SoundInv(x)'
<1>1. /\ SaveStep(s) /\ pc[s] = "publish" /\ pointer' = NewPointer(s) /\ pc'[s] \notin {"cleanup", "write", "publish"}
      /\ UNCHANGED <<blobs, late, used>>
  BY PublishEffect DEF SaveStep
<1>2. /\ gen[s] \in Generations /\ gen[s] # x /\ Sound(gen[s]) /\ pointer.cur < gen[s] /\ pointer.cur \in Nat
      /\ \A t \in Savers : pc[t] # "idle" /\ gen[t] = gen[s] => t = s
  BY <1>1, SoundToPublish
<1>3. pointer' \in Pointers /\ pointer'.cur = gen[s] /\ pointer'.prev = pointer.cur
  BY <1>1, <1>2, NewPointerFacts DEF BaseInv
<1>4. DeletesOwn(s)
  BY <1>1 DEF DeletesOwn
<1>5. ASSUME NEW t \in Savers, Saving(t)' PROVE (gen[t] # x)' /\ Stored(t)'
  <2>1. t # s /\ Saving(t) /\ gen'[t] = gen[t]
    BY <1>1, <1>5 DEF Saving, SaveStep, OthersSame
  <2>. QED
    BY <1>1, <1>4, <2>1, StoredKept DEF SoundInv, Stored
<1>6. ASSUME NEW g \in Generations, Named(g)', g # x PROVE Sound(g)'
  <2>1. g = gen[s] \/ g = pointer.cur
    BY <1>1, <1>2, <1>3, <1>6, LateBehind DEF Named
  <2>2. CASE g = gen[s]
    BY <1>1, <1>2, <2>2, SoundStays DEF SaveStep, OthersSame
  <2>3. CASE g = pointer.cur
    <3>1. Named(g) /\ Sound(g)
      BY <1>6, <2>3 DEF Named, SoundInv
    <3>. QED
      BY <1>1, <1>4, <3>1, SoundKept
  <2>. QED
    BY <2>1, <2>2, <2>3
<1>7. pointer'.cur # NoGeneration /\ ~({pointer'.cur, pointer'.prev} \subseteq {NoGeneration, x}) /\ x <= used'
  BY <1>1, <1>2, <1>3, Numbers DEF SoundInv
<1>. QED
  BY <1>5, <1>6, <1>7 DEF SoundInv, Stored

(* The publication that was reported as failed is the exception.            *)
LEMMA SoundPublishError ==
    ASSUME BaseInv, SoundInv(NoGeneration), NEW s \in Savers, PublishError(s)
    PROVE  SoundInv(gen[s])'
<1>1. /\ SaveStep(s) /\ pc[s] = "publish" /\ pc'[s] = "cleanup" /\ gen'[s] = gen[s]
      /\ UNCHANGED <<blobs, used, saved>>
  BY PublishErrorEffect DEF SaveStep
<1>2. /\ gen[s] \in Generations /\ gen[s] <= used /\ base[s].cur < gen[s] /\ pointer.cur \in Nat
      /\ base[s].cur <= pointer.cur /\ gen[s] # pointer.cur /\ gen[s] # pointer.prev
      /\ \A t \in Savers : pc[t] # "idle" /\ gen[t] = gen[s] => t = s
  BY <1>1, Numbers, SoundToPublish
<1>3. NewPointer(s) \in Pointers /\ NewPointer(s).cur = gen[s] /\ NewPointer(s).prev = base[s].cur
  BY <1>2, NewPointerFacts DEF BaseInv
<1>4. DeletesOwn(s)
  BY <1>1 DEF DeletesOwn
<1>5. ASSUME NEW t \in Savers, Saving(t)' PROVE (gen[t] # gen[s])' /\ Stored(t)'
  <2>1. t # s /\ Saving(t) /\ gen'[t] = gen[t] /\ pc[t] # "idle"
    BY <1>1, <1>5 DEF Saving, SaveStep, OthersSame
  <2>. QED
    BY <1>1, <1>2, <1>4, <2>1, StoredKept DEF SoundInv, Stored
<1>6. ASSUME NEW g \in Generations, Named(g), g # gen[s] PROVE Sound(g)'
  BY <1>1, <1>4, <1>6, SoundKept, Numbers DEF SoundInv, Saving
<1>7. ASSUME NEW g \in Generations, Named(g)', g # gen[s] PROVE Named(g)
  <2>1. CASE pointer' = pointer /\ late' = late
    BY <1>7, <2>1 DEF Named
  <2>2. CASE pointer' = pointer /\ late' = late \cup {[from |-> base[s], to |-> NewPointer(s)]}
    BY <1>3, <1>7, <2>2 DEF Named
  <2>3. CASE pointer = base[s] /\ pointer' = NewPointer(s) /\ late' = late
    <3>1. \A w \in late : w.from # pointer'
      BY <1>2, <1>3, <2>3, LateBehind
    <3>2. g = pointer.cur
      BY <1>3, <1>7, <2>3, <3>1 DEF Named
    <3>. QED
      BY <3>2 DEF Named
  <2>. QED
    BY <2>1, <2>2, <2>3, PublishErrorEffect
<1>8. ASSUME saved
      PROVE  pointer'.cur # NoGeneration /\ ~({pointer'.cur, pointer'.prev} \subseteq {NoGeneration, gen[s]})
  <2>1. pointer.cur # NoGeneration
    BY <1>8 DEF SoundInv
  <2>2. pointer' = pointer \/ (pointer'.cur = gen[s] /\ pointer'.prev = pointer.cur)
    BY <1>3, PublishErrorEffect
  <2>. QED
    BY <1>2, <2>1, <2>2, Numbers
<1>. QED
  BY <1>1, <1>2, <1>5, <1>6, <1>7, <1>8 DEF SoundInv, Stored

LEMMA SoundLate ==
    ASSUME BaseInv, NEW x \in Slots, SoundInv(x), NEW w \in late, PublishLate(w)
    PROVE  SoundInv(x)'
<1>. USE DEF saver
<1>1. /\ w \in Writes /\ w.to.cur <= used /\ w.to.prev = w.from.cur /\ w.from.cur < w.to.cur
      /\ late' \subseteq late /\ UNCHANGED <<blobs, used, pc, gen, base, written, saved>>
  BY LateEffect
<1>2. w.to \in Pointers /\ w.from \in Pointers /\ w.from.cur \in Nat /\ w.to.cur \in Nat
  BY <1>1, PointerFacts DEF Writes
<1>3. ASSUME NEW g \in Generations, Named(g)' PROVE Named(g)
  <2>1. CASE pointer' = pointer
    BY <1>1, <1>3, <2>1 DEF Named
  <2>2. CASE pointer = w.from /\ pointer' = w.to
    <3>1. \A v \in late : v.from # pointer'
      BY <1>1, <1>2, <2>2, LateBehind
    <3>2. g = w.to.cur \/ g = pointer.cur
      BY <1>1, <1>3, <2>2, <3>1 DEF Named
    <3>. QED
      BY <2>2, <3>2 DEF Named
  <2>. QED
    BY <2>1, <2>2, LateEffect
<1>4. ASSUME saved
      PROVE  pointer'.cur # NoGeneration /\ ~({pointer'.cur, pointer'.prev} \subseteq {NoGeneration, x})
  <2>1. pointer.cur # NoGeneration
    BY <1>4 DEF SoundInv
  <2>2. pointer' = pointer \/ (pointer'.cur = w.to.cur /\ pointer'.prev = pointer.cur /\ pointer.cur < w.to.cur)
    BY <1>1, LateEffect
  <2>3. ~({pointer.cur, pointer.prev} \subseteq {NoGeneration, x})
    BY <1>4 DEF SoundInv
  <2>4. CASE pointer' = pointer
    BY <2>1, <2>3, <2>4
  <2>5. CASE pointer'.cur = w.to.cur /\ pointer'.prev = pointer.cur /\ pointer.cur < w.to.cur
    <3>1. pointer.cur \in Nat /\ x \in Nat
      BY PointerFacts, Numbers DEF BaseInv, Typed
    <3>. QED
      BY <1>2, <2>1, <2>5, <3>1, Numbers
  <2>. QED
    BY <2>2, <2>4, <2>5
<1>5. \A g \in Generations : Sound(g) => Sound(g)'
  BY <1>1 DEF Sound, Complete
<1>6. \A s \in Savers : Saving(s)' => Saving(s)
  BY <1>1 DEF Saving
<1>. QED
  BY <1>1, <1>3, <1>4, <1>5, <1>6 DEF SoundInv

LEMMA SoundSave ==
    ASSUME BaseInv, NEW x \in Slots, SoundInv(x), NEW s \in Savers, Save(s)
    PROVE  SoundInv(x)'
<1>1. /\ OthersSame(s)
      /\ pc[s] = "idle" /\ pc'[s] = "write" /\ gen'[s] = used + 1 /\ written'[s] = {}
      /\ used' = used + 1 /\ UNCHANGED <<blobs, pointer, late, saved>>
  BY SaveEffect
<1>2. x <= used /\ x \in Nat /\ used \in Nat
  BY Numbers DEF SoundInv, BaseInv, Typed
<1>3. \A g \in Generations : Named(g)' = Named(g)
  BY <1>1 DEF Named
<1>4. \A g \in Generations : Sound(g) => Sound(g)'
  BY <1>1 DEF Sound, Complete, OthersSame
<1>5. ASSUME NEW t \in Savers, Saving(t)' PROVE gen'[t] # x /\ \A o \in written'[t] : <<gen'[t], o>> \in blobs'
  <2>1. CASE t = s
    BY <1>1, <1>2, <2>1
  <2>2. CASE t # s
    BY <1>1, <1>5, <2>2 DEF OthersSame, Saving, SoundInv
  <2>. QED
    BY <2>1, <2>2
<1>6. x <= used' /\ (saved' => pointer'.cur # NoGeneration /\ ~({pointer'.cur, pointer'.prev} \subseteq {NoGeneration, x}))
  BY <1>1, <1>2 DEF SoundInv
<1>. QED
  BY <1>3, <1>4, <1>5, <1>6 DEF SoundInv

LEMMA SoundSaver ==
    ASSUME BaseInv, NEW x \in Slots, SoundInv(x), NEW s \in Savers,
           \/ Put(s) \/ PutError(s) \/ Publish(s) \/ CleanUp(s) \/ DropBegin(s) \/ Drop(s) \/ Crash(s)
    PROVE  SoundInv(x)'
<1>1. CASE Put(s)
  <2>1. PICK o \in Objects : blobs' = blobs \cup {<<gen[s], o>>} /\ written'[s] = written[s] \cup {o}
    BY <1>1, PutEffect
  <2>2. /\ SaveStep(s) /\ pc[s] = "write" /\ pc'[s] \in {"write", "publish"} /\ gen'[s] = gen[s]
        /\ pointer' = pointer /\ saved' = saved /\ late' = late
    BY <1>1, PutEffect DEF SaveStep
  <2>3. DeletesOwn(s)
    BY <2>1 DEF DeletesOwn
  <2>4. Stored(s)'
    BY <2>1, <2>2 DEF SoundInv, Saving, Stored
  <2>. QED
    BY <2>2, <2>3, <2>4, SoundStep
<1>2. CASE PutError(s)
  <2>1. /\ SaveStep(s) /\ pc[s] = "write" /\ pc'[s] = "cleanup"
        /\ pointer' = pointer /\ saved' = saved /\ late' = late /\ blobs \subseteq blobs'
    BY <1>2, PutErrorEffect
  <2>2. DeletesOwn(s)
    BY <2>1 DEF DeletesOwn
  <2>. QED
    BY <2>1, <2>2, SoundStep DEF Saving
<1>3. CASE Publish(s) /\ pointer = base[s]
  BY <1>3, SoundPublish
<1>4. CASE Publish(s) /\ pointer # base[s]
  <2>1. /\ SaveStep(s) /\ pc[s] = "publish" /\ pc'[s] = "cleanup"
        /\ pointer' = pointer /\ saved' = saved /\ late' = late /\ blobs' = blobs
    BY <1>4, ConflictEffect
  <2>2. DeletesOwn(s)
    BY <2>1 DEF DeletesOwn
  <2>. QED
    BY <2>1, <2>2, SoundStep DEF Saving
<1>5. CASE CleanUp(s)
  <2>1. /\ SaveStep(s) /\ pc[s] = "cleanup" /\ pc'[s] \in {"cleanup", "idle"}
        /\ pointer' = pointer /\ saved' = saved /\ late' = late
    BY <1>5, CleanUpEffect
  <2>2. DeletesOwn(s)
    BY <1>5, <2>1, CleanUpEffect, BlobsStay DEF DeletesOwn
  <2>. QED
    BY <2>1, <2>2, SoundStep DEF Saving
<1>6. CASE DropBegin(s)
  <2>1. /\ SaveStep(s) /\ pc'[s] \in {"dropping", "idle"}
        /\ pointer' = pointer /\ saved' = saved /\ late' = late /\ blobs' = blobs
    BY <1>6, DropBeginEffect
  <2>2. DeletesOwn(s)
    BY <2>1 DEF DeletesOwn
  <2>. QED
    BY <2>1, <2>2, SoundStep DEF Saving
<1>7. CASE Drop(s)
  <2>1. /\ SaveStep(s) /\ pc[s] = "dropping" /\ pc'[s] \in {"dropping", "idle"}
        /\ pointer' = pointer /\ saved' = saved /\ late' = late
    BY <1>7, DropEffect
  <2>2. DeletesOwn(s)
    BY <1>7, <2>1, DropEffect, BlobsStay DEF DeletesOwn, Dropping
  <2>. QED
    BY <2>1, <2>2, SoundStep DEF Saving
<1>8. CASE Crash(s)
  <2>1. /\ SaveStep(s) /\ pc'[s] = "idle"
        /\ pointer' = pointer /\ saved' = saved /\ blobs' = blobs
    BY <1>8, CrashEffect
  <2>2. DeletesOwn(s)
    BY <2>1 DEF DeletesOwn
  <2>3. ASSUME pc[s] = "publish", NEW g \in Generations, g = gen[s] PROVE Sound(g)'
    BY <2>1, <2>3, SoundToPublish, SoundStays DEF SaveStep, OthersSame
  <2>4. late' = late \/ (late' = late \cup {[from |-> base[s], to |-> NewPointer(s)]} /\ pc[s] = "publish")
    BY <1>8, CrashEffect
  <2>. QED
    BY <2>1, <2>2, <2>3, <2>4, SoundStep DEF Saving
<1>. QED
  BY <1>1, <1>2, <1>3, <1>4, <1>5, <1>6, <1>7, <1>8

LEMMA SoundOther ==
    ASSUME BaseInv, NEW x \in Slots, SoundInv(x), old' = {},
           \/ \E l \in Loaders : Load(l) \/ ReadManifest(l) \/ ReadPart(l) \/ ReadError(l) \/ LoadDone(l)
           \/ \E g \in Generations : GrowOld(g)
           \/ \E b \in blobs : Expire(b)
           \/ UNCHANGED vars
    PROVE  SoundInv(x)'
<1>. USE DEF saver, vars
<1>1. UNCHANGED <<blobs, pointer, used, late, pc, gen, base, written, saved>>
  BY DEF Load, ReadManifest, ReadPart, ReadError, LoadDone, GrowOld, Expire
<1>2. \A g \in Generations : Named(g)' = Named(g) /\ Sound(g)' = Sound(g)
  BY <1>1 DEF Named, Sound, Complete
<1>3. \A s \in Savers : Saving(s)' = Saving(s)
  BY <1>1 DEF Saving
<1>. QED
  BY <1>1, <1>2, <1>3 DEF SoundInv

LEMMA FaultsGrow ==
    ASSUME BaseInv, [Next]_vars
    PROVE  /\ faults \in Nat /\ faults' \in Nat /\ (faults' = faults \/ (Fault /\ faults' = faults + 1))
           /\ old \subseteq old'
<1>. USE DEF saver, vars
<1>1. faults' = faults \/ Fault
  BY DEF Next, Save, Put, PutError, Publish, PublishError, CleanUp, DropBegin, Drop, Crash, PublishLate,
     Load, ReadManifest, ReadPart, ReadError, LoadDone, GrowOld, Expire, Delete
<1>2. old \subseteq old'
  BY DEF Next, Save, Put, PutError, Publish, PublishError, CleanUp, DropBegin, Drop, Crash, PublishLate,
     Load, ReadManifest, ReadPart, ReadError, LoadDone, GrowOld, Expire
<1>3. faults \in Nat
  BY Numbers DEF BaseInv, Typed
<1>. QED
  BY <1>1, <1>2, <1>3, FaultEffect, Numbers

LEMMA KeptInit == Init => KeptInv
<1>. SUFFICES ASSUME Init PROVE KeptInv
  OBVIOUS
<1>1. SoundInv(NoGeneration)
  BY Numbers, NoPointerFacts DEF Init, SoundInv, Saving, Named
<1>. QED
  BY <1>1, Numbers DEF KeptInv

LEMMA KeptNext == ASSUME BaseInv, KeptInv, [Next]_vars PROVE KeptInv'
<1>. SUFFICES ASSUME faults' <= 1, old' = {}
              PROVE  \E x \in Slots : (faults' = 0 => x = NoGeneration) /\ SoundInv(x)'
  BY DEF KeptInv
<1>1. faults \in Nat /\ faults' \in Nat /\ (faults' = faults \/ (Fault /\ faults' = faults + 1)) /\ old = {}
  BY FaultsGrow
<1>2. faults <= 1 /\ (faults' = 0 => faults = 0)
  BY <1>1
<1>3. PICK x \in Slots : (faults = 0 => x = NoGeneration) /\ SoundInv(x)
  BY <1>1, <1>2 DEF KeptInv
<1>4. ASSUME NEW s \in Savers, PublishError(s)
      PROVE  \E y \in Slots : (faults' = 0 => y = NoGeneration) /\ SoundInv(y)'
  <2>1. Fault
    BY <1>4, PublishErrorEffect
  <2>2. faults = 0 /\ faults' # 0
    BY <1>1, <2>1, FaultEffect
  <2>3. gen[s] \in Slots /\ gen'[s] = gen[s]
    BY <1>4, SaverFacts, PublishErrorEffect
  <2>4. SoundInv(gen[s])'
    BY <1>3, <1>4, <2>2, SoundPublishError
  <2>5. PICK y \in Slots : y = gen[s]
    BY <2>3
  <2>6. SoundInv(y)'
    BY <2>3, <2>4, <2>5 DEF SoundInv
  <2>. QED
    BY <2>2, <2>6
<1>5. SoundInv(x)' => \E y \in Slots : (faults' = 0 => y = NoGeneration) /\ SoundInv(y)'
  BY <1>2, <1>3
<1>. QED
  BY <1>3, <1>4, <1>5, SoundSave, SoundSaver, SoundLate, SoundOther DEF Next

----------------------------------------------------------------------------
(* What holds without faults.                                               *)

LEMMA QuietInit == Init => Quiet
<1>. SUFFICES ASSUME Init PROVE Quiet
  OBVIOUS
<1>1. KnownInv
  BY DEF Init, KnownInv
<1>2. LoadInv
  BY DEF Init, LoadInv, NotLoading
<1>. QED
  BY <1>1, <1>2 DEF Quiet

Held(s) == pc[s] \in {"write", "publish", "cleanup"}
StoredBy(g, os) == \A o \in Objects : <<g, o>> \in blobs => o \in os

LEMMA KnownParts ==
    KnownInv <=> /\ late = {} /\ old = {}
                 /\ \A b \in blobs : Owned(b)
                 /\ \A s \in Savers : Held(s) => StoredBy(gen[s], written[s])
                 /\ \A s \in Savers : pc[s] = "drop" => Sound(Dropped(s))
                 /\ \A s \in Savers : pc[s] = "dropping" => StoredBy(Dropped(s), written[s])
BY DEF KnownInv, Held, StoredBy

LEMMA KnownPartsNext ==
    KnownInv' <=> /\ late' = {} /\ old' = {}
                  /\ \A b \in blobs' : Owned(b)'
                  /\ \A s \in Savers : Held(s)' => StoredBy(gen[s], written[s])'
                  /\ \A s \in Savers : pc'[s] = "drop" => Sound(Dropped(s))'
                  /\ \A s \in Savers : pc'[s] = "dropping" => StoredBy(Dropped(s), written[s])'
BY DEF KnownInv, Held, StoredBy

(* A step of a save that does not publish.                                  *)
LEMMA KnownStep ==
    ASSUME BaseInv, KnownInv, NEW s \in Savers, SaveStep(s), pointer' = pointer, late' = late, old' = old, DeletesOwn(s),
           \A b \in blobs' : b \in blobs \/ (b[1] = gen[s] /\ Saving(s) /\ Held(s)'),
           Held(s)' => Held(s) /\ StoredBy(gen[s], written[s])',
           pc'[s] = "cleanup" => pc[s] = "cleanup" \/ Saving(s),
           pc'[s] # "drop", pc'[s] = "dropping" => Dropping(s) /\ StoredBy(Dropped(s), written[s])',
           Held(s) /\ ~Held(s)' => \A b \in blobs' : b[1] # gen[s],
           Dropping(s) /\ ~Dropping(s)' => \A b \in blobs' : b[1] # Dropped(s)
    PROVE  KnownInv'
<1>0. BegunInv /\ FreshInv /\ DropInv /\ pc[s] # "idle"
  BY DEF BaseInv, SaveStep
<1>1. \A t \in Savers : t = s \/ (pc'[t] = pc[t] /\ gen'[t] = gen[t] /\ base'[t] = base[t] /\ written'[t] = written[t])
  BY DEF SaveStep, OthersSame
<1>2. /\ \A t \in Savers : t # s /\ Held(t) => Held(t)' /\ gen'[t] = gen[t]
      /\ \A t \in Savers : t # s /\ Dropping(t) => Dropping(t)' /\ (Dropped(t))' = Dropped(t)
      /\ Held(s)' => gen'[s] = gen[s]
      /\ Dropping(s)' => (Dropped(s))' = Dropped(s)
  BY <1>1 DEF Held, Dropping, Dropped, SaveStep
<1>3. ASSUME NEW b \in blobs' PROVE Owned(b)'
  <2>1. CASE b[1] = gen[s] /\ Held(s)'
    BY <1>2, <2>1 DEF Owned, Held
  <2>2. CASE b \in blobs
    <3>1. Owned(b)
      BY <2>2 DEF KnownInv
    <3>2. CASE b[1] \in {pointer.cur, pointer.prev}
      BY <3>2 DEF Owned
    <3>3. ASSUME NEW t \in Savers, Held(t), gen[t] = b[1] PROVE Owned(b)'
      <4>1. Held(t)' /\ gen'[t] = b[1]
        BY <1>2, <1>3, <3>3
      <4>. QED
        BY <4>1 DEF Owned, Held
    <3>4. ASSUME NEW t \in Savers, Dropping(t), Dropped(t) = b[1] PROVE Owned(b)'
      <4>1. Dropping(t)' /\ (Dropped(t))' = b[1]
        BY <1>2, <1>3, <3>4
      <4>. QED
        BY <4>1 DEF Owned
    <3>. QED
      BY <3>1, <3>2, <3>3, <3>4 DEF Owned, Held
  <2>. QED
    BY <2>1, <2>2
<1>4. ASSUME NEW t \in Savers, Held(t)' PROVE StoredBy(gen[t], written[t])'
  <2>1. CASE t = s
    BY <1>4, <2>1
  <2>2. CASE t # s
    <3>1. Held(t) /\ gen'[t] = gen[t] /\ written'[t] = written[t] /\ pc[t] # "idle"
      BY <1>1, <1>4, <2>2 DEF Held
    <3>2. gen[t] # gen[s]
      BY <1>0, <2>2, <3>1 DEF BegunInv
    <3>3. StoredBy(gen[t], written[t])
      BY <3>1, KnownParts
    <3>. QED
      BY <3>1, <3>2, <3>3 DEF StoredBy
  <2>. QED
    BY <2>1, <2>2
<1>5. ASSUME NEW t \in Savers, pc'[t] = "drop" PROVE Sound(Dropped(t))'
  <2>1. t # s /\ pc[t] = "drop" /\ Dropping(t) /\ (Dropped(t))' = Dropped(t)
    BY <1>1, <1>2, <1>5 DEF Dropping
  <2>2. PICK g : g = Dropped(t)
    OBVIOUS
  <2>3. Sound(g) /\ (Saving(s) => gen[s] # g) /\ (Dropping(s) => Dropped(s) # g) /\ g \in Generations
    <3>1. g \in Slots /\ g # NoGeneration
      BY <1>0, <2>1, <2>2, SaverFacts, PointerFacts DEF DropInv, Dropped
    <3>. QED
      BY <1>0, <2>1, <2>2, <3>1, KnownParts, Numbers DEF FreshInv, DropInv
  <2>4. \A o \in Objects : <<g, o>> \in blobs => <<g, o>> \in blobs'
    BY <2>3 DEF DeletesOwn, Sound
  <2>5. \A u \in Savers : pc'[u] = "cleanup" => gen'[u] # g \/ (pc[u] = "cleanup" /\ gen'[u] = gen[u])
    BY <1>1, <2>3 DEF SaveStep
  <2>6. Sound(g)'
    BY <2>3, <2>4, <2>5, SoundStays
  <2>. QED
    BY <2>1, <2>2, <2>6 DEF Sound, Complete
<1>6. ASSUME NEW t \in Savers, pc'[t] = "dropping" PROVE StoredBy(Dropped(t), written[t])'
  <2>1. CASE t = s
    BY <1>6, <2>1
  <2>2. CASE t # s
    <3>1. pc[t] = "dropping" /\ Dropping(t) /\ (Dropped(t))' = Dropped(t) /\ written'[t] = written[t]
      BY <1>1, <1>2, <1>6, <2>2 DEF Dropping
    <3>2. Saving(s) => Dropped(t) # gen[s]
      BY <1>0, <3>1 DEF FreshInv
    <3>3. StoredBy(Dropped(t), written[t])
      BY <3>1, KnownParts
    <3>. QED
      BY <3>1, <3>2, <3>3 DEF StoredBy
  <2>. QED
    BY <2>1, <2>2
<1>7. late' = {} /\ old' = {}
  BY DEF KnownInv
<1>. QED
  BY <1>3, <1>4, <1>5, <1>6, <1>7, KnownPartsNext

LEMMA KnownPublish ==
    ASSUME BaseInv, KnownInv, SoundInv(NoGeneration), NEW s \in Savers, Publish(s), pointer = base[s]
    PROVE  KnownInv'
<1>1. /\ SaveStep(s) /\ pc[s] = "publish" /\ pointer' = NewPointer(s)
      /\ IF Dropped(s) = NoGeneration THEN pc'[s] = "idle" ELSE pc'[s] = "drop"
      /\ UNCHANGED <<blobs, late, old>>
  BY PublishEffect
<1>2. \A t \in Savers : t = s \/ (pc'[t] = pc[t] /\ gen'[t] = gen[t] /\ base'[t] = base[t] /\ written'[t] = written[t])
  BY <1>1 DEF SaveStep, OthersSame
<1>3. pointer'.cur = gen[s] /\ pointer'.prev = pointer.cur /\ Dropped(s) = pointer.prev
  BY <1>1 DEF NewPointer, Dropped
<1>4. Dropped(s) # NoGeneration => Dropping(s)' /\ (Dropped(s))' = Dropped(s) /\ pc'[s] = "drop"
  BY <1>1 DEF Dropping, Dropped, SaveStep
<1>5. /\ \A t \in Savers : t # s /\ Held(t) => Held(t)' /\ gen'[t] = gen[t]
      /\ \A t \in Savers : Dropping(t) => Dropping(t)' /\ (Dropped(t))' = Dropped(t)
      /\ ~Held(s)'
  BY <1>1, <1>2 DEF Held, Dropping, Dropped
<1>6. \A b \in blobs : b[1] # NoGeneration
  BY Numbers DEF BaseInv, Typed
<1>7. ASSUME NEW b \in blobs PROVE Owned(b)'
  <2>1. Owned(b)
    BY DEF KnownInv
  <2>2. CASE b[1] = pointer.cur
    BY <1>3, <2>2 DEF Owned
  <2>3. CASE b[1] = pointer.prev
    BY <1>3, <1>4, <1>6, <2>3 DEF Owned
  <2>4. ASSUME NEW t \in Savers, Held(t), gen[t] = b[1] PROVE Owned(b)'
    <3>1. CASE t = s
      BY <1>3, <2>4, <3>1 DEF Owned
    <3>2. CASE t # s
      <4>1. Held(t)' /\ gen'[t] = b[1]
        BY <1>5, <2>4, <3>2
      <4>. QED
        BY <4>1 DEF Owned, Held
    <3>. QED
      BY <3>1, <3>2
  <2>5. ASSUME NEW t \in Savers, Dropping(t), Dropped(t) = b[1] PROVE Owned(b)'
    <3>1. Dropping(t)' /\ (Dropped(t))' = b[1]
      BY <1>5, <2>5
    <3>. QED
      BY <3>1 DEF Owned
  <2>. QED
    BY <2>1, <2>2, <2>3, <2>4, <2>5 DEF Owned, Held
<1>8. \A t \in Savers : Held(t)' => StoredBy(gen[t], written[t])'
  BY <1>1, <1>2, <1>5, KnownParts DEF StoredBy, Held
<1>9. ASSUME NEW g, Sound(g) PROVE Sound(g)'
  BY <1>1, <1>2, <1>9, SoundStays DEF SaveStep
<1>10. ASSUME NEW t \in Savers, pc'[t] = "drop" PROVE Sound(Dropped(t))'
  <2>1. (Dropped(t))' = Dropped(t) /\ Sound(Dropped(t))
    <3>1. CASE t = s
      <4>1. Dropped(s) # NoGeneration /\ pointer.prev \in Slots
        BY <1>1, <1>10, <3>1, PointerFacts DEF BaseInv, Typed
      <4>2. pointer.prev \in Generations /\ Named(pointer.prev) /\ pointer.prev # NoGeneration
        BY <1>3, <4>1, Numbers DEF Named
      <4>. QED
        BY <1>3, <1>4, <3>1, <4>1, <4>2 DEF SoundInv
    <3>2. CASE t # s
      BY <1>2, <1>5, <1>10, <3>2, KnownParts DEF Dropping
    <3>. QED
      BY <3>1, <3>2
  <2>2. PICK g : g = Dropped(t)
    OBVIOUS
  <2>3. Sound(g)'
    BY <1>9, <2>1, <2>2
  <2>. QED
    BY <2>1, <2>2, <2>3 DEF Sound, Complete
<1>11. \A t \in Savers : pc'[t] = "dropping" => StoredBy(Dropped(t), written[t])'
  BY <1>1, <1>2, KnownParts DEF StoredBy, Dropped
<1>. QED
  BY <1>1, <1>7, <1>8, <1>10, <1>11, KnownParts, KnownPartsNext

LEMMA KnownSave == ASSUME BaseInv, KnownInv, NEW s \in Savers, Save(s) PROVE KnownInv'
<1>1. /\ OthersSame(s) /\ pc[s] = "idle" /\ pc'[s] = "write" /\ gen'[s] = used + 1 /\ written'[s] = {}
      /\ UNCHANGED <<blobs, pointer, late, old>>
  BY SaveEffect
<1>2. \A t \in Savers : t = s \/ (pc'[t] = pc[t] /\ gen'[t] = gen[t] /\ base'[t] = base[t] /\ written'[t] = written[t])
  BY <1>1 DEF OthersSame
<1>3. /\ \A t \in Savers : Held(t) => t # s /\ Held(t)' /\ gen'[t] = gen[t]
      /\ \A t \in Savers : Dropping(t) => t # s /\ Dropping(t)' /\ (Dropped(t))' = Dropped(t)
      /\ \A t \in Savers : t # s /\ Held(t)' => Held(t) /\ gen'[t] = gen[t] /\ written'[t] = written[t]
      /\ \A t \in Savers : Dropping(t)' => Dropping(t) /\ pc'[t] = pc[t] /\ written'[t] = written[t]
  BY <1>1, <1>2 DEF Held, Dropping, Dropped
<1>4. ASSUME NEW b \in blobs PROVE b[1] # used + 1
  <2>1. Owned(b)
    BY DEF KnownInv
  <2>2. used \in Nat /\ pointer.cur \in Nat /\ pointer.prev \in Nat /\ pointer.prev <= pointer.cur /\ pointer.cur <= used
    BY SaverFacts DEF BaseInv, BegunInv
  <2>3. ASSUME NEW t \in Savers, pc[t] # "idle" PROVE gen[t] # used + 1 /\ Dropped(t) # used + 1
    BY <2>2, <2>3, SaverFacts DEF Dropped
  <2>. QED
    BY <2>1, <2>2, <2>3 DEF Owned, Dropping
<1>5. ASSUME NEW b \in blobs PROVE Owned(b)'
  <2>1. Owned(b)
    BY DEF KnownInv
  <2>2. CASE b[1] \in {pointer.cur, pointer.prev}
    BY <1>1, <2>2 DEF Owned
  <2>3. ASSUME NEW t \in Savers, Held(t), gen[t] = b[1] PROVE Owned(b)'
    <3>1. Held(t)' /\ gen'[t] = b[1]
      BY <1>3, <2>3
    <3>. QED
      BY <3>1 DEF Owned, Held
  <2>4. ASSUME NEW t \in Savers, Dropping(t), Dropped(t) = b[1] PROVE Owned(b)'
    <3>1. Dropping(t)' /\ (Dropped(t))' = b[1]
      BY <1>3, <2>4
    <3>. QED
      BY <3>1 DEF Owned
  <2>. QED
    BY <2>1, <2>2, <2>3, <2>4 DEF Owned, Held
<1>6. ASSUME NEW t \in Savers, Held(t)' PROVE StoredBy(gen[t], written[t])'
  <2>1. CASE t = s
    BY <1>1, <1>4, <2>1 DEF StoredBy
  <2>2. CASE t # s
    BY <1>1, <1>3, <1>6, <2>2, KnownParts DEF StoredBy
  <2>. QED
    BY <2>1, <2>2
<1>7. ASSUME NEW t \in Savers, pc'[t] = "drop" PROVE Sound(Dropped(t))'
  <2>1. pc[t] = "drop" /\ Dropping(t) /\ (Dropped(t))' = Dropped(t)
    BY <1>3, <1>7 DEF Dropping
  <2>2. Sound(Dropped(t))
    BY <2>1, KnownParts
  <2>3. PICK g : g = Dropped(t)
    OBVIOUS
  <2>4. Sound(g)'
    BY <1>1, <1>2, <2>2, <2>3, SoundStays
  <2>. QED
    BY <2>1, <2>3, <2>4 DEF Sound, Complete
<1>8. ASSUME NEW t \in Savers, pc'[t] = "dropping" PROVE StoredBy(Dropped(t), written[t])'
  BY <1>1, <1>3, <1>8, KnownParts DEF StoredBy, Dropping
<1>9. late' = {} /\ old' = {}
  BY <1>1 DEF KnownInv
<1>. QED
  BY <1>1, <1>5, <1>6, <1>7, <1>8, <1>9, KnownPartsNext

LEMMA KnownSaver ==
    ASSUME BaseInv, KnownInv, SoundInv(NoGeneration), faults' = 0, NEW s \in Savers,
           \/ Put(s) \/ PutError(s) \/ Publish(s) \/ PublishError(s)
           \/ CleanUp(s) \/ DropBegin(s) \/ Drop(s) \/ Crash(s)
    PROVE  KnownInv'
<1>1. ~Fault
  BY FaultEffect
<1>2. Held(s) => StoredBy(gen[s], written[s])
  BY KnownParts
<1>3. \A b \in blobs : b = <<b[1], b[2]>> /\ b[1] \in Generations /\ b[2] \in Objects
  BY DEF BaseInv, Typed
<1>4. CASE Put(s)
  <2>1. PICK o \in Objects : blobs' = blobs \cup {<<gen[s], o>>} /\ written'[s] = written[s] \cup {o}
    BY <1>4, PutEffect
  <2>2. /\ SaveStep(s) /\ pc[s] = "write" /\ pc'[s] \in {"write", "publish"} /\ gen'[s] = gen[s]
        /\ UNCHANGED <<pointer, late, old>>
    BY <1>4, PutEffect DEF SaveStep
  <2>3. DeletesOwn(s)
    BY <2>1 DEF DeletesOwn
  <2>4. Saving(s) /\ Held(s) /\ Held(s)' /\ ~Dropping(s) /\ ~Dropping(s)'
    BY <2>2 DEF Saving, Held, Dropping
  <2>5. StoredBy(gen[s], written[s])'
    BY <1>2, <2>1, <2>2, <2>4 DEF StoredBy
  <2>6. \A b \in blobs' : b \in blobs \/ b[1] = gen[s]
    BY <2>1
  <2>. QED
    BY <2>2, <2>3, <2>4, <2>5, <2>6, KnownStep
<1>5. CASE Publish(s) /\ pointer = base[s]
  BY <1>5, KnownPublish
<1>6. CASE Publish(s) /\ pointer # base[s]
  <2>1. /\ SaveStep(s) /\ pc[s] = "publish" /\ pc'[s] = "cleanup" /\ written'[s] = written[s] /\ gen'[s] = gen[s]
        /\ UNCHANGED <<pointer, late, old, blobs>>
    BY <1>6, ConflictEffect DEF SaveStep
  <2>2. DeletesOwn(s)
    BY <2>1 DEF DeletesOwn
  <2>3. Saving(s) /\ Held(s) /\ Held(s)' /\ ~Dropping(s) /\ ~Dropping(s)'
    BY <2>1 DEF Saving, Held, Dropping
  <2>4. StoredBy(gen[s], written[s])'
    BY <1>2, <2>1, <2>3 DEF StoredBy
  <2>. QED
    BY <2>1, <2>2, <2>3, <2>4, KnownStep
<1>7. CASE CleanUp(s)
  <2>1. SaveStep(s) /\ pc[s] = "cleanup" /\ UNCHANGED <<pointer, late, old>>
    BY <1>7, CleanUpEffect
  <2>2. Held(s) /\ ~Dropping(s)
    BY <2>1 DEF Held, Dropping
  <2>3. CASE pc'[s] = "idle" /\ written[s] = {} /\ blobs' = blobs
    <3>1. DeletesOwn(s) /\ ~Held(s)' /\ ~Dropping(s)'
      BY <2>3 DEF DeletesOwn, Held, Dropping
    <3>2. \A b \in blobs' : b[1] # gen[s]
      BY <1>2, <1>3, <2>2, <2>3 DEF StoredBy
    <3>. QED
      BY <2>1, <2>2, <2>3, <3>1, <3>2, KnownStep
  <2>4. ASSUME NEW o \in Objects, Delete(gen[s], o), written'[s] = written[s] \ {o},
               pc'[s] = "cleanup", gen'[s] = gen[s]
        PROVE  KnownInv'
    <3>1. blobs' = blobs \ {<<gen[s], o>>}
      BY <1>1, <2>4 DEF Delete
    <3>2. DeletesOwn(s) /\ Held(s)' /\ ~Dropping(s)'
      BY <2>1, <2>4, <3>1 DEF DeletesOwn, Held, Dropping
    <3>3. StoredBy(gen[s], written[s])'
      BY <1>2, <2>2, <2>4, <3>1 DEF StoredBy
    <3>. QED
      BY <2>1, <2>2, <2>4, <3>1, <3>2, <3>3, KnownStep
  <2>. QED
    BY <1>7, <2>3, <2>4, CleanUpEffect
<1>8. CASE DropBegin(s)
  <2>1. SaveStep(s) /\ pc[s] = "drop" /\ UNCHANGED <<blobs, pointer, late, old>>
    BY <1>8, DropBeginEffect
  <2>2. Sound(Dropped(s)) /\ written[s] = Objects
    BY <2>1, KnownParts DEF BaseInv, WrittenInv
  <2>3. <<Dropped(s), Manifest>> \in blobs
    BY <2>2 DEF Sound, Complete, Objects
  <2>4. pc'[s] = "dropping" /\ written'[s] = Objects
    BY <1>1, <1>8, <2>2, <2>3, DropBeginEffect
  <2>5. DeletesOwn(s) /\ ~Held(s) /\ ~Held(s)' /\ Dropping(s) /\ Dropping(s)'
    BY <2>1, <2>4 DEF DeletesOwn, Held, Dropping
  <2>6. StoredBy(Dropped(s), written[s])'
    BY <2>4 DEF StoredBy
  <2>. QED
    BY <2>1, <2>4, <2>5, <2>6, KnownStep
<1>9. CASE Drop(s)
  <2>1. SaveStep(s) /\ pc[s] = "dropping" /\ UNCHANGED <<pointer, late, old>>
    BY <1>9, DropEffect
  <2>2. Dropping(s) /\ ~Held(s) /\ StoredBy(Dropped(s), written[s])
    BY <2>1, KnownParts DEF Held, Dropping
  <2>3. PICK o \in Objects :
          /\ Delete(Dropped(s), o)
          /\ \/ pc'[s] = "idle" /\ written[s] \subseteq {o}
             \/ pc'[s] = "dropping" /\ base'[s] = base[s] /\ written'[s] = written[s] \ {o}
    BY <1>9, DropEffect
  <2>4. blobs' = blobs \ {<<Dropped(s), o>>}
    BY <1>1, <2>3 DEF Delete
  <2>5. DeletesOwn(s) /\ ~Held(s)'
    BY <2>1, <2>3, <2>4 DEF DeletesOwn, Held, Dropping
  <2>6. CASE pc'[s] = "idle" /\ written[s] \subseteq {o}
    <3>1. ~Dropping(s)'
      BY <2>6 DEF Dropping
    <3>2. \A b \in blobs' : b[1] # Dropped(s)
      BY <1>3, <2>2, <2>4, <2>6 DEF StoredBy
    <3>. QED
      BY <2>1, <2>2, <2>4, <2>5, <2>6, <3>1, <3>2, KnownStep
  <2>7. CASE pc'[s] = "dropping" /\ base'[s] = base[s] /\ written'[s] = written[s] \ {o}
    <3>1. Dropping(s)' /\ (Dropped(s))' = Dropped(s)
      BY <2>7 DEF Dropping, Dropped
    <3>2. StoredBy(Dropped(s), written[s])'
      BY <2>2, <2>4, <2>7, <3>1 DEF StoredBy
    <3>. QED
      BY <2>1, <2>2, <2>4, <2>5, <2>7, <3>1, <3>2, KnownStep
  <2>. QED
    BY <2>3, <2>6, <2>7
<1>. QED
  BY <1>1, <1>4, <1>5, <1>6, <1>7, <1>8, <1>9, PutErrorEffect, PublishErrorEffect, CrashEffect

LEMMA KnownOther ==
    ASSUME BaseInv, KnownInv, faults' = 0,
           \/ \E w \in late : PublishLate(w)
           \/ \E l \in Loaders : Load(l) \/ ReadManifest(l) \/ ReadPart(l) \/ ReadError(l) \/ LoadDone(l)
           \/ \E g \in Generations : GrowOld(g)
           \/ \E b \in blobs : Expire(b)
           \/ UNCHANGED vars
    PROVE  KnownInv'
<1>1. ~Fault
  BY FaultEffect
<1>2. UNCHANGED <<blobs, pointer, late, old, pc, gen, base, written>>
  BY <1>1 DEF KnownInv, Load, ReadManifest, ReadPart, ReadError, LoadDone, GrowOld, Expire, saver, vars
<1>3. \A b \in blobs : Owned(b)' = Owned(b)
  BY <1>2 DEF Owned, Dropping, Dropped
<1>4. \A s \in Savers : Sound(Dropped(s))' = Sound(Dropped(s))
  BY <1>2 DEF Sound, Complete, Dropped
<1>. QED
  BY <1>2, <1>3, <1>4 DEF KnownInv, Dropped

(* Each load by itself.                                                     *)
LoadFine(l) ==
    /\ load[l].at \in {"manifest", "parts"} =>
         /\ load[l].publications = 0 => load[l].base = pointer
         /\ load[l].publications = 1 => load[l].base.cur = pointer.prev
         /\ Outlived(l) \/ load[l].gen = load[l].base.cur
    /\ load[l].at = "failed" => Outlived(l)

LEMMA LoadParts == (LoadInv <=> \A l \in Loaders : LoadFine(l)) /\ (LoadInv' <=> \A l \in Loaders : LoadFine(l)')
BY DEF LoadInv, LoadFine

LEMMA LoaderFacts ==
    ASSUME BaseInv, NEW l \in Loaders
    PROVE  /\ load[l] \in LoadStates /\ load[l].base \in Pointers /\ load[l].publications \in Nat
           /\ load[l].base.cur \in Slots /\ load[l].base.cur <= used
<1>1. load[l] \in LoadStates /\ load[l].base.cur <= used
  BY DEF BaseInv, Typed, BegunInv
<1>. QED
  BY <1>1, PointerFacts DEF LoadStates

LEMMA OutlivedStays ==
    ASSUME BaseInv, [Next]_vars, NEW l \in Loaders, Outlived(l),
           load'[l].base = load[l].base, load'[l].range = load[l].range,
           load'[l].publications \in Nat, load'[l].publications >= load[l].publications
    PROVE  Outlived(l)'
<1>1. load[l].base.cur \in Slots /\ load[l].base.cur <= used /\ load[l].publications \in Nat
  BY LoaderFacts
<1>2. CASE load[l].publications >= 2
  <2>1. load'[l].publications >= 2
    BY <1>1, <1>2
  <2>. QED
    BY <2>1 DEF Outlived
<1>3. CASE load[l].base.cur = NoGeneration
  BY <1>3 DEF Outlived, NoGeneration
<1>4. CASE load[l].base.cur # NoGeneration /\ ~Compatible(l, load[l].base.cur)
  <2>1. info'[load[l].base.cur] = info[load[l].base.cur]
    BY <1>1, <1>4, InfoStays, Numbers
  <2>. QED
    BY <1>4, <2>1 DEF Outlived, Compatible
<1>. QED
  BY <1>2, <1>3, <1>4 DEF Outlived

LEMMA FineSame ==
    ASSUME BaseInv, [Next]_vars, NEW l \in Loaders, LoadFine(l), load'[l] = load[l], pointer' = pointer
    PROVE  LoadFine(l)'
<1>1. load[l].publications \in Nat
  BY LoaderFacts
<1>2. Outlived(l) => Outlived(l)'
  BY <1>1, OutlivedStays
<1>. QED
  BY <1>2 DEF LoadFine

LEMMA FinePublished ==
    ASSUME BaseInv, [Next]_vars, NEW l \in Loaders, LoadFine(l), Published, pointer'.prev = pointer.cur
    PROVE  LoadFine(l)'
<1>1. /\ load'[l].at = load[l].at /\ load'[l].range = load[l].range /\ load'[l].base = load[l].base
      /\ load'[l].gen = load[l].gen
      /\ load'[l].publications = load[l].publications + (IF load[l].at \in {"manifest", "parts"} THEN 1 ELSE 0)
      /\ load[l].publications \in Nat
  BY PublishedEffect DEF BaseInv
<1>2. /\ load'[l].publications \in Nat /\ load'[l].publications >= load[l].publications
      /\ load[l].at \in {"manifest", "parts"} => load'[l].publications = load[l].publications + 1
  BY <1>1
<1>3. Outlived(l) => Outlived(l)'
  BY <1>1, <1>2, OutlivedStays
<1>4. CASE load[l].at \in {"manifest", "parts"}
  <2>1. load'[l].publications # 0 /\ (load'[l].publications = 1 => load[l].publications = 0)
    BY <1>1, <1>2, <1>4
  <2>2. load'[l].publications = 1 => load'[l].base.cur = pointer'.prev
    BY <1>1, <1>4, <2>1 DEF LoadFine
  <2>. QED
    BY <1>1, <1>3, <1>4, <2>1, <2>2 DEF LoadFine
<1>5. CASE load[l].at \notin {"manifest", "parts"}
  BY <1>1, <1>3, <1>5 DEF LoadFine
<1>. QED
  BY <1>4, <1>5

(* A load stays with the generation it began with while that is named.      *)
LEMMA FineRead ==
    ASSUME BaseInv, [Next]_vars, SoundInv(NoGeneration), faults' = faults, NEW l \in Loaders, LoadFine(l),
           ReadManifest(l) \/ ReadPart(l) \/ ReadError(l)
    PROVE  LoadFine(l)'
<1>1. /\ pointer' = pointer /\ load[l].at \in {"manifest", "parts"}
      /\ load'[l].base = load[l].base /\ load'[l].range = load[l].range
      /\ load'[l].publications = load[l].publications
  BY ReadEffect DEF LoadStep
<1>2. load[l].publications \in Nat /\ load[l].base \in Pointers /\ load[l].base.cur \in Slots
  BY LoaderFacts
<1>3. CASE Outlived(l)
  <2>1. Outlived(l)'
    BY <1>1, <1>2, <1>3, OutlivedStays
  <2>. QED
    BY <1>1, <2>1 DEF LoadFine
<1>4. CASE ~Outlived(l)
  <2>1. /\ load[l].gen = load[l].base.cur /\ load[l].gen # NoGeneration
        /\ Compatible(l, load[l].gen) /\ ~(load[l].publications >= 2)
    BY <1>1, <1>4 DEF LoadFine, Outlived
  <2>2. load[l].publications = 0 \/ load[l].publications = 1
    BY <1>2, <2>1
  <2>3. load[l].gen \in Generations /\ Named(load[l].gen)
    BY <1>1, <1>2, <2>1, <2>2, Numbers DEF LoadFine, Named
  <2>4. Complete(load[l].gen)
    BY <2>1, <2>3 DEF SoundInv, Sound
  <2>5. load'[l].gen = load[l].gen /\ load'[l].at \in {"parts", "loaded"}
    BY <2>1, <2>4, ReadEffect
  <2>. QED
    BY <1>1, <2>1, <2>5 DEF LoadFine
<1>. QED
  BY <1>3, <1>4

LEMMA LoadNext ==
    ASSUME BaseInv, [Next]_vars, SoundInv(NoGeneration), faults' = 0, faults = 0, late = {}, LoadInv
    PROVE  LoadInv'
<1>0. ~Fault
  BY FaultEffect
<1>. SUFFICES ASSUME NEW k \in Loaders PROVE LoadFine(k)'
  BY LoadParts
<1>1. LoadFine(k)
  BY LoadParts
<1>2. CASE pointer' = pointer /\ load' = load
  BY <1>1, <1>2, FineSame
<1>3. ASSUME NEW s \in Savers, Publish(s), pointer = base[s] PROVE LoadFine(k)'
  <2>1. Published /\ pointer' = NewPointer(s)
    BY <1>3, PublishEffect
  <2>2. pointer'.prev = pointer.cur
    BY <1>3, <2>1 DEF NewPointer
  <2>. QED
    BY <1>1, <2>1, <2>2, FinePublished
<1>4. ASSUME NEW l \in Loaders, Load(l) PROVE LoadFine(k)'
  <2>1. CASE k = l
    <3>1. /\ load'[k].at = (IF pointer.cur = NoGeneration THEN "failed" ELSE "manifest")
          /\ load'[k].base = pointer /\ load'[k].gen = pointer.cur /\ load'[k].publications = 0 /\ pointer' = pointer
      BY <1>4, <2>1, LoadEffect DEF LoadStep
    <3>2. pointer.cur = NoGeneration => Outlived(k)'
      BY <3>1 DEF Outlived, NoGeneration
    <3>. QED
      BY <3>1, <3>2 DEF LoadFine
  <2>2. CASE k # l
    BY <1>1, <1>4, <2>2, LoadEffect, FineSame DEF LoadStep
  <2>. QED
    BY <2>1, <2>2
<1>5. ASSUME NEW l \in Loaders, ReadManifest(l) \/ ReadPart(l) \/ ReadError(l) PROVE LoadFine(k)'
  <2>1. CASE k = l
    BY <1>1, <1>5, <2>1, FineRead
  <2>2. CASE k # l
    BY <1>1, <1>5, <2>2, ReadEffect, FineSame DEF LoadStep
  <2>. QED
    BY <2>1, <2>2
<1>6. ASSUME NEW l \in Loaders, LoadDone(l) PROVE LoadFine(k)'
  <2>1. CASE k = l
    BY <1>6, <2>1, LoadDoneEffect, NotLoadingFacts DEF LoadFine
  <2>2. CASE k # l
    BY <1>1, <1>6, <2>2, LoadDoneEffect, FineSame DEF LoadStep
  <2>. QED
    BY <2>1, <2>2
<1>7. ASSUME NEW s \in Savers,
             \/ Save(s) \/ Put(s) \/ PutError(s) \/ (Publish(s) /\ pointer # base[s]) \/ PublishError(s)
             \/ CleanUp(s) \/ DropBegin(s) \/ Drop(s) \/ Crash(s)
      PROVE  pointer' = pointer /\ load' = load
  BY <1>0, <1>7, SaveEffect, PutEffect, PutErrorEffect, ConflictEffect, PublishErrorEffect,
     CleanUpEffect, DropBeginEffect, DropEffect, CrashEffect
<1>8. ASSUME (\E g \in Generations : GrowOld(g)) \/ (\E b \in blobs : Expire(b)) \/ UNCHANGED vars
      PROVE  pointer' = pointer /\ load' = load
  BY <1>8 DEF GrowOld, Expire, vars
<1>. QED
  BY <1>2, <1>3, <1>4, <1>5, <1>6, <1>7, <1>8 DEF Next

LEMMA QuietNext ==
    ASSUME BaseInv, KeptInv, faults = 0 => Quiet, [Next]_vars, faults' = 0
    PROVE  Quiet'
<1>1. faults = 0
  BY FaultsGrow
<1>2. KnownInv /\ LoadInv /\ late = {} /\ old = {}
  BY <1>1 DEF Quiet, KnownInv
<1>3. SoundInv(NoGeneration)
  <2>1. PICK x \in Slots : (faults = 0 => x = NoGeneration) /\ SoundInv(x)
    BY <1>1, <1>2 DEF KeptInv
  <2>. QED
    BY <1>1, <2>1
<1>4. KnownInv'
  BY <1>2, <1>3, KnownSave, KnownSaver, KnownOther DEF Next
<1>5. LoadInv'
  BY <1>1, <1>2, <1>3, LoadNext
<1>. QED
  BY <1>4, <1>5 DEF Quiet

----------------------------------------------------------------------------
(* The theorems.                                                            *)

LEMMA Invariance == Spec => []Inv
<1>1. Init => Inv
  BY BaseInit, CutoffInit, KeptInit, QuietInit DEF Inv
<1>2. Inv /\ [Next]_vars => Inv'
  <2>. SUFFICES ASSUME Inv, [Next]_vars PROVE Inv'
    OBVIOUS
  <2>1. BaseInv /\ CutoffInv /\ KeptInv /\ (faults = 0 => Quiet)
    BY DEF Inv
  <2>2. BaseInv' /\ CutoffInv' /\ KeptInv'
    BY <2>1, BaseNext, CutoffNext, KeptNext
  <2>3. faults' = 0 => Quiet'
    BY <2>1, QuietNext
  <2>. QED
    BY <2>2, <2>3 DEF Inv
<1>. QED
  BY <1>1, <1>2, PTL DEF Spec

(* Every variable keeps its type, whichever saves fail or crash: among      *)
(* others the previous generation of a pointer was begun before the current *)
(* one (SaveCohort, LoadCohort).                                            *)
THEOREM TypeCorrect == Spec => []TypeOK
<1>1. Inv => TypeOK
  <2>. SUFFICES ASSUME Inv PROVE TypeOK
    OBVIOUS
  <2>1. Typed /\ \A g \in 1 .. used : info[g] \in Ranges
    BY DEF Inv, BaseInv, BegunInv
  <2>2. \A l \in Loaders : load[l].at \in LoadPlaces
    BY <2>1 DEF Typed, LoadStates
  <2>. QED
    BY <2>1, <2>2 DEF TypeOK, Typed, SaverTyped, Places, LoadPlaces, Writes
<1>. QED
  BY <1>1, Invariance, PTL

(* Whichever saves race, fail or reach the pointer record late, none        *)
(* replaces the current generation by an older one of the same stream: the  *)
(* comparison with the pointer read still holds where the write succeeds,   *)
(* at that pointer's revision (SaveCohort, savePointer).                    *)
THEOREM PointerNeverRegresses == Spec => NeverRegresses
<1>1. Inv /\ [Next]_vars
      => [pointer'.cur # pointer.cur /\ pointer.cur # NoGeneration
            /\ info[pointer.cur].identity = info[pointer'.cur].identity
          => info[pointer.cur].cutoff <= info[pointer'.cur].cutoff]_vars
  BY NoRegress DEF Inv, NotOlder
<1>. QED
  BY <1>1, Invariance, PTL DEF Spec, NeverRegresses

(* A save that succeeded leaves a complete generation in the pointer, and   *)
(* one failed request or crash afterwards cannot take it away: the clean-up *)
(* after a failed publication deletes at most the blobs of that save        *)
(* (SaveCohort, cleanupWritten, deleteCohortGeneration).                    *)
THEOREM SnapshotSurvivesOneFault == Spec => []OneFaultLeavesASnapshot
<1>1. Inv => OneFaultLeavesASnapshot
  <2>. SUFFICES ASSUME Inv, saved, faults <= 1, old = {}
                PROVE  \E g \in {pointer.cur, pointer.prev} : g # NoGeneration /\ Complete(g)
    BY DEF OneFaultLeavesASnapshot
  <2>1. PICK x \in Slots : SoundInv(x)
    BY DEF Inv, KeptInv
  <2>2. PICK g \in {pointer.cur, pointer.prev} : g # NoGeneration /\ g # x
    BY <2>1 DEF SoundInv
  <2>3. pointer.cur \in Slots /\ pointer.prev \in Slots
    BY PointerFacts DEF Inv, BaseInv, Typed
  <2>4. g \in Generations /\ Named(g)
    BY <2>2, <2>3, Numbers DEF Named
  <2>. QED
    BY <2>1, <2>2, <2>4 DEF SoundInv, Sound
<1>. QED
  BY <1>1, Invariance, PTL

(* Without faults a load of a generation that suits it fails only after two *)
(* publications: a publication deletes the generation that falls out of the *)
(* pointer and no other (LoadCohort, deleteCohortGeneration).               *)
THEOREM LoadsOutliveAPublication == Spec => []LoadOutlivesOnePublication
<1>1. Inv => LoadOutlivesOnePublication
  BY DEF Inv, Quiet, LoadInv, Outlived, LoadOutlivesOnePublication
<1>. QED
  BY <1>1, Invariance, PTL

(* Without faults every stored object has a pointer that names it or a save *)
(* that answers for it: what falls out of the pointer, and what a refused   *)
(* save has written, is deleted to the last object (SaveCohort,             *)
(* cleanupWritten, deleteCohortGeneration).                                 *)
THEOREM NoGarbage == Spec => []NothingLeftBehind
<1>1. Inv => NothingLeftBehind
  <2>. SUFFICES ASSUME Inv, faults = 0, NEW b \in blobs
                PROVE  \/ b[1] \in {pointer.cur, pointer.prev}
                       \/ \E s \in Savers :
                            b[1] \in {gen[s]} \cup IF pc[s] \in {"drop", "dropping"} THEN {Dropped(s)} ELSE {}
    BY DEF NothingLeftBehind
  <2>1. Owned(b)
    BY DEF Inv, Quiet, KnownInv
  <2>. QED
    BY <2>1 DEF Owned, Dropping
<1>. QED
  BY <1>1, Invariance, PTL
=============================================================================
