--------------------------- MODULE RefCountProofs ---------------------------
(***************************************************************************)
(* Counts without atomic operations, for any number of values, cells and   *)
(* workers, and values shared between the workers in any way: the count of *)
(* a cell is exact, and the cell freed in time, unless two workers changed *)
(* its count at the same time.                                             *)
(***************************************************************************)
EXTENDS RefCount, FiniteSetTheorems, TLAPS

(* The places are finitely many, so what refers to a cell can be counted, and *)
(* the counts are wide enough for it.                                         *)
LEMMA PlacesFinite == IsFiniteSet(Places) /\ Cardinality(Places) \in Nat
<1>1. IsFiniteSet(Places)
  BY SlotsAssumption, FS_Union DEF Places
<1> QED
  BY <1>1, FS_CardinalityType

LEMMA PartOfPlaces ==
    ASSUME NEW S \in SUBSET Places
    PROVE  /\ IsFiniteSet(S) /\ Cardinality(S) \in Nat /\ Cardinality(S) < Modulus
           /\ Cardinality(S) = 0 <=> S = {}
<1>1. IsFiniteSet(S) /\ Cardinality(S) <= Cardinality(Places)
  BY PlacesFinite, FS_Subset
<1>2. Cardinality(S) \in Nat /\ (Cardinality(S) = 0 <=> S = {})
  BY <1>1, FS_CardinalityType, FS_EmptySet
<1> QED
  BY <1>1, <1>2, PlacesFinite, CountsAreWide

LEMMA CountedFinite ==
    ASSUME NEW c
    PROVE  /\ IsFiniteSet(Counted(c)) /\ Cardinality(Counted(c)) \in Nat
           /\ Cardinality(Counted(c)) < Modulus
           /\ Cardinality(Counted(c)) = 0 <=> Counted(c) = {}
<1>1. Counted(c) \in SUBSET Places
  BY DEF Counted, Holders
<1> QED
  BY <1>1, PartOfPlaces

LEMMA CountedFiniteNext ==
    ASSUME NEW c
    PROVE  /\ Cardinality(Counted(c)') \in Nat /\ Cardinality(Counted(c)') < Modulus
           /\ Cardinality(Counted(c)') = 0 <=> Counted(c)' = {}
<1>1. Counted(c)' \in SUBSET Places
  BY DEF Counted, Holders
<1> QED
  BY <1>1, PartOfPlaces

LEMMA Joins ==
    ASSUME NEW c, NEW x, x \notin Counted(c), Counted(c)' = Counted(c) \cup {x}
    PROVE  Cardinality(Counted(c)') = Cardinality(Counted(c)) + 1
BY CountedFinite, FS_AddElement

LEMMA Leaves ==
    ASSUME NEW c, NEW x, x \in Counted(c), Counted(c)' = Counted(c) \ {x}
    PROVE  Cardinality(Counted(c)') = Cardinality(Counted(c)) - 1
BY CountedFinite, FS_RemoveElement

LEMMA Moves ==
    ASSUME NEW c, NEW x, NEW y, x \in Counted(c), y \notin Counted(c),
           Counted(c)' = (Counted(c) \ {x}) \cup {y}
    PROVE  Cardinality(Counted(c)') = Cardinality(Counted(c))
<1>1. /\ IsFiniteSet(Counted(c) \ {x})
      /\ Cardinality(Counted(c) \ {x}) = Cardinality(Counted(c)) - 1
  BY CountedFinite, FS_RemoveElement
<1>2. Cardinality((Counted(c) \ {x}) \cup {y}) = Cardinality(Counted(c) \ {x}) + 1
  BY <1>1, FS_AddElement
<1> QED
  BY <1>1, <1>2, CountedFinite

(* A worker's own place and its slots are places of that worker.              *)
LEMMA OwnPlaces ==
    ASSUME NEW t \in Threads
    PROVE  /\ t \in Places /\ t \notin Slots /\ Owner(t) = t
           /\ \A s \in Slots : s \in Places /\ s # t /\ Owner(s) = WorkerOf[s] /\ Owner(s) \in Threads
BY SlotsAssumption DEF Places, Owner

(* What a place counts for, now and after a step.                             *)
LEMMA Counts ==
    ASSUME NEW c, NEW x \in Places
    PROVE  /\ x \in Counted(c) <=> ref[x] = c /\ x \notin Uncounted
           /\ x \in Counted(c)' <=> ref'[x] = c /\ x \notin Uncounted'
BY DEF Counted, Holders

LEMMA SlotCounts ==
    ASSUME NEW t \in Threads, NEW s \in Slots, WorkerOf[s] = t
    PROVE  /\ s \in Uncounted <=> slot[t] = s /\ pc[t] \in Owing
           /\ s \in Uncounted' <=> slot'[t] = s /\ pc'[t] \in Owing
BY DEF Uncounted

LEMMA OwnPlaceCounts ==
    ASSUME NEW t \in Threads
    PROVE  t \notin Uncounted /\ t \notin Uncounted'
BY OwnPlaces DEF Uncounted

(* What the invariant says of a busy worker.                                  *)
LEMMA WhenBusy ==
    ASSUME IndInv, NEW t \in Threads, pc[t] # "idle", NEW c, cell[t] = c
    PROVE  /\ c \in Cells /\ c # Null /\ slot[t] \in Slots /\ slot[t] \in Places
           /\ WorkerOf[slot[t]] = t /\ Owner(slot[t]) = t /\ slot[t] # t
           /\ ref[slot[t]] = c /\ ref[t] # c
<1>1. c \in Cells /\ ref[slot[t]] = c /\ WorkerOf[slot[t]] = t /\ ref[t] # c
  BY DEF IndInv, WorkOf
<1>2. slot[t] \in Slots
  BY DEF IndInv, TypeOK
<1> QED
  BY <1>1, <1>2, OwnPlaces, SlotsAssumption

(* A value of an idle worker refers to a cell that is in use.                 *)
LEMMA WhenIdle ==
    ASSUME IndInv, NEW t \in Threads, pc[t] = "idle",
           NEW s \in Slots, WorkerOf[s] = t, NEW c, ref[s] = c, c # Null
    PROVE  /\ c \in Cells /\ state[c] # "unused" /\ s \in Counted(c)
           /\ s \in Places /\ Owner(s) = t /\ s # t
<1>1. s \in Places /\ Owner(s) = t /\ s # t
  BY OwnPlaces
<1>2. c \in Cells
  BY <1>1 DEF IndInv, TypeOK
<1>3. s \in Holders(c)
  BY <1>1 DEF Holders
<1>4. s \in Counted(c)
  BY <1>1, Counts, SlotCounts DEF Owing
<1> QED
  BY <1>1, <1>2, <1>3, <1>4 DEF IndInv

-----------------------------------------------------------------------------
(***************************************************************************)
(* What a step of worker t leaves alone: the other workers and their       *)
(* places, and every cell but those of D.                                  *)
(***************************************************************************)
Others(t) ==
    /\ \A u \in Threads \ {t} :
          pc'[u] = pc[u] /\ slot'[u] = slot[u] /\ cell'[u] = cell[u] /\ tmp'[u] = tmp[u]
    /\ \A x \in Places : Owner(x) # t => ref'[x] = ref[x]

Untouched(t, c) ==
    /\ count'[c] = count[c] /\ state'[c] = state[c]
    /\ \A x \in Places : ref'[x] = c <=> ref[x] = c
    /\ pc[t] # "idle" => cell[t] # c
    /\ pc'[t] # "idle" => cell'[t] # c

LEMMA OthersWork ==
    ASSUME IndInv, NEW t \in Threads, Others(t), NEW u \in Threads \ {t}
    PROVE  WorkOf(u)'
<1>1. WorkOf(u) /\ u \in Threads /\ slot[u] \in Slots
  BY DEF IndInv, TypeOK
<1>2. \A s \in Slots : WorkerOf[s] = u => ref'[s] = ref[s]
  BY OwnPlaces DEF Others
<1>3. ref'[u] = ref[u]
  BY OwnPlaces DEF Others
<1>4. pc'[u] = pc[u] /\ slot'[u] = slot[u] /\ cell'[u] = cell[u]
  BY DEF Others
<1>5. pc[u] # "idle" => ref'[slot[u]] = ref[slot[u]]
  BY <1>1, <1>2 DEF WorkOf
<1>6. ASSUME pc[u] \in {"retain load", "retain store"}
      PROVE  \E s \in Slots \ {slot'[u]} : WorkerOf[s] = u /\ ref'[s] = cell'[u]
  BY <1>1, <1>2, <1>4, <1>6 DEF WorkOf
<1> QED
  BY <1>1, <1>3, <1>4, <1>5, <1>6 DEF WorkOf

(* A place of another worker counts as before.                                *)
LEMMA ForeignCounts ==
    ASSUME NEW t \in Threads, Others(t), NEW x \in Places, Owner(x) # t
    PROVE  /\ ref'[x] = ref[x]
           /\ x \in Uncounted' <=> x \in Uncounted
           /\ \A c : x \in Counted(c)' <=> x \in Counted(c)
<1>1. ref'[x] = ref[x]
  BY DEF Others
<1>2. x \in Uncounted' <=> x \in Uncounted
  <2>1. CASE x \in Slots
    <3>1. WorkerOf[x] \in Threads \ {t}
      BY <2>1, OwnPlaces
    <3> QED
      BY <2>1, <3>1, SlotCounts DEF Others
  <2>2. CASE x \notin Slots
    BY <2>2 DEF Uncounted
  <2> QED
    BY <2>1, <2>2
<1> QED
  BY <1>1, <1>2, Counts

LEMMA UntouchedCounts ==
    ASSUME IndInv, NEW t \in Threads, Others(t), WorkOf(t)', NEW c, Untouched(t, c)
    PROVE  Counted(c)' = Counted(c)
<1>1. ASSUME NEW x \in Places
      PROVE  x \in Counted(c)' <=> x \in Counted(c)
  <2>1. CASE ref[x] # c
    BY <2>1, Counts DEF Untouched
  <2>2. CASE Owner(x) # t
    BY <2>2, ForeignCounts
  <2>3. CASE x \notin Slots
    <3>1. x \notin Uncounted /\ x \notin Uncounted'
      BY <2>3 DEF Uncounted
    <3> QED
      BY <3>1, Counts DEF Untouched
  <2>4. CASE ref[x] = c /\ Owner(x) = t /\ x \in Slots
    <3>1. WorkerOf[x] = t /\ ref'[x] = c
      BY <2>4 DEF Untouched, Owner
    <3>2. x \notin Uncounted
      <4>1. pc[t] # "idle" => ref[slot[t]] = cell[t] /\ cell[t] # c
        BY DEF IndInv, WorkOf, Untouched
      <4> QED
        BY <2>4, <3>1, <4>1, SlotCounts DEF Owing
    <3>3. x \notin Uncounted'
      <4>1. pc'[t] # "idle" => ref'[slot'[t]] = cell'[t] /\ cell'[t] # c
        BY DEF WorkOf, Untouched
      <4> QED
        BY <2>4, <3>1, <4>1, SlotCounts DEF Owing
    <3> QED
      BY <2>4, <3>1, <3>2, <3>3, Counts
  <2> QED
    BY <2>1, <2>2, <2>3, <2>4
<1>2. Counted(c) \subseteq Places /\ Counted(c)' \subseteq Places
  BY DEF Counted, Holders
<1> QED
  BY <1>1, <1>2

LEMMA OthersCount ==
    ASSUME IndInv, NEW t \in Threads, Others(t), WorkOf(t)',
           NEW c \in Cells \ raced, Untouched(t, c)
    PROVE  OneCounts(c)' /\ CountOf(c)'
<1>1. OneCounts(c) /\ CountOf(c)
  BY DEF IndInv
<1>2. \A u \in Threads : cell'[u] = c /\ pc'[u] # "idle" =>
         u # t /\ cell[u] = c /\ pc'[u] = pc[u] /\ tmp'[u] = tmp[u]
  BY DEF Others, Untouched
<1>3. \A u \in Threads : cell[u] = c /\ pc[u] # "idle" => cell'[u] = c /\ pc'[u] = pc[u]
  BY DEF Others, Untouched
<1>4. count'[c] = count[c] /\ state'[c] = state[c]
  BY DEF Untouched
<1>5. OneCounts(c)'
  BY <1>1, <1>2, <1>4 DEF OneCounts, Counting
<1>6. Tested(c)' <=> Tested(c)
  BY <1>2, <1>3 DEF Tested
<1>7. Counted(c)' = Counted(c)
  BY UntouchedCounts
<1> QED
  BY <1>1, <1>4, <1>5, <1>6, <1>7 DEF CountOf

LEMMA Frame ==
    ASSUME IndInv, NEW t \in Threads, NEW D, Others(t), raced \subseteq raced',
           \A c \in Cells \ D : Untouched(t, c), \A c \in D : state'[c] # "unused",
           TypeOK', WorkOf(t)', \A c \in D \ raced' : OneCounts(c)' /\ CountOf(c)'
    PROVE  IndInv'
<1>1. \A u \in Threads : WorkOf(u)'
  BY OthersWork
<1>2. \A c \in Cells \ raced' : OneCounts(c)' /\ CountOf(c)'
  BY OthersCount
<1>3. ASSUME NEW c \in Cells, state'[c] = "unused"
      PROVE  Holders(c)' = {}
  BY <1>3 DEF IndInv, Untouched, Holders
<1> QED
  BY <1>1, <1>2, <1>3 DEF IndInv

LEMMA FrameOne ==
    ASSUME IndInv, NEW t \in Threads, NEW c, Others(t), raced \subseteq raced',
           \A d \in Cells \ {c} : Untouched(t, d), state'[c] # "unused",
           TypeOK', WorkOf(t)', c \notin raced' => OneCounts(c)' /\ CountOf(c)'
    PROVE  IndInv'
<1>1. PICK D : D = {c}
  OBVIOUS
<1>2. /\ \A d \in Cells \ D : Untouched(t, d)
      /\ \A d \in D : state'[d] # "unused"
      /\ \A d \in D \ raced' : OneCounts(d)' /\ CountOf(d)'
  BY <1>1
<1> QED
  BY <1>2, Frame

(* A step with no load or store leaves the counting to the others.            *)
LEMMA CountKept ==
    ASSUME IndInv, NEW t \in Threads, Others(t), NEW c \in Cells \ raced,
           Counted(c)' = Counted(c), count'[c] = count[c], state'[c] = state[c],
           pc[t] \notin Counting, pc'[t] \notin Counting
    PROVE  OneCounts(c)' /\ CountOf(c)'
<1>1. OneCounts(c) /\ CountOf(c)
  BY DEF IndInv
<1>2. \A u \in Threads : pc'[u] \in Counting \/ pc[u] \in Counting =>
         u # t /\ pc'[u] = pc[u] /\ cell'[u] = cell[u] /\ tmp'[u] = tmp[u]
  BY DEF Others
<1>3. OneCounts(c)'
  BY <1>1, <1>2 DEF OneCounts
<1>4. Tested(c)' <=> Tested(c)
  BY <1>2 DEF Tested, Counting
<1> QED
  BY <1>1, <1>3, <1>4 DEF CountOf

-----------------------------------------------------------------------------
LEMMA InitInv == Init => IndInv
<1> SUFFICES ASSUME Init PROVE IndInv
  OBVIOUS
<1>1. Uncounted = {} /\ \A c : Counted(c) = Holders(c) /\ ~Tested(c)
  BY SlotsAssumption DEF Init, Uncounted, Owing, Counted, Tested
<1>2. \A c : /\ Cardinality(Holders(c)) \in 0 .. Modulus - 1
             /\ Cardinality(Holders(c)) = 0 <=> Holders(c) = {}
  BY <1>1, CountedFinite, CountsAreWide
<1>3. TypeOK
  BY <1>2, CountsAreWide DEF Init, TypeOK
<1>4. \A t \in Threads : WorkOf(t)
  BY DEF Init, WorkOf
<1>5. ASSUME NEW c \in Cells
      PROVE  /\ count[c] = Cardinality(Holders(c))
             /\ state[c] = IF Holders(c) = {} THEN "unused" ELSE "live"
  BY DEF Init
<1>6. \A c \in Cells : OneCounts(c)
  BY DEF Init, OneCounts, Counting
<1>7. \A c \in Cells : CountOf(c)
  BY <1>1, <1>5 DEF CountOf
<1> QED
  BY <1>3, <1>4, <1>5, <1>6, <1>7 DEF IndInv

(* The first value of a fresh cell, which is place x.                         *)
LEMMA FreshCell ==
    ASSUME IndInv, NEW t \in Threads, Others(t), NEW c \in Cells, state[c] = "unused", NEW x \in Places,
           ref'[x] = c, x \notin Uncounted', \A y \in Places \ {x} : ref'[y] = ref[y],
           state'[c] = "live", count'[c] = 1, pc'[t] # "idle" => cell'[t] # c
    PROVE  OneCounts(c)' /\ CountOf(c)'
<1>1. \A y \in Places : ref[y] # c
  BY DEF IndInv, Holders
<1>2. Counted(c)' = {x}
  BY <1>1 DEF Counted, Holders
<1>3. ASSUME NEW u \in Threads, pc'[u] # "idle"
      PROVE  cell'[u] # c
  <2>1. pc[u] # "idle" => cell[u] # c
    BY <1>1, WhenBusy
  <2> QED
    BY <1>3, <2>1 DEF Others
<1>4. Cardinality({x}) = 1
  BY FS_Singleton
<1> QED
  BY <1>2, <1>3, <1>4 DEF OneCounts, CountOf, Tested, Counting

(* A fresh cell in an empty slot.                                             *)
LEMMA InitValueInv ==
    ASSUME IndInv, NEW t \in Threads, NEW s \in Slots, NEW c \in Cells, InitValue(t, s, c)
    PROVE  IndInv'
<1>1. /\ pc[t] = "idle" /\ WorkerOf[s] = t /\ ref[s] = Null /\ state[c] = "unused"
      /\ state' = [state EXCEPT ![c] = "live"] /\ count' = [count EXCEPT ![c] = 1]
      /\ ref' = [ref EXCEPT ![s] = c]
      /\ UNCHANGED <<pc, slot, cell, tmp, raced>>
  BY DEF InitValue, Alloc
<1>2. s \in Places /\ Owner(s) = t /\ s # t /\ c # Null
  BY <1>1, OwnPlaces, SlotsAssumption
<1>3. /\ ref'[s] = c /\ \A x \in Places \ {s} : ref'[x] = ref[x]
      /\ state'[c] = "live" /\ count'[c] = 1
      /\ \A d \in Cells \ {c} : state'[d] = state[d] /\ count'[d] = count[d]
  BY <1>1, <1>2 DEF IndInv, TypeOK
<1>4. TypeOK'
  <2>1. 1 \in 0 .. Modulus - 1
    <3>1. {s} \in SUBSET Places /\ Cardinality({s}) = 1
      BY <1>2, FS_Singleton
    <3> QED
      BY <3>1, PartOfPlaces, CountsAreWide
  <2> QED
    BY <1>1, <2>1 DEF IndInv, TypeOK
<1>5. Others(t)
  BY <1>1, <1>2, <1>3 DEF Others
<1>6. WorkOf(t)'
  <2>1. t \in Places \ {s} /\ ref[t] = Null
    BY <1>1, <1>2, OwnPlaces DEF IndInv, WorkOf
  <2>2. ref'[t] = Null
    BY <1>3, <2>1
  <2> QED
    BY <1>1, <2>2 DEF WorkOf
<1>7. \A d \in Cells \ {c} : Untouched(t, d)
  BY <1>1, <1>2, <1>3, SlotsAssumption DEF Untouched
<1>8. OneCounts(c)' /\ CountOf(c)'
  <2>1. s \notin Uncounted'
    BY <1>1, SlotCounts DEF Owing
  <2> QED
    BY <1>1, <1>2, <1>3, <1>5, <2>1, FreshCell
<1> QED
  BY <1>1, <1>3, <1>4, <1>5, <1>6, <1>7, <1>8, FrameOne

(* A move takes the cell from one value of the worker to another.             *)
LEMMA MoveInv ==
    ASSUME IndInv, NEW t \in Threads, NEW s \in Slots, NEW d \in Slots, Move(t, s, d)
    PROVE  IndInv'
<1>1. PICK c : c = ref[s]
  OBVIOUS
<1>2. /\ pc[t] = "idle" /\ WorkerOf[s] = t /\ WorkerOf[d] = t
      /\ ref[s] = c /\ c # Null /\ ref[d] = Null /\ s # d
      /\ ref' = [ref EXCEPT ![d] = ref[s], ![s] = Null]
      /\ UNCHANGED <<count, state, pc, slot, cell, tmp, raced>>
  BY <1>1 DEF Move
<1>3. c \in Cells /\ state[c] # "unused" /\ s \in Counted(c)
  BY <1>2, WhenIdle
<1>4. /\ s \in Places /\ d \in Places /\ t \in Places /\ t # s /\ t # d
      /\ Owner(s) = t /\ Owner(d) = t
  BY <1>2, OwnPlaces
<1>5. /\ ref'[d] = c /\ ref'[s] = Null /\ \A x \in Places \ {s, d} : ref'[x] = ref[x]
      /\ ref' \in [Places -> Cells \cup {Null}]
  BY <1>2, <1>4 DEF IndInv, TypeOK
<1>6. TypeOK'
  BY <1>2, <1>5 DEF IndInv, TypeOK
<1>7. Others(t)
  BY <1>2, <1>4, <1>5 DEF Others
<1>8. WorkOf(t)'
  BY <1>2, <1>4, <1>5 DEF IndInv, WorkOf
<1>9. \A e \in Cells \ {c} : Untouched(t, e)
  BY <1>2, <1>4, <1>5, SlotsAssumption DEF Untouched
<1>10. ASSUME c \notin raced
      PROVE  OneCounts(c)' /\ CountOf(c)'
  <2>1. OneCounts(c) /\ CountOf(c)
    BY <1>3, <1>10 DEF IndInv
  <2>2. Uncounted' = Uncounted /\ s \notin Uncounted /\ d \notin Uncounted
    BY <1>2, SlotCounts DEF Uncounted, Owing
  <2>3. Counted(c)' = (Counted(c) \ {s}) \cup {d} /\ d \notin Counted(c)
    BY <1>2, <1>4, <1>5, <2>2 DEF Counted, Holders
  <2>4. Cardinality(Counted(c)') = Cardinality(Counted(c))
    BY <1>3, <2>3, Moves
  <2>5. Tested(c)' <=> Tested(c)
    BY <1>2 DEF Tested
  <2>6. OneCounts(c)'
    BY <1>2, <2>1 DEF OneCounts
  <2> QED
    BY <1>2, <1>3, <2>1, <2>3, <2>4, <2>5, <2>6 DEF CountOf
<1> QED
  BY <1>2, <1>3, <1>6, <1>7, <1>8, <1>9, <1>10, FrameOne

(* A clone is one more value that refers to the cell, not yet counted.        *)
LEMMA CloneInv ==
    ASSUME IndInv, NEW t \in Threads, NEW s \in Slots, NEW d \in Slots, Clone(t, s, d)
    PROVE  IndInv'
<1>1. PICK c : c = ref[s]
  OBVIOUS
<1>2. /\ pc[t] = "idle" /\ WorkerOf[s] = t /\ WorkerOf[d] = t
      /\ ref[s] = c /\ c # Null /\ ref[d] = Null /\ s # d
      /\ ref' = [ref EXCEPT ![d] = c]
      /\ slot' = [slot EXCEPT ![t] = d] /\ cell' = [cell EXCEPT ![t] = c]
      /\ pc' = [pc EXCEPT ![t] = "retain load"]
      /\ UNCHANGED <<count, state, tmp, raced>>
  BY <1>1 DEF Clone
<1>3. c \in Cells /\ state[c] # "unused" /\ s \in Counted(c)
  BY <1>2, WhenIdle
<1>4. /\ s \in Places /\ d \in Places /\ t \in Places /\ t # s /\ t # d
      /\ Owner(s) = t /\ Owner(d) = t
  BY <1>2, OwnPlaces
<1>5. /\ ref'[d] = c /\ \A x \in Places \ {d} : ref'[x] = ref[x]
      /\ ref' \in [Places -> Cells \cup {Null}]
  BY <1>2, <1>3, <1>4 DEF IndInv, TypeOK
<1>6. /\ pc'[t] = "retain load" /\ slot'[t] = d /\ cell'[t] = c
      /\ \A u \in Threads \ {t} : pc'[u] = pc[u] /\ slot'[u] = slot[u] /\ cell'[u] = cell[u]
  BY <1>2 DEF IndInv, TypeOK
<1>7. TypeOK'
  BY <1>2, <1>3, <1>5 DEF IndInv, TypeOK
<1>8. Others(t)
  BY <1>2, <1>4, <1>5, <1>6 DEF Others
<1>9. WorkOf(t)'
  <2>1. ref[t] = Null
    BY <1>2 DEF IndInv, WorkOf
  <2>2. ref'[t] = Null /\ ref'[s] = c
    BY <1>2, <1>4, <1>5, <2>1
  <2> QED
    BY <1>2, <1>3, <1>5, <1>6, <2>2 DEF WorkOf
<1>10. \A e \in Cells \ {c} : Untouched(t, e)
  BY <1>2, <1>4, <1>5, <1>6, SlotsAssumption DEF Untouched
<1>11. Counted(c)' = Counted(c)
  <2>1. d \notin Counted(c) /\ d \notin Counted(c)'
    BY <1>2, <1>4, <1>6, Counts, SlotCounts DEF Owing
  <2>2. ASSUME NEW x \in Places \ {d}
        PROVE  x \in Counted(c)' <=> x \in Counted(c)
    <3>1. x \in Uncounted' <=> x \in Uncounted
      <4>1. CASE x \in Slots /\ WorkerOf[x] = t
        BY <1>2, <1>6, <4>1, SlotCounts DEF Owing
      <4>2. CASE Owner(x) # t
        BY <1>8, <4>2, ForeignCounts
      <4>3. CASE x \notin Slots
        BY <4>3 DEF Uncounted
      <4> QED
        BY <4>1, <4>2, <4>3 DEF Owner
    <3> QED
      BY <1>5, <3>1, Counts
  <2>3. Counted(c) \subseteq Places /\ Counted(c)' \subseteq Places
    BY DEF Counted, Holders
  <2> QED
    BY <2>1, <2>2, <2>3
<1>12. ASSUME c \notin raced
       PROVE  OneCounts(c)' /\ CountOf(c)'
  <2>1. count'[c] = count[c] /\ state'[c] = state[c] /\ pc[t] \notin Counting /\ pc'[t] \notin Counting
    BY <1>2, <1>6 DEF Counting
  <2> QED
    BY <1>3, <1>8, <1>11, <1>12, <2>1, CountKept
<1> QED
  BY <1>2, <1>3, <1>7, <1>8, <1>9, <1>10, <1>12, FrameOne

(* A clean begins; nothing is changed yet.                                    *)
LEMMA CleanInv ==
    ASSUME IndInv, NEW t \in Threads, NEW s \in Slots, Clean(t, s)
    PROVE  IndInv'
<1>1. PICK c : c = ref[s]
  OBVIOUS
<1>2. /\ pc[t] = "idle" /\ WorkerOf[s] = t /\ ref[s] = c /\ c # Null
      /\ slot' = [slot EXCEPT ![t] = s] /\ cell' = [cell EXCEPT ![t] = c]
      /\ pc' = [pc EXCEPT ![t] = "release load"]
      /\ UNCHANGED <<ref, count, state, tmp, raced>>
  BY <1>1 DEF Clean
<1>3. c \in Cells /\ state[c] # "unused"
  BY <1>2, WhenIdle
<1>4. /\ pc'[t] = "release load" /\ slot'[t] = s /\ cell'[t] = c
      /\ \A u \in Threads \ {t} : pc'[u] = pc[u] /\ slot'[u] = slot[u] /\ cell'[u] = cell[u]
  BY <1>2 DEF IndInv, TypeOK
<1>5. TypeOK'
  BY <1>2, <1>3 DEF IndInv, TypeOK
<1>6. Others(t)
  BY <1>2, <1>4 DEF Others
<1>7. WorkOf(t)'
  <2>1. ref[t] = Null
    BY <1>2 DEF IndInv, WorkOf
  <2> QED
    BY <1>2, <1>3, <1>4, <2>1 DEF WorkOf
<1>8. \A e \in Cells \ {c} : Untouched(t, e)
  BY <1>2, <1>4 DEF Untouched
<1>9. Uncounted' = Uncounted
  <2>1. ASSUME NEW x \in Slots
        PROVE  x \in Uncounted' <=> x \in Uncounted
    <3>1. CASE WorkerOf[x] = t
      BY <1>2, <1>4, <3>1, SlotCounts DEF Owing
    <3>2. CASE WorkerOf[x] # t
      BY <1>6, <3>2, OwnPlaces, SlotsAssumption, ForeignCounts
    <3> QED
      BY <3>1, <3>2
  <2> QED
    BY <2>1 DEF Uncounted
<1>10. ASSUME c \notin raced
      PROVE  OneCounts(c)' /\ CountOf(c)'
  <2>1. count'[c] = count[c] /\ state'[c] = state[c] /\ pc[t] \notin Counting /\ pc'[t] \notin Counting
    BY <1>2, <1>4 DEF Counting
  <2>2. Counted(c)' = Counted(c)
    BY <1>2, <1>9 DEF Counted, Holders
  <2> QED
    BY <1>3, <1>6, <1>10, <2>1, <2>2, CountKept
<1> QED
  BY <1>2, <1>3, <1>5, <1>6, <1>7, <1>8, <1>10, FrameOne

(* The same, behind a fresh cell for the encoded text.                        *)
LEMMA EncodeInv ==
    ASSUME IndInv, NEW t \in Threads, NEW s \in Slots, NEW d \in Cells, Encode(t, s, d)
    PROVE  IndInv'
<1>1. PICK c : c = ref[s]
  OBVIOUS
<1>2. /\ pc[t] = "idle" /\ WorkerOf[s] = t /\ ref[s] = c /\ c # Null
      /\ state[d] = "unused" /\ state' = [state EXCEPT ![d] = "live"]
      /\ count' = [count EXCEPT ![d] = 1]
      /\ ref' = [ref EXCEPT ![t] = d]
      /\ slot' = [slot EXCEPT ![t] = s] /\ cell' = [cell EXCEPT ![t] = c]
      /\ pc' = [pc EXCEPT ![t] = "release load"]
      /\ UNCHANGED <<tmp, raced>>
  BY <1>1 DEF Encode, Alloc
<1>3. c \in Cells /\ state[c] # "unused"
  BY <1>2, WhenIdle
<1>4. c # d /\ d # Null /\ s \in Places /\ t \in Places /\ t # s /\ Owner(s) = t /\ Owner(t) = t
  BY <1>2, <1>3, OwnPlaces, SlotsAssumption
<1>5. ref[t] = Null
  BY <1>2 DEF IndInv, WorkOf
<1>6. /\ ref'[t] = d /\ \A x \in Places \ {t} : ref'[x] = ref[x]
      /\ ref' \in [Places -> Cells \cup {Null}]
  BY <1>2, <1>4 DEF IndInv, TypeOK
<1>7. /\ pc'[t] = "release load" /\ slot'[t] = s /\ cell'[t] = c
      /\ \A u \in Threads \ {t} : pc'[u] = pc[u] /\ slot'[u] = slot[u] /\ cell'[u] = cell[u]
  BY <1>2 DEF IndInv, TypeOK
<1>8. /\ state'[d] = "live" /\ count'[d] = 1
      /\ \A e \in Cells \ {d} : state'[e] = state[e] /\ count'[e] = count[e]
  BY <1>2 DEF IndInv, TypeOK
<1>9. TypeOK'
  <2>1. 1 \in 0 .. Modulus - 1
    <3>1. {s} \in SUBSET Places /\ Cardinality({s}) = 1
      BY <1>4, FS_Singleton
    <3> QED
      BY <3>1, PartOfPlaces, CountsAreWide
  <2> QED
    BY <1>2, <1>3, <1>6, <2>1 DEF IndInv, TypeOK
<1>10. Others(t)
  BY <1>2, <1>4, <1>6, <1>7 DEF Others
<1>11. WorkOf(t)'
  <2>1. ref'[s] = c
    BY <1>2, <1>4, <1>6
  <2> QED
    BY <1>2, <1>3, <1>4, <1>6, <1>7, <2>1 DEF WorkOf
<1>12. ASSUME NEW e \in Cells \ {c, d}
       PROVE  Untouched(t, e)
  <2>1. e # Null /\ e # c /\ e # d
    BY SlotsAssumption
  <2>2. \A x \in Places : ref'[x] = e <=> ref[x] = e
    BY <1>5, <1>6, <2>1
  <2>3. count'[e] = count[e] /\ state'[e] = state[e]
    BY <1>8, <2>1
  <2> QED
    BY <1>2, <1>7, <2>1, <2>2, <2>3 DEF Untouched
<1>13. ASSUME c \notin raced
       PROVE  OneCounts(c)' /\ CountOf(c)'
  <2>1. /\ count'[c] = count[c] /\ state'[c] = state[c]
        /\ pc[t] \notin Counting /\ pc'[t] \notin Counting
    BY <1>2, <1>3, <1>4, <1>7, <1>8 DEF Counting
  <2>2. Uncounted' = Uncounted
    <3>1. ASSUME NEW x \in Slots
          PROVE  x \in Uncounted' <=> x \in Uncounted
      <4>1. CASE WorkerOf[x] = t
        BY <1>2, <1>7, <4>1, SlotCounts DEF Owing
      <4>2. CASE WorkerOf[x] # t
        BY <1>10, <4>2, OwnPlaces, SlotsAssumption, ForeignCounts
      <4> QED
        BY <4>1, <4>2
    <3> QED
      BY <3>1 DEF Uncounted
  <2>3. \A x \in Places : ref'[x] = c <=> ref[x] = c
    BY <1>2, <1>4, <1>5, <1>6
  <2>4. Counted(c)' = Counted(c)
    BY <2>2, <2>3 DEF Counted, Holders
  <2> QED
    BY <1>3, <1>10, <1>13, <2>1, <2>4, CountKept
<1>14. OneCounts(d)' /\ CountOf(d)'
  <2>1. t \notin Uncounted'
    BY OwnPlaceCounts
  <2>2. \A y \in Places \ {t} : ref'[y] = ref[y]
    BY <1>6
  <2>3. cell'[t] # d
    BY <1>4, <1>7
  <2> QED
    BY <1>2, <1>4, <1>6, <1>8, <1>10, <2>1, <2>2, <2>3, FreshCell
<1>15. PICK D : D = {c, d}
  OBVIOUS
<1>16. /\ \A e \in Cells \ D : Untouched(t, e)
       /\ \A e \in D : state'[e] # "unused"
       /\ \A e \in D \ raced' : OneCounts(e)' /\ CountOf(e)'
  BY <1>2, <1>3, <1>4, <1>8, <1>12, <1>13, <1>14, <1>15
<1>17. raced \subseteq raced'
  BY <1>2
<1> QED
  BY <1>9, <1>10, <1>11, <1>16, <1>17, Frame

-----------------------------------------------------------------------------
(* A load is the only one of its cell, or the cell joins the raced ones.      *)
LEMMA LoadInv ==
    ASSUME IndInv, NEW t \in Threads, RetainLoad(t) \/ ReleaseLoad(t)
    PROVE  IndInv'
<1>1. PICK c : c = cell[t]
  OBVIOUS
<1>2. /\ \/ pc[t] = "retain load" /\ pc' = [pc EXCEPT ![t] = "retain store"]
         \/ pc[t] = "release load" /\ pc' = [pc EXCEPT ![t] = "release store"]
      /\ cell[t] = c /\ tmp' = [tmp EXCEPT ![t] = count[c]] /\ state[c] = "live"
      /\ raced' = raced \cup {e \in {c} :
                        \E u \in Threads \ {t} : cell[u] = e /\ pc[u] \in Counting}
      /\ UNCHANGED <<ref, count, state, slot, cell>>
  BY <1>1 DEF RetainLoad, ReleaseLoad, Accessible, Begins
<1>3. pc[t] # "idle"
  BY <1>2
<1>4. c \in Cells /\ ref[slot[t]] = c /\ WorkOf(t)
  BY <1>2, <1>3, WhenBusy DEF IndInv
<1>5. /\ tmp'[t] = count[c]
      /\ \/ pc[t] = "retain load" /\ pc'[t] = "retain store"
         \/ pc[t] = "release load" /\ pc'[t] = "release store"
      /\ \A u \in Threads \ {t} : pc'[u] = pc[u] /\ tmp'[u] = tmp[u]
  BY <1>2 DEF IndInv, TypeOK
<1>6. TypeOK'
  <2>1. count[c] \in 0 .. Modulus - 1
    BY <1>4 DEF IndInv, TypeOK
  <2>2. raced' \in SUBSET Cells
    BY <1>2, <1>4 DEF IndInv, TypeOK
  <2> QED
    BY <1>2, <2>1, <2>2 DEF IndInv, TypeOK
<1>7. Others(t) /\ raced \subseteq raced'
  BY <1>2, <1>5 DEF Others
<1>8. WorkOf(t)'
  BY <1>2, <1>4, <1>5 DEF WorkOf
<1>9. \A e \in Cells \ {c} : Untouched(t, e)
  BY <1>2 DEF Untouched
<1>10. ASSUME c \notin raced'
      PROVE  OneCounts(c)' /\ CountOf(c)'
  <2>1. c \notin raced /\ \A u \in Threads \ {t} : cell[u] = c => pc[u] \notin Counting
    BY <1>2, <1>10
  <2>2. CountOf(c)
    BY <1>4, <2>1 DEF IndInv
  <2>3. OneCounts(c)'
    BY <1>2, <1>5, <2>1 DEF OneCounts
  <2>4. Tested(c)' <=> Tested(c)
    BY <1>2, <1>5 DEF Tested
  <2>5. Uncounted' = Uncounted
    <3>1. \A u \in Threads : pc'[u] \in Owing <=> pc[u] \in Owing
      BY <1>5 DEF Owing
    <3> QED
      BY <1>2, <3>1, SlotsAssumption DEF Uncounted
  <2>6. Counted(c)' = Counted(c)
    BY <1>2, <2>5 DEF Counted, Holders
  <2> QED
    BY <1>2, <2>2, <2>3, <2>4, <2>6 DEF CountOf
<1> QED
  BY <1>2, <1>6, <1>7, <1>8, <1>9, <1>10, FrameOne

(* A worker is busy with a cell that is live: its own value is still counted, *)
(* or the one it clones is, or its release is not through.                    *)
LEMMA BusyLive ==
    ASSUME IndInv, NEW t \in Threads, pc[t] \notin {"idle", "wipe"},
           NEW c, cell[t] = c, c \notin raced
    PROVE  state[c] = "live"
<1>1. PICK x : x = slot[t]
  OBVIOUS
<1>2. /\ c \in Cells \ raced /\ ref[x] = c /\ x \in Slots /\ x \in Places /\ WorkerOf[x] = t
  BY <1>1, WhenBusy
<1>3. CountOf(c)
  BY <1>2 DEF IndInv
<1>4. CASE pc[t] \in {"retain load", "retain store"}
  <2>1. PICK s \in Slots \ {slot[t]} : WorkerOf[s] = t /\ ref[s] = c
    BY <1>4 DEF IndInv, WorkOf
  <2>2. s \in Counted(c)
    BY <2>1, OwnPlaces, Counts, SlotCounts
  <2> QED
    BY <1>3, <2>2 DEF CountOf
<1>5. CASE pc[t] \in {"release load", "release store"}
  <2>1. x \in Counted(c)
    BY <1>1, <1>2, <1>5, Counts, SlotCounts DEF Owing
  <2> QED
    BY <1>3, <2>1 DEF CountOf
<1>6. CASE pc[t] = "test"
  BY <1>3, <1>6 DEF CountOf, Tested
<1> QED
  BY <1>4, <1>5, <1>6 DEF IndInv, TypeOK

(* What a store or a test finds if its cell is not raced: nobody has counted  *)
(* since the load.                                                            *)
LEMMA WhenCounting ==
    ASSUME IndInv, NEW t \in Threads, pc[t] \in Counting,
           NEW c, cell[t] = c, c \notin raced
    PROVE  /\ \A u \in Threads \ {t} : cell[u] = c => pc[u] \notin Counting
           /\ count[c] = Cardinality(Counted(c))
           /\ pc[t] \in {"retain store", "release store"} => tmp[t] = count[c]
           /\ pc[t] = "test" => (tmp[t] - 1) % Modulus = count[c]
<1>1. pc[t] \notin {"idle", "wipe"}
  BY DEF Counting
<1>2. c \in Cells \ raced /\ state[c] = "live"
  BY <1>1, WhenBusy, BusyLive
<1>3. OneCounts(c) /\ CountOf(c)
  BY <1>2 DEF IndInv
<1> QED
  BY <1>2, <1>3 DEF OneCounts, CountOf

(* The places of the others count as before: only slot[t] may change sides.   *)
LEMMA OneSlotChanges ==
    ASSUME IndInv, NEW t \in Threads, Others(t), ref' = ref, slot' = slot, NEW c,
           NEW x \in Places, x # slot[t]
    PROVE  x \in Counted(c)' <=> x \in Counted(c)
<1>1. CASE Owner(x) # t
  BY <1>1, ForeignCounts
<1>2. CASE x \in Slots /\ WorkerOf[x] = t
  BY <1>2, Counts, SlotCounts
<1>3. CASE x \notin Slots
  <2>1. x \notin Uncounted /\ x \notin Uncounted'
    BY <1>3 DEF Uncounted
  <2> QED
    BY <2>1, Counts
<1> QED
  BY <1>1, <1>2, <1>3 DEF Owner

(* The stores are right because nobody stored since the load.                 *)
LEMMA StoreInv ==
    ASSUME IndInv, NEW t \in Threads, RetainStore(t) \/ ReleaseStore(t)
    PROVE  IndInv'
<1>1. PICK c, x : c = cell[t] /\ x = slot[t]
  OBVIOUS
<1>2. /\ cell[t] = c /\ state[c] = "live"
      /\ \/ /\ pc[t] = "retain store" /\ pc' = [pc EXCEPT ![t] = "idle"]
            /\ count' = [count EXCEPT ![c] = (tmp[t] + 1) % Modulus]
         \/ /\ pc[t] = "release store" /\ pc' = [pc EXCEPT ![t] = "test"]
            /\ count' = [count EXCEPT ![c] = (tmp[t] - 1) % Modulus]
      /\ UNCHANGED <<ref, state, slot, cell, tmp, raced>>
  BY <1>1 DEF RetainStore, ReleaseStore, Accessible
<1>3. pc[t] # "idle" /\ pc[t] \in Counting /\ slot[t] = x
  BY <1>1, <1>2 DEF Counting
<1>4. /\ c \in Cells /\ x \in Slots /\ x \in Places /\ WorkerOf[x] = t /\ ref[x] = c
      /\ WorkOf(t)
  BY <1>2, <1>3, WhenBusy DEF IndInv
<1>5. /\ \/ pc[t] = "retain store" /\ pc'[t] = "idle" /\ count'[c] = (tmp[t] + 1) % Modulus
         \/ pc[t] = "release store" /\ pc'[t] = "test" /\ count'[c] = (tmp[t] - 1) % Modulus
      /\ \A u \in Threads \ {t} : pc'[u] = pc[u]
      /\ \A e \in Cells \ {c} : count'[e] = count[e]
  BY <1>2, <1>4 DEF IndInv, TypeOK
<1>6. Modulus \in Nat /\ Modulus > 0 /\ tmp[t] \in 0 .. Modulus - 1
  <2>1. tmp[t] \in 0 .. Modulus - 1
    BY DEF IndInv, TypeOK
  <2> QED
    BY <2>1, CountsAreWide
<1>7. TypeOK'
  <2>1. /\ (tmp[t] + 1) % Modulus \in 0 .. Modulus - 1
        /\ (tmp[t] - 1) % Modulus \in 0 .. Modulus - 1
    BY <1>6
  <2>2. \E n \in 0 .. Modulus - 1 : count' = [count EXCEPT ![c] = n]
    BY <1>2, <2>1
  <2>3. count' \in [Cells -> 0 .. Modulus - 1]
    BY <2>2 DEF IndInv, TypeOK
  <2>4. pc' \in [Threads -> {"idle", "retain load", "retain store", "release load",
                             "release store", "test", "wipe"}]
    BY <1>2 DEF IndInv, TypeOK
  <2> QED
    BY <1>2, <2>3, <2>4 DEF IndInv, TypeOK
<1>8. Others(t)
  BY <1>2, <1>5 DEF Others
<1>9. WorkOf(t)'
  BY <1>2, <1>4, <1>5 DEF WorkOf
<1>10. \A e \in Cells \ {c} : Untouched(t, e)
  BY <1>2, <1>5 DEF Untouched
<1>11. ASSUME c \notin raced
       PROVE  OneCounts(c)' /\ CountOf(c)'
  <2>1. /\ \A u \in Threads \ {t} : cell[u] = c => pc[u] \notin Counting
        /\ count[c] = Cardinality(Counted(c)) /\ tmp[t] = count[c]
    BY <1>2, <1>3, <1>11, WhenCounting
  <2>2. /\ Cardinality(Counted(c)) \in Nat /\ Cardinality(Counted(c)) < Modulus
        /\ Cardinality(Counted(c)) = 0 <=> Counted(c) = {}
    BY CountedFinite
  <2>3. /\ Cardinality(Counted(c)') \in Nat /\ Cardinality(Counted(c)') < Modulus
        /\ Cardinality(Counted(c)') = 0 <=> Counted(c)' = {}
    BY CountedFiniteNext
  <2>4. /\ \A y \in Places : y # x => (y \in Counted(c)' <=> y \in Counted(c))
        /\ Counted(c) \subseteq Places /\ Counted(c)' \subseteq Places
    BY <1>2, <1>3, <1>8, OneSlotChanges DEF Counted, Holders
  <2>5. CASE pc[t] = "retain store"
    <3>1. x \notin Counted(c) /\ x \in Counted(c)'
      BY <1>2, <1>3, <1>4, <1>5, <2>5, Counts, SlotCounts DEF Owing
    <3>2. Counted(c)' = Counted(c) \cup {x}
      BY <2>4, <3>1
    <3>3. Cardinality(Counted(c)') = Cardinality(Counted(c)) + 1
      BY <3>1, <3>2, Joins
    <3>4. count'[c] = Cardinality(Counted(c)')
      <4>1. tmp[t] + 1 = Cardinality(Counted(c)')
        BY <2>1, <3>3
      <4>2. (tmp[t] + 1) % Modulus = tmp[t] + 1
        BY <1>6, <2>3, <4>1
      <4> QED
        BY <1>5, <2>5, <4>1, <4>2
    <3>5. OneCounts(c)'
      BY <1>2, <1>5, <2>1, <2>5 DEF OneCounts, Counting
    <3> QED
      BY <1>2, <3>1, <3>4, <3>5 DEF CountOf
  <2>6. CASE pc[t] = "release store"
    <3>1. x \in Counted(c) /\ x \notin Counted(c)'
      BY <1>2, <1>3, <1>4, <1>5, <2>6, Counts, SlotCounts DEF Owing
    <3>2. Counted(c)' = Counted(c) \ {x}
      BY <2>4, <3>1
    <3>3. Cardinality(Counted(c)') = Cardinality(Counted(c)) - 1
      BY <3>1, <3>2, Leaves
    <3>4. count'[c] = Cardinality(Counted(c)')
      <4>1. tmp[t] - 1 = Cardinality(Counted(c)')
        BY <2>1, <3>3
      <4>2. (tmp[t] - 1) % Modulus = tmp[t] - 1
        BY <1>6, <2>3, <4>1
      <4> QED
        BY <1>5, <2>6, <4>1, <4>2
    <3>5. pc'[t] = "test" /\ cell'[t] = c /\ (tmp'[t] - 1) % Modulus = count'[c]
      BY <1>2, <1>5, <2>6
    <3>6. OneCounts(c)'
      BY <1>2, <1>5, <2>1, <3>5 DEF OneCounts
    <3>7. Tested(c)'
      BY <3>5 DEF Tested
    <3> QED
      BY <1>2, <3>4, <3>6, <3>7 DEF CountOf
  <2> QED
    BY <1>2, <2>5, <2>6
<1> QED
  BY <1>2, <1>7, <1>8, <1>9, <1>10, <1>11, FrameOne

(* What is not raced is freed if no value of it is counted any more.          *)
LEMMA TestInv ==
    ASSUME IndInv, NEW t \in Threads, TestAndFree(t)
    PROVE  /\ IndInv'
           /\ \A c \in Cells \ raced : state[c] = "live" /\ state'[c] = "freed" => Counted(c) = {}
<1>1. PICK c : c = cell[t]
  OBVIOUS
<1>2. /\ pc[t] = "test" /\ cell[t] = c /\ state[c] = "live"
      /\ \E n \in {count[c], (tmp[t] - 1) % Modulus} :
            state' = IF n = 0 THEN [state EXCEPT ![c] = "freed"] ELSE state
      /\ pc' = [pc EXCEPT ![t] = "wipe"]
      /\ UNCHANGED <<ref, count, slot, cell, tmp, raced>>
  BY <1>1 DEF TestAndFree, Accessible
<1>3. pc[t] # "idle" /\ pc[t] \in Counting
  BY <1>2 DEF Counting
<1>4. c \in Cells /\ WorkOf(t)
  BY <1>2, <1>3, WhenBusy DEF IndInv
<1>5. /\ pc'[t] = "wipe" /\ \A u \in Threads \ {t} : pc'[u] = pc[u]
      /\ state'[c] \in {"live", "freed"} /\ \A e \in Cells \ {c} : state'[e] = state[e]
      /\ state' \in [Cells -> {"unused", "live", "freed"}]
  BY <1>2, <1>4 DEF IndInv, TypeOK
<1>6. TypeOK'
  BY <1>2, <1>5 DEF IndInv, TypeOK
<1>7. Others(t)
  BY <1>2, <1>5 DEF Others
<1>8. WorkOf(t)'
  BY <1>2, <1>4, <1>5 DEF WorkOf
<1>9. \A e \in Cells \ {c} : Untouched(t, e)
  BY <1>2, <1>5 DEF Untouched
<1>10. ASSUME c \notin raced
      PROVE  /\ OneCounts(c)' /\ CountOf(c)'
             /\ state'[c] = "freed" => Counted(c) = {}
  <2>1. /\ \A u \in Threads \ {t} : cell[u] = c => pc[u] \notin Counting
        /\ count[c] = Cardinality(Counted(c)) /\ (tmp[t] - 1) % Modulus = count[c]
    BY <1>2, <1>3, <1>10, WhenCounting
  <2>2. count[c] = 0 <=> Counted(c) = {}
    BY <2>1, CountedFinite
  <2>3. state'[c] = IF Counted(c) = {} THEN "freed" ELSE "live"
    BY <1>2, <1>4, <2>1, <2>2 DEF IndInv, TypeOK
  <2>4. Counted(c)' = Counted(c)
    <3>1. \A u \in Threads : pc'[u] \in Owing <=> pc[u] \in Owing
      BY <1>2, <1>5 DEF Owing
    <3>2. Uncounted' = Uncounted
      BY <1>2, <3>1, SlotsAssumption DEF Uncounted
    <3> QED
      BY <1>2, <3>2 DEF Counted, Holders
  <2>5. \A u \in Threads : cell'[u] = c => pc'[u] \notin Counting
    BY <1>2, <1>5, <2>1 DEF Counting
  <2>6. OneCounts(c)' /\ ~Tested(c)'
    BY <2>5 DEF OneCounts, Tested, Counting
  <2> QED
    BY <1>2, <2>1, <2>3, <2>4, <2>6 DEF CountOf
<1>11. IndInv'
  BY <1>2, <1>5, <1>6, <1>7, <1>8, <1>9, <1>10, FrameOne
<1>12. \A e \in Cells \ raced : state[e] = "live" /\ state'[e] = "freed" => Counted(e) = {}
  BY <1>5, <1>10
<1> QED
  BY <1>11, <1>12

(* The cleaned value is emptied, or takes the text of the worker's dest_buf.  *)
LEMMA WipeInv ==
    ASSUME IndInv, NEW t \in Threads, Wipe(t)
    PROVE  IndInv'
<1>1. PICK c, d, x : c = cell[t] /\ d = ref[t] /\ x = slot[t]
  OBVIOUS
<1>2. /\ pc[t] = "wipe" /\ cell[t] = c /\ ref[t] = d /\ slot[t] = x
      /\ ref' = [ref EXCEPT ![x] = d, ![t] = Null]
      /\ pc' = [pc EXCEPT ![t] = "idle"]
      /\ UNCHANGED <<count, state, slot, cell, tmp, raced>>
  BY <1>1 DEF Wipe
<1>3. /\ c \in Cells /\ c # Null /\ x \in Slots /\ x \in Places /\ WorkerOf[x] = t /\ Owner(x) = t
      /\ x # t /\ ref[x] = c /\ d # c /\ t \in Places /\ Owner(t) = t
  <2>1. pc[t] # "idle"
    BY <1>2
  <2> QED
    BY <1>2, <2>1, WhenBusy, OwnPlaces
<1>4. /\ ref'[x] = d /\ ref'[t] = Null
      /\ \A y \in Places \ {x, t} : ref'[y] = ref[y]
      /\ ref' \in [Places -> Cells \cup {Null}] /\ d \in Cells \cup {Null}
  BY <1>2, <1>3 DEF IndInv, TypeOK
<1>5. pc'[t] = "idle" /\ \A u \in Threads \ {t} : pc'[u] = pc[u]
  BY <1>2 DEF IndInv, TypeOK
<1>6. TypeOK'
  BY <1>2, <1>4 DEF IndInv, TypeOK
<1>7. Others(t) /\ raced \subseteq raced'
  BY <1>2, <1>3, <1>4, <1>5 DEF Others
<1>8. WorkOf(t)'
  BY <1>4, <1>5 DEF WorkOf
<1>9. ASSUME NEW e \in Cells \ {c, d}
      PROVE  Untouched(t, e)
  <2>1. e # c /\ e # d /\ e # Null
    BY SlotsAssumption
  <2>2. \A y \in Places : ref'[y] = e <=> ref[y] = e
    BY <1>2, <1>3, <1>4, <2>1
  <2> QED
    BY <1>2, <1>5, <2>1, <2>2 DEF Untouched
<1>10. \A e \in {c, d} \cap Cells : state'[e] # "unused"
  <2>1. x \in Holders(c) /\ t \in Holders(d)
    BY <1>2, <1>3 DEF Holders
  <2> QED
    BY <1>2, <2>1 DEF IndInv
<1>11. ASSUME NEW y \in Places \ {x, t}, NEW e
       PROVE  y \in Counted(e)' <=> y \in Counted(e)
  <2>1. y \in Uncounted' <=> y \in Uncounted
    <3>1. CASE y \in Slots /\ WorkerOf[y] = t
      BY <1>2, <3>1, SlotCounts
    <3>2. CASE Owner(y) # t
      BY <1>7, <3>2, ForeignCounts
    <3>3. CASE y \notin Slots
      BY <3>3 DEF Uncounted
    <3> QED
      BY <3>1, <3>2, <3>3 DEF Owner
  <2> QED
    BY <1>4, <2>1, Counts
<1>12. /\ x \in Uncounted /\ x \notin Uncounted'
       /\ t \notin Uncounted /\ t \notin Uncounted'
  BY <1>2, <1>3, <1>5, SlotCounts, OwnPlaceCounts DEF Owing
<1>13. \A e : Counted(e) \subseteq Places /\ Counted(e)' \subseteq Places
  BY DEF Counted, Holders
<1>14. ASSUME c \notin raced
       PROVE  OneCounts(c)' /\ CountOf(c)'
  <2>1. /\ x \notin Counted(c) /\ x \notin Counted(c)'
        /\ t \notin Counted(c) /\ t \notin Counted(c)'
    BY <1>2, <1>3, <1>4, <1>12, Counts
  <2>2. Counted(c)' = Counted(c)
    BY <1>11, <1>13, <2>1
  <2>3. count'[c] = count[c] /\ state'[c] = state[c] /\ pc[t] \notin Counting /\ pc'[t] \notin Counting
    BY <1>2, <1>5 DEF Counting
  <2> QED
    BY <1>3, <1>7, <1>14, <2>2, <2>3, CountKept
<1>15. ASSUME d \in Cells, d \notin raced
       PROVE  OneCounts(d)' /\ CountOf(d)'
  <2>1. d # Null
    BY <1>15, SlotsAssumption
  <2>2. /\ x \notin Counted(d) /\ x \in Counted(d)'
        /\ t \in Counted(d) /\ t \notin Counted(d)'
    BY <1>2, <1>3, <1>4, <1>12, <2>1, Counts
  <2>3. Counted(d)' = (Counted(d) \ {t}) \cup {x}
    BY <1>11, <1>13, <2>2
  <2>4. Cardinality(Counted(d)') = Cardinality(Counted(d))
    BY <2>2, <2>3, Moves
  <2>5. OneCounts(d) /\ CountOf(d)
    BY <1>15 DEF IndInv
  <2>6. \A u \in Threads : pc'[u] \in Counting \/ pc[u] \in Counting => pc'[u] = pc[u]
    BY <1>2, <1>5 DEF Counting
  <2>7. OneCounts(d)'
    BY <1>2, <2>5, <2>6 DEF OneCounts
  <2>8. Tested(d)' <=> Tested(d)
    BY <1>2, <2>6 DEF Tested, Counting
  <2> QED
    BY <1>2, <2>2, <2>4, <2>5, <2>7, <2>8 DEF CountOf
<1>16. PICK D : D = {c, d} \cap Cells
  OBVIOUS
<1>17. /\ \A e \in Cells \ D : Untouched(t, e)
       /\ \A e \in D : state'[e] # "unused"
       /\ \A e \in D \ raced' : OneCounts(e)' /\ CountOf(e)'
  BY <1>2, <1>9, <1>10, <1>14, <1>15, <1>16
<1> QED
  BY <1>6, <1>7, <1>8, <1>17, Frame

-----------------------------------------------------------------------------
(* Every step of a worker keeps the invariant.                                *)
LEMMA StepInv == ASSUME IndInv, NEW t \in Threads, Step(t) PROVE IndInv'
<1>1. CASE \E s \in Slots, c \in Cells : InitValue(t, s, c) \/ Encode(t, s, c)
  BY <1>1, InitValueInv, EncodeInv
<1>2. CASE \E s, d \in Slots : Move(t, s, d) \/ Clone(t, s, d)
  BY <1>2, MoveInv, CloneInv
<1>3. CASE \E s \in Slots : Clean(t, s)
  BY <1>3, CleanInv
<1>4. CASE RetainLoad(t) \/ ReleaseLoad(t)
  BY <1>4, LoadInv
<1>5. CASE RetainStore(t) \/ ReleaseStore(t)
  BY <1>5, StoreInv
<1>6. CASE TestAndFree(t)
  BY <1>6, TestInv
<1>7. CASE Wipe(t)
  BY <1>7, WipeInv
<1> QED
  BY <1>1, <1>2, <1>3, <1>4, <1>5, <1>6, <1>7 DEF Step

LEMMA StutterInv == ASSUME IndInv, UNCHANGED vars PROVE IndInv'
<1>1. UNCHANGED <<ref, count, state, pc, slot, cell, tmp, raced>>
  BY DEF vars
<1>2. TypeOK' /\ \A c : Holders(c)' = Holders(c)
  BY <1>1 DEF IndInv, TypeOK, Holders
<1>3. \A t \in Threads : WorkOf(t)'
  BY <1>1 DEF IndInv, WorkOf
<1>4. Uncounted' = Uncounted /\ \A c : Counted(c)' = Counted(c) /\ (Tested(c)' <=> Tested(c))
  BY <1>1, <1>2 DEF Uncounted, Counted, Tested
<1>5. ASSUME NEW c \in Cells \ raced
      PROVE  OneCounts(c)' /\ CountOf(c)'
  <2>1. OneCounts(c) /\ CountOf(c)
    BY DEF IndInv
  <2>2. OneCounts(c)'
    BY <1>1, <2>1 DEF OneCounts
  <2> QED
    BY <1>1, <1>4, <2>1, <2>2 DEF CountOf
<1> QED
  BY <1>1, <1>2, <1>3, <1>5 DEF IndInv

(* The invariant holds at any time, whatever the workers share.               *)
THEOREM CountsInvariance == Spec => []IndInv
<1>1. Init => IndInv
  BY InitInv
<1>2. IndInv /\ [Next]_vars => IndInv'
  BY StepInv, StutterInv DEF Next
<1> QED
  BY <1>1, <1>2, PTL DEF Spec

(* The variables keep their types, the counts modulo 2^32.                    *)
THEOREM TypeCorrect == Spec => []TypeOK
<1>1. IndInv => TypeOK
  BY DEF IndInv
<1> QED
  BY <1>1, CountsInvariance, PTL

(* buf.c, pointer.c: no worker counts in a freed cell, unless two workers     *)
(* were changing the count of that cell at the same time before.              *)
THEOREM NothingUsedAfterFree == Spec => []NoUseAfterFree
<1>1. IndInv => NoUseAfterFree
  BY BusyLive DEF NoUseAfterFree
<1> QED
  BY <1>1, CountsInvariance, PTL

(* A cell whose count no two workers ever changed at the same time is counted *)
(* once for each of its values, in whatever worker, while nobody is busy with *)
(* it, and if there is none it is not live.                                   *)
THEOREM CountsAreExact == Spec => []CountsExact
<1>1. IndInv => CountsExact
  <2> SUFFICES ASSUME IndInv, NEW c \in Cells \ raced, ~Busy(c)
               PROVE  /\ state[c] = "live" => count[c] = Cardinality(Holders(c)) /\ count[c] > 0
                      /\ state[c] # "live" => Holders(c) = {}
    BY DEF CountsExact
  <2>1. CountOf(c) /\ ~Tested(c)
    BY DEF IndInv, Busy, Tested
  <2>2. ASSUME NEW x \in Holders(c)
        PROVE  x \notin Uncounted
    <3>1. SUFFICES ASSUME x \in Uncounted PROVE FALSE
      OBVIOUS
    <3>2. PICK t : t = WorkerOf[x]
      OBVIOUS
    <3>3. t \in Threads /\ slot[t] = x /\ pc[t] # "idle"
      BY <3>1, <3>2, SlotsAssumption DEF Uncounted, Owing
    <3>4. cell[t] = c
      BY <2>2, <3>3 DEF IndInv, WorkOf, Holders
    <3> QED
      BY <3>3, <3>4 DEF Busy
  <2>3. Counted(c) = Holders(c)
    BY <2>2 DEF Counted
  <2> QED
    BY <2>1, <2>3, CountedFinite DEF CountOf
<1> QED
  BY <1>1, CountsInvariance, PTL

(* What is freed without a race is freed behind the release of its last       *)
(* value: the values that still refer to it, of whichever workers, are        *)
(* released and only wait to be wiped.                                        *)
THEOREM LastHolderFrees == Spec => FreedByLastHolder
<1> DEFINE Frees == \A c \in Cells \ raced :
                       state[c] = "live" /\ state'[c] = "freed" => Holders(c) \subseteq Released
<1>1. ASSUME IndInv, NEW c \in Cells \ raced, Counted(c) = {}
      PROVE  Holders(c) \subseteq Released
  <2>1. SUFFICES ASSUME NEW x \in Holders(c) PROVE x \in Released
    OBVIOUS
  <2>2. PICK t : t = WorkerOf[x]
    OBVIOUS
  <2>3. x \in Slots /\ t \in Threads /\ slot[t] = x /\ pc[t] \in Owing
    BY <1>1, <2>2, SlotsAssumption DEF Counted, Uncounted
  <2>4. ref[x] = c /\ cell[t] = c
    BY <1>1, <2>3 DEF IndInv, WorkOf, Holders, Owing
  <2>5. pc[t] \notin {"retain load", "retain store"}
    <3>1. SUFFICES ASSUME pc[t] \in {"retain load", "retain store"} PROVE FALSE
      OBVIOUS
    <3>2. WorkOf(t)
      BY <1>1, <2>3 DEF IndInv
    <3>3. PICK s \in Slots \ {slot[t]} : WorkerOf[s] = t /\ ref[s] = c
      BY <2>4, <3>2, <3>1 DEF WorkOf
    <3>4. s \in Counted(c)
      BY <2>3, <3>3, OwnPlaces, Counts, SlotCounts
    <3> QED
      BY <1>1, <3>4
  <2> QED
    BY <2>2, <2>3, <2>5 DEF Released, Owing
<1>2. IndInv /\ [Next]_vars => [Frees]_vars
  <2> SUFFICES ASSUME IndInv, NEW t \in Threads, Step(t) PROVE Frees
    BY DEF Next
  <2>1. CASE TestAndFree(t)
    BY <1>1, <2>1, TestInv
  <2>2. CASE UNCHANGED state
    BY <2>2
  <2>3. CASE \E d \in Cells : state' = [state EXCEPT ![d] = "live"]
    BY <2>3 DEF IndInv, TypeOK
  <2> QED
    BY <2>1, <2>2, <2>3 DEF Step, InitValue, Encode, Alloc, Move, Clone, Clean,
       RetainLoad, RetainStore, ReleaseLoad, ReleaseStore, Wipe
<1>3. Spec => [][Frees]_vars
  BY <1>2, CountsInvariance, PTL DEF Spec
<1> QED
  BY <1>3 DEF FreedByLastHolder

-----------------------------------------------------------------------------
(***************************************************************************)
(* Workers that share nothing never race.                                  *)
(***************************************************************************)

(* Two busy workers have the cells of places of their own.                    *)
LEMMA BusyApart ==
    ASSUME IndInv, Unshared, NEW t \in Threads, NEW u \in Threads,
           pc[t] # "idle", pc[u] # "idle", cell[u] = cell[t]
    PROVE  u = t
<1>1. PICK x, y, c : x = slot[t] /\ y = slot[u] /\ c = cell[t]
  OBVIOUS
<1>2. /\ x \in Places /\ Owner(x) = t /\ ref[x] = c /\ c # Null
      /\ y \in Places /\ Owner(y) = u /\ ref[y] = c
  BY <1>1, WhenBusy
<1> QED
  BY <1>2 DEF Unshared

(* A place changes only within its worker: it is emptied, takes a fresh cell, *)
(* or what another place of the worker referred to.                           *)
LEMMA StaysUnshared ==
    ASSUME Unshared, NEW t,
           \A x \in Places : \/ ref'[x] = ref[x]
                             \/ ref'[x] = Null
                             \/ /\ Owner(x) = t
                                /\ \/ \E y \in Places : Owner(y) = t /\ ref'[x] = ref[y]
                                   \/ \A y \in Places : /\ ref[y] # ref'[x]
                                                        /\ y # x => ref'[y] # ref'[x]
    PROVE  Unshared'
<1>1. ASSUME NEW x \in Places, NEW y \in Places, ref'[x] = ref'[y], ref'[x] # Null
      PROVE  Owner(x) = Owner(y)
  <2>1. CASE \A z \in Places : ref[z] # ref'[x]
    BY <1>1, <2>1
  <2>2. CASE \E z \in Places : ref[z] = ref'[x]
    <3>1. \A w \in {x, y} : \E z \in Places : Owner(z) = Owner(w) /\ ref[z] = ref'[x]
      BY <1>1, <2>2
    <3> QED
      BY <1>1, <3>1 DEF Unshared
  <2> QED
    BY <2>1, <2>2
<1>2. \A x \in Places : Owner(x)' = Owner(x)
  BY DEF Owner
<1> QED
  BY <1>1, <1>2 DEF Unshared

LEMMA UnsharedStep ==
    ASSUME IndInv, Unshared, raced = {}, NEW t \in Threads, Step(t)
    PROVE  Unshared' /\ raced' = {}
<1>1. ref \in [Places -> Cells \cup {Null}]
  BY DEF IndInv, TypeOK
<1>2. \A s \in Slots : s \in Places /\ s # t /\ Owner(s) = WorkerOf[s]
  BY OwnPlaces
<1>3. t \in Places /\ Owner(t) = t
  BY OwnPlaces
<1>4. CASE \E s \in Slots, c \in Cells : InitValue(t, s, c) \/ Encode(t, s, c)
  <2>1. PICK x \in Places, c \in Cells :
          Owner(x) = t /\ state[c] = "unused" /\ ref' = [ref EXCEPT ![x] = c] /\ raced' = raced
    BY <1>2, <1>3, <1>4 DEF InitValue, Encode, Alloc
  <2>2. \A y \in Places : ref[y] # c
    BY <2>1 DEF IndInv, Holders
  <2>3. ref'[x] = c /\ \A y \in Places \ {x} : ref'[y] = ref[y]
    BY <1>1, <2>1
  <2> QED
    BY <2>1, <2>2, <2>3, StaysUnshared
<1>5. CASE \E s, d \in Slots : Move(t, s, d) \/ Clone(t, s, d)
  <2>1. PICK s \in Slots, d \in Slots :
          /\ WorkerOf[s] = t /\ WorkerOf[d] = t /\ raced' = raced
          /\ \/ ref' = [ref EXCEPT ![d] = ref[s], ![s] = Null]
             \/ ref' = [ref EXCEPT ![d] = ref[s]]
    BY <1>5 DEF Move, Clone
  <2>2. s \in Places /\ d \in Places /\ Owner(s) = t /\ Owner(d) = t
    BY <1>2, <2>1
  <2>3. \A y \in Places : ref'[y] = ref[y] \/ ref'[y] = Null \/ (Owner(y) = t /\ ref'[y] = ref[s])
    BY <1>1, <2>1, <2>2
  <2> QED
    BY <2>1, <2>2, <2>3, StaysUnshared
<1>6. CASE UNCHANGED <<ref, raced>>
  BY <1>6, StaysUnshared
<1>7. CASE RetainLoad(t) \/ ReleaseLoad(t)
  <2>1. ref' = ref /\ pc[t] # "idle"
    BY <1>7 DEF RetainLoad, ReleaseLoad
  <2>2. raced' = {}
    <3>1. \A u \in Threads \ {t} : cell[u] = cell[t] => pc[u] = "idle"
      BY <2>1, BusyApart
    <3> QED
      BY <1>7, <3>1 DEF RetainLoad, ReleaseLoad, Begins, Counting
  <2> QED
    BY <2>1, <2>2, StaysUnshared
<1>8. CASE Wipe(t)
  <2>1. PICK x : x = slot[t]
    OBVIOUS
  <2>2. ref' = [ref EXCEPT ![x] = ref[t], ![t] = Null] /\ raced' = raced
    BY <1>8, <2>1 DEF Wipe
  <2>3. x \in Places /\ Owner(x) = t
    BY <1>8, <2>1, WhenBusy DEF Wipe
  <2>4. \A y \in Places : ref'[y] = ref[y] \/ ref'[y] = Null \/ (Owner(y) = t /\ ref'[y] = ref[t])
    BY <1>1, <1>3, <2>2, <2>3
  <2> QED
    BY <1>3, <2>2, <2>4, StaysUnshared
<1> QED
  BY <1>4, <1>5, <1>6, <1>7, <1>8 DEF Step, Clean, RetainStore, ReleaseStore, TestAndFree

(* If no two workers' values share a cell when the map starts, no cell is     *)
(* ever raced: the other theorems then speak of all cells, with no lock.      *)
THEOREM UnsharedNeverRaces == Spec /\ Unshared => [](raced = {})
<1>1. Init /\ Unshared => Unshared /\ raced = {}
  BY DEF Init
<1>2. IndInv /\ (Unshared /\ raced = {}) /\ [Next]_vars => (Unshared /\ raced = {})'
  <2>1. CASE UNCHANGED vars
    BY <2>1 DEF vars, Unshared, Owner
  <2>2. ASSUME IndInv, Unshared, raced = {}, Next
        PROVE  Unshared' /\ raced' = {}
    BY <2>2, UnsharedStep DEF Next
  <2> QED
    BY <2>1, <2>2
<1> QED
  BY <1>1, <1>2, CountsInvariance, PTL DEF Spec
=============================================================================
