------------------------- MODULE ObjectIndexProofs -------------------------
(* Lookups in parsed objects, for any keys and any size. *)
EXTENDS ObjectIndex, FiniteSetTheorems, TLAPS

(* What a sort leaves: a permutation, in order. *)
LEMMA SortsPermutes ==
    ASSUME NEW s \in Seq(Keys), NEW t \in Sorts(s)
    PROVE  /\ t \in Seq(Keys) /\ Len(t) = Len(s)
           /\ InOrder(t)
           /\ \E p \in Bijection(1 .. Len(s), 1 .. Len(s)) : t = [i \in 1 .. Len(s) |-> s[p[i]]]
<1>1. DOMAIN s = 1 .. Len(s) /\ Len(s) \in Nat
    OBVIOUS
<1>2. PICK p \in Bijection(1 .. Len(s), 1 .. Len(s)) : t = [i \in 1 .. Len(s) |-> s[p[i]]]
    BY <1>1 DEF Sorts, Permutations
<1>3. InOrder(t)
    BY DEF Sorts
<1>4. p \in [1 .. Len(s) -> 1 .. Len(s)]
    BY DEF Bijection, Injection
<1>5. \A i \in 1 .. Len(s) : s[p[i]] \in Keys
    BY <1>1, <1>4
<1>6. t \in [1 .. Len(s) -> Keys]
    BY <1>2, <1>5
<1>7. t \in Seq(Keys) /\ Len(t) = Len(s)
    BY <1>1, <1>6
<1> QED
    BY <1>2, <1>3, <1>7

(* No injection maps more indices to fewer. *)
LEMMA TooMany ==
    ASSUME NEW n \in Nat, NEW p \in Bijection(1 .. n, 1 .. n),
           NEW a \in 1 .. n, NEW b \in 1 .. n, NEW c \in Int, NEW d \in Int,
           a <= b, d - c < b - a,
           \A i \in a .. b : p[i] \in c .. d
    PROVE  FALSE
<1>1. IsFiniteSet(a .. b) /\ Cardinality(a .. b) = b - a + 1
    BY FS_Interval
<1>2. IsFiniteSet(c .. d) /\ Cardinality(c .. d) = IF c > d THEN 0 ELSE d - c + 1
    BY FS_Interval
<1>3. Cardinality(c .. d) < Cardinality(a .. b)
    BY <1>1, <1>2
<1> DEFINE q == [i \in a .. b |-> p[i]]
<1>4. q \in [a .. b -> c .. d]
    OBVIOUS
<1>5. \A i \in a .. b : q[i] = p[i] /\ i \in 1 .. n
    OBVIOUS
<1> HIDE DEF q
<1>6. PICK i, j \in a .. b : i # j /\ q[i] = q[j]
    BY <1>1, <1>2, <1>3, <1>4, FS_PigeonHole
<1>7. \A x, y \in 1 .. n : p[x] = p[y] => x = y
    BY DEF Bijection, Injection, IsInjective
<1> QED
    BY <1>5, <1>6, <1>7

(* Sorting an array that is in order changes nothing: an entry that came out  *)
(* smaller, or larger, would leave too many entries for too few places.       *)
LEMMA OrderedStays ==
    ASSUME NEW s \in Seq(Keys), InOrder(s), NEW t \in Sorts(s)
    PROVE  t = s
<1> DEFINE n == Len(s)
<1>1. n \in Nat /\ DOMAIN s = 1 .. n /\ \A i \in 1 .. n : s[i] \in Int
  <2>1. DOMAIN s = 1 .. n /\ n \in Nat /\ \A i \in 1 .. n : s[i] \in Keys
    OBVIOUS
  <2>2. Keys \subseteq Int
    BY IndexBounds
  <2> QED
    BY <2>1, <2>2
<1>2. PICK p \in Bijection(1 .. n, 1 .. n) : t = [i \in 1 .. n |-> s[p[i]]]
    BY SortsPermutes
<1>3. p \in [1 .. n -> 1 .. n]
    BY DEF Bijection, Injection
<1>4. t \in Seq(Keys) /\ Len(t) = n /\ InOrder(t)
    BY SortsPermutes
<1>5. DOMAIN t = 1 .. n /\ \A i \in 1 .. n : t[i] \in Int /\ t[i] = s[p[i]] /\ p[i] \in 1 .. n
    BY <1>1, <1>2, <1>3
<1>6. \A i, j \in 1 .. n : i <= j => s[i] <= s[j] /\ t[i] <= t[j]
  <2> TAKE i, j \in 1 .. n
  <2> HAVE i <= j
  <2>1. CASE i = j
    BY <1>1, <1>5, <2>1
  <2>2. CASE i < j
    BY <1>1, <1>4, <1>5, <2>2 DEF InOrder
  <2> QED
    BY <2>1, <2>2, <1>1
<1> HIDE DEF n
<1>7. ASSUME NEW i \in 1 .. n PROVE t[i] = s[i]
  <2>1. CASE t[i] < s[i]
    <3>1. ASSUME NEW j \in 1 .. i PROVE p[j] \in 1 .. i - 1
      <4>1. j \in 1 .. n /\ j <= i
        BY <1>1
      <4>2. s[p[j]] < s[i] /\ p[j] \in 1 .. n
        BY <1>1, <1>5, <1>6, <2>1, <4>1
      <4>3. ~(i <= p[j])
        BY <1>1, <1>6, <4>2
      <4> QED
        BY <1>1, <4>2, <4>3
    <3>2. /\ 1 \in 1 .. n /\ 1 \in Int /\ i - 1 \in Int /\ 1 <= i
          /\ (i - 1) - 1 < i - 1
      BY <1>1
    <3>3. \A j \in 1 .. i : p[j] \in 1 .. i - 1
      BY <3>1
    <3> QED
      BY <1>1, <3>2, <3>3, TooMany, Zenon
  <2>2. CASE t[i] > s[i]
    <3>1. ASSUME NEW j \in i .. n PROVE p[j] \in i + 1 .. n
      <4>1. j \in 1 .. n /\ i <= j
        BY <1>1
      <4>2. s[p[j]] > s[i] /\ p[j] \in 1 .. n
        BY <1>1, <1>5, <1>6, <2>2, <4>1
      <4>3. ~(p[j] <= i)
        BY <1>1, <1>6, <4>2
      <4> QED
        BY <1>1, <4>2, <4>3
    <3>2. /\ n \in 1 .. n /\ i + 1 \in Int /\ n \in Int /\ i <= n
          /\ n - (i + 1) < n - i
      BY <1>1
    <3> QED
      BY <1>1, <3>1, <3>2, TooMany
  <2> QED
    BY <1>1, <1>5, <2>1, <2>2
<1>8. s = [i \in 1 .. n |-> s[i]] /\ t = [i \in 1 .. n |-> t[i]]
    BY <1>1, <1>4, <1>5
<1> QED
    BY <1>7, <1>8

-----------------------------------------------------------------------------
LEMMA InitInv == Init => IndInv
<1> SUFFICES ASSUME Init PROVE IndInv
    OBVIOUS
<1> USE IndexBounds
<1>1. arr \in Seq(Keys) /\ Len(arr) <= MaxSize
  <2>1. CASE Parsed
    <3>1. PICK n \in 0 .. MaxSize : arr \in [1 .. n -> Keys]
      BY <2>1 DEF Init, Entries
    <3> QED
      BY <3>1
  <2>2. CASE ~Parsed
    BY <2>2 DEF Init
  <2> QED
    BY <2>1, <2>2
<1>2. PICK k \in Strings : search = Done(k)
    BY DEF Init
<1>3. TypeOK
  <2>1. messy \in BOOLEAN /\ stopped \in BOOLEAN
    BY DEF Init
  <2>2. Len(arr) \in Nat
    BY <1>1
  <2>3. search \in [active : BOOLEAN, key : Strings, low : 0 .. Len(arr), high : 0 .. Len(arr)]
    BY <1>2, <2>2 DEF Done
  <2>4. answer \in 0 .. Len(arr) /\ borrowed \subseteq [slot : Slots, key : Strings]
    BY <2>2 DEF Init
  <2> QED
    BY <1>1, <2>1, <2>3, <2>4 DEF TypeOK
<1>4. ~search.active
    BY <1>2 DEF Done
<1> QED
    BY <1>3, <1>4 DEF Init, IndInv, SearchOnTrack, BorrowedKeepKey, StopsOnlyAtOddKeys

(* A put appends; whoever held pointers has lost them. *)
LEMMA PutInv ==
    ASSUME IndInv, NEW k \in Strings, Put(k)
    PROVE  IndInv'
<1> USE DEF IndInv
<1>1. arr \in Seq(Keys) /\ Len(arr) \in Nat
    BY DEF TypeOK
<1>2. arr' \in Seq(Keys) /\ Len(arr') = Len(arr) + 1
  <2>1. k \in Keys
    BY IndexBounds
  <2> QED
    BY <1>1, <2>1 DEF Put
<1>3. /\ borrowed' = {} /\ search' = search /\ answer' = answer /\ ~search.active
      /\ stopped' = stopped /\ ~stopped
    BY DEF Put, Idle
<1>4. messy' = messy
  <2>1. messy \in BOOLEAN
    BY DEF TypeOK
  <2> QED
    BY <2>1 DEF Put
<1>5. Len(arr') <= MaxSize
  <2>1. Len(arr) < MaxSize /\ MaxSize \in Nat
    BY IndexBounds DEF Put
  <2> QED
    BY <1>1, <1>2, <2>1
<1>6. TypeOK'
  <2>1. answer' \in 0 .. Len(arr')
    BY <1>1, <1>2, <1>3 DEF TypeOK
  <2>2. search' \in [active : BOOLEAN, key : Strings, low : 0 .. Len(arr'), high : 0 .. Len(arr')]
    <3>1. 0 .. Len(arr) \subseteq 0 .. Len(arr')
      BY <1>1, <1>2
    <3> QED
      BY <1>3, <3>1 DEF TypeOK
  <2> QED
    BY <1>2, <1>3, <1>4, <1>5, <2>1, <2>2 DEF TypeOK
<1> QED
    BY <1>3, <1>4, <1>6 DEF SearchOnTrack, BorrowedKeepKey, StopsOnlyAtOddKeys

(* A lookup begins: the entries are sorted if need be, which moves nothing    *)
(* that is in order already.                                                  *)
LEMMA GetInv ==
    ASSUME IndInv, NEW k \in Strings, Get(k)
    PROVE  IndInv'
<1> USE DEF IndInv
<1>1. arr \in Seq(Keys) /\ Len(arr) \in Nat
    BY DEF TypeOK
<1>2. /\ arr' \in Seq(Keys) /\ Len(arr') = Len(arr)
      /\ messy => InOrder(arr')
  <2>1. CASE messy
    BY <2>1, <1>1, SortsPermutes DEF Get
  <2>2. CASE ~messy
    BY <2>2, <1>1 DEF Get
  <2> QED
    BY <2>1, <2>2
<1>3. borrowed # {} => arr' = arr
  <2>1. CASE messy
    BY <2>1, <1>1, OrderedStays DEF Get
  <2>2. CASE ~messy
    BY <2>2 DEF Get
  <2> QED
    BY <2>1, <2>2
<1>4. /\ search' = [active |-> TRUE, key |-> k, low |-> 0, high |-> Len(arr)]
      /\ messy' = messy /\ answer' = answer /\ borrowed' = borrowed
      /\ stopped' = stopped /\ ~stopped
    BY DEF Get, Idle, SearchOver
<1>5. TypeOK'
  <2>1. search' \in [active : BOOLEAN, key : Strings, low : 0 .. Len(arr'), high : 0 .. Len(arr')]
    <3>1. 0 \in 0 .. Len(arr') /\ Len(arr) \in 0 .. Len(arr')
      BY <1>1, <1>2
    <3> QED
      BY <1>4, <3>1
  <2>2. answer' \in 0 .. Len(arr') /\ borrowed' \subseteq [slot : 1 .. Len(arr'), key : Strings]
    BY <1>2, <1>4 DEF TypeOK, Slots
  <2>3. Len(arr') <= MaxSize /\ messy' \in BOOLEAN /\ stopped' \in BOOLEAN
    BY <1>2, <1>4 DEF TypeOK
  <2> QED
    BY <1>2, <2>1, <2>2, <2>3 DEF TypeOK, Slots
<1>6. SearchOnTrack'
  <2> SUFFICES ASSUME messy', search'.active
               PROVE  /\ InOrder(arr')
                      /\ Present(search.key)' =>
                           \E i \in (search'.low + 1) .. search'.high : arr'[i] = search'.key
    BY DEF SearchOnTrack
  <2>1. InOrder(arr')
    BY <1>2, <1>4
  <2>2. search'.low + 1 = 1 /\ search'.high = Len(arr')
    BY <1>2, <1>4
  <2> QED
    BY <2>1, <2>2 DEF Present, Slots
<1>7. BorrowedKeepKey'
    BY <1>3, <1>4 DEF BorrowedKeepKey
<1>8. messy' /\ borrowed' # {} => InOrder(arr')
    BY <1>2, <1>4
<1> QED
    BY <1>4, <1>5, <1>6, <1>7, <1>8 DEF StopsOnlyAtOddKeys

(* The middle lies in the part that is left. *)
LEMMA MiddleInside ==
    ASSUME TypeOK, search.low < search.high
    PROVE  /\ Middle \in search.low + 1 .. search.high
           /\ Middle \in 1 .. Len(arr)
<1>1. /\ search.low \in Nat /\ search.high \in Nat
      /\ search.high <= Len(arr) /\ Len(arr) \in Nat
    BY DEF TypeOK
<1>2. /\ search.low <= (search.low + search.high) \div 2
      /\ (search.low + search.high) \div 2 < search.high
      /\ (search.low + search.high) \div 2 \in Nat
    BY <1>1
<1> QED
    BY <1>1, <1>2 DEF Middle

(* A round of the search keeps the key, if it is there, in the part that is   *)
(* left; an answer denotes an entry of that key.                              *)
LEMMA ProbeInv ==
    ASSUME IndInv, Probe
    PROVE  IndInv'
<1> USE DEF IndInv
<1>1. /\ search.active /\ search.low < search.high
      /\ arr' = arr /\ messy' = messy /\ stopped' = stopped /\ ~stopped
      /\ arr \in Seq(Keys) /\ Len(arr) \in Nat
      /\ search \in [active : BOOLEAN, key : Strings, low : 0 .. Len(arr), high : 0 .. Len(arr)]
    BY DEF Probe, Probing, TypeOK
<1>2. /\ Middle \in search.low + 1 .. search.high /\ Middle \in 1 .. Len(arr)
      /\ search.low \in Nat /\ search.high \in Nat /\ Middle \in Nat
    BY <1>1, MiddleInside
<1>3. search.key \in Int /\ \A i \in 1 .. Len(arr) : arr[i] \in Int
  <2>1. search.key \in Strings /\ \A i \in 1 .. Len(arr) : arr[i] \in Keys
    BY <1>1
  <2> QED
    BY <2>1, IndexBounds
<1>4. CASE search.key = arr[Middle] /\ Answer(Middle)
  <2>1. /\ search' = Done(search.key) /\ answer' = Middle
        /\ borrowed' = borrowed \cup {[slot |-> Middle, key |-> search.key]}
    BY <1>2, <1>4 DEF Answer
  <2>2. TypeOK'
    BY <1>1, <1>2, <2>1 DEF TypeOK, Done, Slots
  <2>3. ~search'.active
    BY <2>1 DEF Done
  <2>4. messy => InOrder(arr)
    BY <1>1 DEF SearchOnTrack
  <2>5. BorrowedKeepKey'
    BY <1>1, <1>4, <2>1 DEF BorrowedKeepKey
  <2> QED
    BY <1>1, <2>2, <2>3, <2>4, <2>5 DEF SearchOnTrack, StopsOnlyAtOddKeys
<1>5. CASE search.key < arr[Middle] /\ Narrow(search.low, Middle - 1)
  <2>1. /\ search' = [search EXCEPT !.low = search.low, !.high = Middle - 1]
        /\ answer' = answer /\ borrowed' = borrowed
    BY <1>5 DEF Narrow
  <2>2. /\ search'.active = search.active /\ search'.key = search.key
        /\ search'.low = search.low /\ search'.high = Middle - 1
    BY <1>1, <2>1
  <2>3. TypeOK'
    <3>1. Middle - 1 \in 0 .. Len(arr)
      BY <1>1, <1>2
    <3>2. search' \in [active : BOOLEAN, key : Strings, low : 0 .. Len(arr), high : 0 .. Len(arr)]
      BY <1>1, <2>1, <3>1
    <3>3. Slots' = Slots
      BY <1>1 DEF Slots
    <3> QED
      BY <1>1, <2>1, <3>2, <3>3 DEF TypeOK
  <2>4. SearchOnTrack'
    <3> SUFFICES ASSUME messy, Present(search.key)
                 PROVE  /\ InOrder(arr)
                        /\ \E i \in (search.low + 1) .. (Middle - 1) : arr[i] = search.key
      BY <1>1, <2>2 DEF SearchOnTrack, Present, Slots
    <3>1. InOrder(arr)
      BY <1>1 DEF SearchOnTrack
    <3>2. PICK i \in (search.low + 1) .. search.high : arr[i] = search.key
      BY <1>1 DEF SearchOnTrack
    <3>3. i \in 1 .. Len(arr)
      BY <1>1, <1>2
    <3>4. ~(Middle <= i)
      <4>1. Middle < i => arr[Middle] <= arr[i]
        BY <1>1, <1>2, <3>1, <3>3 DEF InOrder
      <4> QED
        BY <1>2, <1>3, <1>5, <3>2, <3>3, <4>1
    <3>5. i \in (search.low + 1) .. (Middle - 1)
      BY <1>2, <3>3, <3>4
    <3> QED
      BY <3>1, <3>2, <3>5
  <2>5. BorrowedKeepKey'
    BY <1>1, <2>1 DEF BorrowedKeepKey
  <2> QED
    BY <1>1, <2>1, <2>3, <2>4, <2>5 DEF StopsOnlyAtOddKeys
<1>6. CASE search.key > arr[Middle] /\ Narrow(Middle, search.high)
  <2>1. /\ search' = [search EXCEPT !.low = Middle, !.high = search.high]
        /\ answer' = answer /\ borrowed' = borrowed
    BY <1>6 DEF Narrow
  <2>2. /\ search'.active = search.active /\ search'.key = search.key
        /\ search'.low = Middle /\ search'.high = search.high
    BY <1>1, <2>1
  <2>3. TypeOK'
    <3>1. Middle \in 0 .. Len(arr)
      BY <1>1, <1>2
    <3>2. search' \in [active : BOOLEAN, key : Strings, low : 0 .. Len(arr), high : 0 .. Len(arr)]
      BY <1>1, <2>1, <3>1
    <3>3. Slots' = Slots
      BY <1>1 DEF Slots
    <3> QED
      BY <1>1, <2>1, <3>2, <3>3 DEF TypeOK
  <2>4. SearchOnTrack'
    <3> SUFFICES ASSUME messy, Present(search.key)
                 PROVE  /\ InOrder(arr)
                        /\ \E i \in (Middle + 1) .. search.high : arr[i] = search.key
      BY <1>1, <2>2 DEF SearchOnTrack, Present, Slots
    <3>1. InOrder(arr)
      BY <1>1 DEF SearchOnTrack
    <3>2. PICK i \in (search.low + 1) .. search.high : arr[i] = search.key
      BY <1>1 DEF SearchOnTrack
    <3>3. i \in 1 .. Len(arr)
      BY <1>1, <1>2
    <3>4. ~(i <= Middle)
      <4>1. i < Middle => arr[i] <= arr[Middle]
        BY <1>1, <1>2, <3>1, <3>3 DEF InOrder
      <4> QED
        BY <1>2, <1>3, <1>6, <3>2, <3>3, <4>1
    <3>5. i \in (Middle + 1) .. search.high
      BY <1>2, <3>3, <3>4
    <3> QED
      BY <3>1, <3>2, <3>5
  <2>5. BorrowedKeepKey'
    BY <1>1, <2>1 DEF BorrowedKeepKey
  <2> QED
    BY <1>1, <2>1, <2>3, <2>4, <2>5 DEF StopsOnlyAtOddKeys
<1> QED
    BY <1>4, <1>5, <1>6 DEF Probe

LEMMA NotFoundInv ==
    ASSUME IndInv, NotFound
    PROVE  IndInv'
<1> USE DEF IndInv
<1>1. /\ search' = Done(search.key) /\ answer' = 0 /\ borrowed' = borrowed
      /\ arr' = arr /\ messy' = messy /\ stopped' = stopped /\ ~stopped
    BY DEF NotFound, Answer
<1>2. search.key \in Strings /\ Len(arr) \in Nat
    BY DEF TypeOK
<1>3. TypeOK'
    BY <1>1, <1>2 DEF TypeOK, Done, Slots
<1>4. ~search'.active
    BY <1>1 DEF Done
<1> QED
    BY <1>1, <1>3, <1>4 DEF SearchOnTrack, BorrowedKeepKey, StopsOnlyAtOddKeys

(* What stops the program is the probe of a key that is no string.            *)
LEMMA StopInv ==
    ASSUME IndInv, ProbeStops
    PROVE  IndInv'
<1>1. /\ stopped' = TRUE /\ UNCHANGED <<arr, messy, search, answer, borrowed>>
      /\ search.low < search.high /\ arr[Middle] \notin Strings
    BY DEF ProbeStops, Probing, Stop
<1>2. Middle \in Slots
    BY <1>1, MiddleInside DEF IndInv, Slots
<1>3. TypeOK' /\ SearchOnTrack' /\ BorrowedKeepKey'
    BY <1>1 DEF IndInv, TypeOK, SearchOnTrack, BorrowedKeepKey, Slots, Present
<1>4. StopsOnlyAtOddKeys'
    BY <1>1, <1>2 DEF StopsOnlyAtOddKeys, Slots
<1> QED
    BY <1>1, <1>3, <1>4 DEF IndInv

-----------------------------------------------------------------------------
(* Puts and lookups, in any order, keep the invariant. *)
THEOREM IndexInvariance == Spec => []IndInv
<1>1. ASSUME IndInv, [Next]_vars PROVE IndInv'
  <2>1. CASE Next
    BY <1>1, <2>1, PutInv, GetInv, ProbeInv, NotFoundInv, StopInv DEF Next
  <2>2. CASE UNCHANGED vars
    BY <1>1, <2>2
    DEF vars, IndInv, TypeOK, Slots, SearchOnTrack, Present, BorrowedKeepKey, StopsOnlyAtOddKeys
  <2> QED
    BY <1>1, <2>1, <2>2
<1> QED
    BY <1>1, InitInv, PTL DEF Spec

(* The positions of the search and the pointers are positions of entries. *)
THEOREM IndexTypes == Spec => []TypeOK
<1>1. IndInv => TypeOK
    BY DEF IndInv
<1> QED
    BY <1>1, IndexInvariance, PTL

(* A pointer handed out by nson_obj_get denotes an entry of that key until    *)
(* the next put, whatever is looked up in between.                            *)
THEOREM PointersKeepKeys == Spec => []BorrowedKeepKey
<1>1. IndInv => BorrowedKeepKey
    BY DEF IndInv
<1> QED
    BY <1>1, IndexInvariance, PTL

(* While an object that is kept sorted on demand is searched, the search      *)
(* never leaves a key behind that is there.                                   *)
THEOREM SearchKeepsKey == Spec => []SearchOnTrack
<1>1. IndInv => SearchOnTrack
    BY DEF IndInv
<1> QED
    BY <1>1, IndexInvariance, PTL

(* Puts and lookups stop the program only if a key is no string: search_key   *)
(* has no other assertion to fail, whatever is put and looked up.             *)
THEOREM StringKeysStopNothing == Spec => []StopsOnlyAtOddKeys
<1>1. IndInv => StopsOnlyAtOddKeys
    BY DEF IndInv
<1> QED
    BY <1>1, IndexInvariance, PTL

(* A lookup in an object from a parser, if it comes back, answers NULL for    *)
(* exactly the keys that are not there.                                       *)
THEOREM LookupsAreExact == ASSUME Parsed PROVE Spec => GetFindsKey
<1>1. ASSUME IndInv, [Next]_vars, search.active, ~search'.active
      PROVE  answer' = 0 <=> ~Present(search.key)
  <2>0. messy /\ TypeOK
    BY <1>1 DEF IndInv
  <2>1. /\ ~(\E k \in Strings : Get(k) \/ Put(k)) /\ ~UNCHANGED vars
        /\ ~ProbeStops
    BY <1>1 DEF Get, Put, vars, Idle, ProbeStops, Stop
  <2>2. CASE Probe
    <3>1. search.low < search.high /\ search.key = arr[Middle] /\ Answer(Middle)
      <4>1. search \in [active : BOOLEAN, key : Strings, low : 0 .. Len(arr), high : 0 .. Len(arr)]
        BY <2>0 DEF TypeOK
      <4> QED
        BY <1>1, <2>2, <4>1 DEF Probe, Probing, Narrow
    <3>2. Middle \in 1 .. Len(arr)
      BY <2>0, <3>1, MiddleInside
    <3>3. answer' = Middle /\ Middle # 0
      BY <3>1, <3>2 DEF Answer
    <3> QED
      BY <3>1, <3>2, <3>3 DEF Present, Slots
  <2>3. CASE NotFound
    <3>1. answer' = 0 /\ search.low >= search.high
      BY <2>3 DEF NotFound, Answer
    <3>2. search.low \in Nat /\ search.high \in Nat
      BY <2>0 DEF TypeOK
    <3>3. ~\E i \in search.low + 1 .. search.high : arr[i] = search.key
      BY <3>1, <3>2
    <3> QED
      BY <1>1, <2>0, <3>1, <3>3 DEF IndInv, SearchOnTrack
  <2> QED
    BY <1>1, <2>1, <2>2, <2>3 DEF Next
<1>2. ASSUME IndInv, [Next]_vars
      PROVE  [search.active /\ ~search'.active => (answer' = 0 <=> ~Present(search.key))]_vars
    BY <1>1, <1>2
<1> QED
    BY <1>2, IndexInvariance, PTL DEF Spec, GetFindsKey
=============================================================================
