---------------------------- MODULE ObjectIndex ----------------------------
(***************************************************************************)
(* Looking up a key in an object: src/object.c.                            *)
(*                                                                         *)
(* An object is an array of entries.  Appending does not keep the array in *)
(* order; an object marked messy is sorted before each search, any other   *)
(* is searched as it is.  nson_obj_get hands out a pointer into the array. *)
(*                                                                         *)
(* An entry is modelled by its key.  The parsers make objects whose keys    *)
(* need not be strings: a lookup that comes across another one stops the   *)
(* program.  qsort and bsearch are the C library's: qsort leaves an        *)
(* ordered permutation of the entries (the order of equal keys, which      *)
(* obj_sort takes from their addresses, is not modelled), bsearch is the   *)
(* usual halving of a range.  Allocations do not fail here.                *)
(***************************************************************************)
EXTENDS Integers, Sequences, Functions

CONSTANTS
    Keys,       \* the keys of entries, integers ordered as nson_cmp orders them
    Strings,    \* those that are strings, ordered as strcmp orders them, too
    MaxSize,    \* bound on the entries of the object
    Parsed      \* TRUE: the object comes from nson_obj_from_arr, as the parsers
                \* make one; FALSE: from nson_init(object, NSON_OBJ)

ASSUME IndexBounds ==
    /\ Keys \subseteq Int /\ Strings \subseteq Keys
    /\ MaxSize \in Nat /\ Parsed \in BOOLEAN

VARIABLES
    arr,        \* o.arr, o.len: the keys of the entries
    messy,      \* o.messy
    search,     \* the running call of nson_obj_get: [active, key, low, high];
                \* the key may be in the entries low + 1 .. high
    answer,     \* what the last nson_obj_get returned: a slot, 0 for NULL
    borrowed,   \* ghost: the entries callers hold pointers to, as [slot, key]
    stopped     \* whether a failed assertion stopped the program

vars == <<arr, messy, search, answer, borrowed, stopped>>

Slots == 1 .. Len(arr)

InOrder(s) == \A i, j \in DOMAIN s : i < j => s[i] <= s[j]

Permutations(s) == {[i \in DOMAIN s |-> s[p[i]]] : p \in Bijection(DOMAIN s, DOMAIN s)}

SortsBackwards(s) == {t \in Permutations(s) : \A i, j \in DOMAIN t : i < j => t[i] >= t[j]}

SortsByType(s) ==
    {t \in Permutations(s) : \A i, j \in DOMAIN t : i < j /\ t[j] \in Strings => t[i] \in Strings}

(* The outcomes of obj_sort on the entries s. *)
Sorts(s) == {t \in Permutations(s) : InOrder(t)}

Present(k) == \E i \in Slots : arr[i] = k

(* search when nson_obj_get(key) has returned. *)
Done(k) == [active |-> FALSE, key |-> k, low |-> 0, high |-> 0]

-----------------------------------------------------------------------------
Entries == UNION {[1 .. n -> Keys] : n \in 0 .. MaxSize}

Init == /\ arr \in IF Parsed THEN Entries ELSE {<<>>}
        /\ messy = Parsed
        /\ search \in {Done(k) : k \in Strings}
        /\ answer = 0
        /\ borrowed = {}
        /\ stopped = FALSE

Idle == ~search.active /\ ~stopped

Stop == stopped' = TRUE /\ UNCHANGED <<arr, messy, search, answer, borrowed>>

(* nson_obj_put.  The block is reallocated: pointers into it are lost.  The   *)
(* test that is to mark the object messy compares the new key with the last   *)
(* one, and reads the mark it is about to set.                                *)
PutUnguarded(k) ==
    /\ Idle /\ Len(arr) < MaxSize
    /\ IF messy /\ arr = <<>>
       THEN Stop
       ELSE /\ arr' = Append(arr, k)
            /\ borrowed' = {}
            /\ UNCHANGED <<messy, search, answer, stopped>>

Put(k) ==
    /\ Idle /\ Len(arr) < MaxSize
    /\ arr' = Append(arr, k)
    /\ messy' = IF messy /\ arr # <<>> /\ arr[Len(arr)] > k THEN TRUE ELSE messy
    /\ borrowed' = {}
    /\ UNCHANGED <<search, answer, stopped>>

(* obj_search: sort if messy, then search the whole array. *)
SearchOver(k, high) ==
    /\ search' = [active |-> TRUE, key |-> k, low |-> 0, high |-> high]
    /\ UNCHANGED <<messy, answer, borrowed, stopped>>

GetWithoutSorting(k) == Idle /\ SearchOver(k, Len(arr)) /\ UNCHANGED arr

Get(k) ==
    /\ Idle
    /\ arr' \in IF messy THEN Sorts(arr) ELSE {arr}
    /\ SearchOver(k, Len(arr))

Middle == (search.low + search.high) \div 2 + 1

Answer(slot) ==
    /\ answer' = slot
    /\ search' = Done(search.key)
    /\ borrowed' = IF slot = 0 THEN borrowed
                   ELSE borrowed \cup {[slot |-> slot, key |-> search.key]}

(* One round of bsearch: it ends at an equal key and goes on below or above   *)
(* the middle one otherwise.                                                  *)
Narrow(low, high) ==
    /\ search' = [search EXCEPT !.low = low, !.high = high]
    /\ UNCHANGED <<answer, borrowed>>

Probing == search.active /\ ~stopped /\ search.low < search.high

Probe ==
    /\ Probing /\ arr[Middle] \in Strings
    /\ \/ search.key = arr[Middle] /\ Answer(Middle)
       \/ search.key < arr[Middle] /\ Narrow(search.low, Middle - 1)
       \/ search.key > arr[Middle] /\ Narrow(Middle, search.high)
    /\ UNCHANGED <<arr, messy, stopped>>

(* search_key: nson_str asserts that the key is a string.                     *)
ProbeStops == Probing /\ arr[Middle] \notin Strings /\ Stop

NotFound ==
    /\ search.active /\ ~stopped /\ search.low >= search.high
    /\ Answer(0)
    /\ UNCHANGED <<arr, messy, stopped>>

Next == \/ \E k \in Strings : Get(k) \/ Put(k)
        \/ Probe \/ ProbeStops \/ NotFound

Spec == Init /\ [][Next]_vars

-----------------------------------------------------------------------------
TypeOK ==
    /\ arr \in Seq(Keys) /\ Len(arr) <= MaxSize
    /\ messy \in BOOLEAN
    /\ search \in [active : BOOLEAN, key : Strings, low : 0 .. Len(arr), high : 0 .. Len(arr)]
    /\ answer \in 0 .. Len(arr)
    /\ borrowed \subseteq [slot : Slots, key : Strings]
    /\ stopped \in BOOLEAN

(* A lookup finds exactly the keys that are there: while one runs over an     *)
(* object that is kept sorted on demand, a key the array holds is in the part *)
(* bsearch has left.  With that the call answers NULL for absent keys only.   *)
SearchOnTrack ==
    messy /\ search.active =>
        /\ InOrder(arr)
        /\ Present(search.key) =>
             \E i \in search.low + 1 .. search.high : arr[i] = search.key

(* nson_obj_get returns NULL only if no entry has the key, whether the object *)
(* was parsed or put together: test/data.c:144, "before getting, the object   *)
(* will be sorted".                                                           *)
GetFindsKey ==
    [][search.active /\ ~search'.active => (answer' = 0 <=> ~Present(search.key))]_vars

(* A pointer handed out by nson_obj_get keeps denoting an entry of that key   *)
(* until the next put, however many other keys are looked up meanwhile: the   *)
(* searches that sort the array again do not move it to another key.          *)
BorrowedKeepKey == \A p \in borrowed : arr[p.slot] = p.key

(* Puts and lookups stop the program only if the object came from a parser    *)
(* with a key that is no string: as long as all keys are strings, nothing is  *)
(* compared that is not there.                                                *)
StopsOnlyAtOddKeys == stopped => \E i \in Slots : arr[i] \notin Strings

(* The invariant of the proofs: the mark stays as it was made, and pointers   *)
(* into an object that is sorted on demand were taken when it was in order.   *)
IndInv ==
    /\ TypeOK
    /\ messy = Parsed
    /\ SearchOnTrack
    /\ messy /\ borrowed # {} => InOrder(arr)
    /\ BorrowedKeepKey
    /\ StopsOnlyAtOddKeys
=============================================================================
