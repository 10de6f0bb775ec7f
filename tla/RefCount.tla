------------------------------ MODULE RefCount ------------------------------
(***************************************************************************)
(* The reference counts of NSON: NsonBuf (src/buf.c) behind strings and    *)
(* blobs, NsonPointerRef (src/pointer.c) behind pointers.  Both are a heap *)
(* cell with a plain `unsigned count' that __nson_*_retain increments and  *)
(* __nson_*_release decrements, freeing the cell (and calling the dtor)    *)
(* when it reads 0.                                                        *)
(*                                                                         *)
(* The Nson values of an array are slots; during nson_map_thread every     *)
(* slot belongs to one worker (module MapThread), but nothing stops two    *)
(* slots of different workers from referring to one cell.  A worker's      *)
(* mapper cleans, clones, moves, initializes and encodes its own values;   *)
(* a load and a store of a count are steps of their own, because           *)
(* `buf->count++' and `buf->count--' are.                                  *)
(*                                                                         *)
(* The library takes no lock; the README leaves that to the caller.  The   *)
(* variable `raced' remembers the cells whose count two workers ever       *)
(* changed at the same time: of these the properties say nothing, of all   *)
(* other cells, shared between workers or not, they say everything.        *)
(***************************************************************************)
EXTENDS Integers, FiniteSets

CONSTANTS
    Slots,        \* the Nson values of the array being mapped
    Cells,        \* heap cells; each is allocated at most once
    Threads,      \* the workers
    Null,
    WorkerOf,     \* WorkerOf[s]: the worker that maps slot s
    Modulus       \* an `unsigned' counts modulo this number, 2^32 in the program

ASSUME SlotsAssumption ==
    /\ IsFiniteSet(Slots) /\ IsFiniteSet(Threads)
    /\ Slots \cap Threads = {}
    /\ WorkerOf \in [Slots -> Threads]
    /\ Null \notin Cells

Places == Slots \cup Threads   \* a worker's own place is its local `dest_buf'

(* There is no room in memory for as many values as a count can tell apart.  *)
ASSUME CountsAreWide == Modulus \in Nat /\ Cardinality(Places) < Modulus

VARIABLES
    ref,     \* ref[x]: the cell place x refers to, or Null
    count,   \* count[c]: the reference count stored in cell c
    state,   \* state[c]: "unused", "live" or "freed"
    pc,      \* pc[t]: where worker t is in retain or release
    slot,    \* slot[t]: the slot worker t is changing
    cell,    \* cell[t]: the cell worker t retains or releases
    tmp,     \* tmp[t]: the count worker t has loaded
    raced    \* the cells whose count two workers were changing at once

vars == <<ref, count, state, pc, slot, cell, tmp, raced>>

Holders(c) == {x \in Places : ref[x] = c}

Init ==
    /\ ref \in [Places -> Cells \cup {Null}]
    /\ \A t \in Threads : ref[t] = Null
    /\ count = [c \in Cells |-> Cardinality(Holders(c))]
    /\ state = [c \in Cells |-> IF Holders(c) = {} THEN "unused" ELSE "live"]
    /\ pc = [t \in Threads |-> "idle"]
    /\ slot \in [Threads -> Slots]
    /\ cell = [t \in Threads |-> Null]
    /\ tmp = [t \in Threads |-> 0]
    /\ raced = {}

-----------------------------------------------------------------------------
(* __nson_buf_new and the calloc in nson_ptr_wrap: a fresh cell, count 1. *)
AllocUncounted(c) == /\ state[c] = "unused"
                     /\ state' = [state EXCEPT ![c] = "live"]
                     /\ count' = [count EXCEPT ![c] = 0]

Alloc(c) == /\ state[c] = "unused"
            /\ state' = [state EXCEPT ![c] = "live"]
            /\ count' = [count EXCEPT ![c] = 1]

(* nson_init_data, nson_init_str or nson_ptr_wrap on an empty slot. *)
InitValue(t, s, c) ==
    /\ pc[t] = "idle" /\ WorkerOf[s] = t /\ ref[s] = Null
    /\ Alloc(c)
    /\ ref' = [ref EXCEPT ![s] = c]
    /\ UNCHANGED <<pc, slot, cell, tmp, raced>>

(* nson_move: the source is zeroed, no count changes. *)
Move(t, s, d) ==
    /\ pc[t] = "idle" /\ WorkerOf[s] = t /\ WorkerOf[d] = t
    /\ ref[s] # Null /\ ref[d] = Null
    /\ ref' = [ref EXCEPT ![d] = ref[s], ![s] = Null]
    /\ UNCHANGED <<count, state, pc, slot, cell, tmp, raced>>

(* nson_clone: memcpy first, then retain. *)
CloneNoRetain(t, s, d) ==
    /\ pc[t] = "idle" /\ WorkerOf[s] = t /\ WorkerOf[d] = t
    /\ ref[s] # Null /\ ref[d] = Null
    /\ ref' = [ref EXCEPT ![d] = ref[s]]
    /\ UNCHANGED <<count, state, pc, slot, cell, tmp, raced>>

Clone(t, s, d) ==
    /\ pc[t] = "idle" /\ WorkerOf[s] = t /\ WorkerOf[d] = t
    /\ ref[s] # Null /\ ref[d] = Null
    /\ ref' = [ref EXCEPT ![d] = ref[s]]
    /\ slot' = [slot EXCEPT ![t] = d]
    /\ cell' = [cell EXCEPT ![t] = ref[s]]
    /\ pc' = [pc EXCEPT ![t] = "retain load"]
    /\ UNCHANGED <<count, state, tmp, raced>>

(* nson_clean of a string, blob or pointer calls release ... *)
Clean(t, s) ==
    /\ pc[t] = "idle" /\ WorkerOf[s] = t /\ ref[s] # Null
    /\ slot' = [slot EXCEPT ![t] = s]
    /\ cell' = [cell EXCEPT ![t] = ref[s]]
    /\ pc' = [pc EXCEPT ![t] = "release load"]
    /\ UNCHANGED <<ref, count, state, tmp, raced>>

(* ... and so do nson_mapper_b64_enc and _dec, once the text is in dest_buf. *)
Encode(t, s, c) ==
    /\ pc[t] = "idle" /\ WorkerOf[s] = t /\ ref[s] # Null
    /\ Alloc(c)
    /\ ref' = [ref EXCEPT ![t] = c]
    /\ slot' = [slot EXCEPT ![t] = s]
    /\ cell' = [cell EXCEPT ![t] = ref[s]]
    /\ pc' = [pc EXCEPT ![t] = "release load"]
    /\ UNCHANGED <<tmp, raced>>

-----------------------------------------------------------------------------
(* Between the load of a count and the last look at it.                       *)
Counting == {"retain store", "release store", "test"}

Begins(t) ==
    raced' = raced \cup {c \in {cell[t]} :
                           \E u \in Threads \ {t} : cell[u] = c /\ pc[u] \in Counting}

(* What follows an access to freed memory is undefined: no step is taken.     *)
Accessible(t) == state[cell[t]] = "live"

(* __nson_buf_retain, __nson_ptr_retain: count++. *)
RetainLoad(t) ==
    /\ pc[t] = "retain load" /\ Accessible(t)
    /\ tmp' = [tmp EXCEPT ![t] = count[cell[t]]]
    /\ pc' = [pc EXCEPT ![t] = "retain store"]
    /\ Begins(t)
    /\ UNCHANGED <<ref, count, state, slot, cell>>

RetainStore(t) ==
    /\ pc[t] = "retain store" /\ Accessible(t)
    /\ count' = [count EXCEPT ![cell[t]] = (tmp[t] + 1) % Modulus]
    /\ pc' = [pc EXCEPT ![t] = "idle"]
    /\ UNCHANGED <<ref, state, slot, cell, tmp, raced>>

(* __nson_buf_release, __nson_ptr_release: count-- ... *)
ReleaseLoad(t) ==
    /\ pc[t] = "release load" /\ Accessible(t)
    /\ tmp' = [tmp EXCEPT ![t] = count[cell[t]]]
    /\ pc' = [pc EXCEPT ![t] = "release store"]
    /\ Begins(t)
    /\ UNCHANGED <<ref, count, state, slot, cell>>

ReleaseStore(t) ==
    /\ pc[t] = "release store" /\ Accessible(t)
    /\ count' = [count EXCEPT ![cell[t]] = (tmp[t] - 1) % Modulus]
    /\ pc' = [pc EXCEPT ![t] = "test"]
    /\ UNCHANGED <<ref, state, slot, cell, tmp, raced>>

(* ... and free if the count is 0: a compiler may load it again, or use what  *)
(* it has just stored.                                                        *)
TestAndFreeAtOne(t) ==
    /\ pc[t] = "test" /\ Accessible(t)
    /\ \E n \in {count[cell[t]], (tmp[t] - 1) % Modulus} :
          state' = IF n <= 1 THEN [state EXCEPT ![cell[t]] = "freed"] ELSE state
    /\ pc' = [pc EXCEPT ![t] = "wipe"]
    /\ UNCHANGED <<ref, count, slot, cell, tmp, raced>>

TestAndFree(t) ==
    /\ pc[t] = "test" /\ Accessible(t)
    /\ \E n \in {count[cell[t]], (tmp[t] - 1) % Modulus} :
          state' = IF n = 0 THEN [state EXCEPT ![cell[t]] = "freed"] ELSE state
    /\ pc' = [pc EXCEPT ![t] = "wipe"]
    /\ UNCHANGED <<ref, count, slot, cell, tmp, raced>>

(* The memset at the end of nson_clean, or nson->d.buf = dest_buf. *)
Wipe(t) ==
    /\ pc[t] = "wipe"
    /\ ref' = [ref EXCEPT ![slot[t]] = ref[t], ![t] = Null]
    /\ pc' = [pc EXCEPT ![t] = "idle"]
    /\ UNCHANGED <<count, state, slot, cell, tmp, raced>>

-----------------------------------------------------------------------------
Step(t) ==
    \/ \E s \in Slots, c \in Cells : InitValue(t, s, c) \/ Encode(t, s, c)
    \/ \E s, d \in Slots : Move(t, s, d) \/ Clone(t, s, d)
    \/ \E s \in Slots : Clean(t, s)
    \/ RetainLoad(t) \/ RetainStore(t)
    \/ ReleaseLoad(t) \/ ReleaseStore(t) \/ TestAndFree(t) \/ Wipe(t)

Next == \E t \in Threads : Step(t)

Spec == Init /\ [][Next]_vars

-----------------------------------------------------------------------------
(* The type invariant.                                                        *)
TypeOK ==
    /\ ref \in [Places -> Cells \cup {Null}]
    /\ count \in [Cells -> 0 .. Modulus - 1]
    /\ state \in [Cells -> {"unused", "live", "freed"}]
    /\ pc \in [Threads -> {"idle", "retain load", "retain store", "release load",
                           "release store", "test", "wipe"}]
    /\ slot \in [Threads -> Slots]
    /\ cell \in [Threads -> Cells \cup {Null}]
    /\ tmp \in [Threads -> 0 .. Modulus - 1]
    /\ raced \in SUBSET Cells

(* As long as no two workers change the count of a cell at the same time, a  *)
(* worker reads or writes that count only while the cell is live, whoever    *)
(* else shares it: no use after free and no second free.                     *)
NoUseAfterFree ==
    \A t \in Threads :
        pc[t] \notin {"idle", "wipe"} /\ cell[t] \notin raced => state[cell[t]] = "live"

(* Whenever no worker is busy with such a cell its count is exact: it is     *)
(* live, and counted once for each value of any worker that refers to it, or *)
(* no value refers to it; it is neither leaked nor freed early.              *)
Busy(c) == \E t \in Threads : pc[t] # "idle" /\ cell[t] = c

CountsExact ==
    \A c \in Cells \ raced : ~Busy(c) =>
        /\ state[c] = "live" => count[c] = Cardinality(Holders(c)) /\ count[c] > 0
        /\ state[c] # "live" => Holders(c) = {}

(* Such a cell is freed only when the last value that refers to it has been  *)
(* released, all others being past their own release and only to be wiped;   *)
(* for a pointer this is when the user's dtor runs.                          *)
Released == {s \in Slots : slot[WorkerOf[s]] = s /\ pc[WorkerOf[s]] \in {"test", "wipe"}}

FreedByLastHolder ==
    [][\A c \in Cells \ raced :
          state[c] = "live" /\ state'[c] = "freed" => Holders(c) \subseteq Released]_vars

-----------------------------------------------------------------------------
(* The strengthened invariant.  A busy worker changes one of its own values,  *)
(* which refers to the cell; a clone is made of another value of the worker.  *)
WorkOf(t) ==
    /\ pc[t] \in {"idle", "retain load", "retain store"} => ref[t] = Null
    /\ pc[t] # "idle" =>
          /\ WorkerOf[slot[t]] = t
          /\ cell[t] \in Cells /\ ref[slot[t]] = cell[t] /\ ref[t] # cell[t]
    /\ pc[t] \in {"retain load", "retain store"} =>
          \E s \in Slots \ {slot[t]} : WorkerOf[s] = t /\ ref[s] = cell[t]

(* The values that are not counted, yet or any more, and those that are.      *)
Owing == {"retain load", "retain store", "test", "wipe"}
Uncounted == {s \in Slots : slot[WorkerOf[s]] = s /\ pc[WorkerOf[s]] \in Owing}
Counted(c) == Holders(c) \ Uncounted

(* One worker at a time changes the count, and what it loaded is still true.  *)
OneCounts(c) ==
    \A t \in Threads : cell[t] = c /\ pc[t] \in Counting =>
        /\ \A u \in Threads \ {t} : cell[u] = c => pc[u] \notin Counting
        /\ pc[t] \in {"retain store", "release store"} => tmp[t] = count[c]
        /\ pc[t] = "test" => (tmp[t] - 1) % Modulus = count[c]

(* A cell is live while a value is counted, and until its release is through. *)
Tested(c) == \E t \in Threads : pc[t] = "test" /\ cell[t] = c
CountOf(c) ==
    /\ state[c] = "live" <=> Counted(c) # {} \/ Tested(c)
    /\ state[c] = "live" => count[c] = Cardinality(Counted(c))

IndInv ==
    /\ TypeOK
    /\ \A t \in Threads : WorkOf(t)
    /\ \A c \in Cells : state[c] = "unused" => Holders(c) = {}
    /\ \A c \in Cells \ raced : OneCounts(c) /\ CountOf(c)

(* Nothing is shared between workers: what a map makes of an array that has   *)
(* no clones in it.                                                           *)
Owner(x) == IF x \in Slots THEN WorkerOf[x] ELSE x
Unshared == \A x, y \in Places : ref[x] = ref[y] /\ ref[x] # Null => Owner(x) = Owner(y)
=============================================================================
