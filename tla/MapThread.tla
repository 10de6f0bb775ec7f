----------------------------- MODULE MapThread -----------------------------
(***************************************************************************)
(* nson_map_thread, nson_map_thread_ext, map_thread_wrapper and nson_map   *)
(* of src/map_reduce.c: an array is mapped by several threads.  Thread t   *)
(* starts with the chunk [t * chunk_size, (t + 1) * chunk_size) and then   *)
(* takes further chunks from the shared counter `reserved', read and       *)
(* written in two steps under a mutex.  The calling thread is the worker   *)
(* with the highest id; it joins the others when its own work is done.     *)
(*                                                                         *)
(* The mapper is the caller's code: here it is a step that begins and a    *)
(* later one that ends, with an error or without.                          *)
(***************************************************************************)
EXTENDS Integers

CONSTANTS
    MaxLen,        \* bound on the length of the array
    MaxProcs,      \* bound on get_nprocs() and on settings->threads
    MaxChunk,      \* bound on settings->chunk_size given by a caller
    ChunkCap,      \* largest chunk nson_map_thread chooses, 32 in the source
    SpawnMayFail   \* may pthread_create fail (EAGAIN)?

ASSUME BoundsAssumption ==
    /\ MaxLen \in Nat
    /\ MaxProcs \in Nat \ {0}
    /\ MaxChunk \in Nat \ {0}
    /\ ChunkCap \in Nat \ {0}
    /\ SpawnMayFail \in BOOLEAN

Elements == 0 .. MaxLen - 1
Tids == 0 .. MaxProcs - 1

NoThread == MaxProcs   \* the mutex is free

VARIABLES
    len,        \* the array's length
    settings,   \* NsonThreadMapSettings: [threads, chunk_size]
    main,       \* where the calling thread is
    k,          \* its loop variable `i'
    pc,         \* pc[t]: where worker t is
    i, end,     \* the wrapper's locals: next index, end of the chunk
    lock,       \* the holder of the mutex
    reserved,   \* *thread->reserved: elements below are handed out
    mapped,     \* mapped[e]: mapper calls on element e that ended
    failed,     \* has a mapper call returned an error?
    rv          \* what the call returns

vars == <<len, settings, main, k, pc, i, end, lock, reserved, mapped, failed, rv>>
input == <<len, settings>>

threads == settings.threads
chunk_size == settings.chunk_size
Workers == 0 .. threads - 1
Owner == threads - 1            \* the id the calling thread works under

-----------------------------------------------------------------------------
(* The settings nson_map_thread picks for an array of n elements on a       *)
(* machine with p processors; p <= 1 or n <= 1 goes to nson_map instead.     *)

MaxOf(a, b) == IF a < b THEN b ELSE a
MinOf(a, b) == IF a < b THEN a ELSE b

AutoSettingsNoClamp(p, n) == [threads |-> p, chunk_size |-> MinOf(n \div p, ChunkCap)]

AutoSettingsSwapped(p, n) ==
    IF p < n THEN [threads |-> n, chunk_size |-> 1]
             ELSE [threads |-> p, chunk_size |-> MinOf(n \div p, ChunkCap)]

AutoSettings(p, n) ==
    IF p > n THEN [threads |-> n, chunk_size |-> 1]
             ELSE [threads |-> p, chunk_size |-> MinOf(n \div p, ChunkCap)]

(* The part of the array worker t is given at birth. *)
InitialChunk(t) == t * chunk_size .. t * chunk_size + chunk_size - 1

-----------------------------------------------------------------------------
Entry(n, s, m) ==
    /\ len = n
    /\ settings = s
    /\ main = m
    /\ k = 0
    /\ pc = [t \in Tids |-> "none"]
    /\ i = [t \in Tids |-> 0]
    /\ end = [t \in Tids |-> 0]
    /\ lock = NoThread
    /\ reserved = s.threads * s.chunk_size
    /\ mapped = [e \in Elements |-> 0]
    /\ failed = FALSE
    /\ rv = 0

(* nson_map_thread on a machine with p processors. *)
CallMapThread(p, n) ==
    IF p <= 1 \/ n <= 1 THEN Entry(n, [threads |-> 0, chunk_size |-> 0], "seq")
                        ELSE Entry(n, AutoSettings(p, n), "spawn")

(* nson_map_thread_ext with the settings of the caller. *)
CallMapThreadExt(th, c, n) == Entry(n, [threads |-> th, chunk_size |-> c], "spawn")

Init == \E n \in 0 .. MaxLen :
           \/ \E p \in 1 .. MaxProcs : CallMapThread(p, n)
           \/ \E th \in 1 .. MaxProcs, c \in 1 .. MaxChunk : CallMapThreadExt(th, c, n)

-----------------------------------------------------------------------------
(* The calling thread. *)

(* Entering map_thread_wrapper, as a new thread or by a plain call. *)
EnterWrapper(t) ==
    /\ pc' = [pc EXCEPT ![t] = "loop"]
    /\ i' = [i EXCEPT ![t] = t * chunk_size]
    /\ end' = [end EXCEPT ![t] = t * chunk_size + chunk_size]

(* pthread_create succeeds, or fails and nobody looks at what it returned. *)
Spawn ==
    /\ main = "spawn"
    /\ k < Owner
    /\ k' = k + 1
    /\ \/ EnterWrapper(k)
       \/ /\ SpawnMayFail
          /\ pc' = [pc EXCEPT ![k] = "lost"]
          /\ UNCHANGED <<i, end>>
    /\ UNCHANGED <<input, main, lock, reserved, mapped, failed, rv>>

(* The caller works under the last id itself, inside the loop that spawns. *)
WorkMyself ==
    /\ main = "spawn"
    /\ k = Owner
    /\ main' = "work"
    /\ EnterWrapper(k)
    /\ UNCHANGED <<input, k, lock, reserved, mapped, failed, rv>>

StartJoining ==
    /\ main = "work"
    /\ pc[Owner] = "done"
    /\ main' = "join"
    /\ k' = 0
    /\ UNCHANGED <<input, pc, i, end, lock, reserved, mapped, failed, rv>>

(* pthread_join of a thread that exists waits for its end.  The field       *)
(* `thread' of one that was never created is uninitialized: the call fails  *)
(* and goes on, or takes the process down.                                  *)
JoinNext ==
    /\ main = "join"
    /\ k < threads - 1
    /\ \/ /\ pc[k] \in {"done", "lost"}
          /\ main' = main
          /\ k' = k + 1
       \/ /\ pc[k] = "lost"
          /\ main' = "crashed"
          /\ k' = k
    /\ UNCHANGED <<input, pc, i, end, lock, reserved, mapped, failed, rv>>

JoinsDoneTooEarly == k >= threads - 2
JoinsDone == k >= threads - 1

(* pthread_mutex_destroy, and the ThreadInfo array dies with the frame. *)
ReturnFromExt ==
    /\ main = "join"
    /\ JoinsDone
    /\ main' = "returned"
    /\ UNCHANGED <<input, k, pc, i, end, lock, reserved, mapped, failed, rv>>

-----------------------------------------------------------------------------
(* A worker in map_thread_wrapper. *)

MoreInChunkButLast(t) == i[t] < end[t] - 1 /\ i[t] < len
MoreInChunk(t) == i[t] < end[t] /\ i[t] < len

CallMapper(t) ==
    /\ pc[t] = "loop"
    /\ MoreInChunk(t)
    /\ pc' = [pc EXCEPT ![t] = "call"]
    /\ UNCHANGED <<input, main, k, i, end, lock, reserved, mapped, failed, rv>>

(* The mapper's result is dropped: an error stops nobody. *)
MapperReturns(t) ==
    /\ pc[t] = "call"
    /\ pc' = [pc EXCEPT ![t] = "loop"]
    /\ mapped' = [mapped EXCEPT ![i[t]] = @ + 1]
    /\ i' = [i EXCEPT ![t] = @ + 1]
    /\ failed' \in {failed, TRUE}
    /\ UNCHANGED <<input, main, k, end, lock, reserved, rv>>

LockNoWait(t) ==
    /\ pc[t] = "loop"
    /\ ~MoreInChunk(t)
    /\ lock' = t
    /\ pc' = [pc EXCEPT ![t] = "read"]
    /\ UNCHANGED <<input, main, k, i, end, reserved, mapped, failed, rv>>

Lock(t) ==
    /\ pc[t] = "loop"
    /\ ~MoreInChunk(t)
    /\ lock = NoThread
    /\ lock' = t
    /\ pc' = [pc EXCEPT ![t] = "read"]
    /\ UNCHANGED <<input, main, k, i, end, reserved, mapped, failed, rv>>

ReadReserved(t) ==
    /\ pc[t] = "read"
    /\ i' = [i EXCEPT ![t] = reserved]
    /\ end' = [end EXCEPT ![t] = reserved + chunk_size]
    /\ pc' = [pc EXCEPT ![t] = "write"]
    /\ UNCHANGED <<input, main, k, lock, reserved, mapped, failed, rv>>

WriteReservedTwice(t) ==
    /\ pc[t] = "write"
    /\ reserved' = end[t] + chunk_size
    /\ pc' = [pc EXCEPT ![t] = "unlock"]
    /\ UNCHANGED <<input, main, k, i, end, lock, mapped, failed, rv>>

WriteReserved(t) ==
    /\ pc[t] = "write"
    /\ reserved' = end[t]
    /\ pc' = [pc EXCEPT ![t] = "unlock"]
    /\ UNCHANGED <<input, main, k, i, end, lock, mapped, failed, rv>>

(* The wrapper never stores a mapper's result: thread->rv stays 0. *)
Unlock(t) ==
    /\ pc[t] = "unlock"
    /\ lock' = NoThread
    /\ pc' = [pc EXCEPT ![t] = IF i[t] < len THEN "loop" ELSE "done"]
    /\ UNCHANGED <<input, main, k, i, end, reserved, mapped, failed, rv>>

Worker(t) == \/ CallMapper(t) \/ MapperReturns(t)
             \/ Lock(t) \/ ReadReserved(t) \/ WriteReserved(t) \/ Unlock(t)

-----------------------------------------------------------------------------
(* nson_map, which nson_map_thread falls back to on one processor or for an  *)
(* array of at most one element: one index after the other, and the first    *)
(* error ends the loop and is returned.                                      *)

SeqMore == rv >= 0 /\ k < len

SeqCall ==
    /\ main = "seq"
    /\ SeqMore
    /\ main' = "seqcall"
    /\ UNCHANGED <<input, k, pc, i, end, lock, reserved, mapped, failed, rv>>

SeqMapperReturns ==
    /\ main = "seqcall"
    /\ main' = "seq"
    /\ mapped' = [mapped EXCEPT ![k] = @ + 1]
    /\ k' = k + 1
    /\ rv' \in {0, -1}
    /\ failed' = (failed \/ rv' < 0)
    /\ UNCHANGED <<input, pc, i, end, lock, reserved>>

SeqReturn ==
    /\ main = "seq"
    /\ ~SeqMore
    /\ main' = "returned"
    /\ UNCHANGED <<input, k, pc, i, end, lock, reserved, mapped, failed, rv>>

-----------------------------------------------------------------------------
MainThread == \/ Spawn \/ WorkMyself \/ StartJoining \/ JoinNext \/ ReturnFromExt
              \/ SeqCall \/ SeqMapperReturns \/ SeqReturn

(* The call is over: nothing is left to do. *)
Over == /\ main \in {"returned", "crashed"}
        /\ UNCHANGED vars

Next == MainThread \/ Over \/ \E t \in Tids : main # "crashed" /\ Worker(t)

Spec == Init /\ [][Next]_vars

(* Threads are scheduled and mappers end; a thread that waits for the mutex   *)
(* need not be served before the others (weak fairness of Lock only).        *)
Fairness == /\ WF_vars(MainThread)
            /\ \A t \in Tids : WF_vars(main # "crashed" /\ Worker(t))

FairSpec == Spec /\ Fairness

-----------------------------------------------------------------------------
TypeOK ==
    /\ len \in 0 .. MaxLen
    /\ settings \in [threads : 0 .. MaxProcs, chunk_size : Nat]
    /\ main \in {"seq", "seqcall", "spawn", "work", "join", "returned", "crashed"}
    /\ k \in Nat
    /\ pc \in [Tids -> {"none", "loop", "call", "read", "write", "unlock", "done", "lost"}]
    /\ i \in [Tids -> Nat]
    /\ end \in [Tids -> Nat]
    /\ lock \in Tids \cup {NoThread}
    /\ reserved \in Nat
    /\ mapped \in [Elements -> Nat]
    /\ failed \in BOOLEAN
    /\ rv \in {0, -1}

(* The elements some mapper is working on right now, and who does. *)
InCall(t, e) == pc[t] = "call" /\ i[t] = e

(* No element is handed to the mapper twice, by two threads at once or one   *)
(* after the other, whatever the order in which chunks are taken from        *)
(* `reserved': a mapper is free to replace its element without a lock.       *)
NoElementTwice ==
    /\ \A e \in Elements : mapped[e] <= 1
    /\ \A t \in Tids, e \in Elements :
          InCall(t, e) => mapped[e] = 0 /\ \A u \in Tids : InCall(u, e) => u = t

(* When nson_map_thread_ext returns, no worker will ever touch its stack     *)
(* frame again: the mutex, `reserved' and the ThreadInfo array live there.   *)
NoneLeftRunning ==
    main = "returned" => \A t \in Tids : pc[t] \in {"none", "done", "lost"}

(* nson_map_thread returned 0: every element was mapped.  This is what       *)
(* test/map_reduce.c asserts after the call.                                 *)
AllMapped ==
    main = "returned" /\ rv = 0 => \A e \in 0 .. len - 1 : mapped[e] = 1

(* An element goes unmapped only if the thread that should have started with *)
(* it was never created; what the survivors take from `reserved' is complete. *)
LossConfined ==
    main = "returned" /\ rv = 0 =>
        \A e \in 0 .. len - 1 :
           mapped[e] = 0 => \E t \in Workers : pc[t] = "lost" /\ e \in InitialChunk(t)

(* Every call comes back (or dies in pthread_join of a thread that does not  *)
(* exist): the workers always run out of chunks, and nobody waits for ever.  *)
Termination == <>(main \in {"returned", "crashed"})

-----------------------------------------------------------------------------
(* Why no element is mapped twice and none is forgotten.  A worker holds     *)
(* what is left of its chunk: its initial chunk until it runs, then [i, end). *)
Held(t) == CASE pc[t] \in {"none", "lost"} -> InitialChunk(t)
             [] pc[t] \in {"loop", "call", "unlock"} -> i[t] .. end[t] - 1
             [] OTHER -> {}

(* Where the calling thread is, and which workers exist by then. *)
MainInv ==
    /\ main \in {"seq", "seqcall"} => threads = 0
    /\ main \in {"spawn", "work", "join", "crashed"} => threads > 0
    /\ main = "spawn" => /\ k <= Owner
                         /\ \A t \in Workers : t >= k <=> pc[t] = "none"
    /\ threads > 0 /\ main # "spawn" =>
          /\ \A t \in Workers : pc[t] # "none"
          /\ pc[Owner] # "lost"
    /\ threads > 0 /\ main \in {"join", "returned", "crashed"} => pc[Owner] = "done"
    /\ main = "join" => /\ k <= Owner
                        /\ \A t \in Workers : t < k => pc[t] \in {"done", "lost"}
    /\ threads > 0 /\ main = "returned" => \A t \in Workers : pc[t] \in {"done", "lost"}
    /\ threads > 0 => rv = 0
    /\ threads = 0 => \A t \in Tids : pc[t] = "none"
    /\ \A t \in Tids : threads <= t => pc[t] = "none"
    /\ ~SpawnMayFail => \A t \in Tids : pc[t] # "lost"

LockInv ==
    /\ \A t \in Tids : lock = t <=> pc[t] \in {"read", "write", "unlock"}
    /\ \A t \in Tids : pc[t] = "write" => i[t] = reserved /\ end[t] = reserved + chunk_size
    /\ \A t \in Tids : pc[t] = "unlock" => i[t] <= reserved
    /\ \A t \in Tids : pc[t] = "call" => i[t] < end[t] /\ i[t] < len
    /\ \A t \in Tids : pc[t] = "done" => len <= reserved

(* Everything below `reserved' is mapped once or held by exactly one worker. *)
PartitionInv ==
    /\ \A t \in Workers : \A e \in Held(t) : e < reserved
    /\ \A t, u \in Workers : t # u => \A e \in Held(t) : e \notin Held(u)
    /\ \A e \in Elements : mapped[e] \in {0, 1}
    /\ threads > 0 =>
          \A e \in Elements :
             /\ reserved <= e => mapped[e] = 0
             /\ e < reserved /\ e < len /\ mapped[e] = 0 => \E t \in Workers : e \in Held(t)
             /\ \A t \in Workers : e \in Held(t) => mapped[e] = 0

(* nson_map maps a prefix, the whole array unless an error ended it. *)
SequentialInv ==
    threads = 0 =>
        /\ rv < 0 => failed
        /\ main \in {"seq", "seqcall"} =>
              /\ k <= len
              /\ \A e \in Elements : mapped[e] = IF e < k THEN 1 ELSE 0
        /\ main = "seqcall" => k < len /\ rv = 0
        /\ main = "returned" /\ rv = 0 => \A e \in Elements : e < len => mapped[e] = 1

IndInv == TypeOK /\ MainInv /\ LockInv /\ PartitionInv /\ SequentialInv

-----------------------------------------------------------------------------
(* The calls of the mapper as ParallelMap sees them. *)
InProgress == {i[t] : t \in {u \in Tids : pc[u] = "call"}}
              \cup (IF main = "seqcall" THEN {k} ELSE {})
Ended == {e \in Elements : mapped[e] > 0}

PM == INSTANCE ParallelMap WITH
        todo <- (0 .. len - 1) \ (InProgress \cup Ended),
        busy <- InProgress,
        mapped <- Ended,
        returned <- main = "returned"

(* Threaded or not, mapping an array is the abstract parallel map: each      *)
(* element is mapped once, the call returns when all are or one has failed,  *)
(* and it does return.                                                       *)
ImplementsParallelMap == PM!FairSpec
=============================================================================
