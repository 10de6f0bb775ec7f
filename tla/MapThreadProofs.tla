-------------------------- MODULE MapThreadProofs --------------------------
(***************************************************************************)
(* For every length, number of processors, chunk size and failing          *)
(* pthread_create: the invariant IndInv of MapThread is inductive, so the  *)
(* safety properties TLC checks on small instances hold of all of them.    *)
(***************************************************************************)
EXTENDS MapThread, TLAPS

(* A chunk lies below every later one: the initial chunks of the workers do  *)
(* not overlap, and all lie below threads * chunk_size.                      *)
LEMMA ChunkBelow ==
    ASSUME NEW a \in Nat, NEW b \in Nat, NEW c \in Nat, a < b
    PROVE  a * c + c <= b * c
<1> DEFINE d == b - a - 1
<1>1. d \in Nat /\ b = a + 1 + d
  OBVIOUS
<1>2. b * c = a * c + c + d * c
  BY <1>1
<1>3. d * c >= 0
  BY <1>1
<1> QED
  BY <1>1, <1>2, <1>3

(* Every index below threads * chunk_size lies in some worker's initial chunk. *)
LEMMA ChunkOf ==
    ASSUME NEW e \in Nat, NEW n \in Nat, NEW c \in Nat, e < n * c
    PROVE  \E t \in 0 .. n - 1 : t * c <= e /\ e < t * c + c
<1>1. c > 0
  <2>1. c = 0 => n * c = 0
    OBVIOUS
  <2> QED BY <2>1
<1> DEFINE t == e \div c
<1>2. t \in Int /\ t * c <= e /\ e < t * c + c
  BY <1>1
<1>3. t >= 0
  <2>1. t < 0 => t * c + c <= 0
   BY <1>1, <1>2
  <2> QED  BY <1>1, <1>2, <2>1
<1>4. t < n
  <2>1. t >= n => n * c <= t * c
     BY <1>1, <1>2, <1>3
  <2> QED BY <1>1, <1>2, <2>1
<1>5. t \in 0 .. n - 1
  BY <1>2, <1>3, <1>4
<1> HIDE DEF t
<1> QED
  BY <1>2, <1>5

(* nson_map_thread never chooses more threads than it has processors, and at *)
(* least one; the chunk size is a natural number.                            *)
LEMMA AutoSettingsType ==
    ASSUME NEW p \in 2 .. MaxProcs, NEW n \in 2 .. MaxLen
    PROVE  /\ AutoSettings(p, n) \in [threads : 1 .. MaxProcs, chunk_size : Nat]
<1>1. n \div p \in Nat
  OBVIOUS
<1>2. MinOf(n \div p, ChunkCap) \in Nat
  BY <1>1, BoundsAssumption DEF MinOf
<1> QED
  BY <1>2, BoundsAssumption DEF AutoSettings

(* Whatever the settings of a call are, a call that begins is in a state the  *)
(* invariant allows: workers not yet born hold their initial chunks.          *)
LEMMA EntryEstablishes ==
    ASSUME NEW n \in 0 .. MaxLen, NEW th \in 0 .. MaxProcs, NEW c \in Nat, NEW m,
           \/ m = "spawn" /\ th > 0
           \/ m = "seq" /\ th = 0,
           Entry(n, [threads |-> th, chunk_size |-> c], m)
    PROVE  IndInv
<1> USE BoundsAssumption DEF threads, chunk_size, Workers, Owner, Tids, Elements, NoThread
<1>1. th * c \in Nat
  OBVIOUS
<1>2. /\ len = n /\ settings = [threads |-> th, chunk_size |-> c] /\ main = m /\ k = 0
      /\ pc = [t \in Tids |-> "none"] /\ i = [t \in Tids |-> 0] /\ end = [t \in Tids |-> 0]
      /\ lock = NoThread /\ reserved = th * c /\ mapped = [e \in Elements |-> 0]
      /\ failed = FALSE /\ rv = 0
  BY DEF Entry
<1>3. TypeOK
  BY <1>1, <1>2 DEF TypeOK
<1>4. MainInv
  BY <1>2 DEF MainInv
<1>5. LockInv
  BY <1>2 DEF LockInv
<1> DEFINE Lo(t) == t * c
           All == th * c
<1>6. /\ All \in Nat /\ reserved = All
      /\ \A t \in Workers : /\ Lo(t) \in Nat /\ Lo(t) + c <= All
                            /\ Held(t) = Lo(t) .. Lo(t) + c - 1
      /\ \A t, u \in Workers : t < u => Lo(t) + c <= Lo(u)
      /\ \A e \in Nat : e < All => \E t \in Workers : Lo(t) <= e /\ e < Lo(t) + c
  <2>1. /\ Workers = 0 .. th - 1 /\ th \in Nat /\ Workers \subseteq Tids
        /\ \A t \in Workers : t \in Nat /\ t < th
    BY <1>2
  <2>2. \A t \in Workers : Held(t) = t * c .. t * c + c - 1
    BY <1>2, <2>1 DEF Held, InitialChunk
  <2>3. \A t \in Workers : t * c \in Nat /\ t * c + c <= th * c
    BY <2>1, ChunkBelow
  <2>4. \A t, u \in Workers : t < u => t * c + c <= u * c
    BY <2>1, ChunkBelow
  <2>5. \A e \in Nat : e < th * c => \E t \in Workers : t * c <= e /\ e < t * c + c
    <3>1. SUFFICES ASSUME NEW e \in Nat, e < th * c
                   PROVE  \E t \in 0 .. th - 1 : t * c <= e /\ e < t * c + c
      BY <2>1
    <3> QED
      BY <2>1, <3>1, ChunkOf
  <2> QED
    BY <1>1, <1>2, <2>2, <2>3, <2>4, <2>5
<1> HIDE DEF Lo, All
<1>7. PartitionInv
  <2>0. \A t, u \in Workers : t # u => t < u \/ u < t
    BY <1>2
  <2>1. \A t \in Workers : \A e \in Held(t) : e < reserved
    BY <1>6
  <2>2. \A t, u \in Workers : t # u => \A e \in Held(t) : e \notin Held(u)
    <3>1. SUFFICES ASSUME NEW t \in Workers, NEW u \in Workers, t # u,
                          NEW e \in Held(t), e \in Held(u)
                   PROVE  FALSE
      OBVIOUS
    <3>2. /\ Lo(t) \in Nat /\ Lo(u) \in Nat
          /\ Lo(t) <= e /\ e < Lo(t) + c /\ Lo(u) <= e /\ e < Lo(u) + c /\ e \in Int
      BY <1>6, <3>1
    <3>3. Lo(t) + c <= Lo(u) \/ Lo(u) + c <= Lo(t)
      BY <1>6, <2>0, <3>1
    <3> QED
      BY <3>2, <3>3
  <2>3. \A e \in Elements : mapped[e] = 0
    BY <1>2
  <2>4. ASSUME NEW e \in Elements, e < reserved
        PROVE  \E t \in Workers : e \in Held(t)
    <3>1. e \in Nat /\ e < All
      BY <1>6, <2>4
    <3>2. PICK t \in Workers : Lo(t) <= e /\ e < Lo(t) + c
      BY <1>6, <3>1
    <3> QED
      BY <1>6, <3>1, <3>2
  <2> QED
    BY <2>1, <2>2, <2>3, <2>4 DEF PartitionInv
<1>8. SequentialInv
  BY <1>2 DEF SequentialInv
<1> QED
  BY <1>3, <1>4, <1>5, <1>7, <1>8 DEF IndInv

(* Both ways into the code, nson_map_thread and nson_map_thread_ext, begin    *)
(* in such a state.                                                           *)
LEMMA InitEstablishes == Init => IndInv
<1> SUFFICES ASSUME Init PROVE IndInv
  OBVIOUS
<1> USE BoundsAssumption
<1>1. PICK n \in 0 .. MaxLen :
           \/ \E p \in 1 .. MaxProcs : CallMapThread(p, n)
           \/ \E th \in 1 .. MaxProcs, c \in 1 .. MaxChunk : CallMapThreadExt(th, c, n)
  BY DEF Init
<1>2. CASE \E p \in 1 .. MaxProcs : CallMapThread(p, n)
  <2>1. PICK p \in 1 .. MaxProcs : CallMapThread(p, n)
    BY <1>2
  <2>2. CASE p <= 1 \/ n <= 1
    BY <2>1, <2>2, EntryEstablishes DEF CallMapThread
  <2>3. CASE p \in 2 .. MaxProcs /\ n \in 2 .. MaxLen
    <3>1. PICK th \in 1 .. MaxProcs, c \in Nat :
             AutoSettings(p, n) = [threads |-> th, chunk_size |-> c]
      BY <2>3, AutoSettingsType
    <3>2. Entry(n, [threads |-> th, chunk_size |-> c], "spawn")
      BY <2>1, <2>3, <3>1 DEF CallMapThread
    <3> QED
      BY <3>2, EntryEstablishes
  <2> QED
    BY <2>2, <2>3
<1>3. CASE \E th \in 1 .. MaxProcs, c \in 1 .. MaxChunk : CallMapThreadExt(th, c, n)
  BY <1>3, EntryEstablishes DEF CallMapThreadExt
<1> QED
  BY <1>1, <1>2, <1>3

-----------------------------------------------------------------------------
(* The workers of a call are numbered from 0, and the last one is the caller. *)
LEMMA WorkerSet ==
    ASSUME TypeOK
    PROVE  /\ threads \in 0 .. MaxProcs /\ threads \in Nat /\ Owner = threads - 1
           /\ Workers \subseteq Tids /\ Tids \subseteq Nat
           /\ \A t \in Tids : t \in Workers <=> t < threads
           /\ \A n \in Nat : n < threads <=> n \in Workers
           /\ threads > 0 => Owner \in Workers
           /\ chunk_size \in Nat
BY BoundsAssumption DEF TypeOK, threads, Owner, Workers, Tids, chunk_size

(* The settings are read only: who the workers are does not change.           *)
LEMMA SameSettings ==
    ASSUME UNCHANGED settings
    PROVE  /\ threads' = threads /\ Workers' = Workers /\ Owner' = Owner
           /\ chunk_size' = chunk_size
BY DEF threads, Workers, Owner, chunk_size

(* A worker's step moves one program counter, between states of a live or    *)
(* finished worker: what the caller relies on stays true.                    *)
LEMMA MainFrame ==
    ASSUME TypeOK, MainInv, NEW t \in Tids, NEW x,
           pc[t] \notin {"none", "done", "lost"}, x \notin {"none", "lost"},
           pc' = [pc EXCEPT ![t] = x],
           UNCHANGED <<settings, main, k, rv>>
    PROVE  MainInv'
<1> USE BoundsAssumption DEF threads, chunk_size, Workers, Owner, Tids
<1>1. /\ \A u \in Tids : u # t => pc'[u] = pc[u]
      /\ pc'[t] = x
      /\ settings' = settings /\ main' = main /\ k' = k /\ rv' = rv
      /\ threads \in 0 .. MaxProcs
  BY DEF TypeOK
<1>2. \A u \in Tids : /\ pc'[u] = "none" <=> pc[u] = "none"
                      /\ pc'[u] = "lost" <=> pc[u] = "lost"
                      /\ pc[u] \in {"done", "lost"} => pc'[u] = pc[u]
  BY <1>1
<1>3. Workers \subseteq Tids /\ (threads > 0 => Owner \in Tids)
  BY <1>1
<1> HIDE DEF threads, Workers, Owner, Tids
<1>4. threads' = threads /\ Workers' = Workers /\ Owner' = Owner
  BY <1>1 DEF threads, Workers, Owner
<1> QED
  BY <1>1, <1>2, <1>3, <1>4 DEF MainInv

(* The worker of a step in the wrapper is one of the call's workers. *)
LEMMA WorkerIsAlive ==
    ASSUME TypeOK, MainInv, NEW t \in Tids, pc[t] # "none"
    PROVE  t \in Workers /\ threads > 0 /\ threads \in 1 .. MaxProcs
BY BoundsAssumption DEF TypeOK, MainInv, threads, Workers, Tids

(* What a worker holds depends on its own state only. *)
LEMMA HeldFrame ==
    ASSUME NEW u \in Tids, UNCHANGED settings,
           pc'[u] = pc[u], i'[u] = i[u], end'[u] = end[u]
    PROVE  Held(u)' = Held(u)
BY DEF Held, InitialChunk, chunk_size

(* What a worker holds are indices, natural numbers.                          *)
LEMMA HeldInt ==
    ASSUME TypeOK, NEW u \in Tids
    PROVE  \A e \in Held(u) : e \in Int
<1>1. u \in Nat /\ u * chunk_size \in Int /\ chunk_size \in Int
  BY BoundsAssumption, WorkerSet
<1>2. InitialChunk(u) \subseteq Int
  BY <1>1 DEF InitialChunk
<1>3. i[u] .. end[u] - 1 \subseteq Int
  BY DEF TypeOK
<1> QED
  BY <1>2, <1>3 DEF Held

(* Workers may lose what lies behind the array's end, and nothing else. *)
LEMMA PartitionFrame ==
    ASSUME TypeOK, PartitionInv, NEW t \in Workers, threads > 0,
           UNCHANGED <<settings, len, reserved, mapped>>,
           \A u \in Workers : u # t => Held(u)' = Held(u),
           Held(t)' \subseteq Held(t),
           \A e \in Held(t) : e < len => e \in Held(t)'
    PROVE  PartitionInv'
<1>1. threads' = threads /\ Workers' = Workers
  BY DEF threads, Workers
<1>2. \A u \in Workers : Held(u)' \subseteq Held(u)
  OBVIOUS
<1>3. \A u \in Workers : \A e \in Held(u) : e < len => e \in Held(u)'
  OBVIOUS
<1>4. \A u \in Workers' : \A e \in Held(u)' : e < reserved'
  BY <1>1, <1>2 DEF PartitionInv
<1>5. \A u, v \in Workers' : u # v => \A e \in Held(u)' : e \notin Held(v)'
  BY <1>1, <1>2 DEF PartitionInv
<1>6. \A e \in Elements : mapped'[e] \in {0, 1}
  BY DEF PartitionInv
<1>7. ASSUME NEW e \in Elements
      PROVE  /\ reserved' <= e => mapped'[e] = 0
             /\ e < reserved' /\ e < len' /\ mapped'[e] = 0 => \E u \in Workers' : e \in Held(u)'
             /\ \A u \in Workers' : e \in Held(u)' => mapped'[e] = 0
  BY <1>1, <1>2, <1>3 DEF PartitionInv
<1> QED
  BY <1>1, <1>4, <1>5, <1>6, <1>7 DEF PartitionInv, Elements

(* A worker is born, or pthread_create fails: what it holds is its initial    *)
(* chunk before and after.                                                    *)
LEMMA BirthFrame ==
    ASSUME TypeOK, LockInv, PartitionInv, NEW t \in Workers, threads \in 1 .. MaxProcs,
           pc[t] = "none",
           UNCHANGED <<len, settings, lock, reserved, mapped>>,
           \/ EnterWrapper(t)
           \/ pc' = [pc EXCEPT ![t] = "lost"] /\ UNCHANGED <<i, end>>
    PROVE  /\ pc' \in [Tids -> {"none", "loop", "call", "read", "write", "unlock", "done", "lost"}]
           /\ i' \in [Tids -> Nat] /\ end' \in [Tids -> Nat]
           /\ pc'[t] \in {"loop", "lost"}
           /\ \A u \in Tids : u # t => pc'[u] = pc[u]
           /\ LockInv' /\ PartitionInv'
<1> DEFINE lo == t * chunk_size
<1>1. /\ t \in Tids /\ t \in Nat /\ Workers \subseteq Tids
      /\ chunk_size \in Nat /\ chunk_size' = chunk_size
  BY BoundsAssumption DEF TypeOK, threads, Workers, Tids, chunk_size
<1>2. lo \in Nat /\ InitialChunk(t) = lo .. lo + chunk_size - 1 /\ InitialChunk(t)' = InitialChunk(t)
  BY <1>1 DEF InitialChunk
<1>3. \/ /\ pc' = [pc EXCEPT ![t] = "loop"]
         /\ i' = [i EXCEPT ![t] = lo] /\ end' = [end EXCEPT ![t] = lo + chunk_size]
      \/ pc' = [pc EXCEPT ![t] = "lost"] /\ i' = i /\ end' = end
  BY DEF EnterWrapper
<1> HIDE DEF lo
<1>0. /\ pc \in [Tids -> {"none", "loop", "call", "read", "write", "unlock", "done", "lost"}]
      /\ i \in [Tids -> Nat] /\ end \in [Tids -> Nat]
  BY DEF TypeOK
<1>4. /\ pc' \in [Tids -> {"none", "loop", "call", "read", "write", "unlock", "done", "lost"}]
      /\ i' \in [Tids -> Nat] /\ end' \in [Tids -> Nat]
      /\ \/ pc'[t] = "lost"
         \/ pc'[t] = "loop" /\ i'[t] = lo /\ end'[t] = lo + chunk_size
      /\ \A u \in Tids : u # t => pc'[u] = pc[u] /\ i'[u] = i[u] /\ end'[u] = end[u]
  <2>1. CASE pc' = [pc EXCEPT ![t] = "lost"] /\ i' = i /\ end' = end
    BY <1>0, <1>1, <2>1
  <2>2. CASE /\ pc' = [pc EXCEPT ![t] = "loop"]
             /\ i' = [i EXCEPT ![t] = lo] /\ end' = [end EXCEPT ![t] = lo + chunk_size]
    BY <1>0, <1>1, <1>2, <2>2
  <2> QED
    BY <1>3, <2>1, <2>2
<1>5. LockInv'
  BY <1>1, <1>4 DEF LockInv
<1>6. Held(t) = InitialChunk(t) /\ Held(t)' = InitialChunk(t)
  <2>1. CASE pc'[t] = "lost"
    BY <1>2, <2>1 DEF Held
  <2>2. CASE pc'[t] = "loop" /\ i'[t] = lo /\ end'[t] = lo + chunk_size
    BY <1>1, <1>2, <2>2 DEF Held
  <2> QED
    BY <1>4, <2>1, <2>2
<1>7. \A u \in Workers : u # t => Held(u)' = Held(u)
  BY <1>1, <1>4, HeldFrame
<1>8. PartitionInv'
  BY <1>6, <1>7, PartitionFrame
<1> QED
  BY <1>4, <1>5, <1>8

(* A step of the calling thread that moves no worker. *)
LEMMA CallerFrame ==
    ASSUME LockInv, PartitionInv,
           UNCHANGED <<len, settings, pc, i, end, lock, reserved, mapped>>
    PROVE  LockInv' /\ PartitionInv'
BY DEF LockInv, PartitionInv, Held, InitialChunk, threads, chunk_size, Workers, Elements

(* Every step of the caller and of a worker preserves the invariant: one case *)
(* per action of the code, in the order of the source.                        *)
LEMMA StepPreserves ==
    IndInv /\ [Next]_vars => IndInv'
<1> SUFFICES ASSUME IndInv, [Next]_vars PROVE IndInv'
  OBVIOUS
<1> USE BoundsAssumption DEF input
<1>0. TypeOK /\ MainInv /\ LockInv /\ PartitionInv /\ SequentialInv
  BY DEF IndInv
<1>1. ASSUME Spawn PROVE IndInv'
  <2>6. k \in Workers /\ k \in Tids /\ threads \in 1 .. MaxProcs /\ pc[k] = "none"
    BY <1>0, <1>1 DEF Spawn, TypeOK, MainInv, threads, Workers, Owner, Tids
  <2>7. /\ UNCHANGED <<len, settings, lock, reserved, mapped, failed, rv>>
        /\ \/ EnterWrapper(k)
           \/ pc' = [pc EXCEPT ![k] = "lost"] /\ UNCHANGED <<i, end>>
    BY <1>1 DEF Spawn, EnterWrapper
  <2>8. /\ pc' \in [Tids -> {"none", "loop", "call", "read", "write", "unlock", "done", "lost"}]
        /\ i' \in [Tids -> Nat] /\ end' \in [Tids -> Nat]
        /\ pc'[k] \in {"loop", "lost"}
        /\ \A u \in Tids : u # k => pc'[u] = pc[u]
        /\ LockInv' /\ PartitionInv'
    BY <1>0, <2>6, <2>7, BirthFrame
  <2>9. /\ ~SpawnMayFail => pc'[k] = "loop"
        /\ main' = "spawn" /\ k' = k + 1 /\ k' \in Workers
    BY <1>0, <1>1, <2>6 DEF Spawn, EnterWrapper, TypeOK, threads, Workers, Owner, Tids
  <2>1. TypeOK'
    <3>1. k' \in Nat
      BY <1>0, <2>9, WorkerSet
    <3> QED
      BY <1>0, <2>7, <2>8, <2>9, <3>1 DEF TypeOK
  <2>2. MainInv'
    <3>1. main = "spawn" /\ k <= Owner /\ k \in Nat
      BY <1>0, <1>1, WorkerSet DEF Spawn, MainInv, TypeOK
    <3>2. \A t \in Workers : t >= k' <=> pc'[t] = "none"
      BY <1>0, <2>6, <2>8, <2>9, <3>1, WorkerSet DEF MainInv
    <3>3. \A t \in Tids : /\ threads <= t => pc'[t] = "none"
                          /\ ~SpawnMayFail => pc'[t] # "lost"
      BY <1>0, <2>6, <2>8, <2>9, WorkerSet DEF MainInv
    <3>4. k' <= Owner
      BY <2>6, <2>9, <1>0, WorkerSet
    <3>5. threads > 0 /\ threads' = threads /\ Workers' = Workers /\ Owner' = Owner
      BY <2>6, <2>7, SameSettings
    <3>6. rv' = 0
      BY <1>0, <2>7, <3>5 DEF MainInv
    <3>7. main' = "spawn"
      BY <2>9
    <3>8. (threads > 0)' /\ (threads # 0)'
      BY <1>0, <3>5, WorkerSet
    <3>9. (\A t \in Workers : t >= k <=> pc[t] = "none")'
      BY <3>2, <3>5
    <3>10. (\A t \in Tids : threads <= t => pc[t] = "none")'
      BY <3>3, <3>5
    <3> QED
      BY <3>3, <3>4, <3>5, <3>6, <3>7, <3>8, <3>9, <3>10 DEF MainInv
  <2>5. SequentialInv'
    BY <2>6, <2>7 DEF SequentialInv, threads
  <2> QED
    BY <2>1, <2>2, <2>5, <2>8 DEF IndInv
<1>2. ASSUME WorkMyself PROVE IndInv'
  <2>6. k \in Workers /\ k \in Tids /\ threads \in 1 .. MaxProcs /\ pc[k] = "none"
    BY <1>0, <1>2 DEF WorkMyself, TypeOK, MainInv, threads, Workers, Owner, Tids
  <2>7. /\ UNCHANGED <<len, settings, lock, reserved, mapped, failed, rv>>
        /\ EnterWrapper(k)
    BY <1>2 DEF WorkMyself, EnterWrapper
  <2>8. /\ pc' \in [Tids -> {"none", "loop", "call", "read", "write", "unlock", "done", "lost"}]
        /\ i' \in [Tids -> Nat] /\ end' \in [Tids -> Nat]
        /\ pc'[k] \in {"loop", "lost"}
        /\ \A u \in Tids : u # k => pc'[u] = pc[u]
        /\ LockInv' /\ PartitionInv'
    BY <1>0, <2>6, <2>7, BirthFrame
  <2>9. /\ pc'[k] = "loop"
        /\ main' = "work" /\ k' = k /\ k = Owner
    BY <1>0, <1>2, <2>6 DEF WorkMyself, EnterWrapper, TypeOK, threads, Workers, Owner, Tids
  <2>1. TypeOK'
    BY <1>0, <2>6, <2>7, <2>8, <2>9 DEF TypeOK, Tids
  <2>2. MainInv'
    <3>1. main = "spawn" /\ k = Owner /\ k \in Nat
      BY <1>0, <1>2, WorkerSet DEF WorkMyself, TypeOK
    <3>2. \A t \in Workers : pc'[t] # "none"
      BY <1>0, <2>6, <2>8, <2>9, <3>1, WorkerSet DEF MainInv
    <3>3. \A t \in Tids : /\ threads <= t => pc'[t] = "none"
                          /\ ~SpawnMayFail => pc'[t] # "lost"
      BY <1>0, <2>6, <2>8, <2>9, WorkerSet DEF MainInv
    <3>4. threads > 0 /\ threads' = threads /\ Workers' = Workers /\ Owner' = Owner
      BY <2>6, <2>7, SameSettings
    <3>5. rv' = 0
      BY <1>0, <2>7, <3>4 DEF MainInv
    <3>6. main' = "work" /\ (threads > 0)' /\ (threads # 0)'
      BY <1>0, <2>9, <3>4, WorkerSet
    <3>7. (\A t \in Workers : pc[t] # "none")' /\ (pc[Owner] # "lost")'
      BY <2>9, <3>1, <3>2, <3>4
    <3>8. (\A t \in Tids : threads <= t => pc[t] = "none")'
      BY <3>3, <3>4
    <3> QED
      BY <3>3, <3>5, <3>6, <3>7, <3>8 DEF MainInv
  <2>5. SequentialInv'
    BY <2>6, <2>7 DEF SequentialInv, threads
  <2> QED
    BY <2>1, <2>2, <2>5, <2>8 DEF IndInv
<1>3. ASSUME StartJoining PROVE IndInv'
  <2>6. /\ threads > 0
        /\ UNCHANGED <<len, settings, pc, i, end, lock, reserved, mapped, failed, rv>>
    BY <1>0, <1>3 DEF StartJoining, MainInv
  <2>1. TypeOK'
    BY <1>0, <1>3, <2>6 DEF StartJoining, TypeOK
  <2>2. MainInv'
    BY <1>0, <1>3, <2>6 DEF StartJoining, TypeOK, MainInv, threads, Workers, Owner, Tids
  <2>3. LockInv' /\ PartitionInv'
    BY <1>0, <2>6, CallerFrame
  <2>5. SequentialInv'
    BY <2>6 DEF SequentialInv, threads
  <2> QED
    BY <2>1, <2>2, <2>3, <2>5 DEF IndInv
<1>4. ASSUME JoinNext PROVE IndInv'
  <2>6. /\ main = "join" /\ k < threads - 1 /\ threads > 0
        /\ main' \in {"join", "crashed"} /\ k' \in {k, k + 1}
        /\ pc[k] \in {"done", "lost"}
        /\ main' = "crashed" => pc[k] = "lost"
        /\ UNCHANGED <<len, settings, pc, i, end, lock, reserved, mapped, failed, rv>>
    BY <1>0, <1>4 DEF JoinNext, MainInv
  <2>1. TypeOK'
    BY <1>0, <2>6 DEF TypeOK
  <2>2. MainInv'
    <3>1. k \in Nat /\ k' <= Owner
      BY <1>0, <2>6, WorkerSet DEF TypeOK
    <3>2. \A t \in Workers : t < k' => pc[t] \in {"done", "lost"}
      BY <1>0, <2>6, <3>1, WorkerSet DEF MainInv
    <3> QED
      BY <1>0, <2>6, <3>1, <3>2, SameSettings, WorkerSet DEF MainInv
  <2>3. LockInv' /\ PartitionInv'
    BY <1>0, <2>6, CallerFrame
  <2>5. SequentialInv'
    BY <2>6 DEF SequentialInv, threads
  <2> QED
    BY <2>1, <2>2, <2>3, <2>5 DEF IndInv
<1>5. ASSUME ReturnFromExt PROVE IndInv'
  <2>6. /\ threads > 0
        /\ UNCHANGED <<len, settings, pc, i, end, lock, reserved, mapped, failed, rv>>
    BY <1>0, <1>5 DEF ReturnFromExt, MainInv
  <2>1. TypeOK'
    BY <1>0, <1>5, <2>6 DEF ReturnFromExt, TypeOK
  <2>2. MainInv'
    BY <1>0, <1>5, <2>6 DEF ReturnFromExt, JoinsDone, TypeOK, MainInv, threads, Workers, Owner, Tids
  <2>3. LockInv' /\ PartitionInv'
    BY <1>0, <2>6, CallerFrame
  <2>5. SequentialInv'
    BY <2>6 DEF SequentialInv, threads
  <2> QED
    BY <2>1, <2>2, <2>3, <2>5 DEF IndInv
<1>6. ASSUME SeqCall PROVE IndInv'
  <2>6. UNCHANGED <<len, settings, k, pc, i, end, lock, reserved, mapped, failed, rv>>
    BY <1>6 DEF SeqCall
  <2>1. TypeOK'
    BY <1>0, <1>6 DEF SeqCall, TypeOK
  <2>2. MainInv'
    BY <1>0, <1>6, <2>6 DEF SeqCall, MainInv, threads, Workers, Owner, Tids
  <2>3. LockInv' /\ PartitionInv'
    BY <1>0, <2>6, CallerFrame
  <2>5. SequentialInv'
    BY <1>0, <1>6, <2>6 DEF SeqCall, SeqMore, TypeOK, SequentialInv, threads
  <2> QED
    BY <2>1, <2>2, <2>3, <2>5 DEF IndInv
<1>7. ASSUME SeqMapperReturns PROVE IndInv'
  <2>6. /\ main = "seqcall" /\ main' = "seq" /\ threads = 0
        /\ k \in Elements /\ k' = k + 1 /\ rv' \in {0, -1} /\ failed' \in BOOLEAN
        /\ mapped' = [mapped EXCEPT ![k] = @ + 1]
        /\ UNCHANGED <<len, settings, pc, i, end, lock, reserved>>
    BY <1>0, <1>7 DEF SeqMapperReturns, MainInv, SequentialInv, TypeOK, Elements
  <2>8. rv' < 0 => failed'
    BY <1>7, Zenon DEF SeqMapperReturns
  <2>7. \A e \in Elements : /\ mapped[e] = IF e < k THEN 1 ELSE 0
                            /\ mapped'[e] = IF e < k + 1 THEN 1 ELSE 0
    BY <1>0, <2>6 DEF SequentialInv, TypeOK, Elements
  <2>1. TypeOK'
    BY <1>0, <2>6 DEF TypeOK
  <2>2. MainInv'
    BY <1>0, <2>6 DEF MainInv, threads, Workers, Owner, Tids
  <2>3. LockInv'
    BY <1>0, <2>6 DEF LockInv, chunk_size
  <2>4. PartitionInv'
    BY <2>6, <2>7 DEF PartitionInv, threads, Workers, Elements
  <2>5. SequentialInv'
    BY <1>0, <2>6, <2>7, <2>8 DEF TypeOK, SequentialInv, threads, Elements
  <2> QED
    BY <2>1, <2>2, <2>3, <2>4, <2>5 DEF IndInv
<1>8. ASSUME SeqReturn PROVE IndInv'
  <2>6. UNCHANGED <<len, settings, k, pc, i, end, lock, reserved, mapped, failed, rv>>
    BY <1>8 DEF SeqReturn
  <2>1. TypeOK'
    BY <1>0, <1>8 DEF SeqReturn, TypeOK
  <2>2. MainInv'
    BY <1>0, <1>8, <2>6 DEF SeqReturn, MainInv, threads, Workers, Owner, Tids
  <2>3. LockInv' /\ PartitionInv'
    BY <1>0, <2>6, CallerFrame
  <2>5. SequentialInv'
    BY <1>0, <1>8, <2>6 DEF SeqReturn, SeqMore, TypeOK, SequentialInv, threads
  <2> QED
    BY <2>1, <2>2, <2>3, <2>5 DEF IndInv
<1>9. ASSUME NEW t \in Tids, CallMapper(t) PROVE IndInv'
  <2>10. /\ pc[t] = "loop"
        /\ pc' = [pc EXCEPT ![t] = "call"]
        /\ UNCHANGED <<len, settings, main, k, rv>>
    BY <1>9 DEF CallMapper
  <2>11. t \in Workers /\ threads > 0 /\ threads' = threads /\ Workers \subseteq Tids
    BY <1>0, <2>10, WorkerIsAlive DEF threads, Workers, Tids
  <2>12. \A u \in Tids : u # t => pc'[u] = pc[u] /\ i'[u] = i[u] /\ end'[u] = end[u]
    BY <1>0, <1>9 DEF CallMapper, TypeOK
  <2>13. \A u \in Workers : u # t => Held(u)' = Held(u)
    BY <2>10, <2>11, <2>12, HeldFrame
  <2>1. TypeOK'
    BY <1>0, <1>9 DEF CallMapper, TypeOK, LockInv, chunk_size
  <2>2. MainInv'
    <3>1. DEFINE x == "call"
    <3>2. x \notin {"none", "lost"}
      OBVIOUS
    <3> QED
      BY <1>0, <2>10, <3>2, MainFrame
  <2>3. LockInv'
    BY <1>0, <1>9, <2>12 DEF CallMapper, MoreInChunk, TypeOK, LockInv, chunk_size, Tids, NoThread
  <2>4. PartitionInv'
    <3>1. Held(t)' \subseteq Held(t) /\ \A e \in Held(t) : e < len => e \in Held(t)'
      BY <1>0, <1>9, <2>10 DEF CallMapper, MoreInChunk, TypeOK, Held
    <3> QED
      BY <1>0, <1>9, <2>11, <2>13, <3>1, PartitionFrame DEF CallMapper
  <2>5. SequentialInv'
    BY <2>11 DEF SequentialInv
  <2> QED
    BY <2>1, <2>2, <2>3, <2>4, <2>5 DEF IndInv
<1>10. ASSUME NEW t \in Tids, MapperReturns(t) PROVE IndInv'
  <2>10. /\ pc[t] = "call"
        /\ pc' = [pc EXCEPT ![t] = "loop"]
        /\ UNCHANGED <<len, settings, main, k, rv>>
    BY <1>10 DEF MapperReturns
  <2>11. t \in Workers /\ threads > 0 /\ threads' = threads /\ Workers \subseteq Tids
    BY <1>0, <2>10, WorkerIsAlive DEF threads, Workers, Tids
  <2>12. \A u \in Tids : u # t => pc'[u] = pc[u] /\ i'[u] = i[u] /\ end'[u] = end[u]
    BY <1>0, <1>10 DEF MapperReturns, TypeOK
  <2>13. \A u \in Workers : u # t => Held(u)' = Held(u)
    BY <2>10, <2>11, <2>12, HeldFrame
  <2>14. /\ i[t] \in Nat /\ i[t] < end[t] /\ i[t] < len /\ i[t] \in Elements /\ end[t] \in Nat
         /\ pc \in [Tids -> {"none", "loop", "call", "read", "write", "unlock", "done", "lost"}]
         /\ i \in [Tids -> Nat] /\ mapped \in [Elements -> Nat] /\ len \in Nat
    BY <1>0, <2>10 DEF TypeOK, LockInv, Elements
  <2>15. /\ mapped' = [mapped EXCEPT ![i[t]] = @ + 1] /\ i' = [i EXCEPT ![t] = @ + 1]
         /\ failed' \in {failed, TRUE}
         /\ UNCHANGED <<end, lock, reserved>>
    BY <1>10 DEF MapperReturns
  <2>16. /\ i' \in [Tids -> Nat] /\ i'[t] = i[t] + 1 /\ pc'[t] = "loop" /\ end'[t] = end[t]
         /\ mapped' \in [Elements -> Nat]
         /\ mapped'[i[t]] = mapped[i[t]] + 1
         /\ \A e \in Elements : e # i[t] => mapped'[e] = mapped[e]
    BY <2>10, <2>14, <2>15
  <2>1. TypeOK'
    BY <1>0, <2>10, <2>14, <2>15, <2>16 DEF TypeOK
  <2>2. MainInv'
    <3>1. DEFINE x == "loop"
    <3>2. x \notin {"none", "lost"}
      OBVIOUS
    <3> QED
      BY <1>0, <2>10, <3>2, MainFrame
  <2>3. LockInv'
    BY <1>0, <1>10, <2>12 DEF MapperReturns, TypeOK, LockInv, chunk_size, Tids, NoThread
  <2>4. PartitionInv'
    <3>1. Held(t) = i[t] .. end[t] - 1 /\ Held(t)' = i[t] + 1 .. end[t] - 1
      BY <2>10, <2>16 DEF Held
    <3>2. i[t] \in Held(t) /\ \A e \in Elements : e \in Held(t)' <=> e \in Held(t) /\ e # i[t]
      BY <2>14, <3>1 DEF Elements
    <3>3. \A e \in Held(t)' : e \in Held(t)
      BY <2>14, <3>1
    <3>4. Workers' = Workers /\ reserved' = reserved /\ len' = len /\ threads > 0
      BY <2>10, <2>11, <2>15, SameSettings
    <3>5. \A u \in Workers : \A e \in Held(u)' : e \in Held(u)
      BY <2>13, <3>3
    <3>6. \A u \in Workers' : \A e \in Held(u)' : e < reserved'
      BY <1>0, <3>4, <3>5 DEF PartitionInv
    <3>7. \A u, v \in Workers' : u # v => \A e \in Held(u)' : e \notin Held(v)'
      BY <1>0, <3>4, <3>5 DEF PartitionInv
    <3>8. mapped[i[t]] = 0 /\ mapped'[i[t]] = 1 /\ i[t] < reserved
      BY <1>0, <2>11, <2>14, <2>16, <3>2 DEF PartitionInv
    <3>9. \A e \in Elements : mapped'[e] \in {0, 1}
      BY <1>0, <2>16, <3>8 DEF PartitionInv
    <3>10. ASSUME NEW e \in Elements
           PROVE  /\ reserved' <= e => mapped'[e] = 0
                  /\ e < reserved' /\ e < len' /\ mapped'[e] = 0 => \E u \in Workers' : e \in Held(u)'
                  /\ \A u \in Workers' : e \in Held(u)' => mapped'[e] = 0
      <4>1. CASE e = i[t]
        <5>1. \A u \in Workers : e \notin Held(u)'
          BY <1>0, <2>11, <2>13, <3>2, <4>1 DEF PartitionInv
        <5>2. e < reserved /\ e \in Int /\ reserved \in Int
          BY <1>0, <2>14, <3>8, <4>1 DEF TypeOK
        <5> QED
          BY <3>4, <3>8, <4>1, <5>1, <5>2
      <4>2. CASE e # i[t]
        <5>1. \A u \in Workers : e \in Held(u)' <=> e \in Held(u)
          BY <2>13, <3>2, <4>2
        <5> QED
          BY <1>0, <2>16, <3>4, <4>2, <5>1 DEF PartitionInv
      <4> QED
        BY <4>1, <4>2
    <3> QED
      BY <3>6, <3>7, <3>9, <3>10 DEF PartitionInv, Elements
  <2>5. SequentialInv'
    BY <2>11 DEF SequentialInv
  <2> QED
    BY <2>1, <2>2, <2>3, <2>4, <2>5 DEF IndInv
<1>11. ASSUME NEW t \in Tids, Lock(t) PROVE IndInv'
  <2>10. /\ pc[t] = "loop"
        /\ pc' = [pc EXCEPT ![t] = "read"]
        /\ UNCHANGED <<len, settings, main, k, rv>>
    BY <1>11 DEF Lock
  <2>11. t \in Workers /\ threads > 0 /\ threads' = threads /\ Workers \subseteq Tids
    BY <1>0, <2>10, WorkerIsAlive DEF threads, Workers, Tids
  <2>12. \A u \in Tids : u # t => pc'[u] = pc[u] /\ i'[u] = i[u] /\ end'[u] = end[u]
    BY <1>0, <1>11 DEF Lock, TypeOK
  <2>13. \A u \in Workers : u # t => Held(u)' = Held(u)
    BY <2>10, <2>11, <2>12, HeldFrame
  <2>1. TypeOK'
    BY <1>0, <1>11 DEF Lock, TypeOK, LockInv, chunk_size
  <2>2. MainInv'
    <3>1. DEFINE x == "read"
    <3>2. x \notin {"none", "lost"}
      OBVIOUS
    <3> QED
      BY <1>0, <2>10, <3>2, MainFrame
  <2>3. LockInv'
    BY <1>0, <1>11, <2>12 DEF Lock, MoreInChunk, TypeOK, LockInv, chunk_size, Tids, NoThread
  <2>4. PartitionInv'
    <3>1. Held(t)' \subseteq Held(t) /\ \A e \in Held(t) : e < len => e \in Held(t)'
      BY <1>0, <1>11, <2>10 DEF Lock, MoreInChunk, TypeOK, Held
    <3> QED
      BY <1>0, <1>11, <2>11, <2>13, <3>1, PartitionFrame DEF Lock
  <2>5. SequentialInv'
    BY <2>11 DEF SequentialInv
  <2> QED
    BY <2>1, <2>2, <2>3, <2>4, <2>5 DEF IndInv
<1>12. ASSUME NEW t \in Tids, ReadReserved(t) PROVE IndInv'
  <2>10. /\ pc[t] = "read"
        /\ pc' = [pc EXCEPT ![t] = "write"]
        /\ UNCHANGED <<len, settings, main, k, rv>>
    BY <1>12 DEF ReadReserved
  <2>11. t \in Workers /\ threads > 0 /\ threads' = threads /\ Workers \subseteq Tids
    BY <1>0, <2>10, WorkerIsAlive DEF threads, Workers, Tids
  <2>12. \A u \in Tids : u # t => pc'[u] = pc[u] /\ i'[u] = i[u] /\ end'[u] = end[u]
    BY <1>0, <1>12 DEF ReadReserved, TypeOK
  <2>13. \A u \in Workers : u # t => Held(u)' = Held(u)
    BY <2>10, <2>11, <2>12, HeldFrame
  <2>1. TypeOK'
    BY <1>0, <1>12 DEF ReadReserved, TypeOK, LockInv, chunk_size
  <2>2. MainInv'
    <3>1. DEFINE x == "write"
    <3>2. x \notin {"none", "lost"}
      OBVIOUS
    <3> QED
      BY <1>0, <2>10, <3>2, MainFrame
  <2>3. LockInv'
    BY <1>0, <1>12, <2>12 DEF ReadReserved, TypeOK, LockInv, chunk_size, Tids, NoThread
  <2>4. PartitionInv'
    <3>1. Held(t)' \subseteq Held(t) /\ \A e \in Held(t) : e < len => e \in Held(t)'
      BY <1>0, <1>12, <2>10 DEF ReadReserved, TypeOK, Held
    <3> QED
      BY <1>0, <1>12, <2>11, <2>13, <3>1, PartitionFrame DEF ReadReserved
  <2>5. SequentialInv'
    BY <2>11 DEF SequentialInv
  <2> QED
    BY <2>1, <2>2, <2>3, <2>4, <2>5 DEF IndInv
<1>13. ASSUME NEW t \in Tids, WriteReserved(t) PROVE IndInv'
  <2>10. /\ pc[t] = "write"
        /\ pc' = [pc EXCEPT ![t] = "unlock"]
        /\ UNCHANGED <<len, settings, main, k, rv>>
    BY <1>13 DEF WriteReserved
  <2>11. t \in Workers /\ threads > 0 /\ threads' = threads /\ Workers \subseteq Tids
    BY <1>0, <2>10, WorkerIsAlive DEF threads, Workers, Tids
  <2>12. \A u \in Tids : u # t => pc'[u] = pc[u] /\ i'[u] = i[u] /\ end'[u] = end[u]
    BY <1>0, <1>13 DEF WriteReserved, TypeOK
  <2>13. \A u \in Workers : u # t => Held(u)' = Held(u)
    BY <2>10, <2>11, <2>12, HeldFrame
  <2>14. /\ i[t] = reserved /\ end[t] = reserved + chunk_size /\ reserved \in Nat
         /\ chunk_size \in Nat /\ lock = t
         /\ pc \in [Tids -> {"none", "loop", "call", "read", "write", "unlock", "done", "lost"}]
    BY <1>0, <2>10, WorkerSet DEF TypeOK, LockInv
  <2>15. reserved' = reserved + chunk_size /\ UNCHANGED <<i, end, lock, mapped, failed>>
    BY <1>13, <2>14 DEF WriteReserved
  <2>16. pc'[t] = "unlock" /\ chunk_size' = chunk_size
    BY <2>10, <2>14, SameSettings
  <2>1. TypeOK'
    BY <1>0, <2>10, <2>14, <2>15 DEF TypeOK
  <2>2. MainInv'
    <3>1. DEFINE x == "unlock"
    <3>2. x \notin {"none", "lost"}
      OBVIOUS
    <3> QED
      BY <1>0, <2>10, <3>2, MainFrame
  <2>3. LockInv'
    <3>1. \A u \in Tids : u # t => pc[u] \notin {"read", "write", "unlock"}
      BY <1>0, <2>14 DEF LockInv
    <3>2. \A u \in Tids : pc'[u] = "done" => len' <= reserved'
      <4>1. SUFFICES ASSUME NEW u \in Tids, pc'[u] = "done" PROVE len <= reserved + chunk_size
        BY <2>10, <2>15
      <4>2. pc[u] = "done"
        BY <2>12, <2>16, <4>1
      <4> QED
        BY <1>0, <2>14, <4>2 DEF LockInv, TypeOK
    <3> QED
      BY <1>0, <2>10, <2>12, <2>14, <2>15, <2>16, <3>1, <3>2 DEF LockInv
  <2>4. PartitionInv'
    <3>1. Held(t) = {} /\ Held(t)' = reserved .. reserved + chunk_size - 1
      BY <2>10, <2>14, <2>15, <2>16 DEF Held
    <3>2. Workers' = Workers /\ mapped' = mapped /\ len' = len
      BY <2>10, <2>15, SameSettings
    <3>3. \A u \in Workers : u # t => \A e \in Held(u)' : e < reserved
      BY <1>0, <2>13 DEF PartitionInv
    <3>4. \A u \in Workers' : \A e \in Held(u)' : e < reserved'
      <4>1. SUFFICES ASSUME NEW u \in Workers, NEW e \in Held(u)'
                     PROVE  e < reserved + chunk_size
        BY <2>15, <3>2
      <4>2. CASE u = t
        BY <2>14, <3>1, <4>2
      <4>3. CASE u # t
        <5>1. e \in Int
          BY <1>0, <2>11, <2>13, <4>3, HeldInt
        <5> QED
          BY <2>14, <3>3, <4>3, <5>1
      <4> QED
        BY <4>2, <4>3
    <3>5. \A u, v \in Workers' : u # v => \A e \in Held(u)' : e \notin Held(v)'
      <4>1. SUFFICES ASSUME NEW u \in Workers, NEW v \in Workers, u # v,
                            NEW e \in Held(u)', e \in Held(v)'
                     PROVE  FALSE
        BY <3>2
      <4>2. CASE u = t
        BY <2>14, <3>1, <3>3, <4>1, <4>2
      <4>3. CASE v = t
        BY <2>14, <3>1, <3>3, <4>1, <4>3
      <4>4. CASE u # t /\ v # t
        BY <1>0, <2>13, <4>1, <4>4 DEF PartitionInv
      <4> QED
        BY <4>2, <4>3, <4>4
    <3>6. ASSUME NEW e \in Elements
          PROVE  /\ reserved' <= e => mapped'[e] = 0
                 /\ e < reserved' /\ e < len' /\ mapped'[e] = 0 => \E u \in Workers' : e \in Held(u)'
                 /\ \A u \in Workers' : e \in Held(u)' => mapped'[e] = 0
      <4>1. e \in Int
        BY DEF Elements
      <4>2. CASE reserved <= e
        BY <1>0, <2>11, <2>14, <2>15, <3>1, <3>2, <4>1, <4>2 DEF PartitionInv
      <4>3. CASE e < reserved
        <5>1. \A u \in Workers : e \in Held(u)' <=> e \in Held(u)
          BY <2>13, <2>14, <3>1, <4>3
        <5> QED
          BY <1>0, <2>11, <2>14, <2>15, <3>2, <4>1, <4>3, <5>1 DEF PartitionInv
      <4> QED
        BY <2>14, <4>1, <4>2, <4>3
    <3> QED
      BY <1>0, <3>2, <3>4, <3>5, <3>6 DEF PartitionInv, Elements
  <2>5. SequentialInv'
    BY <2>11 DEF SequentialInv
  <2> QED
    BY <2>1, <2>2, <2>3, <2>4, <2>5 DEF IndInv
<1>14. ASSUME NEW t \in Tids, Unlock(t) PROVE IndInv'
  <2>10. /\ pc[t] = "unlock"
        /\ pc' = [pc EXCEPT ![t] = IF i[t] < len THEN "loop" ELSE "done"]
        /\ UNCHANGED <<len, settings, main, k, rv>>
    BY <1>14 DEF Unlock
  <2>11. t \in Workers /\ threads > 0 /\ threads' = threads /\ Workers \subseteq Tids
    BY <1>0, <2>10, WorkerIsAlive DEF threads, Workers, Tids
  <2>12. \A u \in Tids : u # t => pc'[u] = pc[u] /\ i'[u] = i[u] /\ end'[u] = end[u]
    BY <1>0, <1>14 DEF Unlock, TypeOK
  <2>13. \A u \in Workers : u # t => Held(u)' = Held(u)
    BY <2>10, <2>11, <2>12, HeldFrame
  <2>1. TypeOK'
    BY <1>0, <1>14 DEF Unlock, TypeOK, LockInv, chunk_size
  <2>2. MainInv'
    <3>1. DEFINE x == IF i[t] < len THEN "loop" ELSE "done"
    <3>2. x \notin {"none", "lost"}
      OBVIOUS
    <3> QED
      BY <1>0, <2>10, <3>2, MainFrame
  <2>3. LockInv'
    BY <1>0, <1>14, <2>12 DEF Unlock, TypeOK, LockInv, chunk_size, Tids, NoThread
  <2>4. PartitionInv'
    <3>1. Held(t)' \subseteq Held(t) /\ \A e \in Held(t) : e < len => e \in Held(t)'
      BY <1>0, <1>14, <2>10 DEF Unlock, TypeOK, Held
    <3> QED
      BY <1>0, <1>14, <2>11, <2>13, <3>1, PartitionFrame DEF Unlock
  <2>5. SequentialInv'
    BY <2>11 DEF SequentialInv
  <2> QED
    BY <2>1, <2>2, <2>3, <2>4, <2>5 DEF IndInv
<1>15. CASE UNCHANGED vars
  BY <1>0, <1>15 DEF vars, IndInv, TypeOK, MainInv, LockInv, PartitionInv, SequentialInv, Held,
     InitialChunk, threads, chunk_size, Workers, Owner
<1> QED
  BY <1>1, <1>2, <1>3, <1>4, <1>5, <1>6, <1>7, <1>8, <1>9, <1>10, <1>11, <1>12, <1>13, <1>14, <1>15 DEF Next, MainThread, Worker, Over

-----------------------------------------------------------------------------
(* The invariant holds in every state of every call. *)
THEOREM Invariance == Spec => []IndInv
<1>1. Init => IndInv
  BY InitEstablishes
<1>2. IndInv /\ [Next]_vars => IndInv'
  BY StepPreserves
<1> QED
  BY <1>1, <1>2, PTL DEF Spec

(* Every variable keeps to its range: no index leaves the array. *)
THEOREM TypeCorrect == Spec => []TypeOK
<1>1. IndInv => TypeOK
  BY DEF IndInv
<1> QED
  BY <1>1, Invariance, PTL

(* The mapper is never handed an element twice, whichever threads exist and  *)
(* however they are scheduled: chunks are disjoint.                          *)
THEOREM ExclusiveMapping == Spec => []NoElementTwice
<1>1. IndInv => NoElementTwice
  <2> SUFFICES ASSUME IndInv PROVE NoElementTwice
    OBVIOUS
  <2>1. TypeOK /\ MainInv /\ LockInv /\ PartitionInv
    BY DEF IndInv
  <2>2. \A e \in Elements : mapped[e] <= 1
    BY <2>1 DEF PartitionInv
  <2>3. ASSUME NEW t \in Tids, NEW e \in Elements, InCall(t, e)
        PROVE  t \in Workers /\ threads > 0 /\ e \in Held(t)
    <3>1. pc[t] = "call" /\ i[t] = e
      BY <2>3 DEF InCall
    <3>2. e \in i[t] .. end[t] - 1
      BY <2>1, <3>1 DEF LockInv, TypeOK
    <3> QED
      BY <2>1, <3>1, <3>2, WorkerIsAlive DEF Held
  <2>4. ASSUME NEW t \in Tids, NEW e \in Elements, InCall(t, e)
        PROVE  mapped[e] = 0 /\ \A u \in Tids : InCall(u, e) => u = t
    BY <2>1, <2>3, <2>4 DEF PartitionInv
  <2> QED
    BY <2>2, <2>4 DEF NoElementTwice
<1> QED
  BY <1>1, Invariance, PTL

(* No worker outlives the call: the mutex, `reserved' and the ThreadInfo     *)
(* array are on the caller's stack.                                          *)
THEOREM WorkersJoined == Spec => []NoneLeftRunning
<1>1. IndInv => NoneLeftRunning
  BY WorkerSet DEF IndInv, MainInv, NoneLeftRunning
<1> QED
  BY <1>1, Invariance, PTL

(* At the end no living worker holds anything of the array, so an element not *)
(* mapped is held by a worker that was never created, as its initial chunk.   *)
LEMMA LossConfinedByInvariant == IndInv => LossConfined
<1> SUFFICES ASSUME IndInv, main = "returned", rv = 0,
                    NEW e \in 0 .. len - 1, mapped[e] = 0
             PROVE  \E t \in Workers : pc[t] = "lost" /\ e \in InitialChunk(t)
  BY DEF LossConfined
<1>1. TypeOK /\ MainInv /\ LockInv /\ PartitionInv /\ SequentialInv
  BY DEF IndInv
<1>2. e \in Elements /\ e \in Int /\ e < len
  BY <1>1, BoundsAssumption DEF TypeOK, Elements
<1>3. threads > 0
  BY <1>1, <1>2, WorkerSet DEF SequentialInv
<1>4. e < reserved
  <2>1. pc[Owner] = "done" /\ Owner \in Tids
    BY <1>1, <1>3, WorkerSet DEF MainInv
  <2>2. len <= reserved /\ len \in Int /\ reserved \in Int
    BY <1>1, <2>1 DEF LockInv, TypeOK
  <2> QED
    BY <1>2, <2>2
<1>5. PICK t \in Workers : e \in Held(t)
  BY <1>1, <1>2, <1>3, <1>4 DEF PartitionInv
<1>6. pc[t] \in {"done", "lost"}
  BY <1>1, <1>3 DEF MainInv
<1> QED
  BY <1>5, <1>6 DEF Held

(* What can be lost is the initial chunk of a thread that was not created.   *)
THEOREM OnlyUnbornChunksLost == Spec => []LossConfined
BY LossConfinedByInvariant, Invariance, PTL

(* If every pthread_create succeeds, nobody holds anything at the end.        *)
LEMMA AllMappedByInvariant ==
    ASSUME ~SpawnMayFail
    PROVE  IndInv => AllMapped
<1> SUFFICES ASSUME IndInv, main = "returned", rv = 0, NEW e \in 0 .. len - 1
             PROVE  mapped[e] = 1
  BY DEF AllMapped
<1>1. LossConfined
  BY LossConfinedByInvariant
<1>2. e \in Elements
  BY BoundsAssumption DEF IndInv, TypeOK, Elements
<1>3. mapped[e] \in {0, 1}
  BY <1>2 DEF IndInv, PartitionInv
<1>4. ~ \E t \in Workers : pc[t] = "lost"
  BY WorkerSet DEF IndInv, MainInv
<1> QED
  BY <1>1, <1>3, <1>4 DEF LossConfined

(* When threads can be created, a call that returns 0 has mapped it all.     *)
THEOREM EverythingMapped ==
    ASSUME ~SpawnMayFail
    PROVE  Spec => []AllMapped
<1>1. IndInv => AllMapped
  BY AllMappedByInvariant
<1> QED
  BY <1>1, Invariance, PTL

(***************************************************************************)
(* MapThread implements ParallelMap for every length, number of threads    *)
(* and chunk size, provided threads can be created.  (Only the safety part *)
(* is proved; that the call returns is left to TLC.)                       *)
(***************************************************************************)

(* Steps that start or end no mapper call are invisible. *)
LEMMA Stutters ==
    ASSUME UNCHANGED <<len, mapped, failed, InProgress>>,
           main' = "returned" <=> main = "returned"
    PROVE  UNCHANGED PM!vars
<1>1. (main' = "returned") = (main = "returned")
  OBVIOUS
<1>2. Ended' = Ended
  BY DEF Ended, Elements
<1> QED
  BY <1>1, <1>2 DEF PM!vars

(* A worker moves its program counter without entering or leaving "call". *)
LEMMA SameInProgress ==
    ASSUME \A t \in Tids : /\ pc'[t] = "call" <=> pc[t] = "call"
                           /\ pc[t] = "call" => i'[t] = i[t],
           main' = "seqcall" <=> main = "seqcall",
           main = "seqcall" => k' = k
    PROVE  InProgress' = InProgress
BY DEF InProgress

(* When the call begins, every element is still to be done.                   *)
LEMMA InitRefines == Init => PM!Init
<1> SUFFICES ASSUME Init PROVE PM!Init
  OBVIOUS
<1>1. IndInv
  BY InitEstablishes
<1>2. /\ pc = [t \in Tids |-> "none"] /\ mapped = [e \in Elements |-> 0]
      /\ main \in {"seq", "spawn"} /\ failed = FALSE
  BY DEF Init, CallMapThread, CallMapThreadExt, Entry
<1>3. InProgress = {} /\ Ended = {}
  BY <1>2 DEF InProgress, Ended
<1>4. 0 .. len - 1 \subseteq Elements
  BY <1>1, BoundsAssumption DEF IndInv, TypeOK, Elements
<1> QED
  BY <1>2, <1>3, <1>4 DEF PM!Init

(* A mapper call on e begins: nobody is working on e or has mapped it. *)
LEMMA StartRefines ==
    ASSUME TypeOK, NEW e \in Elements, main # "returned", main' # "returned",
           e < len, e \notin InProgress, mapped[e] = 0,
           InProgress' = InProgress \cup {e},
           UNCHANGED <<len, mapped, failed>>
    PROVE  PM!Next
<1>1. e \in 0 .. len - 1 /\ e \notin Ended /\ Ended' = Ended
  <2>1. e \in 0 .. len - 1
    BY BoundsAssumption DEF TypeOK, Elements
  <2>2. e \notin Ended /\ Ended' = Ended
    BY DEF Ended, Elements
  <2> QED
    BY <2>1, <2>2
<1>2. PM!Start(e)
  BY <1>1 DEF PM!Start
<1> QED
  BY <1>2 DEF PM!Next

(* A mapper call on e ends. *)
LEMMA FinishRefines ==
    ASSUME TypeOK, NEW e \in Elements, main' = "returned" <=> main = "returned",
           e \in InProgress, InProgress' = InProgress \ {e},
           mapped' = [mapped EXCEPT ![e] = @ + 1],
           failed' \in {failed, TRUE}, UNCHANGED len
    PROVE  PM!Next
<1>1. mapped \in [Elements -> Nat]
  BY DEF TypeOK
<1>2. Ended' = Ended \cup {e}
  BY <1>1 DEF Ended, Elements
<1>3. (0 .. len - 1) \ (InProgress' \cup Ended') = (0 .. len - 1) \ (InProgress \cup Ended)
  BY <1>2
<1>4. PM!Finish(e)
  BY <1>2, <1>3 DEF PM!Finish
<1> QED
  BY <1>4 DEF PM!Next

(* Control goes back to the caller. *)
LEMMA ReturnRefines ==
    ASSUME TypeOK, main # "returned", main' = "returned",
           InProgress = {}, InProgress' = {},
           failed \/ \A e \in Elements : e < len => mapped[e] = 1,
           UNCHANGED <<len, mapped, failed>>
    PROVE  PM!Next
<1>1. Ended' = Ended
  BY DEF Ended, Elements
<1>2. failed \/ (0 .. len - 1) \ (InProgress \cup Ended) = {}
  BY BoundsAssumption DEF TypeOK, Elements, Ended
<1>3. PM!Return
  BY <1>1, <1>2 DEF PM!Return
<1> QED
  BY <1>3 DEF PM!Next

(* When the joins are over nobody is in the mapper any more ... *)
LEMMA WorkersNotCalling ==
    ASSUME TypeOK, MainInv, main = "join", k >= threads - 1, NEW t \in Tids
    PROVE  pc[t] # "call"
<1>1. threads > 0
  BY DEF MainInv
<1>2. CASE t \notin Workers
  BY <1>2, WorkerSet DEF MainInv
<1>3. CASE t = Owner
  BY <1>1, <1>3 DEF MainInv
<1>4. CASE t \in Workers /\ t # Owner
  <2>1. t < k
    BY <1>4, WorkerSet DEF TypeOK
  <2> QED
    BY <1>4, <2>1 DEF MainInv
<1> QED
  BY <1>2, <1>3, <1>4

(* ... and every element has been mapped. *)
LEMMA AllMappedOnReturn ==
    ASSUME ~SpawnMayFail, IndInv', main' = "returned", rv' = 0,
           UNCHANGED <<len, mapped>>
    PROVE  \A e \in Elements : e < len => mapped[e] = 1
<1>1. (IndInv => AllMapped)'
  BY AllMappedByInvariant, PTL
<1>2. \A e \in 0 .. len - 1 : mapped[e] = 1
  BY <1>1 DEF AllMapped
<1>3. len \in Int
  BY DEF IndInv, TypeOK
<1> QED
  BY <1>2, <1>3, BoundsAssumption DEF Elements

(* Every step of the code is a step of the abstract map or invisible there.   *)
LEMMA StepRefines ==
    ASSUME ~SpawnMayFail, IndInv, IndInv', [Next]_vars
    PROVE  [PM!Next]_PM!vars
<1>0. TypeOK /\ MainInv /\ LockInv /\ PartitionInv /\ SequentialInv
  BY DEF IndInv
<1>1. ASSUME Spawn \/ WorkMyself \/ StartJoining \/ JoinNext
      PROVE  UNCHANGED PM!vars
  <2>1. /\ UNCHANGED <<len, mapped, failed>>
        /\ main \in {"spawn", "work", "join"} /\ main' \in {"spawn", "work", "join", "crashed"}
    BY <1>1 DEF Spawn, WorkMyself, StartJoining, JoinNext, input
  <2>2. \A t \in Tids : /\ pc'[t] = "call" <=> pc[t] = "call"
                        /\ pc[t] = "call" => i'[t] = i[t]
    <3>1. CASE Spawn \/ WorkMyself
      <4>1. k \in Tids /\ pc[k] = "none"
        BY <1>0, <3>1, WorkerSet DEF Spawn, WorkMyself, MainInv, TypeOK
      <4>2. pc'[k] \in {"loop", "lost"} /\ \A u \in Tids : u # k => pc'[u] = pc[u] /\ i'[u] = i[u]
        BY <1>0, <3>1, <4>1 DEF Spawn, WorkMyself, EnterWrapper, TypeOK
      <4> QED
        BY <4>1, <4>2
    <3>2. CASE StartJoining \/ JoinNext
      BY <3>2 DEF StartJoining, JoinNext
    <3> QED
      BY <1>1, <3>1, <3>2
  <2>3. InProgress' = InProgress
    BY <2>1, <2>2, SameInProgress
  <2> QED
    BY <2>1, <2>3, Stutters
<1>2. ASSUME NEW t \in Tids, main # "crashed",
             Lock(t) \/ ReadReserved(t) \/ WriteReserved(t) \/ Unlock(t)
      PROVE  UNCHANGED PM!vars
  <2>1. /\ UNCHANGED <<len, main, k, mapped, failed>>
        /\ pc[t] # "call"
        /\ \E x \in {"read", "write", "unlock", "loop", "done"} : pc' = [pc EXCEPT ![t] = x]
    BY <1>2 DEF Lock, ReadReserved, WriteReserved, Unlock, input
  <2>2. \A u \in Tids : u # t => pc'[u] = pc[u] /\ i'[u] = i[u]
    BY <1>0, <1>2 DEF Lock, ReadReserved, WriteReserved, Unlock, TypeOK
  <2>3. pc'[t] # "call"
    BY <1>0, <2>1 DEF TypeOK
  <2>4. InProgress' = InProgress
    BY <2>1, <2>2, <2>3, SameInProgress
  <2> QED
    BY <2>1, <2>4, Stutters
<1>3. ASSUME NEW t \in Tids, CallMapper(t)
      PROVE  PM!Next
  <2>1. /\ pc[t] = "loop" /\ i[t] < end[t] /\ i[t] < len
        /\ pc' = [pc EXCEPT ![t] = "call"]
        /\ UNCHANGED <<len, settings, main, k, i, mapped, failed>>
    BY <1>3 DEF CallMapper, MoreInChunk, input
  <2>2. t \in Workers /\ threads > 0
    BY <1>0, <2>1, WorkerIsAlive
  <2>3. i[t] \in Elements /\ i[t] \in Held(t)
    BY <1>0, <2>1, BoundsAssumption DEF TypeOK, Elements, Held
  <2>4. mapped[i[t]] = 0
    BY <1>0, <2>2, <2>3 DEF PartitionInv
  <2>5. main \notin {"returned", "seqcall"}
    BY <1>0, <2>1, <2>2, WorkerSet DEF MainInv
  <2>6. \A u \in Tids : pc[u] = "call" => i[u] # i[t]
    <3>1. SUFFICES ASSUME NEW u \in Tids, pc[u] = "call", i[u] = i[t]
                   PROVE  FALSE
      OBVIOUS
    <3>2. u \in Workers /\ i[u] \in Held(u)
      BY <1>0, <3>1, WorkerIsAlive DEF Held, LockInv, TypeOK
    <3> QED
      BY <1>0, <2>1, <2>2, <2>3, <3>1, <3>2 DEF PartitionInv
  <2>7. i[t] \notin InProgress /\ InProgress' = InProgress \cup {i[t]}
    BY <1>0, <2>1, <2>5, <2>6 DEF InProgress, TypeOK
  <2> QED
    BY <1>0, <2>1, <2>3, <2>4, <2>5, <2>7, StartRefines
<1>4. ASSUME NEW t \in Tids, MapperReturns(t)
      PROVE  PM!Next
  <2>1. /\ pc[t] = "call"
        /\ pc' = [pc EXCEPT ![t] = "loop"]
        /\ i' = [i EXCEPT ![t] = @ + 1]
        /\ mapped' = [mapped EXCEPT ![i[t]] = @ + 1]
        /\ failed' \in {failed, TRUE}
        /\ UNCHANGED <<len, settings, main, k>>
    BY <1>4 DEF MapperReturns, input
  <2>2. t \in Workers /\ threads > 0
    BY <1>0, <2>1, WorkerIsAlive
  <2>3. i[t] \in Elements /\ i[t] \in Held(t)
    BY <1>0, <2>1, BoundsAssumption DEF TypeOK, LockInv, Elements, Held
  <2>4. main # "seqcall"
    BY <1>0, <2>2, WorkerSet DEF MainInv
  <2>5. \A u \in Tids : pc[u] = "call" /\ u # t => i[u] # i[t]
    <3>1. SUFFICES ASSUME NEW u \in Tids, pc[u] = "call", u # t, i[u] = i[t]
                   PROVE  FALSE
      OBVIOUS
    <3>2. u \in Workers /\ i[u] \in Held(u)
      BY <1>0, <3>1, WorkerIsAlive DEF Held, LockInv, TypeOK
    <3> QED
      BY <1>0, <2>2, <2>3, <3>1, <3>2 DEF PartitionInv
  <2>6. /\ \A u \in Tids : u # t => pc'[u] = pc[u] /\ i'[u] = i[u]
        /\ pc'[t] = "loop"
    BY <1>0, <2>1 DEF TypeOK
  <2>7. i[t] \in InProgress /\ InProgress' = InProgress \ {i[t]}
    <3>1. \A e : e \in InProgress' <=> \E u \in Tids : pc'[u] = "call" /\ i'[u] = e
      BY <2>1, <2>4 DEF InProgress
    <3>2. \A e : e \in InProgress <=> \E u \in Tids : pc[u] = "call" /\ i[u] = e
      BY <2>4 DEF InProgress
    <3>3. \A e : e \in InProgress' <=> e \in InProgress /\ e # i[t]
      BY <2>1, <2>5, <2>6, <3>1, <3>2
    <3> QED
      BY <2>1, <3>2, <3>3
  <2> QED
    BY <1>0, <2>1, <2>3, <2>7, FinishRefines
<1>5. ASSUME ReturnFromExt
      PROVE  PM!Next
  <2>1. /\ main = "join" /\ main' = "returned" /\ k >= threads - 1
        /\ UNCHANGED <<len, settings, k, pc, i, mapped, failed, rv>>
    BY <1>5 DEF ReturnFromExt, JoinsDone, input
  <2>2. threads > 0 /\ rv' = 0
    BY <1>0, <2>1 DEF MainInv
  <2>3. \A t \in Tids : pc[t] # "call"
    BY <1>0, <2>1, <2>2, WorkersNotCalling
  <2>4. InProgress = {} /\ InProgress' = {}
    BY <2>1, <2>3 DEF InProgress
  <2>5. \A e \in Elements : e < len => mapped[e] = 1
    BY <2>1, <2>2, AllMappedOnReturn
  <2> QED
    BY <1>0, <2>1, <2>4, <2>5, ReturnRefines
<1>6. ASSUME SeqCall
      PROVE  PM!Next
  <2>1. /\ main = "seq" /\ main' = "seqcall" /\ rv >= 0 /\ k < len
        /\ UNCHANGED <<len, k, pc, i, mapped, failed>>
    BY <1>6 DEF SeqCall, SeqMore, input
  <2>2. \A t \in Tids : pc[t] = "none"
    BY <1>0, <2>1 DEF MainInv
  <2>3. k \in Elements /\ mapped[k] = 0
    BY <1>0, <2>1, BoundsAssumption DEF MainInv, SequentialInv, TypeOK, Elements
  <2>4. InProgress = {} /\ InProgress' = {k}
    BY <2>1, <2>2 DEF InProgress
  <2> QED
    BY <1>0, <2>1, <2>3, <2>4, StartRefines
<1>7. ASSUME SeqMapperReturns
      PROVE  PM!Next
  <2>1. /\ main = "seqcall" /\ main' = "seq"
        /\ mapped' = [mapped EXCEPT ![k] = @ + 1]
        /\ UNCHANGED <<len, pc, i>>
    BY <1>7 DEF SeqMapperReturns, input
  <2>2. failed' \in {failed, TRUE}
    BY <1>0, <1>7, Zenon DEF SeqMapperReturns, TypeOK
  <2>3. \A t \in Tids : pc[t] = "none"
    BY <1>0, <2>1 DEF MainInv
  <2>4. k \in Elements
    BY <1>0, <2>1, BoundsAssumption DEF MainInv, SequentialInv, TypeOK, Elements
  <2>5. InProgress = {k} /\ InProgress' = {}
    BY <2>1, <2>3 DEF InProgress
  <2> QED
    BY <1>0, <2>1, <2>2, <2>4, <2>5, FinishRefines
<1>8. ASSUME SeqReturn
      PROVE  PM!Next
  <2>1. /\ main = "seq" /\ main' = "returned" /\ (rv < 0 \/ k >= len)
        /\ UNCHANGED <<len, k, pc, i, mapped, failed>>
    BY <1>0, <1>8 DEF SeqReturn, SeqMore, input, TypeOK
  <2>2. \A t \in Tids : pc[t] = "none"
    BY <1>0, <2>1 DEF MainInv
  <2>3. InProgress = {} /\ InProgress' = {}
    BY <2>1, <2>2 DEF InProgress
  <2>4. failed \/ \A e \in Elements : e < len => mapped[e] = 1
    BY <1>0, <2>1, BoundsAssumption DEF MainInv, SequentialInv, TypeOK, Elements
  <2> QED
    BY <1>0, <2>1, <2>3, <2>4, ReturnRefines
<1>9. ASSUME UNCHANGED vars
      PROVE  UNCHANGED PM!vars
  BY <1>9 DEF vars, PM!vars, InProgress, Ended, Elements
<1> QED
  BY <1>1, <1>2, <1>3, <1>4, <1>5, <1>6, <1>7, <1>8, <1>9 DEF Next, MainThread, Worker, Over

(* The calls of the mapper made by nson_map_thread, nson_map_thread_ext and   *)
(* nson_map are those of the abstract parallel map.                           *)
THEOREM ImplementsParallelMapSafety ==
    ASSUME ~SpawnMayFail
    PROVE  Spec => PM!Spec
<1>1. Init => PM!Init
  BY InitRefines
<1>2. IndInv /\ IndInv' /\ [Next]_vars => [PM!Next]_PM!vars
  BY StepRefines
<1> QED
  BY <1>1, <1>2, Invariance, PTL DEF Spec, PM!Spec
=============================================================================
