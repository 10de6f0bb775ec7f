-------------------------- MODULE ValueMemoryProofs --------------------------
(***************************************************************************)
(* Whatever sequence of calls: values stay trees, and the count of every   *)
(* buffer is the number of places that refer to it.  For any number of     *)
(* variables and buffers and any bound on the size of the trees.           *)
(***************************************************************************)
EXTENDS ValueMemory, SequenceTheorems, FunctionTheorems, FiniteSetTheorems, TLAPS

(* Induction, about a set of numbers.                                         *)
LEMMA Numbers ==
    ASSUME NEW T \in SUBSET Nat, 0 \in T, \A n \in T : n + 1 \in T
    PROVE  T = Nat
<1>1. \E R : /\ IsWellFoundedOn(R, Nat)
             /\ \A m, n \in Nat : m < n => <<m, n>> \in R
  <2>1. IsWellFoundedOn(OpToRel(<, Nat), Nat)
    BY NatLessThanWellFounded
  <2>2. \A m, n \in Nat : m < n => <<m, n>> \in OpToRel(<, Nat)
    BY DEF OpToRel
  <2> QED
    BY <2>1, <2>2, Zenon
<1>2. PICK R : /\ IsWellFoundedOn(R, Nat)
               /\ \A m, n \in Nat : m < n => <<m, n>> \in R
  BY <1>1
<1> SUFFICES ASSUME Nat \ T # {} PROVE FALSE
  OBVIOUS
<1>3. PICK n \in Nat \ T : \A m \in Nat \ T : ~ (<<m, n>> \in R)
  <2>1. Nat \ T \subseteq Nat /\ IsWellFoundedOn(R, Nat)
    BY <1>2
  <2> QED
    BY <2>1, WFMin, Zenon
<1>4. n # 0
  BY <1>3
<1>5. n - 1 \in Nat /\ n - 1 < n /\ (n - 1) + 1 = n
  BY <1>3, <1>4
<1>6. n - 1 \in T
  BY <1>2, <1>3, <1>5
<1> QED
  BY <1>3, <1>5, <1>6

(***************************************************************************)
(* Places.                                                                 *)
(***************************************************************************)

LEMMA SameInterval ==
    ASSUME NEW m \in Nat, NEW n \in Nat, 1 .. m = 1 .. n
    PROVE  m = n
<1>1. m # 0 => m \in 1 .. n
  <2>1. m # 0 => m \in 1 .. m
    OBVIOUS
  <2> QED
    BY <2>1
<1>2. n # 0 => n \in 1 .. m
  <2>1. n # 0 => n \in 1 .. n
    OBVIOUS
  <2> QED
    BY <2>1
<1> QED
  BY <1>1, <1>2

LEMMA PlaceIsSeq ==
    ASSUME NEW p \in Places
    PROVE  /\ Len(p) \in 0 .. MaxDepth /\ Len(p) \in Nat
           /\ p \in [1 .. Len(p) -> 1 .. MaxLen] /\ DOMAIN p = 1 .. Len(p)
           /\ p \in Seq(1 .. MaxLen)
<1>1. PICK n \in 0 .. MaxDepth : p \in [1 .. n -> 1 .. MaxLen]
  BY DEF Places
<1>2. n \in Nat
  BY <1>1, ValueBounds
<1>3. p \in Seq(1 .. MaxLen)
  BY <1>1, <1>2, SeqDef
<1>4. Len(p) \in Nat /\ DOMAIN p = 1 .. Len(p) /\ p \in [1 .. Len(p) -> 1 .. MaxLen]
  BY <1>3, LenProperties
<1>5. 1 .. Len(p) = 1 .. n
  BY <1>1, <1>4
<1>6. Len(p) = n
  BY <1>2, <1>4, <1>5, SameInterval
<1> QED
  BY <1>1, <1>3, <1>4, <1>6

LEMMA PlaceMade ==
    ASSUME NEW n \in 0 .. MaxDepth, NEW p \in [1 .. n -> 1 .. MaxLen]
    PROVE  p \in Places /\ Len(p) = n
<1>1. p \in Places
  BY DEF Places
<1>2. n \in Nat
  BY ValueBounds
<1>3. Len(p) \in Nat /\ DOMAIN p = 1 .. Len(p)
  BY <1>1, PlaceIsSeq
<1>4. 1 .. Len(p) = 1 .. n
  BY <1>3
<1> QED
  BY <1>1, <1>2, <1>3, <1>4, SameInterval

LEMMA RootIsPlace == <<>> \in Places /\ Len(<<>>) = 0
<1>1. <<>> \in [1 .. 0 -> 1 .. MaxLen] /\ 0 \in 0 .. MaxDepth
  BY ValueBounds
<1> QED
  BY <1>1, PlaceMade

LEMMA PlacesFinite == IsFiniteSet(Places)
<1> DEFINE Cells == (1 .. MaxDepth) \X (1 .. MaxLen)
           graph == [p \in Places |-> {<<n, p[n]>> : n \in DOMAIN p}]
<1>1. IsFiniteSet(SUBSET Cells)
  <2>1. 1 \in Int /\ MaxDepth \in Int /\ MaxLen \in Int
    BY ValueBounds
  <2>2. IsFiniteSet(1 .. MaxDepth) /\ IsFiniteSet(1 .. MaxLen)
    BY <2>1, FS_Interval
  <2>3. IsFiniteSet(Cells)
    BY <2>2, FS_Product
  <2> QED
    BY <2>3, FS_SUBSET
<1>2. ASSUME NEW p \in Places
      PROVE  graph[p] \in SUBSET Cells
  <2>1. \A n \in DOMAIN p : n \in 1 .. MaxDepth /\ p[n] \in 1 .. MaxLen
    BY PlaceIsSeq, ValueBounds
  <2> QED
    BY <2>1
<1>3. ASSUME NEW p \in Places, NEW q \in Places, graph[p] = graph[q]
      PROVE  p = q
  <2>1. \A n \in DOMAIN p : n \in DOMAIN q /\ q[n] = p[n]
    <3>1. \A n \in DOMAIN p : <<n, p[n]>> \in graph[q]
      BY <1>3
    <3> QED
      BY <3>1
  <2>2. \A n \in DOMAIN q : n \in DOMAIN p
    <3>1. \A n \in DOMAIN q : <<n, q[n]>> \in graph[p]
      BY <1>3
    <3> QED
      BY <3>1
  <2>3. DOMAIN p = DOMAIN q
    BY <2>1, <2>2
  <2>4. p \in [DOMAIN p -> 1 .. MaxLen] /\ q \in [DOMAIN q -> 1 .. MaxLen]
    BY PlaceIsSeq
  <2> QED
    BY <2>1, <2>3, <2>4
<1>4. graph \in Injection(Places, SUBSET Cells)
  <2>1. graph \in [Places -> SUBSET Cells]
    BY <1>2
  <2> HIDE DEF graph, Cells
  <2> QED
    BY <1>3, <2>1, Fun_IsInj
<1> QED
  BY <1>1, <1>4, FS_Injection

(* The place below p, and from element j on down place p.                     *)
Enter(j, p) == [n \in 1 .. Len(p) + 1 |-> IF n = 1 THEN j ELSE p[n - 1]]
Up(p) == [n \in 1 .. Len(p) - 1 |-> p[n]]
Down(p) == [n \in 1 .. Len(p) - 1 |-> p[n + 1]]

LEMMA EnterIsPlace ==
    ASSUME NEW p \in Places, Len(p) < MaxDepth, NEW j \in 1 .. MaxLen
    PROVE  /\ Enter(j, p) \in Places /\ Len(Enter(j, p)) = Len(p) + 1
           /\ Enter(j, p)[1] = j /\ Down(Enter(j, p)) = p
           /\ \A n \in 1 .. Len(p) : Enter(j, p)[n + 1] = p[n]
<1>1. PICK n : n = Len(p)
  OBVIOUS
<1>2. n \in Nat /\ n + 1 \in 0 .. MaxDepth /\ p \in [1 .. n -> 1 .. MaxLen]
  BY <1>1, PlaceIsSeq, ValueBounds
<1>3. \A i \in 1 .. n + 1 : i # 1 => i - 1 \in 1 .. n
  BY <1>2
<1>4. Enter(j, p) \in [1 .. n + 1 -> 1 .. MaxLen]
  BY <1>1, <1>2, <1>3 DEF Enter
<1>5. Enter(j, p) \in Places /\ Len(Enter(j, p)) = n + 1
  BY <1>2, <1>4, PlaceMade
<1>6. Enter(j, p)[1] = j /\ \A i \in 1 .. n : Enter(j, p)[i + 1] = p[i]
  BY <1>1, <1>2 DEF Enter
<1>7. Down(Enter(j, p)) = p
  <2>1. Down(Enter(j, p)) = [i \in 1 .. n |-> Enter(j, p)[i + 1]]
    BY <1>2, <1>5 DEF Down
  <2>2. [i \in 1 .. n |-> Enter(j, p)[i + 1]] = [i \in 1 .. n |-> p[i]]
    BY <1>6
  <2> QED
    BY <1>2, <2>1, <2>2
<1> QED
  BY <1>1, <1>5, <1>6, <1>7

LEMMA DownIsPlace ==
    ASSUME NEW p \in Places, p # <<>>
    PROVE  /\ Down(p) \in Places /\ Len(Down(p)) = Len(p) - 1 /\ Len(Down(p)) < MaxDepth
           /\ p[1] \in 1 .. MaxLen /\ p = Enter(p[1], Down(p)) /\ Len(p) > 0
<1>1. PICK n : n = Len(p) - 1
  OBVIOUS
<1>2. Len(p) > 0 /\ n \in 0 .. MaxDepth /\ n \in Nat /\ n < MaxDepth /\ Len(p) = n + 1
  BY <1>1, PlaceIsSeq, EmptySeq, ValueBounds
<1>3. p \in [1 .. n + 1 -> 1 .. MaxLen]
  BY <1>2, PlaceIsSeq
<1>4. Down(p) = [i \in 1 .. n |-> p[i + 1]]
  BY <1>1 DEF Down
<1>5. Down(p) \in [1 .. n -> 1 .. MaxLen]
  BY <1>2, <1>3, <1>4
<1>6. Down(p) \in Places /\ Len(Down(p)) = n
  BY <1>2, <1>5, PlaceMade
<1>7. p = Enter(p[1], Down(p))
  <2>1. \A i \in 1 .. n + 1 : i # 1 => i - 1 \in 1 .. n /\ (i - 1) + 1 = i
    BY <1>2
  <2>2. \A i \in 1 .. n + 1 : (IF i = 1 THEN p[1] ELSE Down(p)[i - 1]) = p[i]
    BY <1>4, <2>1
  <2>3. Enter(p[1], Down(p)) = [i \in 1 .. n + 1 |-> p[i]]
    BY <1>6, <2>2 DEF Enter
  <2> QED
    BY <1>3, <2>3
<1>8. 1 \in 1 .. n + 1
  BY <1>2
<1> QED
  BY <1>1, <1>2, <1>3, <1>6, <1>7, <1>8

LEMMA UpIsPlace ==
    ASSUME NEW p \in Places, p # <<>>
    PROVE  /\ Up(p) \in Places /\ Len(Up(p)) = Len(p) - 1 /\ Len(Up(p)) < MaxDepth
           /\ p[Len(p)] \in 1 .. MaxLen
           /\ \A n \in 1 .. Len(p) - 1 : Up(p)[n] = p[n]
<1>1. PICK n : n = Len(p) - 1
  OBVIOUS
<1>2. Len(p) > 0 /\ n \in 0 .. MaxDepth /\ n \in Nat /\ n < MaxDepth /\ Len(p) = n + 1
  BY <1>1, PlaceIsSeq, EmptySeq, ValueBounds
<1>3. p \in [1 .. n + 1 -> 1 .. MaxLen]
  BY <1>2, PlaceIsSeq
<1>4. Up(p) = [i \in 1 .. n |-> p[i]]
  BY <1>1 DEF Up
<1>5. Up(p) \in [1 .. n -> 1 .. MaxLen]
  BY <1>2, <1>3, <1>4
<1>6. Up(p) \in Places /\ Len(Up(p)) = n
  BY <1>2, <1>5, PlaceMade
<1>7. n + 1 \in 1 .. n + 1
  BY <1>2
<1> QED
  BY <1>1, <1>2, <1>3, <1>4, <1>6, <1>7

(***************************************************************************)
(* The value on a place.                                                   *)
(***************************************************************************)

(* The values passed on the way to place p of the tree v.                     *)
Walk(v, p, n, f) ==
    /\ f = [m \in 0 .. n |-> f[m]]
    /\ f[0] = v
    /\ \A m \in 1 .. n : f[m] = Child(f[m - 1], p[m])

LEMMA WalkExists ==
    ASSUME NEW v, NEW p, NEW n \in Nat
    PROVE  \E f : Walk(v, p, n, f)
<1> DEFINE T == {m \in Nat : \E f : Walk(v, p, m, f)}
<1>1. 0 \in T
  <2>1. PICK f : f = [m \in 0 .. 0 |-> v]
    OBVIOUS
  <2>2. f[0] = v /\ f = [m \in 0 .. 0 |-> f[m]]
    BY <2>1
  <2>3. Walk(v, p, 0, f)
    BY <2>2 DEF Walk
  <2> QED
    BY <2>3
<1>2. ASSUME NEW m \in T
      PROVE  m + 1 \in T
  <2>1. PICK f : Walk(v, p, m, f)
    OBVIOUS
  <2>2. PICK g : g = [k \in 0 .. m + 1 |-> IF k = m + 1 THEN Child(f[m], p[m + 1]) ELSE f[k]]
    OBVIOUS
  <2>3. m \in Nat
    OBVIOUS
  <2>4. /\ g = [k \in 0 .. m + 1 |-> g[k]]
        /\ g[m + 1] = Child(f[m], p[m + 1])
        /\ \A k \in 0 .. m : g[k] = f[k]
    BY <2>2, <2>3
  <2>5. g[0] = v
    <3>1. 0 \in 0 .. m
      BY <2>3
    <3>2. f[0] = v
      BY <2>1 DEF Walk
    <3> QED
      BY <2>4, <3>1, <3>2
  <2>6. ASSUME NEW k \in 1 .. m + 1
        PROVE  g[k] = Child(g[k - 1], p[k])
    <3>1. CASE k = m + 1
      <4>1. k - 1 = m /\ m \in 0 .. m
        BY <2>3, <3>1
      <4> QED
        BY <2>4, <3>1, <4>1
    <3>2. CASE k # m + 1
      <4>1. k \in 1 .. m /\ k \in 0 .. m /\ k - 1 \in 0 .. m
        BY <2>3, <3>2
      <4>2. f[k] = Child(f[k - 1], p[k])
        BY <2>1, <4>1 DEF Walk
      <4> QED
        BY <2>4, <4>1, <4>2
    <3> QED
      BY <3>1, <3>2
  <2>7. Walk(v, p, m + 1, g)
    BY <2>4, <2>5, <2>6 DEF Walk
  <2> QED
    BY <2>3, <2>7
<1>3. T = Nat
  <2> HIDE DEF T
  <2>1. T \in SUBSET Nat
    BY DEF T
  <2> QED
    BY <1>1, <1>2, <2>1, Numbers
<1> QED
  BY <1>3

LEMMA WalkUnique ==
    ASSUME NEW v, NEW p, NEW q, NEW n \in Nat, NEW k \in Nat, k <= n, NEW f, NEW g,
           Walk(v, p, n, f), Walk(v, q, k, g), \A m \in 1 .. k : p[m] = q[m]
    PROVE  \A m \in 0 .. k : f[m] = g[m]
<1> DEFINE T == {m \in Nat : m <= k => f[m] = g[m]}
<1>1. 0 \in T
  BY DEF Walk
<1>2. ASSUME NEW m \in T
      PROVE  m + 1 \in T
  <2>1. SUFFICES ASSUME m + 1 <= k PROVE f[m + 1] = g[m + 1]
    OBVIOUS
  <2>2. m + 1 \in 1 .. n /\ m + 1 \in 1 .. k /\ (m + 1) - 1 = m /\ m <= k
    BY <2>1
  <2>3. f[m + 1] = Child(f[m], p[m + 1]) /\ g[m + 1] = Child(g[m], q[m + 1])
    BY <2>2 DEF Walk
  <2>4. f[m] = g[m]
    BY <2>2
  <2> QED
    BY <2>2, <2>3, <2>4
<1>3. T = Nat
  <2> HIDE DEF T
  <2>1. T \in SUBSET Nat
    BY DEF T
  <2> QED
    BY <1>1, <1>2, <2>1, Numbers
<1> QED
  BY <1>3

LEMMA AtWalk ==
    ASSUME NEW v, NEW p \in Places
    PROVE  \E f : Walk(v, p, Len(p), f) /\ At(v, p) = f[Len(p)]
<1>1. PICK n : n = Len(p) /\ n \in Nat
  BY PlaceIsSeq
<1> DEFINE Solves(f) == f = [m \in 0 .. n |-> IF m = 0 THEN v ELSE Child(f[m - 1], p[m])]
<1>2. PICK f : Walk(v, p, n, f)
  BY <1>1, WalkExists
<1>3. Solves(f)
  <2>1. \A m \in 0 .. n : m # 0 => m \in 1 .. n
    BY <1>1
  <2>2. \A m \in 0 .. n : f[m] = IF m = 0 THEN v ELSE Child(f[m - 1], p[m])
    BY <1>2, <2>1 DEF Walk
  <2>3. f = [m \in 0 .. n |-> f[m]]
    BY <1>2 DEF Walk
  <2> QED
    BY <2>2, <2>3
<1>4. PICK g : g = CHOOSE h : Solves(h)
  OBVIOUS
<1>5. Solves(g)
  <2> HIDE DEF Solves
  <2> QED
    BY <1>3, <1>4, Zenon
<1>6. At(v, p) = g[n]
  BY <1>1, <1>4 DEF At
<1>7. Walk(v, p, n, g)
  <2>1. \A m \in 0 .. n : g[m] = IF m = 0 THEN v ELSE Child(g[m - 1], p[m])
    BY <1>5
  <2>2. g = [m \in 0 .. n |-> g[m]]
    BY <1>5, <2>1
  <2>3. 0 \in 0 .. n /\ \A m \in 1 .. n : m \in 0 .. n /\ m # 0
    BY <1>1
  <2> QED
    BY <2>1, <2>2, <2>3 DEF Walk
<1> QED
  BY <1>1, <1>6, <1>7

(* The tree itself is on the empty place.                                     *)
LEMMA AtRoot ==
    ASSUME NEW v
    PROVE  At(v, <<>>) = v
BY AtWalk, RootIsPlace DEF Walk

(* The last step of the way to a place.                                       *)
LEMMA AtUp ==
    ASSUME NEW v, NEW p \in Places, p # <<>>
    PROVE  At(v, p) = Child(At(v, Up(p)), p[Len(p)])
<1>1. PICK n : n = Len(p)
  OBVIOUS
<1>2. n \in Nat /\ n > 0 /\ n - 1 \in Nat /\ n \in 1 .. n /\ n - 1 \in 0 .. n - 1
  BY <1>1, PlaceIsSeq, DownIsPlace
<1>3. Up(p) \in Places /\ Len(Up(p)) = n - 1 /\ \A m \in 1 .. n - 1 : p[m] = Up(p)[m]
  BY <1>1, UpIsPlace
<1>4. PICK f : Walk(v, p, n, f) /\ At(v, p) = f[n]
  BY <1>1, AtWalk
<1>5. PICK g : Walk(v, Up(p), n - 1, g) /\ At(v, Up(p)) = g[n - 1]
  BY <1>3, AtWalk
<1>6. n - 1 <= n
  BY <1>2
<1>7. f[n - 1] = g[n - 1]
  BY <1>2, <1>3, <1>4, <1>5, <1>6, WalkUnique
<1>8. f[n] = Child(f[n - 1], p[n])
  BY <1>2, <1>4 DEF Walk
<1> QED
  BY <1>1, <1>4, <1>5, <1>7, <1>8

(* The first step of the way to a place.                                      *)
LEMMA AtEnter ==
    ASSUME NEW v, NEW p \in Places, Len(p) < MaxDepth, NEW j \in 1 .. MaxLen
    PROVE  At(v, Enter(j, p)) = At(Child(v, j), p)
<1>1. PICK n : n = Len(p) /\ n \in Nat
  BY PlaceIsSeq
<1>2. PICK q : q = Enter(j, p)
  OBVIOUS
<1>3. q \in Places /\ Len(q) = n + 1 /\ q[1] = j /\ \A m \in 1 .. n : q[m + 1] = p[m]
  BY <1>1, <1>2, EnterIsPlace
<1>4. PICK f : Walk(v, q, n + 1, f) /\ At(v, q) = f[n + 1]
  BY <1>3, AtWalk
<1>5. PICK g : Walk(Child(v, j), p, n, g) /\ At(Child(v, j), p) = g[n]
  BY <1>1, AtWalk
<1> DEFINE T == {m \in Nat : m <= n => f[m + 1] = g[m]}
<1>6. 0 \in T
  <2>1. 1 \in 1 .. n + 1 /\ 1 - 1 = 0 /\ 0 + 1 = 1
    BY <1>1
  <2>2. f[1] = Child(f[0], q[1]) /\ f[0] = v /\ g[0] = Child(v, j)
    BY <1>4, <1>5, <2>1 DEF Walk
  <2> QED
    BY <1>3, <2>1, <2>2
<1>7. ASSUME NEW m \in T
      PROVE  m + 1 \in T
  <2>1. SUFFICES ASSUME m + 1 <= n PROVE f[(m + 1) + 1] = g[m + 1]
    OBVIOUS
  <2>2. /\ (m + 1) + 1 \in 1 .. n + 1 /\ m + 1 \in 1 .. n /\ m <= n
        /\ ((m + 1) + 1) - 1 = m + 1 /\ (m + 1) - 1 = m
    BY <1>1, <2>1
  <2>3. f[(m + 1) + 1] = Child(f[m + 1], q[(m + 1) + 1])
    BY <1>4, <2>2 DEF Walk
  <2>4. g[m + 1] = Child(g[m], p[m + 1])
    BY <1>5, <2>2 DEF Walk
  <2>5. f[m + 1] = g[m]
    BY <2>2
  <2> QED
    BY <1>3, <2>2, <2>3, <2>4, <2>5
<1>8. T = Nat
  <2> HIDE DEF T
  <2>1. T \in SUBSET Nat
    BY DEF T
  <2> QED
    BY <1>6, <1>7, <2>1, Numbers
<1>9. f[n + 1] = g[n]
  BY <1>1, <1>8
<1> QED
  BY <1>2, <1>4, <1>5, <1>9

(* Where nothing is, nothing is below.                                        *)
LEMMA AtNil ==
    ASSUME NEW p \in Places
    PROVE  At(Nil, p) = Nil
<1> DEFINE T == {n \in Nat : \A q \in Places : Len(q) = n => At(Nil, q) = Nil}
<1>1. 0 \in T
  <2>1. ASSUME NEW q \in Places, Len(q) = 0
        PROVE  At(Nil, q) = Nil
    <3>1. q = <<>>
      BY <2>1, DownIsPlace
    <3> QED
      BY <3>1, AtRoot
  <2> QED
    BY <2>1
<1>2. ASSUME NEW n \in T
      PROVE  n + 1 \in T
  <2>1. SUFFICES ASSUME NEW q \in Places, Len(q) = n + 1 PROVE At(Nil, q) = Nil
    OBVIOUS
  <2>2. q # <<>>
    BY <2>1, RootIsPlace
  <2>3. Up(q) \in Places /\ Len(Up(q)) = n
    BY <2>1, <2>2, UpIsPlace
  <2>4. At(Nil, Up(q)) = Nil
    BY <2>3
  <2>5. Child(Nil, q[Len(q)]) = Nil
    BY DEF Child, Nil, IsContainer
  <2> QED
    BY <2>2, <2>4, <2>5, AtUp
<1>3. T = Nat
  <2> HIDE DEF T
  <2>1. T \in SUBSET Nat
    BY DEF T
  <2> QED
    BY <1>1, <1>2, <2>1, Numbers
<1> QED
  BY <1>3, PlaceIsSeq

(***************************************************************************)
(* How often a tree refers to a buffer.                                    *)
(***************************************************************************)

LEMMA ReferencesFinite ==
    ASSUME NEW b, NEW v
    PROVE  IsFiniteSet(References(b, v)) /\ Refs(b, v) \in Nat
<1>1. References(b, v) \in SUBSET Places
  BY DEF References
<1> QED
  BY <1>1, PlacesFinite, FS_Subset, FS_CardinalityType DEF Refs

LEMMA NilRefersToNothing ==
    ASSUME NEW b
    PROVE  Refs(b, Nil) = 0
<1>1. Nil # Str(b)
  BY DEF Nil, Str
<1>2. References(b, Nil) = {}
  BY <1>1, AtNil DEF References
<1> QED
  BY <1>2, FS_EmptySet DEF Refs

(* Below a value that has no elements there is nothing.                       *)
LEMMA BelowNothing ==
    ASSUME NEW v, IsContainer(v) => v.elems = <<>>, NEW p \in Places, p # <<>>
    PROVE  At(v, p) = Nil
<1>1. PICK j, q : j = p[1] /\ q = Down(p)
  OBVIOUS
<1>2. /\ q \in Places /\ Len(q) < MaxDepth /\ j \in 1 .. MaxLen
      /\ p = Enter(j, q)
  BY <1>1, DownIsPlace
<1>3. Child(v, j) = Nil
  BY DEF Child
<1>4. At(v, p) = At(Child(v, j), q)
  BY <1>2, AtEnter
<1> QED
  BY <1>2, <1>3, <1>4, AtNil

LEMMA StrRefersOnce ==
    ASSUME NEW b, NEW c
    PROVE  Refs(b, Str(c)) = IF b = c THEN 1 ELSE 0
<1>1. ~IsContainer(Str(c)) /\ Nil # Str(b) /\ (Str(c) = Str(b) <=> b = c)
  BY DEF IsContainer, Str, Nil
<1>2. \A p \in Places : At(Str(c), p) = Str(b) <=> p = <<>> /\ b = c
  BY <1>1, BelowNothing, AtRoot
<1>3. References(b, Str(c)) = IF b = c THEN {<<>>} ELSE {}
  BY <1>2, RootIsPlace DEF References
<1> QED
  BY <1>3, FS_EmptySet, FS_Singleton DEF Refs

LEMMA ContainerIsNoString ==
    ASSUME NEW b, NEW v, IsContainer(v)
    PROVE  v # Str(b)
BY DEF IsContainer, Str

LEMMA EmptyRefersToNothing ==
    ASSUME NEW b, NEW v, IsContainer(v), v.elems = <<>>
    PROVE  Refs(b, v) = 0
<1>1. Nil # Str(b)
  BY DEF Nil, Str
<1>2. References(b, v) = {}
  BY <1>1, BelowNothing, AtRoot, ContainerIsNoString DEF References
<1> QED
  BY <1>2, FS_EmptySet DEF Refs

(* An array and an object of the same elements refer to the same buffers.     *)
LEMMA SameElements ==
    ASSUME NEW b, NEW v, NEW w, IsContainer(v), IsContainer(w), v.elems = w.elems
    PROVE  Refs(b, v) = Refs(b, w)
<1>1. ASSUME NEW p \in Places
      PROVE  At(v, p) = Str(b) <=> At(w, p) = Str(b)
  <2>1. CASE p = <<>>
    BY <2>1, AtRoot, ContainerIsNoString
  <2>2. CASE p # <<>>
    <3>1. PICK j, q : j = p[1] /\ q = Down(p)
      OBVIOUS
    <3>2. /\ q \in Places /\ Len(q) < MaxDepth /\ j \in 1 .. MaxLen
          /\ p = Enter(j, q)
      BY <2>2, <3>1, DownIsPlace
    <3>3. Child(v, j) = Child(w, j)
      BY DEF Child
    <3>4. At(v, p) = At(Child(v, j), q) /\ At(w, p) = At(Child(w, j), q)
      BY <3>2, AtEnter
    <3> QED
      BY <3>3, <3>4
  <2> QED
    BY <2>1, <2>2
<1>2. References(b, v) = References(b, w)
  BY <1>1 DEF References
<1> QED
  BY <1>2 DEF Refs

(* A reference is at most one level below the deepest array.                  *)
LEMMA ReferenceNotDeep ==
    ASSUME NEW b, NEW v, NEW d \in Nat, Fits(v, d), NEW p \in References(b, v)
    PROVE  p \in Places /\ Len(p) <= d
<1>1. p \in Places /\ At(v, p) = Str(b) /\ Str(b) # Nil
  BY DEF References, Str, Nil
<1>2. CASE p = <<>>
  BY <1>1, <1>2, RootIsPlace
<1>3. CASE p # <<>>
  <2>1. PICK n : n = Len(p) /\ n \in Nat
    BY <1>1, PlaceIsSeq
  <2>2. Up(p) \in Places /\ Len(Up(p)) = n - 1
    BY <1>1, <1>3, <2>1, UpIsPlace
  <2>3. Child(At(v, Up(p)), p[n]) # Nil
    BY <1>1, <1>3, <2>1, AtUp
  <2>4. IsContainer(At(v, Up(p)))
    BY <2>3 DEF Child
  <2>5. n - 1 < d
    BY <2>2, <2>4 DEF Fits
  <2> QED
    BY <1>1, <2>1, <2>5
<1> QED
  BY <1>2, <1>3

(* Appending an element adds its references.                                  *)
LEMMA AppendAdds ==
    ASSUME NEW b, NEW v, NEW w, NEW e, NEW S, IsContainer(v), IsContainer(w),
           v.elems \in Seq(S), w.elems = Append(v.elems, e),
           Len(v.elems) < MaxLen, Fits(e, MaxDepth - 1)
    PROVE  Refs(b, w) = Refs(b, v) + Refs(b, e)
<1>1. PICK n : n = Len(v.elems)
  OBVIOUS
<1>2. /\ n \in Nat /\ n + 1 \in 1 .. MaxLen /\ DOMAIN v.elems = 1 .. n /\ MaxDepth - 1 \in Nat
      /\ MaxLen \in Nat
  BY <1>1, LenProperties, ValueBounds
<1>3. /\ DOMAIN w.elems = 1 .. n + 1 /\ w.elems[n + 1] = e
      /\ \A j \in 1 .. n : w.elems[j] = v.elems[j]
  <2>1. v.elems \in Seq(S \cup {e}) /\ e \in S \cup {e}
    BY SeqMonotonic
  <2>2. /\ w.elems \in Seq(S \cup {e}) /\ Len(w.elems) = n + 1 /\ w.elems[n + 1] = e
        /\ \A j \in 1 .. n : w.elems[j] = v.elems[j]
    BY <1>1, <2>1, AppendProperties
  <2> QED
    BY <2>2, LenProperties
<1>4. /\ Child(w, n + 1) = e /\ Child(v, n + 1) = Nil
      /\ \A j \in 1 .. MaxLen : j # n + 1 => Child(w, j) = Child(v, j)
  <2>1. n + 1 \in 1 .. n + 1 /\ n + 1 \notin 1 .. n
    BY <1>2
  <2>2. \A j \in 1 .. MaxLen : j # n + 1 => (j \in 1 .. n + 1 <=> j \in 1 .. n)
    BY <1>2
  <2> QED
    BY <1>2, <1>3, <2>1, <2>2 DEF Child
<1>5. PICK E : E = {Enter(n + 1, q) : q \in References(b, e)}
  OBVIOUS
<1>6. ASSUME NEW q \in References(b, e)
      PROVE  /\ q \in Places /\ Len(q) < MaxDepth
             /\ Enter(n + 1, q) \in Places /\ Down(Enter(n + 1, q)) = q
             /\ Enter(n + 1, q) # <<>>
             /\ At(w, Enter(n + 1, q)) = Str(b) /\ At(v, Enter(n + 1, q)) = Nil
  <2>1. q \in Places /\ Len(q) <= MaxDepth - 1 /\ At(e, q) = Str(b)
    BY <1>2, ReferenceNotDeep DEF References
  <2>2. Len(q) < MaxDepth /\ Len(q) + 1 > 0
    BY <2>1, PlaceIsSeq, ValueBounds
  <2>3. /\ Enter(n + 1, q) \in Places /\ Len(Enter(n + 1, q)) = Len(q) + 1
        /\ Down(Enter(n + 1, q)) = q
    BY <1>2, <2>1, <2>2, EnterIsPlace
  <2>4. Enter(n + 1, q) # <<>>
    BY <2>2, <2>3, RootIsPlace
  <2>5. /\ At(w, Enter(n + 1, q)) = At(Child(w, n + 1), q)
        /\ At(v, Enter(n + 1, q)) = At(Child(v, n + 1), q)
    BY <1>2, <2>1, <2>2, AtEnter
  <2> QED
    BY <1>4, <2>1, <2>2, <2>3, <2>4, <2>5, AtNil
<1>7. References(b, w) = References(b, v) \cup E
  <2>1. ASSUME NEW p \in Places
        PROVE  At(w, p) = Str(b) <=> At(v, p) = Str(b) \/ p \in E
    <3>1. CASE p = <<>>
      <4>1. p \notin E
        BY <1>5, <1>6, <3>1
      <4> QED
        BY <3>1, <4>1, AtRoot, ContainerIsNoString
    <3>2. CASE p # <<>>
      <4>1. PICK j, q : j = p[1] /\ q = Down(p)
        OBVIOUS
      <4>2. /\ q \in Places /\ Len(q) < MaxDepth /\ j \in 1 .. MaxLen
            /\ p = Enter(j, q)
        BY <3>2, <4>1, DownIsPlace
      <4>3. At(v, p) = At(Child(v, j), q) /\ At(w, p) = At(Child(w, j), q)
        BY <4>2, AtEnter
      <4>4. CASE j = n + 1
        <5>1. At(w, p) = Str(b) <=> q \in References(b, e)
          BY <1>4, <4>2, <4>3, <4>4 DEF References
        <5>2. At(v, p) = Nil /\ Nil # Str(b)
          BY <1>4, <4>2, <4>3, <4>4, AtNil DEF Nil, Str
        <5>3. p \in E <=> q \in References(b, e)
          <6>1. q \in References(b, e) => p \in E
            BY <1>5, <4>2, <4>4
          <6>2. ASSUME p \in E PROVE q \in References(b, e)
            <7>1. PICK r \in References(b, e) : p = Enter(n + 1, r)
              BY <1>5, <6>2
            <7>2. Down(p) = r
              BY <1>6, <7>1
            <7> QED
              BY <4>1, <7>2
          <6> QED
            BY <6>1, <6>2
        <5> QED
          BY <5>1, <5>2, <5>3
      <4>5. CASE j # n + 1
        <5>1. At(w, p) = At(v, p)
          BY <1>4, <4>2, <4>3, <4>5
        <5>2. p \notin E
          <6>1. SUFFICES ASSUME NEW r \in References(b, e), p = Enter(n + 1, r)
                         PROVE  FALSE
            BY <1>5
          <6>2. p[1] = n + 1
            BY <1>2, <1>6, <6>1, EnterIsPlace
          <6> QED
            BY <4>1, <4>5, <6>2
        <5> QED
          BY <5>1, <5>2
      <4> QED
        BY <4>4, <4>5
    <3> QED
      BY <3>1, <3>2
  <2>2. E \subseteq Places
    BY <1>5, <1>6
  <2> QED
    BY <2>1, <2>2 DEF References
<1>8. References(b, v) \cap E = {}
  <2>1. Nil # Str(b)
    BY DEF Nil, Str
  <2> QED
    BY <1>5, <1>6, <2>1 DEF References
<1>9. IsFiniteSet(E) /\ Cardinality(E) = Refs(b, e)
  <2>1. PICK f : f = [q \in References(b, e) |-> Enter(n + 1, q)]
    OBVIOUS
  <2>2. f \in Bijection(References(b, e), E)
    <3>1. f \in [References(b, e) -> E]
      BY <1>5, <2>1
    <3>2. \A q, r \in References(b, e) : f[q] = f[r] => q = r
      <4>1. \A q \in References(b, e) : Down(f[q]) = q
        BY <1>6, <2>1
      <4> QED
        BY <4>1
    <3>3. \A p \in E : \E q \in References(b, e) : f[q] = p
      BY <1>5, <2>1
    <3> QED
      BY <3>1, <3>2, <3>3, Fun_IsBij
  <2>3. ExistsBijection(References(b, e), E)
    BY <2>2 DEF ExistsBijection
  <2> QED
    BY <2>3, ReferencesFinite, FS_Bijection DEF Refs
<1>10. Cardinality(References(b, v) \cup E) = Cardinality(References(b, v)) + Cardinality(E) - 0
  <2>1. Cardinality(References(b, v) \cap E) = 0
    BY <1>8, FS_EmptySet
  <2> QED
    BY <1>9, <2>1, ReferencesFinite, FS_Union
<1>11. Refs(b, w) = Refs(b, v) + Refs(b, e) - 0
  BY <1>7, <1>9, <1>10 DEF Refs
<1> QED
  BY <1>11, ReferencesFinite

(***************************************************************************)
(* Trees.                                                                  *)
(***************************************************************************)

Proper(v, d) == IsTree(v) /\ Fits(v, d)

LEMMA Leaf ==
    ASSUME NEW v, IsNode(v), IsContainer(v) => v.elems = <<>>, NEW d \in 0 .. MaxDepth,
           IsContainer(v) => d # 0
    PROVE  Proper(v, d)
<1>1. d \in Nat /\ MaxDepth \in Nat /\ d <= MaxDepth
  BY ValueBounds
<1>2. IsNode(Nil) /\ ~IsContainer(Nil)
  BY DEF IsNode, IsContainer, Nil
<1>3. \A p \in Places : p # <<>> => At(v, p) = Nil
  BY BelowNothing
<1>4. \A p \in Places : IsNode(At(v, p))
  BY <1>2, <1>3, AtRoot
<1>5. \A p \in Places : IsContainer(At(v, p)) => p = <<>> /\ IsContainer(v)
  BY <1>2, <1>3, AtRoot
<1>6. \A p \in Places : IsContainer(At(v, p)) => Len(p) = 0 /\ 0 < d /\ 0 < MaxDepth
  BY <1>1, <1>5, RootIsPlace
<1> QED
  BY <1>4, <1>6 DEF Proper, IsTree, Fits

LEMMA SmallTrees ==
    /\ \A d \in 0 .. MaxDepth : Proper(Nil, d)
    /\ \A d \in 0 .. MaxDepth, b \in Bufs \cup {NoBuf} : Proper(Str(b), d)
    /\ \A d \in 1 .. MaxDepth : Proper(Arr(<<>>), d) /\ Proper(Obj(FALSE, <<>>), d)
<1>1. IsNode(Nil) /\ ~IsContainer(Nil)
  BY DEF IsNode, IsContainer, Nil
<1>2. \A b \in Bufs \cup {NoBuf} : IsNode(Str(b)) /\ ~IsContainer(Str(b))
  BY DEF IsNode, IsContainer, Str
<1>3. ASSUME NEW v \in {Arr(<<>>), Obj(FALSE, <<>>)}
      PROVE  IsNode(v) /\ v.elems = <<>>
  <2>1. IsContainer(v) /\ v.elems = <<>> /\ v \in {Arr(v.elems), Obj(TRUE, v.elems), Obj(FALSE, v.elems)}
    BY DEF IsContainer, Arr, Obj
  <2>2. <<>> \in Seq(ToSet(<<>>)) /\ Len(<<>>) = 0 /\ 0 <= MaxLen /\ 0 % 2 = 0
    BY EmptySeq, ValueBounds
  <2> QED
    BY <2>1, <2>2 DEF IsNode
<1>4. \A d \in 1 .. MaxDepth : d \in 0 .. MaxDepth /\ d # 0
  BY ValueBounds
<1> QED
  BY <1>1, <1>2, <1>3, <1>4, Leaf

LEMMA ContainerNode ==
    ASSUME NEW v, IsNode(v), IsContainer(v)
    PROVE  /\ v \in {Arr(v.elems), Obj(TRUE, v.elems), Obj(FALSE, v.elems)}
           /\ v.elems \in Seq(ToSet(v.elems)) /\ Len(v.elems) <= MaxLen /\ Len(v.elems) \in Nat
           /\ DOMAIN v.elems = 1 .. Len(v.elems)
           /\ v.type = "obj" => Len(v.elems) % 2 = 0
<1>1. /\ v \in {Arr(v.elems), Obj(TRUE, v.elems), Obj(FALSE, v.elems)}
      /\ v.elems \in Seq(ToSet(v.elems)) /\ Len(v.elems) <= MaxLen
      /\ v.type = "obj" => Len(v.elems) % 2 = 0
  <2>1. v # Nil /\ \A b \in Bufs \cup {NoBuf} : v # Str(b)
    BY DEF IsContainer, Nil, Str
  <2> QED
    BY <2>1 DEF IsNode
<1> QED
  BY <1>1, LenProperties

(* The elements of a tree are trees, and less deep.                           *)
LEMMA Elements ==
    ASSUME NEW v, NEW d \in 0 .. MaxDepth, Proper(v, d), IsContainer(v), NEW j \in DOMAIN v.elems
    PROVE  d \in 1 .. MaxDepth /\ Proper(v.elems[j], d - 1)
<1>1. d \in Nat /\ MaxDepth \in Nat /\ d <= MaxDepth /\ MaxLen \in Nat
  BY ValueBounds
<1>2. d > 0
  <2>1. IsContainer(At(v, <<>>)) => Len(<<>>) < d
    BY RootIsPlace DEF Proper, Fits
  <2> QED
    BY <1>1, <2>1, AtRoot, RootIsPlace
<1>3. j \in 1 .. MaxLen /\ Child(v, j) = v.elems[j]
  <2>1. IsNode(v)
    BY AtRoot, RootIsPlace DEF Proper, IsTree
  <2>2. DOMAIN v.elems = 1 .. Len(v.elems) /\ Len(v.elems) \in Nat /\ Len(v.elems) <= MaxLen
    BY <2>1, ContainerNode
  <2> QED
    BY <1>1, <2>2 DEF Child
<1>4. ASSUME NEW p \in Places, Len(p) < MaxDepth
      PROVE  /\ IsNode(At(v.elems[j], p))
             /\ IsContainer(At(v.elems[j], p)) => Len(p) < d - 1
  <2>1. Enter(j, p) \in Places /\ Len(Enter(j, p)) = Len(p) + 1 /\ Len(p) \in Nat
    BY <1>3, <1>4, EnterIsPlace, PlaceIsSeq
  <2>2. At(v, Enter(j, p)) = At(v.elems[j], p)
    BY <1>3, <1>4, AtEnter
  <2>3. IsNode(At(v, Enter(j, p)))
    BY <2>1 DEF Proper, IsTree
  <2>4. IsContainer(At(v, Enter(j, p))) => Len(p) + 1 < d
    BY <2>1 DEF Proper, Fits
  <2>5. Len(p) + 1 < d => Len(p) < d - 1
    BY <1>1, <2>1
  <2> QED
    BY <2>2, <2>3, <2>4, <2>5
<1>5. ASSUME NEW p \in Places, ~(Len(p) < MaxDepth)
      PROVE  At(v.elems[j], p) = Nil
  <2>1. p # <<>>
    BY <1>5, RootIsPlace, ValueBounds
  <2>2. Up(p) \in Places /\ Len(Up(p)) = Len(p) - 1 /\ Len(Up(p)) < MaxDepth
    BY <2>1, UpIsPlace
  <2>3. IsContainer(At(v.elems[j], Up(p))) => Len(p) - 1 < d - 1
    BY <1>4, <2>2
  <2>4. ~IsContainer(At(v.elems[j], Up(p)))
    BY <1>1, <1>5, <2>3, PlaceIsSeq
  <2>5. Child(At(v.elems[j], Up(p)), p[Len(p)]) = Nil
    BY <2>4 DEF Child
  <2> QED
    BY <2>1, <2>5, AtUp
<1>6. IsNode(Nil) /\ ~IsContainer(Nil)
  BY DEF IsNode, IsContainer, Nil
<1>7. \A p \in Places : IsNode(At(v.elems[j], p))
  BY <1>4, <1>5, <1>6
<1>8. \A p \in Places : IsContainer(At(v.elems[j], p)) => Len(p) < d - 1 /\ Len(p) < MaxDepth
  BY <1>4, <1>5, <1>6
<1>9. d \in 1 .. MaxDepth
  BY <1>1, <1>2
<1> QED
  BY <1>7, <1>8, <1>9 DEF Proper, IsTree, Fits

(* An array or object of trees is a tree.                                     *)
LEMMA Container ==
    ASSUME NEW v, IsNode(v), IsContainer(v), NEW d \in 1 .. MaxDepth,
           \A j \in DOMAIN v.elems : Proper(v.elems[j], d - 1)
    PROVE  Proper(v, d)
<1>1. d \in Nat /\ MaxDepth \in Nat /\ d <= MaxDepth /\ d > 0
  BY ValueBounds
<1>2. IsNode(Nil) /\ ~IsContainer(Nil)
  BY DEF IsNode, IsContainer, Nil
<1>3. ASSUME NEW p \in Places
      PROVE  IsNode(At(v, p)) /\ (IsContainer(At(v, p)) => Len(p) < d /\ Len(p) < MaxDepth)
  <2>1. CASE p = <<>>
    BY <1>1, <2>1, AtRoot, RootIsPlace
  <2>2. CASE p # <<>>
    <3>1. PICK j, q : j = p[1] /\ q = Down(p)
      OBVIOUS
    <3>2. /\ q \in Places /\ Len(q) < MaxDepth /\ j \in 1 .. MaxLen
          /\ p = Enter(j, q) /\ Len(q) = Len(p) - 1
      BY <2>2, <3>1, DownIsPlace
    <3>3. At(v, p) = At(Child(v, j), q)
      BY <3>2, AtEnter
    <3>4. CASE j \in DOMAIN v.elems
      <4>1. Child(v, j) = v.elems[j] /\ Proper(v.elems[j], d - 1)
        BY <3>4 DEF Child
      <4>2. IsNode(At(v, p)) /\ (IsContainer(At(v, p)) => Len(q) < d - 1)
        BY <3>2, <3>3, <4>1 DEF Proper, IsTree, Fits
      <4>3. Len(q) < d - 1 => Len(p) < d /\ Len(p) < MaxDepth
        BY <1>1, <3>2, PlaceIsSeq
      <4> QED
        BY <4>2, <4>3
    <3>5. CASE j \notin DOMAIN v.elems
      <4>1. Child(v, j) = Nil
        BY <3>5 DEF Child
      <4> QED
        BY <1>2, <3>2, <3>3, <4>1, AtNil
    <3> QED
      BY <3>4, <3>5
  <2> QED
    BY <2>1, <2>2
<1> QED
  BY <1>3 DEF Proper, IsTree, Fits

LEMMA ArrayNode ==
    ASSUME NEW S, NEW s \in Seq(S), Len(s) <= MaxLen
    PROVE  /\ IsNode(Arr(s)) /\ IsContainer(Arr(s)) /\ Arr(s).elems = s
           /\ \A m \in BOOLEAN :
                 /\ IsContainer(Obj(m, s)) /\ Obj(m, s).elems = s
                 /\ Len(s) % 2 = 0 => IsNode(Obj(m, s))
<1>1. /\ IsContainer(Arr(s)) /\ Arr(s).elems = s /\ Arr(s).type = "arr"
      /\ \A m \in BOOLEAN :
            IsContainer(Obj(m, s)) /\ Obj(m, s).elems = s /\ Obj(m, s).type = "obj"
  BY DEF IsContainer, Arr, Obj
<1>2. s \in Seq(ToSet(s))
  <2>1. Len(s) \in Nat /\ s \in [1 .. Len(s) -> S] /\ DOMAIN s = 1 .. Len(s)
    BY LenProperties
  <2>2. s \in [1 .. Len(s) -> ToSet(s)]
    BY <2>1 DEF ToSet
  <2> QED
    BY <2>1, <2>2, SeqDef
<1> QED
  BY <1>1, <1>2 DEF IsNode

(* Every value in a tree is a tree.                                           *)
LEMMA SubTree ==
    ASSUME NEW v, IsTree(v), NEW p \in Places
    PROVE  MaxDepth - Len(p) \in 0 .. MaxDepth /\ Proper(At(v, p), MaxDepth - Len(p))
<1>1. MaxDepth \in Nat
  BY ValueBounds
<1> DEFINE T == {n \in Nat : \A q \in Places : Len(q) = n =>
                    MaxDepth - n \in 0 .. MaxDepth /\ Proper(At(v, q), MaxDepth - n)}
<1>2. 0 \in T
  <2>1. \A q \in Places : Len(q) = 0 => q = <<>>
    BY DownIsPlace
  <2>2. Proper(v, MaxDepth - 0) /\ MaxDepth - 0 \in 0 .. MaxDepth
    <3>1. MaxDepth - 0 = MaxDepth
      BY <1>1
    <3>2. Proper(v, MaxDepth)
      BY DEF Proper, IsTree
    <3> QED
      BY <1>1, <3>1, <3>2
  <2> QED
    BY <2>1, <2>2, AtRoot
<1>3. ASSUME NEW n \in T
      PROVE  n + 1 \in T
  <2>1. SUFFICES ASSUME NEW q \in Places, Len(q) = n + 1
                 PROVE  MaxDepth - (n + 1) \in 0 .. MaxDepth /\ Proper(At(v, q), MaxDepth - (n + 1))
    OBVIOUS
  <2>2. q # <<>> /\ n \in Nat
    BY <2>1, RootIsPlace
  <2>3. Up(q) \in Places /\ Len(Up(q)) = n /\ n < MaxDepth
    BY <2>1, <2>2, UpIsPlace
  <2>4. PICK w, j : w = At(v, Up(q)) /\ j = q[Len(q)]
    OBVIOUS
  <2>5. MaxDepth - n \in 0 .. MaxDepth /\ Proper(w, MaxDepth - n) /\ At(v, q) = Child(w, j)
    BY <2>2, <2>3, <2>4, AtUp
  <2>6. /\ MaxDepth - (n + 1) \in 0 .. MaxDepth
        /\ (MaxDepth - n) - 1 = MaxDepth - (n + 1)
    BY <1>1, <2>2, <2>3
  <2>7. CASE IsContainer(w) /\ j \in DOMAIN w.elems
    <3>1. Proper(w.elems[j], (MaxDepth - n) - 1)
      BY <2>5, <2>7, Elements
    <3> QED
      BY <2>5, <2>6, <2>7, <3>1 DEF Child
  <2>8. CASE ~(IsContainer(w) /\ j \in DOMAIN w.elems)
    <3>1. At(v, q) = Nil
      BY <2>5, <2>8 DEF Child
    <3> QED
      BY <2>6, <3>1, SmallTrees
  <2> QED
    BY <2>6, <2>7, <2>8
<1>4. T = Nat
  <2> HIDE DEF T
  <2>1. T \in SUBSET Nat
    BY DEF T
  <2> QED
    BY <1>2, <1>3, <2>1, Numbers
<1> QED
  BY <1>4, PlaceIsSeq

(***************************************************************************)
(* Clones.                                                                 *)
(***************************************************************************)

LEMMA CopyIsTree ==
    ASSUME NEW v, IsTree(v), NEW lost, NEW below, NEW n \in 0 .. MaxDepth,
           NEW p \in OnLevel(MaxDepth - n),
           \A q \in Places : Len(q) = Len(p) + 1 => n # 0 /\ Proper(below[q], n - 1)
    PROVE  Proper(Copy(v, lost, below, p), n)
<1>1. n \in Nat /\ MaxDepth \in Nat /\ MaxLen \in Nat
  BY ValueBounds
<1>2. p \in Places /\ Len(p) = MaxDepth - n /\ MaxDepth - Len(p) = n /\ Len(p) \in Nat
  BY <1>1 DEF OnLevel
<1>3. PICK w : w = At(v, p)
  OBVIOUS
<1>4. Proper(w, n)
  BY <1>2, <1>3, SubTree
<1>5. CASE w.type # "arr"
  BY <1>3, <1>4, <1>5 DEF Copy
<1>6. CASE w.type = "arr"
  <2>1. IsContainer(w) /\ IsNode(w)
    BY <1>4, <1>6, AtRoot, RootIsPlace DEF IsContainer, Proper, IsTree
  <2>2. n > 0
    <3>1. Len(<<>>) < n
      BY <1>4, <2>1, AtRoot, RootIsPlace DEF Proper, Fits
    <3> QED
      BY <3>1, RootIsPlace
  <2>3. n \in 1 .. MaxDepth
    BY <1>1, <2>2
  <2>4. CASE p \in lost
    BY <1>3, <1>6, <2>3, <2>4, SmallTrees DEF Copy
  <2>5. CASE p \notin lost
    <3>1. PICK k, s : k = Len(w.elems) /\ s = [j \in 1 .. k |-> below[Append(p, j)]]
      OBVIOUS
    <3>2. k \in Nat /\ k <= MaxLen /\ DOMAIN w.elems = 1 .. k
      BY <2>1, <3>1, ContainerNode
    <3>3. Copy(v, lost, below, p) = Arr(s)
      BY <1>3, <1>6, <2>5, <3>1, <3>2 DEF Copy
    <3>4. \A j \in 1 .. k : Proper(s[j], n - 1)
      <4>1. ASSUME NEW j \in 1 .. k
            PROVE  Append(p, j) \in Places /\ Len(Append(p, j)) = Len(p) + 1
        <5>1. j \in 1 .. MaxLen /\ p \in Seq(1 .. MaxLen)
          BY <1>1, <1>2, <3>2, PlaceIsSeq
        <5>2. Append(p, j) \in Seq(1 .. MaxLen) /\ Len(Append(p, j)) = Len(p) + 1
          BY <5>1, AppendProperties
        <5>3. Append(p, j) \in [1 .. Len(p) + 1 -> 1 .. MaxLen]
          BY <5>2, LenProperties
        <5>4. Len(p) + 1 \in 0 .. MaxDepth
          BY <1>1, <1>2, <2>2
        <5> QED
          BY <5>2, <5>3, <5>4, PlaceMade
      <4> QED
        BY <3>1, <4>1
    <3>5. s \in Seq({s[j] : j \in 1 .. k}) /\ Len(s) = k /\ DOMAIN s = 1 .. k
      <4>1. s \in [1 .. k -> {s[j] : j \in 1 .. k}]
        BY <3>1
      <4>2. s \in Seq({s[j] : j \in 1 .. k})
        BY <3>2, <4>1, SeqDef
      <4>3. Len(s) \in Nat /\ DOMAIN s = 1 .. Len(s) /\ DOMAIN s = 1 .. k
        BY <3>1, <4>2, LenProperties
      <4> QED
        BY <3>2, <4>2, <4>3, SameInterval
    <3>6. IsNode(Arr(s)) /\ IsContainer(Arr(s)) /\ Arr(s).elems = s
      BY <3>2, <3>5, ArrayNode
    <3> QED
      BY <2>3, <3>3, <3>4, <3>5, <3>6, Container
  <2> QED
    BY <2>4, <2>5
<1> QED
  BY <1>5, <1>6

(* The copies of what is on the lowest n levels.                              *)
LevelOf(v, lost, f, m) ==
    [p \in OnLevel(MaxDepth - m) |-> Copy(v, lost, IF m = 0 THEN <<>> ELSE f[m - 1], p)]
Copied(v, lost, n, f) ==
    /\ f = [m \in 0 .. n |-> f[m]]
    /\ \A m \in 0 .. n : f[m] = LevelOf(v, lost, f, m)

LEMMA CopiesExist ==
    ASSUME NEW v, NEW lost, NEW n \in Nat
    PROVE  \E f : Copied(v, lost, n, f)
<1> DEFINE T == {m \in Nat : \E f : Copied(v, lost, m, f)}
<1>1. 0 \in T
  <2>1. PICK f : f = [m \in 0 .. 0 |-> [p \in OnLevel(MaxDepth - 0) |-> Copy(v, lost, <<>>, p)]]
    OBVIOUS
  <2>2. f = [m \in 0 .. 0 |-> f[m]] /\ f[0] = [p \in OnLevel(MaxDepth - 0) |-> Copy(v, lost, <<>>, p)]
    BY <2>1
  <2>3. f[0] = LevelOf(v, lost, f, 0)
    BY <2>2 DEF LevelOf
  <2>4. \A m \in 0 .. 0 : m = 0
    OBVIOUS
  <2>5. Copied(v, lost, 0, f)
    BY <2>2, <2>3, <2>4 DEF Copied
  <2> QED
    BY <2>5
<1>2. ASSUME NEW m \in T
      PROVE  m + 1 \in T
  <2>1. PICK f : Copied(v, lost, m, f)
    OBVIOUS
  <2>2. PICK g : g = [k \in 0 .. m + 1 |-> IF k = m + 1 THEN LevelOf(v, lost, f, m + 1) ELSE f[k]]
    OBVIOUS
  <2>3. m \in Nat
    OBVIOUS
  <2>4. /\ g = [k \in 0 .. m + 1 |-> g[k]]
        /\ g[m + 1] = LevelOf(v, lost, f, m + 1)
        /\ \A k \in 0 .. m : g[k] = f[k]
    BY <2>2, <2>3
  <2>5. ASSUME NEW k \in 0 .. m + 1
        PROVE  g[k] = LevelOf(v, lost, g, k)
    <3>1. LevelOf(v, lost, f, k) = LevelOf(v, lost, g, k)
      <4>1. k # 0 => k - 1 \in 0 .. m
        BY <2>3
      <4>2. k # 0 => f[k - 1] = g[k - 1]
        BY <2>4, <4>1
      <4> QED
        BY <4>2 DEF LevelOf
    <3>2. CASE k = m + 1
      BY <2>4, <3>1, <3>2
    <3>3. CASE k # m + 1
      <4>1. k \in 0 .. m
        BY <2>3, <3>3
      <4>2. f[k] = LevelOf(v, lost, f, k)
        BY <2>1, <4>1 DEF Copied
      <4> QED
        BY <2>4, <3>1, <4>1, <4>2
    <3> QED
      BY <3>2, <3>3
  <2>6. Copied(v, lost, m + 1, g)
    BY <2>4, <2>5 DEF Copied
  <2> QED
    BY <2>3, <2>6
<1>3. T = Nat
  <2> HIDE DEF T
  <2>1. T \in SUBSET Nat
    BY DEF T
  <2> QED
    BY <1>1, <1>2, <2>1, Numbers
<1> QED
  BY <1>3

LEMMA CopiesAreTrees ==
    ASSUME NEW v, IsTree(v), NEW lost, NEW f, Copied(v, lost, MaxDepth, f)
    PROVE  \A p \in OnLevel(0) : Proper(f[MaxDepth][p], MaxDepth)
<1>1. MaxDepth \in Nat
  BY ValueBounds
<1> DEFINE T == {n \in Nat : n <= MaxDepth => \A p \in OnLevel(MaxDepth - n) : Proper(f[n][p], n)}
<1>2. 0 \in T
  <2>1. SUFFICES ASSUME NEW p \in OnLevel(MaxDepth - 0) PROVE Proper(f[0][p], 0)
    OBVIOUS
  <2>2. f[0] = LevelOf(v, lost, f, 0) /\ 0 \in 0 .. MaxDepth
    BY <1>1 DEF Copied
  <2>3. f[0][p] = Copy(v, lost, <<>>, p)
    BY <2>2 DEF LevelOf
  <2>4. \A q \in Places : Len(q) # Len(p) + 1
    <3>1. Len(p) = MaxDepth - 0
      BY DEF OnLevel
    <3> QED
      BY <1>1, <3>1, PlaceIsSeq
  <2> QED
    BY <2>2, <2>3, <2>4, CopyIsTree
<1>3. ASSUME NEW n \in T
      PROVE  n + 1 \in T
  <2>1. SUFFICES ASSUME n + 1 <= MaxDepth, NEW p \in OnLevel(MaxDepth - (n + 1))
                 PROVE  Proper(f[n + 1][p], n + 1)
    OBVIOUS
  <2>2. n \in Nat /\ n + 1 \in 0 .. MaxDepth /\ n + 1 # 0 /\ (n + 1) - 1 = n /\ n <= MaxDepth
    BY <1>1, <2>1
  <2>3. f[n + 1] = LevelOf(v, lost, f, n + 1)
    BY <2>2 DEF Copied
  <2>4. f[n + 1][p] = Copy(v, lost, f[n], p)
    BY <2>2, <2>3 DEF LevelOf
  <2>5. ASSUME NEW q \in Places, Len(q) = Len(p) + 1
        PROVE  Proper(f[n][q], (n + 1) - 1)
    <3>1. Len(p) = MaxDepth - (n + 1)
      BY DEF OnLevel
    <3>2. Len(q) = MaxDepth - n
      BY <1>1, <2>2, <2>5, <3>1
    <3>3. q \in OnLevel(MaxDepth - n)
      BY <3>2 DEF OnLevel
    <3> QED
      BY <2>2, <3>3
  <2> QED
    BY <2>2, <2>4, <2>5, CopyIsTree
<1>4. T = Nat
  <2> HIDE DEF T
  <2>1. T \in SUBSET Nat
    BY DEF T
  <2> QED
    BY <1>2, <1>3, <2>1, Numbers
<1>5. MaxDepth \in T /\ MaxDepth - MaxDepth = 0
  BY <1>1, <1>4
<1> QED
  BY <1>1, <1>5

(* A clone of a tree is a tree, whatever blocks could not be copied.          *)
LEMMA ClonesAreTrees ==
    ASSUME NEW v, IsTree(v), NEW w \in Clones(v)
    PROVE  IsTree(w)
<1>1. MaxDepth \in Nat
  BY ValueBounds
<1>2. PICK lost : w = CloneWithout(v, lost)
  BY DEF Clones
<1> DEFINE Solves(f) == f = [n \in 0 .. MaxDepth |->
                               [p \in OnLevel(MaxDepth - n) |->
                                  Copy(v, lost, IF n = 0 THEN <<>> ELSE f[n - 1], p)]]
<1>3. \E f : Solves(f)
  <2>1. PICK f : Copied(v, lost, MaxDepth, f)
    BY <1>1, CopiesExist
  <2>2. Solves(f)
    BY <2>1 DEF Copied, LevelOf
  <2> QED
    BY <2>2
<1>4. PICK f : f = CHOOSE g : Solves(g)
  OBVIOUS
<1>5. Solves(f)
  <2> HIDE DEF Solves
  <2> QED
    BY <1>3, <1>4, Zenon
<1>6. Copied(v, lost, MaxDepth, f)
  <2>1. \A n \in 0 .. MaxDepth : f[n] = LevelOf(v, lost, f, n)
    BY <1>5 DEF LevelOf
  <2>2. f = [n \in 0 .. MaxDepth |-> LevelOf(v, lost, f, n)]
    BY <1>5 DEF LevelOf
  <2>3. f = [n \in 0 .. MaxDepth |-> f[n]]
    BY <2>1, <2>2
  <2> QED
    BY <2>1, <2>3 DEF Copied
<1>7. w = f[MaxDepth][<<>>]
  BY <1>2, <1>4 DEF CloneWithout
<1>8. <<>> \in OnLevel(0)
  BY RootIsPlace DEF OnLevel
<1>9. Proper(f[MaxDepth][<<>>], MaxDepth)
  BY <1>6, <1>8, CopiesAreTrees
<1> QED
  BY <1>7, <1>9 DEF Proper

(***************************************************************************)
(* Elements put behind one another.                                        *)
(***************************************************************************)

Parts(s) == \A j \in DOMAIN s : Proper(s[j], MaxDepth - 1)

LEMMA ArrayOfParts ==
    ASSUME NEW S, NEW s \in Seq(S), Len(s) <= MaxLen, Parts(s)
    PROVE  /\ IsTree(Arr(s))
           /\ \A m \in BOOLEAN : Len(s) % 2 = 0 => IsTree(Obj(m, s))
<1>1. MaxDepth \in 1 .. MaxDepth
  BY ValueBounds
<1>2. /\ IsNode(Arr(s)) /\ IsContainer(Arr(s)) /\ Arr(s).elems = s
      /\ \A m \in BOOLEAN :
            /\ IsContainer(Obj(m, s)) /\ Obj(m, s).elems = s
            /\ Len(s) % 2 = 0 => IsNode(Obj(m, s))
  BY ArrayNode
<1>3. Proper(Arr(s), MaxDepth)
  BY <1>1, <1>2, Container DEF Parts
<1>4. \A m \in BOOLEAN : Len(s) % 2 = 0 => Proper(Obj(m, s), MaxDepth)
  BY <1>1, <1>2, Container DEF Parts
<1> QED
  BY <1>3, <1>4 DEF Proper

LEMMA PartsOfArray ==
    ASSUME NEW v, IsTree(v), IsContainer(v)
    PROVE  /\ v.elems \in Seq(ToSet(v.elems)) /\ Len(v.elems) <= MaxLen /\ Len(v.elems) \in Nat
           /\ DOMAIN v.elems = 1 .. Len(v.elems)
           /\ Parts(v.elems)
           /\ v.type = "arr" => v = Arr(v.elems)
           /\ v.type = "obj" => v.messy \in BOOLEAN /\ v = Obj(v.messy, v.elems) /\ Len(v.elems) % 2 = 0
<1>1. IsNode(v)
  BY AtRoot, RootIsPlace DEF IsTree
<1>2. MaxDepth \in 0 .. MaxDepth /\ Proper(v, MaxDepth)
  BY ValueBounds DEF Proper, IsTree
<1>3. Parts(v.elems)
  BY <1>2, Elements DEF Parts
<1>4. /\ Arr(v.elems).type = "arr"
      /\ \A m \in BOOLEAN : Obj(m, v.elems).type = "obj" /\ Obj(m, v.elems).messy = m
  BY DEF Arr, Obj
<1> QED
  BY <1>1, <1>3, <1>4, ContainerNode

(* What can be put into an array: a tree one level less deep.                 *)
LEMMA MayBePart ==
    ASSUME NEW v, IsTree(v), Fits(v, MaxDepth - 1)
    PROVE  Proper(v, MaxDepth - 1)
BY DEF Proper

LEMMA AppendPart ==
    ASSUME NEW S, NEW s \in Seq(S), Parts(s), NEW e, Proper(e, MaxDepth - 1)
    PROVE  /\ Append(s, e) \in Seq(S \cup {e}) /\ Len(Append(s, e)) = Len(s) + 1
           /\ Parts(Append(s, e))
<1>1. s \in Seq(S \cup {e}) /\ e \in S \cup {e}
  BY SeqMonotonic
<1>2. PICK t, n : t = Append(s, e) /\ n = Len(s)
  OBVIOUS
<1>3. /\ t \in Seq(S \cup {e}) /\ Len(t) = n + 1 /\ t[n + 1] = e
      /\ \A j \in 1 .. n : t[j] = s[j]
  BY <1>1, <1>2, AppendProperties
<1>4. n \in Nat /\ DOMAIN s = 1 .. n /\ DOMAIN t = 1 .. n + 1
  BY <1>2, <1>3, LenProperties
<1>5. \A j \in 1 .. n + 1 : j \in 1 .. n \/ j = n + 1
  BY <1>4
<1>6. \A j \in 1 .. n + 1 : Proper(t[j], MaxDepth - 1)
  BY <1>3, <1>4, <1>5 DEF Parts
<1> QED
  BY <1>2, <1>3, <1>4, <1>6 DEF Parts

LEMMA AppendRefs ==
    ASSUME NEW b, NEW S, NEW s \in Seq(S), NEW e, Proper(e, MaxDepth - 1), Len(s) < MaxLen
    PROVE  Refs(b, Arr(Append(s, e))) = Refs(b, Arr(s)) + Refs(b, e)
<1>1. /\ IsContainer(Arr(s)) /\ Arr(s).elems = s
      /\ IsContainer(Arr(Append(s, e))) /\ Arr(Append(s, e)).elems = Append(s, e)
  BY DEF IsContainer, Arr
<1>2. Fits(e, MaxDepth - 1)
  BY DEF Proper
<1>3. PICK v, w : v = Arr(s) /\ w = Arr(Append(s, e))
  OBVIOUS
<1>4. /\ IsContainer(v) /\ IsContainer(w) /\ v.elems \in Seq(S)
      /\ w.elems = Append(v.elems, e) /\ Len(v.elems) < MaxLen
  BY <1>1, <1>3
<1>5. Refs(b, w) = Refs(b, v) + Refs(b, e)
  BY <1>2, <1>4, AppendAdds
<1> QED
  BY <1>3, <1>5

LEMMA PrefixGrows ==
    ASSUME NEW S, NEW s \in Seq(S), NEW n \in Nat, n < Len(s)
    PROVE  /\ SubSeq(s, 1, n) \in Seq(S) /\ Len(SubSeq(s, 1, n)) = n
           /\ n + 1 \in DOMAIN s /\ s[n + 1] \in S
           /\ SubSeq(s, 1, n + 1) = Append(SubSeq(s, 1, n), s[n + 1])
<1>1. PICK k : k = Len(s)
  OBVIOUS
<1>2. k \in Nat /\ DOMAIN s = 1 .. k /\ n + 1 \in 1 .. k /\ \A i \in 1 .. k : s[i] \in S
  BY <1>1, LenProperties
<1>3. PICK t, u : t = SubSeq(s, 1, n) /\ u = SubSeq(s, 1, n + 1)
  OBVIOUS
<1>4. t \in Seq(S) /\ Len(t) = n /\ \A i \in 1 .. n : t[i] = s[i]
  <2>1. \A i \in 1 .. n : s[i] \in S
    BY <1>1, <1>2
  <2>2. (IF 1 <= n THEN n - 1 + 1 ELSE 0) = n /\ n - 1 + 1 = n /\ \A i \in 1 .. n : 1 + i - 1 = i
    OBVIOUS
  <2> QED
    BY <1>3, <2>1, <2>2, SubSeqProperties
<1>5. u \in Seq(S) /\ Len(u) = n + 1 /\ \A i \in 1 .. n + 1 : u[i] = s[i]
  <2>1. \A i \in 1 .. n + 1 : s[i] \in S
    BY <1>1, <1>2
  <2>2. /\ (IF 1 <= n + 1 THEN (n + 1) - 1 + 1 ELSE 0) = n + 1 /\ (n + 1) - 1 + 1 = n + 1
        /\ \A i \in 1 .. n + 1 : 1 + i - 1 = i
    OBVIOUS
  <2> QED
    BY <1>3, <2>1, <2>2, SubSeqProperties
<1>6. /\ Append(t, s[n + 1]) \in Seq(S) /\ Len(Append(t, s[n + 1])) = n + 1
      /\ Append(t, s[n + 1])[n + 1] = s[n + 1]
      /\ \A i \in 1 .. n : Append(t, s[n + 1])[i] = s[i]
  BY <1>2, <1>4, AppendProperties
<1>7. \A i \in 1 .. n + 1 : u[i] = Append(t, s[n + 1])[i]
  <2>1. \A i \in 1 .. n + 1 : i \in 1 .. n \/ i = n + 1
    OBVIOUS
  <2> QED
    BY <1>5, <1>6, <2>1
<1>8. u = Append(t, s[n + 1])
  BY <1>5, <1>6, <1>7, SeqEqual
<1> QED
  BY <1>2, <1>3, <1>4, <1>8

LEMMA WholePrefix ==
    ASSUME NEW S, NEW s \in Seq(S)
    PROVE  SubSeq(s, 1, 0) = <<>> /\ SubSeq(s, 1, Len(s)) = s
BY SubSeqFull, SubSeqEmpty

LEMMA ConcatAppend ==
    ASSUME NEW S, NEW s \in Seq(S), NEW t \in Seq(S), NEW e \in S
    PROVE  s \o Append(t, e) = Append(s \o t, e)
<1>1. <<e>> \in Seq(S)
  <2>1. <<e>> = Append(<<>>, e) /\ <<>> \in Seq(S)
    BY EmptySeq
  <2> QED
    BY <2>1, AppendProperties
<1>2. s \o t \in Seq(S)
  BY ConcatProperties
<1>3. Append(t, e) = t \o <<e>> /\ Append(s \o t, e) = (s \o t) \o <<e>>
  BY <1>2, AppendIsConcat
<1> QED
  BY <1>1, <1>3, ConcatAssociative

LEMMA ConcatRefs ==
    ASSUME NEW b, NEW S, NEW s \in Seq(S), NEW t \in Seq(S), Len(s \o t) <= MaxLen, Parts(t)
    PROVE  Refs(b, Arr(s \o t)) = Refs(b, Arr(s)) + Refs(b, Arr(t))
<1>1. PICK k, n : k = Len(s) /\ n = Len(t)
  OBVIOUS
<1>2. k \in Nat /\ n \in Nat /\ k + n <= MaxLen /\ MaxLen \in Nat
  <2>1. Len(s \o t) = k + n
    BY <1>1, ConcatProperties
  <2> QED
    BY <1>1, <2>1, LenProperties, ValueBounds
<1> DEFINE T == {m \in Nat : m <= n => Refs(b, Arr(s \o SubSeq(t, 1, m)))
                                         = Refs(b, Arr(s)) + Refs(b, Arr(SubSeq(t, 1, m)))}
<1>3. 0 \in T
  <2>1. SubSeq(t, 1, 0) = <<>> /\ s \o <<>> = s
    BY WholePrefix, ConcatEmptySeq
  <2>2. IsContainer(Arr(<<>>)) /\ Arr(<<>>).elems = <<>>
    BY DEF IsContainer, Arr
  <2>3. Refs(b, Arr(<<>>)) = 0
    BY <2>2, EmptyRefersToNothing
  <2>4. Refs(b, Arr(s)) = Refs(b, Arr(s)) + 0
    BY ReferencesFinite
  <2> QED
    BY <2>1, <2>3, <2>4
<1>4. ASSUME NEW m \in T
      PROVE  m + 1 \in T
  <2>1. SUFFICES ASSUME m + 1 <= n
                 PROVE  Refs(b, Arr(s \o SubSeq(t, 1, m + 1)))
                            = Refs(b, Arr(s)) + Refs(b, Arr(SubSeq(t, 1, m + 1)))
    OBVIOUS
  <2>2. m \in Nat /\ m < n /\ m <= n
    BY <1>2, <2>1
  <2>3. PICK u, e : u = SubSeq(t, 1, m) /\ e = t[m + 1]
    OBVIOUS
  <2>4. /\ u \in Seq(S) /\ Len(u) = m /\ m + 1 \in DOMAIN t /\ e \in S
        /\ SubSeq(t, 1, m + 1) = Append(u, e)
    BY <1>1, <2>2, <2>3, PrefixGrows
  <2>5. Proper(e, MaxDepth - 1)
    BY <2>3, <2>4 DEF Parts
  <2>6. s \o u \in Seq(S) /\ Len(s \o u) = k + m /\ k + m < MaxLen /\ m < MaxLen
    BY <1>1, <1>2, <2>2, <2>4, ConcatProperties
  <2>7. Refs(b, Arr(Append(u, e))) = Refs(b, Arr(u)) + Refs(b, e)
    BY <2>4, <2>5, <2>6, AppendRefs
  <2>8. Refs(b, Arr(Append(s \o u, e))) = Refs(b, Arr(s \o u)) + Refs(b, e)
    BY <2>5, <2>6, AppendRefs
  <2>9. Refs(b, Arr(s \o u)) = Refs(b, Arr(s)) + Refs(b, Arr(u))
    BY <2>2, <2>3
  <2>10. s \o Append(u, e) = Append(s \o u, e)
    BY <2>4, ConcatAppend
  <2>11. /\ Refs(b, Arr(s)) \in Nat /\ Refs(b, Arr(u)) \in Nat /\ Refs(b, e) \in Nat
    BY ReferencesFinite
  <2>12. (Refs(b, Arr(s)) + Refs(b, Arr(u))) + Refs(b, e) = Refs(b, Arr(s)) + (Refs(b, Arr(u)) + Refs(b, e))
    BY <2>11
  <2> QED
    BY <2>4, <2>7, <2>8, <2>9, <2>10, <2>12
<1>5. T = Nat
  <2> HIDE DEF T
  <2>1. T \in SUBSET Nat
    BY DEF T
  <2> QED
    BY <1>3, <1>4, <2>1, Numbers
<1>6. SubSeq(t, 1, n) = t
  BY <1>1, WholePrefix
<1>7. n \in T
  BY <1>2, <1>5
<1>8. Refs(b, Arr(s \o SubSeq(t, 1, n))) = Refs(b, Arr(s)) + Refs(b, Arr(SubSeq(t, 1, n)))
  BY <1>2, <1>7
<1> QED
  BY <1>6, <1>8

LEMMA ConcatParts ==
    ASSUME NEW S, NEW s \in Seq(S), NEW t \in Seq(S), Parts(s), Parts(t)
    PROVE  s \o t \in Seq(S) /\ Len(s \o t) = Len(s) + Len(t) /\ Parts(s \o t)
<1>1. PICK k, n, u : k = Len(s) /\ n = Len(t) /\ u = s \o t
  OBVIOUS
<1>2. /\ u \in Seq(S) /\ Len(u) = k + n /\ k \in Nat /\ n \in Nat
      /\ \A j \in 1 .. k + n : u[j] = IF j <= k THEN s[j] ELSE t[j - k]
      /\ DOMAIN u = 1 .. k + n /\ DOMAIN s = 1 .. k /\ DOMAIN t = 1 .. n
  BY <1>1, ConcatProperties, LenProperties
<1>3. \A j \in 1 .. k + n : (j <= k => j \in 1 .. k) /\ (~(j <= k) => j - k \in 1 .. n)
  BY <1>2
<1>4. \A j \in 1 .. k + n : Proper(u[j], MaxDepth - 1)
  BY <1>2, <1>3 DEF Parts
<1> QED
  BY <1>1, <1>2, <1>4 DEF Parts

(***************************************************************************)
(* The elements nson_filter keeps and those it drops.                      *)
(***************************************************************************)

Selecting(s, J, n, f) ==
    /\ f = [m \in 0 .. n |-> f[m]]
    /\ f[0] = <<>>
    /\ \A m \in 1 .. n : f[m] = IF m \in J THEN Append(f[m - 1], s[m]) ELSE f[m - 1]

LEMMA SelectingExists ==
    ASSUME NEW s, NEW J, NEW n \in Nat
    PROVE  \E f : Selecting(s, J, n, f)
<1> DEFINE T == {m \in Nat : \E f : Selecting(s, J, m, f)}
<1>1. 0 \in T
  <2>1. PICK f : f = [m \in 0 .. 0 |-> <<>>]
    OBVIOUS
  <2>2. f[0] = <<>> /\ f = [m \in 0 .. 0 |-> f[m]]
    BY <2>1
  <2>3. Selecting(s, J, 0, f)
    BY <2>2 DEF Selecting
  <2> QED
    BY <2>3
<1>2. ASSUME NEW m \in T
      PROVE  m + 1 \in T
  <2>1. PICK f : Selecting(s, J, m, f)
    OBVIOUS
  <2>2. PICK new : new = IF m + 1 \in J THEN Append(f[m], s[m + 1]) ELSE f[m]
    OBVIOUS
  <2>3. PICK g : g = [k \in 0 .. m + 1 |-> IF k = m + 1 THEN new ELSE f[k]]
    OBVIOUS
  <2>4. m \in Nat
    OBVIOUS
  <2>5. /\ g = [k \in 0 .. m + 1 |-> g[k]]
        /\ g[m + 1] = new
        /\ \A k \in 0 .. m : g[k] = f[k]
    BY <2>3, <2>4
  <2>6. g[0] = <<>>
    <3>1. 0 \in 0 .. m
      BY <2>4
    <3>2. f[0] = <<>>
      BY <2>1 DEF Selecting
    <3> QED
      BY <2>5, <3>1, <3>2
  <2>7. ASSUME NEW k \in 1 .. m + 1
        PROVE  g[k] = IF k \in J THEN Append(g[k - 1], s[k]) ELSE g[k - 1]
    <3>1. CASE k = m + 1
      <4>1. k - 1 = m /\ m \in 0 .. m
        BY <2>4, <3>1
      <4> QED
        BY <2>2, <2>5, <3>1, <4>1
    <3>2. CASE k # m + 1
      <4>1. k \in 1 .. m /\ k \in 0 .. m /\ k - 1 \in 0 .. m
        BY <2>4, <3>2
      <4>2. f[k] = IF k \in J THEN Append(f[k - 1], s[k]) ELSE f[k - 1]
        BY <2>1, <4>1 DEF Selecting
      <4> QED
        BY <2>5, <4>1, <4>2
    <3> QED
      BY <3>1, <3>2
  <2>8. Selecting(s, J, m + 1, g)
    BY <2>5, <2>6, <2>7 DEF Selecting
  <2> QED
    BY <2>4, <2>8
<1>3. T = Nat
  <2> HIDE DEF T
  <2>1. T \in SUBSET Nat
    BY DEF T
  <2> QED
    BY <1>1, <1>2, <2>1, Numbers
<1> QED
  BY <1>3

LEMMA SelectSolved ==
    ASSUME NEW S, NEW s \in Seq(S), NEW J
    PROVE  \E f : Selecting(s, J, Len(s), f) /\ Select(s, J) = f[Len(s)]
<1>1. PICK n : n = Len(s) /\ n \in Nat
  BY LenProperties
<1> DEFINE Solves(f) == f = [m \in 0 .. n |->
                               IF m = 0 THEN <<>>
                               ELSE IF m \in J THEN Append(f[m - 1], s[m]) ELSE f[m - 1]]
<1>2. \E f : Solves(f)
  <2>1. PICK f : Selecting(s, J, n, f)
    BY <1>1, SelectingExists
  <2>2. \A m \in 0 .. n : m # 0 => m \in 1 .. n
    BY <1>1
  <2>3. \A m \in 0 .. n : f[m] = IF m = 0 THEN <<>>
                               ELSE IF m \in J THEN Append(f[m - 1], s[m]) ELSE f[m - 1]
    BY <2>1, <2>2 DEF Selecting
  <2>4. f = [m \in 0 .. n |-> f[m]]
    BY <2>1 DEF Selecting
  <2>5. Solves(f)
    BY <2>3, <2>4
  <2> QED
    BY <2>5
<1>3. PICK g : g = CHOOSE h : Solves(h)
  OBVIOUS
<1>4. Solves(g)
  <2> HIDE DEF Solves
  <2> QED
    BY <1>2, <1>3, Zenon
<1>5. Select(s, J) = g[n]
  BY <1>1, <1>3 DEF Select
<1>6. Selecting(s, J, n, g)
  <2>1. \A m \in 0 .. n : g[m] = IF m = 0 THEN <<>>
                               ELSE IF m \in J THEN Append(g[m - 1], s[m]) ELSE g[m - 1]
    BY <1>4
  <2>2. g = [m \in 0 .. n |-> g[m]]
    BY <1>4, <2>1
  <2>3. 0 \in 0 .. n /\ \A m \in 1 .. n : m \in 0 .. n /\ m # 0
    BY <1>1
  <2>4. g[0] = <<>>
    BY <2>1, <2>3
  <2>5. \A m \in 1 .. n : g[m] = IF m \in J THEN Append(g[m - 1], s[m]) ELSE g[m - 1]
    BY <2>1, <2>3
  <2> QED
    BY <2>2, <2>4, <2>5 DEF Selecting
<1> QED
  BY <1>1, <1>5, <1>6

LEMMA SelectingParts ==
    ASSUME NEW S, NEW s \in Seq(S), Parts(s), NEW J, NEW f, Selecting(s, J, Len(s), f),
           NEW m \in 0 .. Len(s)
    PROVE  f[m] \in Seq(S) /\ Len(f[m]) <= m /\ Parts(f[m])
<1>1. PICK n : n = Len(s) /\ n \in Nat /\ DOMAIN s = 1 .. n /\ \A j \in 1 .. n : s[j] \in S
  BY LenProperties
<1> DEFINE T == {k \in Nat : k <= n => f[k] \in Seq(S) /\ Len(f[k]) <= k /\ Parts(f[k])}
<1>2. 0 \in T
  <2>1. f[0] = <<>>
    BY DEF Selecting
  <2>2. <<>> \in Seq(S) /\ Len(<<>>) = 0 /\ DOMAIN <<>> = {}
    BY EmptySeq
  <2>3. Parts(<<>>)
    BY <2>2 DEF Parts
  <2>4. f[0] \in Seq(S) /\ Len(f[0]) = 0 /\ Parts(f[0])
    BY <2>1, <2>2, <2>3
  <2>5. Len(f[0]) <= 0
    BY <2>4
  <2> QED
    BY <2>4, <2>5
<1>3. ASSUME NEW k \in T
      PROVE  k + 1 \in T
  <2>1. SUFFICES ASSUME k + 1 <= n
                 PROVE  f[k + 1] \in Seq(S) /\ Len(f[k + 1]) <= k + 1 /\ Parts(f[k + 1])
    OBVIOUS
  <2>2. k \in Nat /\ k <= n /\ k + 1 \in 1 .. n /\ (k + 1) - 1 = k
    BY <1>1, <2>1
  <2>3. f[k + 1] = IF k + 1 \in J THEN Append(f[k], s[k + 1]) ELSE f[k]
    BY <1>1, <2>2 DEF Selecting
  <2>4. PICK t, e : t = f[k] /\ e = s[k + 1]
    OBVIOUS
  <2>5. t \in Seq(S) /\ Len(t) <= k /\ Parts(t) /\ Len(t) \in Nat
    BY <2>2, <2>4, LenProperties
  <2>6. e \in S /\ Proper(e, MaxDepth - 1)
    BY <1>1, <2>2, <2>4 DEF Parts
  <2>7. Append(t, e) \in Seq(S) /\ Len(Append(t, e)) = Len(t) + 1 /\ Parts(Append(t, e))
    BY <2>5, <2>6, AppendProperties, AppendPart
  <2>8. Len(t) <= k + 1 /\ Len(t) + 1 <= k + 1
    BY <2>2, <2>5
  <2> QED
    BY <2>3, <2>4, <2>5, <2>7, <2>8
<1>4. T = Nat
  <2> HIDE DEF T
  <2>1. T \in SUBSET Nat
    BY DEF T
  <2> QED
    BY <1>2, <1>3, <2>1, Numbers
<1>5. m \in Nat /\ m <= n
  BY <1>1
<1> QED
  BY <1>4, <1>5

LEMMA SelectParts ==
    ASSUME NEW S, NEW s \in Seq(S), Parts(s), Len(s) <= MaxLen, NEW J
    PROVE  /\ Select(s, J) \in Seq(S) /\ Len(Select(s, J)) <= MaxLen
           /\ Parts(Select(s, J)) /\ IsTree(Arr(Select(s, J)))
<1>1. PICK f : Selecting(s, J, Len(s), f) /\ Select(s, J) = f[Len(s)]
  BY SelectSolved
<1>2. PICK n, t : n = Len(s) /\ t = f[n]
  OBVIOUS
<1>3. n \in Nat /\ n \in 0 .. n /\ n <= MaxLen /\ MaxLen \in Nat
  BY <1>2, LenProperties, ValueBounds
<1>4. t \in Seq(S) /\ Len(t) <= n /\ Parts(t)
  BY <1>1, <1>2, <1>3, SelectingParts
<1>5. Len(t) <= MaxLen
  BY <1>3, <1>4, LenProperties
<1>6. IsTree(Arr(t))
  BY <1>4, <1>5, ArrayOfParts
<1> QED
  BY <1>1, <1>2, <1>4, <1>5, <1>6

(* An element is either kept or dropped, and never both.                      *)
LEMMA SelectSplits ==
    ASSUME NEW b, NEW S, NEW s \in Seq(S), Parts(s), Len(s) <= MaxLen, NEW J
    PROVE  Refs(b, Arr(Select(s, J))) + Refs(b, Arr(Select(s, DOMAIN s \ J))) = Refs(b, Arr(s))
<1>1. PICK n : n = Len(s) /\ n \in Nat /\ DOMAIN s = 1 .. n /\ n <= MaxLen /\ MaxLen \in Nat
  BY LenProperties, ValueBounds
<1>2. PICK f : Selecting(s, J, n, f) /\ Select(s, J) = f[n]
  BY <1>1, SelectSolved
<1>3. PICK g : Selecting(s, DOMAIN s \ J, n, g) /\ Select(s, DOMAIN s \ J) = g[n]
  BY <1>1, SelectSolved
<1> DEFINE T == {m \in Nat : m <= n => Refs(b, Arr(f[m])) + Refs(b, Arr(g[m]))
                                         = Refs(b, Arr(SubSeq(s, 1, m)))}
<1>4. 0 \in T
  <2>1. f[0] = <<>> /\ g[0] = <<>> /\ SubSeq(s, 1, 0) = <<>>
    BY <1>2, <1>3, WholePrefix DEF Selecting
  <2>2. IsContainer(Arr(<<>>)) /\ Arr(<<>>).elems = <<>>
    BY DEF IsContainer, Arr
  <2>3. Refs(b, Arr(<<>>)) = 0
    BY <2>2, EmptyRefersToNothing
  <2>4. /\ Refs(b, Arr(f[0])) = 0 /\ Refs(b, Arr(g[0])) = 0
        /\ Refs(b, Arr(SubSeq(s, 1, 0))) = 0
    BY <2>1, <2>3
  <2> QED
    BY <2>4
<1>5. ASSUME NEW m \in T
      PROVE  m + 1 \in T
  <2>1. SUFFICES ASSUME m + 1 <= n
                 PROVE  Refs(b, Arr(f[m + 1])) + Refs(b, Arr(g[m + 1])) = Refs(b, Arr(SubSeq(s, 1, m + 1)))
    OBVIOUS
  <2>2. /\ m \in Nat /\ m < n /\ m <= n /\ m + 1 \in 1 .. n /\ m \in 0 .. n
        /\ (m + 1) - 1 = m /\ m < MaxLen
    BY <1>1, <2>1
  <2>3. PICK t, u, w, e : t = f[m] /\ u = g[m] /\ w = SubSeq(s, 1, m) /\ e = s[m + 1]
    OBVIOUS
  <2>4. w \in Seq(S) /\ Len(w) = m /\ e \in S /\ SubSeq(s, 1, m + 1) = Append(w, e)
    BY <1>1, <2>2, <2>3, PrefixGrows
  <2>5. Proper(e, MaxDepth - 1)
    BY <1>1, <2>2, <2>3 DEF Parts
  <2>6. t \in Seq(S) /\ Len(t) < MaxLen /\ u \in Seq(S) /\ Len(u) < MaxLen
    <3>1. t \in Seq(S) /\ Len(t) <= m /\ u \in Seq(S) /\ Len(u) <= m
      BY <1>1, <1>2, <1>3, <2>2, <2>3, SelectingParts
    <3>2. Len(t) \in Nat /\ Len(u) \in Nat
      BY <3>1, LenProperties
    <3> QED
      BY <1>1, <2>2, <3>1, <3>2
  <2>7. Refs(b, Arr(Append(w, e))) = Refs(b, Arr(w)) + Refs(b, e)
    BY <2>2, <2>4, <2>5, AppendRefs
  <2>8. Refs(b, Arr(t)) + Refs(b, Arr(u)) = Refs(b, Arr(w))
    BY <2>2, <2>3
  <2>9. Refs(b, Arr(t)) \in Nat /\ Refs(b, Arr(u)) \in Nat /\ Refs(b, e) \in Nat
    BY ReferencesFinite
  <2>10. CASE m + 1 \in J
    <3>1. f[m + 1] = Append(t, e) /\ g[m + 1] = u
      BY <1>1, <1>2, <1>3, <2>2, <2>3, <2>10 DEF Selecting
    <3>2. Refs(b, Arr(Append(t, e))) = Refs(b, Arr(t)) + Refs(b, e)
      BY <2>5, <2>6, AppendRefs
    <3>3. Refs(b, Arr(f[m + 1])) + Refs(b, Arr(g[m + 1])) = (Refs(b, Arr(t)) + Refs(b, e)) + Refs(b, Arr(u))
      BY <3>1, <3>2
    <3>4. (Refs(b, Arr(t)) + Refs(b, e)) + Refs(b, Arr(u)) = (Refs(b, Arr(t)) + Refs(b, Arr(u))) + Refs(b, e)
      BY <2>9
    <3> QED
      BY <2>4, <2>7, <2>8, <3>3, <3>4
  <2>11. CASE m + 1 \notin J
    <3>1. f[m + 1] = t /\ g[m + 1] = Append(u, e)
      BY <1>1, <1>2, <1>3, <2>2, <2>3, <2>11 DEF Selecting
    <3>2. Refs(b, Arr(Append(u, e))) = Refs(b, Arr(u)) + Refs(b, e)
      BY <2>5, <2>6, AppendRefs
    <3>3. Refs(b, Arr(f[m + 1])) + Refs(b, Arr(g[m + 1])) = Refs(b, Arr(t)) + (Refs(b, Arr(u)) + Refs(b, e))
      BY <3>1, <3>2
    <3>4. Refs(b, Arr(t)) + (Refs(b, Arr(u)) + Refs(b, e)) = (Refs(b, Arr(t)) + Refs(b, Arr(u))) + Refs(b, e)
      BY <2>9
    <3> QED
      BY <2>4, <2>7, <2>8, <3>3, <3>4
  <2> QED
    BY <2>10, <2>11
<1>6. T = Nat
  <2> HIDE DEF T
  <2>1. T \in SUBSET Nat
    BY DEF T
  <2> QED
    BY <1>4, <1>5, <2>1, Numbers
<1>7. SubSeq(s, 1, n) = s
  BY <1>1, WholePrefix
<1>8. n \in T
  BY <1>1, <1>6
<1>9. Refs(b, Arr(f[n])) + Refs(b, Arr(g[n])) = Refs(b, Arr(SubSeq(s, 1, n)))
  BY <1>1, <1>8
<1> QED
  BY <1>2, <1>3, <1>7, <1>9

(***************************************************************************)
(* The references in all variables f together.                             *)
(***************************************************************************)

Holding(b, f) == {h \in Vars \X Places : At(f[h[1]], h[2]) = Str(b)}
Total(b, f) == Cardinality(Holding(b, f))
Elsewhere(b, f, x) == {h \in Holding(b, f) : h[1] # x}

LEMMA TotalSplits ==
    ASSUME NEW b, NEW f, NEW x \in Vars
    PROVE  /\ Cardinality(Elsewhere(b, f, x)) \in Nat /\ Total(b, f) \in Nat
           /\ Total(b, f) = Cardinality(Elsewhere(b, f, x)) + Refs(b, f[x])
<1>1. IsFiniteSet(Vars \X Places)
  BY PlacesFinite, ValueBounds, FS_Product
<1>2. IsFiniteSet(Holding(b, f)) /\ IsFiniteSet(Elsewhere(b, f, x))
  <2>1. Holding(b, f) \in SUBSET (Vars \X Places)
    BY DEF Holding
  <2>2. Elsewhere(b, f, x) \in SUBSET Holding(b, f)
    BY DEF Elsewhere
  <2> QED
    BY <1>1, <2>1, <2>2, FS_Subset
<1>3. PICK own : own = {<<x, p>> : p \in References(b, f[x])}
  OBVIOUS
<1>4. Holding(b, f) = Elsewhere(b, f, x) \cup own
  <2>1. ASSUME NEW h \in Holding(b, f), h[1] = x
        PROVE  h \in own
    <3>1. h[2] \in References(b, f[x]) /\ h = <<x, h[2]>>
      BY <2>1 DEF Holding, References
    <3> QED
      BY <1>3, <3>1
  <2>2. ASSUME NEW h \in own
        PROVE  h \in Holding(b, f)
    BY <1>3, <2>2 DEF Holding, References
  <2> QED
    BY <2>1, <2>2 DEF Elsewhere
<1>5. Elsewhere(b, f, x) \cap own = {}
  BY <1>3 DEF Elsewhere
<1>6. IsFiniteSet(own) /\ Cardinality(own) = Refs(b, f[x])
  <2>1. PICK e : e = [p \in References(b, f[x]) |-> <<x, p>>]
    OBVIOUS
  <2>2. e \in Bijection(References(b, f[x]), own)
    <3>1. e \in [References(b, f[x]) -> own]
      BY <1>3, <2>1
    <3>2. \A p, q \in References(b, f[x]) : e[p] = e[q] => p = q
      BY <2>1
    <3>3. \A h \in own : \E p \in References(b, f[x]) : e[p] = h
      BY <1>3, <2>1
    <3> QED
      BY <3>1, <3>2, <3>3, Fun_IsBij
  <2>3. ExistsBijection(References(b, f[x]), own)
    BY <2>2 DEF ExistsBijection
  <2> QED
    BY <2>3, ReferencesFinite, FS_Bijection DEF Refs
<1>7. Cardinality(Elsewhere(b, f, x) \cup own) = Cardinality(Elsewhere(b, f, x)) + Cardinality(own) - 0
  <2>1. Cardinality(Elsewhere(b, f, x) \cap own) = 0
    BY <1>5, FS_EmptySet
  <2> QED
    BY <1>2, <1>6, <2>1, FS_Union
<1>8. Cardinality(Elsewhere(b, f, x)) \in Nat /\ Cardinality(Holding(b, f)) \in Nat
  BY <1>2, FS_CardinalityType
<1> QED
  BY <1>4, <1>6, <1>7, <1>8, ReferencesFinite DEF Total

LEMMA OneChanged ==
    ASSUME NEW b, NEW f, NEW g, NEW x \in Vars, \A y \in Vars \ {x} : g[y] = f[y]
    PROVE  Total(b, g) + Refs(b, f[x]) = Total(b, f) + Refs(b, g[x])
<1>1. Elsewhere(b, g, x) = Elsewhere(b, f, x)
  BY DEF Elsewhere, Holding
<1>2. PICK n \in Nat : n = Cardinality(Elsewhere(b, f, x))
  BY TotalSplits
<1>3. Total(b, f) = n + Refs(b, f[x]) /\ Total(b, g) = n + Refs(b, g[x])
  BY <1>1, <1>2, TotalSplits
<1>4. Refs(b, f[x]) \in Nat /\ Refs(b, g[x]) \in Nat
  BY ReferencesFinite
<1> QED
  BY <1>3, <1>4

LEMMA TwoChanged ==
    ASSUME NEW b, NEW f, NEW g, NEW x \in Vars, NEW y \in Vars, x # y,
           \A z \in Vars \ {x, y} : g[z] = f[z]
    PROVE  Total(b, g) + (Refs(b, f[x]) + Refs(b, f[y])) = Total(b, f) + (Refs(b, g[x]) + Refs(b, g[y]))
<1>1. PICK h : h = [z \in Vars |-> IF z = x THEN g[x] ELSE f[z]]
  OBVIOUS
<1>2. /\ h[x] = g[x] /\ h[y] = f[y]
      /\ \A z \in Vars \ {x} : h[z] = f[z]
      /\ \A z \in Vars \ {y} : g[z] = h[z]
  BY <1>1
<1>3. Total(b, h) + Refs(b, f[x]) = Total(b, f) + Refs(b, h[x])
  BY <1>2, OneChanged
<1>4. Total(b, g) + Refs(b, h[y]) = Total(b, h) + Refs(b, g[y])
  BY <1>2, OneChanged
<1>5. /\ Total(b, f) \in Nat /\ Total(b, g) \in Nat /\ Total(b, h) \in Nat
      /\ Refs(b, f[x]) \in Nat /\ Refs(b, f[y]) \in Nat /\ Refs(b, g[x]) \in Nat /\ Refs(b, g[y]) \in Nat
  BY TotalSplits, ReferencesFinite
<1> QED
  BY <1>2, <1>3, <1>4, <1>5

(***************************************************************************)
(* The invariant.                                                          *)
(***************************************************************************)

IndInv == TypeOK /\ CountsExact

LEMMA CountIsTotal ==
    ASSUME IndInv
    PROVE  \A b \in Bufs : count[b] = Total(b, val)
BY DEF IndInv, CountsExact, Holders, Holding, Total

Answers == last'.rv \in {"ok", "error", "aborted", "crashed"}

LEMMA Answering ==
    ASSUME NEW op, NEW rv \in {"ok", "error", "aborted", "crashed"}, Returns(op, rv)
    PROVE  Answers
BY DEF Returns, Answers

LEMMA NothingChanged ==
    ASSUME IndInv, UNCHANGED <<val, count>>, Answers
    PROVE  IndInv'
BY DEF IndInv, TypeOK, CountsExact, Holders, Answers

LEMMA Crash ==
    ASSUME IndInv, NEW op, NEW how \in {"aborted", "crashed"}, Stops(op, how)
    PROVE  IndInv'
BY NothingChanged, Answering DEF Stops

(* A step that gives the counts of the trees it leaves.                       *)
LEMMA Accounted ==
    ASSUME TypeOK, DOMAIN val' = Vars, \A x \in Vars : IsTree(val'[x]),
           count' = [b \in Bufs |-> count'[b]], \A b \in Bufs : count'[b] = Total(b, val'), Answers
    PROVE  IndInv'
<1>1. CountsExact'
  BY DEF CountsExact, Holders, Holding, Total
<1>2. \A b \in Bufs : count'[b] \in Nat
  <2>1. ASSUME NEW b \in Bufs
        PROVE  IsFiniteSet(Holding(b, val'))
    <3>1. IsFiniteSet(Vars \X Places)
      BY PlacesFinite, ValueBounds, FS_Product
    <3>2. Holding(b, val') \in SUBSET (Vars \X Places)
      BY DEF Holding
    <3> QED
      BY <3>1, <3>2, FS_Subset
  <2> QED
    BY <2>1, FS_CardinalityType DEF Total
<1>3. count' \in [Bufs -> Nat]
  BY <1>2
<1> QED
  BY <1>1, <1>3 DEF IndInv, TypeOK, Answers

Replaces(x, v, c) ==
    /\ val' = [val EXCEPT ![x] = v]
    /\ count' = c /\ c = [b \in Bufs |-> c[b]]
    /\ \A b \in Bufs : c[b] + Refs(b, val[x]) = count[b] + Refs(b, v) /\ c[b] \in Int

ReplacesTwo(x, v, y, w, c) ==
    /\ x # y /\ val' = [val EXCEPT ![x] = v, ![y] = w]
    /\ count' = c /\ c = [b \in Bufs |-> c[b]]
    /\ \A b \in Bufs : /\ c[b] + (Refs(b, val[x]) + Refs(b, val[y])) = count[b] + (Refs(b, v) + Refs(b, w))
                      /\ c[b] \in Int

LEMMA OneTree ==
    ASSUME IndInv, Answers, NEW x \in Vars, NEW v, IsTree(v), NEW c, Replaces(x, v, c)
    PROVE  IndInv'
<1>1. /\ val' = [val EXCEPT ![x] = v] /\ count' = c /\ c = [b \in Bufs |-> c[b]]
      /\ \A b \in Bufs : c[b] + Refs(b, val[x]) = count[b] + Refs(b, v) /\ c[b] \in Int
  BY DEF Replaces
<1>2. TypeOK /\ DOMAIN val = Vars
  BY DEF IndInv, TypeOK
<1>3. val'[x] = v /\ DOMAIN val' = Vars /\ \A y \in Vars \ {x} : val'[y] = val[y]
  BY <1>1, <1>2
<1>4. \A y \in Vars : IsTree(val'[y])
  BY <1>2, <1>3 DEF TypeOK
<1>5. ASSUME NEW b \in Bufs
      PROVE  c[b] = Total(b, val')
  <2>1. PICK g : g = val'
    OBVIOUS
  <2>2. Total(b, g) + Refs(b, val[x]) = Total(b, val) + Refs(b, g[x])
    <3>1. PICK h : h = val
      OBVIOUS
    <3>2. \A z \in Vars \ {x} : g[z] = h[z]
      BY <1>3, <2>1, <3>1
    <3>3. Total(b, g) + Refs(b, h[x]) = Total(b, h) + Refs(b, g[x])
      BY <3>2, OneChanged
    <3> QED
      BY <3>1, <3>3
  <2>3. count[b] = Total(b, val)
    BY CountIsTotal
  <2>4. Total(b, g) \in Nat /\ Total(b, val) \in Nat /\ Refs(b, val[x]) \in Nat /\ Refs(b, v) \in Nat
    BY TotalSplits, ReferencesFinite
  <2>5. c[b] \in Int /\ c[b] + Refs(b, val[x]) = count[b] + Refs(b, v) /\ g[x] = v
    BY <1>1, <1>3, <2>1
  <2> QED
    BY <2>1, <2>2, <2>3, <2>4, <2>5
<1> QED
  BY <1>1, <1>2, <1>3, <1>4, <1>5, Accounted

LEMMA TwoTrees ==
    ASSUME IndInv, Answers, NEW x \in Vars, NEW y \in Vars, NEW v, IsTree(v), NEW w, IsTree(w),
           NEW c, ReplacesTwo(x, v, y, w, c)
    PROVE  IndInv'
<1>1. /\ val' = [val EXCEPT ![x] = v, ![y] = w] /\ count' = c /\ c = [b \in Bufs |-> c[b]] /\ x # y
      /\ \A b \in Bufs : /\ c[b] + (Refs(b, val[x]) + Refs(b, val[y])) = count[b] + (Refs(b, v) + Refs(b, w))
                        /\ c[b] \in Int
  BY DEF ReplacesTwo
<1>2. TypeOK /\ DOMAIN val = Vars
  BY DEF IndInv, TypeOK
<1>3. val'[x] = v /\ val'[y] = w /\ DOMAIN val' = Vars /\ \A z \in Vars \ {x, y} : val'[z] = val[z]
  BY <1>1, <1>2
<1>4. \A z \in Vars : IsTree(val'[z])
  BY <1>2, <1>3 DEF TypeOK
<1>5. ASSUME NEW b \in Bufs
      PROVE  c[b] = Total(b, val')
  <2>1. PICK g : g = val'
    OBVIOUS
  <2>2. Total(b, g) + (Refs(b, val[x]) + Refs(b, val[y])) = Total(b, val) + (Refs(b, g[x]) + Refs(b, g[y]))
    <3>1. PICK h : h = val
      OBVIOUS
    <3>2. x # y /\ \A z \in Vars \ {x, y} : g[z] = h[z]
      BY <1>1, <1>3, <2>1, <3>1
    <3>3. Total(b, g) + (Refs(b, h[x]) + Refs(b, h[y])) = Total(b, h) + (Refs(b, g[x]) + Refs(b, g[y]))
      BY <3>2, TwoChanged
    <3> QED
      BY <3>1, <3>3
  <2>3. count[b] = Total(b, val)
    BY CountIsTotal
  <2>4. /\ Total(b, g) \in Nat /\ Total(b, val) \in Nat /\ Refs(b, val[x]) \in Nat /\ Refs(b, val[y]) \in Nat
        /\ Refs(b, v) \in Nat /\ Refs(b, w) \in Nat
    BY TotalSplits, ReferencesFinite
  <2>5. /\ c[b] \in Int /\ g[x] = v /\ g[y] = w
        /\ c[b] + (Refs(b, val[x]) + Refs(b, val[y])) = count[b] + (Refs(b, v) + Refs(b, w))
    BY <1>1, <1>3, <2>1
  <2> QED
    BY <2>1, <2>2, <2>3, <2>4, <2>5
<1> QED
  BY <1>1, <1>2, <1>3, <1>4, <1>5, Accounted

LEMMA StateFacts ==
    ASSUME IndInv
    PROVE  /\ \A b \in Bufs : count[b] \in Nat
           /\ count = [b \in Bufs |-> count[b]]
           /\ DOMAIN val = Vars /\ \A x \in Vars : IsTree(val[x])
BY DEF IndInv, TypeOK

LEMMA CountsStay ==
    ASSUME IndInv, count' = count
    PROVE  \E c : c = count /\ count' = c /\ c = [b \in Bufs |-> c[b]]
BY DEF IndInv, TypeOK

(* A string that was just made is the only one that refers to its buffer.     *)
LEMMA NewString ==
    ASSUME IndInv, NEW b \in NewBufs
    PROVE  /\ \A d \in 0 .. MaxDepth : Proper(Str(b), d)
           /\ CountNew(b) = [c \in Bufs |-> CountNew(b)[c]]
           /\ \A c \in Bufs : CountNew(b)[c] = count[c] + Refs(c, Str(b)) /\ CountNew(b)[c] \in Int
<1>1. b \in Bufs \cup {NoBuf} /\ (b \in Bufs => count[b] = 0)
  <2>1. b \in Fresh \/ b = NoBuf
    BY Zenon DEF NewBufs
  <2>2. NoBuf \notin Bufs
    BY ValueBounds
  <2> QED
    BY <2>1, <2>2 DEF Fresh
<1>2. ASSUME NEW c \in Bufs
      PROVE  CountNew(b)[c] = count[c] + Refs(c, Str(b)) /\ CountNew(b)[c] \in Int
  <2>1. CountNew(b)[c] = (IF c = b THEN 1 ELSE count[c]) /\ Refs(c, Str(b)) = IF c = b THEN 1 ELSE 0
    BY StrRefersOnce DEF CountNew
  <2>2. count[c] \in Nat
    BY StateFacts
  <2> QED
    BY <1>1, <2>1, <2>2
<1>3. \A d \in 0 .. MaxDepth : Proper(Str(b), d)
  BY <1>1, SmallTrees
<1>4. CountNew(b) = [c \in Bufs |-> CountNew(b)[c]]
  BY DEF CountNew
<1> QED
  BY <1>2, <1>3, <1>4

LEMMA ProperTree ==
    ASSUME NEW v, NEW d, Proper(v, d)
    PROVE  IsTree(v)
BY DEF Proper

LEMMA InitContainerKeeps ==
    ASSUME IndInv, NEW x \in Vars, InitContainer(x)
    PROVE  IndInv'
<1>1. PICK v \in {Arr(<<>>), Obj(FALSE, <<>>)} : val' = [val EXCEPT ![x] = v]
  BY DEF InitContainer
<1>2. IsTree(v)
  <2>1. MaxDepth \in 1 .. MaxDepth
    BY ValueBounds
  <2>2. Proper(v, MaxDepth)
    BY <2>1, SmallTrees
  <2> QED
    BY <2>2, ProperTree
<1>3. IsContainer(v) /\ v.elems = <<>>
  BY DEF IsContainer, Arr, Obj
<1>4. Answers /\ val[x] = Nil /\ count' = count
  BY Answering DEF InitContainer
<1>5. PICK c : c = count /\ count' = c /\ c = [b \in Bufs |-> c[b]]
  BY <1>4, CountsStay
<1>6. \A b \in Bufs : c[b] + Refs(b, val[x]) = count[b] + Refs(b, v) /\ c[b] \in Int
  BY <1>3, <1>4, <1>5, StateFacts, NilRefersToNothing, EmptyRefersToNothing
<1>7. Replaces(x, v, c)
  BY <1>1, <1>5, <1>6 DEF Replaces
<1> QED
  BY <1>2, <1>4, <1>7, OneTree

LEMMA InitStrKeeps ==
    ASSUME IndInv, NEW x \in Vars, InitStr(x)
    PROVE  IndInv'
<1>1. PICK b \in NewBufs : val' = [val EXCEPT ![x] = Str(b)] /\ count' = CountNew(b)
  BY DEF InitStr
<1>2. Answers /\ val[x] = Nil
  BY Answering DEF InitStr
<1>3. PICK v, h : v = Str(b) /\ h = CountNew(b)
  OBVIOUS
<1>4. IsTree(v) /\ h = [c \in Bufs |-> h[c]]
  <2>1. MaxDepth \in 0 .. MaxDepth
    BY ValueBounds
  <2> QED
    BY <1>3, <2>1, NewString, ProperTree
<1>5. \A c \in Bufs : h[c] + Refs(c, val[x]) = count[c] + Refs(c, v) /\ h[c] \in Int
  <2>1. \A c \in Bufs : CountNew(b)[c] = count[c] + Refs(c, Str(b)) /\ CountNew(b)[c] \in Int
    BY NewString
  <2>2. \A c \in Bufs : Refs(c, val[x]) = 0
    BY <1>2, NilRefersToNothing
  <2>3. \A c \in Bufs : h[c] = CountNew(b)[c] /\ Refs(c, v) = Refs(c, Str(b))
    BY <1>3
  <2> QED
    BY <2>1, <2>2, <2>3
<1>6. Replaces(x, v, h)
  BY <1>1, <1>3, <1>4, <1>5 DEF Replaces
<1> QED
  BY <1>2, <1>4, <1>6, OneTree

LEMMA CleanKeeps ==
    ASSUME IndInv, NEW x \in Vars, CleanVar(x)
    PROVE  IndInv'
<1>1. CASE Unallocated(val[x])
  BY <1>1, Crash DEF CleanVar
<1>2. CASE ~Unallocated(val[x])
  <2>1. val' = [val EXCEPT ![x] = Nil] /\ count' = Clean(val[x], count) /\ Answers
    BY <1>2, Answering DEF CleanVar
  <2>2. IsTree(Nil)
    <3>1. MaxDepth \in 0 .. MaxDepth
      BY ValueBounds
    <3> QED
      BY <3>1, SmallTrees, ProperTree
  <2>3. PICK c : c = Clean(val[x], count)
    OBVIOUS
  <2>4. c = [b \in Bufs |-> c[b]]
    BY <2>3 DEF Clean
  <2>5. ASSUME NEW b \in Bufs
        PROVE  c[b] + Refs(b, val[x]) = count[b] + Refs(b, Nil) /\ c[b] \in Int
    <3>1. c[b] = count[b] - Refs(b, val[x])
      BY <2>3 DEF Clean
    <3>2. count[b] \in Nat /\ Refs(b, val[x]) \in Nat /\ Refs(b, Nil) = 0
      BY StateFacts, ReferencesFinite, NilRefersToNothing
    <3> QED
      BY <3>1, <3>2
  <2>6. Replaces(x, Nil, c)
    BY <2>1, <2>3, <2>4, <2>5 DEF Replaces
  <2> QED
    BY <2>1, <2>2, <2>6, OneTree
<1> QED
  BY <1>1, <1>2

LEMMA MoveKeeps ==
    ASSUME IndInv, NEW x \in Vars, NEW y \in Vars, Move(x, y)
    PROVE  IndInv'
<1>1. /\ val[x] = Nil /\ x # y /\ val' = [val EXCEPT ![x] = val[y], ![y] = Nil]
      /\ count' = count /\ Answers
  BY Answering DEF Move
<1>2. IsTree(val[y]) /\ IsTree(Nil)
  BY <1>1, StateFacts
<1>3. PICK c : c = count /\ count' = c /\ c = [b \in Bufs |-> c[b]]
  BY <1>1, CountsStay
<1>4. PICK v, w : v = val[y] /\ w = Nil
  OBVIOUS
<1>5. ASSUME NEW b \in Bufs
      PROVE  /\ c[b] + (Refs(b, val[x]) + Refs(b, val[y])) = count[b] + (Refs(b, v) + Refs(b, w))
             /\ c[b] \in Int
  <2>1. count[b] \in Nat /\ Refs(b, val[y]) \in Nat /\ Refs(b, Nil) = 0
    BY StateFacts, ReferencesFinite, NilRefersToNothing
  <2> QED
    BY <1>1, <1>3, <1>4, <2>1
<1>6. val' = [val EXCEPT ![x] = v, ![y] = w] /\ IsTree(v) /\ IsTree(w) /\ Answers /\ x # y
  BY <1>1, <1>2, <1>4
<1>7. ReplacesTwo(x, v, y, w, c)
  BY <1>3, <1>5, <1>6 DEF ReplacesTwo
<1> QED
  BY <1>6, <1>7, TwoTrees

LEMMA CloneKeeps ==
    ASSUME IndInv, NEW x \in Vars, NEW y \in Vars, CloneVar(x, y)
    PROVE  IndInv'
<1>1. PICK v \in Clones(val[y]) :
         \/ Stops("clone", "aborted") \/ Stops("clone", "crashed")
         \/ /\ val' = [val EXCEPT ![x] = v] /\ count' = Retain(v, count)
            /\ Returns("clone", "ok")
  BY DEF CloneVar
<1>2. CASE Stops("clone", "aborted") \/ Stops("clone", "crashed")
  BY <1>2, Crash
<1>3. CASE val' = [val EXCEPT ![x] = v] /\ count' = Retain(v, count) /\ Returns("clone", "ok")
  <2>1. IsTree(v)
    BY StateFacts, ClonesAreTrees
  <2>2. PICK c : c = Retain(v, count)
    OBVIOUS
  <2>3. c = [b \in Bufs |-> c[b]]
    BY <2>2 DEF Retain
  <2>4. ASSUME NEW b \in Bufs
        PROVE  c[b] + Refs(b, val[x]) = count[b] + Refs(b, v) /\ c[b] \in Int
    <3>1. c[b] = count[b] + Refs(b, v)
      BY <2>2 DEF Retain
    <3>2. val[x] = Nil
      BY DEF CloneVar
    <3>3. count[b] \in Nat /\ Refs(b, v) \in Nat /\ Refs(b, val[x]) = 0
      BY <3>2, StateFacts, ReferencesFinite, NilRefersToNothing
    <3> QED
      BY <3>1, <3>3
  <2>5. Answers
    BY <1>3, Answering
  <2>6. val' = [val EXCEPT ![x] = v] /\ count' = c
    BY <1>3, <2>2
  <2>7. Replaces(x, v, c)
    BY <2>3, <2>4, <2>6 DEF Replaces
  <2> QED
    BY <2>1, <2>5, <2>7, OneTree
<1> QED
  BY <1>1, <1>2, <1>3

(* An array with one more element.                                            *)
LEMMA Pushed ==
    ASSUME NEW v, IsTree(v), v.type = "arr", Len(v.elems) < MaxLen, NEW e, Proper(e, MaxDepth - 1)
    PROVE  /\ IsTree(Arr(Append(v.elems, e)))
           /\ \A b : Refs(b, Arr(Append(v.elems, e))) = Refs(b, v) + Refs(b, e)
<1>1. IsContainer(v) /\ MaxLen \in Nat
  BY ValueBounds DEF IsContainer
<1>2. PICK s, S : s = v.elems /\ S = ToSet(v.elems)
  OBVIOUS
<1>3. s \in Seq(S) /\ Len(s) \in Nat /\ Parts(s) /\ v = Arr(s) /\ Len(s) < MaxLen
  BY <1>1, <1>2, PartsOfArray
<1>4. /\ Append(s, e) \in Seq(S \cup {e}) /\ Len(Append(s, e)) = Len(s) + 1
      /\ Parts(Append(s, e))
  BY <1>3, AppendPart
<1>5. Len(Append(s, e)) <= MaxLen
  BY <1>1, <1>3, <1>4
<1>6. IsTree(Arr(Append(s, e)))
  BY <1>4, <1>5, ArrayOfParts
<1>7. \A b : Refs(b, Arr(Append(s, e))) = Refs(b, Arr(s)) + Refs(b, e)
  BY <1>3, AppendRefs
<1> QED
  BY <1>2, <1>3, <1>6, <1>7

LEMMA PushFailing ==
    ASSUME IndInv, NEW op, PushFails(op)
    PROVE  IndInv'
BY Crash DEF PushFails

LEMMA PushKeeps ==
    ASSUME IndInv, NEW x \in Vars, NEW y \in Vars, Push(x, y)
    PROVE  IndInv'
<1>1. CASE PushFails("push")
  BY <1>1, PushFailing
<1>2. CASE ~PushFails("push")
  <2>1. /\ x # y /\ val[x].type = "arr" /\ Len(val[x].elems) < MaxLen /\ Fits(val[y], MaxDepth - 1)
        /\ val' = [val EXCEPT ![x] = Arr(Append(val[x].elems, val[y])), ![y] = Nil]
        /\ count' = count /\ Answers
    BY <1>2, Answering DEF Push
  <2>2. IsTree(val[x]) /\ IsTree(val[y]) /\ Proper(val[y], MaxDepth - 1)
    BY <2>1, StateFacts, MayBePart
  <2>3. PICK v : v = Arr(Append(val[x].elems, val[y]))
    OBVIOUS
  <2>4. IsTree(v) /\ \A b : Refs(b, v) = Refs(b, val[x]) + Refs(b, val[y])
    BY <2>1, <2>2, <2>3, Pushed
  <2>5. IsTree(Nil)
    <3>1. MaxDepth \in 0 .. MaxDepth
      BY ValueBounds
    <3> QED
      BY <3>1, SmallTrees, ProperTree
  <2>6. PICK c : c = count /\ count' = c /\ c = [b \in Bufs |-> c[b]]
    BY <2>1, CountsStay
  <2>7. ASSUME NEW b \in Bufs
        PROVE  /\ c[b] + (Refs(b, val[x]) + Refs(b, val[y])) = count[b] + (Refs(b, v) + Refs(b, Nil))
               /\ c[b] \in Int
    <3>1. Refs(b, val[x]) \in Nat /\ Refs(b, val[y]) \in Nat /\ Refs(b, Nil) = 0 /\ count[b] \in Nat
      BY StateFacts, ReferencesFinite, NilRefersToNothing
    <3>2. Refs(b, v) = Refs(b, val[x]) + Refs(b, val[y])
      BY <2>4
    <3> QED
      BY <2>6, <3>1, <3>2
  <2>8. x # y /\ val' = [val EXCEPT ![x] = v, ![y] = Nil] /\ Answers
    BY <2>1, <2>3
  <2>9. ReplacesTwo(x, v, y, Nil, c)
    BY <2>6, <2>7, <2>8 DEF ReplacesTwo
  <2> QED
    BY <2>4, <2>5, <2>8, <2>9, TwoTrees
<1> QED
  BY <1>1, <1>2

LEMMA PushStrKeeps ==
    ASSUME IndInv, NEW x \in Vars, PushStr(x)
    PROVE  IndInv'
<1>1. CASE PushFails("push")
  BY <1>1, PushFailing
<1>2. CASE ~PushFails("push")
  <2>1. /\ val[x].type = "arr" /\ Len(val[x].elems) < MaxLen
    BY DEF PushStr
  <2>2. PICK b \in NewBufs : /\ val' = [val EXCEPT ![x] = Arr(Append(val[x].elems, Str(b)))]
                            /\ count' = CountNew(b) /\ Returns("push", "ok")
    BY <1>2 DEF PushStr
  <2>3. IsTree(val[x]) /\ Proper(Str(b), MaxDepth - 1)
    <3>1. MaxDepth - 1 \in 0 .. MaxDepth
      BY ValueBounds
    <3> QED
      BY <3>1, StateFacts, NewString
  <2>4. PICK v : v = Arr(Append(val[x].elems, Str(b)))
    OBVIOUS
  <2>5. IsTree(v) /\ \A c : Refs(c, v) = Refs(c, val[x]) + Refs(c, Str(b))
    BY <2>1, <2>3, <2>4, Pushed
  <2>6. PICK h : h = CountNew(b) /\ count' = h /\ h = [c \in Bufs |-> h[c]]
    BY <2>2, NewString
  <2>7. ASSUME NEW c \in Bufs
        PROVE  h[c] + Refs(c, val[x]) = count[c] + Refs(c, v) /\ h[c] \in Int
    <3>1. CountNew(b)[c] = count[c] + Refs(c, Str(b)) /\ CountNew(b)[c] \in Int
      BY NewString
    <3>2. Refs(c, val[x]) \in Nat /\ Refs(c, Str(b)) \in Nat /\ count[c] \in Nat
      BY StateFacts, ReferencesFinite
    <3>3. Refs(c, v) = Refs(c, val[x]) + Refs(c, Str(b))
      BY <2>5
    <3> QED
      BY <2>6, <3>1, <3>2, <3>3
  <2>8. Answers /\ val' = [val EXCEPT ![x] = v]
    BY <2>2, <2>4, Answering
  <2>9. Replaces(x, v, h)
    BY <2>6, <2>7, <2>8 DEF Replaces
  <2> QED
    BY <2>5, <2>8, <2>9, OneTree
<1> QED
  BY <1>1, <1>2

(* An array without its last element.                                         *)
LEMMA Popped ==
    ASSUME NEW v, IsTree(v), v.type = "arr", v.elems # <<>>
    PROVE  /\ IsTree(Last(v.elems)) /\ IsTree(Arr(Front(v.elems)))
           /\ \A b : Refs(b, v) = Refs(b, Arr(Front(v.elems))) + Refs(b, Last(v.elems))
<1>1. IsContainer(v)
  BY DEF IsContainer
<1>2. PICK s, S, k : s = v.elems /\ S = ToSet(v.elems) /\ k = Len(v.elems)
  OBVIOUS
<1>3. /\ s \in Seq(S) /\ k \in Nat /\ Len(s) = k /\ k <= MaxLen /\ DOMAIN s = 1 .. k
      /\ Parts(s) /\ v = Arr(s) /\ MaxLen \in Nat
  BY <1>1, <1>2, PartsOfArray, ValueBounds
<1>4. k # 0
  BY <1>2, <1>3, EmptySeq
<1>5. PICK n, u, e : n = k - 1 /\ u = SubSeq(s, 1, n) /\ e = s[k]
  OBVIOUS
<1>6. n \in Nat /\ n < k /\ n + 1 = k /\ n < MaxLen
  BY <1>3, <1>4, <1>5
<1>7. u \in Seq(S) /\ Len(u) = n /\ k \in DOMAIN s /\ SubSeq(s, 1, k) = Append(u, e)
  BY <1>3, <1>5, <1>6, PrefixGrows
<1>8. SubSeq(s, 1, k) = s
  BY <1>3, WholePrefix
<1>9. Front(v.elems) = u /\ Last(v.elems) = e
  BY <1>2, <1>3, <1>5 DEF Front, Last
<1>10. Proper(e, MaxDepth - 1)
  BY <1>3, <1>5, <1>7 DEF Parts
<1>11. Parts(u)
  <2>1. DOMAIN u = 1 .. n
    BY <1>6, <1>7, LenProperties
  <2>2. \A j \in 1 .. n : j \in 1 .. k /\ u[j] = s[j]
    <3>1. \A j \in 1 .. n : j \in 1 .. k /\ s[j] \in S
      BY <1>3, <1>6, LenProperties
    <3>2. 1 \in Int /\ n \in Int /\ n - 1 + 1 = n /\ \A j \in 1 .. n : 1 + j - 1 = j
      BY <1>6
    <3>3. \A j \in 1 .. n - 1 + 1 : u[j] = s[1 + j - 1]
      BY <1>5, <3>1, <3>2, SubSeqProperties
    <3> QED
      BY <3>1, <3>2, <3>3
  <2> QED
    BY <1>3, <2>1, <2>2 DEF Parts
<1>12. n <= MaxLen
  BY <1>3, <1>6
<1>13. IsTree(Arr(u))
  BY <1>7, <1>11, <1>12, ArrayOfParts
<1>14. \A b : Refs(b, Arr(Append(u, e))) = Refs(b, Arr(u)) + Refs(b, e)
  BY <1>6, <1>7, <1>10, AppendRefs
<1> QED
  BY <1>3, <1>7, <1>8, <1>9, <1>10, <1>13, <1>14, ProperTree

LEMMA PopKeeps ==
    ASSUME IndInv, NEW x \in Vars, NEW y \in Vars, Pop(x, y)
    PROVE  IndInv'
<1>1. Answers /\ count' = count
  BY Answering DEF Pop
<1>2. CASE val[y].elems = <<>>
  BY <1>1, <1>2, NothingChanged DEF Pop
<1>3. CASE val[y].elems # <<>>
  <2>1. PICK v, w : v = Last(val[y].elems) /\ w = Arr(Front(val[y].elems))
    OBVIOUS
  <2>2. /\ x # y /\ val[y].type = "arr" /\ val[x] = Nil
        /\ val' = [val EXCEPT ![x] = v, ![y] = w]
    BY <1>3, <2>1 DEF Pop
  <2>3. IsTree(v) /\ IsTree(w) /\ \A b : Refs(b, val[y]) = Refs(b, w) + Refs(b, v)
    BY <1>3, <2>1, <2>2, StateFacts, Popped
  <2>4. PICK c : c = count /\ count' = c /\ c = [b \in Bufs |-> c[b]]
    BY <1>1, CountsStay
  <2>5. ASSUME NEW b \in Bufs
        PROVE  /\ c[b] + (Refs(b, val[x]) + Refs(b, val[y])) = count[b] + (Refs(b, v) + Refs(b, w))
               /\ c[b] \in Int
    <3>1. count[b] \in Nat /\ Refs(b, val[x]) = 0 /\ Refs(b, v) \in Nat /\ Refs(b, w) \in Nat
      BY <2>2, StateFacts, ReferencesFinite, NilRefersToNothing
    <3>2. Refs(b, val[y]) = Refs(b, w) + Refs(b, v)
      BY <2>3
    <3> QED
      BY <2>4, <3>1, <3>2
  <2>6. ReplacesTwo(x, v, y, w, c)
    BY <2>2, <2>4, <2>5 DEF ReplacesTwo
  <2> QED
    BY <1>1, <2>3, <2>6, TwoTrees
<1> QED
  BY <1>2, <1>3

(* Two arrays in one.                                                         *)
LEMMA Joined ==
    ASSUME NEW v, IsTree(v), v.type = "arr", NEW w, IsTree(w), w.type = "arr",
           Len(v.elems \o w.elems) <= MaxLen
    PROVE  /\ IsTree(Arr(v.elems \o w.elems))
           /\ \A b : Refs(b, Arr(v.elems \o w.elems)) = Refs(b, v) + Refs(b, w)
<1>1. IsContainer(v) /\ IsContainer(w)
  BY DEF IsContainer
<1>2. PICK s, S, t, R : /\ s = v.elems /\ S = ToSet(v.elems)
                        /\ t = w.elems /\ R = ToSet(w.elems)
  OBVIOUS
<1>3. s \in Seq(S) /\ Parts(s) /\ v = Arr(s) /\ t \in Seq(R) /\ Parts(t) /\ w = Arr(t)
  BY <1>1, <1>2, PartsOfArray
<1>4. PICK Q : Q = S \cup R
  OBVIOUS
<1>5. s \in Seq(Q) /\ t \in Seq(Q)
  BY <1>3, <1>4, SeqMonotonic
<1>6. s \o t \in Seq(Q) /\ Parts(s \o t) /\ Len(s \o t) <= MaxLen
  BY <1>2, <1>3, <1>5, ConcatParts
<1>7. IsTree(Arr(s \o t))
  BY <1>6, ArrayOfParts
<1>8. \A b : Refs(b, Arr(s \o t)) = Refs(b, Arr(s)) + Refs(b, Arr(t))
  BY <1>3, <1>5, <1>6, ConcatRefs
<1> QED
  BY <1>2, <1>3, <1>7, <1>8

LEMMA ConcatKeeps ==
    ASSUME IndInv, NEW x \in Vars, NEW y \in Vars, Concat(x, y)
    PROVE  IndInv'
<1>1. PICK v : v = Arr(val[x].elems \o val[y].elems)
  OBVIOUS
<1>2. /\ x # y /\ val[x].type = "arr" /\ val[y].type = "arr"
      /\ Len(val[x].elems \o val[y].elems) <= MaxLen /\ count' = count /\ Answers
      /\ UNCHANGED val \/ val' = [val EXCEPT ![x] = v, ![y] = Nil]
  BY <1>1, Answering DEF Concat
<1>3. CASE UNCHANGED val
  BY <1>2, <1>3, NothingChanged
<1>4. CASE val' = [val EXCEPT ![x] = v, ![y] = Nil]
  <2>1. IsTree(v) /\ \A b : Refs(b, v) = Refs(b, val[x]) + Refs(b, val[y])
    <3>1. IsTree(val[x]) /\ IsTree(val[y])
      BY StateFacts
    <3>2. PICK s, t : s = val[x] /\ t = val[y]
      OBVIOUS
    <3>3. /\ IsTree(s) /\ s.type = "arr" /\ IsTree(t) /\ t.type = "arr"
          /\ Len(s.elems \o t.elems) <= MaxLen
      BY <1>2, <3>1, <3>2
    <3>4. IsTree(Arr(s.elems \o t.elems)) /\ \A b : Refs(b, Arr(s.elems \o t.elems)) = Refs(b, s) + Refs(b, t)
      BY <3>3, Joined
    <3> QED
      BY <1>1, <3>2, <3>4
  <2>2. IsTree(Nil)
    <3>1. MaxDepth \in 0 .. MaxDepth
      BY ValueBounds
    <3> QED
      BY <3>1, SmallTrees, ProperTree
  <2>3. PICK c : c = count /\ count' = c /\ c = [b \in Bufs |-> c[b]]
    BY <1>2, CountsStay
  <2>4. ASSUME NEW b \in Bufs
        PROVE  /\ c[b] + (Refs(b, val[x]) + Refs(b, val[y])) = count[b] + (Refs(b, v) + Refs(b, Nil))
               /\ c[b] \in Int
    <3>1. Refs(b, val[x]) \in Nat /\ Refs(b, val[y]) \in Nat /\ Refs(b, Nil) = 0 /\ count[b] \in Nat
      BY StateFacts, ReferencesFinite, NilRefersToNothing
    <3>2. Refs(b, v) = Refs(b, val[x]) + Refs(b, val[y])
      BY <2>1
    <3> QED
      BY <2>3, <3>1, <3>2
  <2>5. ReplacesTwo(x, v, y, Nil, c)
    BY <1>2, <1>4, <2>3, <2>4 DEF ReplacesTwo
  <2> QED
    BY <1>2, <2>1, <2>2, <2>5, TwoTrees
<1> QED
  BY <1>2, <1>3, <1>4

(* What nson_filter keeps, with what it drops, is what it was given.          *)
LEMMA Filtered ==
    ASSUME NEW v, IsTree(v), v.type = "arr", NEW J
    PROVE  /\ IsTree(Arr(Select(v.elems, J)))
           /\ \A b : Refs(b, Arr(Select(v.elems, J))) + Refs(b, Arr(Select(v.elems, DOMAIN v.elems \ J)))
                       = Refs(b, v)
<1>1. IsContainer(v)
  BY DEF IsContainer
<1>2. PICK s, S : s = v.elems /\ S = ToSet(v.elems)
  OBVIOUS
<1>3. s \in Seq(S) /\ Parts(s) /\ v = Arr(s) /\ Len(s) <= MaxLen
  BY <1>1, <1>2, PartsOfArray
<1>4. IsTree(Arr(Select(s, J)))
  BY <1>3, SelectParts
<1>5. \A b : Refs(b, Arr(Select(s, J))) + Refs(b, Arr(Select(s, DOMAIN s \ J))) = Refs(b, Arr(s))
  BY <1>3, SelectSplits
<1> QED
  BY <1>2, <1>3, <1>4, <1>5

LEMMA FilterKeeps ==
    ASSUME IndInv, NEW x \in Vars, Filter(x)
    PROVE  IndInv'
<1>1. PICK J, rv :
         /\ rv \in {"ok", "error"}
         /\ \/ PushFails("filter")
            \/ Stops("filter", "crashed")
            \/ /\ val' = [val EXCEPT ![x] = Arr(Select(val[x].elems, J))]
               /\ count' = Clean(Arr(Select(val[x].elems, DOMAIN val[x].elems \ J)), count)
               /\ Returns("filter", rv)
  <2>1. PICK verdict \in [DOMAIN val[x].elems -> {-1, 0, 1}] :
           LET kept == Kept(verdict)
               dropped == Arr(Select(val[x].elems, DOMAIN val[x].elems \ kept))
           IN \/ PushFails("filter")
              \/ Stops("filter", "crashed")
              \/ /\ val' = [val EXCEPT ![x] = Arr(Select(val[x].elems, kept))]
                 /\ count' = Clean(dropped, count)
                 /\ Returns("filter", IF \E j \in kept : verdict[j] < 0 THEN "error" ELSE "ok")
    BY Zenon DEF Filter
  <2>2. PICK J : J = Kept(verdict)
    OBVIOUS
  <2>3. CASE \E j \in J : verdict[j] < 0
    <3>1. "error" \in {"ok", "error"}
      OBVIOUS
    <3> QED
      BY <2>1, <2>2, <2>3, <3>1
  <2>4. CASE ~\E j \in J : verdict[j] < 0
    <3>1. "ok" \in {"ok", "error"}
      OBVIOUS
    <3> QED
      BY <2>1, <2>2, <2>4, <3>1
  <2> QED
    BY <2>3, <2>4
<1>2. CASE PushFails("filter")
  BY <1>2, PushFailing
<1>3. CASE Stops("filter", "crashed")
  BY <1>3, Crash
<1>4. CASE ~PushFails("filter") /\ ~Stops("filter", "crashed")
  <2>1. PICK v, w : /\ v = Arr(Select(val[x].elems, J))
                    /\ w = Arr(Select(val[x].elems, DOMAIN val[x].elems \ J))
    OBVIOUS
  <2>2. PICK c : c = Clean(w, count)
    OBVIOUS
  <2>3. val' = [val EXCEPT ![x] = v] /\ count' = c /\ Returns("filter", rv)
    BY <1>1, <1>4, <2>1, <2>2
  <2>4. Answers
    BY <1>1, <2>3, Answering
  <2>5. val[x].type = "arr" /\ IsTree(val[x])
    BY StateFacts DEF Filter
  <2>6. IsTree(v) /\ \A b : Refs(b, v) + Refs(b, w) = Refs(b, val[x])
    BY <2>1, <2>5, Filtered
  <2>7. c = [b \in Bufs |-> c[b]]
    BY <2>2 DEF Clean
  <2>8. ASSUME NEW b \in Bufs
        PROVE  c[b] + Refs(b, val[x]) = count[b] + Refs(b, v) /\ c[b] \in Int
    <3>1. c[b] = count[b] - Refs(b, w)
      BY <2>2 DEF Clean
    <3>2. count[b] \in Nat /\ Refs(b, v) \in Nat /\ Refs(b, w) \in Nat
      BY StateFacts, ReferencesFinite
    <3>3. Refs(b, v) + Refs(b, w) = Refs(b, val[x])
      BY <2>6
    <3> QED
      BY <3>1, <3>2, <3>3
  <2>9. Replaces(x, v, c)
    BY <2>3, <2>7, <2>8 DEF Replaces
  <2> QED
    BY <2>4, <2>6, <2>9, OneTree
<1> QED
  BY <1>2, <1>3, <1>4

LEMMA ObjFromArrKeeps ==
    ASSUME IndInv, NEW x \in Vars, ObjFromArr(x)
    PROVE  IndInv'
<1>1. Answers /\ count' = count /\ val[x].type = "arr" /\ IsTree(val[x])
  BY Answering, StateFacts DEF ObjFromArr
<1>2. CASE Len(val[x].elems) % 2 # 0
  BY <1>1, <1>2, NothingChanged DEF ObjFromArr
<1>3. CASE Len(val[x].elems) % 2 = 0
  <2>1. PICK v : v = Obj(TRUE, val[x].elems)
    OBVIOUS
  <2>2. val' = [val EXCEPT ![x] = v]
    BY <1>3, <2>1 DEF ObjFromArr
  <2>3. IsContainer(val[x]) /\ IsContainer(v) /\ v.elems = val[x].elems
    BY <1>1, <2>1 DEF IsContainer, Obj
  <2>4. PICK s, S : s = val[x].elems /\ S = ToSet(val[x].elems)
    OBVIOUS
  <2>5. s \in Seq(S) /\ Len(s) <= MaxLen /\ Parts(s)
    BY <1>1, <2>3, <2>4, PartsOfArray
  <2>6. Len(s) % 2 = 0 /\ v = Obj(TRUE, s)
    BY <1>3, <2>1, <2>4
  <2>7. IsTree(v)
    BY <2>5, <2>6, ArrayOfParts
  <2>8. \A b : Refs(b, v) = Refs(b, val[x])
    BY <2>3, SameElements
  <2>9. PICK c : c = count /\ count' = c /\ c = [b \in Bufs |-> c[b]]
    BY <1>1, CountsStay
  <2>10. \A b \in Bufs : c[b] + Refs(b, val[x]) = count[b] + Refs(b, v) /\ c[b] \in Int
    BY <2>8, <2>9, StateFacts
  <2>11. Replaces(x, v, c)
    BY <2>2, <2>9, <2>10 DEF Replaces
  <2> QED
    BY <1>1, <2>7, <2>11, OneTree
<1> QED
  BY <1>2, <1>3

(* An object with one more pair.                                              *)
LEMMA PairAdded ==
    ASSUME NEW v, IsTree(v), v.type = "obj", Len(v.elems) + 2 <= MaxLen,
           NEW e, Proper(e, MaxDepth - 1), NEW w, Proper(w, MaxDepth - 1)
    PROVE  /\ IsTree(Obj(v.messy, v.elems \o <<e, w>>))
           /\ \A b : Refs(b, Obj(v.messy, v.elems \o <<e, w>>)) = Refs(b, v) + Refs(b, e) + Refs(b, w)
<1>1. IsContainer(v) /\ MaxLen \in Nat
  BY ValueBounds DEF IsContainer
<1>2. PICK s, S, k, m : s = v.elems /\ S = ToSet(v.elems) /\ k = Len(v.elems) /\ m = v.messy
  OBVIOUS
<1>3. /\ s \in Seq(S) /\ k \in Nat /\ Len(s) = k /\ k + 2 <= MaxLen
      /\ Parts(s) /\ m \in BOOLEAN /\ v = Obj(m, s) /\ k % 2 = 0
  BY <1>1, <1>2, PartsOfArray
<1>4. PICK t, u : t = Append(s, e) /\ u = Append(t, w)
  OBVIOUS
<1>5. PICK Q, R : Q = S \cup {e} /\ R = Q \cup {w}
  OBVIOUS
<1>6. t \in Seq(Q) /\ Len(t) = k + 1 /\ Parts(t)
  BY <1>3, <1>4, <1>5, AppendPart
<1>7. u \in Seq(R) /\ Len(u) = Len(t) + 1 /\ Parts(u)
  BY <1>4, <1>5, <1>6, AppendPart
<1>8. Len(u) = k + 2 /\ Len(u) <= MaxLen /\ Len(u) % 2 = 0 /\ Len(s) < MaxLen /\ Len(t) < MaxLen
  BY <1>1, <1>3, <1>6, <1>7
<1>9. v.elems \o <<e, w>> = u
  <2>1. s \in Seq(R) /\ e \in R /\ w \in R
    BY <1>3, <1>5, SeqMonotonic
  <2>2. <<>> \in Seq(R) /\ <<e>> \in Seq(R) /\ <<e>> = Append(<<>>, e) /\ <<e, w>> = Append(<<e>>, w)
    BY <2>1
  <2>3. s \o Append(<<>>, e) = Append(s \o <<>>, e)
    BY <2>1, <2>2, ConcatAppend
  <2>4. s \o Append(<<e>>, w) = Append(s \o <<e>>, w)
    BY <2>1, <2>2, ConcatAppend
  <2>5. s \o <<>> = s
    BY <2>1, ConcatEmptySeq
  <2> QED
    BY <1>2, <1>4, <2>2, <2>3, <2>4, <2>5
<1>10. IsTree(Obj(m, u))
  BY <1>3, <1>7, <1>8, ArrayOfParts
<1>11. ASSUME NEW b
       PROVE  Refs(b, Obj(m, u)) = Refs(b, v) + Refs(b, e) + Refs(b, w)
  <2>1. Refs(b, Arr(t)) = Refs(b, Arr(s)) + Refs(b, e)
    BY <1>3, <1>4, <1>8, AppendRefs
  <2>2. Refs(b, Arr(u)) = Refs(b, Arr(t)) + Refs(b, w)
    BY <1>4, <1>6, <1>8, AppendRefs
  <2>3. /\ IsContainer(Arr(s)) /\ Arr(s).elems = s /\ IsContainer(Obj(m, s)) /\ Obj(m, s).elems = s
        /\ IsContainer(Arr(u)) /\ Arr(u).elems = u /\ IsContainer(Obj(m, u)) /\ Obj(m, u).elems = u
    BY DEF IsContainer, Arr, Obj
  <2>4. Refs(b, Obj(m, s)) = Refs(b, Arr(s)) /\ Refs(b, Obj(m, u)) = Refs(b, Arr(u))
    <3>1. PICK sa, so, ua, uo : sa = Arr(s) /\ so = Obj(m, s) /\ ua = Arr(u) /\ uo = Obj(m, u)
      OBVIOUS
    <3>2. /\ IsContainer(sa) /\ IsContainer(so) /\ sa.elems = so.elems
          /\ IsContainer(ua) /\ IsContainer(uo) /\ ua.elems = uo.elems
      BY <2>3, <3>1
    <3>3. Refs(b, so) = Refs(b, sa) /\ Refs(b, uo) = Refs(b, ua)
      BY <3>2, SameElements
    <3> QED
      BY <3>1, <3>3
  <2> QED
    BY <1>3, <2>1, <2>2, <2>4
<1> QED
  BY <1>2, <1>9, <1>10, <1>11

LEMMA ObjPutKeeps ==
    ASSUME IndInv, NEW x \in Vars, NEW y \in Vars, ObjPut(x, y)
    PROVE  IndInv'
<1>1. CASE Stops("put", "crashed")
  BY <1>1, Crash
<1>2. CASE PushFails("put")
  BY <1>2, PushFailing
<1>3. CASE ~PushFails("put") /\ ~Stops("put", "crashed")
  <2>1. /\ x # y /\ val[x].type = "obj" /\ Len(val[x].elems) + 2 <= MaxLen
        /\ Fits(val[y], MaxDepth - 1)
    BY DEF ObjPut
  <2>2. PICK b \in NewBufs : /\ val' = [val EXCEPT ![x] = Obj(val[x].messy, val[x].elems \o <<Str(b), val[y]>>), ![y] = Nil]
                             /\ count' = CountNew(b) /\ Returns("put", "ok")
    BY <1>3 DEF ObjPut
  <2>3. PICK v, h : v = Obj(val[x].messy, val[x].elems \o <<Str(b), val[y]>>) /\ h = CountNew(b)
    OBVIOUS
  <2>4. IsTree(val[x]) /\ Proper(val[y], MaxDepth - 1) /\ Proper(Str(b), MaxDepth - 1)
    <3>1. MaxDepth - 1 \in 0 .. MaxDepth
      BY ValueBounds
    <3>2. IsTree(val[x]) /\ IsTree(val[y])
      BY StateFacts
    <3> QED
      BY <2>1, <3>1, <3>2, NewString, MayBePart
  <2>5. IsTree(v) /\ \A c : Refs(c, v) = Refs(c, val[x]) + Refs(c, Str(b)) + Refs(c, val[y])
    <3>1. PICK s, e, w : s = val[x] /\ e = Str(b) /\ w = val[y]
      OBVIOUS
    <3>2. /\ IsTree(s) /\ s.type = "obj" /\ Len(s.elems) + 2 <= MaxLen
          /\ Proper(e, MaxDepth - 1) /\ Proper(w, MaxDepth - 1)
      BY <2>1, <2>4, <3>1
    <3>3. /\ IsTree(Obj(s.messy, s.elems \o <<e, w>>))
          /\ \A c : Refs(c, Obj(s.messy, s.elems \o <<e, w>>)) = Refs(c, s) + Refs(c, e) + Refs(c, w)
      BY <3>2, PairAdded
    <3> QED
      BY <2>3, <3>1, <3>3
  <2>6. IsTree(Nil)
    <3>1. MaxDepth \in 0 .. MaxDepth
      BY ValueBounds
    <3> QED
      BY <3>1, SmallTrees, ProperTree
  <2>7. h = [c \in Bufs |-> h[c]]
    BY <2>3, NewString
  <2>8. ASSUME NEW c \in Bufs
        PROVE  /\ h[c] + (Refs(c, val[x]) + Refs(c, val[y])) = count[c] + (Refs(c, v) + Refs(c, Nil))
               /\ h[c] \in Int
    <3>1. h[c] = count[c] + Refs(c, Str(b)) /\ h[c] \in Int
      BY <2>3, NewString
    <3>2. /\ Refs(c, val[x]) \in Nat /\ Refs(c, val[y]) \in Nat /\ Refs(c, Str(b)) \in Nat
          /\ Refs(c, Nil) = 0 /\ count[c] \in Nat
      BY StateFacts, ReferencesFinite, NilRefersToNothing
    <3>3. Refs(c, v) = Refs(c, val[x]) + Refs(c, Str(b)) + Refs(c, val[y])
      BY <2>5
    <3> QED
      BY <3>1, <3>2, <3>3
  <2>9. val' = [val EXCEPT ![x] = v, ![y] = Nil] /\ count' = h /\ Answers
    BY <2>2, <2>3, Answering
  <2>10. ReplacesTwo(x, v, y, Nil, h)
    BY <2>1, <2>7, <2>8, <2>9 DEF ReplacesTwo
  <2> QED
    BY <2>5, <2>6, <2>9, <2>10, TwoTrees
<1> QED
  BY <1>1, <1>2, <1>3

(***************************************************************************)
(* The results.                                                            *)
(***************************************************************************)

LEMMA Initially ==
    ASSUME Init
    PROVE  IndInv
<1>1. /\ val = [x \in Vars |-> Nil] /\ count = [b \in Bufs |-> 0] /\ last.rv = "ok"
  BY DEF Init
<1>2. IsTree(Nil)
  <2>1. MaxDepth \in 0 .. MaxDepth
    BY ValueBounds
  <2> QED
    BY <2>1, SmallTrees, ProperTree
<1>3. TypeOK
  BY <1>1, <1>2 DEF TypeOK
<1>4. ASSUME NEW b \in Bufs
      PROVE  count[b] = Cardinality(Holders(b))
  <2>1. Nil # Str(b)
    BY DEF Nil, Str
  <2>2. ASSUME NEW h \in Holders(b)
        PROVE  FALSE
    <3>1. h[1] \in Vars /\ h[2] \in Places /\ At(val[h[1]], h[2]) = Str(b)
      BY DEF Holders
    <3>2. val[h[1]] = Nil
      BY <1>1, <3>1
    <3>3. At(Nil, h[2]) = Nil
      BY <3>1, AtNil
    <3> QED
      BY <2>1, <3>1, <3>2, <3>3
  <2>3. Holders(b) = {}
    BY <2>2
  <2> QED
    BY <1>1, <2>3, FS_EmptySet
<1> QED
  BY <1>3, <1>4 DEF IndInv, CountsExact

LEMMA StepKeeps ==
    ASSUME IndInv, [Next]_vars
    PROVE  IndInv'
<1>1. CASE UNCHANGED vars
  BY <1>1 DEF vars, IndInv, TypeOK, CountsExact, Holders
<1>2. CASE Next
  <2>1. PICK x \in Vars :
           \/ InitContainer(x) \/ InitStr(x) \/ CleanVar(x) \/ PushStr(x)
           \/ Filter(x) \/ ObjFromArr(x)
           \/ \E y \in Vars : \/ Move(x, y) \/ CloneVar(x, y) \/ Push(x, y) \/ Pop(x, y)
                              \/ Concat(x, y) \/ ObjPut(x, y)
    BY <1>2 DEF Next
  <2>2. CASE InitContainer(x)
    BY <2>2, InitContainerKeeps
  <2>3. CASE InitStr(x)
    BY <2>3, InitStrKeeps
  <2>4. CASE CleanVar(x)
    BY <2>4, CleanKeeps
  <2>5. CASE PushStr(x)
    BY <2>5, PushStrKeeps
  <2>6. CASE Filter(x)
    BY <2>6, FilterKeeps
  <2>7. CASE ObjFromArr(x)
    BY <2>7, ObjFromArrKeeps
  <2>8. ASSUME NEW y \in Vars,
               \/ Move(x, y) \/ CloneVar(x, y) \/ Push(x, y) \/ Pop(x, y)
               \/ Concat(x, y) \/ ObjPut(x, y)
        PROVE  IndInv'
    BY <2>8, MoveKeeps, CloneKeeps, PushKeeps, PopKeeps, ConcatKeeps, ObjPutKeeps
  <2> QED
    BY <2>1, <2>2, <2>3, <2>4, <2>5, <2>6, <2>7, <2>8
<1> QED
  BY <1>1, <1>2

(* The invariant is inductive: no call, completed or failed, breaks it.       *)
THEOREM ValuesInvariance == Spec => []IndInv
<1>1. Init => IndInv
  BY Initially
<1>2. IndInv /\ [Next]_vars => IndInv'
  BY StepKeeps
<1> QED
  BY <1>1, <1>2, PTL DEF Spec

(* Every variable always holds a tree within the bounds whose objects are     *)
(* made of pairs, and no count is ever negative: whatever the order of the    *)
(* calls of nson_init, nson_clean, nson_move, nson_clone, nson_arr_*,         *)
(* nson_filter, nson_obj_from_arr and nson_obj_put, and whichever of their    *)
(* allocations fail.                                                          *)
THEOREM TypeCorrect == Spec => []TypeOK
<1>1. IndInv => TypeOK
  BY DEF IndInv
<1> QED
  BY <1>1, ValuesInvariance, PTL

(* No sequence of those calls makes a count differ from the number of strings *)
(* that refer to the buffer, wherever in whichever tree they are: no buffer   *)
(* is freed while a value refers to it, and none outlives its last value.     *)
THEOREM CountsAreExact == Spec => []CountsExact
<1>1. IndInv => CountsExact
  BY DEF IndInv
<1> QED
  BY <1>1, ValuesInvariance, PTL
=============================================================================
