---------------------------- MODULE ValueMemory ----------------------------
(***************************************************************************)
(* Who owns what in a tree of Nson values: src/array.c, the ownership side *)
(* of src/object.c, nson_clone and nson_move of src/data.c, nson_clean of  *)
(* src/nson.c and nson_filter of src/map_reduce.c, called one after the    *)
(* other by one thread.                                                    *)
(*                                                                         *)
(* A value is a tree.  Arrays and objects own the block of their elements  *)
(* (a block is never shared, so it is not modelled); strings refer to a    *)
(* counted buffer (NsonBuf), which clones share.  An object's elements are *)
(* its keys and values in turn (nson_obj_from_arr relies on that layout);  *)
(* it carries the mark `messy', for which nson_obj_put compares keys.      *)
(*                                                                         *)
(* The caller follows the library's rules: it initializes, clones, moves   *)
(* and pops into empty values only and does not hand an operation the same *)
(* value twice.                                                            *)
(***************************************************************************)
EXTENDS Integers, SequencesExt, FiniteSetsExt

CONSTANTS
    Vars,       \* the caller's Nson variables
    Bufs,       \* identities of heap buffers
    MaxLen,     \* bound on the elements of an array or object
    MaxDepth,   \* bound on the nesting of arrays and objects
    NoMemory,   \* may malloc and reallocarray fail?
    NoBuf       \* what a string refers to when its buffer could not be allocated

ASSUME ValueBounds ==
    /\ IsFiniteSet(Vars) /\ NoBuf \notin Bufs
    /\ MaxLen \in Nat /\ MaxDepth \in Nat \ {0} /\ NoMemory \in BOOLEAN

VARIABLES
    val,     \* val[x]: the value in variable x
    count,   \* count[b]: the reference count of buffer b, 0 when it is free
    last     \* the last call: [op, rv], rv "ok" for 0 or more and "error" for less,
             \* "aborted" or "crashed" if it did not return

vars == <<val, count, last>>

Nil == [type |-> "nil"]
Str(b) == [type |-> "str", buf |-> b]
Arr(s) == [type |-> "arr", elems |-> s]
Obj(m, s) == [type |-> "obj", messy |-> m, elems |-> s]

IsContainer(v) == v.type \in {"arr", "obj"}

(* A place in a tree: which element to enter on each level.                   *)
Places == UNION {[1 .. n -> 1 .. MaxLen] : n \in 0 .. MaxDepth}

(* The value on place p of the tree v, Nil where the tree does not reach.     *)
Child(v, j) == IF IsContainer(v) /\ j \in DOMAIN v.elems THEN v.elems[j] ELSE Nil
At(v, p) == LET at[n \in 0 .. Len(p)] == IF n = 0 THEN v ELSE Child(at[n - 1], p[n])
            IN at[Len(p)]

(* Arrays and objects are at most d levels deep in v. *)
Fits(v, d) == \A p \in Places : IsContainer(At(v, p)) => Len(p) < d

(* Where in the tree v buffer b is referred to, and how often. *)
References(b, v) == {p \in Places : At(v, p) = Str(b)}
Refs(b, v) == Cardinality(References(b, v))

HasObject(v) == \E p \in Places : At(v, p).type = "obj"

(* nson_mapper_clone: what memcpy followed by a walk over the copy leaves.    *)
(* The array on place p of v, its elements taken from below; one whose block  *)
(* cannot be copied is left empty, and the walk goes on.                      *)
Copy(v, lost, below, p) ==
    IF At(v, p).type # "arr" THEN At(v, p)
    ELSE IF p \in lost THEN Arr(<<>>)
    ELSE Arr([j \in DOMAIN At(v, p).elems |-> below[Append(p, j)]])

OnLevel(n) == {p \in Places : Len(p) = n}

CloneWithout(v, lost) ==
    LET copy[n \in 0 .. MaxDepth] ==
            [p \in OnLevel(MaxDepth - n) |->
                Copy(v, lost, IF n = 0 THEN <<>> ELSE copy[n - 1], p)]
    IN copy[MaxDepth][<<>>]

Clones(v) ==
    LET arrays == {p \in Places : At(v, p).type = "arr"}
    IN {CloneWithout(v, lost) : lost \in IF NoMemory THEN SUBSET arrays ELSE {{}}}

(* nson_clean walks the tree and releases every buffer it meets; retaining    *)
(* is the same walk with the other sign.                                      *)
Clean(v, c) == [b \in Bufs |-> c[b] - Refs(b, v)]

RetainOnce(v, c) == [b \in Bufs |-> c[b] + Min({1, Refs(b, v)})]
Retain(v, c) == [b \in Bufs |-> c[b] + Refs(b, v)]

Fresh == {b \in Bufs : count[b] = 0}

(* __nson_buf_new: nson_init_data returns 0 whether or not it got a buffer.   *)
NewBufs == Fresh \cup (IF NoMemory THEN {NoBuf} ELSE {})
CountNew(b) == [c \in Bufs |-> IF c = b THEN 1 ELSE count[c]]

(* To retain or to release a string without a buffer is a null dereference.  *)
Unallocated(v) == Refs(NoBuf, v) > 0

-----------------------------------------------------------------------------
Init == /\ val = [x \in Vars |-> Nil]
        /\ count = [b \in Bufs |-> 0]
        /\ last = [op |-> "none", rv |-> "ok"]

Returns(op, rv) == last' = [op |-> op, rv |-> rv]

(* A call that takes the program down. *)
Stops(op, how) == Returns(op, how) /\ UNCHANGED <<val, count>>

(* nson_init_arr and nson_init(x, NSON_OBJ). *)
InitContainer(x) ==
    /\ val[x] = Nil
    /\ \E v \in {Arr(<<>>), Obj(FALSE, <<>>)} : val' = [val EXCEPT ![x] = v]
    /\ Returns("init", "ok")
    /\ UNCHANGED count

(* nson_init_data, nson_init_str. *)
InitStr(x) ==
    /\ val[x] = Nil
    /\ \E b \in NewBufs : /\ val' = [val EXCEPT ![x] = Str(b)]
                          /\ count' = CountNew(b)
    /\ Returns("init", "ok")

CleanVar(x) ==
    /\ val[x] # Nil
    /\ IF Unallocated(val[x])
       THEN Stops("clean", "crashed")
       ELSE /\ val' = [val EXCEPT ![x] = Nil]
            /\ count' = Clean(val[x], count)
            /\ Returns("clean", "ok")

Move(x, y) ==
    /\ val[x] = Nil /\ val[y] # Nil
    /\ val' = [val EXCEPT ![x] = val[y], ![y] = Nil]
    /\ Returns("move", "ok")
    /\ UNCHANGED count

(* nson_clone.  Counting the entries of an object asks nson_arr_len, which     *)
(* asserts that it is given an array.                                         *)
CloneVar(x, y) ==
    /\ val[x] = Nil /\ val[y] # Nil
    /\ \E v \in Clones(val[y]) :
         \/ HasObject(v) /\ Stops("clone", "aborted")
         \/ Unallocated(v) /\ Stops("clone", "crashed")
         \/ /\ ~HasObject(v) /\ ~Unallocated(v)
            /\ val' = [val EXCEPT ![x] = v]
            /\ count' = Retain(v, count)
            /\ Returns("clone", "ok")

(* The slot behind the array is written whether or not mem_capacity made it. *)
PushFails(op) == NoMemory /\ Stops(op, "crashed")

(* nson_arr_push; push_int and push_real are its special cases. *)
Push(x, y) ==
    /\ x # y /\ val[x].type = "arr" /\ Len(val[x].elems) < MaxLen
    /\ Fits(val[y], MaxDepth - 1)
    /\ \/ PushFails("push")
       \/ /\ val' = [val EXCEPT ![x] = Arr(Append(val[x].elems, val[y])), ![y] = Nil]
          /\ Returns("push", "ok")
          /\ UNCHANGED count

(* nson_arr_push_str. *)
PushStr(x) ==
    /\ val[x].type = "arr" /\ Len(val[x].elems) < MaxLen
    /\ \/ PushFails("push")
       \/ \E b \in NewBufs : /\ val' = [val EXCEPT ![x] = Arr(Append(@.elems, Str(b)))]
                             /\ count' = CountNew(b)
                             /\ Returns("push", "ok")

Pop(x, y) ==
    /\ x # y /\ val[y].type = "arr" /\ val[x] = Nil
    /\ IF val[y].elems = <<>>
       THEN Returns("pop", "error") /\ UNCHANGED val
       ELSE /\ val' = [val EXCEPT ![x] = Last(val[y].elems), ![y] = Arr(Front(val[y].elems))]
            /\ Returns("pop", "ok")
    /\ UNCHANGED count

(* nson_arr_concat: the elements of y are moved behind those of x, the length *)
(* of y is set to 0 before y is cleaned.                                      *)
Concat(x, y) ==
    /\ x # y /\ val[x].type = "arr" /\ val[y].type = "arr"
    /\ Len(val[x].elems \o val[y].elems) <= MaxLen
    /\ \/ /\ NoMemory /\ val[y].elems # <<>>
          /\ Returns("concat", "error")
          /\ UNCHANGED <<val, count>>
       \/ /\ val' = [val EXCEPT ![x] = Arr(@.elems \o val[y].elems), ![y] = Nil]
          /\ Returns("concat", "ok")
          /\ UNCHANGED count

(* nson_filter with a callback that answers verdict[j] for element j: an      *)
(* element is moved to the result unless the answer is 0, an error ends the   *)
(* loop, and whatever was not moved is cleaned.                               *)
Visited(verdict) == {j \in DOMAIN verdict : \A h \in 1 .. j - 1 : verdict[h] >= 0}
Kept(verdict) == {j \in Visited(verdict) : verdict[j] # 0}

Select(s, J) ==
    LET some[n \in 0 .. Len(s)] ==
            IF n = 0 THEN <<>>
            ELSE IF n \in J THEN Append(some[n - 1], s[n]) ELSE some[n - 1]
    IN some[Len(s)]

Filter(x) ==
    /\ val[x].type = "arr"
    /\ \E verdict \in [DOMAIN val[x].elems -> {-1, 0, 1}] :
         LET s == val[x].elems
             kept == Kept(verdict)
             dropped == Arr(Select(s, DOMAIN s \ kept))
         IN \/ kept # {} /\ PushFails("filter")
            \/ Unallocated(dropped) /\ Stops("filter", "crashed")
            \/ /\ ~Unallocated(dropped)
               /\ val' = [val EXCEPT ![x] = Arr(Select(s, kept))]
               /\ count' = Clean(dropped, count)
               /\ Returns("filter", IF \E j \in kept : verdict[j] < 0 THEN "error" ELSE "ok")

ObjFromArrUnchecked(x) ==
    /\ val[x].type = "arr"
    /\ val' = [val EXCEPT ![x] = Obj(TRUE, @.elems)]
    /\ Returns("from_arr", "ok")
    /\ UNCHANGED count

(* nson_obj_from_arr: the block of pairs becomes the object's block. *)
ObjFromArr(x) ==
    /\ val[x].type = "arr"
    /\ IF Len(val[x].elems) % 2 # 0
       THEN Returns("from_arr", "error") /\ UNCHANGED val
       ELSE /\ val' = [val EXCEPT ![x] = Obj(TRUE, @.elems)]
            /\ Returns("from_arr", "ok")
    /\ UNCHANGED count

(* nson_obj_put: a new string for the key, the value is moved.  In an object  *)
(* marked messy the key is compared with the last one, and nson_cmp looks     *)
(* into the buffers of both if they are strings.                              *)
Compared(v, b) ==
    IF v.messy /\ v.elems # <<>> /\ Last(Front(v.elems)).type = "str"
    THEN {Last(Front(v.elems)), Str(b)} ELSE {}

ObjPut(x, y) ==
    /\ x # y /\ val[x].type = "obj" /\ Len(val[x].elems) + 2 <= MaxLen
    /\ Fits(val[y], MaxDepth - 1)
    /\ \E b \in NewBufs :
         \/ PushFails("put")
         \/ Str(NoBuf) \in Compared(val[x], b) /\ Stops("put", "crashed")
         \/ /\ Str(NoBuf) \notin Compared(val[x], b)
            /\ val' = [val EXCEPT ![x] = Obj(@.messy, @.elems \o <<Str(b), val[y]>>), ![y] = Nil]
            /\ count' = CountNew(b)
            /\ Returns("put", "ok")

Running == last.rv \notin {"aborted", "crashed"}

Next == /\ Running
        /\ \E x \in Vars :
              \/ InitContainer(x) \/ InitStr(x) \/ CleanVar(x) \/ PushStr(x)
              \/ Filter(x) \/ ObjFromArr(x)
              \/ \E y \in Vars : \/ Move(x, y) \/ CloneVar(x, y) \/ Push(x, y) \/ Pop(x, y)
                                 \/ Concat(x, y) \/ ObjPut(x, y)

Spec == Init /\ [][Next]_vars

-----------------------------------------------------------------------------
IsNode(v) ==
    \/ v = Nil
    \/ \E b \in Bufs \cup {NoBuf} : v = Str(b)
    \/ /\ IsContainer(v) /\ v \in {Arr(v.elems), Obj(TRUE, v.elems), Obj(FALSE, v.elems)}
       /\ v.elems \in Seq(ToSet(v.elems)) /\ Len(v.elems) <= MaxLen
       /\ v.type = "obj" => Len(v.elems) % 2 = 0
IsTree(v) == (\A p \in Places : IsNode(At(v, p))) /\ Fits(v, MaxDepth)

(* The type invariant: values are trees, an object is made of pairs.          *)
TypeOK == /\ DOMAIN val = Vars /\ \A x \in Vars : IsTree(val[x])
          /\ count \in [Bufs -> Nat]
          /\ last.rv \in {"ok", "error", "aborted", "crashed"}

(* Between any two calls, after any sequence of them, the count of a buffer   *)
(* is the number of values that refer to it, in whatever tree: cleaning the   *)
(* caller's variables frees every buffer exactly once and leaks none.         *)
Holders(b) == {h \in Vars \X Places : At(val[h[1]], h[2]) = Str(b)}
CountsExact == \A b \in Bufs : count[b] = Cardinality(Holders(b))

(* nson.h: "clones the value and all children of src into nson, @return 0 on  *)
(* success, < 0 on failure".  A clone returns, whatever the children are.     *)
CloneReturns == ~(last.op = "clone" /\ last.rv = "aborted")
=============================================================================
