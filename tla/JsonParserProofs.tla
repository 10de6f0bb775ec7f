-------------------------- MODULE JsonParserProofs --------------------------
(***************************************************************************)
(* For every document: the JSON parser never closes more arrays than it    *)
(* opened, leaks nothing, answers with a value or an error, and the value  *)
(* is what the text says.  Values are trees of any depth, which have no    *)
(* set; the levels of the stack are sequences of whatever they hold.       *)
(***************************************************************************)
EXTENDS JsonNesting, SequenceTheorems, NaturalsInduction, WellFoundedInduction, TLAPS

(* What keeps a sequence a sequence, whatever its elements.                   *)
LEMMA SeqOfAnything ==
    ASSUME NEW S, NEW s \in Seq(S)
    PROVE  IsSeq(s) /\ Len(s) \in Nat /\ DOMAIN s = 1 .. Len(s)
<1>1. Len(s) \in Nat /\ s \in [1 .. Len(s) -> S] /\ DOMAIN s = 1 .. Len(s)
  BY LenProperties
<1>2. s \in [1 .. Len(s) -> {s[n] : n \in DOMAIN s}]
  BY <1>1
<1> QED
  BY <1>1, <1>2, SeqDef DEF IsSeq

LEMMA SeqLength ==
    ASSUME NEW s, IsSeq(s)
    PROVE  Len(s) \in Nat /\ DOMAIN s = 1 .. Len(s) /\ (s # <<>> => Len(s) > 0)
BY LenProperties, EmptySeq DEF IsSeq

LEMMA SeqEmpty == IsSeq(<<>>) /\ Len(<<>>) = 0 /\ DOMAIN <<>> = {}
<1>1. <<>> \in Seq({}) /\ Len(<<>>) = 0
  BY EmptySeq
<1>2. IsSeq(<<>>) /\ DOMAIN <<>> = 1 .. 0
  BY <1>1, SeqOfAnything
<1> QED
  BY <1>1, <1>2

LEMMA SeqAppend ==
    ASSUME NEW s, NEW v, IsSeq(s)
    PROVE  /\ IsSeq(Append(s, v)) /\ Append(s, v) # <<>>
           /\ Len(Append(s, v)) = Len(s) + 1
           /\ \A n \in 1 .. Len(s) : Append(s, v)[n] = s[n]
           /\ Append(s, v)[Len(s) + 1] = v
<1> DEFINE S == {s[n] : n \in DOMAIN s} \cup {v}
<1>1. s \in Seq(S) /\ v \in S
  <2>1. s \in Seq({s[n] : n \in DOMAIN s})
    BY DEF IsSeq
  <2> QED
    BY <2>1, SeqMonotonic
<1> HIDE DEF S
<1>2. /\ Append(s, v) \in Seq(S) /\ Append(s, v) # <<>>
      /\ Len(Append(s, v)) = Len(s) + 1
      /\ \A n \in 1 .. Len(s) : Append(s, v)[n] = s[n]
      /\ Append(s, v)[Len(s) + 1] = v
  BY <1>1, AppendProperties
<1> QED
  BY <1>2, SeqOfAnything

LEMMA SeqExcept ==
    ASSUME NEW s, NEW v, IsSeq(s), NEW m \in 1 .. Len(s)
    PROVE  /\ IsSeq([s EXCEPT ![m] = v])
           /\ Len([s EXCEPT ![m] = v]) = Len(s)
           /\ \A n \in 1 .. Len(s) : [s EXCEPT ![m] = v][n] = IF n = m THEN v ELSE s[n]
<1> DEFINE S == {s[n] : n \in DOMAIN s} \cup {v}
<1>1. s \in Seq(S) /\ v \in S
  <2>1. s \in Seq({s[n] : n \in DOMAIN s})
    BY DEF IsSeq
  <2> QED
    BY <2>1, SeqMonotonic
<1> HIDE DEF S
<1>2. /\ [s EXCEPT ![m] = v] \in Seq(S)
      /\ Len([s EXCEPT ![m] = v]) = Len(s)
      /\ \A n \in 1 .. Len(s) : [s EXCEPT ![m] = v][n] = IF n = m THEN v ELSE s[n]
  BY <1>1, ExceptSeq
<1> QED
  BY <1>2, SeqOfAnything

LEMMA SeqFront ==
    ASSUME NEW s, IsSeq(s), Len(s) > 0
    PROVE  /\ IsSeq(SubSeq(s, 1, Len(s) - 1))
           /\ Len(SubSeq(s, 1, Len(s) - 1)) = Len(s) - 1
           /\ \A n \in 1 .. Len(s) - 1 : SubSeq(s, 1, Len(s) - 1)[n] = s[n]
<1>1. PICK k \in Nat : k = Len(s) - 1
  BY SeqLength
<1>2. \A n \in 1 .. k : s[n] \in {s[j] : j \in DOMAIN s}
  BY <1>1, SeqLength
<1>3. /\ SubSeq(s, 1, k) \in Seq({s[j] : j \in DOMAIN s})
      /\ Len(SubSeq(s, 1, k)) = IF 1 <= k THEN k - 1 + 1 ELSE 0
      /\ \A n \in 1 .. k - 1 + 1 : SubSeq(s, 1, k)[n] = s[1 + n - 1]
  BY <1>2, SubSeqProperties
<1>4. IsSeq(SubSeq(s, 1, k))
  BY <1>3, SeqOfAnything
<1>5. Len(SubSeq(s, 1, k)) = k
  BY <1>3
<1>6. \A n \in 1 .. k : SubSeq(s, 1, k)[n] = s[n]
  <2> TAKE n \in 1 .. k
  <2>1. n \in 1 .. k - 1 + 1 /\ 1 + n - 1 = n
    OBVIOUS
  <2> QED
    BY <1>3, <2>1
<1> QED
  BY <1>1, <1>4, <1>5, <1>6

-----------------------------------------------------------------------------
(* The operations on the stack of open arrays.                                *)
LEMMA DocLength == ASSUME IndInv PROVE Len(doc) \in Nat
BY LenProperties DEF IndInv, Documents

LEMMA EmptyLevel == IsLevel(Arr(<<>>))
BY SeqEmpty DEF IsLevel, Arr

LEMMA FullerLevel ==
    ASSUME NEW v, IsLevel(v), NEW w, w.type \in Types \ {"nil"}
    PROVE  IsLevel(Arr(Append(v.elems, w)))
<1>1. /\ IsSeq(v.elems) /\ DOMAIN v.elems = 1 .. Len(v.elems) /\ Len(v.elems) \in Nat
      /\ \A m \in DOMAIN v.elems : v.elems[m].type \in Types \ {"nil"}
  BY SeqLength DEF IsLevel
<1>2. PICK e : e = Append(v.elems, w)
  OBVIOUS
<1>3. /\ IsSeq(e) /\ DOMAIN e = 1 .. Len(v.elems) + 1
      /\ \A n \in 1 .. Len(v.elems) : e[n] = v.elems[n]
      /\ e[Len(v.elems) + 1] = w
  BY <1>1, <1>2, SeqAppend, SeqLength
<1>4. \A m \in DOMAIN e : e[m].type \in Types \ {"nil"}
  BY <1>1, <1>3
<1> QED
  BY <1>2, <1>3, <1>4 DEF IsLevel, Arr

LEMMA LevelsLength ==
    ASSUME NEW s, AreLevels(s)
    PROVE  /\ Len(s) \in Nat /\ Len(s) > 0 /\ DOMAIN s = 1 .. Len(s)
           /\ \A n \in DOMAIN s : s[n].type = "arr"
BY SeqLength DEF AreLevels, IsLevel, Arr

LEMMA LevelsPush ==
    ASSUME NEW s, AreLevels(s)
    PROVE  /\ AreLevels(Push(s, Arr(<<>>))) /\ Push(s, Arr(<<>>))[1] = s[1]
           /\ Len(Push(s, Arr(<<>>))) = Len(s) + 1
<1>1. IsSeq(s) /\ Len(s) \in Nat /\ Len(s) > 0 /\ DOMAIN s = 1 .. Len(s)
  BY LevelsLength DEF AreLevels
<1>2. PICK e : e = Push(s, Arr(<<>>))
  OBVIOUS
<1>3. /\ IsSeq(e) /\ e # <<>> /\ DOMAIN e = 1 .. Len(s) + 1 /\ Len(e) = Len(s) + 1
      /\ \A n \in 1 .. Len(s) : e[n] = s[n]
      /\ e[Len(s) + 1] = Arr(<<>>)
  BY <1>1, <1>2, SeqAppend, SeqLength DEF Push
<1>4. \A n \in DOMAIN e : IsLevel(e[n])
  BY <1>1, <1>3, EmptyLevel DEF AreLevels
<1> QED
  BY <1>1, <1>2, <1>3, <1>4 DEF AreLevels

LEMMA LevelsAdd ==
    ASSUME NEW s, AreLevels(s), NEW w, w.type \in Types \ {"nil"}
    PROVE  /\ AreLevels(AddTo(s, w)) /\ Len(AddTo(s, w)) = Len(s)
           /\ Len(s) > 1 => AddTo(s, w)[1] = s[1]
<1>1. IsSeq(s)
  BY DEF AreLevels
<1>2. Len(s) \in Nat /\ Len(s) > 0 /\ DOMAIN s = 1 .. Len(s)
  BY LevelsLength
<1>3. PICK v : v = Arr(Append(s[Len(s)].elems, w))
  OBVIOUS
<1>4. PICK e : e = [s EXCEPT ![Len(s)] = v]
  OBVIOUS
<1>5. e = AddTo(s, w)
  BY <1>3, <1>4 DEF AddTo
<1>6. IsLevel(v)
  BY <1>2, <1>3, FullerLevel DEF AreLevels
<1>7. Len(s) \in 1 .. Len(s)
  BY <1>2
<1>8. IsSeq(e)
  BY <1>1, <1>4, <1>7, SeqExcept
<1>9. /\ Len(e) = Len(s) /\ DOMAIN e = 1 .. Len(s)
       /\ \A n \in 1 .. Len(s) : e[n] = IF n = Len(s) THEN v ELSE s[n]
  BY <1>1, <1>4, <1>7, <1>8, SeqExcept, SeqLength
<1>10. e # <<>>
  <2>1. Len(<<>>) = 0
    BY SeqEmpty
  <2>2. Len(e) = Len(s)
    BY <1>9
  <2> QED
    BY <1>2, <2>1, <2>2
<1>11. \A n \in DOMAIN e : IsLevel(e[n])
  BY <1>2, <1>6, <1>9 DEF AreLevels
<1>12. ASSUME Len(s) > 1
       PROVE  e[1] = s[1]
  <2>1. 1 \in 1 .. Len(s) /\ 1 # Len(s)
    BY <1>2, <1>12
  <2> QED
    BY <1>9, <2>1
<1> QED
  BY <1>5, <1>8, <1>9, <1>10, <1>11, <1>12 DEF AreLevels

LEMMA LevelsPop ==
    ASSUME NEW s, AreLevels(s), Len(s) # 1
    PROVE  /\ AreLevels(SubSeq(s, 1, Len(s) - 1)) /\ SubSeq(s, 1, Len(s) - 1)[1] = s[1]
           /\ Len(SubSeq(s, 1, Len(s) - 1)) = Len(s) - 1
<1>1. IsSeq(s)
  BY DEF AreLevels
<1>2. Len(s) \in Nat /\ Len(s) > 0 /\ DOMAIN s = 1 .. Len(s)
  BY LevelsLength
<1>3. Len(s) \in Nat /\ Len(s) > 1 /\ DOMAIN s = 1 .. Len(s)
  BY <1>2
<1>4. PICK e : e = SubSeq(s, 1, Len(s) - 1)
  OBVIOUS
<1>5. IsSeq(e)
  BY <1>1, <1>4, <1>2, SeqFront
<1>6. /\ Len(e) = Len(s) - 1 /\ DOMAIN e = 1 .. Len(s) - 1
      /\ \A n \in 1 .. Len(s) - 1 : e[n] = s[n]
  BY <1>1, <1>4, <1>2, <1>5, SeqFront, SeqLength
<1>7. e # <<>>
  <2>1. Len(<<>>) = 0
    BY SeqEmpty
  <2> QED
    BY <1>3, <1>6, <2>1
<1>8. \A n \in DOMAIN e : IsLevel(e[n])
  BY <1>3, <1>6 DEF AreLevels
<1> QED
  BY <1>3, <1>4, <1>6, <1>7, <1>8, <1>5 DEF AreLevels

-----------------------------------------------------------------------------
(* A round of the loop that leaves the levels s behind.                       *)
LEMMA RoundInv ==
    ASSUME IndInv, at = "loop", NEW s, AreLevels(s), Len(s) > 1 => s[1] = Arr(<<>>),
           NEW k \in 0 .. Len(doc) + 4, k > Len(doc) /\ Len(s) = 1 => LoneLiteral,
           NextRound(s, k), UNCHANGED old_top
    PROVE  IndInv'
<1>1. Len(doc) \in Nat /\ 0 \in -1 .. Len(doc) + 4 /\ ~(0 > Len(doc))
  BY DocLength
<1>2. /\ rv = 0 /\ nson = Nil /\ old_top' = old_top /\ doc' = doc
      /\ stack' = s /\ i' = k /\ rv' = rv /\ nson' = nson
      /\ at' = IF Len(s) > 1 /\ k < Len(doc) THEN "loop" ELSE "end"
  BY DEF IndInv, Parsing, NextRound
<1>3. TypeOK'
  BY <1>1, <1>2, LevelsLength DEF IndInv, TypeOK, Nil, Types
<1>4. Len(s) # 1 => s # <<>> /\ s[1] = Arr(<<>>)
  <2>1. PICK m \in Nat : m = Len(s) /\ m > 0
    BY LevelsLength
  <2>2. m # 1 => m > 1
    BY <2>1
  <2> QED
    BY <2>1, <2>2 DEF AreLevels
<1>5. Len(s) = 1 => at' = "end"
  BY <1>2
<1>6. BottomLast'
  BY <1>2, <1>4, <1>5 DEF BottomLast
<1>7. NothingLeaks'
  BY <1>2 DEF IndInv, NothingLeaks
<1>8. Parsing'
  BY <1>2 DEF Parsing
<1>9. (at = "loop" => More)'
  BY <1>2 DEF More
<1>10. OverrunsOnlyAtLoneLiteral'
  BY <1>1, <1>2 DEF OverrunsOnlyAtLoneLiteral
<1>11. (at = "end" /\ i > Len(doc) /\ Len(stack) = 1 => LoneLiteral)'
  BY <1>2 DEF LoneLiteral
<1> QED
  BY <1>2, <1>3, <1>6, <1>7, <1>8, <1>9, <1>10, <1>11 DEF IndInv

(* The position behind a token of the text.                                   *)
LEMMA NextPosition ==
    ASSUME IndInv, More
    PROVE  /\ Len(doc) \in Nat /\ i \in Nat /\ i < Len(doc)
           /\ i + 1 \in 0 .. Len(doc) + 4 /\ ~(i + 1 > Len(doc))
<1>1. Len(doc) \in Nat /\ i \in 0 .. Len(doc) + 4 /\ i < Len(doc)
  BY DocLength DEF IndInv, TypeOK, More
<1> QED
  BY <1>1

(* The ways out with an error.                                                *)
LEMMA FailInv ==
    ASSUME IndInv, at \in {"loop", "end"}, Fail, stack' \in {stack, <<>>},
           old_top' \in {old_top, Arr(<<>>), Obj(<<>>)}
    PROVE  IndInv'
<1>1. /\ Len(doc) \in Nat /\ nson = Nil
      /\ doc' = doc /\ i' = i /\ nson' = nson /\ rv' = -1 /\ at' = "out"
  BY DocLength DEF IndInv, Parsing, Fail
<1>2. \A n \in DOMAIN stack' : stack'[n].type = "arr"
  BY SeqEmpty DEF IndInv, TypeOK
<1>3. TypeOK'
  <2>1. old_top'.type \in {"nil", "arr", "obj"}
    <3>1. old_top.type \in {"nil", "arr", "obj"}
      BY DEF IndInv, TypeOK
    <3>2. Arr(<<>>).type = "arr" /\ Obj(<<>>).type = "obj"
      BY DEF Arr, Obj
    <3> QED
      BY <3>1, <3>2
  <2>2. i' \in 0 .. Len(doc') + 4 /\ rv' \in -1 .. Len(doc') + 4
    <3>1. i \in 0 .. Len(doc) + 4
      BY DEF IndInv, TypeOK
    <3>2. -1 \in -1 .. Len(doc) + 4
      BY <1>1
    <3> QED
      BY <1>1, <3>1, <3>2
  <2>3. nson'.type \in Types
    BY <1>1 DEF Nil, Types
  <2> QED
    BY <1>1, <1>2, <2>1, <2>2, <2>3 DEF TypeOK
<1>4. NothingLeaks'
  <2>1. old_top' = old_top \/ old_top'.elems = <<>>
    BY DEF Arr, Obj
  <2> QED
    BY <2>1 DEF IndInv, NothingLeaks
<1>5. Parsed'
  <2>1. rv' < 0
    BY <1>1
  <2> QED
    BY <1>1, <2>1 DEF Parsed
<1>6. doc' \in Documents
  BY <1>1 DEF IndInv
<1>7. OverrunsOnlyAtLoneLiteral'
  <2>1. ~(-1 > Len(doc))
    BY <1>1
  <2> QED
    BY <1>1, <2>1 DEF OverrunsOnlyAtLoneLiteral
<1> QED
  BY <1>1, <1>3, <1>4, <1>5, <1>6, <1>7 DEF IndInv, BottomLast

LEMMA InitInv == Init => IndInv
<1> SUFFICES ASSUME Init PROVE IndInv
  OBVIOUS
<1>1. doc \in Documents /\ Len(doc) \in Nat
  BY DocsAreDocuments, LenProperties DEF Init, Documents
<1>2. PICK b : b = Arr(<<>>)
  OBVIOUS
<1>3. <<b>> \in Seq({b}) /\ Len(<<b>>) = 1 /\ <<b>>[1] = b
  OBVIOUS
<1>4. IsSeq(<<b>>) /\ DOMAIN <<b>> = 1 .. 1 /\ <<b>> # <<>>
  BY <1>3, SeqOfAnything
<1>5. IsLevel(b) /\ b.type = "arr"
  BY <1>2, EmptyLevel DEF Arr
<1>6. AreLevels(<<b>>)
  BY <1>3, <1>4, <1>5 DEF AreLevels
<1>7. stack = <<b>> /\ i = 0 /\ old_top = Nil /\ at = "skip" /\ rv = 0 /\ nson = Nil
  BY <1>2 DEF Init
<1>8. TypeOK
  BY <1>1, <1>3, <1>4, <1>5, <1>7 DEF TypeOK, Nil, Types
<1>9. OverrunsOnlyAtLoneLiteral
  BY <1>1, <1>7 DEF OverrunsOnlyAtLoneLiteral
<1> QED
  BY <1>1, <1>2, <1>6, <1>7, <1>8, <1>9 DEF IndInv, BottomLast, NothingLeaks, Parsing, Nil

LEMMA InTheLoop ==
    ASSUME IndInv, at = "loop"
    PROVE  AreLevels(stack) /\ stack[1] = Arr(<<>>) /\ More
BY DEF IndInv, Parsing, BottomLast

(* What stands for a token in a value is never empty.                         *)
LEMMA ScalarTypes ==
    ASSUME NEW token \in Scalars \cup {"cut"}, NEW v \in ScalarsOf(token)
    PROVE  v.type \in Types \ {"nil"}
BY DEF ScalarsOf, Scalar, Scalars, Types

LEMMA OpenInv == ASSUME IndInv, OpenContainer PROVE IndInv'
<1>1. at = "loop" /\ NextRound(Push(stack, Arr(<<>>)), i + 1) /\ UNCHANGED old_top
  BY DEF OpenContainer, InLoop
<1>2. AreLevels(Push(stack, Arr(<<>>))) /\ Push(stack, Arr(<<>>))[1] = Arr(<<>>)
  BY <1>1, InTheLoop, LevelsPush
<1> QED
  BY <1>1, <1>2, InTheLoop, NextPosition, RoundInv

LEMMA SkipTokenInv == ASSUME IndInv, SkipToken PROVE IndInv'
BY InTheLoop, NextPosition, RoundInv DEF SkipToken, InLoop

LEMMA AddScalarInv == ASSUME IndInv, AddScalar PROVE IndInv'
<1>1. PICK v \in ScalarsOf(Token) :
          \E n \in IF Token = "cut" THEN MissingBytes(v) ELSE {0} :
              NextRound(AddTo(stack, v), i + 1 + n)
  BY DEF AddScalar
<1>2. PICK n \in IF Token = "cut" THEN MissingBytes(v) ELSE {0} :
          NextRound(AddTo(stack, v), i + 1 + n)
  BY <1>1
<1>3. at = "loop" /\ Token \in Scalars \cup {"cut"} /\ UNCHANGED old_top
  BY DEF AddScalar, InLoop
<1>4. /\ AreLevels(stack) /\ stack[1] = Arr(<<>>) /\ v.type \in Types \ {"nil"}
      /\ More /\ Len(doc) \in Nat /\ i \in Nat /\ i < Len(doc)
  BY <1>3, InTheLoop, NextPosition, ScalarTypes
<1>5. /\ AreLevels(AddTo(stack, v)) /\ Len(AddTo(stack, v)) = Len(stack)
      /\ Len(stack) > 1 => AddTo(stack, v)[1] = stack[1]
  BY <1>4, LevelsAdd
<1>6. n \in 0 .. 4
  BY <1>2 DEF MissingBytes
<1>7. i + 1 + n \in 0 .. Len(doc) + 4
  BY <1>4, <1>6
<1>8. ASSUME i + 1 + n > Len(doc), Len(stack) = 1
      PROVE  LoneLiteral
  <2>1. doc[i + 1] = "cut"
    <3>1. n # 0
      BY <1>4, <1>8
    <3> QED
      BY <1>2, <3>1 DEF Token
  <2>2. i + 1 = Len(doc)
    <3>1. doc \in Seq(Tokens) /\ \A j \in DOMAIN doc : doc[j] = "cut" => j = Len(doc)
      BY DEF IndInv, Documents
    <3>2. DOMAIN doc = 1 .. Len(doc)
      BY <3>1, LenProperties
    <3>3. i + 1 \in 1 .. Len(doc)
      BY <1>4
    <3> QED
      BY <2>1, <3>1, <3>2, <3>3
  <2>3. Len(doc) - 1 = i /\ doc # <<>>
    BY <1>4, <2>2, SeqEmpty
  <2>4. \A j \in 1 .. i : doc[j] = " "
    BY <1>3, <1>8 DEF IndInv, BottomLast
  <2> QED
    BY <2>1, <2>2, <2>3, <2>4 DEF LoneLiteral
<1> QED
  BY <1>2, <1>3, <1>4, <1>5, <1>7, <1>8, RoundInv

(* The bottom is still empty when it is closed: nothing is lost with it.      *)
LEMMA CloseInv ==
    ASSUME IndInv, at = "loop", CloseWith(Top) \/ CloseWith(Obj(Top.elems))
    PROVE  IndInv'
<1>1. PICK v : v \in {Top, Obj(Top.elems)} /\ CloseWith(v)
  OBVIOUS
<1>2. AreLevels(stack) /\ stack[1] = Arr(<<>>)
  BY InTheLoop
<1>3. CASE Len(stack) = 1
  <2>1. Top = Arr(<<>>) /\ Top.elems = <<>>
    BY <1>2, <1>3 DEF Top, Arr
  <2>2. v \in {Arr(<<>>), Obj(<<>>)}
    BY <1>1, <2>1
  <2>3. Fail /\ stack' = <<>> /\ old_top' = v
    BY <1>1, <1>3 DEF CloseWith
  <2> QED
    BY <2>2, <2>3, FailInv
<1>4. CASE Len(stack) # 1
  <2>1. NextRound(AddTo(Below, v), i + 1) /\ UNCHANGED old_top
    BY <1>1, <1>4 DEF CloseWith
  <2>2. v.type \in Types \ {"nil"}
    <3>1. Top.type = "arr"
      BY <1>2, LevelsLength DEF Top
    <3>2. Obj(Top.elems).type = "obj"
      BY DEF Obj
    <3> QED
      BY <1>1, <3>1, <3>2 DEF Types
  <2>3. AreLevels(Below) /\ Below[1] = Arr(<<>>)
    BY <1>2, <1>4, LevelsPop DEF Below
  <2>4. /\ AreLevels(AddTo(Below, v)) /\ Len(AddTo(Below, v)) = Len(Below)
        /\ Len(Below) > 1 => AddTo(Below, v)[1] = Below[1]
    BY <2>2, <2>3, LevelsAdd
  <2> QED
    BY <2>1, <2>3, <2>4, InTheLoop, NextPosition, RoundInv
<1> QED
  BY <1>3, <1>4

LEMMA CloseArrayInv == ASSUME IndInv, CloseArray PROVE IndInv'
BY CloseInv DEF CloseArray, InLoop

LEMMA CloseObjectInv == ASSUME IndInv, CloseObject PROVE IndInv'
<1>1. at = "loop"
  BY DEF CloseObject, InLoop
<1>2. CASE Len(Top.elems) % 2 # 0
  <2>1. Fail /\ UNCHANGED <<stack, old_top>>
    BY <1>2 DEF CloseObject
  <2> QED
    BY <1>1, <2>1, FailInv
<1>3. CASE Len(Top.elems) % 2 = 0
  <2>1. CloseWith(Obj(Top.elems))
    BY <1>3 DEF CloseObject
  <2> QED
    BY <1>1, <2>1, CloseInv
<1> QED
  BY <1>2, <1>3

LEMMA GiveUpInv == ASSUME IndInv, GiveUp PROVE IndInv'
BY FailInv DEF GiveUp, InLoop

-----------------------------------------------------------------------------
(* Before and behind the loop.                                                *)
LEMMA SkipSpaceInv == ASSUME IndInv, SkipSpace PROVE IndInv'
<1>1. /\ at = "skip" /\ at' = "skip" /\ More /\ doc[i + 1] = " " /\ i' = i + 1
      /\ UNCHANGED <<doc, stack, old_top, rv, nson>>
  BY DEF SkipSpace, Token
<1>2. i \in Nat /\ i + 1 \in 0 .. Len(doc) + 4
  BY <1>1, NextPosition
<1>3. \A j \in 1 .. i + 1 : j \in 1 .. i \/ j = i + 1
  BY <1>2
<1>4. TypeOK'
  BY <1>1, <1>2 DEF IndInv, TypeOK
<1>5. \A j \in 1 .. i + 1 : doc[j] = " "
  BY <1>1, <1>3 DEF IndInv
<1>6. Parsing' /\ NothingLeaks' /\ OverrunsOnlyAtLoneLiteral'
  BY <1>1 DEF IndInv, Parsing, NothingLeaks, OverrunsOnlyAtLoneLiteral, LoneLiteral
<1> QED
  BY <1>1, <1>4, <1>5, <1>6 DEF IndInv, BottomLast

LEMMA EnterInv == ASSUME IndInv, Enter PROVE IndInv'
<1>1. /\ at = "skip" /\ Parsing /\ stack = <<Arr(<<>>)>> /\ \A j \in 1 .. i : doc[j] = " "
      /\ UNCHANGED <<doc, i, stack, old_top, nson>>
  BY DEF IndInv, Enter
<1>2. stack # <<>> /\ stack[1] = Arr(<<>>)
  <2>1. \A b : <<b>> # <<>> /\ <<b>>[1] = b
    OBVIOUS
  <2> QED
    BY <1>1, <2>1
<1>3. NothingLeaks'
  BY <1>1 DEF IndInv, NothingLeaks
<1>4. CASE More /\ at' = "loop" /\ UNCHANGED rv
  <2>1. TypeOK' /\ Parsing' /\ More' /\ BottomLast' /\ OverrunsOnlyAtLoneLiteral'
    BY <1>1, <1>2, <1>4
    DEF IndInv, TypeOK, Parsing, More, BottomLast, OverrunsOnlyAtLoneLiteral, LoneLiteral
  <2> QED
    BY <1>1, <1>3, <1>4, <2>1 DEF IndInv
<1>5. CASE at' = "out" /\ rv' = -1
  <2>1. -1 \in -1 .. Len(doc) + 4 /\ -1 < 0 /\ ~(-1 > Len(doc))
    BY DocLength
  <2>2. TypeOK'
    BY <1>1, <1>5, <2>1 DEF IndInv, TypeOK
  <2>3. Parsed'
    BY <1>1, <1>5, <2>1 DEF Parsing, Parsed
  <2>4. OverrunsOnlyAtLoneLiteral'
    BY <1>1, <1>5, <2>1 DEF OverrunsOnlyAtLoneLiteral
  <2> QED
    BY <1>1, <1>3, <1>5, <2>2, <2>3, <2>4 DEF IndInv, BottomLast
<1> QED
  BY <1>4, <1>5 DEF Enter

LEMMA FinishInv == ASSUME IndInv, Finish PROVE IndInv'
<1>1. at = "end" /\ UNCHANGED old_top /\ Parsing
  BY DEF IndInv, Finish
<1>2. CASE Len(stack) # 1 \/ Len(Top.elems) # 1
  <2>1. Fail /\ UNCHANGED stack
    BY <1>2 DEF Finish
  <2> QED
    BY <1>1, <2>1, FailInv
<1>3. CASE ~(Len(stack) # 1 \/ Len(Top.elems) # 1)
  <2>1. /\ nson' = Head(Top.elems) /\ stack' = <<Arr(<<Nil>>)>>
        /\ rv' = i /\ at' = "out" /\ UNCHANGED <<doc, i>>
    BY <1>3 DEF Finish
  <2>2. IsLevel(Top) /\ Len(Top.elems) = 1
    BY <1>1, <1>3, LevelsLength DEF Parsing, AreLevels, Top
  <2>3. nson'.type \in Types \ {"nil"}
    <3>1. DOMAIN Top.elems = 1 .. 1 /\ Head(Top.elems) = Top.elems[1]
      BY <2>2, SeqLength DEF IsLevel
    <3> QED
      BY <2>1, <2>2, <3>1 DEF IsLevel
  <2>4. i \in 0 .. Len(doc) + 4 /\ ~(i < 0) /\ i \in -1 .. Len(doc) + 4
    <3>1. i \in 0 .. Len(doc) + 4
      BY DEF IndInv, TypeOK
    <3> QED
      BY <3>1, DocLength
  <2>5. \A n \in DOMAIN stack' : stack'[n].type = "arr"
    <3>1. \A b : DOMAIN <<b>> = 1 .. 1 /\ <<b>>[1] = b
      OBVIOUS
    <3>2. Arr(<<Nil>>).type = "arr"
      BY DEF Arr
    <3> QED
      BY <2>1, <3>1, <3>2
  <2>6. TypeOK'
    BY <1>1, <2>1, <2>3, <2>4, <2>5 DEF IndInv, TypeOK
  <2>7. Parsed'
    BY <2>1, <2>3, <2>4 DEF Parsed
  <2>8. NothingLeaks'
    BY <1>1 DEF IndInv, NothingLeaks
  <2>9. OverrunsOnlyAtLoneLiteral'
    BY <1>1, <1>3, <2>1 DEF IndInv, OverrunsOnlyAtLoneLiteral, LoneLiteral
  <2> QED
    BY <2>1, <2>6, <2>7, <2>8, <2>9 DEF IndInv, BottomLast
<1> QED
  BY <1>2, <1>3

LEMMA ReturnInv == ASSUME IndInv, Return PROVE IndInv'
<1>1. /\ at = "out" /\ stack' = <<>> /\ at' = "returned"
      /\ UNCHANGED <<doc, i, old_top, rv, nson>>
  BY DEF Return
<1>2. TypeOK'
  BY <1>1, SeqEmpty DEF IndInv, TypeOK
<1>3. Parsed' /\ NothingLeaks' /\ OverrunsOnlyAtLoneLiteral'
  BY <1>1 DEF IndInv, Parsed, NothingLeaks, OverrunsOnlyAtLoneLiteral, LoneLiteral
<1> QED
  BY <1>1, <1>2, <1>3 DEF IndInv, BottomLast

LEMMA StutterInv == ASSUME IndInv, UNCHANGED vars PROVE IndInv'
BY DEF IndInv, vars, TypeOK, BottomLast, NothingLeaks, More, Parsing, Parsed,
       OverrunsOnlyAtLoneLiteral, LoneLiteral

-----------------------------------------------------------------------------
(* The invariant holds for every set of documents.                            *)
THEOREM ParserInvariance == Spec => []IndInv
<1>1. IndInv /\ [Next]_vars => IndInv'
  BY SkipSpaceInv, EnterInv, OpenInv, SkipTokenInv, CloseArrayInv, CloseObjectInv,
     AddScalarInv, GiveUpInv, FinishInv, ReturnInv, StutterInv DEF Next
<1> QED
  BY <1>1, InitInv, PTL DEF Spec

(* The position and the result are never more than 4 bytes behind the text,   *)
(* and every level of the stack is an array.                                  *)
THEOREM TypeCorrect == Spec => []TypeOK
<1>1. IndInv => TypeOK
  BY DEF IndInv
<1> QED
  BY <1>1, ParserInvariance, PTL

(* nson_parse_json: the result is a position behind the text only for a text  *)
(* of nothing but a literal without its last bytes.                           *)
THEOREM OverrunIsLoneLiteral == Spec => []OverrunsOnlyAtLoneLiteral
<1>1. IndInv => OverrunsOnlyAtLoneLiteral
  BY DEF IndInv
<1> QED
  BY <1>1, ParserInvariance, PTL

(* nson_parse_json: `old_top' is not cleaned, and never holds a value.        *)
THEOREM NoLeak == Spec => []NothingLeaks
<1>1. IndInv => NothingLeaks
  BY DEF IndInv
<1> QED
  BY <1>1, ParserInvariance, PTL

(* A call answers with a value, or with an error and an empty value.          *)
THEOREM ValueOrError == Spec => []NilIffError
<1>1. IndInv => NilIffError
  BY DEF IndInv, Parsed, NilIffError, Nil
<1> QED
  BY <1>1, ParserInvariance, PTL

-----------------------------------------------------------------------------
(* Flattened sequences, whatever their elements.                              *)

(* Induction, about a set of numbers.                                         *)
LEMMA Numbers ==
    ASSUME NEW T \in SUBSET Nat, 0 \in T, \A n \in T : n + 1 \in T
    PROVE  T = Nat
<1>1. \E R : /\ IsWellFoundedOn(R, Nat)
             /\ \A m, n \in Nat : m < n => <<m, n>> \in R
  <2>1. IsWellFoundedOn(OpToRel(<, Nat), Nat)
    BY NatLessThanWellFounded
  <2>2. \A m, n \in Nat : m < n => <<m, n>> \in OpToRel(<, Nat)
    BY DEF OpToRel
  <2> QED
    BY <2>1, <2>2, Zenon
<1>2. PICK R : /\ IsWellFoundedOn(R, Nat)
               /\ \A m, n \in Nat : m < n => <<m, n>> \in R
  BY <1>1
<1> SUFFICES ASSUME Nat \ T # {} PROVE FALSE
  OBVIOUS
<1>3. PICK n \in Nat \ T : \A m \in Nat \ T : ~ (<<m, n>> \in R)
  <2>1. Nat \ T \subseteq Nat /\ IsWellFoundedOn(R, Nat)
    BY <1>2
  <2> QED
    BY <2>1, WFMin, Zenon
<1>4. n # 0
  BY <1>3
<1>5. n - 1 \in Nat /\ n - 1 < n /\ (n - 1) + 1 = n
  BY <1>3, <1>4
<1>6. n - 1 \in T
  BY <1>2, <1>3, <1>5
<1> QED
  BY <1>3, <1>5, <1>6

(* The first m of some sequences, one behind the other.                       *)
Joins(S, q, m, F) == /\ F \in [0 .. m -> Seq(S)] /\ F[0] = <<>>
                     /\ \A k \in 1 .. m : F[k] = F[k - 1] \o q[k]

LEMMA JoinsExist ==
    ASSUME NEW S, NEW q \in Seq(Seq(S))
    PROVE  \E F : Joins(S, q, Len(q), F)
<1>1. PICK n : n = Len(q) /\ n \in Nat /\ \A k \in 1 .. n : q[k] \in Seq(S)
  BY LenProperties
<1> DEFINE T == {m \in Nat : m <= n => \E F : Joins(S, q, m, F)}
<1>2. 0 \in T
  <2>1. PICK F : F = [k \in 0 .. 0 |-> <<>>]
    OBVIOUS
  <2>2. 0 \in 0 .. 0 /\ \A k \in 0 .. 0 : F[k] \in Seq(S)
    BY <2>1, EmptySeq
  <2>3. F \in [0 .. 0 -> Seq(S)] /\ F[0] = <<>>
    BY <2>1, <2>2
  <2>4. Joins(S, q, 0, F)
    BY <2>3 DEF Joins
  <2> QED
    BY <2>4
<1>3. ASSUME NEW m \in T
      PROVE  m + 1 \in T
  <2>1. m \in Nat
    OBVIOUS
  <2>2. SUFFICES ASSUME m + 1 <= n PROVE \E F : Joins(S, q, m + 1, F)
    BY <2>1
  <2>3. m <= n /\ m + 1 \in 1 .. n
    BY <1>1, <2>1, <2>2
  <2>4. PICK F : Joins(S, q, m, F)
    BY <2>3
  <2>5. PICK e : e = F[m] \o q[m + 1]
    OBVIOUS
  <2>6. e \in Seq(S)
    <3>1. F[m] \in Seq(S)
      BY <2>1, <2>4 DEF Joins
    <3>2. q[m + 1] \in Seq(S)
      BY <1>1, <2>3
    <3> QED
      BY <2>5, <3>1, <3>2, ConcatProperties
  <2>7. PICK G : G = [k \in 0 .. m + 1 |-> IF k = m + 1 THEN e ELSE F[k]]
    OBVIOUS
  <2>8. \A k \in 0 .. m + 1 : k \in 0 .. m \/ k = m + 1
    BY <2>1
  <2>9. G[m + 1] = e /\ \A k \in 0 .. m : G[k] = F[k]
    BY <2>1, <2>7
  <2>10. \A k \in 0 .. m : F[k] \in Seq(S)
    BY <2>4 DEF Joins
  <2>11. G \in [0 .. m + 1 -> Seq(S)]
    BY <2>6, <2>7, <2>8, <2>10
  <2>12. G[0] = <<>>
    BY <2>1, <2>4, <2>9 DEF Joins
  <2>13. ASSUME NEW k \in 1 .. m + 1
         PROVE  G[k] = G[k - 1] \o q[k]
    <3>1. CASE k = m + 1
      <4>1. k - 1 = m /\ m \in 0 .. m
        BY <2>1, <3>1
      <4> QED
        BY <2>5, <2>9, <3>1, <4>1
    <3>2. CASE k # m + 1
      <4>1. k \in 1 .. m /\ k \in 0 .. m /\ k - 1 \in 0 .. m
        BY <2>1, <3>2
      <4>2. F[k] = F[k - 1] \o q[k]
        BY <2>4, <4>1 DEF Joins
      <4> QED
        BY <2>9, <4>1, <4>2
    <3> QED
      BY <3>1, <3>2
  <2>14. Joins(S, q, m + 1, G)
    BY <2>11, <2>12, <2>13 DEF Joins
  <2> QED
    BY <2>14
<1>4. T = Nat
  <2> HIDE DEF T
  <2>1. T \in SUBSET Nat
    BY DEF T
  <2> QED
    BY <1>2, <1>3, <2>1, Numbers
<1>5. n \in T
  BY <1>1, <1>4
<1> QED
  BY <1>1, <1>5

(* FlattenSeq gives the last of them.                                         *)
LEMMA Flattened ==
    ASSUME NEW S, NEW q \in Seq(Seq(S)), NEW F, Joins(S, q, Len(q), F)
    PROVE  FlattenSeq(q) = F[Len(q)]
<1>1. PICK n : n = Len(q) /\ n \in Nat
  BY LenProperties
<1>2. Joins(S, q, n, F)
  BY <1>1
<1>3. CASE n = 0
  <2>1. q = <<>>
    BY <1>1, <1>3, EmptySeq
  <2>2. FlattenSeq(q) = q
    BY <1>1, <1>3 DEF FlattenSeq
  <2> QED
    BY <1>1, <1>2, <1>3, <2>1, <2>2 DEF Joins
<1>4. CASE n # 0
  <2>1. \A k \in 1 .. n : k - 1 \in 0 .. n /\ k \in 0 .. n /\ (k # 1 => k - 1 \in 1 .. n)
    BY <1>1
  <2>2. F[1] = q[1]
    <3>1. 1 \in 1 .. n /\ 1 - 1 = 0
      BY <1>1, <1>4
    <3>2. F[1] = F[1 - 1] \o q[1] /\ F[0] = <<>>
      BY <1>2, <3>1 DEF Joins
    <3>3. q[1] \in Seq(S)
      BY <1>1, <3>1, LenProperties
    <3> QED
      BY <3>1, <3>2, <3>3, ConcatEmptySeq
  <2>3. PICK g : g = [c \in 1 .. n |-> F[c]]
    OBVIOUS
  <2>4. g = [c \in 1 .. n |-> IF c = 1 THEN q[c] ELSE g[c - 1] \o q[c]]
    <3>1. ASSUME NEW c \in 1 .. n
          PROVE  F[c] = IF c = 1 THEN q[c] ELSE g[c - 1] \o q[c]
      <4>1. CASE c = 1
        BY <2>2, <4>1
      <4>2. CASE c # 1
        <5>1. g[c - 1] = F[c - 1]
          BY <2>1, <2>3, <4>2
        <5>2. F[c] = F[c - 1] \o q[c]
          BY <1>2 DEF Joins
        <5> QED
          BY <4>2, <5>1, <5>2
      <4> QED
        BY <4>1, <4>2
    <3> QED
      BY <2>3, <3>1
  <2>5. PICK f : f = CHOOSE h : h = [c \in 1 .. n |-> IF c = 1 THEN q[c] ELSE h[c - 1] \o q[c]]
    OBVIOUS
  <2>6. f = [c \in 1 .. n |-> IF c = 1 THEN q[c] ELSE f[c - 1] \o q[c]]
    BY <2>4, <2>5
  <2>7. FlattenSeq(q) = f[n]
    BY <1>1, <1>4, <2>5 DEF FlattenSeq
  <2> DEFINE T == {m \in Nat : m + 1 <= n => f[m + 1] = F[m + 1]}
  <2>8. 0 \in T
    <3>1. 1 \in 1 .. n /\ 0 + 1 = 1
      BY <1>1, <1>4
    <3>2. f[1] = q[1]
      BY <2>6, <3>1
    <3> QED
      BY <2>2, <3>1, <3>2
  <2>9. ASSUME NEW m \in T
        PROVE  m + 1 \in T
    <3>1. SUFFICES ASSUME (m + 1) + 1 <= n PROVE f[(m + 1) + 1] = F[(m + 1) + 1]
      OBVIOUS
    <3>2. PICK k : k = (m + 1) + 1
      OBVIOUS
    <3>3. m \in Nat /\ m + 1 <= n /\ k \in 1 .. n /\ k # 1 /\ k - 1 = m + 1
      BY <1>1, <3>1, <3>2
    <3>4. f[k] = f[k - 1] \o q[k]
      BY <2>6, <3>3
    <3>5. F[k] = F[k - 1] \o q[k]
      BY <1>2, <3>3 DEF Joins
    <3>6. f[k - 1] = F[k - 1]
      BY <3>3
    <3> QED
      BY <3>2, <3>4, <3>5, <3>6
  <2>10. T = Nat
    <3> HIDE DEF T
    <3>1. T \in SUBSET Nat
      BY DEF T
    <3> QED
      BY <2>8, <2>9, <3>1, Numbers
  <2>11. PICK m : m = n - 1
    OBVIOUS
  <2>12. m \in Nat /\ m + 1 = n
    BY <1>1, <1>4, <2>11
  <2>13. m \in T
    BY <2>10, <2>12
  <2> QED
    BY <1>1, <2>7, <2>12, <2>13
<1> QED
  BY <1>3, <1>4

(* Some sequences are sequences over one set.                                 *)
LEMMA OneSet ==
    ASSUME NEW a, NEW b, NEW c, IsSeq(a), IsSeq(b), IsSeq(c)
    PROVE  \E S : a \in Seq(S) /\ b \in Seq(S) /\ c \in Seq(S)
<1> DEFINE R(s) == {s[n] : n \in DOMAIN s}
<1>1. a \in Seq(R(a)) /\ b \in Seq(R(b)) /\ c \in Seq(R(c))
  BY DEF IsSeq
<1>2. PICK S : R(a) \subseteq S /\ R(b) \subseteq S /\ R(c) \subseteq S
  <2>1. PICK S : S = R(a) \cup R(b) \cup R(c)
    OBVIOUS
  <2> QED
    BY <2>1
<1> HIDE DEF R
<1> QED
  BY <1>1, <1>2, SeqMonotonic

LEMMA SeqConcat ==
    ASSUME NEW a, NEW b, IsSeq(a), IsSeq(b)
    PROVE  /\ IsSeq(a \o b) /\ Len(a \o b) = Len(a) + Len(b)
           /\ \A n \in 1 .. Len(a) + Len(b) :
                  (a \o b)[n] = IF n <= Len(a) THEN a[n] ELSE b[n - Len(a)]
           /\ a \o <<>> = a /\ <<>> \o a = a
<1>1. PICK S : a \in Seq(S) /\ b \in Seq(S)
  BY OneSet
<1>2. a \o b \in Seq(S)
  BY <1>1, ConcatProperties
<1>3. IsSeq(a \o b)
  BY <1>2, SeqOfAnything
<1>4. Len(a \o b) = Len(a) + Len(b)
  BY <1>1, ConcatProperties
<1>5. \A n \in 1 .. Len(a) + Len(b) :
          (a \o b)[n] = IF n <= Len(a) THEN a[n] ELSE b[n - Len(a)]
  BY <1>1, ConcatProperties
<1>6. a \o <<>> = a /\ <<>> \o a = a
  BY <1>1, ConcatEmptySeq
<1> QED
  BY <1>3, <1>4, <1>5, <1>6

LEMMA SeqAssociative ==
    ASSUME NEW a, NEW b, NEW c, IsSeq(a), IsSeq(b), IsSeq(c)
    PROVE  (a \o b) \o c = a \o (b \o c)
<1>1. PICK S : a \in Seq(S) /\ b \in Seq(S) /\ c \in Seq(S)
  BY OneSet
<1> QED
  BY <1>1, ConcatAssociative

LEMMA SeqEqualAll ==
    ASSUME NEW a, NEW b, IsSeq(a), IsSeq(b), Len(a) = Len(b),
           \A n \in 1 .. Len(a) : a[n] = b[n]
    PROVE  a = b
<1>1. PICK S : a \in Seq(S) /\ b \in Seq(S)
  BY OneSet
<1> QED
  BY <1>1, SeqEqual

LEMMA SeqOne ==
    ASSUME NEW x
    PROVE  IsSeq(<<x>>) /\ Len(<<x>>) = 1 /\ <<x>>[1] = x /\ DOMAIN <<x>> = 1 .. 1
<1>1. <<x>> \in Seq({x}) /\ Len(<<x>>) = 1 /\ <<x>>[1] = x
  OBVIOUS
<1> QED
  BY <1>1, SeqOfAnything

LEMMA SeqAppendIsConcat ==
    ASSUME NEW a, NEW x, IsSeq(a)
    PROVE  Append(a, x) = a \o <<x>>
<1>1. PICK S : a \in Seq(S) /\ <<x>> \in Seq(S)
  BY OneSet, SeqOne
<1>2. x \in S
  <2>1. 1 \in 1 .. Len(<<x>>) /\ <<x>>[1] = x
    BY SeqOne
  <2> QED
    BY <1>1, <2>1, ElementOfSeq
<1> QED
  BY <1>1, <1>2, AppendIsConcat

LEMMA SeqComprehension ==
    ASSUME NEW k \in Nat, NEW f, DOMAIN f = 1 .. k, f = [n \in 1 .. k |-> f[n]]
    PROVE  IsSeq(f) /\ Len(f) = k
<1>1. f \in [1 .. k -> {f[n] : n \in DOMAIN f}]
  OBVIOUS
<1>2. f \in Seq({f[n] : n \in DOMAIN f})
  BY <1>1, SeqDef
<1>3. DOMAIN f = 1 .. Len(f) /\ Len(f) \in Nat
  BY <1>2, LenProperties
<1> QED
  BY <1>2, <1>3 DEF IsSeq

AllSeqs(q) == IsSeq(q) /\ \A n \in DOMAIN q : IsSeq(q[n])

LEMMA FlattenEmpty == FlattenSeq(<<>>) = <<>>
BY SeqEmpty DEF FlattenSeq

LEMMA FlattenAppend ==
    ASSUME NEW q, NEW x, AllSeqs(q), IsSeq(x)
    PROVE  IsSeq(FlattenSeq(q)) /\ FlattenSeq(Append(q, x)) = FlattenSeq(q) \o x
<1>1. PICK k \in Nat : k = Len(q)
  BY SeqLength DEF AllSeqs
<1>2. DOMAIN q = 1 .. k /\ IsSeq(q)
  BY <1>1, SeqLength DEF AllSeqs
<1> DEFINE R(s) == {s[m] : m \in DOMAIN s}
<1>3. x \in Seq(R(x)) /\ \A n \in 1 .. k : q[n] \in Seq(R(q[n]))
  BY <1>2 DEF AllSeqs, IsSeq
<1>4. PICK S : R(x) \subseteq S /\ \A n \in 1 .. k : R(q[n]) \subseteq S
  <2>1. PICK S : S = R(x) \cup UNION {R(q[n]) : n \in 1 .. k}
    OBVIOUS
  <2> QED
    BY <2>1
<1> HIDE DEF R
<1>5. x \in Seq(S) /\ \A n \in 1 .. k : q[n] \in Seq(S)
  BY <1>3, <1>4, SeqMonotonic
<1>6. q \in Seq(Seq(S))
  <2>1. q \in Seq({q[n] : n \in DOMAIN q}) /\ {q[n] : n \in DOMAIN q} \subseteq Seq(S)
    BY <1>2, <1>5 DEF IsSeq
  <2> QED
    BY <2>1, SeqMonotonic
<1>7. PICK p : p = Append(q, x)
  OBVIOUS
<1>8. p \in Seq(Seq(S)) /\ Len(p) = k + 1 /\ p[k + 1] = x /\ \A n \in 1 .. k : p[n] = q[n]
  BY <1>1, <1>5, <1>6, <1>7, AppendProperties
<1>9. PICK F : Joins(S, p, k + 1, F)
  BY <1>8, JoinsExist
<1>10. FlattenSeq(p) = F[k + 1] /\ F[k + 1] = F[k] \o x
  <2>1. FlattenSeq(p) = F[k + 1]
    BY <1>8, <1>9, Flattened
  <2>2. k + 1 \in 1 .. k + 1 /\ (k + 1) - 1 = k
    OBVIOUS
  <2> QED
    BY <1>8, <1>9, <2>1, <2>2 DEF Joins
<1>11. PICK G : G = [n \in 0 .. k |-> F[n]]
  OBVIOUS
<1>12. Joins(S, q, k, G)
  <2>1. \A n \in 0 .. k : n \in 0 .. k + 1
    OBVIOUS
  <2>2. G \in [0 .. k -> Seq(S)]
    BY <1>9, <1>11, <2>1 DEF Joins
  <2>3. G[0] = <<>>
    BY <1>9, <1>11 DEF Joins
  <2>4. ASSUME NEW n \in 1 .. k
        PROVE  G[n] = G[n - 1] \o q[n]
    <3>1. n \in 1 .. k + 1 /\ n \in 0 .. k /\ n - 1 \in 0 .. k
      OBVIOUS
    <3>2. F[n] = F[n - 1] \o p[n]
      BY <1>9, <3>1 DEF Joins
    <3> QED
      BY <1>8, <1>11, <3>1, <3>2
  <2> QED
    BY <2>2, <2>3, <2>4 DEF Joins
<1>13. FlattenSeq(q) = G[k] /\ G[k] = F[k] /\ G[k] \in Seq(S)
  <2>1. FlattenSeq(q) = G[k]
    BY <1>1, <1>6, <1>12, Flattened
  <2>2. k \in 0 .. k
    OBVIOUS
  <2> QED
    BY <1>11, <1>12, <2>1, <2>2 DEF Joins
<1> QED
  BY <1>7, <1>10, <1>13, SeqOfAnything

(* What keeps a comprehension over a sequence that grows.                     *)
LEMMA GrownText ==
    ASSUME NEW text, NEW token, IsSeq(text), \A x : IsSeq(ItemsOf(x))
    PROVE  /\ IsSeq(NestingOf(text))
           /\ NestingOf(Append(text, token)) = NestingOf(text) \o ItemsOf(token)
<1>1. PICK k \in Nat : k = Len(text) /\ DOMAIN text = 1 .. k
  BY SeqLength
<1>2. PICK a : a = Append(text, token)
  OBVIOUS
<1>3. /\ IsSeq(a) /\ DOMAIN a = 1 .. k + 1 /\ a[k + 1] = token
      /\ \A n \in 1 .. k : a[n] = text[n]
  BY <1>1, <1>2, SeqAppend, SeqLength
<1>4. PICK q : q = [n \in DOMAIN text |-> ItemsOf(text[n])]
  OBVIOUS
<1>5. PICK p : p = [n \in DOMAIN a |-> ItemsOf(a[n])]
  OBVIOUS
<1>6. IsSeq(q) /\ Len(q) = k /\ DOMAIN q = 1 .. k /\ \A n \in 1 .. k : q[n] = ItemsOf(text[n])
  BY <1>1, <1>4, SeqComprehension
<1>7. /\ IsSeq(p) /\ Len(p) = k + 1 /\ DOMAIN p = 1 .. k + 1
      /\ \A n \in 1 .. k + 1 : p[n] = ItemsOf(a[n])
  BY <1>3, <1>5, SeqComprehension
<1>8. p = Append(q, ItemsOf(token))
  <2>1. PICK r : r = Append(q, ItemsOf(token))
    OBVIOUS
  <2>2. /\ IsSeq(r) /\ Len(r) = k + 1 /\ r[k + 1] = ItemsOf(token)
        /\ \A n \in 1 .. k : r[n] = q[n]
    BY <1>6, <2>1, SeqAppend
  <2>3. \A n \in 1 .. k + 1 : n \in 1 .. k \/ n = k + 1
    OBVIOUS
  <2>4. \A n \in 1 .. k + 1 : p[n] = r[n]
    BY <1>3, <1>6, <1>7, <2>2, <2>3
  <2> QED
    BY <1>7, <2>1, <2>2, <2>4, SeqEqualAll
<1>9. AllSeqs(q)
  BY <1>6 DEF AllSeqs
<1>10. NestingOf(text) = FlattenSeq(q) /\ NestingOf(a) = FlattenSeq(p)
  BY <1>4, <1>5 DEF NestingOf
<1> QED
  BY <1>2, <1>8, <1>9, <1>10, FlattenAppend

(* Items that can be unfolded, and items that only unfold to themselves.      *)
IsItems(s) == IsSeq(s) /\ \A n \in DOMAIN s : IsSeq(ItemUnfolded(s[n]))
IsFlat(s) == IsSeq(s) /\ \A n \in DOMAIN s : ItemUnfolded(s[n]) = <<s[n]>>

LEMMA GrownItems ==
    ASSUME NEW items, NEW v, IsItems(items), IsSeq(ItemUnfolded(v))
    PROVE  /\ IsSeq(Unfolded(items))
           /\ Unfolded(Append(items, v)) = Unfolded(items) \o ItemUnfolded(v)
<1>1. IsSeq(items) /\ \A n \in DOMAIN items : IsSeq(ItemUnfolded(items[n]))
  BY DEF IsItems
<1>2. PICK k \in Nat : k = Len(items) /\ DOMAIN items = 1 .. k
  BY <1>1, SeqLength
<1>3. PICK a : a = Append(items, v)
  OBVIOUS
<1>4. /\ IsSeq(a) /\ DOMAIN a = 1 .. k + 1 /\ a[k + 1] = v
      /\ \A n \in 1 .. k : a[n] = items[n]
  BY <1>1, <1>2, <1>3, SeqAppend, SeqLength
<1>5. PICK q : q = [n \in DOMAIN items |-> ItemUnfolded(items[n])]
  OBVIOUS
<1>6. PICK p : p = [n \in DOMAIN a |-> ItemUnfolded(a[n])]
  OBVIOUS
<1>7. /\ IsSeq(q) /\ Len(q) = k /\ DOMAIN q = 1 .. k
      /\ \A n \in 1 .. k : q[n] = ItemUnfolded(items[n])
  BY <1>2, <1>5, SeqComprehension
<1>8. /\ IsSeq(p) /\ Len(p) = k + 1 /\ DOMAIN p = 1 .. k + 1
      /\ \A n \in 1 .. k + 1 : p[n] = ItemUnfolded(a[n])
  BY <1>4, <1>6, SeqComprehension
<1>9. p = Append(q, ItemUnfolded(v))
  <2>1. PICK r : r = Append(q, ItemUnfolded(v))
    OBVIOUS
  <2>2. /\ IsSeq(r) /\ Len(r) = k + 1 /\ r[k + 1] = ItemUnfolded(v)
        /\ \A n \in 1 .. k : r[n] = q[n]
    BY <1>7, <2>1, SeqAppend
  <2>3. \A n \in 1 .. k + 1 : n \in 1 .. k \/ n = k + 1
    OBVIOUS
  <2>4. \A n \in 1 .. k + 1 : p[n] = r[n]
    BY <1>4, <1>7, <1>8, <2>2, <2>3
  <2> QED
    BY <1>8, <2>1, <2>2, <2>4, SeqEqualAll
<1>10. AllSeqs(q)
  BY <1>1, <1>2, <1>7 DEF AllSeqs
<1>11. Unfolded(items) = FlattenSeq(q) /\ Unfolded(a) = FlattenSeq(p)
  BY <1>5, <1>6 DEF Unfolded
<1> QED
  BY <1>3, <1>9, <1>10, <1>11, FlattenAppend

LEMMA UnfoldedSeq ==
    ASSUME NEW items, IsItems(items)
    PROVE  IsSeq(Unfolded(items))
<1>1. ItemUnfolded(Scalar("open")) = <<Scalar("open")>>
  BY DEF ItemUnfolded, Scalar
<1>2. IsSeq(ItemUnfolded(Scalar("open")))
  BY <1>1, SeqOne
<1> QED
  BY <1>2, GrownItems

-----------------------------------------------------------------------------
(* One level unfolded, and all of them.                                       *)

(* The first elements of a sequence, one more at a time.                      *)
LEMMA SeqPrefix ==
    ASSUME NEW s, IsSeq(s), NEW m \in Nat, m <= Len(s)
    PROVE  /\ IsSeq(SubSeq(s, 1, m)) /\ Len(SubSeq(s, 1, m)) = m
           /\ \A n \in 1 .. m : SubSeq(s, 1, m)[n] = s[n]
<1>1. Len(s) \in Nat /\ DOMAIN s = 1 .. Len(s)
  BY SeqLength
<1>2. \A n \in 1 .. m : s[n] \in {s[j] : j \in DOMAIN s}
  BY <1>1
<1>3. /\ SubSeq(s, 1, m) \in Seq({s[j] : j \in DOMAIN s})
      /\ Len(SubSeq(s, 1, m)) = IF 1 <= m THEN m - 1 + 1 ELSE 0
      /\ \A n \in 1 .. m - 1 + 1 : SubSeq(s, 1, m)[n] = s[1 + n - 1]
  BY <1>2, SubSeqProperties
<1>4. IsSeq(SubSeq(s, 1, m))
  BY <1>3, SeqOfAnything
<1>5. \A n \in 1 .. m : n \in 1 .. m - 1 + 1 /\ 1 + n - 1 = n
  OBVIOUS
<1>6. Len(SubSeq(s, 1, m)) = m
  BY <1>3
<1> QED
  BY <1>3, <1>4, <1>5, <1>6

LEMMA SeqPrefixes ==
    ASSUME NEW s, IsSeq(s)
    PROVE  /\ SubSeq(s, 1, 0) = <<>> /\ SubSeq(s, 1, Len(s)) = s
           /\ \A m \in Nat : m < Len(s) =>
                  SubSeq(s, 1, m + 1) = Append(SubSeq(s, 1, m), s[m + 1])
<1>1. PICK k \in Nat : k = Len(s)
  BY SeqLength
<1>2. SubSeq(s, 1, 0) = <<>>
  <2>1. IsSeq(SubSeq(s, 1, 0)) /\ Len(SubSeq(s, 1, 0)) = 0
    BY <1>1, SeqPrefix
  <2> QED
    BY <2>1, SeqEmpty, SeqEqualAll
<1>3. SubSeq(s, 1, k) = s
  <2>1. /\ IsSeq(SubSeq(s, 1, k)) /\ Len(SubSeq(s, 1, k)) = k
        /\ \A n \in 1 .. k : SubSeq(s, 1, k)[n] = s[n]
    BY <1>1, SeqPrefix
  <2> QED
    BY <1>1, <2>1, SeqEqualAll
<1>4. ASSUME NEW m \in Nat, m < k
      PROVE  SubSeq(s, 1, m + 1) = Append(SubSeq(s, 1, m), s[m + 1])
  <2>1. PICK a : a = SubSeq(s, 1, m)
    OBVIOUS
  <2>2. PICK b : b = SubSeq(s, 1, m + 1)
    OBVIOUS
  <2>3. IsSeq(a) /\ Len(a) = m /\ \A n \in 1 .. m : a[n] = s[n]
    BY <1>1, <1>4, <2>1, SeqPrefix
  <2>4. IsSeq(b) /\ Len(b) = m + 1 /\ \A n \in 1 .. m + 1 : b[n] = s[n]
    <3>1. m + 1 \in Nat /\ m + 1 <= k
      BY <1>4
    <3> QED
      BY <1>1, <2>2, <3>1, SeqPrefix
  <2>5. PICK c : c = Append(a, s[m + 1])
    OBVIOUS
  <2>6. /\ IsSeq(c) /\ Len(c) = m + 1 /\ c[m + 1] = s[m + 1]
        /\ \A n \in 1 .. m : c[n] = a[n]
    BY <2>3, <2>5, SeqAppend
  <2>7. \A n \in 1 .. m + 1 : n \in 1 .. m \/ n = m + 1
    OBVIOUS
  <2>8. \A n \in 1 .. m + 1 : b[n] = c[n]
    BY <2>3, <2>4, <2>6, <2>7
  <2>9. b = c
    BY <2>4, <2>6, <2>8, SeqEqualAll
  <2> QED
    BY <2>1, <2>2, <2>5, <2>9
<1> QED
  BY <1>1, <1>2, <1>3, <1>4

LEMMA UnfoldedEmpty == Unfolded(<<>>) = <<>>
<1>1. DOMAIN <<>> = {} /\ IsSeq(<<>>) /\ Len(<<>>) = 0
  BY SeqEmpty
<1>2. PICK q : q = [n \in DOMAIN <<>> |-> ItemUnfolded(<<>>[n])]
  OBVIOUS
<1>3. IsSeq(q) /\ Len(q) = 0
  <2>1. DOMAIN <<>> = 1 .. 0
    BY <1>1
  <2>2. DOMAIN q = 1 .. 0 /\ q = [n \in 1 .. 0 |-> q[n]]
    BY <1>2, <2>1
  <2> QED
    BY <2>2, SeqComprehension
<1>4. q = <<>>
  BY <1>1, <1>3, SeqEqualAll
<1> QED
  BY <1>2, <1>4, FlattenEmpty DEF Unfolded

LEMMA UnfoldedConcat ==
    ASSUME NEW a, NEW b, IsItems(a), IsItems(b)
    PROVE  IsItems(a \o b) /\ Unfolded(a \o b) = Unfolded(a) \o Unfolded(b)
<1>1. PICK k \in Nat : k = Len(b) /\ DOMAIN b = 1 .. k
  BY SeqLength DEF IsItems
<1>2. PICK l \in Nat : l = Len(a) /\ DOMAIN a = 1 .. l
  BY SeqLength DEF IsItems
<1>3. IsSeq(a) /\ IsSeq(b) /\ \A n \in 1 .. k : IsSeq(ItemUnfolded(b[n]))
  BY <1>1 DEF IsItems
<1> DEFINE P(m) == SubSeq(b, 1, m)
<1>4. ASSUME NEW m \in Nat, m <= k
      PROVE  IsSeq(P(m)) /\ IsItems(P(m)) /\ IsSeq(a \o P(m)) /\ IsItems(a \o P(m))
  <2>1. PICK p : p = P(m)
    OBVIOUS
  <2>2. IsSeq(p) /\ Len(p) = m /\ DOMAIN p = 1 .. m /\ \A n \in 1 .. m : p[n] = b[n]
    BY <1>1, <1>3, <1>4, <2>1, SeqPrefix, SeqLength
  <2>3. IsItems(p)
    BY <1>3, <1>4, <2>2 DEF IsItems
  <2>4. PICK c : c = a \o p
    OBVIOUS
  <2>5. /\ IsSeq(c) /\ DOMAIN c = 1 .. l + m
        /\ \A n \in 1 .. l + m : c[n] = IF n <= l THEN a[n] ELSE p[n - l]
    BY <1>2, <1>3, <2>2, <2>4, SeqConcat, SeqLength
  <2>6. \A n \in 1 .. l + m : n \in 1 .. l \/ (~(n <= l) /\ n - l \in 1 .. m)
    OBVIOUS
  <2>7. IsItems(c)
    <3>1. \A n \in 1 .. l : IsSeq(ItemUnfolded(a[n]))
      BY <1>2 DEF IsItems
    <3>2. \A n \in 1 .. m : IsSeq(ItemUnfolded(p[n]))
      BY <2>2, <2>3 DEF IsItems
    <3>3. ASSUME NEW n \in 1 .. l + m
          PROVE  IsSeq(ItemUnfolded(c[n]))
      <4>1. CASE n \in 1 .. l
        BY <2>5, <3>1, <4>1
      <4>2. CASE ~(n <= l) /\ n - l \in 1 .. m
        BY <2>5, <3>2, <4>2
      <4> QED
        BY <2>6, <4>1, <4>2
    <3> QED
      BY <2>5, <3>3 DEF IsItems
  <2> QED
    BY <2>1, <2>2, <2>3, <2>4, <2>5, <2>7
<1>5. P(0) = <<>> /\ P(k) = b /\ \A m \in Nat : m < k => P(m + 1) = Append(P(m), b[m + 1])
  BY <1>1, <1>3, SeqPrefixes
<1>6. ASSUME NEW m \in Nat, m <= k
      PROVE  IsSeq(Unfolded(P(m)))
  BY <1>4, <1>6, UnfoldedSeq
<1> HIDE DEF P
<1>7. IsSeq(Unfolded(a))
  BY UnfoldedSeq
<1> DEFINE T == {m \in Nat : m <= k => Unfolded(a \o P(m)) = Unfolded(a) \o Unfolded(P(m))}
<1>8. 0 \in T
  <2>1. a \o P(0) = a /\ Unfolded(a) \o <<>> = Unfolded(a)
    BY <1>3, <1>5, <1>7, SeqConcat, SeqEmpty
  <2>2. Unfolded(a \o P(0)) = Unfolded(a) \o Unfolded(P(0))
    BY <1>5, <2>1, UnfoldedEmpty
  <2> QED
    BY <2>2
<1>9. ASSUME NEW m \in T
      PROVE  m + 1 \in T
  <2>1. m \in Nat /\ m + 1 \in Nat
    OBVIOUS
  <2>2. SUFFICES ASSUME m + 1 <= k
                 PROVE  Unfolded(a \o P(m + 1)) = Unfolded(a) \o Unfolded(P(m + 1))
    BY <2>1
  <2>3. m <= k /\ m < k /\ m + 1 \in 1 .. k
    BY <2>1, <2>2
  <2>4. PICK x : x = b[m + 1]
    OBVIOUS
  <2>5. IsSeq(ItemUnfolded(x))
    BY <1>3, <2>3, <2>4
  <2>6. PICK p : p = P(m)
    OBVIOUS
  <2>7. /\ IsSeq(p) /\ IsItems(p) /\ IsSeq(a \o p) /\ IsItems(a \o p) /\ IsSeq(Unfolded(p))
        /\ P(m + 1) = Append(p, x)
    BY <1>4, <1>5, <1>6, <2>1, <2>3, <2>4, <2>6
  <2>8. a \o Append(p, x) = Append(a \o p, x)
    <3>1. Append(p, x) = p \o <<x>> /\ Append(a \o p, x) = (a \o p) \o <<x>>
      BY <2>7, SeqAppendIsConcat
    <3>2. IsSeq(a) /\ IsSeq(p) /\ IsSeq(<<x>>)
      BY <1>3, <2>7, SeqOne
    <3>3. (a \o p) \o <<x>> = a \o (p \o <<x>>)
      BY <3>2, SeqAssociative
    <3> QED
      BY <3>1, <3>3
  <2>9. Unfolded(Append(a \o p, x)) = Unfolded(a \o p) \o ItemUnfolded(x)
    BY <2>5, <2>7, GrownItems
  <2>10. Unfolded(Append(p, x)) = Unfolded(p) \o ItemUnfolded(x)
    BY <2>5, <2>7, GrownItems
  <2>11. Unfolded(a \o p) = Unfolded(a) \o Unfolded(p)
    BY <2>3, <2>6
  <2>12. (Unfolded(a) \o Unfolded(p)) \o ItemUnfolded(x)
         = Unfolded(a) \o (Unfolded(p) \o ItemUnfolded(x))
    <3>1. IsSeq(Unfolded(a)) /\ IsSeq(Unfolded(p)) /\ IsSeq(ItemUnfolded(x))
      BY <1>7, <2>5, <2>7
    <3> QED
      BY <3>1, SeqAssociative
  <2> QED
    BY <2>7, <2>8, <2>9, <2>10, <2>11, <2>12
<1>10. T = Nat
  <2> HIDE DEF T
  <2>1. T \in SUBSET Nat
    BY DEF T
  <2> QED
    BY <1>8, <1>9, <2>1, Numbers
<1>11. k \in T
  BY <1>10
<1> QED
  BY <1>4, <1>5, <1>11

LEMMA UnfoldedFlat ==
    ASSUME NEW t, IsFlat(t)
    PROVE  IsItems(t) /\ Unfolded(t) = t
<1>1. PICK k \in Nat : k = Len(t) /\ DOMAIN t = 1 .. k
  BY SeqLength DEF IsFlat
<1>2. IsSeq(t) /\ \A n \in 1 .. k : ItemUnfolded(t[n]) = <<t[n]>>
  BY <1>1 DEF IsFlat
<1>3. IsItems(t)
  BY <1>1, <1>2, SeqOne DEF IsItems
<1> DEFINE P(m) == SubSeq(t, 1, m)
<1>4. P(0) = <<>> /\ P(k) = t /\ \A m \in Nat : m < k => P(m + 1) = Append(P(m), t[m + 1])
  BY <1>1, <1>2, SeqPrefixes
<1>5. ASSUME NEW m \in Nat, m <= k
      PROVE  IsSeq(P(m)) /\ IsItems(P(m))
  <2>1. PICK p : p = P(m)
    OBVIOUS
  <2>2. IsSeq(p) /\ Len(p) = m /\ DOMAIN p = 1 .. m /\ \A n \in 1 .. m : p[n] = t[n]
    BY <1>1, <1>2, <1>5, <2>1, SeqPrefix, SeqLength
  <2>3. IsItems(p)
    BY <1>2, <1>5, <2>2, SeqOne DEF IsItems
  <2> QED
    BY <2>1, <2>2, <2>3
<1> HIDE DEF P
<1> DEFINE T == {m \in Nat : m <= k => Unfolded(P(m)) = P(m)}
<1>6. 0 \in T
  BY <1>4, UnfoldedEmpty
<1>7. ASSUME NEW m \in T
      PROVE  m + 1 \in T
  <2>1. m \in Nat /\ m + 1 \in Nat
    OBVIOUS
  <2>2. SUFFICES ASSUME m + 1 <= k PROVE Unfolded(P(m + 1)) = P(m + 1)
    BY <2>1
  <2>3. m <= k /\ m < k /\ m + 1 \in 1 .. k
    BY <2>1, <2>2
  <2>4. PICK x : x = t[m + 1]
    OBVIOUS
  <2>5. ItemUnfolded(x) = <<x>> /\ P(m + 1) = Append(P(m), x) /\ Unfolded(P(m)) = P(m)
    BY <1>2, <1>4, <2>1, <2>3, <2>4
  <2>6. IsSeq(P(m)) /\ IsItems(P(m)) /\ IsSeq(ItemUnfolded(x))
    BY <1>5, <2>1, <2>3, <2>5, SeqOne
  <2>7. Unfolded(Append(P(m), x)) = Unfolded(P(m)) \o ItemUnfolded(x)
    BY <2>6, GrownItems
  <2> QED
    BY <2>5, <2>6, <2>7, SeqAppendIsConcat
<1>8. T = Nat
  <2> HIDE DEF T
  <2>1. T \in SUBSET Nat
    BY DEF T
  <2> QED
    BY <1>6, <1>7, <2>1, Numbers
<1>9. k \in T
  BY <1>8
<1> QED
  BY <1>3, <1>4, <1>9

LEMMA FlatConcat ==
    ASSUME NEW a, NEW b, IsFlat(a), IsFlat(b)
    PROVE  IsFlat(a \o b)
<1>1. IsSeq(a) /\ IsSeq(b)
  BY DEF IsFlat
<1>2. PICK l \in Nat, k \in Nat :
          l = Len(a) /\ DOMAIN a = 1 .. l /\ k = Len(b) /\ DOMAIN b = 1 .. k
  BY <1>1, SeqLength
<1>3. PICK c : c = a \o b
  OBVIOUS
<1>4. /\ IsSeq(c) /\ DOMAIN c = 1 .. l + k
      /\ \A n \in 1 .. l + k : c[n] = IF n <= l THEN a[n] ELSE b[n - l]
  BY <1>1, <1>2, <1>3, SeqConcat, SeqLength
<1>5. ASSUME NEW n \in 1 .. l + k
      PROVE  ItemUnfolded(c[n]) = <<c[n]>>
  <2>1. CASE n \in 1 .. l
    BY <1>2, <1>4, <2>1 DEF IsFlat
  <2>2. CASE ~(n <= l) /\ n - l \in 1 .. k
    BY <1>2, <1>4, <2>2 DEF IsFlat
  <2> QED
    BY <2>1, <2>2
<1> QED
  BY <1>3, <1>4, <1>5 DEF IsFlat

LEMMA FlatScalar ==
    ASSUME NEW v, v.type \notin {"arr", "obj"}
    PROVE  IsFlat(<<v>>)
<1>1. ItemUnfolded(v) = <<v>>
  BY DEF ItemUnfolded
<1> QED
  BY <1>1, SeqOne DEF IsFlat

LEMMA FlatEmpty == IsFlat(<<>>)
BY SeqEmpty DEF IsFlat

(* Items that are flat after being unfolded k times.                          *)
IsUnfolding(F, s) ==
    /\ F[0] = s
    /\ \A j \in Nat : IsItems(F[j]) /\ F[j + 1] = Unfolded(F[j])

Unfolds(s, k, t) == IsFlat(t) /\ \E F : IsUnfolding(F, s) /\ F[k] = t

LEMMA UnfoldsFlat ==
    ASSUME NEW t, IsFlat(t), NEW k \in Nat
    PROVE  Unfolds(t, k, t)
<1>1. IsItems(t) /\ Unfolded(t) = t
  BY UnfoldedFlat
<1>2. PICK F : F = [j \in Nat |-> t]
  OBVIOUS
<1>3. F[0] = t /\ F[k] = t /\ \A j \in Nat : F[j] = t /\ F[j + 1] = t
  BY <1>2
<1>4. IsUnfolding(F, t)
  BY <1>1, <1>3 DEF IsUnfolding
<1> QED
  BY <1>3, <1>4 DEF Unfolds

LEMMA UnfoldsMore ==
    ASSUME NEW s, NEW k \in Nat, NEW t, Unfolds(s, k, t)
    PROVE  Unfolds(s, k + 1, t)
<1>1. PICK F : IsUnfolding(F, s) /\ F[k] = t
  BY DEF Unfolds
<1>2. F[k + 1] = Unfolded(F[k])
  BY <1>1 DEF IsUnfolding
<1>3. IsFlat(t) /\ Unfolded(t) = t
  BY UnfoldedFlat DEF Unfolds
<1> QED
  BY <1>1, <1>2, <1>3 DEF Unfolds

LEMMA UnfoldsConcat ==
    ASSUME NEW a, NEW b, NEW k \in Nat, NEW t, NEW u, Unfolds(a, k, t), Unfolds(b, k, u)
    PROVE  Unfolds(a \o b, k, t \o u)
<1>1. PICK F : IsUnfolding(F, a) /\ F[k] = t
  BY DEF Unfolds
<1>2. PICK G : IsUnfolding(G, b) /\ G[k] = u
  BY DEF Unfolds
<1>3. PICK H : H = [j \in Nat |-> F[j] \o G[j]]
  OBVIOUS
<1>4. H[0] = a \o b /\ H[k] = t \o u
  BY <1>1, <1>2, <1>3 DEF IsUnfolding
<1>5. ASSUME NEW j \in Nat
      PROVE  IsItems(H[j]) /\ H[j + 1] = Unfolded(H[j])
  <2>1. IsItems(F[j]) /\ IsItems(G[j])
    BY <1>1, <1>2 DEF IsUnfolding
  <2>2. F[j + 1] = Unfolded(F[j]) /\ G[j + 1] = Unfolded(G[j])
    BY <1>1, <1>2 DEF IsUnfolding
  <2>3. H[j] = F[j] \o G[j] /\ H[j + 1] = F[j + 1] \o G[j + 1]
    <3>1. PICK m \in Nat : m = j + 1
      OBVIOUS
    <3>2. H[j] = F[j] \o G[j] /\ H[m] = F[m] \o G[m]
      BY <1>3
    <3> QED
      BY <3>1, <3>2
  <2>4. IsItems(F[j] \o G[j]) /\ Unfolded(F[j] \o G[j]) = Unfolded(F[j]) \o Unfolded(G[j])
    BY <2>1, UnfoldedConcat
  <2> QED
    BY <2>2, <2>3, <2>4
<1>6. IsUnfolding(H, a \o b)
  BY <1>4, <1>5 DEF IsUnfolding
<1>7. IsFlat(t \o u)
  BY FlatConcat DEF Unfolds
<1> QED
  BY <1>4, <1>6, <1>7 DEF Unfolds

(* A container is its brackets and what its elements are.                     *)
Closing(v) == IF v.type = "arr" THEN Scalar("]") ELSE Scalar("}")
Bracketed(t, v) == (<<Scalar("open")>> \o t) \o <<Closing(v)>>

LEMMA FlatBrackets == ASSUME NEW v PROVE IsFlat(<<Scalar("open")>>) /\ IsFlat(<<Closing(v)>>)
<1>1. Scalar("open").type \notin {"arr", "obj"}
  BY DEF Scalar
<1>2. Closing(v).type \notin {"arr", "obj"}
  BY DEF Closing, Scalar
<1> QED
  BY <1>1, <1>2, FlatScalar

LEMMA FlatBracketed == ASSUME NEW t, IsFlat(t), NEW v PROVE IsFlat(Bracketed(t, v))
BY FlatBrackets, FlatConcat DEF Bracketed

LEMMA UnfoldedContainer ==
    ASSUME NEW e, IsSeq(e), NEW v \in {Arr(e), Obj(e)}
    PROVE  IsItems(<<v>>) /\ Unfolded(<<v>>) = Bracketed(e, v)
<1>1. v.elems = e /\ v.type \in {"arr", "obj"}
  BY DEF Arr, Obj
<1>2. ItemUnfolded(v) = Bracketed(e, v)
  BY <1>1 DEF ItemUnfolded, Bracketed, Closing
<1>3. IsSeq(Bracketed(e, v))
  <2>1. IsSeq(<<Scalar("open")>>) /\ IsSeq(<<Closing(v)>>)
    BY SeqOne
  <2> QED
    BY <2>1, SeqConcat DEF Bracketed
<1>4. IsItems(<<v>>)
  BY <1>2, <1>3, SeqOne DEF IsItems
<1>5. IsItems(<<>>)
  BY SeqEmpty DEF IsItems
<1>6. Unfolded(Append(<<>>, v)) = Unfolded(<<>>) \o ItemUnfolded(v)
  BY <1>2, <1>3, <1>5, GrownItems
<1>7. Append(<<>>, v) = <<v>>
  <2>1. Append(<<>>, v) = <<>> \o <<v>>
    BY SeqEmpty, SeqAppendIsConcat
  <2>2. IsSeq(<<v>>)
    BY SeqOne
  <2>3. <<>> \o <<v>> = <<v>>
    BY <2>2, SeqConcat
  <2> QED
    BY <2>1, <2>3
<1>8. <<>> \o Bracketed(e, v) = Bracketed(e, v)
  BY <1>3, SeqConcat
<1> QED
  BY <1>2, <1>4, <1>6, <1>7, <1>8, UnfoldedEmpty

LEMMA UnfoldsContainer ==
    ASSUME NEW e, NEW k \in Nat, NEW t, Unfolds(e, k, t), NEW v \in {Arr(e), Obj(e)}
    PROVE  Unfolds(<<v>>, k + 1, Bracketed(t, v))
<1>1. PICK F : IsUnfolding(F, e) /\ F[k] = t
  BY DEF Unfolds
<1>2. PICK G : G = [j \in Nat |-> IF j = 0 THEN <<v>> ELSE Bracketed(F[j - 1], v)]
  OBVIOUS
<1>3. G[0] = <<v>> /\ \A j \in Nat : G[j + 1] = Bracketed(F[j], v)
  <2>1. G[0] = <<v>>
    BY <1>2
  <2>2. ASSUME NEW j \in Nat
        PROVE  G[j + 1] = Bracketed(F[j], v)
    <3>1. j + 1 \in Nat /\ j + 1 # 0 /\ (j + 1) - 1 = j
      OBVIOUS
    <3> QED
      BY <1>2, <3>1
  <2> QED
    BY <2>1, <2>2
<1>4. IsItems(G[0]) /\ G[0 + 1] = Unfolded(G[0])
  <2>1. IsSeq(e) /\ F[0] = e
    <3>1. F[0] = e /\ IsItems(F[0])
      BY <1>1 DEF IsUnfolding
    <3> QED
      BY <3>1 DEF IsItems
  <2>2. IsItems(<<v>>) /\ Unfolded(<<v>>) = Bracketed(e, v)
    BY <2>1, UnfoldedContainer
  <2>3. G[0 + 1] = Bracketed(F[0], v)
    BY <1>3
  <2> QED
    BY <1>3, <2>1, <2>2, <2>3
<1>5. ASSUME NEW j \in Nat
      PROVE  IsItems(Bracketed(F[j], v)) /\ Bracketed(F[j + 1], v) = Unfolded(Bracketed(F[j], v))
  <2>1. IsItems(F[j]) /\ F[j + 1] = Unfolded(F[j])
    BY <1>1 DEF IsUnfolding
  <2>2. PICK o, c : o = <<Scalar("open")>> /\ c = <<Closing(v)>>
    OBVIOUS
  <2>3. IsItems(o) /\ Unfolded(o) = o /\ IsItems(c) /\ Unfolded(c) = c
    BY <2>2, FlatBrackets, UnfoldedFlat
  <2>4. IsItems(o \o F[j]) /\ Unfolded(o \o F[j]) = o \o F[j + 1]
    <3>1. /\ IsItems(o \o F[j])
          /\ Unfolded(o \o F[j]) = Unfolded(o) \o Unfolded(F[j])
      BY <2>1, <2>3, UnfoldedConcat
    <3> QED
      BY <2>1, <2>3, <3>1
  <2>5. IsItems((o \o F[j]) \o c) /\ Unfolded((o \o F[j]) \o c) = (o \o F[j + 1]) \o c
    BY <2>3, <2>4, UnfoldedConcat
  <2> QED
    BY <2>2, <2>5 DEF Bracketed
<1>6. ASSUME NEW j \in Nat
      PROVE  IsItems(G[j]) /\ G[j + 1] = Unfolded(G[j])
  <2>1. CASE j = 0
    BY <1>4, <2>1
  <2>2. CASE j # 0
    <3>1. PICK m \in Nat : j = m + 1
      <4>1. j - 1 \in Nat /\ j = (j - 1) + 1
        BY <2>2
      <4> QED
        BY <4>1
    <3>2. G[j] = Bracketed(F[m], v) /\ G[j + 1] = Bracketed(F[m + 1], v)
      BY <1>3, <3>1
    <3> QED
      BY <1>5, <3>2
  <2> QED
    BY <2>1, <2>2
<1>7. IsUnfolding(G, <<v>>)
  BY <1>3, <1>6 DEF IsUnfolding
<1>8. G[k + 1] = Bracketed(t, v)
  BY <1>1, <1>3
<1>9. IsFlat(Bracketed(t, v))
  BY FlatBracketed DEF Unfolds
<1> QED
  BY <1>7, <1>8, <1>9 DEF Unfolds

(* The recursive function computes the same.                                  *)
LEMMA UnfoldsNesting ==
    ASSUME NEW v, NEW k \in Nat, NEW t, Unfolds(<<v>>, k, t)
    PROVE  Nesting(v, k) = t
<1>1. PICK F : IsUnfolding(F, <<v>>) /\ F[k] = t
  BY DEF Unfolds
<1>2. PICK f : f = CHOOSE g : g = [n \in Nat |-> IF n = 0 THEN <<v>> ELSE Unfolded(g[n - 1])]
  OBVIOUS
<1>3. f = [n \in Nat |-> IF n = 0 THEN <<v>> ELSE Unfolded(f[n - 1])]
  <2>1. PICK g : g = [n \in Nat |-> F[n]]
    OBVIOUS
  <2>2. ASSUME NEW n \in Nat
        PROVE  F[n] = IF n = 0 THEN <<v>> ELSE Unfolded(g[n - 1])
    <3>1. CASE n = 0
      BY <1>1, <3>1 DEF IsUnfolding
    <3>2. CASE n # 0
      <4>1. PICK m \in Nat : n - 1 = m /\ n = m + 1
        BY <3>2
      <4>2. F[m + 1] = Unfolded(F[m])
        BY <1>1 DEF IsUnfolding
      <4>3. g[m] = F[m]
        BY <2>1
      <4> QED
        BY <3>2, <4>1, <4>2, <4>3
    <3> QED
      BY <3>1, <3>2
  <2>3. g = [n \in Nat |-> IF n = 0 THEN <<v>> ELSE Unfolded(g[n - 1])]
    BY <2>1, <2>2
  <2> QED
    BY <1>2, <2>3
<1>4. Nesting(v, k) = f[k]
  BY <1>2 DEF Nesting
<1> DEFINE T == {n \in Nat : f[n] = F[n]}
<1>5. 0 \in T
  <2>1. f[0] = <<v>> /\ F[0] = <<v>>
    BY <1>1, <1>3 DEF IsUnfolding
  <2> QED
    BY <2>1
<1>6. ASSUME NEW n \in T
      PROVE  n + 1 \in T
  <2>1. n + 1 \in Nat /\ n + 1 # 0 /\ (n + 1) - 1 = n /\ n \in Nat
    OBVIOUS
  <2>2. f[n + 1] = Unfolded(f[n])
    BY <1>3, <2>1
  <2>3. F[n + 1] = Unfolded(F[n])
    BY <1>1, <2>1 DEF IsUnfolding
  <2> QED
    BY <2>1, <2>2, <2>3
<1>7. T = Nat
  <2> HIDE DEF T
  <2>1. T \in SUBSET Nat
    BY DEF T
  <2> QED
    BY <1>5, <1>6, <2>1, Numbers
<1>8. f[k] = F[k]
  BY <1>7
<1> QED
  BY <1>1, <1>4, <1>8

-----------------------------------------------------------------------------
(* What the tokens stand for.                                                 *)
LEMMA SkippedItems == ASSUME NEW token \in {",", ":", " "} PROVE ItemsOf(token) = <<>>
BY Zenon DEF ItemsOf

LEMMA OpeningItems == ItemsOf("[") = <<Scalar("open")>> /\ ItemsOf("{") = <<Scalar("open")>>
BY Zenon DEF ItemsOf

LEMMA ClosingItems == ItemsOf("]") = <<Scalar("]")>> /\ ItemsOf("}") = <<Scalar("}")>>
BY Zenon DEF ItemsOf

LEMMA ScalarItems ==
    ASSUME NEW token \in Scalars, NEW v \in ScalarsOf(token)
    PROVE  ItemsOf(token) = <<v>> /\ IsFlat(<<v>>)
<1>1. token \in {"str", "num", "true", "null"}
  BY DEF Scalars
<1>2. ItemsOf(token) = <<v>>
  <2>1. CASE token = "null"
    <3>1. v = Scalar("str")
      BY <2>1 DEF ScalarsOf
    <3>2. ItemsOf("null") = <<Scalar("str")>>
      BY Zenon DEF ItemsOf
    <3> QED
      BY <2>1, <3>1, <3>2
  <2>2. CASE token \in {"str", "num", "true"}
    <3>1. v = Scalar(token)
      BY <2>2 DEF ScalarsOf
    <3>2. /\ ItemsOf("str") = <<Scalar("str")>> /\ ItemsOf("num") = <<Scalar("num")>>
          /\ ItemsOf("true") = <<Scalar("true")>>
      BY Zenon DEF ItemsOf
    <3> QED
      BY <2>2, <3>1, <3>2
  <2> QED
    BY <1>1, <2>1, <2>2
<1>3. v.type \notin {"arr", "obj"}
  <2>1. v \in {Scalar("str"), Scalar("num"), Scalar("true")}
    BY <1>1 DEF ScalarsOf
  <2> QED
    BY <2>1 DEF Scalar
<1> QED
  BY <1>2, <1>3, FlatScalar

LEMMA ItemsAreSeqs == \A token : IsSeq(ItemsOf(token))
<1> TAKE token
<1>1. ItemsOf(token) \in {<<>>, <<Scalar("open")>>, <<Scalar("str")>>, <<Scalar(token)>>}
  BY Zenon DEF ItemsOf
<1> QED
  BY <1>1, SeqEmpty, SeqOne

LEMMA NextText ==
    ASSUME IndInv, More
    PROVE  /\ IsSeq(NestingOf(SubSeq(doc, 1, i)))
           /\ NestingOf(SubSeq(doc, 1, i + 1)) = NestingOf(SubSeq(doc, 1, i)) \o ItemsOf(Token)
<1>1. IsSeq(doc) /\ i \in Nat /\ i < Len(doc) /\ i <= Len(doc)
  <2>1. doc \in Seq(Tokens)
    BY DEF IndInv, Documents
  <2>2. i \in Nat /\ i < Len(doc) /\ Len(doc) \in Nat
    BY NextPosition
  <2> QED
    BY <2>1, <2>2, SeqOfAnything
<1>2. SubSeq(doc, 1, i + 1) = Append(SubSeq(doc, 1, i), Token) /\ IsSeq(SubSeq(doc, 1, i))
  BY <1>1, SeqPrefix, SeqPrefixes DEF Token
<1> QED
  BY <1>2, ItemsAreSeqs, GrownText

-----------------------------------------------------------------------------
(* The text that was read, level by level: T[n] is what level n holds, and    *)
(* J[n] the text up to the end of that.                                       *)
Pieces(s, k, J, T) ==
    \A n \in 1 .. Len(s) :
        /\ Unfolds(s[n].elems, k, T[n])
        /\ IsSeq(J[n])
        /\ J[n] = IF n = 1 THEN T[1] ELSE (J[n - 1] \o <<Scalar("open")>>) \o T[n]

ReadSoFar(s, k) ==
    \E J, T : Pieces(s, k, J, T) /\ J[Len(s)] = NestingOf(SubSeq(doc, 1, k))

LEMMA PiecesKept ==
    ASSUME NEW s, NEW k \in Nat, NEW J, NEW T, Pieces(s, k, J, T)
    PROVE  Pieces(s, k + 1, J, T)
BY UnfoldsMore DEF Pieces

LEMMA PiecesPush ==
    ASSUME NEW s, AreLevels(s), NEW k \in Nat, NEW J, NEW T, Pieces(s, k, J, T)
    PROVE  \E J2, T2 : /\ Pieces(Push(s, Arr(<<>>)), k, J2, T2)
                       /\ J2[Len(s) + 1] = J[Len(s)] \o <<Scalar("open")>>
<1>1. IsSeq(s) /\ Len(s) \in Nat /\ Len(s) > 0
  BY LevelsLength DEF AreLevels
<1>2. PICK l \in Nat : l = Len(s) /\ l > 0
  BY <1>1
<1>3. PICK e : e = Push(s, Arr(<<>>))
  OBVIOUS
<1>4. /\ Len(e) = l + 1 /\ e[l + 1] = Arr(<<>>)
      /\ \A n \in 1 .. l : e[n] = s[n]
  BY <1>1, <1>2, <1>3, SeqAppend DEF Push
<1>5. PICK o : o = <<Scalar("open")>>
  OBVIOUS
<1>6. PICK J2 : J2 = [n \in 1 .. l + 1 |-> IF n = l + 1 THEN J[l] \o o ELSE J[n]]
  OBVIOUS
<1>7. PICK T2 : T2 = [n \in 1 .. l + 1 |-> IF n = l + 1 THEN <<>> ELSE T[n]]
  OBVIOUS
<1>8. /\ \A n \in 1 .. l : n \in 1 .. l + 1 /\ n # l + 1
      /\ l + 1 \in 1 .. l + 1 /\ l \in 1 .. l /\ 1 # l + 1
  BY <1>2
<1>9. /\ J2[l + 1] = J[l] \o o /\ T2[l + 1] = <<>>
      /\ \A n \in 1 .. l : J2[n] = J[n] /\ T2[n] = T[n]
  BY <1>6, <1>7, <1>8
<1>10. IsSeq(J[l]) /\ IsSeq(J[l] \o o)
  BY <1>2, <1>5, <1>8, SeqOne, SeqConcat DEF Pieces
<1>11. ASSUME NEW n \in 1 .. l + 1
       PROVE  /\ Unfolds(e[n].elems, k, T2[n])
              /\ IsSeq(J2[n])
              /\ J2[n] = IF n = 1 THEN T2[1] ELSE (J2[n - 1] \o o) \o T2[n]
  <2>1. CASE n = l + 1
    <3>1. e[n].elems = <<>>
      BY <1>4, <2>1 DEF Arr
    <3>2. Unfolds(<<>>, k, <<>>)
      BY FlatEmpty, UnfoldsFlat
    <3>3. n - 1 = l /\ n # 1
      BY <1>2, <2>1
    <3>4. (J[l] \o o) \o <<>> = J[l] \o o
      BY <1>10, SeqConcat
    <3>5. J2[n - 1] = J[l]
      BY <1>8, <1>9, <3>3
    <3>6. Unfolds(e[n].elems, k, T2[n]) /\ IsSeq(J2[n])
      BY <1>9, <1>10, <2>1, <3>1, <3>2
    <3>7. J2[n] = (J2[n - 1] \o o) \o T2[n]
      BY <1>9, <2>1, <3>4, <3>5
    <3> QED
      BY <3>3, <3>6, <3>7
  <2>2. CASE n \in 1 .. l
    <3>1. /\ Unfolds(s[n].elems, k, T[n])
          /\ IsSeq(J[n])
          /\ J[n] = IF n = 1 THEN T[1] ELSE (J[n - 1] \o o) \o T[n]
      BY <1>2, <1>5, <2>2 DEF Pieces
    <3>2. 1 \in 1 .. l /\ (n # 1 => n - 1 \in 1 .. l)
      BY <1>2, <2>2
    <3>3. CASE n = 1
      BY <1>4, <1>9, <3>1, <3>2, <3>3
    <3>4. CASE n # 1
      <4>1. J2[n - 1] = J[n - 1] /\ J2[n] = J[n] /\ T2[n] = T[n] /\ e[n] = s[n]
        BY <1>4, <1>9, <2>2, <3>2, <3>4
      <4> QED
        BY <3>1, <3>4, <4>1
    <3> QED
      BY <3>3, <3>4
  <2> QED
    BY <2>1, <2>2
<1>12. Pieces(e, k, J2, T2)
  BY <1>4, <1>5, <1>11 DEF Pieces
<1> QED
  BY <1>2, <1>3, <1>5, <1>9, <1>12

LEMMA PiecesAdd ==
    ASSUME NEW s, AreLevels(s), NEW k \in Nat, NEW J, NEW T, Pieces(s, k, J, T),
           NEW v, NEW w, Unfolds(<<v>>, k, w)
    PROVE  \E J2, T2 : Pieces(AddTo(s, v), k, J2, T2) /\ J2[Len(s)] = J[Len(s)] \o w
<1>1. IsSeq(s) /\ Len(s) \in Nat /\ Len(s) > 0 /\ DOMAIN s = 1 .. Len(s)
  BY LevelsLength DEF AreLevels
<1>2. PICK l \in Nat : l = Len(s) /\ l > 0
  BY <1>1
<1>3. PICK e : e = AddTo(s, v)
  OBVIOUS
<1>4. PICK a : a = Arr(Append(s[l].elems, v))
  OBVIOUS
<1>5. l \in 1 .. l /\ 1 \in 1 .. l
  BY <1>2
<1>6. Len(e) = l /\ \A n \in 1 .. l : e[n] = IF n = l THEN a ELSE s[n]
  <2>1. e = [s EXCEPT ![l] = a]
    BY <1>2, <1>3, <1>4 DEF AddTo
  <2> QED
    BY <1>1, <1>2, <1>5, <2>1, SeqExcept
<1>7. PICK o : o = <<Scalar("open")>>
  OBVIOUS
<1>8. PICK J2 : J2 = [n \in 1 .. l |-> IF n = l THEN J[l] \o w ELSE J[n]]
  OBVIOUS
<1>9. PICK T2 : T2 = [n \in 1 .. l |-> IF n = l THEN T[l] \o w ELSE T[n]]
  OBVIOUS
<1>10. /\ J2[l] = J[l] \o w /\ T2[l] = T[l] \o w
       /\ \A n \in 1 .. l : n # l => J2[n] = J[n] /\ T2[n] = T[n]
  BY <1>5, <1>8, <1>9
<1>11. \A n \in 1 .. l :
          /\ Unfolds(s[n].elems, k, T[n])
          /\ IsSeq(J[n])
          /\ J[n] = IF n = 1 THEN T[1] ELSE (J[n - 1] \o o) \o T[n]
  BY <1>2, <1>7 DEF Pieces
<1>12. IsSeq(J[l]) /\ IsSeq(T[l]) /\ IsSeq(w) /\ IsSeq(o)
  BY <1>5, <1>7, <1>11, SeqOne DEF Unfolds, IsFlat
<1>13. Unfolds(a.elems, k, T[l] \o w)
  <2>1. a.elems = Append(s[l].elems, v)
    BY <1>4 DEF Arr
  <2>2. IsSeq(s[l].elems)
    BY <1>1, <1>2, <1>5 DEF AreLevels, IsLevel
  <2>3. Append(s[l].elems, v) = s[l].elems \o <<v>>
    BY <2>2, SeqAppendIsConcat
  <2>4. Unfolds(s[l].elems \o <<v>>, k, T[l] \o w)
    BY <1>5, <1>11, UnfoldsConcat
  <2> QED
    BY <2>1, <2>3, <2>4
<1>14. ASSUME NEW n \in 1 .. l
       PROVE  /\ Unfolds(e[n].elems, k, T2[n])
              /\ IsSeq(J2[n])
              /\ J2[n] = IF n = 1 THEN T2[1] ELSE (J2[n - 1] \o o) \o T2[n]
  <2>1. CASE n = l
    <3>1. Unfolds(e[n].elems, k, T2[n])
      BY <1>6, <1>10, <1>13, <2>1
    <3>2. IsSeq(J2[n])
      <4>1. IsSeq(J[l] \o w)
        BY <1>12, SeqConcat
      <4> QED
        BY <1>10, <2>1, <4>1
    <3>3. CASE n = 1
      <4>1. J[l] = T[1]
        BY <1>11, <2>1, <3>3
      <4> QED
        BY <1>10, <2>1, <3>1, <3>2, <3>3, <4>1
    <3>4. CASE n # 1
      <4>1. n - 1 \in 1 .. l /\ n - 1 # l
        BY <2>1, <3>4
      <4>2. PICK b : b = J[n - 1]
        OBVIOUS
      <4>3. J2[n - 1] = b /\ IsSeq(b)
        BY <1>10, <1>11, <4>1, <4>2
      <4>4. J[l] = (b \o o) \o T[l]
        BY <1>11, <2>1, <3>4, <4>2
      <4>5. IsSeq(b \o o)
        BY <1>12, <4>3, SeqConcat
      <4>6. PICK c, t : c = b \o o /\ t = T[l]
        OBVIOUS
      <4>7. IsSeq(c) /\ IsSeq(t) /\ IsSeq(w)
        BY <1>12, <4>5, <4>6
      <4>8. (c \o t) \o w = c \o (t \o w)
        BY <4>7, SeqAssociative
      <4>9. J2[n] = (J2[n - 1] \o o) \o T2[n]
        BY <1>10, <2>1, <4>3, <4>4, <4>6, <4>8
      <4> QED
        BY <3>1, <3>2, <3>4, <4>9
    <3> QED
      BY <3>3, <3>4
  <2>2. CASE n # l
    <3>1. e[n] = s[n] /\ J2[n] = J[n] /\ T2[n] = T[n]
      BY <1>6, <1>10, <2>2
    <3>2. CASE n = 1
      BY <1>11, <3>1, <3>2
    <3>3. CASE n # 1
      <4>1. n - 1 \in 1 .. l /\ n - 1 # l
        BY <1>2, <2>2, <3>3
      <4>2. J2[n - 1] = J[n - 1]
        BY <1>10, <4>1
      <4> QED
        BY <1>11, <3>1, <3>3, <4>2
    <3> QED
      BY <3>2, <3>3
  <2> QED
    BY <2>1, <2>2
<1>15. Pieces(e, k, J2, T2)
  BY <1>6, <1>7, <1>14 DEF Pieces
<1> QED
  BY <1>2, <1>3, <1>10, <1>15

Uncut(k) == \A j \in 1 .. k : doc[j] # "cut"

TextInv ==
    /\ at \in {"skip", "loop", "end"} /\ Uncut(i) => ReadSoFar(stack, i)
    /\ at \in {"out", "returned"} /\ rv >= 0 /\ Uncut(rv) =>
           Nesting(nson, rv) = NestingOf(SubSeq(doc, 1, rv))

LEMMA Position == ASSUME IndInv PROVE i \in Nat
<1>1. i \in 0 .. Len(doc) + 4
  BY DEF IndInv, TypeOK
<1> QED
  BY <1>1, DocLength

LEMMA NextUncut ==
    ASSUME IndInv, More, Uncut(i + 1)
    PROVE  Uncut(i) /\ Token # "cut"
<1>1. i \in Nat
  BY Position
<1>2. i + 1 \in 1 .. i + 1 /\ \A j \in 1 .. i : j \in 1 .. i + 1
  BY <1>1
<1> QED
  BY <1>2 DEF Uncut, Token

(* A round that leaves the levels s behind.                                   *)
LEMMA RoundText ==
    ASSUME NEW s, NEW k, NextRound(s, k), Uncut(k) => ReadSoFar(s, k)
    PROVE  TextInv'
<1>1. doc' = doc /\ i' = k /\ stack' = s /\ at' \in {"loop", "end"}
  BY DEF NextRound
<1>2. Uncut(i)' => ReadSoFar(stack, i)'
  BY <1>1 DEF Uncut, ReadSoFar
<1>3. at' \notin {"out", "returned"}
  BY <1>1
<1> QED
  BY <1>2, <1>3 DEF TextInv

LEMMA FailText == ASSUME Fail PROVE TextInv'
<1>1. rv' = -1 /\ at' = "out"
  BY DEF Fail
<1>2. ~(rv' >= 0) /\ at' \notin {"skip", "loop", "end"}
  BY <1>1
<1> QED
  BY <1>2 DEF TextInv

(* Before a round.                                                            *)
LEMMA BeforeRound ==
    ASSUME IndInv, TextInv, at \in {"skip", "loop"}, More, Uncut(i + 1)
    PROVE  /\ i \in Nat /\ AreLevels(stack) /\ Token # "cut"
           /\ \E J, T : /\ Pieces(stack, i + 1, J, T)
                        /\ IsSeq(J[Len(stack)])
                        /\ NestingOf(SubSeq(doc, 1, i + 1)) = J[Len(stack)] \o ItemsOf(Token)
<1>1. i \in Nat /\ AreLevels(stack)
  BY Position DEF IndInv, Parsing
<1>2. Uncut(i) /\ Token # "cut"
  BY NextUncut
<1>3. ReadSoFar(stack, i)
  BY <1>2 DEF TextInv
<1>4. PICK J, T : Pieces(stack, i, J, T) /\ J[Len(stack)] = NestingOf(SubSeq(doc, 1, i))
  BY <1>3 DEF ReadSoFar
<1>5. Pieces(stack, i + 1, J, T)
  BY <1>1, <1>4, PiecesKept
<1>6. NestingOf(SubSeq(doc, 1, i + 1)) = J[Len(stack)] \o ItemsOf(Token)
  BY <1>4, NextText
<1>7. IsSeq(J[Len(stack)])
  <2>1. Len(stack) \in 1 .. Len(stack)
    BY <1>1, LevelsLength
  <2> QED
    BY <1>4, <2>1 DEF Pieces
<1> QED
  BY <1>1, <1>2, <1>5, <1>6, <1>7

(* What is skipped stands for nothing.                                        *)
LEMMA SkippedText ==
    ASSUME IndInv, TextInv, at \in {"skip", "loop"}, More, Uncut(i + 1),
           Token \in {",", ":", " "}
    PROVE  ReadSoFar(stack, i + 1)
<1>1. PICK J, T : /\ Pieces(stack, i + 1, J, T) /\ IsSeq(J[Len(stack)])
                  /\ NestingOf(SubSeq(doc, 1, i + 1)) = J[Len(stack)] \o ItemsOf(Token)
  BY BeforeRound
<1>2. ItemsOf(Token) = <<>>
  BY SkippedItems
<1>3. J[Len(stack)] \o <<>> = J[Len(stack)]
  BY <1>1, SeqConcat, SeqEmpty
<1> QED
  BY <1>1, <1>2, <1>3 DEF ReadSoFar

LEMMA SkipTokenText == ASSUME IndInv, TextInv, SkipToken PROVE TextInv'
<1>1. at = "loop" /\ Token \in {",", ":", " "} /\ NextRound(stack, i + 1)
  BY DEF SkipToken, InLoop
<1>2. More
  BY <1>1 DEF IndInv
<1>3. Uncut(i + 1) => ReadSoFar(stack, i + 1)
  BY <1>1, <1>2, SkippedText
<1> QED
  BY <1>1, <1>3, RoundText

LEMMA SkipSpaceText == ASSUME IndInv, TextInv, SkipSpace PROVE TextInv'
<1>1. /\ at = "skip" /\ at' = "skip" /\ More /\ Token \in {",", ":", " "}
      /\ i' = i + 1 /\ doc' = doc /\ stack' = stack
  BY DEF SkipSpace
<1>2. Uncut(i + 1) => ReadSoFar(stack, i + 1)
  BY <1>1, SkippedText
<1>3. Uncut(i)' => ReadSoFar(stack, i)'
  BY <1>1, <1>2 DEF Uncut, ReadSoFar
<1>4. at' \notin {"out", "returned"}
  BY <1>1
<1> QED
  BY <1>3, <1>4 DEF TextInv

LEMMA EnterText == ASSUME IndInv, TextInv, Enter PROVE TextInv'
<1>1. /\ at = "skip" /\ doc' = doc /\ i' = i /\ stack' = stack
      /\ at' = "loop" \/ (at' = "out" /\ rv' = -1)
  BY DEF Enter
<1>2. CASE at' = "loop"
  <2>1. Uncut(i) => ReadSoFar(stack, i)
    BY <1>1 DEF TextInv
  <2>2. Uncut(i)' => ReadSoFar(stack, i)'
    BY <1>1, <2>1 DEF Uncut, ReadSoFar
  <2>3. at' \notin {"out", "returned"}
    BY <1>2
  <2> QED
    BY <2>2, <2>3 DEF TextInv
<1>3. CASE at' = "out" /\ rv' = -1
  <2>1. ~(rv' >= 0) /\ at' \notin {"skip", "loop", "end"}
    BY <1>3
  <2> QED
    BY <2>1 DEF TextInv
<1> QED
  BY <1>1, <1>2, <1>3

LEMMA OpenText == ASSUME IndInv, TextInv, OpenContainer PROVE TextInv'
<1>1. at = "loop" /\ Token \in {"[", "{"} /\ NextRound(Push(stack, Arr(<<>>)), i + 1)
  BY DEF OpenContainer, InLoop
<1>2. More
  BY <1>1 DEF IndInv
<1>3. ASSUME Uncut(i + 1)
      PROVE  ReadSoFar(Push(stack, Arr(<<>>)), i + 1)
  <2>1. i + 1 \in Nat /\ AreLevels(stack)
    <3>1. i \in Nat /\ AreLevels(stack)
      BY <1>1, <1>2, <1>3, BeforeRound
    <3> QED
      BY <3>1
  <2>2. PICK J, T : /\ Pieces(stack, i + 1, J, T)
                    /\ NestingOf(SubSeq(doc, 1, i + 1)) = J[Len(stack)] \o ItemsOf(Token)
    BY <1>1, <1>2, <1>3, BeforeRound
  <2>3. ItemsOf(Token) = <<Scalar("open")>>
    BY <1>1, OpeningItems
  <2>4. PICK J2, T2 : /\ Pieces(Push(stack, Arr(<<>>)), i + 1, J2, T2)
                      /\ J2[Len(stack) + 1] = J[Len(stack)] \o <<Scalar("open")>>
    BY <2>1, <2>2, PiecesPush
  <2>5. Len(Push(stack, Arr(<<>>))) = Len(stack) + 1
    BY <2>1, LevelsPush
  <2> QED
    BY <2>2, <2>3, <2>4, <2>5 DEF ReadSoFar
<1> QED
  BY <1>1, <1>3, RoundText

LEMMA AddScalarText == ASSUME IndInv, TextInv, AddScalar PROVE TextInv'
<1>1. at = "loop" /\ Token \in Scalars \cup {"cut"}
  BY DEF AddScalar, InLoop
<1>2. PICK v \in ScalarsOf(Token) :
          \E n \in IF Token = "cut" THEN MissingBytes(v) ELSE {0} :
              NextRound(AddTo(stack, v), i + 1 + n)
  BY DEF AddScalar
<1>3. More
  BY <1>1 DEF IndInv
<1>4. ASSUME Uncut(i + 1)
      PROVE  ReadSoFar(AddTo(stack, v), i + 1)
  <2>1. i + 1 \in Nat /\ AreLevels(stack) /\ Token \in Scalars
    BY <1>1, <1>3, <1>4, BeforeRound
  <2>2. PICK J, T : /\ Pieces(stack, i + 1, J, T)
                    /\ NestingOf(SubSeq(doc, 1, i + 1)) = J[Len(stack)] \o ItemsOf(Token)
    BY <1>1, <1>3, <1>4, BeforeRound
  <2>3. ItemsOf(Token) = <<v>> /\ IsFlat(<<v>>)
    BY <2>1, ScalarItems
  <2>4. Unfolds(<<v>>, i + 1, <<v>>)
    BY <2>1, <2>3, UnfoldsFlat
  <2>5. PICK J2, T2 : /\ Pieces(AddTo(stack, v), i + 1, J2, T2)
                      /\ J2[Len(stack)] = J[Len(stack)] \o <<v>>
    <3>1. PICK k \in Nat : k = i + 1
      BY <2>1
    <3>2. PICK w : w = <<v>>
      OBVIOUS
    <3>3. Pieces(stack, k, J, T) /\ Unfolds(<<v>>, k, w)
      BY <2>2, <2>4, <3>1, <3>2
    <3>4. \E J2, T2 : /\ Pieces(AddTo(stack, v), k, J2, T2)
                      /\ J2[Len(stack)] = J[Len(stack)] \o w
      BY <2>1, <3>3, PiecesAdd
    <3> QED
      BY <3>1, <3>2, <3>4
  <2>6. Len(AddTo(stack, v)) = Len(stack)
    <3>1. v.type \in Types \ {"nil"}
      BY <1>1, ScalarTypes
    <3> QED
      BY <2>1, <3>1, LevelsAdd
  <2> QED
    BY <2>2, <2>3, <2>5, <2>6 DEF ReadSoFar
<1>5. i \in Nat
  BY Position
<1>6. CASE Token = "cut"
  <2>1. PICK n \in MissingBytes(v) : NextRound(AddTo(stack, v), i + 1 + n)
    BY <1>2, <1>6
  <2>2. i + 1 \in 1 .. i + 1 + n
    BY <1>5, <2>1 DEF MissingBytes
  <2>3. ~Uncut(i + 1 + n)
    BY <1>6, <2>2 DEF Uncut, Token
  <2> QED
    BY <2>1, <2>3, RoundText
<1>7. CASE Token # "cut"
  <2>1. i + 1 + 0 = i + 1 /\ NextRound(AddTo(stack, v), i + 1 + 0)
    BY <1>2, <1>5, <1>7
  <2> QED
    BY <1>4, <2>1, RoundText
<1> QED
  BY <1>6, <1>7

(* What was read on the top level becomes, between its brackets, the last     *)
(* piece of the level below.                                                  *)
LEMMA CloseText ==
    ASSUME IndInv, TextInv, at = "loop", NEW v \in {Arr(Top.elems), Obj(Top.elems)},
           CloseWith(v), ItemsOf(Token) = <<Closing(v)>>
    PROVE  TextInv'
<1>1. AreLevels(stack) /\ More
  BY DEF IndInv, Parsing
<1>2. CASE Len(stack) = 1
  BY <1>2, FailText DEF CloseWith
<1>3. CASE Len(stack) # 1
  <2>1. NextRound(AddTo(Below, v), i + 1)
    BY <1>3 DEF CloseWith
  <2>2. ASSUME Uncut(i + 1)
        PROVE  ReadSoFar(AddTo(Below, v), i + 1)
    <3>1. i \in Nat /\ i + 1 \in Nat
      BY <1>1, <2>2, BeforeRound
    <3>2. PICK l \in Nat : Len(stack) = l + 1 /\ l > 0
      <4>1. PICK n \in Nat : n = Len(stack) /\ n > 0
        BY <1>1, LevelsLength
      <4>2. n - 1 \in Nat /\ n = (n - 1) + 1 /\ n - 1 > 0
        BY <1>3, <4>1
      <4> QED
        BY <4>1, <4>2
    <3>3. PICK b : b = Below
      OBVIOUS
    <3>4. AreLevels(b) /\ Len(b) = l /\ \A n \in 1 .. l : b[n] = stack[n]
      <4>1. Len(stack) - 1 = l /\ Len(stack) > 0
        BY <3>2
      <4>2. IsSeq(stack)
        BY <1>1 DEF AreLevels
      <4>3. AreLevels(SubSeq(stack, 1, l)) /\ Len(SubSeq(stack, 1, l)) = l
        BY <1>1, <1>3, <4>1, LevelsPop
      <4>4. \A n \in 1 .. l : SubSeq(stack, 1, l)[n] = stack[n]
        BY <4>1, <4>2, SeqFront
      <4> QED
        BY <3>3, <4>1, <4>3, <4>4 DEF Below
    <3>5. Uncut(i) /\ ReadSoFar(stack, i)
      BY <1>1, <2>2, NextUncut DEF TextInv
    <3>6. PICK J, T : Pieces(stack, i, J, T) /\ J[l + 1] = NestingOf(SubSeq(doc, 1, i))
      BY <3>2, <3>5 DEF ReadSoFar
    <3>7. Pieces(b, i, J, T)
      <4>1. \A n \in 1 .. l : n \in 1 .. l + 1
        OBVIOUS
      <4> QED
        BY <3>2, <3>4, <3>6, <4>1 DEF Pieces
    <3>8. Pieces(b, i + 1, J, T)
      BY <3>1, <3>7, PiecesKept
    <3>9. /\ Unfolds(Top.elems, i, T[l + 1])
          /\ J[l + 1] = (J[l] \o <<Scalar("open")>>) \o T[l + 1]
          /\ IsSeq(J[l])
      <4>1. l + 1 \in 1 .. l + 1 /\ l \in 1 .. l + 1 /\ l + 1 # 1 /\ (l + 1) - 1 = l
        BY <3>2
      <4>2. Top = stack[l + 1]
        BY <3>2 DEF Top
      <4> QED
        BY <3>2, <3>6, <4>1, <4>2 DEF Pieces
    <3>10. PICK w : w = Bracketed(T[l + 1], v)
      OBVIOUS
    <3>11. Unfolds(<<v>>, i + 1, w)
      BY <3>1, <3>9, <3>10, UnfoldsContainer
    <3>12. PICK J2, T2 : Pieces(AddTo(b, v), i + 1, J2, T2) /\ J2[l] = J[l] \o w
      <4>1. PICK k \in Nat : k = i + 1
        BY <3>1
      <4>2. Pieces(b, k, J, T) /\ Unfolds(<<v>>, k, w) /\ AreLevels(b)
        BY <3>4, <3>8, <3>11, <4>1
      <4>3. \E J2, T2 : Pieces(AddTo(b, v), k, J2, T2) /\ J2[Len(b)] = J[Len(b)] \o w
        BY <4>2, PiecesAdd
      <4> QED
        BY <3>4, <4>1, <4>3
    <3>13. NestingOf(SubSeq(doc, 1, i + 1)) = J[l] \o w
      <4>1. NestingOf(SubSeq(doc, 1, i + 1)) = J[l + 1] \o <<Closing(v)>>
        BY <1>1, <3>6, NextText
      <4>2. PICK j, o, t, c :
                j = J[l] /\ o = <<Scalar("open")>> /\ t = T[l + 1] /\ c = <<Closing(v)>>
        OBVIOUS
      <4>3. IsSeq(j) /\ IsSeq(o) /\ IsSeq(t) /\ IsSeq(c)
        BY <3>9, <4>2, SeqOne DEF Unfolds, IsFlat
      <4>4. (j \o o) \o t = j \o (o \o t)
        BY <4>3, SeqAssociative
      <4>5. PICK u : u = o \o t
        OBVIOUS
      <4>6. IsSeq(u)
        BY <4>3, <4>5, SeqConcat
      <4>7. (j \o u) \o c = j \o (u \o c)
        BY <4>3, <4>6, SeqAssociative
      <4>8. w = u \o c
        BY <3>10, <4>2, <4>5 DEF Bracketed
      <4>9. J[l + 1] = (j \o o) \o t
        BY <3>9, <4>2
      <4> QED
        BY <4>1, <4>2, <4>4, <4>5, <4>7, <4>8, <4>9
    <3>14. Len(AddTo(b, v)) = l
      <4>1. v.type \in Types \ {"nil"}
        <5>1. v.type \in {"arr", "obj"}
          BY DEF Arr, Obj
        <5> QED
          BY <5>1 DEF Types
      <4> QED
        BY <3>4, <4>1, LevelsAdd
    <3> QED
      BY <3>3, <3>12, <3>13, <3>14 DEF ReadSoFar
  <2> QED
    BY <2>1, <2>2, RoundText
<1> QED
  BY <1>2, <1>3

LEMMA CloseArrayText == ASSUME IndInv, TextInv, CloseArray PROVE TextInv'
<1>1. at = "loop" /\ Token = "]" /\ CloseWith(Top)
  BY DEF CloseArray, InLoop
<1>2. Top = Arr(Top.elems)
  <2>1. AreLevels(stack)
    BY <1>1, InTheLoop
  <2>2. Len(stack) \in DOMAIN stack
    BY <2>1, LevelsLength
  <2> QED
    BY <2>1, <2>2 DEF AreLevels, IsLevel, Top
<1>3. ItemsOf(Token) = <<Closing(Arr(Top.elems))>>
  <2>1. Closing(Arr(Top.elems)) = Scalar("]")
    BY DEF Closing, Arr
  <2> QED
    BY <1>1, <2>1, ClosingItems
<1>4. CloseWith(Arr(Top.elems))
  BY <1>1, <1>2
<1> QED
  BY <1>1, <1>3, <1>4, CloseText

LEMMA CloseObjectText == ASSUME IndInv, TextInv, CloseObject PROVE TextInv'
<1>1. at = "loop" /\ Token = "}"
  BY DEF CloseObject, InLoop
<1>2. CASE Len(Top.elems) % 2 # 0
  BY <1>2, FailText DEF CloseObject
<1>3. CASE Len(Top.elems) % 2 = 0
  <2>1. CloseWith(Obj(Top.elems))
    BY <1>3 DEF CloseObject
  <2>2. ItemsOf(Token) = <<Closing(Obj(Top.elems))>>
    <3>1. Closing(Obj(Top.elems)) = Scalar("}")
      BY DEF Closing, Obj
    <3> QED
      BY <1>1, <3>1, ClosingItems
  <2> QED
    BY <1>1, <2>1, <2>2, CloseText
<1> QED
  BY <1>2, <1>3

(* A single value is what the text says.                                      *)
LEMMA FinishText == ASSUME IndInv, TextInv, Finish PROVE TextInv'
<1>1. at = "end" /\ AreLevels(stack)
  BY DEF IndInv, Parsing, Finish
<1>2. CASE Len(stack) # 1 \/ Len(Top.elems) # 1
  BY <1>2, FailText DEF Finish
<1>3. CASE Len(stack) = 1 /\ Len(Top.elems) = 1
  <2>1. /\ nson' = Head(Top.elems) /\ rv' = i /\ at' = "out" /\ doc' = doc
    BY <1>3 DEF Finish
  <2>2. PICK v : v = Head(Top.elems)
    OBVIOUS
  <2>3. ASSUME Uncut(i)
        PROVE  Nesting(v, i) = NestingOf(SubSeq(doc, 1, i))
    <3>1. ReadSoFar(stack, i)
      BY <1>1, <2>3 DEF TextInv
    <3>2. PICK J, T : Pieces(stack, i, J, T) /\ J[1] = NestingOf(SubSeq(doc, 1, i))
      BY <1>3, <3>1 DEF ReadSoFar
    <3>3. Unfolds(Top.elems, i, T[1]) /\ J[1] = T[1]
      <4>1. 1 \in 1 .. Len(stack)
        BY <1>3
      <4> QED
        BY <1>3, <3>2, <4>1 DEF Pieces, Top
    <3>4. Top.elems = <<v>>
      <4>1. IsSeq(Top.elems)
        <5>1. Len(stack) \in DOMAIN stack
          BY <1>1, LevelsLength
        <5> QED
          BY <1>1, <5>1 DEF AreLevels, IsLevel, Top
      <4>2. PICK e : e = Top.elems
        OBVIOUS
      <4>3. IsSeq(e) /\ Len(e) = 1 /\ e[1] = v
        BY <1>3, <2>2, <4>1, <4>2
      <4>4. IsSeq(<<v>>) /\ Len(<<v>>) = 1 /\ <<v>>[1] = v
        BY SeqOne
      <4>5. \A n \in 1 .. 1 : n = 1
        OBVIOUS
      <4>6. \A n \in 1 .. Len(e) : e[n] = <<v>>[n]
        BY <4>3, <4>4, <4>5
      <4> QED
        BY <4>2, <4>3, <4>4, <4>6, SeqEqualAll
    <3>5. i \in Nat
      BY Position
    <3>6. Nesting(v, i) = T[1]
      BY <3>3, <3>4, <3>5, UnfoldsNesting
    <3> QED
      BY <3>2, <3>3, <3>6
  <2>4. Uncut(rv)' => Nesting(nson, rv)' = NestingOf(SubSeq(doc, 1, rv))'
    BY <2>1, <2>2, <2>3 DEF Uncut
  <2>5. at' \notin {"skip", "loop", "end"}
    BY <2>1
  <2> QED
    BY <2>4, <2>5 DEF TextInv
<1> QED
  BY <1>2, <1>3

LEMMA ReturnText == ASSUME IndInv, TextInv, Return PROVE TextInv'
<1>1. /\ at = "out" /\ at' = "returned" /\ doc' = doc /\ rv' = rv /\ nson' = nson
  BY DEF Return
<1>2. rv >= 0 /\ Uncut(rv) => Nesting(nson, rv) = NestingOf(SubSeq(doc, 1, rv))
  BY <1>1 DEF TextInv
<1>3. rv' >= 0 /\ Uncut(rv)' => Nesting(nson, rv)' = NestingOf(SubSeq(doc, 1, rv))'
  BY <1>1, <1>2 DEF Uncut
<1>4. at' \notin {"skip", "loop", "end"}
  BY <1>1
<1> QED
  BY <1>3, <1>4 DEF TextInv

LEMMA StutterText == ASSUME TextInv, UNCHANGED vars PROVE TextInv'
BY DEF vars, TextInv, Uncut, ReadSoFar

LEMMA InitText == Init => TextInv
<1> SUFFICES ASSUME Init PROVE TextInv
  OBVIOUS
<1>1. doc \in Documents
  BY DocsAreDocuments DEF Init
<1>2. /\ i = 0 /\ at = "skip" /\ Len(stack) = 1 /\ stack[1].elems = <<>>
  <2>1. PICK b : b = Arr(<<>>)
    OBVIOUS
  <2>2. stack = <<b>> /\ b.elems = <<>> /\ i = 0 /\ at = "skip"
    BY <2>1 DEF Init, Arr
  <2> QED
    BY <2>2, SeqOne
<1>3. NestingOf(SubSeq(doc, 1, 0)) = <<>>
  <2>1. SubSeq(doc, 1, 0) = <<>>
    <3>1. IsSeq(doc)
      BY <1>1, SeqOfAnything DEF Documents
    <3> QED
      BY <3>1, SeqPrefixes
  <2>2. DOMAIN <<>> = 1 .. 0
    BY SeqEmpty, SeqLength
  <2>3. PICK q : q = [n \in DOMAIN <<>> |-> ItemsOf(<<>>[n])]
    OBVIOUS
  <2>4. IsSeq(q) /\ Len(q) = 0
    <3>1. DOMAIN q = 1 .. 0 /\ q = [n \in 1 .. 0 |-> q[n]]
      BY <2>2, <2>3
    <3> QED
      BY <3>1, SeqComprehension
  <2>5. q = <<>>
    BY <2>4, SeqEmpty, SeqEqualAll
  <2> QED
    BY <2>1, <2>3, <2>5, FlattenEmpty DEF NestingOf
<1>4. PICK J : J = [n \in 1 .. 1 |-> <<>>]
  OBVIOUS
<1>5. J[1] = <<>> /\ 1 \in 1 .. 1
  BY <1>4
<1>6. Unfolds(<<>>, 0, <<>>) /\ IsSeq(<<>>)
  BY FlatEmpty, UnfoldsFlat, SeqEmpty
<1>7. Pieces(stack, 0, J, J)
  <2>1. ASSUME NEW n \in 1 .. 1
        PROVE  n = 1
    OBVIOUS
  <2> QED
    BY <1>2, <1>5, <1>6, <2>1 DEF Pieces
<1>8. ReadSoFar(stack, i)
  BY <1>2, <1>3, <1>5, <1>7 DEF ReadSoFar
<1>9. at \notin {"out", "returned"}
  BY <1>2
<1> QED
  BY <1>8, <1>9 DEF TextInv

(* The levels and the text read so far, for every set of documents.           *)
THEOREM TextInvariance == Spec => []TextInv
<1>1. IndInv /\ TextInv /\ [Next]_vars => TextInv'
  <2> SUFFICES ASSUME IndInv, TextInv, [Next]_vars PROVE TextInv'
    OBVIOUS
  <2>1. ASSUME GiveUp PROVE TextInv'
    BY <2>1, FailText DEF GiveUp
  <2> QED
    BY <2>1, SkipSpaceText, EnterText, OpenText, SkipTokenText, CloseArrayText,
       CloseObjectText, AddScalarText, FinishText, ReturnText, StutterText DEF Next
<1> QED
  BY <1>1, InitText, ParserInvariance, PTL DEF Spec

(* nson_parse_json: whatever is accepted, the value has the nesting, the      *)
(* order and the scalars of the text that was consumed.                       *)
THEOREM ValueIsText == Spec => []ValueMatchesText
<1>1. TextInv => ValueMatchesText
  BY DEF TextInv, ValueMatchesText, Uncut
<1> QED
  BY <1>1, TextInvariance, PTL
=============================================================================
