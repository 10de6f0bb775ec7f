-------------------------- MODULE PlistParserProofs --------------------------
(***************************************************************************)
(* For all property lists and any number of calls: where the position is,  *)
(* that no value is lost, and that a value is only handed out behind the   *)
(* end tag.                                                                *)
(***************************************************************************)
EXTENDS PlistParser, SequenceTheorems, WellFoundedInduction, TLAPS

(* Every set of numbers has a least one: what a forward search stops at.      *)
LEMMA LeastOffset ==
    ASSUME NEW T \in SUBSET Nat, T # {}
    PROVE  \E n \in T : \A m \in T : n <= m
<1>1. \E R : IsWellFoundedOn(R, Nat) /\ \A m, n \in Nat : m < n => <<m, n>> \in R
  <2>1. IsWellFoundedOn(OpToRel(<, Nat), Nat)
    BY NatLessThanWellFounded
  <2>2. \A m, n \in Nat : m < n => <<m, n>> \in OpToRel(<, Nat)
    BY DEF OpToRel
  <2> QED
    BY <2>1, <2>2, Zenon
<1>2. PICK R : IsWellFoundedOn(R, Nat) /\ \A m, n \in Nat : m < n => <<m, n>> \in R
  BY <1>1
<1>3. \E n \in T : \A m \in T : ~ (<<m, n>> \in R)
  <2>1. T \subseteq Nat /\ IsWellFoundedOn(R, Nat)
    BY <1>2
  <2> QED
    BY <2>1, WFMin, Zenon
<1>4. \E n \in T : \A m \in T : ~(m < n)
  BY <1>2, <1>3
<1> QED
  BY <1>4

(* What keeps a sequence a sequence, whatever its elements.                   *)
LEMMA SeqOfAnything ==
    ASSUME NEW S, NEW s \in Seq(S)
    PROVE  IsSeq(s) /\ Len(s) \in Nat /\ DOMAIN s = 1 .. Len(s)
<1>1. Len(s) \in Nat /\ s \in [1 .. Len(s) -> S] /\ DOMAIN s = 1 .. Len(s)
  BY LenProperties
<1>2. s \in [1 .. Len(s) -> {s[n] : n \in DOMAIN s}]
  BY <1>1
<1> QED
  BY <1>1, <1>2, SeqDef DEF IsSeq

LEMMA SeqLength ==
    ASSUME NEW s, IsSeq(s)
    PROVE  Len(s) \in Nat /\ DOMAIN s = 1 .. Len(s) /\ (s # <<>> => Len(s) > 0)
BY LenProperties, EmptySeq DEF IsSeq

LEMMA SeqEmpty == IsSeq(<<>>) /\ Len(<<>>) = 0 /\ DOMAIN <<>> = {}
<1>1. <<>> \in Seq({}) /\ Len(<<>>) = 0
  BY EmptySeq
<1>2. IsSeq(<<>>) /\ DOMAIN <<>> = 1 .. 0
  BY <1>1, SeqOfAnything
<1> QED
  BY <1>1, <1>2

LEMMA SeqAppend ==
    ASSUME NEW s, NEW v, IsSeq(s)
    PROVE  /\ IsSeq(Append(s, v)) /\ Append(s, v) # <<>>
           /\ Len(Append(s, v)) = Len(s) + 1
           /\ \A n \in 1 .. Len(s) : Append(s, v)[n] = s[n]
           /\ Append(s, v)[Len(s) + 1] = v
<1> DEFINE S == {s[n] : n \in DOMAIN s} \cup {v}
<1>1. s \in Seq(S) /\ v \in S
  <2>1. s \in Seq({s[n] : n \in DOMAIN s})
    BY DEF IsSeq
  <2> QED
    BY <2>1, SeqMonotonic
<1> HIDE DEF S
<1>2. /\ Append(s, v) \in Seq(S) /\ Append(s, v) # <<>>
      /\ Len(Append(s, v)) = Len(s) + 1
      /\ \A n \in 1 .. Len(s) : Append(s, v)[n] = s[n]
      /\ Append(s, v)[Len(s) + 1] = v
  BY <1>1, AppendProperties
<1> QED
  BY <1>2, SeqOfAnything

LEMMA SeqExcept ==
    ASSUME NEW s, NEW v, IsSeq(s), NEW m \in 1 .. Len(s)
    PROVE  /\ IsSeq([s EXCEPT ![m] = v])
           /\ Len([s EXCEPT ![m] = v]) = Len(s)
           /\ \A n \in 1 .. Len(s) : [s EXCEPT ![m] = v][n] = IF n = m THEN v ELSE s[n]
<1> DEFINE S == {s[n] : n \in DOMAIN s} \cup {v}
<1>1. s \in Seq(S) /\ v \in S
  <2>1. s \in Seq({s[n] : n \in DOMAIN s})
    BY DEF IsSeq
  <2> QED
    BY <2>1, SeqMonotonic
<1> HIDE DEF S
<1>2. /\ [s EXCEPT ![m] = v] \in Seq(S)
      /\ Len([s EXCEPT ![m] = v]) = Len(s)
      /\ \A n \in 1 .. Len(s) : [s EXCEPT ![m] = v][n] = IF n = m THEN v ELSE s[n]
  BY <1>1, ExceptSeq
<1> QED
  BY <1>2, SeqOfAnything

LEMMA SeqFront ==
    ASSUME NEW s, IsSeq(s), Len(s) > 0
    PROVE  /\ IsSeq(SubSeq(s, 1, Len(s) - 1))
           /\ Len(SubSeq(s, 1, Len(s) - 1)) = Len(s) - 1
           /\ \A n \in 1 .. Len(s) - 1 : SubSeq(s, 1, Len(s) - 1)[n] = s[n]
<1>0. PICK k \in Nat : k = Len(s) - 1
  BY SeqLength
<1>1. \A n \in 1 .. k : s[n] \in {s[j] : j \in DOMAIN s}
  BY <1>0, SeqLength
<1>2. /\ SubSeq(s, 1, k) \in Seq({s[j] : j \in DOMAIN s})
      /\ Len(SubSeq(s, 1, k)) = IF 1 <= k THEN k - 1 + 1 ELSE 0
      /\ \A n \in 1 .. k - 1 + 1 : SubSeq(s, 1, k)[n] = s[1 + n - 1]
  BY <1>1, SubSeqProperties
<1>3. IsSeq(SubSeq(s, 1, k))
  BY <1>2, SeqOfAnything
<1>4. Len(SubSeq(s, 1, k)) = k
  BY <1>2
<1>5. \A n \in 1 .. k : SubSeq(s, 1, k)[n] = s[n]
  <2> TAKE n \in 1 .. k
  <2>1. n \in 1 .. k - 1 + 1 /\ 1 + n - 1 = n
    OBVIOUS
  <2> QED
    BY <1>2, <2>1
<1> QED
  BY <1>0, <1>3, <1>4, <1>5

-----------------------------------------------------------------------------
(* The operations on the stack of open arrays.                                *)
LEMMA EmptyLevel == IsLevel(Arr(<<>>))
BY SeqEmpty DEF IsLevel, Arr

LEMMA FullerLevel ==
    ASSUME NEW v, IsLevel(v), NEW w, w.type \in Types
    PROVE  IsLevel(Arr(Append(v.elems, w)))
<1>1. /\ IsSeq(v.elems) /\ DOMAIN v.elems = 1 .. Len(v.elems) /\ Len(v.elems) \in Nat
      /\ \A m \in DOMAIN v.elems : v.elems[m].type \in Types
  BY SeqLength DEF IsLevel
<1>2. PICK e : e = Append(v.elems, w)
  OBVIOUS
<1>3. /\ IsSeq(e) /\ DOMAIN e = 1 .. Len(v.elems) + 1
      /\ \A n \in 1 .. Len(v.elems) : e[n] = v.elems[n]
      /\ e[Len(v.elems) + 1] = w
  BY <1>1, <1>2, SeqAppend, SeqLength
<1>4. \A m \in DOMAIN e : e[m].type \in Types
  BY <1>1, <1>3
<1> QED
  BY <1>2, <1>3, <1>4 DEF IsLevel, Arr

LEMMA LevelsLength ==
    ASSUME NEW s, AreLevels(s)
    PROVE  /\ Len(s) \in Nat /\ Len(s) > 0 /\ DOMAIN s = 1 .. Len(s)
           /\ \A n \in DOMAIN s : s[n].type = "arr"
BY SeqLength DEF AreLevels, IsLevel, Arr

LEMMA LevelsOpen ==
    ASSUME NEW s, AreLevels(s)
    PROVE  /\ AreLevels(Append(s, Arr(<<>>))) /\ Append(s, Arr(<<>>))[1] = s[1]
           /\ Len(Append(s, Arr(<<>>))) = Len(s) + 1
<1>1. IsSeq(s) /\ Len(s) \in Nat /\ Len(s) > 0 /\ DOMAIN s = 1 .. Len(s)
  BY LevelsLength DEF AreLevels
<1>2. PICK e : e = Append(s, Arr(<<>>))
  OBVIOUS
<1>3. /\ IsSeq(e) /\ e # <<>> /\ DOMAIN e = 1 .. Len(s) + 1 /\ Len(e) = Len(s) + 1
      /\ \A n \in 1 .. Len(s) : e[n] = s[n]
      /\ e[Len(s) + 1] = Arr(<<>>)
  BY <1>1, <1>2, SeqAppend, SeqLength
<1>4. \A n \in DOMAIN e : IsLevel(e[n])
  BY <1>1, <1>3, EmptyLevel DEF AreLevels
<1> QED
  BY <1>1, <1>2, <1>3, <1>4 DEF AreLevels

LEMMA LevelsAdd ==
    ASSUME NEW s, AreLevels(s), NEW w, w.type \in Types
    PROVE  /\ AreLevels(AddTo(s, w)) /\ Len(AddTo(s, w)) = Len(s)
           /\ Len(s) > 1 => AddTo(s, w)[1] = s[1]
<1>0. IsSeq(s)
  BY DEF AreLevels
<1>1. Len(s) \in Nat /\ Len(s) > 0 /\ DOMAIN s = 1 .. Len(s)
  BY LevelsLength
<1>2. PICK v : v = Arr(Append(s[Len(s)].elems, w))
  OBVIOUS
<1>3. PICK e : e = [s EXCEPT ![Len(s)] = v]
  OBVIOUS
<1>4. e = AddTo(s, w)
  BY <1>2, <1>3 DEF AddTo
<1>5. IsLevel(v)
  BY <1>1, <1>2, FullerLevel DEF AreLevels
<1>6. Len(s) \in 1 .. Len(s)
  BY <1>1
<1>7. IsSeq(e)
  BY <1>0, <1>3, <1>6, SeqExcept
<1>11. /\ Len(e) = Len(s) /\ DOMAIN e = 1 .. Len(s)
       /\ \A n \in 1 .. Len(s) : e[n] = IF n = Len(s) THEN v ELSE s[n]
  BY <1>0, <1>3, <1>6, <1>7, SeqExcept, SeqLength
<1>8. e # <<>>
  <2>1. Len(<<>>) = 0
    BY SeqEmpty
  <2>2. Len(e) = Len(s)
    BY <1>11
  <2> QED
    BY <1>1, <2>1, <2>2
<1>9. \A n \in DOMAIN e : IsLevel(e[n])
  BY <1>1, <1>5, <1>11 DEF AreLevels
<1>10. ASSUME Len(s) > 1
       PROVE  e[1] = s[1]
  <2>1. 1 \in 1 .. Len(s) /\ 1 # Len(s)
    BY <1>1, <1>10
  <2> QED
    BY <1>11, <2>1
<1> QED
  BY <1>4, <1>7, <1>11, <1>8, <1>9, <1>10 DEF AreLevels

LEMMA LevelsPop ==
    ASSUME NEW s, AreLevels(s), Len(s) # 1
    PROVE  /\ AreLevels(SubSeq(s, 1, Len(s) - 1)) /\ SubSeq(s, 1, Len(s) - 1)[1] = s[1]
           /\ Len(SubSeq(s, 1, Len(s) - 1)) = Len(s) - 1
<1>0. IsSeq(s)
  BY DEF AreLevels
<1>6. Len(s) \in Nat /\ Len(s) > 0 /\ DOMAIN s = 1 .. Len(s)
  BY LevelsLength
<1>1. Len(s) \in Nat /\ Len(s) > 1 /\ DOMAIN s = 1 .. Len(s)
  BY <1>6
<1>2. PICK e : e = SubSeq(s, 1, Len(s) - 1)
  OBVIOUS
<1>7. IsSeq(e)
  BY <1>0, <1>2, <1>6, SeqFront
<1>3. /\ Len(e) = Len(s) - 1 /\ DOMAIN e = 1 .. Len(s) - 1
      /\ \A n \in 1 .. Len(s) - 1 : e[n] = s[n]
  BY <1>0, <1>2, <1>6, <1>7, SeqFront, SeqLength
<1>4. e # <<>>
  <2>1. Len(<<>>) = 0
    BY SeqEmpty
  <2> QED
    BY <1>1, <1>3, <2>1
<1>5. \A n \in DOMAIN e : IsLevel(e[n])
  BY <1>1, <1>3 DEF AreLevels
<1> QED
  BY <1>1, <1>2, <1>3, <1>4, <1>5, <1>7 DEF AreLevels

-----------------------------------------------------------------------------
(* SKIP_SPACES stops at the end or in front of something else.                *)
LEMMA DocLength == ASSUME IndInv PROVE Len(doc) \in Nat
BY LenProperties DEF IndInv

LEMMA SpacesSkipped ==
    ASSUME doc \in Seq(Tokens), NEW j \in 0 .. Len(doc)
    PROVE  AfterSpaces(j) \in j .. Len(doc)
<1>0. PICK L \in Nat : L = Len(doc)
  BY LenProperties
<1>1. j \in Nat /\ j <= L
  BY <1>0
<1> DEFINE T == {k \in j .. L : k < L => doc[k + 1].tag # " "}
<1>2. L \in T /\ T \in SUBSET Nat
  <2>1. L \in j .. L /\ ~(L < L) /\ j .. L \in SUBSET Nat
    BY <1>1
  <2> QED
    BY <2>1
<1>3. PICK k \in T : \A m \in T : k <= m
  BY <1>2, LeastOffset
<1>4. k \in j .. L /\ (k < L => doc[k + 1].tag # " ")
  BY <1>3
<1> HIDE DEF T
<1>5. \A m \in j + 1 .. k : doc[m].tag = " "
  <2> TAKE m \in j + 1 .. k
  <2>1. PICK n \in j .. L : n + 1 = m /\ n < L /\ ~(k <= n)
    <3>1. k \in j .. L
      BY <1>4
    <3>2. m - 1 \in j .. L /\ m - 1 + 1 = m /\ m - 1 < L /\ ~(k <= m - 1)
      BY <1>1, <3>1
    <3> QED
      BY <3>2
  <2>2. n \notin T
    BY <1>3, <2>1
  <2> QED
    BY <2>1, <2>2 DEF T
<1> QED
  BY <1>0, <1>4, <1>5 DEF AfterSpaces

(* The round's token is in the text, behind it is a position.                 *)
LEMMA RoundsToken ==
    ASSUME IndInv, NEW tags, Found(tags)
    PROVE  /\ at = "loop" /\ ~inside /\ Len(doc) \in Nat
           /\ Behind \in 1 .. Len(doc) /\ Behind - 1 \in 0 .. Len(doc)
           /\ Upcoming.tag \in tags
           /\ AreLevels(stack) /\ (Len(stack) = 1 => stack[1].elems = <<>>)
           /\ nson = Nil /\ old_top = Nil /\ TagRestored
<1>1. Len(doc) \in Nat /\ i \in 0 .. Len(doc) /\ doc \in Seq(Tokens)
  BY DocLength DEF IndInv, TypeOK
<1>2. AfterSpaces(i) \in i .. Len(doc) /\ AfterSpaces(i) < Len(doc)
  BY <1>1, SpacesSkipped DEF Found
<1>3. at = "loop" /\ ~inside /\ Upcoming.tag \in tags
  BY DEF Found
<1>4. AreLevels(stack) /\ (Len(stack) = 1 => stack[1].elems = <<>>)
  BY <1>3 DEF IndInv, Levels
<1>5. nson = Nil /\ old_top = Nil /\ TagRestored
  BY <1>3 DEF IndInv
<1>6. Behind \in 1 .. Len(doc) /\ Behind - 1 \in 0 .. Len(doc)
  BY <1>1, <1>2 DEF Behind
<1> QED
  BY <1>1, <1>3, <1>4, <1>5, <1>6

(* The parts that a step of the loop leaves as they are.                      *)
LEMMA NothingRead ==
    ASSUME IndInv, at = "loop"
    PROVE  /\ Len(doc) \in Nat /\ doc \in Seq(Tokens) /\ nson = Nil /\ old_top = Nil
           /\ i \in 0 .. Len(doc) /\ rv \in -1 .. Len(doc) /\ inside \in BOOLEAN
           /\ string_tag \in {"string", "key"} /\ calls \in 0 .. Calls /\ refused \in BOOLEAN
           /\ 0 \in -1 .. Len(doc) /\ -1 \in -1 .. Len(doc)
BY DocLength DEF IndInv, TypeOK

(* A round: outside of tokens every level is an array, and the text of a      *)
(* string leaves the tag as it was or restores it.                            *)
LEMMA GoesInv ==
    ASSUME IndInv, at = "loop",
           NEW s, NEW j \in 0 .. Len(doc), NEW within \in BOOLEAN, NEW result \in -1 .. Len(doc),
           Goes(s, j, within, result), UNCHANGED old_top,
           string_tag' \in {"string", "key"},
           ~within => AreLevels(s) /\ TagRestored',
           within => \A n \in DOMAIN s : s[n].type = "arr" \/ n = Len(s)
    PROVE  IndInv'
<1>1. /\ stack' = s /\ i' = j /\ inside' = within /\ rv' = result
      /\ at' = IF Len(s) > 1 /\ (j < Len(doc) \/ within) THEN "loop" ELSE "end"
      /\ doc' = doc /\ nson' = nson /\ calls' = calls /\ refused' = refused /\ old_top' = old_top
  BY DEF Goes
<1>2. /\ Len(doc) \in Nat /\ doc \in Seq(Tokens) /\ nson = Nil /\ old_top = Nil
      /\ calls \in 0 .. Calls /\ refused \in BOOLEAN
  BY NothingRead
<1>3. \A n \in DOMAIN s : s[n].type = "arr" \/ (within /\ n = Len(s))
  BY LevelsLength
<1>4. at' \in {"loop", "end"} /\ (at' = "loop" => Len(s) > 1)
  BY <1>1
<1>5. TypeOK'
  <2>1. nson'.type = "nil" /\ old_top'.type = "nil"
    BY <1>1, <1>2 DEF Nil
  <2> QED
    BY <1>1, <1>2, <1>3, <1>4, <2>1 DEF TypeOK
<1>6. NothingLeaks'
  BY <1>1, <1>2 DEF NothingLeaks, Nil
<1>7. ~inside' => Levels'
  <2>1. at' = "loop" => Len(s) # 1
    <3>1. Len(s) > 1 => Len(s) # 1
      OBVIOUS
    <3> QED
      BY <1>4, <3>1
  <2> QED
    BY <1>1, <2>1 DEF Levels
<1> QED
  BY <1>1, <1>2, <1>4, <1>5, <1>6, <1>7 DEF IndInv, Nil

(* A token that was read, and one that the position stays inside of.          *)
LEMMA RoundInv ==
    ASSUME IndInv, NEW tags, Found(tags), NEW s, AreLevels(s),
           NEW result \in {0, 1}, Goes(s, Behind, FALSE, result), UNCHANGED old_top,
           string_tag' \in {string_tag, "string"}
    PROVE  IndInv'
<1>1. /\ at = "loop" /\ Len(doc) \in Nat /\ Behind \in 1 .. Len(doc) /\ TagRestored
  BY RoundsToken
<1>2. Behind \in 0 .. Len(doc) /\ result \in -1 .. Len(doc)
  BY <1>1
<1>3. TagRestored' /\ string_tag' \in {"string", "key"}
  BY <1>1 DEF TagRestored, Goes, IndInv, TypeOK
<1> QED
  BY <1>1, <1>2, <1>3, GoesInv

LEMMA StaysInv ==
    ASSUME IndInv, NEW tags, Found(tags), NEW s, \A n \in DOMAIN s : s[n].type = "arr" \/ n = Len(s),
           NEW result \in {-1, 0, rv}, Stays(s, result), UNCHANGED old_top,
           string_tag' \in {string_tag, "key"}
    PROVE  IndInv'
<1>1. at = "loop" /\ Behind - 1 \in 0 .. Len(doc)
  BY RoundsToken
<1>2. result \in -1 .. Len(doc) /\ string_tag' \in {"string", "key"}
  BY <1>1, NothingRead
<1> QED
  BY <1>1, <1>2, GoesInv DEF Stays

LEMMA FailInv ==
    ASSUME IndInv, at = "loop", NEW result \in {-1, rv}, Fail(result), UNCHANGED old_top,
           string_tag' \in {string_tag, "key"}
    PROVE  IndInv'
<1>1. /\ rv' = result /\ at' = "out" /\ doc' = doc /\ i' = i /\ inside' = inside /\ stack' = stack
      /\ nson' = nson /\ calls' = calls /\ refused' = refused /\ old_top' = old_top
  BY DEF Fail
<1>2. nson = Nil /\ old_top = Nil /\ rv' \in -1 .. Len(doc) /\ string_tag' \in {"string", "key"}
  BY <1>1, NothingRead
<1>3. TypeOK'
  BY <1>1, <1>2 DEF IndInv, TypeOK
<1>4. NothingLeaks'
  BY <1>1, <1>2 DEF NothingLeaks
<1> QED
  BY <1>1, <1>2, <1>3, <1>4 DEF IndInv, Nil

-----------------------------------------------------------------------------
(* What each action leaves.                                                   *)
LEMMA CallInv == ASSUME IndInv, Call PROVE IndInv'
<1>1. PICK d \in IF calls = 0 THEN Docs ELSE LaterDocs : CallOn(d)
  BY DEF Call
<1>2. /\ at \in {"idle", "returned"} /\ doc' = d /\ i' = 0 /\ inside' = FALSE
      /\ stack' = <<>> /\ old_top' = Nil /\ at' = "begin" /\ rv' = 0 /\ nson' = Nil
      /\ calls < Calls /\ calls' = calls + 1 /\ string_tag' = string_tag
      /\ refused' = (refused \/ (at = "returned" /\ nson = Nil))
  BY <1>1 DEF CallOn
<1>3. d \in Seq(Tokens) /\ Len(d) \in Nat
  BY <1>1, PlistInstance, LenProperties DEF IsDocument
<1>4. calls' \in 0 .. Calls
  <2>1. calls \in 0 .. Calls /\ Calls \in Nat
    BY PlistInstance DEF IndInv, TypeOK
  <2> QED
    BY <1>2, <2>1
<1>5. refused' \in BOOLEAN /\ string_tag \in {"string", "key"} /\ refused \in BOOLEAN
  BY <1>2 DEF IndInv, TypeOK
<1>6. TagRestored'
  BY <1>2, <1>5 DEF IndInv, TagRestored
<1>7. TypeOK'
  <2>1. 0 \in 0 .. Len(d) /\ 0 \in -1 .. Len(d)
    BY <1>3
  <2>2. DOMAIN stack' = {} /\ nson'.type = "nil" /\ old_top'.type = "nil"
    BY <1>2, SeqEmpty DEF Nil
  <2> QED
    BY <1>2, <1>4, <1>5, <2>1, <2>2 DEF TypeOK
<1> QED
  BY <1>2, <1>3, <1>6, <1>7 DEF IndInv, NothingLeaks

LEMMA HeaderInv == ASSUME IndInv, Header PROVE IndInv'
<1>1. /\ at = "begin" /\ UNCHANGED <<doc, inside, old_top, nson, string_tag, calls, refused>>
      /\ nson = Nil /\ old_top = Nil /\ TagRestored /\ ~inside
  BY DEF Header, IndInv
<1>2. Len(doc) \in Nat /\ i \in 0 .. Len(doc)
  BY DocLength DEF IndInv, TypeOK
<1>3. CASE rv' = -1 /\ at' = "returned" /\ UNCHANGED <<i, stack>>
  <2>1. -1 \in -1 .. Len(doc)
    BY <1>2
  <2>2. TypeOK'
    BY <1>1, <1>3, <2>1 DEF IndInv, TypeOK
  <2>3. NothingLeaks'
    BY <1>1 DEF NothingLeaks
  <2> QED
    BY <1>1, <1>3, <2>2, <2>3 DEF IndInv
<1>4. CASE ~(rv' = -1 /\ at' = "returned" /\ UNCHANGED <<i, stack>>)
  <2>1. PICK second, third :
           /\ second = AfterSpaces(1) /\ third = AfterSpaces(second + 1)
           /\ Has(0, "?xml") /\ Has(second, "!DOCTYPE") /\ Has(third, "plist")
           /\ i' = third + 1 /\ rv' = 1 /\ stack' = <<Arr(<<>>)>> /\ at' = "loop"
    BY <1>4 DEF Header
  <2>2. doc \in Seq(Tokens) /\ 1 \in 0 .. Len(doc)
    BY <1>2, <2>1 DEF Has, IndInv
  <2>3. second \in 1 .. Len(doc) /\ second < Len(doc)
    BY <2>1, <2>2, SpacesSkipped DEF Has
  <2>4. second + 1 \in 0 .. Len(doc)
    BY <1>2, <2>3
  <2>5. third \in second + 1 .. Len(doc) /\ third < Len(doc)
    BY <2>1, <2>2, <2>4, SpacesSkipped DEF Has
  <2>6. i' \in 0 .. Len(doc) /\ rv' \in -1 .. Len(doc)
    BY <1>2, <2>1, <2>3, <2>5
  <2>7. AreLevels(stack') /\ stack'[1].elems = <<>> /\ stack'[1].type = "arr" /\ DOMAIN stack' = 1 .. 1
    <3>1. PICK b : b = Arr(<<>>)
      OBVIOUS
    <3>2. <<b>> \in Seq({b}) /\ Len(<<b>>) = 1 /\ <<b>>[1] = b
      OBVIOUS
    <3>3. IsSeq(<<b>>) /\ DOMAIN <<b>> = 1 .. 1 /\ <<b>> # <<>>
      BY <3>2, SeqOfAnything
    <3>4. IsLevel(b) /\ b.type = "arr" /\ b.elems = <<>>
      BY <3>1, EmptyLevel DEF Arr
    <3> QED
      BY <2>1, <3>1, <3>2, <3>3, <3>4 DEF AreLevels
  <2>8. TypeOK'
    BY <1>1, <2>1, <2>6, <2>7 DEF IndInv, TypeOK
  <2>9. NothingLeaks' /\ TagRestored' /\ Levels'
    BY <1>1, <2>7 DEF NothingLeaks, TagRestored, Levels
  <2> QED
    BY <1>1, <2>1, <2>8, <2>9 DEF IndInv
<1> QED
  BY <1>3, <1>4

LEMMA NoTagInv == ASSUME IndInv, NoTag PROVE IndInv'
BY FailInv DEF NoTag

LEMMA StrayInv == ASSUME IndInv, Stray PROVE IndInv'
<1>1. Found({"stray"}) /\ UNCHANGED <<old_top, string_tag>>
  BY DEF Stray
<1>2. /\ at = "loop" /\ AreLevels(stack) /\ TagRestored /\ Behind \in 0 .. Len(doc)
      /\ rv \in -1 .. Len(doc) /\ string_tag \in {"string", "key"}
  BY <1>1, RoundsToken, NothingRead
<1>3. CASE Fail(rv)
  BY <1>1, <1>2, <1>3, FailInv
<1>4. CASE Goes(stack, Behind, FALSE, rv)
  <2>1. TagRestored'
    BY <1>1, <1>2, <1>4 DEF TagRestored, Goes
  <2> QED
    BY <1>1, <1>2, <1>4, <2>1, GoesInv
<1> QED
  BY <1>3, <1>4 DEF Stray

LEMMA UnreadInv == ASSUME IndInv, Unread PROVE IndInv'
<1> DEFINE tags == {"?xml", "!DOCTYPE", "plist", "/plist", "other", "/other", "kind", "cut"}
<1>1. Found(tags) /\ UNCHANGED old_top
  BY DEF Unread
<1>2. string_tag' \in {string_tag, "key"}
  BY DEF Unread
<1>3. PICK result \in {-1, 0, rv} : Stays(stack, result)
  BY DEF Unread
<1>4. \A n \in DOMAIN stack : stack[n].type = "arr" \/ n = Len(stack)
  BY DEF IndInv, TypeOK
<1> HIDE DEF tags
<1> QED
  BY <1>1, <1>2, <1>3, <1>4, StaysInv

LEMMA OpenInv == ASSUME IndInv, Open PROVE IndInv'
<1>1. Found({"array", "dict"}) /\ Round(Append(stack, Arr(<<>>))) /\ UNCHANGED <<old_top, string_tag>>
  BY DEF Open
<1>2. AreLevels(Append(stack, Arr(<<>>)))
  BY <1>1, RoundsToken, LevelsOpen
<1> QED
  BY <1>1, <1>2, RoundInv DEF Round

(* A value that was read is added to the top.                                 *)
LEMMA AddInv ==
    ASSUME IndInv, NEW tags, Found(tags), NEW v, v.type \in Types, Round(AddTo(stack, v)),
           UNCHANGED old_top, string_tag' \in {string_tag, "string"}
    PROVE  IndInv'
<1>1. AreLevels(AddTo(stack, v))
  BY RoundsToken, LevelsAdd
<1> QED
  BY <1>1, RoundInv DEF Round

LEMMA BooleanInv == ASSUME IndInv, Boolean PROVE IndInv'
<1>1. PICK v : v = BoolVal(Upcoming.tag = "true")
  OBVIOUS
<1>2. v.type \in Types
  BY <1>1 DEF BoolVal, Types
<1>3. Found({"true", "false"}) /\ Round(AddTo(stack, v)) /\ UNCHANGED <<old_top, string_tag>>
  BY <1>1 DEF Boolean
<1> QED
  BY <1>2, <1>3, AddInv

LEMMA DataInv == ASSUME IndInv, Data PROVE IndInv'
<1>1. Found({"data"}) /\ UNCHANGED <<old_top, string_tag>> /\ at = "loop"
  BY RoundsToken DEF Data
<1>2. CASE Fail(-1)
  BY <1>1, <1>2, FailInv
<1>3. CASE Round(AddTo(stack, BlobVal(ParseB64(Upcoming.text).bytes)))
  <2>1. PICK v : v = BlobVal(ParseB64(Upcoming.text).bytes)
    OBVIOUS
  <2>2. v.type \in Types
    BY <2>1 DEF BlobVal, Types
  <2> QED
    BY <1>1, <1>3, <2>1, <2>2, AddInv
<1> QED
  BY <1>2, <1>3 DEF Data

LEMMA StringInv == ASSUME IndInv, String PROVE IndInv'
<1>1. PICK expected \in {string_tag, "key"} :
         /\ Found({"string", "key"}) /\ UNCHANGED old_top
         /\ \/ Stays(stack, 0) /\ string_tag' = expected
            \/ Fail(-1) /\ string_tag' = expected
            \/ /\ at' = "crashed" /\ string_tag' = expected
               /\ UNCHANGED <<doc, i, inside, stack, rv, nson, calls, refused>>
            \/ Round(AddTo(stack, StrVal(ParseText(Upcoming.text).bytes))) /\ string_tag' = "string"
  BY DEF String
<1>2. at = "loop" /\ nson = Nil /\ old_top = Nil /\ string_tag' \in {"string", "key"}
  BY <1>1, RoundsToken, NothingRead
<1>3. CASE Stays(stack, 0) /\ string_tag' = expected
  <2>1. \A n \in DOMAIN stack : stack[n].type = "arr" \/ n = Len(stack)
    BY DEF IndInv, TypeOK
  <2> QED
    BY <1>1, <1>3, <2>1, StaysInv
<1>4. CASE Fail(-1) /\ string_tag' = expected
  BY <1>1, <1>2, <1>4, FailInv
<1>5. CASE /\ at' = "crashed" /\ string_tag' = expected
           /\ UNCHANGED <<doc, i, inside, stack, rv, nson, calls, refused>>
  <2>1. TypeOK'
    BY <1>1, <1>2, <1>5 DEF IndInv, TypeOK
  <2> QED
    BY <1>1, <1>2, <1>5, <2>1 DEF IndInv, NothingLeaks
<1>6. CASE Round(AddTo(stack, StrVal(ParseText(Upcoming.text).bytes))) /\ string_tag' = "string"
  <2>1. PICK v : v = StrVal(ParseText(Upcoming.text).bytes)
    OBVIOUS
  <2>2. v.type \in Types
    BY <2>1 DEF StrVal, Types
  <2> QED
    BY <1>1, <1>6, <2>1, <2>2, AddInv
<1> QED
  BY <1>1, <1>3, <1>4, <1>5, <1>6

(* Both readers of numbers; how long a number is makes no difference here.    *)
LEMMA NumberInv ==
    ASSUME IndInv, NEW tags, Found(tags), NEW v, v.type \in Types, NEW len,
           Number(AddTo(stack, v), len), UNCHANGED <<old_top, string_tag>>
    PROVE  IndInv'
<1>1. AreLevels(AddTo(stack, v))
  BY RoundsToken, LevelsAdd
<1>2. CASE Stays(AddTo(stack, v), 0)
  <2>1. \A n \in DOMAIN AddTo(stack, v) : AddTo(stack, v)[n].type = "arr"
    BY <1>1, LevelsLength
  <2> QED
    BY <1>2, <2>1, StaysInv
<1>3. CASE \E result \in {0, 1} : Goes(AddTo(stack, v), Behind, FALSE, result)
  BY <1>1, <1>3, RoundInv
<1> QED
  BY <1>2, <1>3 DEF Number

LEMMA IntegerInv == ASSUME IndInv, IntegerNumber PROVE IndInv'
<1>1. PICK dev, v : dev = ParseDev(Append(Upcoming.text, Lt)) /\ v = IntVal(dev.val)
  OBVIOUS
<1>2. Found({"integer"}) /\ UNCHANGED <<old_top, string_tag>> /\ at = "loop"
  BY RoundsToken DEF IntegerNumber
<1>3. v.type \in Types
  BY <1>1 DEF IntVal, Types
<1>4. CASE Fail(-1)
  BY <1>2, <1>4, FailInv
<1>5. CASE Number(AddTo(stack, v), dev.len)
  BY <1>2, <1>3, <1>5, NumberInv
<1> QED
  BY <1>1, <1>4, <1>5 DEF IntegerNumber

LEMMA RealInv == ASSUME IndInv, RealNumber PROVE IndInv'
<1>1. Found({"real"}) /\ UNCHANGED <<old_top, string_tag>>
  BY DEF RealNumber
<1>2. PICK number, val :
         /\ number = ParseNumber(Append(Upcoming.text, Lt))
         /\ val = IF number.type = "int" THEN Scale * number.val ELSE number.val
  OBVIOUS
<1>3. PICK v : v = RealVal(val)
  OBVIOUS
<1>4. v.type \in Types
  BY <1>3 DEF RealVal, Types
<1>5. CASE Stays(stack, -1)
  <2>1. \A n \in DOMAIN stack : stack[n].type = "arr" \/ n = Len(stack)
    BY DEF IndInv, TypeOK
  <2> QED
    BY <1>1, <1>5, <2>1, StaysInv
<1>6. CASE Number(AddTo(stack, v), number.len)
  BY <1>1, <1>4, <1>6, NumberInv
<1> QED
  BY <1>2, <1>3, <1>5, <1>6 DEF RealNumber

(* A closing tag: the bottom is empty when it is closed, so nothing is lost   *)
(* with old_top.                                                              *)
LEMMA CloseInv ==
    ASSUME IndInv, NEW tags, Found(tags), NEW v \in {Top, Obj(Top.elems)}, CloseWith(v),
           UNCHANGED string_tag
    PROVE  IndInv'
<1>1. /\ at = "loop" /\ AreLevels(stack) /\ (Len(stack) = 1 => stack[1].elems = <<>>)
      /\ nson = Nil /\ Len(doc) \in Nat /\ Behind \in 1 .. Len(doc)
  BY RoundsToken
<1>2. v.type \in {"arr", "obj"} /\ v.elems = Top.elems
  <2>1. Top.type = "arr"
    BY <1>1, LevelsLength DEF Top
  <2>2. Obj(Top.elems).type = "obj" /\ Obj(Top.elems).elems = Top.elems
    BY DEF Obj
  <2> QED
    BY <2>1, <2>2
<1>3. CASE Len(stack) = 1
  <2>1. /\ stack' = <<>> /\ old_top' = v /\ rv' = 1 /\ at' = "out"
        /\ UNCHANGED <<doc, i, inside, nson, calls, refused>>
    BY <1>3 DEF CloseWith
  <2>2. old_top'.elems = <<>>
    BY <1>1, <1>2, <1>3, <2>1 DEF Top
  <2>3. TypeOK'
    <3>1. 1 \in -1 .. Len(doc)
      BY <1>1
    <3>2. DOMAIN stack' = {}
      BY <2>1, SeqEmpty
    <3> QED
      BY <1>2, <2>1, <3>1, <3>2 DEF IndInv, TypeOK
  <2> QED
    BY <1>1, <2>1, <2>2, <2>3 DEF IndInv, NothingLeaks
<1>4. CASE Len(stack) # 1
  <2>1. Round(AddTo(Below, v)) /\ UNCHANGED old_top
    BY <1>4 DEF CloseWith
  <2>2. AreLevels(AddTo(Below, v))
    BY <1>1, <1>2, <1>4, LevelsPop, LevelsAdd DEF Below, Types
  <2> QED
    BY <2>1, <2>2, RoundInv DEF Round
<1> QED
  BY <1>3, <1>4

LEMMA CloseArrayInv == ASSUME IndInv, CloseArray PROVE IndInv'
BY CloseInv DEF CloseArray

LEMMA CloseDictInv == ASSUME IndInv, CloseDict PROVE IndInv'
<1>1. Found({"/dict", "/d"}) /\ UNCHANGED string_tag /\ at = "loop" /\ AreLevels(stack)
  BY RoundsToken DEF CloseDict
<1>2. CASE Fail(rv) /\ UNCHANGED old_top
  BY <1>1, <1>2, FailInv
<1>3. CASE CloseWith(Obj(Top.elems))
  BY <1>1, <1>3, CloseInv
<1>4. CASE Stays(Append(Below, Obj(Top.elems)), 0) /\ UNCHANGED old_top
  <2>1. PICK s : s = Append(Below, Obj(Top.elems))
    OBVIOUS
  <2>2. /\ IsSeq(stack) /\ Len(stack) \in Nat /\ Len(stack) > 0 /\ DOMAIN stack = 1 .. Len(stack)
        /\ \A n \in DOMAIN stack : stack[n].type = "arr"
    BY <1>1, LevelsLength DEF AreLevels
  <2>3. /\ IsSeq(Below) /\ Len(Below) = Len(stack) - 1
        /\ \A n \in 1 .. Len(stack) - 1 : Below[n] = stack[n]
    BY <2>2, SeqFront DEF Below
  <2>4. IsSeq(s) /\ Len(s) = Len(stack) /\ \A n \in 1 .. Len(stack) - 1 : s[n] = stack[n]
    <3>1. /\ IsSeq(s) /\ Len(s) = Len(Below) + 1
          /\ \A n \in 1 .. Len(Below) : s[n] = Below[n]
      BY <2>1, <2>3, SeqAppend
    <3>2. Len(Below) + 1 = Len(stack)
      BY <2>2, <2>3
    <3> QED
      BY <2>3, <3>1, <3>2
  <2>5. \A n \in DOMAIN s : s[n].type = "arr" \/ n = Len(s)
    <3> TAKE n \in DOMAIN s
    <3>1. n \in 1 .. Len(stack)
      BY <2>4, SeqLength
    <3>2. n # Len(stack) => n \in 1 .. Len(stack) - 1
      BY <2>2, <3>1
    <3> QED
      BY <2>2, <2>4, <3>1, <3>2
  <2> QED
    BY <1>1, <1>4, <2>1, <2>5, StaysInv
<1> QED
  BY <1>2, <1>3, <1>4 DEF CloseDict

(* Behind the loop the value is handed out if the end tag follows.            *)
LEMMA FinishInv == ASSUME IndInv, Finish PROVE IndInv'
<1>1. /\ at = "end" /\ at' = "out" /\ UNCHANGED <<doc, inside, old_top, string_tag, calls, refused>>
      /\ nson = Nil /\ old_top = Nil
  BY DEF Finish, IndInv
<1>2. Len(doc) \in Nat /\ doc \in Seq(Tokens) /\ i \in 0 .. Len(doc)
  BY DocLength DEF IndInv, TypeOK
<1>3. PICK last : last = AfterSpaces(i)
  OBVIOUS
<1>4. last \in 0 .. Len(doc)
  BY <1>2, <1>3, SpacesSkipped
<1>5. NothingLeaks'
  BY <1>1 DEF NothingLeaks
<1>6. CASE Len(stack) = 1 /\ ~inside /\ Has(last, "/plist") /\ Top.elems # <<>>
  <2>1. /\ nson' = Head(Top.elems) /\ stack' = <<Arr(<<Nil>> \o Tail(Top.elems))>>
        /\ i' = last + 1 /\ rv' = last + 1
    BY <1>3, <1>6 DEF Finish
  <2>2. last + 1 \in 1 .. Len(doc) /\ doc[last + 1].tag = "/plist"
    BY <1>2, <1>4, <1>6 DEF Has
  <2>3. AreLevels(stack) /\ TagRestored
    BY <1>1, <1>6 DEF IndInv, Levels
  <2>4. nson'.type \in Types
    <3>1. IsLevel(Top)
      BY <1>6, <2>3, LevelsLength DEF AreLevels, Top
    <3>2. IsSeq(Top.elems)
      BY <3>1 DEF IsLevel
    <3>3. Head(Top.elems) = Top.elems[1] /\ 1 \in DOMAIN Top.elems
      BY <1>6, <3>2, SeqLength
    <3> QED
      BY <2>1, <3>1, <3>3 DEF IsLevel
  <2>5. \A n \in DOMAIN stack' : stack'[n].type = "arr"
    <3>1. PICK b : b = Arr(<<Nil>> \o Tail(Top.elems))
      OBVIOUS
    <3>2. DOMAIN <<b>> = 1 .. 1 /\ <<b>>[1] = b /\ b.type = "arr"
      BY <3>1 DEF Arr
    <3> QED
      BY <2>1, <3>1, <3>2
  <2>6. TypeOK'
    <3>1. i' \in 0 .. Len(doc) /\ rv' \in -1 .. Len(doc)
      BY <1>2, <2>1, <2>2
    <3> QED
      BY <1>1, <2>4, <2>5, <3>1 DEF IndInv, TypeOK, Types
  <2>7. ReadToEnd' /\ TagRestored'
    <3>1. DOMAIN doc = 1 .. Len(doc)
      BY <1>2, LenProperties
    <3> QED
      BY <1>1, <1>6, <2>1, <2>2, <2>3, <3>1 DEF ReadToEnd, TagRestored
  <2> QED
    BY <1>1, <1>2, <1>5, <2>6, <2>7 DEF IndInv
<1>7. CASE ~(Len(stack) = 1 /\ ~inside /\ Has(last, "/plist") /\ Top.elems # <<>>)
  <2>1. rv' \in {-1, 0} /\ UNCHANGED <<i, stack, nson>>
    BY <1>3, <1>7 DEF Finish
  <2>2. rv' \in -1 .. Len(doc)
    BY <1>2, <2>1
  <2>3. TypeOK'
    BY <1>1, <2>1, <2>2 DEF IndInv, TypeOK
  <2> QED
    BY <1>1, <1>2, <1>5, <2>1, <2>3 DEF IndInv
<1> QED
  BY <1>6, <1>7

LEMMA ReturnInv == ASSUME IndInv, Return PROVE IndInv'
<1>1. /\ at = "out" /\ at' = "returned" /\ stack' = <<>>
      /\ UNCHANGED <<doc, i, inside, old_top, rv, nson, string_tag, calls, refused>>
  BY DEF Return
<1>2. TypeOK'
  BY <1>1, SeqEmpty DEF IndInv, TypeOK
<1>3. NothingLeaks' /\ (ReadToEnd => ReadToEnd') /\ (TagRestored => TagRestored')
  BY <1>1 DEF IndInv, NothingLeaks, ReadToEnd, TagRestored
<1> QED
  BY <1>1, <1>2, <1>3 DEF IndInv

LEMMA StutterInv == ASSUME IndInv, UNCHANGED vars PROVE IndInv'
BY DEF IndInv, vars, parse, TypeOK, NothingLeaks, Levels, TagRestored, ReadToEnd

LEMMA InitInv == Init => IndInv
<1> SUFFICES ASSUME Init PROVE IndInv
  OBVIOUS
<1>1. /\ doc = <<>> /\ i = 0 /\ inside = FALSE /\ stack = <<>> /\ old_top = Nil /\ at = "idle"
      /\ rv = 0 /\ nson = Nil /\ string_tag = "string" /\ calls = 0 /\ refused = FALSE
  BY DEF Init
<1>2. doc \in Seq(Tokens) /\ Len(doc) = 0 /\ DOMAIN stack = {} /\ Calls \in Nat
  BY <1>1, EmptySeq, SeqEmpty, PlistInstance
<1>3. TypeOK
  <2>1. i \in 0 .. Len(doc) /\ rv \in -1 .. Len(doc) /\ calls \in 0 .. Calls
    BY <1>1, <1>2
  <2>2. nson.type = "nil" /\ old_top.type = "nil"
    BY <1>1 DEF Nil
  <2> QED
    BY <1>1, <1>2, <2>1, <2>2 DEF TypeOK
<1> QED
  BY <1>1, <1>2, <1>3 DEF IndInv, NothingLeaks

-----------------------------------------------------------------------------
(* nson_parse_plist, called any number of times: the invariant holds.         *)
THEOREM ParserInvariance == Spec => []IndInv
<1>1. IndInv /\ [Next]_vars => IndInv'
  BY CallInv, HeaderInv, NoTagInv, StrayInv, UnreadInv, OpenInv, BooleanInv, DataInv, StringInv,
     IntegerInv, RealInv, CloseArrayInv, CloseDictInv, FinishInv, ReturnInv, StutterInv DEF Next, Step
<1> QED
  BY <1>1, InitInv, PTL DEF Spec

(* The position stays in the text, and only a level that is left inside of a  *)
(* tag is no array.                                                           *)
THEOREM TypeCorrect == Spec => []TypeOK
<1>1. IndInv => TypeOK
  BY DEF IndInv
<1> QED
  BY <1>1, ParserInvariance, PTL

(* nson_parse_plist: `old_top' is not cleaned, and never holds a value.       *)
THEOREM NoLeak == Spec => []NothingLeaks
<1>1. IndInv => NothingLeaks
  BY DEF IndInv
<1> QED
  BY <1>1, ParserInvariance, PTL

(* A value is handed out only behind the end tag, with rv behind that; and    *)
(* as long as no call failed string_tag is what the next call needs.          *)
THEOREM ValueOnlyOnSuccess == Spec => []ValueMeansSuccess
<1>1. IndInv => ValueMeansSuccess
  BY DEF IndInv, ValueMeansSuccess, TagRestored
<1> QED
  BY <1>1, ParserInvariance, PTL

-----------------------------------------------------------------------------
(* base64_table has 64 different symbols, and none is the padding.            *)
LEMMA TableInjective ==
    ASSUME NEW v \in 0 .. 63
    PROVE  /\ Symbol(v) \in Symbols /\ Symbol(v) # Padding
           /\ \A w \in 0 .. 63 : Symbol(w) = Symbol(v) => w = v
BY DEF Symbol, Symbols, Padding

LEMMA TableInverse ==
    /\ \A v \in 0 .. 63 : ValueOf[Symbol(v)] = v
    /\ \A b \in Symbols : ValueOf[b] \in 0 .. 63
    /\ Padding \notin Symbols
<1>1. ASSUME NEW v \in 0 .. 63
      PROVE  ValueOf[Symbol(v)] = v
  <2>1. PICK b \in Symbols : b = Symbol(v)
    BY TableInjective
  <2>2. (CHOOSE w \in 0 .. 63 : Symbol(w) = b) = v
    BY <2>1, TableInjective
  <2>3. ValueOf[b] = CHOOSE w \in 0 .. 63 : Symbol(w) = b
    BY DEF ValueOf
  <2> QED
    BY <2>1, <2>2, <2>3
<1>2. ASSUME NEW b \in Symbols
      PROVE  ValueOf[b] \in 0 .. 63
  <2>1. PICK v \in 0 .. 63 : b = Symbol(v)
    BY DEF Symbols
  <2> QED
    BY <1>1, <2>1
<1>3. Padding \notin Symbols
  <2> SUFFICES ASSUME NEW v \in 0 .. 63 PROVE Padding # Symbol(v)
    BY DEF Symbols
  <2> QED
    BY TableInjective
<1> QED
  BY <1>1, <1>2, <1>3

(* Groups: three bytes stand behind four symbols.                             *)
LEMMA GroupOfByte ==
    ASSUME NEW k \in Nat, k > 0
    PROVE  \E q \in Nat, r \in {1, 2, 3} : k = (q * 3) + r /\ (k - 1) \div 3 = q /\ k % 3 = (IF r = 3 THEN 0 ELSE r)
<1>1. PICK q \in Nat, r \in {1, 2, 3} : k = (q * 3) + r
  <2>1. k - 1 \in Nat /\ k - 1 = (((k - 1) \div 3) * 3) + ((k - 1) % 3)
    OBVIOUS
  <2>2. (k - 1) \div 3 \in Nat /\ ((k - 1) % 3) + 1 \in {1, 2, 3}
    BY <2>1
  <2>3. k = (((k - 1) \div 3) * 3) + (((k - 1) % 3) + 1)
    BY <2>1, <2>2
  <2> QED
    BY <2>2, <2>3
<1>2. (k - 1) \div 3 = q /\ k % 3 = (IF r = 3 THEN 0 ELSE r)
  BY <1>1
<1> QED
  BY <1>1, <1>2

LEMMA GroupOfSymbol ==
    ASSUME NEW k \in Nat, k > 0
    PROVE  \E q \in Nat, r \in {1, 2, 3, 4} : k = (q * 4) + r /\ (k - 1) \div 4 = q /\ k % 4 = (IF r = 4 THEN 0 ELSE r)
<1>1. PICK q \in Nat, r \in {1, 2, 3, 4} : k = (q * 4) + r
  <2>1. k - 1 \in Nat /\ k - 1 = (((k - 1) \div 4) * 4) + ((k - 1) % 4)
    OBVIOUS
  <2>2. (k - 1) \div 4 \in Nat /\ ((k - 1) % 4) + 1 \in {1, 2, 3, 4}
    BY <2>1
  <2>3. k = (((k - 1) \div 4) * 4) + (((k - 1) % 4) + 1)
    BY <2>1, <2>2
  <2> QED
    BY <2>2, <2>3
<1>2. (k - 1) \div 4 = q /\ k % 4 = (IF r = 4 THEN 0 ELSE r)
  BY <1>1
<1> QED
  BY <1>1, <1>2

(* The length of what is encoded, in symbols and in bytes of padding.         *)
LEMMA EncodedLength ==
    ASSUME NEW L \in Nat, NEW m, m = (L * 4 + 2) \div 3
    PROVE  /\ m \in Nat /\ (m * 3) \div 4 = L
           /\ m + ((4 - (m % 4)) % 4) = ((L + 2) \div 3) * 4
           /\ (m + ((4 - (m % 4)) % 4)) % 4 = 0
           /\ (4 - (m % 4)) % 4 \in Nat
<1>1. PICK q \in Nat, r \in {0, 1, 2} : L = (q * 3) + r
  <2>1. L = ((L \div 3) * 3) + (L % 3) /\ L \div 3 \in Nat /\ L % 3 \in {0, 1, 2}
    OBVIOUS
  <2> QED
    BY <2>1
<1>2. CASE r = 0
  <2>1. m = q * 4 /\ (L + 2) \div 3 = q
    BY <1>1, <1>2
  <2>2. m % 4 = 0 /\ (m * 3) \div 4 = L
    BY <1>1, <1>2, <2>1
  <2> QED
    BY <2>1, <2>2
<1>3. CASE r = 1
  <2>1. m = (q * 4) + 2 /\ (L + 2) \div 3 = q + 1
    BY <1>1, <1>3
  <2>2. m % 4 = 2 /\ (m * 3) \div 4 = L
    BY <1>1, <1>3, <2>1
  <2> QED
    BY <2>1, <2>2
<1>4. CASE r = 2
  <2>1. m = (q * 4) + 3 /\ (L + 2) \div 3 = q + 1
    BY <1>1, <1>4
  <2>2. m % 4 = 3 /\ (m * 3) \div 4 = L
    BY <1>1, <1>4, <2>1
  <2> QED
    BY <2>1, <2>2
<1> QED
  BY <1>1, <1>2, <1>3, <1>4
(* A byte that is no negative char is joined as it is.                        *)
LEMMA JoinedBits ==
    ASSUME NEW left \in Nat, NEW b \in 0 .. 255, ~IsNegative(b)
    PROVE  /\ Joined(left, b, 16) = left + (b \div 16)
           /\ Joined(left, b, 4) = left + (b \div 64)
<1>1. (IF IsNegative(b) THEN 64 - 16 ELSE left) = left /\ (IF IsNegative(b) THEN 64 - 4 ELSE left) = left
  OBVIOUS
<1>2. Joined(left, b, 16) = (b \div (256 \div 16)) + left /\ Joined(left, b, 4) = (b \div (256 \div 4)) + left
  BY <1>1 DEF Joined
<1>3. 256 \div 16 = 16 /\ 256 \div 4 = 64
  OBVIOUS
<1> QED
  BY <1>2, <1>3

(* Each symbol carries six bits of the one or two bytes it stands for.        *)
LEMMA SextetBits ==
    ASSUME NEW s \in Seq(Bytes), ReadableBlob(s), NEW k \in 1 .. SymbolCount(s),
           NEW q \in Nat, NEW r \in {1, 2, 3, 4}, k = (q * 4) + r
    PROVE  /\ r = 1 => /\ (q * 3) + 1 <= Len(s)
                       /\ Sextet(s, k) = s[(q * 3) + 1] \div 4
           /\ r = 2 => /\ (q * 3) + 1 <= Len(s)
                       /\ Sextet(s, k) = ((s[(q * 3) + 1] % 4) * 16)
                              + (IF (q * 3) + 2 <= Len(s) THEN s[(q * 3) + 2] \div 16 ELSE 0)
           /\ r = 3 => /\ (q * 3) + 2 <= Len(s)
                       /\ Sextet(s, k) = ((s[(q * 3) + 2] % 16) * 4)
                              + (IF (q * 3) + 3 <= Len(s) THEN s[(q * 3) + 3] \div 64 ELSE 0)
           /\ r = 4 => /\ (q * 3) + 3 <= Len(s)
                       /\ Sextet(s, k) = s[(q * 3) + 3] % 64
<1>1. PICK L \in Nat : L = Len(s)
  BY LenProperties
<1>2. k \in Nat /\ k > 0 /\ k <= (L * 4 + 2) \div 3
  BY <1>1 DEF SymbolCount
<1>3. PICK n \in Nat : n = q * 3 /\ ((k - 1) \div 4) * 3 = n
  <2>1. (k - 1) \div 4 = q
    OBVIOUS
  <2> QED
    BY <2>1
<1>4. /\ r = 1 => n + 1 <= L /\ k % 4 = 1
      /\ r = 2 => n + 1 <= L /\ k % 4 = 2
      /\ r = 3 => n + 2 <= L /\ k % 4 = 3
      /\ r = 4 => n + 3 <= L /\ k % 4 = 0
  BY <1>1, <1>2, <1>3
<1>5. \A j \in 1 .. L : s[j] \in 0 .. 255
  BY <1>1, LenProperties DEF Bytes
<1>6. \A j \in 1 .. L : j % 3 # 1 => ~IsNegative(s[j])
  BY <1>1, LenProperties DEF ReadableBlob
<1>7. ASSUME NEW left \in Nat, NEW j \in {n + 2, n + 3}, j <= L
      PROVE  /\ Joined(left, s[j], 16) = left + (s[j] \div 16)
             /\ Joined(left, s[j], 4) = left + (s[j] \div 64)
  <2>1. j \in 1 .. L /\ j % 3 # 1
    BY <1>3, <1>7
  <2> QED
    BY <1>5, <1>6, <2>1, JoinedBits
<1>8. CASE r = 1
  <2>1. Sextet(s, k) = s[n + 1] \div 4
    BY <1>3, <1>4, <1>8 DEF Sextet
  <2> QED
    BY <1>1, <1>3, <1>4, <1>8, <2>1
<1>9. CASE r = 2
  <2>1. s[n + 1] \in 0 .. 255
    BY <1>3, <1>4, <1>5, <1>9
  <2>2. PICK left \in Nat : left = (s[n + 1] % 4) * 16
    <3>1. \A b \in 0 .. 255 : (b % 4) * 16 \in Nat
      OBVIOUS
    <3> QED
      BY <2>1, <3>1
  <2>3. Sextet(s, k) = IF n + 2 <= L THEN Joined(left, s[n + 2], 16) ELSE left
    BY <1>1, <1>3, <1>4, <1>9, <2>2 DEF Sextet
  <2>4. Sextet(s, k) = left + (IF n + 2 <= L THEN s[n + 2] \div 16 ELSE 0)
    BY <1>3, <1>7, <2>3
  <2> QED
    BY <1>1, <1>3, <1>4, <1>9, <2>2, <2>4
<1>10. CASE r = 3
  <2>1. s[n + 2] \in 0 .. 255
    BY <1>3, <1>4, <1>5, <1>10
  <2>2. PICK left \in Nat : left = (s[n + 2] % 16) * 4
    <3>1. \A b \in 0 .. 255 : (b % 16) * 4 \in Nat
      OBVIOUS
    <3> QED
      BY <2>1, <3>1
  <2>3. Sextet(s, k) = IF n + 3 <= L THEN Joined(left, s[n + 3], 4) ELSE left
    BY <1>1, <1>3, <1>4, <1>10, <2>2 DEF Sextet
  <2>4. Sextet(s, k) = left + (IF n + 3 <= L THEN s[n + 3] \div 64 ELSE 0)
    BY <1>3, <1>7, <2>3
  <2> QED
    BY <1>1, <1>3, <1>4, <1>10, <2>2, <2>4
<1>11. CASE r = 4
  <2>1. Sextet(s, k) = s[n + 3] % 64
    BY <1>3, <1>4, <1>11 DEF Sextet
  <2> QED
    BY <1>1, <1>3, <1>4, <1>11, <2>1
<1> QED
  BY <1>8, <1>9, <1>10, <1>11
LEMMA SextetRange ==
    ASSUME NEW s \in Seq(Bytes), ReadableBlob(s), NEW k \in 1 .. SymbolCount(s)
    PROVE  Sextet(s, k) \in 0 .. 63
<1>1. PICK L \in Nat : L = Len(s) /\ k \in Nat /\ k > 0
  BY LenProperties DEF SymbolCount
<1>2. PICK q \in Nat, r \in {1, 2, 3, 4} : k = (q * 4) + r
  BY <1>1, GroupOfSymbol
<1>3. PICK n \in Nat : n = q * 3
  OBVIOUS
<1>4. \A j \in 1 .. L : s[j] \in 0 .. 255
  BY <1>1, LenProperties DEF Bytes
<1>5. /\ r = 1 => n + 1 <= L /\ Sextet(s, k) = s[n + 1] \div 4
      /\ r = 2 => n + 1 <= L /\ Sextet(s, k) = ((s[n + 1] % 4) * 16) + (IF n + 2 <= L THEN s[n + 2] \div 16 ELSE 0)
      /\ r = 3 => n + 2 <= L /\ Sextet(s, k) = ((s[n + 2] % 16) * 4) + (IF n + 3 <= L THEN s[n + 3] \div 64 ELSE 0)
      /\ r = 4 => n + 3 <= L /\ Sextet(s, k) = s[n + 3] % 64
  BY <1>1, <1>2, <1>3, SextetBits
<1>6. CASE r = 1
  <2>1. PICK b \in 0 .. 255 : b = s[n + 1]
    BY <1>4, <1>5, <1>6
  <2>2. Sextet(s, k) = b \div 4
    BY <1>5, <1>6, <2>1
  <2> QED
    BY <2>2
<1>7. CASE r = 2
  <2>1. PICK b \in 0 .. 255 : b = s[n + 1]
    BY <1>4, <1>5, <1>7
  <2>2. \E c \in 0 .. 255 : c \div 16 = IF n + 2 <= L THEN s[n + 2] \div 16 ELSE 0
    <3>1. n + 2 <= L => s[n + 2] \in 0 .. 255
      BY <1>4
    <3>2. 0 \in 0 .. 255 /\ 0 \div 16 = 0
      OBVIOUS
    <3> QED
      BY <3>1, <3>2
  <2>3. PICK c \in 0 .. 255 : c \div 16 = IF n + 2 <= L THEN s[n + 2] \div 16 ELSE 0
    BY <2>2
  <2>4. Sextet(s, k) = ((b % 4) * 16) + (c \div 16)
    BY <1>5, <1>7, <2>1, <2>3
  <2> QED
    BY <2>4
<1>8. CASE r = 3
  <2>1. PICK b \in 0 .. 255 : b = s[n + 2]
    BY <1>4, <1>5, <1>8
  <2>2. \E c \in 0 .. 255 : c \div 64 = IF n + 3 <= L THEN s[n + 3] \div 64 ELSE 0
    <3>1. n + 3 <= L => s[n + 3] \in 0 .. 255
      BY <1>4
    <3>2. 0 \in 0 .. 255 /\ 0 \div 64 = 0
      OBVIOUS
    <3> QED
      BY <3>1, <3>2
  <2>3. PICK c \in 0 .. 255 : c \div 64 = IF n + 3 <= L THEN s[n + 3] \div 64 ELSE 0
    BY <2>2
  <2>4. Sextet(s, k) = ((b % 16) * 4) + (c \div 64)
    BY <1>5, <1>8, <2>1, <2>3
  <2> QED
    BY <2>4
<1>9. CASE r = 4
  <2>1. s[n + 3] \in 0 .. 255
    BY <1>4, <1>5, <1>9
  <2>2. \A b \in 0 .. 255 : b % 64 \in 0 .. 63
    OBVIOUS
  <2> QED
    BY <1>5, <1>9, <2>1, <2>2
<1> QED
  BY <1>6, <1>7, <1>8, <1>9

(* The decoder's two loops stop where the encoder wrote something else.       *)
LEMMA RunOfSymbols ==
    ASSUME NEW e, NEW L \in Nat, L = Len(e), NEW m \in 0 .. L,
           \A j \in 1 .. m : e[j] \in Symbols, m < L => e[m + 1] \notin Symbols
    PROVE  SymbolRun(e) = m
<1> DEFINE Run(n) == (\A j \in 1 .. n : e[j] \in Symbols) /\ (n < L => e[n + 1] \notin Symbols)
<1>1. Run(m)
  OBVIOUS
<1>2. ASSUME NEW n \in 0 .. L, Run(n)
      PROVE  n = m
  <2>1. CASE n < m
    <3>1. n + 1 \in 1 .. m /\ n < L
      BY <2>1
    <3> QED
      BY <1>2, <3>1
  <2>2. CASE m < n
    <3>1. m + 1 \in 1 .. n /\ m < L
      BY <2>2
    <3> QED
      BY <1>2, <3>1
  <2> QED
    BY <2>1, <2>2
<1>3. (CHOOSE n \in 0 .. L : Run(n)) = m
  BY <1>1, <1>2
<1> QED
  BY <1>3 DEF SymbolRun

LEMMA RunOfPadding ==
    ASSUME NEW e, NEW L \in Nat, L = Len(e), NEW m \in 0 .. L,
           NEW missing \in Nat, missing = (4 - (m % 4)) % 4, m + missing <= L,
           \A j \in m + 1 .. m + missing : e[j] = Padding
    PROVE  PaddingRun(e, m) = missing
<1> DEFINE Run(n) == /\ \A j \in m + 1 .. m + n : j <= L /\ e[j] = Padding
                     /\ n < missing /\ m + n < L => e[m + n + 1] # Padding
<1>1. Run(missing)
  OBVIOUS
<1>2. ASSUME NEW n \in 0 .. missing, Run(n)
      PROVE  n = missing
  <2>1. CASE n < missing
    <3>1. m + n + 1 \in m + 1 .. m + missing /\ m + n < L
      BY <2>1
    <3> QED
      BY <1>2, <2>1, <3>1
  <2> QED
    BY <2>1
<1>3. missing \in 0 .. missing
  OBVIOUS
<1>4. (CHOOSE n \in 0 .. missing : Run(n)) = missing
  BY <1>1, <1>2, <1>3
<1> QED
  BY <1>4 DEF PaddingRun
(* A byte that neighbouring symbols give back.                                *)
LEMMA BytesBack ==
    ASSUME NEW e, NEW m \in Nat, NEW N \in Nat,
           NEW k \in 1 .. N, NEW q \in Nat, NEW r \in {1, 2, 3}, k = (q * 3) + r,
           NEW p \in Nat, p = q * 4
    PROVE  BytesOf(e, m, N)[k] = IF r = 1 THEN (SymbolValue(e, m, p + 1) * 4) + (SymbolValue(e, m, p + 2) \div 16)
                                 ELSE IF r = 2 THEN ((SymbolValue(e, m, p + 2) % 16) * 16) + (SymbolValue(e, m, p + 3) \div 4)
                                 ELSE ((SymbolValue(e, m, p + 3) % 4) * 64) + SymbolValue(e, m, p + 4)
<1>1. (k - 1) \div 3 = q /\ k % 3 = (IF r = 3 THEN 0 ELSE r)
  OBVIOUS
<1>2. ((k - 1) \div 3) * 4 = p
  BY <1>1
<1>4. BytesOf(e, m, N)[k] = IF k % 3 = 1 THEN (SymbolValue(e, m, p + 1) * 4) + (SymbolValue(e, m, p + 2) \div 16)
                            ELSE IF k % 3 = 2 THEN ((SymbolValue(e, m, p + 2) % 16) * 16) + (SymbolValue(e, m, p + 3) \div 4)
                            ELSE ((SymbolValue(e, m, p + 3) % 4) * 64) + SymbolValue(e, m, p + 4)
  BY <1>2 DEF BytesOf
<1> QED
  BY <1>1, <1>4

LEMMA BytesFunction ==
    ASSUME NEW e, NEW m, NEW N \in Nat
    PROVE  \E F : F = BytesOf(e, m, N) /\ F = [k \in 1 .. N |-> F[k]]
<1>1. PICK F : F = BytesOf(e, m, N)
  OBVIOUS
<1>2. F = [k \in 1 .. N |-> F[k]]
  BY <1>1 DEF BytesOf
<1> QED
  BY <1>1, <1>2
(* A function on 1 .. n is a sequence of length n.                            *)
LEMMA FunctionLength ==
    ASSUME NEW n \in Nat, NEW f, f = [k \in 1 .. n |-> f[k]]
    PROVE  Len(f) = n
<1>1. f \in [1 .. n -> {f[k] : k \in 1 .. n}]
  OBVIOUS
<1>2. f \in Seq({f[k] : k \in 1 .. n}) /\ DOMAIN f = 1 .. n
  BY <1>1, SeqDef
<1>3. Len(f) \in Nat /\ DOMAIN f = 1 .. Len(f)
  BY <1>2, LenProperties
<1> QED
  BY <1>2, <1>3

(* nson_mapper_b64_dec gives back what nson_mapper_b64_enc was given, however *)
(* long it is, as long as no negative char stands behind a byte whose bits it *)
(* is joined with.                                                            *)
THEOREM Base64RoundTrip ==
    ASSUME NEW s \in Seq(Bytes), ReadableBlob(s)
    PROVE  MapperDecode(Encode(s)) = [ok |-> TRUE, bytes |-> s]
<1>1. PICK L \in Nat : L = Len(s) /\ s = [k \in 1 .. L |-> s[k]]
  BY LenProperties
<1>2. PICK m \in Nat, missing \in Nat :
         /\ m = SymbolCount(s) /\ missing = (4 - (m % 4)) % 4
         /\ (m * 3) \div 4 = L /\ m + missing = ((L + 2) \div 3) * 4 /\ (m + missing) % 4 = 0
  <2>1. PICK m : m = (L * 4 + 2) \div 3
    OBVIOUS
  <2>2. SymbolCount(s) = m
    BY <1>1, <2>1 DEF SymbolCount
  <2> QED
    BY <2>1, <2>2, EncodedLength
<1>3. PICK e : e = Encode(s)
  OBVIOUS
<1>4. e = [k \in 1 .. m + missing |-> IF k <= m THEN Symbol(Sextet(s, k)) ELSE Padding]
  BY <1>1, <1>2, <1>3 DEF Encode
<1>5. Len(e) = m + missing
  <2>1. m + missing \in Nat /\ e = [k \in 1 .. m + missing |-> e[k]]
    BY <1>4
  <2> QED
    BY <2>1, FunctionLength
<1>6. \A j \in 1 .. m : Sextet(s, j) \in 0 .. 63
  BY <1>2, SextetRange
<1>7. \A j \in 1 .. m : e[j] \in Symbols /\ ValueOf[e[j]] = Sextet(s, j)
  <2> TAKE j \in 1 .. m
  <2>1. j \in 1 .. m + missing /\ j <= m
    OBVIOUS
  <2>2. e[j] = Symbol(Sextet(s, j))
    BY <1>4, <2>1
  <2> QED
    BY <1>6, <2>2, TableInjective, TableInverse
<1>8. \A j \in m + 1 .. m + missing : e[j] = Padding
  <2> TAKE j \in m + 1 .. m + missing
  <2>1. j \in 1 .. m + missing /\ ~(j <= m)
    OBVIOUS
  <2> QED
    BY <1>4, <2>1
<1>9. SymbolRun(e) = m
  <2>1. m < m + missing => e[m + 1] \notin Symbols
    <3>1. m < m + missing => m + 1 \in m + 1 .. m + missing
      OBVIOUS
    <3> QED
      BY <1>8, <3>1, TableInverse
  <2>2. m \in 0 .. m + missing /\ m + missing \in Nat
    OBVIOUS
  <2> QED
    BY <1>5, <1>7, <2>1, <2>2, RunOfSymbols
<1>10. PaddingRun(e, m) = missing
  <2>1. m \in 0 .. m + missing /\ m + missing \in Nat /\ m + missing <= m + missing
    OBVIOUS
  <2> QED
    BY <1>2, <1>5, <1>8, <2>1, RunOfPadding
<1>11. \A j \in Nat : j > 0 => SymbolValue(e, m, j) = IF j <= m THEN Sextet(s, j) ELSE 0
  BY <1>7 DEF SymbolValue
<1>12. ASSUME NEW q \in Nat
       PROVE  /\ (q * 3) + 1 <= L => (SymbolValue(e, m, (q * 4) + 1) * 4) + (SymbolValue(e, m, (q * 4) + 2) \div 16) = s[(q * 3) + 1]
              /\ (q * 3) + 2 <= L => ((SymbolValue(e, m, (q * 4) + 2) % 16) * 16) + (SymbolValue(e, m, (q * 4) + 3) \div 4) = s[(q * 3) + 2]
              /\ (q * 3) + 3 <= L => ((SymbolValue(e, m, (q * 4) + 3) % 4) * 64) + SymbolValue(e, m, (q * 4) + 4) = s[(q * 3) + 3]
  <2>1. PICK n \in Nat, p \in Nat : n = q * 3 /\ p = q * 4
    OBVIOUS
  <2>2. m = (L * 4 + 2) \div 3
    BY <1>1, <1>2 DEF SymbolCount
  <2>3. /\ n + 1 <= L => p + 1 <= m /\ p + 2 <= m
        /\ n + 2 <= L => p + 3 <= m /\ n + 1 <= L
        /\ n + 3 <= L => p + 4 <= m /\ n + 2 <= L
    BY <2>1, <2>2
  <2>4. /\ p + 1 <= m => SymbolValue(e, m, p + 1) = s[n + 1] \div 4
        /\ p + 2 <= m => SymbolValue(e, m, p + 2) = ((s[n + 1] % 4) * 16) + (IF n + 2 <= L THEN s[n + 2] \div 16 ELSE 0)
        /\ p + 3 <= m => SymbolValue(e, m, p + 3) = ((s[n + 2] % 16) * 4) + (IF n + 3 <= L THEN s[n + 3] \div 64 ELSE 0)
        /\ p + 4 <= m => SymbolValue(e, m, p + 4) = s[n + 3] % 64
    <3>1. ASSUME NEW r \in {1, 2, 3, 4}, p + r <= m
          PROVE  SymbolValue(e, m, p + r) = Sextet(s, p + r) /\ p + r \in 1 .. SymbolCount(s)
      <4>1. p + r \in Nat /\ p + r > 0 /\ p + r \in 1 .. m
        BY <3>1
      <4> QED
        BY <1>2, <1>11, <3>1, <4>1
    <3>2. ASSUME NEW r \in {1, 2, 3, 4}, p + r <= m
          PROVE  /\ r = 1 => SymbolValue(e, m, p + r) = s[n + 1] \div 4
                 /\ r = 2 => SymbolValue(e, m, p + r) = ((s[n + 1] % 4) * 16) + (IF n + 2 <= L THEN s[n + 2] \div 16 ELSE 0)
                 /\ r = 3 => SymbolValue(e, m, p + r) = ((s[n + 2] % 16) * 4) + (IF n + 3 <= L THEN s[n + 3] \div 64 ELSE 0)
                 /\ r = 4 => SymbolValue(e, m, p + r) = s[n + 3] % 64
      <4>1. PICK k \in 1 .. SymbolCount(s) : k = (q * 4) + r /\ SymbolValue(e, m, p + r) = Sextet(s, k)
        BY <2>1, <3>1, <3>2
      <4>2. /\ r = 1 => Sextet(s, k) = s[(q * 3) + 1] \div 4
            /\ r = 2 => Sextet(s, k) = ((s[(q * 3) + 1] % 4) * 16)
                            + (IF (q * 3) + 2 <= Len(s) THEN s[(q * 3) + 2] \div 16 ELSE 0)
            /\ r = 3 => Sextet(s, k) = ((s[(q * 3) + 2] % 16) * 4)
                            + (IF (q * 3) + 3 <= Len(s) THEN s[(q * 3) + 3] \div 64 ELSE 0)
            /\ r = 4 => Sextet(s, k) = s[(q * 3) + 3] % 64
        BY <4>1, SextetBits
      <4> QED
        BY <1>1, <2>1, <4>1, <4>2
    <3> QED
      BY <3>2
  <2>5. \A j \in 1 .. L : s[j] \in 0 .. 255
    BY <1>1, LenProperties DEF Bytes
  <2>6. ASSUME n + 1 <= L
        PROVE  (SymbolValue(e, m, p + 1) * 4) + (SymbolValue(e, m, p + 2) \div 16) = s[n + 1]
    <3>1. PICK b \in 0 .. 255 : b = s[n + 1]
      BY <2>5, <2>6
    <3>2. \E c \in 0 .. 255 : c \div 16 = IF n + 2 <= L THEN s[n + 2] \div 16 ELSE 0
      <4>1. n + 2 <= L => s[n + 2] \in 0 .. 255
        BY <2>5
      <4>2. 0 \in 0 .. 255 /\ 0 \div 16 = 0
        OBVIOUS
      <4> QED
        BY <4>1, <4>2
    <3>3. PICK c \in 0 .. 255 : c \div 16 = IF n + 2 <= L THEN s[n + 2] \div 16 ELSE 0
      BY <3>2
    <3>4. SymbolValue(e, m, p + 1) = b \div 4 /\ SymbolValue(e, m, p + 2) = ((b % 4) * 16) + (c \div 16)
      BY <2>3, <2>4, <2>6, <3>1, <3>3
    <3>5. (b \div 4) * 4 + ((((b % 4) * 16) + (c \div 16)) \div 16) = b
      OBVIOUS
    <3> QED
      BY <3>1, <3>4, <3>5
  <2>7. ASSUME n + 2 <= L
        PROVE  ((SymbolValue(e, m, p + 2) % 16) * 16) + (SymbolValue(e, m, p + 3) \div 4) = s[n + 2]
    <3>0. s[n + 1] \in 0 .. 255 /\ s[n + 2] \in 0 .. 255
      <4>1. n + 1 \in 1 .. L /\ n + 2 \in 1 .. L
        BY <2>7
      <4> QED
        BY <2>5, <4>1
    <3>1. PICK a \in 0 .. 255, b \in 0 .. 255 : a = s[n + 1] /\ b = s[n + 2]
      BY <3>0
    <3>2. \E c \in 0 .. 255 : c \div 64 = IF n + 3 <= L THEN s[n + 3] \div 64 ELSE 0
      <4>1. n + 3 <= L => s[n + 3] \in 0 .. 255
        BY <2>5
      <4>2. 0 \in 0 .. 255 /\ 0 \div 64 = 0
        OBVIOUS
      <4> QED
        BY <4>1, <4>2
    <3>3. PICK c \in 0 .. 255 : c \div 64 = IF n + 3 <= L THEN s[n + 3] \div 64 ELSE 0
      BY <3>2
    <3>4. SymbolValue(e, m, p + 2) = ((a % 4) * 16) + (b \div 16) /\ SymbolValue(e, m, p + 3) = ((b % 16) * 4) + (c \div 64)
      BY <2>3, <2>4, <2>7, <3>1, <3>3
    <3>5. ((((a % 4) * 16) + (b \div 16)) % 16) * 16 + ((((b % 16) * 4) + (c \div 64)) \div 4) = b
      OBVIOUS
    <3> QED
      BY <3>1, <3>4, <3>5
  <2>8. ASSUME n + 3 <= L
        PROVE  ((SymbolValue(e, m, p + 3) % 4) * 64) + SymbolValue(e, m, p + 4) = s[n + 3]
    <3>0. s[n + 2] \in 0 .. 255 /\ s[n + 3] \in 0 .. 255
      BY <2>3, <2>5, <2>8
    <3>1. PICK b \in 0 .. 255, c \in 0 .. 255 : b = s[n + 2] /\ c = s[n + 3]
      BY <3>0
    <3>2. SymbolValue(e, m, p + 3) = ((b % 16) * 4) + (c \div 64) /\ SymbolValue(e, m, p + 4) = c % 64
      BY <2>3, <2>4, <2>8, <3>1
    <3>3. ((((b % 16) * 4) + (c \div 64)) % 4) * 64 + (c % 64) = c
      OBVIOUS
    <3> QED
      BY <3>1, <3>2, <3>3
  <2> QED
    BY <2>1, <2>6, <2>7, <2>8
<1>13. BytesOf(e, m, L) = s
  <2>1. PICK F : F = BytesOf(e, m, L) /\ F = [k \in 1 .. L |-> F[k]]
    BY BytesFunction
  <2>2. ASSUME NEW k \in 1 .. L
        PROVE  F[k] = s[k]
    <3>0. k \in Nat /\ k > 0
      BY <2>2
    <3>1. PICK q \in Nat, r \in {1, 2, 3} : k = (q * 3) + r
      BY <3>0, GroupOfByte
    <3>2. PICK p \in Nat : p = q * 4
      OBVIOUS
    <3>3. BytesOf(e, m, L)[k] = IF r = 1 THEN (SymbolValue(e, m, p + 1) * 4) + (SymbolValue(e, m, p + 2) \div 16)
                                ELSE IF r = 2 THEN ((SymbolValue(e, m, p + 2) % 16) * 16) + (SymbolValue(e, m, p + 3) \div 4)
                                ELSE ((SymbolValue(e, m, p + 3) % 4) * 64) + SymbolValue(e, m, p + 4)
      <4>1. L \in Nat /\ m \in Nat
        OBVIOUS
      <4> QED
        BY <3>1, <3>2, <4>1, BytesBack
    <3>4. /\ r = 1 => (SymbolValue(e, m, p + 1) * 4) + (SymbolValue(e, m, p + 2) \div 16) = s[k]
          /\ r = 2 => ((SymbolValue(e, m, p + 2) % 16) * 16) + (SymbolValue(e, m, p + 3) \div 4) = s[k]
          /\ r = 3 => ((SymbolValue(e, m, p + 3) % 4) * 64) + SymbolValue(e, m, p + 4) = s[k]
      BY <1>12, <3>1, <3>2
    <3> QED
      BY <2>1, <3>3, <3>4
  <2> QED
    BY <1>1, <2>1, <2>2
<1>14. DecodeRun(e) = [ok |-> (m + missing) % 4 = 0, bytes |-> BytesOf(e, m, (m * 3) \div 4)]
  BY <1>9, <1>10 DEF DecodeRun
<1>15. ((m + missing) % 4 = 0) = TRUE
  BY <1>2
<1> QED
  BY <1>1, <1>2, <1>3, <1>13, <1>14, <1>15 DEF MapperDecode
(* Whatever is decoded, it is a sequence of bytes.                            *)
LEMMA SymbolsFound ==
    ASSUME NEW e, NEW L \in Nat, L = Len(e)
    PROVE  SymbolRun(e) \in 0 .. L /\ \A j \in 1 .. SymbolRun(e) : e[j] \in Symbols
<1> DEFINE T == {n \in 0 .. L : n < L => e[n + 1] \notin Symbols}
<1>1. L \in T /\ T \in SUBSET Nat
  OBVIOUS
<1>2. PICK n \in T : \A m \in T : n <= m
  BY <1>1, LeastOffset
<1>3. n \in 0 .. L /\ (n < L => e[n + 1] \notin Symbols)
  BY <1>2
<1> HIDE DEF T
<1>4. \A j \in 1 .. n : e[j] \in Symbols
  <2> TAKE j \in 1 .. n
  <2>1. PICK k \in 0 .. L : k + 1 = j /\ k < L /\ ~(n <= k)
    <3>1. j - 1 \in 0 .. L /\ j - 1 + 1 = j /\ j - 1 < L /\ ~(n <= j - 1)
      BY <1>3
    <3> QED
      BY <3>1
  <2>2. k \notin T
    BY <1>2, <2>1
  <2> QED
    BY <2>1, <2>2 DEF T
<1> QED
  BY <1>3, <1>4 DEF SymbolRun

LEMMA BytesDecoded ==
    ASSUME NEW e, NEW L \in Nat, L = Len(e)
    PROVE  DecodeRun(e).bytes \in Seq(Bytes)
<1>1. PICK m \in 0 .. L : m = SymbolRun(e) /\ \A j \in 1 .. m : e[j] \in Symbols
  BY SymbolsFound
<1>2. PICK N \in Nat : N = (m * 3) \div 4
  <2>1. (m * 3) \div 4 \in Nat
    OBVIOUS
  <2> QED
    BY <2>1
<1>3. DecodeRun(e).bytes = BytesOf(e, m, N)
  BY <1>1, <1>2 DEF DecodeRun
<1>4. \A j \in Nat : j > 0 => SymbolValue(e, m, j) \in 0 .. 63
  BY <1>1, TableInverse DEF SymbolValue
<1>5. PICK F : F = BytesOf(e, m, N) /\ F = [k \in 1 .. N |-> F[k]]
  BY BytesFunction
<1>6. ASSUME NEW k \in 1 .. N
      PROVE  F[k] \in Bytes
  <2>1. k \in Nat /\ k > 0 /\ m \in Nat
    OBVIOUS
  <2>2. PICK q \in Nat, r \in {1, 2, 3} : k = (q * 3) + r
    BY <2>1, GroupOfByte
  <2>3. PICK p \in Nat : p = q * 4
    OBVIOUS
  <2>4. BytesOf(e, m, N)[k] = IF r = 1 THEN (SymbolValue(e, m, p + 1) * 4) + (SymbolValue(e, m, p + 2) \div 16)
                              ELSE IF r = 2 THEN ((SymbolValue(e, m, p + 2) % 16) * 16) + (SymbolValue(e, m, p + 3) \div 4)
                              ELSE ((SymbolValue(e, m, p + 3) % 4) * 64) + SymbolValue(e, m, p + 4)
    BY <2>1, <2>2, <2>3, BytesBack
  <2>5. PICK a \in 0 .. 63, b \in 0 .. 63, c \in 0 .. 63, d \in 0 .. 63 :
           /\ a = SymbolValue(e, m, p + 1) /\ b = SymbolValue(e, m, p + 2)
           /\ c = SymbolValue(e, m, p + 3) /\ d = SymbolValue(e, m, p + 4)
    <3>1. \A j \in {p + 1, p + 2, p + 3, p + 4} : j \in Nat /\ j > 0
      OBVIOUS
    <3> QED
      BY <1>4, <3>1
  <2>6. /\ (a * 4) + (b \div 16) \in 0 .. 255
        /\ ((b % 16) * 16) + (c \div 4) \in 0 .. 255
        /\ ((c % 4) * 64) + d \in 0 .. 255
    OBVIOUS
  <2>7. BytesOf(e, m, N)[k] = IF r = 1 THEN (a * 4) + (b \div 16)
                              ELSE IF r = 2 THEN ((b % 16) * 16) + (c \div 4) ELSE ((c % 4) * 64) + d
    BY <2>4, <2>5
  <2>8. BytesOf(e, m, N)[k] \in 0 .. 255
    BY <2>6, <2>7
  <2> QED
    BY <1>5, <2>8 DEF Bytes
<1>7. F \in [1 .. N -> Bytes]
  BY <1>5, <1>6
<1> QED
  BY <1>3, <1>5, <1>7, SeqDef

(* nson_mapper_b64_enc and nson_mapper_b64_dec on the data of every property  *)
(* list: the decoder agrees with the parser, and undoes the encoder.          *)
THEOREM MapperInverse == Spec => []MapperUndoesEncoding
<1>1. IndInv => MapperUndoesEncoding
  <2> SUFFICES ASSUME IndInv, Found({"data"}),
                      NEW text, text = Upcoming.text, NEW bytes, bytes = ParseB64(text).bytes,
                      ParseB64(text).ok, ReadableBlob(bytes)
               PROVE  /\ MapperDecode(text) = [ok |-> TRUE, bytes |-> bytes]
                      /\ MapperDecode(Encode(bytes)) = [ok |-> TRUE, bytes |-> bytes]
    BY DEF MapperUndoesEncoding
  <2>1. doc \in Seq(Tokens) /\ Behind \in 1 .. Len(doc) /\ Upcoming.tag = "data"
    BY RoundsToken DEF IndInv
  <2>2. Upcoming \in Tokens
    BY <2>1, LenProperties DEF Upcoming, Behind
  <2>3. text \in Seq(Bytes)
    BY <2>1, <2>2 DEF Tokens, Tags
  <2>4. ParseB64(text) = DecodeRun(text)
    BY DEF ParseB64
  <2>5. PICK ok, b : DecodeRun(text) = [ok |-> ok, bytes |-> b] /\ ok \in BOOLEAN
    BY DEF DecodeRun
  <2>6. DecodeRun(text) = [ok |-> TRUE, bytes |-> bytes]
    <3>1. ok = TRUE /\ b = bytes
      BY <2>4, <2>5
    <3> QED
      BY <2>5, <3>1
  <2>7. bytes \in Seq(Bytes)
    BY <2>3, <2>4, BytesDecoded, LenProperties
  <2> QED
    BY <2>6, <2>7, Base64RoundTrip DEF MapperDecode
<1> QED
  BY <1>1, ParserInvariance, PTL

-----------------------------------------------------------------------------
(* Up to where the digits of a number go.                                     *)
LEMMA DigitsFound ==
    ASSUME NEW s \in Seq(Bytes), NEW p \in 1 .. Len(s) + 1, NEW n, n = Digits(s, p)
    PROVE  n \in Nat /\ p + n - 1 <= Len(s) /\ \A j \in p .. p + n - 1 : IsDecimal(s[j])
<1> DEFINE Run(k) == p + k - 1 <= Len(s) /\ \A j \in p .. p + k - 1 : IsDecimal(s[j])
           T == {k \in 0 .. Len(s) : ~Run(k + 1)}
<1>0. Len(s) \in Nat
  BY LenProperties
<1>1. Len(s) \in T /\ T \in SUBSET Nat
  BY <1>0
<1>2. PICK k \in T : \A m \in T : k <= m
  BY <1>1, LeastOffset
<1>3. k \in 0 .. Len(s) /\ ~Run(k + 1)
  BY <1>2
<1>4. Run(k)
  <2>1. CASE k = 0
    BY <1>0, <2>1
  <2>2. CASE k # 0
    <3>1. k - 1 \in 0 .. Len(s) /\ ~(k <= k - 1)
      BY <1>0, <1>3, <2>2
    <3>4. k - 1 \notin T
      BY <1>2, <3>1, Zenon
    <3>2. Run((k - 1) + 1)
      BY <3>1, <3>4, Zenon
    <3>3. (k - 1) + 1 = k
      BY <1>3
    <3> QED
      BY <3>2, <3>3
  <2> QED
    BY <2>1, <2>2
<1>5. n = CHOOSE m \in 0 .. Len(s) : Run(m) /\ ~Run(m + 1)
  BY DEF Digits
<1> HIDE DEF Run
<1>6. n \in 0 .. Len(s) /\ Run(n)
  BY <1>3, <1>4, <1>5
<1> QED
  BY <1>0, <1>6 DEF Run

(* The value of digits: the recursion from the first one on has a solution.   *)
LEMMA DecimalIsNat ==
    ASSUME NEW s, NEW p \in Nat, NEW n \in Nat, \A j \in p .. p + n - 1 : s[j] \in 48 .. 57
    PROVE  Decimal(s, p, n) \in Nat
<1> DEFINE Rule(f, m) == IF m = 0 THEN 0 ELSE 10 * f[m - 1] + (s[p + m - 1] - 48)
           Upto(f, k) == f \in [0 .. k -> Nat] /\ \A m \in 0 .. k : f[m] = Rule(f, m)
           T == {k \in Nat : ~\E f : Upto(f, k)}
<1>1. 0 \notin T
  <2>1. Upto([m \in 0 .. 0 |-> 0], 0)
    OBVIOUS
  <2> QED
    BY <2>1
<1>2. ASSUME NEW k \in Nat, k < n, NEW f, Upto(f, k)
      PROVE  \E g : Upto(g, k + 1)
  <2>1. p + (k + 1) - 1 \in p .. p + n - 1
    BY <1>2
  <2>2. s[p + (k + 1) - 1] \in 48 .. 57
    BY <2>1
  <2>3. PICK v : v = 10 * f[k] + (s[p + (k + 1) - 1] - 48)
    OBVIOUS
  <2>4. v \in Nat
    BY <1>2, <2>2, <2>3
  <2>5. PICK g : g = [m \in 0 .. k + 1 |-> IF m = k + 1 THEN v ELSE f[m]]
    OBVIOUS
  <2>6. g \in [0 .. k + 1 -> Nat]
    BY <1>2, <2>4, <2>5
  <2>7. ASSUME NEW m \in 0 .. k + 1
        PROVE  g[m] = Rule(g, m)
    <3>1. CASE m = k + 1
      BY <2>3, <2>5, <3>1
    <3>2. CASE m # k + 1
      <4>1. m \in 0 .. k /\ g[m] = f[m] /\ (m # 0 => g[m - 1] = f[m - 1])
        BY <2>5, <3>2
      <4> QED
        BY <1>2, <4>1
    <3> QED
      BY <3>1, <3>2
  <2> QED
    BY <2>6, <2>7
<1> HIDE DEF Upto
<1>3. ~(n \in T)
  <2> SUFFICES ASSUME n \in T PROVE FALSE
    OBVIOUS
  <2>1. PICK k \in {m \in T : m <= n} : \A m \in {m \in T : m <= n} : k <= m
    <3>1. {m \in T : m <= n} \in SUBSET Nat /\ n \in {m \in T : m <= n}
      OBVIOUS
    <3> QED
      BY <3>1, LeastOffset
  <2>2. k \in T /\ k <= n /\ k # 0
    BY <1>1, <2>1
  <2>3. k - 1 \in Nat /\ k - 1 < n /\ k - 1 \notin T
    BY <2>1, <2>2
  <2>4. PICK f : Upto(f, k - 1)
    BY <2>3
  <2>5. \E g : Upto(g, (k - 1) + 1)
    BY <1>2, <2>3, <2>4
  <2>6. (k - 1) + 1 = k
    BY <2>2
  <2> QED
    BY <2>2, <2>5, <2>6
<1>4. PICK f : Upto(f, n)
  BY <1>3
<1>5. PICK val : val = CHOOSE g : g = [m \in 0 .. n |-> IF m = 0 THEN 0 ELSE 10 * g[m - 1] + (s[p + m - 1] - 48)]
  OBVIOUS
<1>6. f = [m \in 0 .. n |-> IF m = 0 THEN 0 ELSE 10 * f[m - 1] + (s[p + m - 1] - 48)]
  BY <1>4 DEF Upto
<1>7. val = [m \in 0 .. n |-> IF m = 0 THEN 0 ELSE 10 * val[m - 1] + (s[p + m - 1] - 48)]
  BY <1>5, <1>6
<1>8. Decimal(s, p, n) = val[n]
  BY <1>5 DEF Decimal
<1>9. \A k \in Nat : k <= n => val[k] \in Nat
  <2> DEFINE U == {k \in Nat : k <= n /\ val[k] \notin Nat}
  <2>1. SUFFICES ASSUME U # {} PROVE FALSE
    OBVIOUS
  <2>2. PICK k \in U : \A m \in U : k <= m
    <3>1. U \in SUBSET Nat
      OBVIOUS
    <3> QED
      BY <2>1, <3>1, LeastOffset
  <2>3. k \in 0 .. n /\ k \in Nat
    BY <2>2
  <2>4. val[k] = IF k = 0 THEN 0 ELSE 10 * val[k - 1] + (s[p + k - 1] - 48)
    BY <1>7, <2>3
  <2>5. k # 0 => val[k - 1] \in Nat /\ s[p + k - 1] \in 48 .. 57
    <3>1. k # 0 => k - 1 \in Nat /\ k - 1 <= n /\ k - 1 \notin U /\ p + k - 1 \in p .. p + n - 1
      BY <2>2, <2>3
    <3> QED
      BY <3>1
  <2>6. val[k] \in Nat
    BY <2>3, <2>4, <2>5
  <2> QED
    BY <2>2, <2>6
<1> QED
  BY <1>8, <1>9

(* __nson_parse_dev gives a number and passes bytes of its text.              *)
LEMMA DevParsed ==
    ASSUME NEW s \in Seq(Bytes)
    PROVE  ParseDev(s).val \in Int /\ ParseDev(s).len \in -1 .. Len(s)
<1>0. Len(s) \in Nat /\ (s # <<>> => Len(s) > 0)
  BY LenProperties, EmptySeq
<1>1. PICK start, n : start = (IF HasSign(s) THEN 2 ELSE 1) /\ n = Digits(s, start)
  OBVIOUS
<1>2. start \in {1, 2} /\ start \in 1 .. Len(s) + 1
  BY <1>0, <1>1 DEF HasSign
<1>3. n \in Nat /\ start + n - 1 <= Len(s) /\ \A j \in start .. start + n - 1 : IsDecimal(s[j])
  BY <1>1, <1>2, DigitsFound
<1>4. PICK val : val = Decimal(s, start, n)
  OBVIOUS
<1>5. val \in Nat
  <2>1. \A j \in start .. start + n - 1 : s[j] \in 48 .. 57
    BY <1>3 DEF IsDecimal
  <2>2. start \in Nat
    BY <1>2
  <2> QED
    BY <1>3, <1>4, <2>1, <2>2, DecimalIsNat
<1>6. PICK sign \in {-1, 1} : sign = Sign(s)
  BY DEF Sign
<1>7. sign * val \in Int /\ start - 1 + n \in -1 .. Len(s)
  BY <1>0, <1>2, <1>3, <1>5
<1>8. ParseDev(s) = IF s = <<>> \/ val > MaxInt THEN [val |-> 0, len |-> -1]
                    ELSE [val |-> sign * val, len |-> start - 1 + n]
  BY <1>1, <1>4, <1>6 DEF ParseDev
<1> QED
  BY <1>0, <1>7, <1>8

(* What strncmp finds lies within the text.                                   *)
LEMMA EntityLength ==
    ASSUME NEW c \in {Lt, Gt, Amp}
    PROVE  Len(Entity[c]) \in {3, 4}
BY DEF Entity, Lt, Gt, Amp

LEMMA SuffixIsText ==
    ASSUME NEW s \in Seq(Bytes), NEW p \in Nat, p > 0
    PROVE  SubSeq(s, p, Len(s)) \in Seq(Bytes)
           /\ Len(SubSeq(s, p, Len(s))) = IF p <= Len(s) THEN Len(s) - p + 1 ELSE 0
<1>1. Len(s) \in Nat /\ \A j \in p .. Len(s) : s[j] \in Bytes
  <2>1. Len(s) \in Nat
    BY LenProperties
  <2>2. ASSUME NEW j \in p .. Len(s)
        PROVE  s[j] \in Bytes
    <3>1. j \in 1 .. Len(s)
      BY <2>1
    <3> QED
      BY <3>1, LenProperties, ElementOfSeq
  <2> QED
    BY <2>1, <2>2
<1> QED
  BY <1>1, SubSeqProperties

(* Bytes one behind the other are found as the word they make.                *)
LEMMA WordAt ==
    ASSUME NEW s \in Seq(Bytes), NEW p \in 1 .. Len(s), NEW w \in Seq(Bytes), Len(w) > 0,
           p + Len(w) - 1 <= Len(s), \A k \in 1 .. Len(w) : s[p + k - 1] = w[k]
    PROVE  HasAt(s, p, w)
<1>1. PICK L, n, r : L = Len(s) /\ n = Len(w) /\ r = p + n - 1
  OBVIOUS
<1>8. L \in Nat /\ n \in Nat /\ r \in Nat /\ n > 0 /\ r <= L /\ p \in Nat /\ p > 0
  <2>1. L \in Nat /\ n \in Nat
    BY <1>1, LenProperties
  <2>2. n > 0 /\ p + n - 1 <= L /\ p \in 1 .. L
    BY <1>1
  <2> QED
    BY <1>1, <2>1, <2>2
<1>2. \A j \in p .. r : s[j] \in Bytes
  <2>1. \A j \in p .. r : j \in 1 .. Len(s)
    BY <1>1, <1>8
  <2> QED
    BY <2>1, LenProperties, ElementOfSeq
<1>3. PICK t : t = SubSeq(s, p, r)
  OBVIOUS
<1>4. /\ t \in Seq(Bytes) /\ Len(t) = IF p <= r THEN r - p + 1 ELSE 0
      /\ \A k \in 1 .. r - p + 1 : t[k] = s[p + k - 1]
  BY <1>1, <1>8, <1>2, <1>3, SubSeqProperties
<1>5. Len(t) = Len(w) /\ r - p + 1 = Len(w)
  BY <1>1, <1>8, <1>4
<1>6. \A k \in 1 .. Len(t) : t[k] = w[k]
  BY <1>4, <1>5
<1>7. t = w
  BY <1>4, <1>5, <1>6, SeqEqual
<1> QED
  BY <1>1, <1>8, <1>3, <1>7 DEF HasAt

(* A mark moves the position on; only a wide reference takes it behind the    *)
(* end of the text.                                                           *)
LEMMA ReferenceMoves ==
    ASSUME NEW s \in Seq(Bytes), NEW b \in 1 .. Len(s), s[b] = Amp, NEW next, next = Reference(s, b).next
    PROVE  next \in b + 1 .. Len(s) + 3 /\ (WideReferenceAt(s, b) \/ next <= Len(s) + 1)
<1>1. PICK L \in Nat : L = Len(s) /\ b \in Nat /\ 1 <= b /\ b <= L
  BY LenProperties
<1>2. PICK dev : dev = ParseDev(SubSeq(s, b + 2, Len(s)))
  OBVIOUS
<1>3. dev.val \in Int /\ dev.len \in Int /\ -1 <= dev.len /\ dev.len <= (IF b + 2 <= L THEN L - b - 1 ELSE 0)
  <2>1. SubSeq(s, b + 2, L) \in Seq(Bytes)
        /\ Len(SubSeq(s, b + 2, L)) = IF b + 2 <= L THEN L - (b + 2) + 1 ELSE 0
    BY <1>1, SuffixIsText
  <2>2. dev.val \in Int /\ dev.len \in -1 .. Len(SubSeq(s, b + 2, L))
    BY <1>1, <1>2, <2>1, DevParsed
  <2>3. Len(SubSeq(s, b + 2, L)) = IF b + 2 <= L THEN L - b - 1 ELSE 0
    BY <1>1, <2>1
  <2> QED
    BY <1>1, <2>2, <2>3
<1>4. PICK q : q = b + 2 + dev.len
  OBVIOUS
<1>5. CASE ByteAt(s, b + 1) = Hash
  <2>1. b + 1 <= L /\ s[b + 1] = Hash
    BY <1>1, <1>5 DEF ByteAt, Hash, Lt
  <2>2. q \in Nat /\ b + 1 <= q /\ q <= L + 1
    BY <1>1, <1>3, <1>4, <2>1
  <2>3. CASE ByteAt(s, q) = Semicolon
    <3>1. q <= L /\ s[q] = Semicolon
      BY <1>1, <2>2, <2>3 DEF ByteAt, Semicolon, Lt
    <3>2. next = q + Len(Utf8(dev.val))
      BY <1>2, <1>4, <1>5, <2>3 DEF Reference
    <3>3. CASE 0 <= dev.val /\ dev.val < 128
      <4>1. Len(Utf8(dev.val)) = 1
        BY <3>3 DEF Utf8
      <4> QED
        BY <1>1, <2>2, <3>1, <3>2, <4>1
    <3>4. CASE ~(0 <= dev.val /\ dev.val < 128)
      <4>1. Len(Utf8(dev.val)) \in {2, 3}
        BY <3>4 DEF Utf8, Utf8Two, Utf8Three
      <4>2. HasAt(s, b, <<Amp, Hash>>)
        <5>1. PICK w : w = <<Amp, Hash>>
          OBVIOUS
        <5>2. w \in Seq(Bytes) /\ Len(w) = 2 /\ w[1] = Amp /\ w[2] = Hash
          BY <5>1 DEF Bytes, Amp, Hash
        <5>3. b + Len(w) - 1 <= Len(s) /\ Len(w) > 0
          BY <1>1, <2>1, <5>2
        <5>4. \A k \in 1 .. Len(w) : s[b + k - 1] = w[k]
          BY <1>1, <2>1, <5>2
        <5> QED
          BY <5>1, <5>2, <5>3, <5>4, WordAt
      <4>3. HasAt(s, q, <<Semicolon>>)
        <5>1. PICK w : w = <<Semicolon>>
          OBVIOUS
        <5>2. w \in Seq(Bytes) /\ Len(w) = 1 /\ w[1] = Semicolon
          BY <5>1 DEF Bytes, Semicolon
        <5>3. q + Len(w) - 1 <= Len(s) /\ Len(w) > 0 /\ q \in 1 .. Len(s)
          BY <1>1, <2>2, <3>1, <5>2
        <5>4. \A k \in 1 .. Len(w) : s[q + k - 1] = w[k]
          BY <1>1, <2>2, <3>1, <5>2
        <5> QED
          BY <5>1, <5>2, <5>3, <5>4, WordAt
      <4>4. dev.val < 0 \/ dev.val > 127
        BY <1>3, <3>4
      <4>5. WideReferenceAt(s, b)
        BY <1>2, <1>4, <4>2, <4>3, <4>4 DEF WideReferenceAt
      <4>6. PICK n \in {2, 3} : n = Len(Utf8(dev.val))
        BY <4>1
      <4>7. next = q + n
        BY <3>2, <4>6
      <4> QED
        BY <1>1, <2>2, <3>1, <4>5, <4>7
    <3> QED
      BY <3>3, <3>4
  <2>4. CASE ByteAt(s, q) # Semicolon
    <3>1. next = q
      BY <1>2, <1>4, <1>5, <2>4 DEF Reference
    <3> QED
      BY <1>1, <2>2, <3>1
  <2> QED
    BY <2>3, <2>4
<1>6. CASE ByteAt(s, b + 1) # Hash
  <2>1. PICK known : known = {c \in {Lt, Gt, Amp} : HasAt(s, b + 1, Entity[c])}
    OBVIOUS
  <2>2. CASE known = {}
    <3>1. next = b + 1
      BY <1>6, <2>1, <2>2 DEF Reference
    <3> QED
      BY <1>1, <3>1
  <2>3. CASE known # {}
    <3>1. PICK c \in known : next = b + 1 + Len(Entity[c])
      BY <1>6, <2>1, <2>3 DEF Reference
    <3>2. PICK n : n = Len(Entity[c])
      OBVIOUS
    <3>3. n \in {3, 4} /\ b + 1 + n - 1 <= L
      BY <1>1, <2>1, <3>1, <3>2, EntityLength DEF HasAt
    <3>4. next = b + 1 + n
      BY <3>1, <3>2
    <3> QED
      BY <1>1, <3>3, <3>4
  <2> QED
    BY <2>2, <2>3
<1> QED
  BY <1>5, <1>6

(* memchr stops at a mark or at the end.                                      *)
LEMMA MarkFound ==
    ASSUME NEW s \in Seq(Bytes), NEW p \in 1 .. Len(s) + 1, NEW b, b = MarkFrom(s, p)
    PROVE  b \in p .. Len(s) + 1 /\ (b <= Len(s) => s[b] = Amp)
<1> DEFINE T == {n \in p .. Len(s) + 1 : n <= Len(s) => s[n] = Amp}
<1>0. Len(s) \in Nat /\ p \in Nat
  BY LenProperties
<1>1. Len(s) + 1 \in T /\ T \in SUBSET Nat
  BY <1>0
<1>2. PICK n \in T : \A m \in T : n <= m
  BY <1>1, LeastOffset
<1>3. n \in p .. Len(s) + 1 /\ (n <= Len(s) => s[n] = Amp)
  BY <1>2
<1>4. ASSUME NEW j \in p .. n - 1
      PROVE  s[j] # Amp
  <2>1. j \in p .. Len(s) + 1 /\ ~(n <= j)
    BY <1>0, <1>3
  <2>2. j \notin T
    BY <1>2, <2>1, Zenon
  <2> QED
    BY <2>1, <2>2
<1> QED
  BY <1>3, <1>4 DEF MarkFrom

(* A round looks only at what later positions give, so the recursion of       *)
(* parse_string has a solution.                                               *)
LEMMA TextLocal ==
    ASSUME NEW s \in Seq(Bytes), NEW p \in 1 .. Len(s) + 3, NEW f, NEW g,
           \A k \in p + 1 .. Len(s) + 3 : f[k] = g[k]
    PROVE  TextFrom(s, f, p) = TextFrom(s, g, p)
<1>0. Len(s) \in Nat /\ p \in Nat
  BY LenProperties
<1>1. CASE p > Len(s) + 1
  BY <1>1 DEF TextFrom
<1>2. CASE p <= Len(s) + 1
  <2>1. PICK b, next : b = MarkFrom(s, p) /\ next = Reference(s, b).next
    OBVIOUS
  <2>2. b \in p .. Len(s) + 1 /\ (b <= Len(s) => s[b] = Amp)
    BY <1>0, <1>2, <2>1, MarkFound
  <2>3. b <= Len(s) => next \in p + 1 .. Len(s) + 3
    <3>1. b <= Len(s) => b \in 1 .. Len(s) /\ next \in b + 1 .. Len(s) + 3
      BY <1>0, <2>1, <2>2, ReferenceMoves
    <3> QED
      BY <1>0, <2>2, <3>1
  <2>4. b <= Len(s) => f[next] = g[next]
    BY <2>3
  <2>5. b <= Len(s) \/ b > Len(s)
    BY <1>0, <2>2
  <2> QED
    BY <2>1, <2>4, <2>5 DEF TextFrom
<1> QED
  BY <1>0, <1>1, <1>2

LEMMA TextSolved ==
    ASSUME NEW s \in Seq(Bytes)
    PROVE  \E dest : /\ dest = [p \in 1 .. Len(s) + 3 |-> TextFrom(s, dest, p)]
                     /\ ParseText(s) = dest[1]
<1> DEFINE Back(f, k) == /\ DOMAIN f = 1 .. Len(s) + 3 /\ f = [p \in 1 .. Len(s) + 3 |-> f[p]]
                         /\ \A p \in Len(s) + 4 - k .. Len(s) + 3 : f[p] = TextFrom(s, f, p)
           Solved(k) == \E f : Back(f, k)
           T == {k \in Nat : k <= Len(s) + 3 /\ ~Solved(k)}
<1>0. Len(s) \in Nat
  BY LenProperties
<1>1. Solved(0)
  <2>1. Back([p \in 1 .. Len(s) + 3 |-> 0], 0)
    BY <1>0
  <2> QED
    BY <2>1
<1>2. ASSUME NEW k \in Nat, k < Len(s) + 3, Solved(k)
      PROVE  Solved(k + 1)
  <2>1. PICK f : Back(f, k)
    BY <1>2
  <2>2. PICK q : q = Len(s) + 3 - k
    OBVIOUS
  <2>3. q \in 1 .. Len(s) + 3 /\ q \in Nat
    BY <1>0, <1>2, <2>2
  <2>4. PICK g : g = [f EXCEPT ![q] = TextFrom(s, f, q)]
    OBVIOUS
  <2>5. /\ DOMAIN g = 1 .. Len(s) + 3 /\ g = [p \in 1 .. Len(s) + 3 |-> g[p]]
        /\ g[q] = TextFrom(s, f, q)
        /\ \A p \in q + 1 .. Len(s) + 3 : g[p] = f[p]
    <3>1. DOMAIN f = 1 .. Len(s) + 3
      BY <2>1
    <3>2. \A p \in q + 1 .. Len(s) + 3 : p \in 1 .. Len(s) + 3 /\ p # q
      BY <1>0, <2>3
    <3> QED
      BY <2>3, <2>4, <3>1, <3>2
  <2>6. ASSUME NEW p \in q .. Len(s) + 3
        PROVE  g[p] = TextFrom(s, g, p)
    <3>1. p \in 1 .. Len(s) + 3 /\ \A j \in p + 1 .. Len(s) + 3 : f[j] = g[j]
      <4>1. p \in Nat /\ q <= p
        BY <1>0, <2>3
      <4>2. \A j \in p + 1 .. Len(s) + 3 : j \in q + 1 .. Len(s) + 3
        BY <1>0, <2>3, <4>1
      <4>3. p \in 1 .. Len(s) + 3
        BY <1>0, <2>3, <4>1
      <4>4. \A j \in p + 1 .. Len(s) + 3 : f[j] = g[j]
        BY <2>5, <4>2
      <4> QED
        BY <4>3, <4>4
    <3>2. TextFrom(s, f, p) = TextFrom(s, g, p)
      BY <3>1, TextLocal
    <3>3. CASE p = q
      BY <2>5, <3>2, <3>3
    <3>4. CASE p # q
      <4>1. p \in Len(s) + 4 - k .. Len(s) + 3 /\ p \in q + 1 .. Len(s) + 3
        BY <1>0, <1>2, <2>2, <2>3, <3>4
      <4>2. f[p] = TextFrom(s, f, p)
        BY <2>1, <4>1
      <4> QED
        BY <2>5, <3>2, <4>1, <4>2
    <3> QED
      BY <3>3, <3>4
  <2>7. Len(s) + 4 - (k + 1) = q
    BY <1>0, <1>2, <2>2
  <2>8. Back(g, k + 1)
    BY <2>5, <2>6, <2>7
  <2> QED
    BY <2>8
<1> HIDE DEF Solved
<1>3. Solved(Len(s) + 3)
  <2>1. SUFFICES ASSUME T # {} PROVE FALSE
    BY <1>0
  <2>2. PICK k \in T : \A m \in T : k <= m
    <3>1. T \in SUBSET Nat
      OBVIOUS
    <3> QED
      BY <2>1, <3>1, LeastOffset
  <2>3. k \in Nat /\ k <= Len(s) + 3 /\ ~Solved(k) /\ k # 0
    BY <1>1, <2>2
  <2>4. k - 1 \in Nat /\ k - 1 < Len(s) + 3 /\ ~(k <= k - 1) /\ (k - 1) + 1 = k
    BY <1>0, <2>3
  <2>5. k - 1 \notin T
    BY <2>2, <2>4, Zenon
  <2>6. Solved(k - 1)
    BY <1>0, <2>4, <2>5
  <2>7. Solved((k - 1) + 1)
    BY <1>2, <2>4, <2>6
  <2> QED
    BY <2>3, <2>4, <2>7
<1>4. PICK f : Back(f, Len(s) + 3)
  BY <1>3 DEF Solved
<1>5. Len(s) + 4 - (Len(s) + 3) = 1
  BY <1>0
<1>6. \A p \in 1 .. Len(s) + 3 : f[p] = TextFrom(s, f, p)
  BY <1>4, <1>5
<1>7. f = [p \in 1 .. Len(s) + 3 |-> TextFrom(s, f, p)]
  BY <1>4, <1>6
<1>8. PICK dest : dest = CHOOSE g : g = [p \in 1 .. Len(s) + 3 |-> TextFrom(s, g, p)]
  OBVIOUS
<1>9. dest = [p \in 1 .. Len(s) + 3 |-> TextFrom(s, dest, p)]
  BY <1>7, <1>8
<1>10. ParseText(s) = dest[1]
  BY <1>8 DEF ParseText
<1> QED
  BY <1>9, <1>10

(* A text without wide references is read within its bounds.                  *)
LEMMA TextInBounds ==
    ASSUME NEW s \in Seq(Bytes), ~ParseText(s).ok
    PROVE  \E b \in DOMAIN s : WideReferenceAt(s, b)
<1>0. Len(s) \in Nat /\ DOMAIN s = 1 .. Len(s)
  BY LenProperties
<1> SUFFICES ASSUME \A b \in 1 .. Len(s) : ~WideReferenceAt(s, b) PROVE FALSE
  BY <1>0
<1>1. PICK dest : dest = [p \in 1 .. Len(s) + 3 |-> TextFrom(s, dest, p)] /\ ParseText(s) = dest[1]
  BY TextSolved
<1> DEFINE T == {k \in Nat : k <= Len(s) /\ ~dest[Len(s) + 1 - k].ok}
<1>2. Len(s) \in T /\ T \in SUBSET Nat
  BY <1>0, <1>1
<1>3. PICK k \in T : \A m \in T : k <= m
  BY <1>2, LeastOffset
<1>4. k \in Nat /\ k <= Len(s) /\ ~dest[Len(s) + 1 - k].ok
  BY <1>3
<1>5. PICK p : p = Len(s) + 1 - k
  OBVIOUS
<1>6. p \in 1 .. Len(s) + 1 /\ p \in 1 .. Len(s) + 3 /\ p \in Nat /\ ~(p > Len(s) + 1)
  BY <1>0, <1>4, <1>5
<1>7. ~TextFrom(s, dest, p).ok
  <2>1. dest[p] = TextFrom(s, dest, p)
    BY <1>1, <1>6
  <2> QED
    BY <1>4, <1>5, <2>1
<1>8. PICK b, next : b = MarkFrom(s, p) /\ next = Reference(s, b).next
  OBVIOUS
<1>9. b \in p .. Len(s) + 1 /\ (b <= Len(s) => s[b] = Amp)
  BY <1>6, <1>8, MarkFound
<1>10. CASE b > Len(s)
  <2>1. TextFrom(s, dest, p) = [ok |-> TRUE, bytes |-> SubSeq(s, p, Len(s))]
    BY <1>6, <1>8, <1>10 DEF TextFrom
  <2> QED
    BY <1>7, <2>1
<1>11. CASE ~(b > Len(s))
  <2>1. b \in 1 .. Len(s) /\ s[b] = Amp
    BY <1>0, <1>6, <1>9, <1>11
  <2>2. next \in b + 1 .. Len(s) + 3 /\ next <= Len(s) + 1
    BY <1>8, <2>1, ReferenceMoves
  <2>3. TextFrom(s, dest, p).ok = dest[next].ok
    BY <1>6, <1>8, <1>11 DEF TextFrom
  <2>4. PICK m : m = Len(s) + 1 - next
    OBVIOUS
  <2>5. m \in Nat /\ m <= Len(s) /\ ~(k <= m) /\ next = Len(s) + 1 - m
    BY <1>0, <1>4, <1>5, <1>9, <2>1, <2>2, <2>4
  <2>6. m \notin T
    BY <1>3, <2>5, Zenon
  <2>7. dest[next].ok
    BY <2>5, <2>6
  <2> QED
    BY <1>7, <2>3, <2>7
<1> QED
  BY <1>10, <1>11

(* The step in which the parser of a string leaves the text.                  *)
LEMMA OverrunStep ==
    ASSUME IndInv, OverrunsOnlyAtWideReferences, [Next]_vars
    PROVE  OverrunsOnlyAtWideReferences'
<1>1. CASE String
  <2> SUFFICES ASSUME at' = "crashed"
               PROVE  \E b \in DOMAIN Upcoming.text : WideReferenceAt(Upcoming.text, b)
    <3>1. at' = "crashed" => Upcoming' = Upcoming
      BY <1>1 DEF String, Stays, Fail, Round, Goes, Found, Upcoming, AfterSpaces
    <3> QED
      BY <3>1 DEF OverrunsOnlyAtWideReferences
  <2>1. ~ParseText(Upcoming.text).ok /\ Found({"string", "key"})
    BY <1>1 DEF String, Stays, Fail, Round, Goes
  <2>2. Upcoming \in Tokens
    <3>1. Behind \in 1 .. Len(doc) /\ doc \in Seq(Tokens)
      BY <2>1, RoundsToken DEF IndInv
    <3> QED
      BY <3>1, LenProperties, ElementOfSeq DEF Behind, Upcoming
  <2>3. Upcoming.text \in Seq(Bytes)
    BY <2>1, <2>2 DEF Tokens, Found, Tags
  <2> QED
    BY <2>1, <2>3, TextInBounds
<1>2. CASE ~String /\ Next
  <2>2. CASE Unread
    <3>1. PICK result : Stays(stack, result)
      BY <2>2, Zenon DEF Unread
    <3> QED
      BY <3>1 DEF Stays, Goes, OverrunsOnlyAtWideReferences
  <2>3. CASE ~Unread
    BY <1>2, <2>3 DEF Next, Step, Call, CallOn, Header, NoTag, Stray, Open, Boolean, Data, IntegerNumber, RealNumber,
       Number, CloseArray, CloseDict, CloseWith, Finish, Return, Stays, Fail, Round, Goes, OverrunsOnlyAtWideReferences
  <2> QED
    BY <2>2, <2>3
<1>3. CASE UNCHANGED vars
  BY <1>3 DEF vars, parse, OverrunsOnlyAtWideReferences, Upcoming, AfterSpaces
<1> QED
  BY <1>1, <1>2, <1>3

(* parse_string: only behind a reference to a character whose UTF-8 form is   *)
(* longer than a byte can the parser pass the end of a text.                  *)
THEOREM OverrunsOnlyBehindWide == Spec => []OverrunsOnlyAtWideReferences
<1>1. Init => OverrunsOnlyAtWideReferences
  BY DEF Init, OverrunsOnlyAtWideReferences
<1> QED
  BY <1>1, OverrunStep, ParserInvariance, PTL DEF Spec
=============================================================================
