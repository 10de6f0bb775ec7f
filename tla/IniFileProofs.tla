--------------------------- MODULE IniFileProofs ---------------------------
(***************************************************************************)
(* The INI reader on files of any length and content, for any page size:   *)
(* which files it can leave the mapping with, and which bytes it takes for *)
(* a key and a value.                                                      *)
(***************************************************************************)
EXTENDS IniLines, SequenceTheorems, FiniteSetTheorems, WellFoundedInduction, TLAPS

(* Every set of numbers has a least one: what a forward search stops at.      *)
LEMMA LeastOffset ==
    ASSUME NEW T \in SUBSET Nat, T # {}
    PROVE  \E n \in T : \A m \in T : n <= m
<1>1. \E R : IsWellFoundedOn(R, Nat) /\ \A m, n \in Nat : m < n => <<m, n>> \in R
  <2>1. IsWellFoundedOn(OpToRel(<, Nat), Nat)
    BY NatLessThanWellFounded
  <2>2. \A m, n \in Nat : m < n => <<m, n>> \in OpToRel(<, Nat)
    BY DEF OpToRel
  <2> QED
    BY <2>1, <2>2, Zenon
<1>2. PICK R : IsWellFoundedOn(R, Nat) /\ \A m, n \in Nat : m < n => <<m, n>> \in R
  BY <1>1
<1>3. \E n \in T : \A m \in T : ~ (<<m, n>> \in R)
  <2>1. T \subseteq Nat /\ IsWellFoundedOn(R, Nat)
    BY <1>2
  <2> QED
    BY <2>1, WFMin, Zenon
<1>4. \E n \in T : \A m \in T : ~(m < n)
  BY <1>2, <1>3
<1> QED
  BY <1>4

(* Numbers of pages, and what is left of the last one.                        *)
LEMMA DivMod ==
    ASSUME NEW a \in Nat, NEW b \in Nat, b > 0
    PROVE  a \div b \in Nat /\ a % b \in 0 .. b - 1 /\ a = (b * (a \div b)) + (a % b)
OBVIOUS

LEMMA RoundedUp ==
    ASSUME NEW L \in Nat, NEW P \in Nat, P > 0, NEW B, B = ((L + P - 1) \div P) * P
    PROVE  /\ B \in Nat /\ L <= B
           /\ B = L => L % P = 0
           /\ L % P = 0 => B = L
           /\ B = L + 1 => L % P = P - 1
           /\ L % P = P - 1 /\ L % P # 0 => B = L + 1
<1>1. PICK q \in Nat, r \in 0 .. P - 1 : q = L \div P /\ r = L % P /\ L = (P * q) + r
  BY DivMod
<1>2. PICK k \in Nat, s \in 0 .. P - 1 : k = (L + P - 1) \div P /\ L + P - 1 = (P * k) + s
  <2>1. L + P - 1 \in Nat
    OBVIOUS
  <2> QED
    BY <2>1, DivMod
<1>3. B = P * k /\ B \in Nat
  BY <1>2
<1>4. CASE r = 0
  <2>1. k = q
    BY <1>1, <1>2, <1>4
  <2>2. P * k = P * q
    BY <2>1
  <2> QED
    BY <1>1, <1>2, <1>3, <1>4, <2>2
<1>5. CASE r # 0
  <2>1. k = q + 1
    BY <1>1, <1>2, <1>5
  <2>2. P * k = (P * q) + P
    BY <2>1
  <2> QED
    BY <1>1, <1>2, <1>3, <1>5, <2>2
<1> QED
  BY <1>4, <1>5

(* The memory: the file, zeros up to the end of its last page, nothing.       *)
LEMMA Memory ==
    ASSUME file \in Files
    PROVE  /\ Len(file) \in Nat /\ Backed \in Nat /\ Len(file) <= Backed
           /\ \A q \in Nat :
                 /\ q < Len(file) => At(q) = file[q + 1] /\ At(q) \in Chars
                 /\ Len(file) <= q /\ q < Backed => At(q) = "nul"
                 /\ Backed <= q => At(q) = "none"
<1>1. Len(file) \in Nat /\ \A n \in 1 .. Len(file) : file[n] \in Chars
  BY IniInstance, LenProperties
<1>2. Backed \in Nat /\ Len(file) <= Backed
  BY <1>1, IniInstance, RoundedUp DEF Backed
<1>3. ASSUME NEW q \in Nat
      PROVE  /\ q < Len(file) => At(q) = file[q + 1] /\ At(q) \in Chars
             /\ Len(file) <= q /\ q < Backed => At(q) = "nul"
             /\ Backed <= q => At(q) = "none"
  <2>1. q < Len(file) => q + 1 \in 1 .. Len(file)
    BY <1>1
  <2>2. /\ Len(file) <= q => ~(q < Len(file))
        /\ Backed <= q => ~(q < Backed) /\ ~(q < Len(file))
    BY <1>1, <1>2
  <2> QED
    BY <1>1, <2>1, <2>2 DEF At
<1> QED
  BY <1>1, <1>2, <1>3

LEMMA WhichByte ==
    ASSUME file \in Files, NEW q \in Nat
    PROVE  /\ At(q) = "none" => Backed <= q
           /\ At(q) = "nul" => Len(file) <= q /\ q < Backed
           /\ At(q) \in Chars => q < Len(file)
           /\ At(q) \in Chars \cup {"nul", "none"}
<1>1. Len(file) \in Nat /\ Backed \in Nat /\ Len(file) <= Backed
  BY Memory
<1>2. CASE q < Len(file)
  <2>1. At(q) \in Chars
    BY <1>2, Memory
  <2> QED
    BY <1>2, <2>1 DEF Chars
<1>3. CASE Len(file) <= q /\ q < Backed
  <2>1. At(q) = "nul"
    BY <1>3, Memory
  <2> QED
    BY <1>3, <2>1 DEF Chars
<1>4. CASE Backed <= q
  <2>1. At(q) = "none"
    BY <1>4, Memory
  <2> QED
    BY <1>4, <2>1 DEF Chars
<1> QED
  BY <1>1, <1>2, <1>3, <1>4

(* A search that begins in the mapping ends there or at its end.              *)
LEMMA FirstFound ==
    ASSUME file \in Files, NEW q \in 0 .. Backed, NEW S
    PROVE  /\ First(q, S) \in q .. Backed
           /\ At(First(q, S)) \in S \cup {"none"}
           /\ \A m \in q .. First(q, S) - 1 : At(m) \notin S \cup {"none"}
<1> DEFINE T == {n \in q .. Backed : At(n) \in S \cup {"none"}}
<1>0. Backed \in Nat /\ q \in Nat
  BY Memory
<1>1. At(Backed) = "none"
  BY <1>0, Memory
<1>2. Backed \in T /\ T \in SUBSET Nat
  BY <1>0, <1>1
<1>3. PICK n \in T : \A m \in T : n <= m
  BY <1>2, LeastOffset
<1>4. \A m \in q .. n - 1 : m \in q .. Backed /\ m \notin T
  BY <1>0, <1>3
<1>5. /\ n \in q .. Backed /\ At(n) \in S \cup {"none"}
      /\ \A m \in q .. n - 1 : At(m) \notin S \cup {"none"}
  BY <1>3, <1>4
<1> HIDE DEF T
<1> QED
  BY <1>5 DEF First

-----------------------------------------------------------------------------
(* The end of the line, which begins behind another one.                      *)
LEMMA LineEnd ==
    ASSUME IndInv, at = "lines", At(p) # "nul", NEW end, end = First(p, {"nl", "nul"})
    PROVE  /\ end \in p .. Backed /\ p \in Nat
           /\ \A m \in p .. end - 1 : At(m) \notin {"nl", "nul", "none"}
           /\ At(end) = "none" => FillsPage
           /\ At(end) # "none" =>
                 /\ At(end) \in {"nl", "nul"} /\ end < Backed /\ end <= Len(file)
                 /\ end + 1 <= Len(file) => file[end + 1] = "nl"
                 /\ end + 1 > Len(file) => end = Len(file) /\ LastUnended
<1> DEFINE L == Len(file)
<1>1. file \in Files /\ p \in 0 .. Backed /\ LineStart
  BY DEF IndInv, TypeOK
<1>2. L \in Nat /\ Backed \in Nat /\ L <= Backed /\ p \in Nat
  BY <1>1, Memory
<1>3. /\ end \in p .. Backed /\ At(end) \in {"nl", "nul", "none"}
      /\ \A m \in p .. end - 1 : At(m) \notin {"nl", "nul", "none"}
  BY <1>1, FirstFound
<1>4. p > L => p = L + 1 /\ LastUnended /\ Backed <= p
  <2>1. p > L => p = L + 1 /\ LastUnended
    BY <1>1 DEF LineStart
  <2>2. L <= p /\ p < Backed => At(p) = "nul"
    BY <1>1, <1>2, Memory
  <2> QED
    BY <1>2, <2>1, <2>2
<1>5. At(L) \in {"nul", "none"} /\ (L < Backed => At(L) = "nul")
  BY <1>1, <1>2, Memory
<1>6. ASSUME At(end) = "none"
      PROVE  FillsPage
  <2>1. Backed <= end /\ end = Backed
    BY <1>1, <1>2, <1>3, <1>6, WhichByte
  <2>2. CASE p <= L
    <3>1. ~(L < Backed)
      BY <1>2, <1>3, <1>5, <2>1, <2>2
    <3>2. Backed = L
      BY <1>2, <3>1
    <3>3. L % Page = 0
      BY <1>2, <3>2, IniInstance, RoundedUp DEF Backed
    <3> QED
      BY <3>3 DEF FillsPage
  <2>3. CASE p > L
    <3>1. Backed = L + 1 /\ LastUnended
      BY <1>1, <1>2, <1>4, <2>3
    <3>2. L % Page = Page - 1
      BY <1>2, <3>1, IniInstance, RoundedUp DEF Backed
    <3> QED
      BY <3>1, <3>2 DEF FillsPage
  <2> QED
    BY <1>2, <2>2, <2>3
<1>7. ASSUME At(end) # "none"
      PROVE  /\ At(end) \in {"nl", "nul"} /\ end < Backed /\ end <= L
             /\ end + 1 <= L => file[end + 1] = "nl"
             /\ end + 1 > L => end = L /\ LastUnended
  <2>1. end \in Nat /\ end < Backed
    BY <1>1, <1>2, <1>3, <1>7, Memory
  <2>2. p <= L
    BY <1>2, <1>3, <1>4, <2>1
  <2>3. end <= L
    <3>1. CASE end > L
      <4>1. L \in p .. end - 1
        BY <1>2, <2>1, <2>2, <3>1
      <4> QED
        BY <1>3, <1>5, <4>1
    <3> QED
      BY <1>2, <2>1, <3>1
  <2>4. ASSUME end + 1 <= L
        PROVE  file[end + 1] = "nl"
    <3>1. At(end) = file[end + 1] /\ At(end) \in Chars
      BY <1>1, <1>2, <2>1, <2>4, Memory
    <3> QED
      BY <1>3, <3>1 DEF Chars
  <2>5. ASSUME end + 1 > L
        PROVE  end = L /\ LastUnended
    <3>1. end = L
      BY <1>2, <2>1, <2>3, <2>5
    <3>2. p # L
      BY <1>5, <1>7, <3>1
    <3>3. L - 1 \in p .. end - 1 /\ L - 1 \in Nat /\ L - 1 < L /\ L > 0 /\ (L - 1) + 1 = L
      BY <1>2, <2>2, <3>1, <3>2
    <3>4. At(L - 1) = file[(L - 1) + 1] /\ At(L - 1) # "nl"
      BY <1>1, <1>3, <3>3, Memory
    <3>5. file # <<>>
      <4>1. Len(<<>>) = 0
        BY EmptySeq
      <4> QED
        BY <3>3, <4>1
    <3>6. file[L] # "nl"
      BY <3>3, <3>4
    <3> QED
      BY <3>1, <3>5, <3>6 DEF LastUnended
  <2> QED
    BY <1>3, <1>7, <2>1, <2>3, <2>4, <2>5
<1> QED
  BY <1>2, <1>3, <1>6, <1>7

-----------------------------------------------------------------------------
(* Keys are cut to the length of parse_line's array.                          *)
LEMMA KeyFits ==
    ASSUME NEW s \in Seq(Chars)
    PROVE  Kept(s) \in {k \in Seq(Chars) : Len(k) <= KeyMax}
<1>1. PICK n : n = IF Len(s) < KeyMax THEN Len(s) ELSE KeyMax
  OBVIOUS
<1>2. n \in Nat /\ n <= KeyMax /\ n <= Len(s)
  BY <1>1, IniInstance, LenProperties
<1>3. \A j \in 1 .. n : s[j] \in Chars
  BY <1>2, LenProperties
<1>4. SubSeq(s, 1, n) \in Seq(Chars) /\ Len(SubSeq(s, 1, n)) = IF 1 <= n THEN n - 1 + 1 ELSE 0
  BY <1>2, <1>3, SubSeqProperties
<1>5. Len(SubSeq(s, 1, n)) <= KeyMax
  BY <1>2, <1>4, IniInstance
<1> QED
  BY <1>1, <1>4, <1>5 DEF Kept

LEMMA BytesAreChars ==
    ASSUME NEW q \in Nat, NEW n \in Nat, NEW S, \A m \in q .. q + n - 1 : At(m) \in S
    PROVE  Bytes(q, n) \in Seq(S)
<1>1. \A k \in 1 .. n : q + k - 1 \in q .. q + n - 1
  OBVIOUS
<1>2. Bytes(q, n) \in [1 .. n -> S]
  BY <1>1 DEF Bytes
<1> QED
  BY <1>2, SeqDef

(* parse_line stays in the file unless that fills its last page; the value it *)
(* takes ends where the line does, or is empty if it begins behind that.      *)
LEMMA LineParsed ==
    ASSUME file \in Files, NEW line \in Nat, NEW end \in Nat, line <= end, end < Backed,
           end <= Len(file), At(end) \in {"nl", "nul"},
           \A m \in line .. end - 1 : At(m) \notin {"nl", "nul", "none"},
           NEW r, r = ParseLine(line, end - line)
    PROVE  \/ r.crashed = TRUE /\ Backed = Len(file)
           \/ /\ r.crashed = FALSE /\ r.rv \in -1 .. Backed
              /\ r.new = <<>> \/ \E e \in Entries : r.new = <<e>>
<1> DEFINE Good == \/ r.crashed = TRUE /\ Backed = Len(file)
                   \/ /\ r.crashed = FALSE /\ r.rv \in -1 .. Backed
                      /\ r.new = <<>> \/ \E e \in Entries : r.new = <<e>>
           Answer(result, new) == [crashed |-> FALSE, rv |-> result, new |-> new]
<1> SUFFICES Good
  OBVIOUS
<1>1. PICK L \in Nat, B \in Nat : L = Len(file) /\ B = Backed /\ L <= B
  BY Memory
<1>2. PICK key, stop, val : key = EndOfBlanks(line) /\ stop = EndOfKey(key) /\ val = EndOfBlanks(stop + 1)
  OBVIOUS
<1>3. ASSUME NEW v \in -1 .. B, NEW new, new = <<>> \/ \E e \in Entries : new = <<e>>,
             r = Answer(v, new)
      PROVE  Good
  BY <1>1, <1>3
<1>4. r.crashed = TRUE /\ L = B => Good
  BY <1>1
<1> HIDE DEF Good
<1>5. line <= end /\ end < B /\ end <= L
  BY <1>1
<1>6. ASSUME NEW q \in Nat, NEW n, q <= L, L < B, \A m \in q .. n - 1 : At(m) # "nul", n = B
      PROVE  FALSE
  <2>1. At(L) = "nul"
    BY <1>1, <1>6, Memory
  <2>2. L \in q .. n - 1
    BY <1>6
  <2> QED
    BY <1>6, <2>1, <2>2
<1>7. /\ key \in line .. B
      /\ At(key) \in {"nl", "#", "x", "nul", "none"}
      /\ \A m \in line .. key - 1 : At(m) \notin {"nl", "#", "x", "nul", "none"}
  <2>1. line \in 0 .. Backed
    BY <1>1, <1>5
  <2> QED
    BY <1>1, <1>2, <2>1, FirstFound DEF EndOfBlanks
<1>8. key \in Nat /\ line <= key /\ key <= B /\ key <= L
  <2>1. key \in line .. B
    BY <1>7
  <2>2. ~(end \in line .. key - 1)
    BY <1>7
  <2> QED
    BY <1>5, <2>1, <2>2
<1>9. /\ stop \in key .. B
      /\ At(stop) \in {" ", "nul", "none"}
      /\ \A m \in key .. stop - 1 : At(m) \notin {" ", "nul", "none"}
  <2>1. key \in 0 .. Backed
    BY <1>1, <1>8
  <2>2. stop = First(key, {" ", "nul"})
    BY <1>2 DEF EndOfKey
  <2>3. /\ stop \in key .. Backed /\ At(stop) \in {" ", "nul"} \cup {"none"}
        /\ \A m \in key .. stop - 1 : At(m) \notin {" ", "nul"} \cup {"none"}
    BY <2>1, <2>2, FirstFound
  <2> QED
    BY <1>1, <2>3
<1>10. stop \in Nat /\ key <= stop /\ stop <= B
  <2>1. stop \in key .. B
    BY <1>9
  <2> QED
    BY <1>8, <2>1
<1>11. CASE At(key) \in {"#", "nul"}
  <2>1. r = Answer(0, <<>>)
    BY <1>2, <1>11 DEF ParseLine
  <2> QED
    BY <1>3, <2>1
<1>12. CASE At(key) \notin {"#", "nul"} /\ At(stop) = "nul"
  <2>1. r = Answer(-1, <<>>)
    BY <1>2, <1>12 DEF ParseLine
  <2>2. -1 \in -1 .. B
    OBVIOUS
  <2> QED
    BY <1>3, <2>1, <2>2
<1>13. CASE At(key) \notin {"#", "nul"} /\ At(stop) = "none"
  <2>1. r.crashed = TRUE
    BY <1>2, <1>13 DEF ParseLine
  <2>2. Backed <= stop
    BY <1>10, <1>13, WhichByte
  <2>3. stop = B
    BY <1>1, <1>10, <2>2
  <2>4. ~(L < B)
    BY <1>6, <1>8, <1>9, <2>3
  <2> QED
    BY <1>1, <1>4, <2>1, <2>4
<1>14. CASE At(key) \notin {"#", "nul"} /\ At(stop) = " "
  <2>1. stop + 1 \in Nat /\ stop + 1 <= L
    <3>1. At(stop) \in Chars
      BY <1>14 DEF Chars
    <3>2. stop < Len(file)
      BY <1>10, <3>1, WhichByte
    <3> QED
      BY <1>1, <1>10, <3>2
  <2>2. /\ val \in stop + 1 .. B
        /\ At(val) \in {"nl", "#", "x", "nul", "none"}
        /\ \A m \in stop + 1 .. val - 1 : At(m) \notin {"nl", "#", "x", "nul", "none"}
    <3>1. stop + 1 \in 0 .. Backed
      BY <1>1, <2>1
    <3> QED
      BY <1>1, <1>2, <3>1, FirstFound DEF EndOfBlanks
  <2>3. val \in Nat /\ stop < val /\ val <= B
    <3>1. val \in stop + 1 .. B
      BY <2>2
    <3> QED
      BY <1>10, <3>1
  <2>4. CASE At(val) = "none"
    <3>1. r.crashed = TRUE
      BY <1>2, <1>14, <2>4 DEF ParseLine
    <3>2. Backed <= val
      BY <2>3, <2>4, WhichByte
    <3>3. val = B
      BY <1>1, <2>3, <3>2
    <3>4. ~(L < B)
      BY <1>6, <2>1, <2>2, <3>3
    <3> QED
      BY <1>1, <1>4, <3>1, <3>4
  <2>5. CASE At(val) # "none"
    <3>1. PICK e : e = Entry(Kept(Bytes(key, stop - key)), val, ValueLength(line, end - line, val))
      OBVIOUS
    <3>2. r = Answer(val - line, <<e>>)
      BY <1>2, <1>14, <2>5, <3>1 DEF ParseLine
    <3>3. val - line \in -1 .. B
      BY <1>8, <1>10, <2>3
    <3>4. Kept(Bytes(key, stop - key)) \in {k \in Seq(Chars) : Len(k) <= KeyMax}
      <4>1. stop - key \in Nat /\ key + (stop - key) - 1 = stop - 1
        BY <1>8, <1>10
      <4>2. ASSUME NEW m \in key .. stop - 1
            PROVE  At(m) \in Chars
        <5>1. m \in Nat
          BY <1>8, <1>10
        <5> QED
          BY <1>9, <5>1, WhichByte
      <4>3. Bytes(key, stop - key) \in Seq(Chars)
        BY <1>8, <4>1, <4>2, BytesAreChars
      <4> QED
        BY <4>3, KeyFits
    <3>5. PICK n : n = ValueLength(line, end - line, val)
      OBVIOUS
    <3>6. n = end - val /\ n \in Int
      BY <2>3, <3>5 DEF ValueLength
    <3>7. ASSUME n >= 0
          PROVE  Bytes(val, n) \in Seq(Chars \ {"nl"})
      <4>1. n \in Nat /\ val + n - 1 = end - 1
        BY <2>3, <3>6, <3>7
      <4>2. ASSUME NEW m \in val .. end - 1
            PROVE  At(m) \in Chars \ {"nl"}
        <5>1. m \in line .. end - 1 /\ m \in Nat
          BY <1>8, <1>10, <2>3
        <5> QED
          BY <5>1, WhichByte
      <4> QED
        BY <2>3, <4>1, <4>2, BytesAreChars
    <3>8. e \in Entries
      <4>1. <<>> \in Seq(Chars \ {"nl"})
        BY EmptySeq
      <4>2. e = [key |-> Kept(Bytes(key, stop - key)), ok |-> n >= 0,
                 val |-> IF n >= 0 THEN Bytes(val, n) ELSE <<>>]
        BY <3>1, <3>5 DEF Entry
      <4>3. CASE n >= 0
        <5>1. e = [key |-> Kept(Bytes(key, stop - key)), ok |-> TRUE, val |-> Bytes(val, n)]
          BY <4>2, <4>3
        <5> QED
          BY <3>4, <3>7, <4>3, <5>1 DEF Entries
      <4>4. CASE ~(n >= 0)
        <5>0. (n >= 0) = FALSE
          BY <4>4
        <5>1. e = [key |-> Kept(Bytes(key, stop - key)), ok |-> FALSE, val |-> <<>>]
          BY <4>2, <5>0, Zenon
        <5> QED
          BY <3>4, <4>1, <5>1 DEF Entries
      <4> QED
        BY <4>3, <4>4
    <3> QED
      BY <1>3, <3>2, <3>3, <3>8
  <2> QED
    BY <2>4, <2>5
<1> QED
  BY <1>9, <1>11, <1>12, <1>13, <1>14

(* A last line that is one word: its end is taken for a zero, the result is   *)
(* negative.                                                                  *)
LEMMA LastLineParsed ==
    ASSUME file \in Files, LastWithoutValue, NEW line \in Nat, line < Len(file), Len(file) < Backed,
           \A m \in line .. Len(file) - 1 : At(m) \notin {"nl", "nul", "none"},
           NEW n
    PROVE  ParseLine(line, n).rv = -1
<1>1. PICK L \in Nat, B \in Nat : L = Len(file) /\ B = Backed /\ line < L /\ L < B
  BY Memory
<1>2. ASSUME NEW m \in line .. L - 1
      PROVE  m \in Nat /\ At(m) = "x"
  <2>1. m \in Nat /\ m < L /\ m + 1 \in 1 .. L
    BY <1>1, <1>2
  <2>2. \A j \in m + 1 .. L : file[j] # "nl"
    <3> SUFFICES ASSUME NEW j \in m + 1 .. L PROVE file[j] # "nl"
      OBVIOUS
    <3>1. j - 1 \in line .. L - 1 /\ j - 1 \in Nat /\ j - 1 < L /\ (j - 1) + 1 = j
      BY <1>1, <1>2
    <3>2. At(j - 1) # "nl" /\ At(j - 1) = file[j]
      BY <1>1, <3>1, Memory
    <3> QED
      BY <3>2
  <2>3. m + 1 \in LastLine
    BY <1>1, <2>1, <2>2 DEF LastLine
  <2>4. file[m + 1] = "x"
    BY <2>3 DEF LastWithoutValue
  <2>5. At(m) = file[m + 1]
    BY <1>1, <2>1, Memory
  <2> QED
    BY <2>1, <2>4, <2>5
<1>3. PICK key, stop : key = EndOfBlanks(line) /\ stop = EndOfKey(key)
  OBVIOUS
<1>4. line \in 0 .. Backed /\ line \in line .. L - 1
  BY <1>1
<1>5. key = line
  <2>1. key \in line .. Backed /\ \A m \in line .. key - 1 : At(m) # "x"
    BY <1>3, <1>4, FirstFound DEF EndOfBlanks
  <2>2. At(line) = "x"
    BY <1>2, <1>4
  <2>3. ~(line \in line .. key - 1)
    BY <2>1, <2>2
  <2> QED
    BY <1>1, <2>1, <2>3
<1>6. At(stop) = "nul"
  <2>1. /\ stop \in line .. Backed /\ At(stop) \in {" ", "nul", "none"}
        /\ \A m \in line .. stop - 1 : At(m) # "nul"
    <3>1. stop = First(line, {" ", "nul"})
      BY <1>3, <1>5 DEF EndOfKey
    <3>2. /\ stop \in line .. Backed /\ At(stop) \in {" ", "nul"} \cup {"none"}
          /\ \A m \in line .. stop - 1 : At(m) \notin {" ", "nul"} \cup {"none"}
      BY <1>4, <3>1, FirstFound
    <3> QED
      BY <3>2
  <2>2. At(L) = "nul"
    BY <1>1, Memory
  <2>3. ~(L \in line .. stop - 1) /\ ~(stop \in line .. L - 1)
    BY <1>2, <2>1, <2>2
  <2>4. stop \in line .. B
    BY <1>1, <2>1
  <2>5. stop = L
    BY <1>1, <2>3, <2>4
  <2> QED
    BY <2>2, <2>5
<1>7. At(key) = "x"
  BY <1>2, <1>4, <1>5
<1> QED
  BY <1>3, <1>6, <1>7 DEF ParseLine

(* A file whose last line is ended has no last line without a value.          *)
LEMMA NoLastLine ==
    ASSUME file \in Files, LastWithoutValue
    PROVE  LastUnended
<1>1. Len(file) \in Nat
  BY Memory
<1>2. PICK n \in LastLine : TRUE
  BY DEF LastWithoutValue
<1>3. n \in 1 .. Len(file) /\ Len(file) \in n .. Len(file) /\ file[Len(file)] # "nl"
  BY <1>1, <1>2 DEF LastLine
<1>4. file # <<>>
  BY <1>3
<1> QED
  BY <1>3, <1>4 DEF LastUnended

-----------------------------------------------------------------------------
(* nson_load starts at the first byte, with nothing read.                     *)
LEMMA InitInv == Init => IndInv
<1> SUFFICES ASSUME Init PROVE IndInv
  OBVIOUS
<1>1. /\ file \in Files /\ at = "start" /\ p = 0 /\ rv = 0 /\ entries = <<>> /\ failed = FALSE
  BY DEF Init
<1>2. Len(file) \in Nat /\ Backed \in Nat
  BY <1>1, Memory
<1>3. entries \in Seq(Entries) /\ DOMAIN entries = {}
  BY <1>1, EmptySeq
<1>4. 0 \in 0 .. Backed /\ 0 \in -1 .. Backed
  BY <1>2
<1>5. TypeOK
  BY <1>1, <1>3, <1>4 DEF TypeOK
<1>6. LineStart
  BY <1>1, <1>2 DEF LineStart
<1>7. at # "lines" /\ at # "unmap" /\ at # "returned" /\ at # "crashed"
  BY <1>1
<1> QED
  BY <1>1, <1>3, <1>5, <1>6, <1>7 DEF IndInv, CrashesAtPageEnds, FailuresReported

(* What the actions around the loop leave alone.                              *)
LEMMA LeaveInv ==
    ASSUME IndInv, UNCHANGED <<file, p, entries>>, rv' \in {-1, rv}, failed' \in BOOLEAN,
           at' \in {"lines", "unmap", "returned", "crashed"},
           at' = "lines" => at = "start",
           at' = "crashed" => FillsPage, at' = "unmap" => ~FillsPage,
           at' = "lines" => rv' = rv, at' = "unmap" => rv' = rv /\ LastReported,
           at' = "returned" => IF failed' THEN rv' = -1 ELSE rv' = rv /\ LastReported
    PROVE  IndInv'
<1>1. Backed' = Backed /\ (FillsPage' <=> FillsPage) /\ (LineStart' <=> LineStart)
  BY DEF Backed, FillsPage, LastUnended, LineStart
<1>5. LastWithoutValue' <=> LastWithoutValue
  BY DEF LastWithoutValue, LastLine
<1>6. (at \in {"start", "lines"} /\ p > Len(file))' \/ at' = "unmap" => LastReported'
  BY <1>5 DEF IndInv, LastReported
<1>7. FailuresReported'
  BY <1>5 DEF FailuresReported, LastReported
<1>2. -1 \in -1 .. Backed
  BY Memory DEF IndInv
<1>3. TypeOK'
  BY <1>1, <1>2 DEF IndInv, TypeOK
<1>4. CrashesAtPageEnds'
  BY <1>1 DEF CrashesAtPageEnds
<1> QED
  BY <1>1, <1>3, <1>4, <1>6, <1>7 DEF IndInv

(* The read position is zero: the file was not left.                          *)
LEMMA EndOfFileInv == ASSUME IndInv, EndOfFile PROVE IndInv'
<1> DEFINE L == Len(file)
<1>1. file \in Files /\ p \in 0 .. Backed /\ LineStart /\ At(p) = "nul"
  BY DEF IndInv, TypeOK, EndOfFile
<1>2. L \in Nat /\ Backed \in Nat /\ L <= Backed /\ p \in Nat
  BY <1>1, Memory
<1>3. L <= p /\ p < Backed
  BY <1>1, <1>2, WhichByte
<1>4. L % Page # 0
  BY <1>2, <1>3, IniInstance, RoundedUp DEF Backed
<1>5. ASSUME L % Page = Page - 1
      PROVE  ~LastUnended
  <2>1. Backed = L + 1
    BY <1>2, <1>4, <1>5, IniInstance, RoundedUp DEF Backed
  <2>2. p = L
    BY <1>2, <1>3, <2>1
  <2>3. L = 0 \/ file[L] = "nl"
    BY <1>1, <1>2, <2>2 DEF LineStart
  <2>4. L = 0 => file = <<>>
    BY <1>1, IniInstance, EmptySeq
  <2> QED
    BY <2>3, <2>4 DEF LastUnended
<1>6. ~FillsPage
  BY <1>4, <1>5 DEF FillsPage
<1>7. UNCHANGED <<file, p, rv, entries, failed>> /\ at' = "unmap" /\ failed \in BOOLEAN
  BY DEF EndOfFile, IndInv, TypeOK
<1>8. LastReported
  <2>1. CASE p > L
    BY <2>1 DEF EndOfFile, IndInv
  <2>2. CASE p = L
    <3>1. ASSUME LastWithoutValue
          PROVE  FALSE
      <4>1. LastUnended
        BY <1>1, <3>1, NoLastLine
      <4>2. L = 0 \/ file[L] = "nl"
        BY <1>1, <1>2, <2>2 DEF LineStart
      <4>3. L = 0 => file = <<>>
        BY <1>1, IniInstance, EmptySeq
      <4> QED
        BY <4>1, <4>2, <4>3 DEF LastUnended
    <3> QED
      BY <3>1 DEF LastReported
  <2> QED
    BY <1>2, <1>3, <2>1, <2>2
<1> QED
  BY <1>6, <1>7, <1>8, LeaveInv

LEMMA LineInv == ASSUME IndInv, Line PROVE IndInv'
<1>1. PICK end, line : end = First(p, {"nl", "nul"}) /\ line = ParseLine(p, end - p)
  OBVIOUS
<1>2. /\ at = "lines" /\ At(p) # "nul"
      /\ IF At(end) = "none" \/ line.crashed
         THEN Crash
         ELSE /\ rv' = line.rv /\ entries' = entries \o line.new /\ p' = end + 1
              /\ UNCHANGED <<file, at, failed>>
  BY <1>1 DEF Line
<1>3. /\ end \in p .. Backed /\ p \in Nat /\ file \in Files
      /\ \A m \in p .. end - 1 : At(m) \notin {"nl", "nul", "none"}
  BY <1>1, <1>2, LineEnd DEF IndInv
<1>4. CASE At(end) = "none"
  <2>1. FillsPage
    BY <1>1, <1>2, <1>4, LineEnd
  <2> QED
    BY <1>2, <1>4, <2>1, LeaveInv DEF Crash, IndInv, TypeOK
<1>5. CASE At(end) # "none"
  <2>1. At(end) \in {"nl", "nul"} /\ end < Backed /\ end <= Len(file)
    BY <1>1, <1>2, <1>5, LineEnd
  <2>2. end \in Nat /\ p <= end /\ end + 1 \in 0 .. Backed
    <3>1. Backed \in Nat
      BY <1>3, Memory
    <3> QED
      BY <1>3, <2>1, <3>1
  <2>3. \/ line.crashed = TRUE /\ Backed = Len(file)
        \/ /\ line.crashed = FALSE /\ line.rv \in -1 .. Backed
           /\ line.new = <<>> \/ \E e \in Entries : line.new = <<e>>
    BY <1>1, <1>3, <2>1, <2>2, LineParsed
  <2>4. CASE line.crashed = TRUE
    <3>1. Len(file) \in Nat /\ Backed = Len(file)
      BY <1>3, <2>3, <2>4, Memory
    <3>2. Len(file) % Page = 0
      BY <3>1, IniInstance, RoundedUp DEF Backed
    <3>3. FillsPage
      BY <3>2 DEF FillsPage
    <3> QED
      BY <1>2, <2>4, <3>3, LeaveInv DEF Crash, IndInv, TypeOK
  <2>5. CASE line.crashed = FALSE
    <3>1. /\ rv' = line.rv /\ entries' = entries \o line.new /\ p' = end + 1
          /\ UNCHANGED <<file, at, failed>>
      BY <1>2, <1>5, <2>5
    <3>2. Backed' = Backed
      BY <3>1 DEF Backed
    <3>3. entries' \in Seq(Entries)
      <4>1. line.new \in Seq(Entries)
        <5>1. CASE line.new = <<>>
          BY <5>1, EmptySeq
        <5>2. CASE \E e \in Entries : line.new = <<e>>
          BY <5>2
        <5> QED
          BY <2>3, <2>5, <5>1, <5>2
      <4>2. entries \in Seq(Entries)
        BY DEF IndInv
      <4> QED
        BY <3>1, <4>1, <4>2, ConcatProperties
    <3>4. \A n \in DOMAIN entries' : entries'[n].key \in Seq(Chars) /\ Len(entries'[n].key) <= KeyMax
      <4>1. \A n \in DOMAIN entries' : entries'[n] \in Entries
        BY <3>3, LenProperties, ElementOfSeq
      <4> QED
        BY <4>1 DEF Entries
    <3>5. TypeOK'
      BY <2>2, <2>3, <2>5, <3>1, <3>2, <3>4 DEF IndInv, TypeOK
    <3>6. LineStart'
      <4>1. /\ end + 1 <= Len(file) => file[end + 1] = "nl"
            /\ end + 1 > Len(file) => end = Len(file) /\ LastUnended
        BY <1>1, <1>2, <1>5, LineEnd
      <4>2. Len(file) \in Nat
        BY <1>3, Memory
      <4>3. end + 1 \in 1 .. Len(file) => file[end + 1] = "nl"
        BY <2>2, <4>1, <4>2
      <4>4. end + 1 > Len(file) => end + 1 = Len(file) + 1 /\ LastUnended
        BY <4>1
      <4> QED
        BY <3>1, <4>3, <4>4 DEF LineStart, LastUnended
    <3>7. CrashesAtPageEnds'
      BY <1>2, <3>1 DEF CrashesAtPageEnds
    <3>8. end + 1 > Len(file) => LastReported'
      <4> SUFFICES ASSUME end + 1 > Len(file), LastWithoutValue' PROVE rv' < 0
        BY DEF LastReported
      <4>1. LastWithoutValue
        BY <3>1 DEF LastWithoutValue, LastLine
      <4>2. end = Len(file) /\ Len(file) < Backed /\ Len(file) \in Nat
        BY <1>1, <1>2, <1>5, <2>1, LineEnd, Memory
      <4>3. p < Len(file)
        <5>1. p = Len(file) => At(p) = "nul"
          BY <1>3, <4>2, Memory
        <5> QED
          BY <1>2, <1>3, <2>2, <4>2, <5>1
      <4>4. line.rv = -1
        BY <1>1, <1>3, <4>1, <4>2, <4>3, LastLineParsed
      <4> QED
        BY <3>1, <4>4
    <3>9. FailuresReported'
      BY <1>2, <3>1 DEF FailuresReported
    <3> QED
      BY <1>2, <1>3, <3>1, <3>3, <3>5, <3>6, <3>7, <3>8, <3>9 DEF IndInv
  <2> QED
    BY <2>3, <2>4, <2>5
<1> QED
  BY <1>4, <1>5

-----------------------------------------------------------------------------
(* The invariant holds for every page size, key length and set of files.      *)
THEOREM ReaderInvariance == Spec => []IndInv
<1>1. ASSUME IndInv, [Next]_vars
      PROVE  IndInv'
  <2>1. failed \in BOOLEAN
    BY <1>1 DEF IndInv, TypeOK
  <2>2. CASE Load
    BY <1>1, <2>1, <2>2, LeaveInv DEF Load
  <2>3. CASE LoadFails
    BY <1>1, <2>3, LeaveInv DEF LoadFails
  <2>4. CASE Unmap
    <3>1. LastReported
      BY <1>1, <2>4 DEF IndInv, Unmap
    <3> QED
      BY <1>1, <2>4, <3>1, LeaveInv DEF Unmap
  <2>5. CASE UNCHANGED vars
    BY <1>1, <2>5 DEF vars, IndInv, TypeOK, LineStart, LastUnended, CrashesAtPageEnds, FillsPage, Backed,
        LastReported, LastWithoutValue, LastLine, FailuresReported
  <2> QED
    BY <1>1, <2>2, <2>3, <2>4, <2>5, LineInv, EndOfFileInv DEF Next
<1> QED
  BY <1>1, InitInv, PTL DEF Spec

(* The position stays in the mapping, keys fit the array of parse_line.       *)
THEOREM TypeCorrect == Spec => []TypeOK
<1>1. IndInv => TypeOK
  BY DEF IndInv
<1> QED
  BY <1>1, ReaderInvariance, PTL

(* nson_load, nson_parse_ini: only files that fill their last page, but for   *)
(* one byte at most, are read past the mapping.                               *)
THEOREM CrashesOnlyAtPageEnds == Spec => []CrashesAtPageEnds
<1>1. IndInv => CrashesAtPageEnds
  BY DEF IndInv
<1> QED
  BY <1>1, ReaderInvariance, PTL

(* nson_load, nson_parse_ini: a system call that fails, and a last line that  *)
(* has no value, give the caller a negative result.                           *)
THEOREM FailuresAreReported == Spec => []FailuresReported
<1>1. IndInv => FailuresReported
  BY DEF IndInv
<1> QED
  BY <1>1, ReaderInvariance, PTL

(* parse_line: a value holds no end of line, so it is from one line.          *)
THEOREM ValuesInLine == Spec => []ValuesStayInLine
<1>1. IndInv => ValuesStayInLine
  <2> SUFFICES ASSUME IndInv, NEW n \in DOMAIN entries, NEW m \in DOMAIN entries[n].val
               PROVE  entries[n].val[m] # "nl"
    BY DEF ValuesStayInLine
  <2>1. entries[n] \in Entries
    BY LenProperties, ElementOfSeq DEF IndInv
  <2>2. entries[n].val \in Seq(Chars \ {"nl"})
    BY <2>1 DEF Entries
  <2>3. entries[n].val[m] \in Chars \ {"nl"}
    BY <2>2, LenProperties, ElementOfSeq
  <2> QED
    BY <2>3
<1> QED
  BY <1>1, ReaderInvariance, PTL

-----------------------------------------------------------------------------
(* What a search forward must be for it to have ended at n.                   *)
LEMMA FirstIs ==
    ASSUME file \in Files, NEW q \in Nat, NEW n \in q .. Backed, NEW S,
           At(n) \in S \cup {"none"}, \A m \in q .. n - 1 : At(m) \notin S \cup {"none"}
    PROVE  First(q, S) = n
<1>1. Backed \in Nat /\ q \in 0 .. Backed
  BY Memory
<1>2. PICK k : k = First(q, S)
  OBVIOUS
<1>3. /\ k \in q .. Backed /\ At(k) \in S \cup {"none"}
      /\ \A m \in q .. k - 1 : At(m) \notin S \cup {"none"}
  BY <1>1, <1>2, FirstFound
<1>4. ~(k \in q .. n - 1) /\ ~(n \in q .. k - 1)
  BY <1>3
<1> QED
  BY <1>1, <1>2, <1>3, <1>4

(* The sequence s is what the memory holds from q up to n, which is in one    *)
(* line.                                                                      *)
Holds(s, q, n) ==
    /\ q \in Nat /\ n \in Nat /\ q <= n /\ n < Backed
    /\ s \in Seq(Chars) /\ Len(s) = n - q
    /\ \A j \in 1 .. n - q : s[j] = At(q + j - 1) /\ s[j] # "nl"

LEMMA HoldsFrom ==
    ASSUME NEW s, NEW q, NEW n, Holds(s, q, n), NEW j \in 1 .. Len(s) + 1
    PROVE  Holds(SubSeq(s, j, Len(s)), q + j - 1, n)
<1>1. /\ q \in Nat /\ n \in Nat /\ q <= n /\ n < Backed
      /\ s \in Seq(Chars) /\ Len(s) = n - q
      /\ \A k \in 1 .. n - q : s[k] = At(q + k - 1) /\ s[k] # "nl"
  BY DEF Holds
<1>2. PICK L \in Nat : L = Len(s) /\ L = n - q
  BY <1>1
<1>3. \A k \in j .. L : s[k] \in Chars
  BY <1>1, <1>2, ElementOfSeq
<1>4. j \in 1 .. L + 1
  BY <1>2
<1>5. PICK t : t = SubSeq(s, j, L)
  OBVIOUS
<1>6. /\ t \in Seq(Chars) /\ Len(t) = IF j <= L THEN L - j + 1 ELSE 0
      /\ \A k \in 1 .. L - j + 1 : t[k] = s[j + k - 1]
  BY <1>2, <1>3, <1>4, <1>5, SubSeqProperties
<1>7. Len(t) = n - (q + j - 1) /\ q + j - 1 \in Nat /\ q + j - 1 <= n
  BY <1>1, <1>2, <1>4, <1>6
<1>8. ASSUME NEW k \in 1 .. n - (q + j - 1)
      PROVE  t[k] = At((q + j - 1) + k - 1) /\ t[k] # "nl"
  <2>1. k \in 1 .. L - j + 1 /\ j + k - 1 \in 1 .. n - q /\ q + (j + k - 1) - 1 = (q + j - 1) + k - 1
    BY <1>1, <1>2, <1>4
  <2>2. s[j + k - 1] = At(q + (j + k - 1) - 1) /\ s[j + k - 1] # "nl"
    BY <1>1, <2>1
  <2> QED
    BY <1>6, <2>1, <2>2
<1>9. Holds(t, q + j - 1, n)
  BY <1>1, <1>6, <1>7, <1>8 DEF Holds
<1> QED
  BY <1>2, <1>5, <1>9

(* The bytes that are copied are the sequence.                                *)
LEMMA HoldsBytes ==
    ASSUME NEW s, NEW q, NEW n, Holds(s, q, n), NEW k \in 0 .. Len(s)
    PROVE  Bytes(q, k) = SubSeq(s, 1, k)
<1>1. /\ q \in Nat /\ n \in Nat /\ q <= n
      /\ s \in Seq(Chars) /\ Len(s) = n - q
      /\ \A j \in 1 .. n - q : s[j] = At(q + j - 1)
  BY DEF Holds
<1>2. k \in Nat /\ k <= n - q
  BY <1>1
<1>3. SubSeq(s, 1, k) \in Seq(Chars) /\ Len(SubSeq(s, 1, k)) = k
      /\ \A j \in 1 .. k : SubSeq(s, 1, k)[j] = s[j]
  <2>1. \A j \in 1 .. k : s[j] \in Chars
    BY <1>1, <1>2, ElementOfSeq
  <2>2. /\ SubSeq(s, 1, k) \in Seq(Chars) /\ Len(SubSeq(s, 1, k)) = IF 1 <= k THEN k - 1 + 1 ELSE 0
        /\ \A j \in 1 .. k - 1 + 1 : SubSeq(s, 1, k)[j] = s[1 + j - 1]
    BY <1>2, <2>1, SubSeqProperties
  <2> QED
    BY <1>2, <2>2
<1>4. Bytes(q, k) \in [1 .. k -> Chars]
  <2>1. \A j \in 1 .. k : j \in 1 .. Len(s) /\ s[j] = At(q + j - 1)
    BY <1>1, <1>2
  <2>2. \A j \in 1 .. k : s[j] \in Chars
    BY <1>1, <2>1, ElementOfSeq
  <2>3. \A j \in 1 .. k : At(q + j - 1) \in Chars
    BY <2>1, <2>2
  <2> QED
    BY <2>3 DEF Bytes
<1>5. Bytes(q, k) \in Seq(Chars) /\ Len(Bytes(q, k)) = k
  BY <1>2, <1>4, SeqDef, LenProperties
<1>6. \A j \in 1 .. k : Bytes(q, k)[j] = SubSeq(s, 1, k)[j]
  BY <1>1, <1>2, <1>3 DEF Bytes
<1> QED
  BY <1>2, <1>3, <1>5, <1>6, SeqEqual

(* EndOfBlanks skips the indentation.                                         *)
LEMMA BlanksSkipped ==
    ASSUME file \in Files, NEW s, NEW q, NEW n, Holds(s, q, n), At(n) \in {"nl", "nul"}
    PROVE  /\ Holds(Unindented(s), EndOfBlanks(q), n)
           /\ Unindented(s) # <<>> => Head(Unindented(s)) = At(EndOfBlanks(q))
           /\ Unindented(s) = <<>> => EndOfBlanks(q) = n
<1> DEFINE Blank(c) == c = " "
           Stop(k) == /\ \A m \in 1 .. k - 1 : Blank(s[m])
                      /\ k <= Len(s) => ~Blank(s[k])
           Indented == CHOOSE k \in 1 .. Len(s) + 1 : Stop(k)
<1>1. Unindented(s) = SubSeq(s, Indented, Len(s))
  BY DEF Unindented
<1> HIDE DEF Blank
<1>2. /\ q \in Nat /\ n \in Nat /\ q <= n /\ n < Backed
      /\ s \in Seq(Chars) /\ Len(s) = n - q
      /\ \A j \in 1 .. n - q : s[j] = At(q + j - 1) /\ s[j] # "nl"
  BY DEF Holds
<1>3. PICK L \in Nat : /\ L = Len(s) /\ L = n - q
                       /\ q \in Nat /\ n \in Nat /\ q <= n /\ n < Backed
                       /\ \A j \in 1 .. L : s[j] = At(q + j - 1) /\ s[j] # "nl" /\ s[j] \in Chars
  BY <1>2, ElementOfSeq
<1> DEFINE T == {k \in 1 .. L + 1 : k <= L => ~Blank(s[k])}
<1>4. L + 1 \in T /\ T \in SUBSET Nat
  BY <1>3
<1>5. PICK k \in T : \A m \in T : k <= m
  BY <1>4, LeastOffset
<1>6. \A m \in 1 .. k - 1 : m \in 1 .. L /\ m \notin T
  BY <1>3, <1>5
<1>7. k \in 1 .. Len(s) + 1 /\ Stop(k)
  BY <1>3, <1>5, <1>6
<1>8. PICK f \in 1 .. Len(s) + 1 : Stop(f) /\ f = Indented
  BY <1>7
<1>9. Unindented(s) = SubSeq(s, f, Len(s))
  BY <1>1, <1>8
<1>10. f \in 1 .. L + 1 /\ (\A m \in 1 .. f - 1 : Blank(s[m])) /\ (f <= L => ~Blank(s[f]))
  BY <1>3, <1>8
<1>11. Holds(Unindented(s), q + f - 1, n)
  BY <1>8, <1>9, HoldsFrom
<1>12. q + f - 1 \in q .. n /\ q + f - 1 \in q .. Backed
  <2>1. Backed \in Nat
    BY Memory
  <2> QED
    BY <1>3, <1>10, <2>1
<1>13. /\ f <= L => At(q + f - 1) = s[f] /\ s[f] \in Chars /\ ~Blank(s[f])
       /\ ~(f <= L) => q + f - 1 = n
  <2>1. ASSUME f <= L
        PROVE  At(q + f - 1) = s[f] /\ s[f] \in Chars /\ ~Blank(s[f])
    <3>1. f \in 1 .. L
      BY <1>3, <1>10, <2>1
    <3> QED
      BY <1>3, <1>10, <2>1, <3>1
  <2> QED
    BY <1>3, <1>10, <2>1
<1>14. EndOfBlanks(q) = q + f - 1
  <2>1. At(q + f - 1) \in {"nl", "#", "x", "nul"} \cup {"none"}
    BY <1>10, <1>13 DEF Chars, Blank
  <2>2. ASSUME NEW m \in q .. (q + f - 1) - 1
        PROVE  At(m) \notin {"nl", "#", "x", "nul"} \cup {"none"}
    <3>1. m - q + 1 \in 1 .. f - 1 /\ m - q + 1 \in 1 .. L /\ q + (m - q + 1) - 1 = m
      BY <1>3, <1>10
    <3>2. Blank(s[m - q + 1]) /\ s[m - q + 1] = At(q + (m - q + 1) - 1)
      BY <1>3, <1>10, <3>1
    <3>3. Blank(At(m))
      BY <3>1, <3>2
    <3> QED
      BY <3>3 DEF Blank
  <2> QED
    BY <1>3, <1>12, <2>1, <2>2, FirstIs DEF EndOfBlanks
<1>15. /\ f <= L => Unindented(s) # <<>> /\ Head(Unindented(s)) = s[f]
       /\ ~(f <= L) => Unindented(s) = <<>>
  <2>1. Unindented(s) \in Seq(Chars) /\ Len(Unindented(s)) = n - (q + f - 1)
    BY <1>11 DEF Holds
  <2>2. ASSUME f <= L
        PROVE  Unindented(s) # <<>> /\ Head(Unindented(s)) = s[f]
    <3>1. Len(Unindented(s)) > 0 /\ Unindented(s)[1] = At((q + f - 1) + 1 - 1)
      BY <1>3, <1>10, <1>11, <2>2 DEF Holds
    <3>2. Unindented(s) # <<>>
      BY <3>1, EmptySeq
    <3>3. (q + f - 1) + 1 - 1 = q + f - 1
      BY <1>3, <1>10
    <3> QED
      BY <1>13, <2>1, <2>2, <3>1, <3>2, <3>3, HeadTailProperties
  <2>3. ASSUME ~(f <= L)
        PROVE  Unindented(s) = <<>>
    <3>1. Len(Unindented(s)) = 0
      BY <1>3, <1>10, <2>1, <2>3
    <3> QED
      BY <2>1, <3>1, EmptySeq
  <2> QED
    BY <2>2, <2>3
<1> QED
  BY <1>11, <1>13, <1>14, <1>15

(* EndOfKey ends the word, if there is a blank behind it.                     *)
LEMMA KeyEnds ==
    ASSUME file \in Files, NEW s, NEW q, NEW n, Holds(s, q, n)
    PROVE  /\ KeyLength(s) \in 0 .. Len(s)
           /\ KeyLength(s) < Len(s) =>
                 /\ EndOfKey(q) = q + KeyLength(s)
                 /\ At(EndOfKey(q)) = " "
<1> DEFINE Blank(c) == c = " "
           Ends(k) == (\A m \in 1 .. k : ~Blank(s[m])) /\ (k < Len(s) => Blank(s[k + 1]))
           Word == CHOOSE k \in 0 .. Len(s) : Ends(k)
<1>1. KeyLength(s) = Word
  BY DEF KeyLength
<1> HIDE DEF Blank
<1>2. /\ q \in Nat /\ n \in Nat /\ q <= n /\ n < Backed
      /\ s \in Seq(Chars) /\ Len(s) = n - q
      /\ \A j \in 1 .. n - q : s[j] = At(q + j - 1) /\ s[j] # "nl"
  BY DEF Holds
<1>3. PICK L \in Nat : /\ L = Len(s) /\ L = n - q
                       /\ q \in Nat /\ n \in Nat /\ q <= n /\ n < Backed
                       /\ \A j \in 1 .. L : s[j] = At(q + j - 1) /\ s[j] # "nl" /\ s[j] \in Chars
  BY <1>2, ElementOfSeq
<1> DEFINE T == {k \in 0 .. L : k < L => Blank(s[k + 1])}
<1>4. L \in T /\ T \in SUBSET Nat
  BY <1>3
<1>5. PICK k \in T : \A m \in T : k <= m
  BY <1>4, LeastOffset
<1>6. ASSUME NEW m \in 1 .. k
      PROVE  ~Blank(s[m])
  <2>1. k \in 0 .. L
    OBVIOUS
  <2>2. m - 1 \in 0 .. L /\ (m - 1) + 1 = m /\ m - 1 < k
    BY <2>1
  <2>3. m - 1 \notin T
    BY <1>5, <2>1, <2>2
  <2> QED
    BY <2>2, <2>3
<1>7. k \in 0 .. Len(s) /\ Ends(k)
  BY <1>3, <1>6
<1>8. PICK f \in 0 .. Len(s) : Ends(f) /\ f = Word
  BY <1>7
<1>9. KeyLength(s) = f
  BY <1>1, <1>8
<1>10. f \in 0 .. L /\ (\A m \in 1 .. f : ~Blank(s[m])) /\ (f < L => Blank(s[f + 1]))
  BY <1>3, <1>8
<1>11. ASSUME f < L
       PROVE  EndOfKey(q) = q + f /\ Blank(At(q + f))
  <2>1. f + 1 \in 1 .. L /\ q + (f + 1) - 1 = q + f
    BY <1>3, <1>10, <1>11
  <2>2. Blank(At(q + f))
    BY <1>3, <1>10, <1>11, <2>1
  <2>3. q + f \in q .. Backed
    <3>1. Backed \in Nat
      BY Memory
    <3> QED
      BY <1>3, <1>10, <1>11, <3>1
  <2>4. ASSUME NEW m \in q .. (q + f) - 1
        PROVE  At(m) \notin {" ", "nul"} \cup {"none"}
    <3>1. m - q + 1 \in 1 .. f /\ m - q + 1 \in 1 .. L /\ q + (m - q + 1) - 1 = m
      BY <1>3, <1>10
    <3>2. ~Blank(s[m - q + 1]) /\ s[m - q + 1] = At(m)
      BY <1>3, <1>10, <3>1
    <3>3. s[m - q + 1] \in Chars
      BY <1>3, <3>1
    <3> QED
      BY <3>2, <3>3 DEF Chars, Blank
  <2>5. At(q + f) \in {" ", "nul"} \cup {"none"}
    BY <2>2 DEF Blank
  <2>6. First(q, {" ", "nul"}) = q + f
    BY <1>3, <2>3, <2>4, <2>5, FirstIs
  <2> QED
    BY <2>2, <2>6 DEF EndOfKey
<1> QED
  BY <1>3, <1>9, <1>10, <1>11 DEF Blank

(* Where the blanks end does not depend on the blank one begins at.           *)
LEMMA FirstBehind ==
    ASSUME file \in Files, NEW q \in Nat, q + 1 \in 0 .. Backed, NEW S, At(q) \notin S \cup {"none"}
    PROVE  First(q, S) = First(q + 1, S) /\ First(q, S) > q
<1>1. PICK k : k = First(q + 1, S)
  OBVIOUS
<1>2. /\ k \in q + 1 .. Backed /\ At(k) \in S \cup {"none"}
      /\ \A m \in q + 1 .. k - 1 : At(m) \notin S \cup {"none"}
  BY <1>1, FirstFound
<1>3. Backed \in Nat
  BY Memory
<1>4. k \in q .. Backed /\ k > q /\ \A m \in q .. k - 1 : m = q \/ m \in q + 1 .. k - 1
  BY <1>2, <1>3
<1>5. \A m \in q .. k - 1 : At(m) \notin S \cup {"none"}
  BY <1>2, <1>4
<1>6. First(q, S) = k
  BY <1>2, <1>4, <1>5, FirstIs
<1> QED
  BY <1>1, <1>4, <1>6

LEMMA BlankSkipped ==
    ASSUME file \in Files, NEW q \in Nat, q + 1 \in 0 .. Backed, At(q) = " "
    PROVE  EndOfBlanks(q) = EndOfBlanks(q + 1) /\ EndOfBlanks(q) > q
<1>1. At(q) \notin {"nl", "#", "x", "nul"} \cup {"none"}
  OBVIOUS
<1> QED
  BY <1>1, FirstBehind DEF EndOfBlanks

LEMMA WholeSubSeq ==
    ASSUME NEW w \in Seq(Chars)
    PROVE  SubSeq(w, 1, Len(w)) = w
<1>1. PICK L \in Nat : L = Len(w) /\ \A j \in 1 .. L : w[j] \in Chars
  BY LenProperties, ElementOfSeq
<1>2. /\ SubSeq(w, 1, L) \in Seq(Chars) /\ Len(SubSeq(w, 1, L)) = IF 1 <= L THEN L - 1 + 1 ELSE 0
      /\ \A j \in 1 .. L - 1 + 1 : SubSeq(w, 1, L)[j] = w[1 + j - 1]
  BY <1>1, SubSeqProperties
<1>3. Len(SubSeq(w, 1, L)) = L /\ \A j \in 1 .. L : SubSeq(w, 1, L)[j] = w[j]
  BY <1>2
<1> QED
  BY <1>1, <1>2, <1>3, SeqEqual

(* parse_line takes a comment for nothing and a key with a value for both.    *)
LEMMA LineRead ==
    ASSUME file \in Files, NEW s, NEW q, NEW n, Holds(s, q, n), At(n) \in {"nl", "nul"},
           IsComment(s) \/ HasValue(s), NEW r, r = ParseLine(q, n - q)
    PROVE  /\ r.crashed = FALSE /\ r.rv \in Nat
           /\ r.new = IF IsComment(s) THEN <<>> ELSE <<EntryOf(s)>>
<1>1. PICK word, key : word = Unindented(s) /\ key = EndOfBlanks(q)
  OBVIOUS
<1>2. /\ Holds(word, key, n) /\ word # <<>> /\ Head(word) = At(key)
  BY <1>1, BlanksSkipped DEF IsComment, HasValue
<1>3. CASE IsComment(s)
  <2>1. At(key) = "#"
    BY <1>1, <1>2, <1>3 DEF IsComment
  <2>2. r = [crashed |-> FALSE, rv |-> 0, new |-> <<>>]
    BY <1>1, <2>1 DEF ParseLine
  <2> QED
    BY <1>3, <2>2
<1>4. CASE ~IsComment(s)
  <2>1. PICK k : k = KeyLength(word)
    OBVIOUS
  <2>2. k \in 0 .. Len(word) /\ k < Len(word) /\ EndOfKey(key) = key + k /\ At(key + k) = " "
    <3>1. k < Len(word)
      BY <1>1, <1>4, <2>1 DEF HasValue
    <3> QED
      BY <1>2, <2>1, <3>1, KeyEnds
  <2>3. At(key) \notin {"#", "nul"}
    <3>1. word \in Seq(Chars)
      BY <1>2 DEF Holds
    <3>2. Head(word) \in Chars
      BY <1>2, <3>1, HeadTailProperties
    <3> QED
      BY <1>1, <1>2, <1>4, <3>2 DEF IsComment, Chars
  <2>4. PICK stop, val : stop = key + k /\ val = EndOfBlanks(stop + 1)
    OBVIOUS
  <2>5. PICK rest, w : rest = SubSeq(word, k + 1, Len(word)) /\ w = Unindented(rest)
    OBVIOUS
  <2>6. PICK L \in Nat : /\ L = Len(word) /\ L = n - key /\ key \in Nat /\ n \in Nat /\ n < Backed
                         /\ q \in Nat /\ key >= q /\ Backed \in Nat
    <3>1. word \in Seq(Chars) /\ Len(word) = n - key /\ key \in Nat /\ n \in Nat /\ key <= n /\ n < Backed
      BY <1>2 DEF Holds
    <3>2. q \in Nat /\ q <= n /\ Backed \in Nat
      BY Memory DEF Holds
    <3>3. q \in 0 .. Backed
      BY <3>1, <3>2
    <3>4. key \in q .. Backed
      BY <1>1, <3>3, FirstFound DEF EndOfBlanks
    <3> QED
      BY <3>1, <3>2, <3>4
  <2>7. k \in Nat /\ k < L /\ k + 1 \in 1 .. L + 1 /\ stop = key + k /\ stop = key + (k + 1) - 1
    <3>1. k \in 0 .. Len(word) /\ k < Len(word)
      BY <2>2
    <3> QED
      BY <2>4, <2>6, <3>1
  <2>8. Holds(rest, stop, n)
    <3>1. k + 1 \in 1 .. Len(word) + 1
      BY <2>6, <2>7
    <3>2. Holds(SubSeq(word, k + 1, Len(word)), key + (k + 1) - 1, n)
      BY <1>2, <3>1, HoldsFrom
    <3> QED
      BY <2>5, <2>7, <3>2
  <2>9. stop \in Nat /\ stop + 1 \in 0 .. Backed /\ key <= stop
    BY <2>6, <2>7
  <2>10. val = EndOfBlanks(stop) /\ val > stop
    BY <2>2, <2>4, <2>9, BlankSkipped
  <2>11. Holds(w, val, n)
    BY <2>5, <2>8, <2>10, BlanksSkipped
  <2>12. val \in Nat /\ val <= n /\ Len(w) = n - val /\ w \in Seq(Chars)
    BY <2>11 DEF Holds
  <2>13. At(val) # "none"
    <3>1. ~(Backed <= val)
      BY <2>6, <2>12
    <3> QED
      BY <2>12, <3>1, WhichByte
  <2>14. EndOfKey(key) = stop /\ At(stop) = " "
    BY <2>2, <2>4
  <2>15. PICK new : new = Entry(Kept(Bytes(key, stop - key)), val, ValueLength(q, n - q, val))
    OBVIOUS
  <2>16. r = [crashed |-> FALSE, rv |-> val - q, new |-> <<new>>]
    BY <1>1, <2>3, <2>4, <2>13, <2>14, <2>15 DEF ParseLine
  <2>17. val - q \in Nat /\ stop - key = k /\ ValueLength(q, n - q, val) = n - val /\ n - val \in Nat
    BY <2>6, <2>7, <2>9, <2>10, <2>12 DEF ValueLength
  <2>18. Bytes(key, k) = SubSeq(word, 1, k)
    BY <1>2, <2>2, HoldsBytes
  <2>19. Bytes(val, n - val) = w
    <3>1. Len(w) \in 0 .. Len(w)
      BY <2>12, <2>17
    <3>2. Bytes(val, Len(w)) = SubSeq(w, 1, Len(w))
      BY <2>11, <3>1, HoldsBytes
    <3>3. SubSeq(w, 1, Len(w)) = w
      BY <2>12, WholeSubSeq
    <3> QED
      BY <2>12, <3>2, <3>3
  <2>20. new = EntryOf(s)
    <3>1. new = [key |-> Kept(Bytes(key, k)), ok |-> n - val >= 0,
                 val |-> IF n - val >= 0 THEN Bytes(val, n - val) ELSE <<>>]
      BY <2>15, <2>17 DEF Entry
    <3>2. n - val >= 0 /\ (n - val >= 0) = TRUE
      BY <2>17
    <3>3. new = [key |-> Kept(SubSeq(word, 1, k)), ok |-> TRUE, val |-> w]
      BY <2>18, <2>19, <3>1, <3>2
    <3> QED
      BY <1>1, <2>1, <2>5, <3>3 DEF EntryOf
  <2> QED
    BY <1>4, <2>16, <2>17, <2>20
<1> QED
  BY <1>3, <1>4

-----------------------------------------------------------------------------
(* A part of the file that is in one line.                                    *)
LEMMA FileHolds ==
    ASSUME file \in Files, NEW a \in Nat, NEW b \in Nat, a <= b, b <= Len(file), b < Backed,
           \A m \in a .. b - 1 : At(m) # "nl"
    PROVE  Holds(SubSeq(file, a + 1, b), a, b)
<1>1. PICK L \in Nat : /\ L = Len(file) /\ b <= L
                       /\ \A q \in Nat : q < L => At(q) = file[q + 1] /\ At(q) \in Chars
  BY Memory
<1>2. ASSUME NEW j \in a + 1 .. b
      PROVE  file[j] = At(j - 1) /\ file[j] \in Chars /\ file[j] # "nl"
  <2>1. j - 1 \in Nat /\ j - 1 < L /\ (j - 1) + 1 = j /\ j - 1 \in a .. b - 1
    BY <1>1
  <2> QED
    BY <1>1, <2>1
<1>3. PICK t : t = SubSeq(file, a + 1, b)
  OBVIOUS
<1>4. /\ t \in Seq(Chars) /\ Len(t) = IF a + 1 <= b THEN b - (a + 1) + 1 ELSE 0
      /\ \A j \in 1 .. b - (a + 1) + 1 : t[j] = file[(a + 1) + j - 1]
  BY <1>2, <1>3, SubSeqProperties
<1>5. Len(t) = b - a
  BY <1>4
<1>6. ASSUME NEW j \in 1 .. b - a
      PROVE  t[j] = At(a + j - 1) /\ t[j] # "nl"
  <2>1. /\ a + j \in a + 1 .. b /\ j \in 1 .. b - (a + 1) + 1
        /\ (a + 1) + j - 1 = a + j /\ (a + j) - 1 = a + j - 1
    OBVIOUS
  <2>2. file[a + j] = At((a + j) - 1) /\ file[a + j] # "nl"
    BY <1>2, <2>1
  <2> QED
    BY <1>4, <2>1, <2>2
<1> QED
  BY <1>3, <1>4, <1>5, <1>6 DEF Holds

(* The lines of the file are the lines of the loop: from p on, the next line  *)
(* ends where the loop finds its end.                                         *)
LEMMA NextLine ==
    ASSUME IndInv, at = "lines", At(p) # "nul", NEW end, end = First(p, {"nl", "nul"}), At(end) # "none"
    PROVE  /\ end + 1 \in LineEnds /\ Holds(LineOf(end + 1), p, end)
           /\ \A m \in LineEnds : m <= end + 1 <=> m <= p \/ m = end + 1
<1>1. PICK L \in Nat : /\ L = Len(file) /\ end \in Nat /\ p \in Nat
                       /\ p <= end /\ end <= L /\ end < Backed
                       /\ \A q \in Nat : q < L => At(q) = file[q + 1]
                       /\ file \in Files /\ DOMAIN file = 1 .. L /\ Backed \in Nat
  <2>1. file \in Files /\ file \in Seq(Chars)
    BY IniInstance DEF IndInv
  <2>2. end \in p .. Backed /\ p \in Nat /\ end <= Len(file) /\ end < Backed
    BY LineEnd
  <2> QED
    BY <2>1, <2>2, Memory, LenProperties
<1>2. \A m \in p .. end - 1 : At(m) # "nl"
  BY LineEnd
<1>3. /\ end + 1 <= L => file[end + 1] = "nl"
      /\ end + 1 > L => end = L /\ LastUnended
  BY <1>1, LineEnd
<1>4. end + 1 \in LineEnds
  <2>1. CASE end + 1 <= L
    <3>1. end + 1 \in 1 .. L /\ file[end + 1] = "nl"
      BY <1>1, <1>3, <2>1
    <3> QED
      BY <1>1, <3>1 DEF LineEnds
  <2>2. CASE end + 1 > L
    BY <1>1, <1>3, <2>2 DEF LineEnds
  <2> QED
    BY <1>1, <2>1, <2>2
<1>5. p \in LineEnds \cup {0}
  <2>1. p \in 1 .. L => file[p] = "nl"
    BY <1>1 DEF IndInv, LineStart
  <2>2. p = 0 \/ p \in 1 .. L
    BY <1>1
  <2> QED
    BY <1>1, <2>1, <2>2 DEF LineEnds
<1>6. ASSUME NEW m \in LineEnds
      PROVE  m \in Nat /\ ~(p < m /\ m < end + 1)
  <2>1. CASE m \in 1 .. L /\ file[m] = "nl"
    <3>1. ASSUME p < m, m < end + 1
          PROVE  FALSE
      <4>1. m - 1 \in p .. end - 1 /\ m - 1 \in Nat /\ m - 1 < L /\ (m - 1) + 1 = m
        BY <1>1, <2>1, <3>1
      <4>2. At(m - 1) = file[(m - 1) + 1]
        BY <1>1, <4>1
      <4> QED
        BY <1>2, <2>1, <4>1, <4>2
    <3> QED
      BY <1>1, <2>1, <3>1
  <2>2. CASE m = L + 1
    BY <1>1, <2>2
  <2> QED
    BY <1>1, <2>1, <2>2 DEF LineEnds
<1>7. Before(end + 1) = p
  <2> DEFINE IsBefore(m) == m < end + 1 /\ \A k \in LineEnds : k < end + 1 => k <= m
  <2>1. IsBefore(p)
    BY <1>1, <1>6
  <2>2. ASSUME NEW m \in LineEnds \cup {0}, IsBefore(m)
        PROVE  m = p
    <3>1. m \in Nat /\ m <= p
      BY <1>1, <1>6, <2>2
    <3>2. p <= m
      BY <1>1, <1>5, <2>2, <3>1
    <3> QED
      BY <1>1, <3>1, <3>2
  <2>3. Before(end + 1) = CHOOSE m \in LineEnds \cup {0} : IsBefore(m)
    BY DEF Before
  <2> HIDE DEF IsBefore
  <2> QED
    BY <1>5, <2>1, <2>2, <2>3
<1>8. LineOf(end + 1) = SubSeq(file, p + 1, end)
  <2>1. (end + 1) - 1 = end
    BY <1>1
  <2> QED
    BY <1>7, <2>1 DEF LineOf
<1>9. Holds(LineOf(end + 1), p, end)
  BY <1>1, <1>2, <1>8, FileHolds
<1>10. \A m \in LineEnds : m <= end + 1 <=> m <= p \/ m = end + 1
  BY <1>1, <1>6
<1> QED
  BY <1>4, <1>9, <1>10

LEMMA EntryEndsFinite ==
    ASSUME file \in Files, NEW q
    PROVE  IsFiniteSet(EntryEnds(q))
<1>1. PICK L \in Nat : L = Len(file) /\ DOMAIN file = 1 .. L
  BY Memory, IniInstance, LenProperties
<1>2. EntryEnds(q) \subseteq 1 .. L + 1
  BY <1>1 DEF EntryEnds, LineEnds
<1>3. IsFiniteSet(1 .. L + 1)
  BY <1>1, FS_Interval
<1> QED
  BY <1>2, <1>3, FS_Subset

(* The next line adds its entry, as the last one.                             *)
LEMMA NextEntry ==
    ASSUME file \in Files, NEW q \in Nat, NEW n \in LineEnds, n \in Nat, q < n,
           \A m \in LineEnds : m \in Nat /\ (m <= n <=> m <= q \/ m = n),
           entries \in Seq(Entries), EntriesUpTo(q),
           NEW new \in Seq(Entries), new = IF IsComment(LineOf(n)) THEN <<>> ELSE <<EntryOf(LineOf(n))>>
    PROVE  /\ Len(entries \o new) = Cardinality(EntryEnds(n))
           /\ \A m \in EntryEnds(n) : (entries \o new)[Cardinality(EntryEnds(m))] = EntryOf(LineOf(m))
<1>1. PICK c \in Nat : /\ c = Cardinality(EntryEnds(q)) /\ c = Len(entries)
                       /\ \A m \in EntryEnds(q) : entries[Cardinality(EntryEnds(m))] = EntryOf(LineOf(m))
  BY LenProperties DEF EntriesUpTo
<1>2. IsFiniteSet(EntryEnds(q)) /\ \A m : IsFiniteSet(EntryEnds(m))
  BY EntryEndsFinite
<1>3. ASSUME NEW m \in EntryEnds(q)
      PROVE  Cardinality(EntryEnds(m)) \in 1 .. c
  <2>1. m \in LineEnds /\ m \in Nat /\ m <= q /\ m \in EntryEnds(m)
    BY DEF EntryEnds
  <2>2. ASSUME NEW k \in EntryEnds(m)
        PROVE  k \in EntryEnds(q)
    <3>1. k \in LineEnds /\ k <= m /\ ~IsComment(LineOf(k))
      BY DEF EntryEnds
    <3>2. k \in Nat
      BY <3>1
    <3>3. k <= q
      BY <2>1, <3>1, <3>2
    <3> QED
      BY <3>1, <3>3 DEF EntryEnds
  <2>3. Cardinality(EntryEnds(m)) \in Nat /\ Cardinality(EntryEnds(m)) <= Cardinality(EntryEnds(q))
    BY <1>2, <2>2, FS_Subset, FS_CardinalityType
  <2>4. Cardinality(EntryEnds(m)) # 0
    BY <1>2, <2>1, FS_EmptySet
  <2> QED
    BY <1>1, <2>3, <2>4
<1>4. CASE IsComment(LineOf(n))
  <2>1. EntryEnds(n) = EntryEnds(q)
    BY <1>4 DEF EntryEnds
  <2>2. entries \o new = entries
    <3>1. new = <<>>
      BY <1>4
    <3> QED
      BY <3>1, ConcatEmptySeq
  <2> QED
    BY <1>1, <2>1, <2>2
<1>5. CASE ~IsComment(LineOf(n))
  <2>1. n \notin EntryEnds(q)
    <3>1. ~(n <= q)
      OBVIOUS
    <3> QED
      BY <3>1 DEF EntryEnds
  <2>2. EntryEnds(n) = EntryEnds(q) \cup {n}
    <3>1. \A m \in LineEnds : m <= n <=> m <= q \/ m = n
      OBVIOUS
    <3> QED
      BY <1>5, <3>1, Zenon DEF EntryEnds
  <2>3. Cardinality(EntryEnds(n)) = c + 1
    <3>1. Cardinality(EntryEnds(q) \cup {n}) = IF n \in EntryEnds(q) THEN Cardinality(EntryEnds(q))
                                               ELSE Cardinality(EntryEnds(q)) + 1
      BY <1>2, FS_AddElement, Zenon
    <3>2. Cardinality(EntryEnds(n)) = Cardinality(EntryEnds(q)) + 1
      BY <2>1, <2>2, <3>1, Zenon
    <3> QED
      BY <1>1, <3>2
  <2>4. PICK e : e = EntryOf(LineOf(n)) /\ new = <<e>> /\ Len(new) = 1 /\ new[1] = e
    BY <1>5
  <2>5. /\ Len(entries \o new) = c + 1
        /\ \A j \in 1 .. c : (entries \o new)[j] = entries[j]
        /\ (entries \o new)[c + 1] = e
    BY <1>1, <2>4, ConcatProperties
  <2>6. ASSUME NEW m \in EntryEnds(q)
        PROVE  (entries \o new)[Cardinality(EntryEnds(m))] = EntryOf(LineOf(m))
    <3>1. PICK j \in 1 .. c : j = Cardinality(EntryEnds(m))
      BY <1>3
    <3>2. (entries \o new)[j] = entries[j] /\ entries[j] = EntryOf(LineOf(m))
      BY <1>1, <2>5, <3>1
    <3> QED
      BY <3>1, <3>2, Zenon
  <2>7. (entries \o new)[Cardinality(EntryEnds(n))] = EntryOf(LineOf(n))
    BY <2>3, <2>4, <2>5, Zenon
  <2> QED
    BY <1>1, <2>2, <2>3, <2>5, <2>6, <2>7
<1> QED
  BY <1>4, <1>5

(* What a step that leaves the file alone leaves alone.                       *)
LEMMA SameFile ==
    ASSUME file' = file
    PROVE  /\ (WellFormed' <=> WellFormed) /\ Len(file)' = Len(file)
           /\ (EntriesUpTo(p)' <=> /\ Len(entries') = Cardinality(EntryEnds(p'))
                                  /\ \A n \in EntryEnds(p') : entries'[Cardinality(EntryEnds(n))] = EntryOf(LineOf(n)))
           /\ entries' = entries => (EntriesUpTo(Len(file) + 1)' <=> EntriesUpTo(Len(file) + 1))
<1>1. LineEnds' = LineEnds
  BY DEF LineEnds, LastUnended
<1>2. \A n : LineOf(n)' = LineOf(n)
  BY <1>1 DEF LineOf, Before
<1>3. WellFormed' <=> WellFormed
  BY <1>1, <1>2 DEF WellFormed
<1>4. \A n : EntryEnds(n)' = EntryEnds(n)
  BY <1>1, <1>2 DEF EntryEnds
<1>5. EntryEnds(p)' = EntryEnds(p')
  BY <1>1, <1>2 DEF EntryEnds
<1>6. EntryEnds(Len(file) + 1)' = EntryEnds(Len(file) + 1)
  BY <1>1, <1>2 DEF EntryEnds
<1> QED
  BY <1>2, <1>3, <1>4, <1>5, <1>6 DEF EntriesUpTo

LEMMA LinesInit == Init => LinesInv
<1> SUFFICES ASSUME Init PROVE LinesInv
  OBVIOUS
<1>1. IndInv /\ file \in Files /\ at = "start" /\ p = 0 /\ rv = 0 /\ entries = <<>>
  BY InitInv DEF Init
<1>2. EntryEnds(0) = {}
  <2>1. PICK L \in Nat : L = Len(file) /\ DOMAIN file = 1 .. L
    BY <1>1, Memory, IniInstance, LenProperties
  <2>2. \A n \in LineEnds : n \in Nat /\ n > 0
    BY <2>1 DEF LineEnds
  <2>3. \A n \in LineEnds : ~(n <= 0)
    BY <2>2
  <2> QED
    BY <2>3 DEF EntryEnds
<1>3. EntriesUpTo(p)
  BY <1>1, <1>2, FS_EmptySet, EmptySeq DEF EntriesUpTo
<1> QED
  BY <1>1, <1>3 DEF LinesInv

(* The lines up to the position are read, and then those up to the next one.  *)
LEMMA LinesLine ==
    ASSUME LinesInv, IndInv', Line
    PROVE  LinesInv'
<1>1. PICK end, r : end = First(p, {"nl", "nul"}) /\ r = ParseLine(p, end - p)
  OBVIOUS
<1>2. /\ at = "lines" /\ At(p) # "nul"
      /\ IF At(end) = "none" \/ r.crashed
         THEN Crash
         ELSE /\ rv' = r.rv /\ entries' = entries \o r.new /\ p' = end + 1
              /\ UNCHANGED <<file, at, failed>>
  BY <1>1 DEF Line
<1>3. CASE At(end) = "none" \/ r.crashed
  <2>1. at' = "crashed"
    BY <1>2, <1>3 DEF Crash
  <2> QED
    BY <2>1 DEF LinesInv
<1>4. CASE ~(At(end) = "none" \/ r.crashed)
  <2>1. rv' = r.rv /\ entries' = entries \o r.new /\ p' = end + 1 /\ file' = file /\ at' = "lines"
    BY <1>2, <1>4
  <2>2. IndInv /\ file \in Files /\ entries \in Seq(Entries)
    BY DEF LinesInv, IndInv
  <2>3. /\ end + 1 \in LineEnds /\ Holds(LineOf(end + 1), p, end)
        /\ \A m \in LineEnds : m <= end + 1 <=> m <= p \/ m = end + 1
    BY <1>1, <1>2, <1>4, <2>2, NextLine
  <2>4. /\ end \in Nat /\ p \in Nat /\ p <= end /\ end < Backed /\ end <= Len(file) /\ At(end) \in {"nl", "nul"}
        /\ \A m \in p .. end - 1 : At(m) \notin {"nl", "nul", "none"}
    <3>1. /\ end \in p .. Backed /\ p \in Nat /\ At(end) \in {"nl", "nul"} /\ end < Backed /\ end <= Len(file)
          /\ \A m \in p .. end - 1 : At(m) \notin {"nl", "nul", "none"}
      BY <1>1, <1>2, <1>4, <2>2, LineEnd
    <3>2. Backed \in Nat
      BY <2>2, Memory
    <3> QED
      BY <3>1, <3>2
  <2>5. r.new \in Seq(Entries)
    <3>1. r.new = <<>> \/ \E e \in Entries : r.new = <<e>>
      BY <1>1, <1>4, <2>2, <2>4, LineParsed
    <3>2. CASE r.new = <<>>
      BY <3>2, EmptySeq
    <3>3. CASE \E e \in Entries : r.new = <<e>>
      BY <3>3
    <3> QED
      BY <3>1, <3>2, <3>3
  <2>6. ASSUME WellFormed
        PROVE  rv' >= 0 /\ EntriesUpTo(p)'
    <3>1. EntriesUpTo(p)
      BY <1>2, <2>6 DEF LinesInv
    <3>2. IsComment(LineOf(end + 1)) \/ HasValue(LineOf(end + 1))
      BY <2>3, <2>6 DEF WellFormed
    <3>3. /\ r.rv \in Nat
          /\ r.new = IF IsComment(LineOf(end + 1)) THEN <<>> ELSE <<EntryOf(LineOf(end + 1))>>
      BY <1>1, <2>2, <2>3, <2>4, <3>2, LineRead
    <3>4. end + 1 \in Nat /\ p < end + 1 /\ \A m \in LineEnds : m \in Nat
      <4>1. PICK L \in Nat : L = Len(file) /\ DOMAIN file = 1 .. L
        BY <2>2, Memory, IniInstance, LenProperties
      <4> QED
        BY <2>4, <4>1 DEF LineEnds
    <3>5. /\ Len(entries \o r.new) = Cardinality(EntryEnds(end + 1))
          /\ \A m \in EntryEnds(end + 1) : (entries \o r.new)[Cardinality(EntryEnds(m))] = EntryOf(LineOf(m))
      <4>1. PICK n \in LineEnds : n = end + 1
        BY <2>3
      <4>2. \A m \in LineEnds : m \in Nat /\ (m <= n <=> m <= p \/ m = n)
        BY <2>3, <3>4, <4>1
      <4> QED
        BY <2>2, <2>4, <2>5, <3>1, <3>3, <3>4, <4>1, <4>2, NextEntry
    <3>6. EntriesUpTo(p)'
      BY <2>1, <3>5, SameFile
    <3>7. rv' >= 0
      BY <2>1, <3>3
    <3> QED
      BY <3>6, <3>7
  <2>7. WellFormed' <=> WellFormed
    BY <2>1, SameFile
  <2> QED
    BY <2>1, <2>6, <2>7 DEF LinesInv
<1> QED
  BY <1>3, <1>4

(* Where the loop ends, no line is left.                                      *)
LEMMA LinesEnd ==
    ASSUME LinesInv, IndInv', EndOfFile
    PROVE  LinesInv'
<1>1. IndInv /\ file \in Files /\ at = "lines" /\ At(p) = "nul" /\ LineStart /\ p \in 0 .. Backed
  BY DEF LinesInv, IndInv, TypeOK, EndOfFile
<1>2. UNCHANGED <<file, p, rv, entries, failed>> /\ at' = "unmap"
  BY DEF EndOfFile
<1>3. PICK L \in Nat : L = Len(file) /\ DOMAIN file = 1 .. L /\ L <= p /\ p \in Nat
  <2>1. Len(file) \in Nat /\ Backed \in Nat /\ DOMAIN file = 1 .. Len(file)
    BY <1>1, Memory, IniInstance, LenProperties
  <2>2. p \in Nat
    BY <1>1, <2>1
  <2>3. Len(file) <= p
    BY <1>1, <2>2, WhichByte
  <2> QED
    BY <2>1, <2>2, <2>3
<1>4. ASSUME NEW n \in LineEnds
      PROVE  n <= p /\ n <= L + 1
  <2>1. CASE n \in 1 .. L
    BY <1>3, <2>1
  <2>2. CASE n = L + 1 /\ LastUnended
    <3>1. p # L
      <4>1. L # 0
        <5>1. L = 0 => file = <<>>
          BY <1>1, <1>3, IniInstance, EmptySeq
        <5> QED
          BY <2>2, <5>1 DEF LastUnended
      <4>2. L \in 1 .. L
        BY <1>3, <4>1
      <4> QED
        BY <1>1, <1>3, <2>2, <4>2 DEF LineStart, LastUnended
    <3> QED
      BY <1>3, <2>2, <3>1
  <2> QED
    BY <1>3, <2>1, <2>2 DEF LineEnds
<1>5. EntryEnds(p) = EntryEnds(Len(file) + 1)
  BY <1>3, <1>4 DEF EntryEnds
<1>6. WellFormed => rv >= 0 /\ EntriesUpTo(Len(file) + 1)
  BY <1>1, <1>5 DEF LinesInv, EntriesUpTo
<1> QED
  BY <1>2, <1>6, SameFile DEF LinesInv

(* The invariant that relates what is read to the lines of the file.          *)
THEOREM LinesInvariance == Spec => []LinesInv
<1>1. ASSUME LinesInv, IndInv', [Next]_vars
      PROVE  LinesInv'
  <2>1. CASE UNCHANGED vars
    <3>1. file' = file /\ p' = p /\ rv' = rv /\ entries' = entries /\ failed' = failed /\ at' = at
      BY <2>1 DEF vars
    <3>2. EntriesUpTo(p)' <=> EntriesUpTo(p)
      BY <3>1, SameFile DEF EntriesUpTo
    <3> QED
      BY <1>1, <3>1, <3>2, SameFile DEF LinesInv
  <2>2. CASE Load
    <3>1. file' = file /\ p' = p /\ rv' = rv /\ entries' = entries /\ at = "start" /\ at' = "lines"
      BY <2>2 DEF Load
    <3>2. EntriesUpTo(p)' <=> EntriesUpTo(p)
      BY <3>1, SameFile DEF EntriesUpTo
    <3> QED
      BY <1>1, <3>1, <3>2, SameFile DEF LinesInv
  <2>3. CASE LoadFails
    BY <1>1, <2>3 DEF LinesInv, LoadFails
  <2>4. CASE Unmap
    BY <1>1, <2>4, SameFile DEF LinesInv, Unmap
  <2> QED
    BY <1>1, <2>1, <2>2, <2>3, <2>4, LinesLine, LinesEnd DEF Next
<1> QED
  BY <1>1, LinesInit, ReaderInvariance, PTL DEF Spec

(* nson_load_ini: a file of comments and of keys with values is read to those *)
(* keys and values, in their order, whatever its lines are.                   *)
THEOREM LinesAreRead == Spec => []LinesRead
<1>1. LinesInv => LinesRead
  BY DEF LinesInv, LinesRead
<1> QED
  BY <1>1, LinesInvariance, PTL
=============================================================================
