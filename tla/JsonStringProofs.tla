-------------------------- MODULE JsonStringProofs --------------------------
(***************************************************************************)
(* Writing and reading JSON strings stays in bounds, for every string and  *)
(* every text.  A text made of the pieces JSON allows is read as what they *)
(* stand for, and what is written is such a text.                          *)
(***************************************************************************)
EXTENDS JsonPieces, SequenceTheorems, NaturalsInduction, WellFoundedInduction, TLAPS

(* The length of parts and concatenations of byte sequences. *)
LEMMA ConcatBytes ==
    ASSUME NEW s \in Seq(Bytes), NEW t \in Seq(Bytes)
    PROVE  /\ s \o t \in Seq(Bytes)
           /\ Len(s \o t) = Len(s) + Len(t)
           /\ \A j \in 1 .. Len(s) : (s \o t)[j] = s[j]
    OBVIOUS

LEMMA PartOfBytes ==
    ASSUME NEW s \in Seq(Bytes), NEW p \in Nat \ {0}, NEW q \in Nat, q <= Len(s), p <= q + 1
    PROVE  /\ SubSeq(s, p, q) \in Seq(Bytes)
           /\ Len(SubSeq(s, p, q)) = q + 1 - p
    OBVIOUS

(* Escapes, and what they are replaced by, are bytes. *)
LEMMA EscapeIsBytes ==
    ASSUME NEW b \in Bytes, Escaped(b)
    PROVE  EscapeOf(b) \in Seq(Bytes)
<1>1. CASE HasLetter(b)
  <2>1. Letter(b) \in Bytes
    BY DEF Letter, Bytes
  <2>2. EscapeOf(b) = <<Backslash, Letter(b)>>
    BY <1>1 DEF EscapeOf
  <2> QED
    BY <2>1, <2>2 DEF Bytes, Backslash
<1>2. CASE ~HasLetter(b)
  <2>1. b \in 0 .. 127
    BY <1>2 DEF Escaped, IsControl, Bytes
  <2>2. b \div 16 \in 0 .. 15 /\ b % 16 \in 0 .. 15
    BY <2>1
  <2>3. Digit(b \div 16) \in Bytes /\ Digit(b % 16) \in Bytes
    BY <2>2 DEF Digit, Bytes
  <2>4. EscapeOf(b) = <<Backslash, 117, 48, 48, Digit(b \div 16), Digit(b % 16)>>
    BY <1>2 DEF EscapeOf
  <2> QED
    BY <2>3, <2>4 DEF Bytes, Backslash
<1> QED
    BY <1>1, <1>2

LEMMA UnescapeIsByte ==
    ASSUME NEW b \in Bytes
    PROVE  Unescape(b) \in Bytes
    BY DEF Unescape, Bytes

(* A code point takes at most three bytes. *)
LEMMA Utf8Bytes ==
    ASSUME NEW v \in Nat, v < 65536
    PROVE  /\ Utf8(v) \in Seq(Bytes)
           /\ Len(Utf8(v)) \in Nat /\ Len(Utf8(v)) <= 3
<1>1. v % 64 \in 0 .. 63
    OBVIOUS
<1>2. CASE v < 128
  <2>1. Utf8(v) = <<v>> /\ v \in Bytes
    BY <1>2 DEF Utf8, Bytes
  <2> QED
    BY <2>1
<1>3. CASE v >= 128 /\ v < 2048
  <2>1. v \div 64 \in 0 .. 31
    BY <1>3
  <2>2. 192 + (v \div 64) \in Bytes /\ 128 + (v % 64) \in Bytes
    BY <1>1, <2>1 DEF Bytes
  <2>3. Utf8(v) = Utf8Two(v)
    BY <1>3 DEF Utf8
  <2>4. Utf8Two(v) \in Seq(Bytes) /\ Len(Utf8Two(v)) = 2
    BY <2>2 DEF Utf8Two
  <2> QED
    BY <2>3, <2>4
<1>4. CASE v >= 2048
  <2>1. v \div 4096 \in 0 .. 15
    OBVIOUS
  <2>2. v \div 64 \in Nat
    OBVIOUS
  <2>3. (v \div 64) % 64 \in 0 .. 63
    BY <2>2
  <2>4. /\ 224 + ((v \div 4096) % 16) \in Bytes /\ 128 + ((v \div 64) % 64) \in Bytes
        /\ 128 + (v % 64) \in Bytes
    BY <1>1, <2>1, <2>3 DEF Bytes
  <2>5. Utf8(v) = Utf8Three(v)
    BY <1>4 DEF Utf8
  <2>6. Utf8Three(v) \in Seq(Bytes) /\ Len(Utf8Three(v)) = 3
    BY <2>4 DEF Utf8Three
  <2> QED
    BY <2>5, <2>6
<1> QED
    BY <1>2, <1>3, <1>4

LEMMA PairOfBytes ==
    ASSUME NEW x \in Int, NEW y \in Int, 0 <= x, x <= 255, 0 <= y, y <= 255
    PROVE  256 * x + y \in Nat /\ 256 * x + y < 65536
    OBVIOUS

(* Four hexadecimal digits are a code point below 2^16. *)
LEMMA HexNumberRange ==
    ASSUME NEW p \in Nat, HexAt(p, 4)
    PROVE  HexNumber(p) \in Nat /\ HexNumber(p) < 65536
<1>1. \A b : IsDigit(b) => DigitValue(b) \in 0 .. 15
    BY DEF IsDigit, DigitValue
<1>2. \A j \in 0 .. 3 : IsDigit(doc[p + j])
    BY DEF HexAt
<1>3. IsDigit(doc[p]) /\ IsDigit(doc[p + 1]) /\ IsDigit(doc[p + 2]) /\ IsDigit(doc[p + 3])
  <2>1. p + 0 = p
    OBVIOUS
  <2> QED
    BY <1>2, <2>1
<1>4. \A x, y \in 0 .. 15 : 16 * x + y \in 0 .. 255
    OBVIOUS
<1>5. HexPair(p) \in 0 .. 255
  <2>1. DigitValue(doc[p]) \in 0 .. 15 /\ DigitValue(doc[p + 1]) \in 0 .. 15
    BY <1>1, <1>3
  <2> QED
    BY <2>1, <1>4 DEF HexPair
<1>6. HexPair(p + 2) \in 0 .. 255
  <2>1. DigitValue(doc[p + 2]) \in 0 .. 15 /\ DigitValue(doc[p + 3]) \in 0 .. 15
    BY <1>1, <1>3
  <2>2. (p + 2) + 1 = p + 3
    OBVIOUS
  <2>3. HexPair(p + 2) = 16 * DigitValue(doc[p + 2]) + DigitValue(doc[p + 3])
    BY <2>2 DEF HexPair
  <2> QED
    BY <2>1, <2>3, <1>4
<1>7. /\ HexPair(p) \in Int /\ 0 <= HexPair(p) /\ HexPair(p) <= 255
      /\ HexPair(p + 2) \in Int /\ 0 <= HexPair(p + 2) /\ HexPair(p + 2) <= 255
    BY <1>5, <1>6
<1> QED
    BY <1>7, PairOfBytes DEF HexNumber

(* Hexadecimal digits do not run over a quote: a run of n digits that starts  *)
(* at or before the quote ends at or before it.                               *)
LEMMA HexStopsAtQuote ==
    ASSUME NEW p \in Nat, NEW q \in Nat, NEW n \in Nat,
           p <= q, doc[q] = Quote, HexAt(p, n)
    PROVE  p + n <= q
<1> SUFFICES ASSUME q < p + n PROVE FALSE
    OBVIOUS
<1>1. q - p \in 0 .. n - 1 /\ p + (q - p) = q
    OBVIOUS
<1>2. IsDigit(doc[p + (q - p)])
    BY <1>1 DEF HexAt
<1>3. ~IsDigit(Quote)
    BY DEF Quote, IsDigit
<1> QED
    BY <1>1, <1>2, <1>3

-----------------------------------------------------------------------------
(* Initially nothing is written and no end is known. *)
LEMMA InitInv == Init => IndInv
<1> SUFFICES ASSUME Init PROVE IndInv
    OBVIOUS
<1> USE TextAssumption
<1>1. data \in Seq(Bytes) /\ doc \in Seq(Bytes) /\ doc # <<>> /\ doc[1] = Quote
  <2>1. CASE data \in Strings /\ doc = <<Quote>>
    BY <2>1 DEF Bytes, Quote
  <2>2. CASE data = <<>> /\ doc \in Texts
    BY <2>2
  <2> QED
    BY <2>1, <2>2 DEF Init
<1>2. dest \in Seq(Bytes)
    BY DEF Init
<1>3. TypeOK
    BY <1>1, <1>2 DEF Init, TypeOK
<1>4. BoundsInv
    BY DEF Init, BoundsInv
<1> QED
    BY <1>3, <1>4 DEF IndInv

(* Appending to the text leaves the opening quote where it is. *)
LEMMA DocGrows ==
    ASSUME NEW s \in Seq(Bytes), doc \in Seq(Bytes), doc # <<>>, doc[1] = Quote
    PROVE  /\ doc \o s \in Seq(Bytes)
           /\ doc \o s # <<>>
           /\ (doc \o s)[1] = Quote
<1>1. Len(doc) \in Nat /\ Len(doc) >= 1
    OBVIOUS
<1> QED
    BY <1>1, ConcatBytes

LEMMA PendingBytes ==
    ASSUME TypeOK
    PROVE  Pending \in Seq(Bytes)
<1>1. last_write + 1 \in Nat \ {0} /\ last_write + 1 <= written + 1
    BY DEF TypeOK
<1> QED
    BY <1>1, PartOfBytes DEF TypeOK, Pending

(* While a string is written, the reader's variables stay as they were. *)
LEMMA EscapeInv ==
    ASSUME IndInv, Escape
    PROVE  IndInv'
<1> USE DEF IndInv, Input, output
<1>0. pc = "escape" /\ end = 0
    BY DEF Escape, PlainByte, EscapeByte, EscapeNothingPending, CloseString, BoundsInv
<1>1. BoundsInv'
    BY <1>0 DEF Escape, PlainByte, EscapeByte, EscapeNothingPending, CloseString, BoundsInv
<1>2. TypeOK'
  <2>1. CASE PlainByte
    BY <2>1 DEF PlainByte, TypeOK
  <2>2. CASE EscapeByte
    <3>1. Byte \in Bytes
      BY <2>2 DEF EscapeByte, TypeOK, Byte
    <3>2. EscapeOf(Byte) \in Seq(Bytes)
      BY <2>2, <3>1, EscapeIsBytes DEF EscapeByte
    <3>3. doc \in Seq(Bytes) /\ doc # <<>> /\ doc[1] = Quote
      BY DEF TypeOK
    <3>4. /\ doc \o Pending \in Seq(Bytes)
          /\ doc \o Pending # <<>>
          /\ (doc \o Pending)[1] = Quote
      BY <3>3, PendingBytes, DocGrows
    <3>5. Len(doc \o Pending) \in Nat /\ Len(doc \o Pending) >= 1
      BY <3>4
    <3>6. /\ (doc \o Pending) \o EscapeOf(Byte) \in Seq(Bytes)
          /\ (doc \o Pending) \o EscapeOf(Byte) # <<>>
          /\ ((doc \o Pending) \o EscapeOf(Byte))[1] = Quote
      BY <3>2, <3>4, <3>5, ConcatBytes
    <3>7. doc' = (doc \o Pending) \o EscapeOf(Byte)
      BY <2>2 DEF EscapeByte
    <3> QED
      BY <2>2, <3>6, <3>7 DEF EscapeByte, TypeOK
  <2>3. CASE EscapeNothingPending
    BY <2>3 DEF EscapeNothingPending, TypeOK
  <2>4. CASE CloseString
    <3>1. doc \in Seq(Bytes) /\ doc # <<>> /\ doc[1] = Quote
      BY DEF TypeOK
    <3>2. /\ doc \o Pending \in Seq(Bytes)
          /\ doc \o Pending # <<>>
          /\ (doc \o Pending)[1] = Quote
      BY <3>1, PendingBytes, DocGrows
    <3>3. <<Quote>> \in Seq(Bytes)
      BY DEF Quote, Bytes
    <3>4. Len(doc \o Pending) \in Nat /\ Len(doc \o Pending) >= 1
      BY <3>2
    <3>5. /\ (doc \o Pending) \o <<Quote>> \in Seq(Bytes)
          /\ (doc \o Pending) \o <<Quote>> # <<>>
          /\ ((doc \o Pending) \o <<Quote>>)[1] = Quote
      BY <3>2, <3>3, <3>4, ConcatBytes
    <3>6. doc' = (doc \o Pending) \o <<Quote>>
      BY <2>4 DEF CloseString
    <3> QED
      BY <2>4, <3>5, <3>6 DEF CloseString, TypeOK
  <2> QED
    BY <2>1, <2>2, <2>3, <2>4 DEF Escape
<1> QED
    BY <1>1, <1>2

(* The end that is found is a quote of the text. *)
LEMMA MeasureInv ==
    ASSUME IndInv, Measure
    PROVE  IndInv'
<1> USE DEF IndInv, Input, output
<1>0. pc = "measure" /\ end = 0 /\ dest = <<>> /\ read = 0 /\ chunk \in Nat /\ chunk >= 2
    BY DEF Measure, NoEnd, SkipQuote, EndFound, BoundsInv, TypeOK
<1>1. \A q \in Quotes : q \in 2 .. Len(doc) /\ doc[q] = Quote
    BY <1>0 DEF Quotes, Found, TypeOK
<1>2. CASE NoEnd
    BY <1>2 DEF NoEnd, TypeOK, BoundsInv
<1>3. CASE SkipQuote
  <2>1. PICK q \in Quotes : chunk' = q + 1
    BY <1>3 DEF SkipQuote
  <2> QED
    BY <1>3, <1>0, <1>1, <2>1 DEF SkipQuote, TypeOK, BoundsInv
<1>4. CASE EndFound
  <2>1. PICK q \in Quotes : end' = q /\ rv' = q - 2
    BY <1>4 DEF EndFound
  <2>2. q \in Nat /\ q >= 2 /\ q <= Len(doc) /\ doc[q] = Quote
    BY <1>1, <2>1 DEF TypeOK
  <2>3. TypeOK'
    BY <1>4, <2>1, <2>2 DEF EndFound, TypeOK
  <2>4. Len(dest) = 0
    BY <1>0
  <2>5. /\ doc' = doc /\ dest' = dest /\ read' = 0 /\ chunk' = 2 /\ pc' = "parse" /\ end' = q
    BY <1>0, <1>4, <2>1 DEF EndFound
  <2>6. BoundsInv'
    BY <2>2, <2>4, <2>5 DEF BoundsInv
  <2> QED
    BY <2>3, <2>6
<1> QED
    BY <1>2, <1>3, <1>4 DEF Measure

-----------------------------------------------------------------------------
(* The part of the text from p up to q. *)
LEMMA BetweenBytes ==
    ASSUME TypeOK, NEW p \in Nat, NEW q \in Nat, 1 <= p, p <= q, q <= Len(doc)
    PROVE  Between(p, q) \in Seq(Bytes) /\ Len(Between(p, q)) = q - p
<1>1. q - 1 \in Nat /\ q - 1 <= Len(doc) /\ p <= (q - 1) + 1 /\ p \in Nat \ {0}
    BY DEF TypeOK
<1>2. /\ SubSeq(doc, p, q - 1) \in Seq(Bytes)
      /\ Len(SubSeq(doc, p, q - 1)) = (q - 1) + 1 - p
    BY <1>1, PartOfBytes DEF TypeOK
<1> QED
    BY <1>2 DEF Between

(* A round of the loop keeps the bounds if it adds at most as many bytes as   *)
(* it passes.                                                                 *)
LEMMA RoundInv ==
    ASSUME IndInv, pc = "parse",
           NEW addition \in Seq(Bytes), NEW p \in Nat, GoOn(addition, p),
           chunk <= p, p <= end, Len(addition) <= p - chunk,
           read' \in Nat, read' <= end
    PROVE  IndInv'
<1> USE DEF IndInv
<1>1. dest \in Seq(Bytes) /\ Len(dest) \in Nat /\ chunk \in Nat /\ end \in Nat
    BY DEF TypeOK
<1>2. dest' \in Seq(Bytes) /\ Len(dest') = Len(dest) + Len(addition)
    BY <1>1, ConcatBytes DEF GoOn
<1>3. Len(addition) \in Nat /\ Len(dest') \in Nat
    BY <1>2
<1>4. end # 0 /\ end \in 2 .. Len(doc) /\ doc[end] = Quote /\ chunk >= 2 /\ Len(dest) <= chunk - 2
    BY DEF BoundsInv
<1>5. UNCHANGED <<doc, data, written, last_write, pc, end, rv>> /\ chunk' = p
    BY DEF GoOn, output
<1>6. TypeOK'
    BY <1>2, <1>5 DEF TypeOK
<1>7. Len(dest') <= p - 2
    BY <1>1, <1>2, <1>3, <1>4
<1>8. Len(dest') <= end - 2
    BY <1>1, <1>3, <1>7
<1>9. BoundsInv'
    BY <1>1, <1>4, <1>5, <1>7, <1>8 DEF BoundsInv
<1> QED
    BY <1>6, <1>9

(* So does leaving it, with the bytes from p on copied as they are. *)
LEMMA RestInv ==
    ASSUME IndInv, pc = "parse",
           NEW prefix \in Seq(Bytes), NEW p \in Nat, CopyRest(prefix, p),
           chunk <= p, p <= end, Len(prefix) <= p - chunk,
           read' \in Nat, read' <= end
    PROVE  IndInv'
<1> USE DEF IndInv
<1>1. dest \in Seq(Bytes) /\ Len(dest) \in Nat /\ chunk \in Nat /\ end \in Nat
    BY DEF TypeOK
<1>2. end # 0 /\ end \in 2 .. Len(doc) /\ doc[end] = Quote /\ chunk >= 2 /\ Len(dest) <= chunk - 2
    BY DEF BoundsInv
<1>3. dest \o prefix \in Seq(Bytes) /\ Len(dest \o prefix) = Len(dest) + Len(prefix)
    BY <1>1, ConcatBytes
<1>4. Between(p, end) \in Seq(Bytes) /\ Len(Between(p, end)) = end - p
    BY <1>1, <1>2, BetweenBytes
<1>5. dest' = (dest \o prefix) \o Between(p, end)
    BY DEF CopyRest
<1>6. dest' \in Seq(Bytes) /\ Len(dest') = Len(dest) + Len(prefix) + (end - p)
    BY <1>3, <1>4, <1>5, ConcatBytes
<1>7. Len(prefix) \in Nat /\ Len(dest') \in Nat
    BY <1>6
<1>8. Len(dest') <= end - 2
    BY <1>1, <1>2, <1>6, <1>7
<1>9. /\ UNCHANGED <<doc, data, written, last_write, chunk, end>>
      /\ pc' = "done" /\ rv' = Len(dest')
    BY DEF CopyRest, output
<1>10. TypeOK'
    BY <1>6, <1>7, <1>9 DEF TypeOK
<1>11. BoundsInv'
    BY <1>1, <1>2, <1>8, <1>9 DEF BoundsInv
<1> QED
    BY <1>10, <1>11

LEMMA ParseInv ==
    ASSUME IndInv, Parse
    PROVE  IndInv'
<1>0. pc = "parse"
    BY DEF Parse, NoBackslash, LastBackslash, CodePoint, BrokenCodePoint, SimpleEscape, AtBackslash
<1>1. TypeOK /\ BoundsInv
    BY DEF IndInv
<1>2. /\ end \in Nat /\ end >= 2 /\ end <= Len(doc) /\ doc[end] = Quote
      /\ chunk \in Nat /\ chunk >= 2 /\ chunk <= end
      /\ read \in Nat /\ read <= end
      /\ Len(doc) \in Nat
    BY <1>0, <1>1 DEF TypeOK, BoundsInv
<1>3. CASE NoBackslash
  <2>1. <<>> \in Seq(Bytes) /\ Len(<<>>) = 0
    OBVIOUS
  <2>2. CopyRest(<<>>, chunk) /\ read' = read
    BY <1>3 DEF NoBackslash
  <2>3. chunk <= chunk /\ Len(<<>>) <= chunk - chunk /\ read' \in Nat /\ read' <= end
    BY <1>2, <2>1, <2>2
  <2> QED
    BY <1>0, <1>2, <2>1, <2>2, <2>3, RestInv
<1>4. ASSUME NEW b \in Backslashes,
             LastBackslash(b) \/ CodePoint(b) \/ BrokenCodePoint(b) \/ SimpleEscape(b)
      PROVE  IndInv'
  <2>1. b \in Nat /\ chunk <= b /\ b < end
    BY <1>2 DEF Backslashes, Found
  <2>2. Between(chunk, b) \in Seq(Bytes) /\ Len(Between(chunk, b)) = b - chunk
    <3>1. 1 <= chunk /\ b <= Len(doc)
      BY <1>2, <2>1
    <3> QED
      BY <1>1, <1>2, <2>1, <3>1, BetweenBytes
  <2>3. CASE LastBackslash(b)
    <3>1. CopyRest(Between(chunk, b), end) /\ read' = read
      BY <2>3 DEF LastBackslash
    <3> QED
      BY <1>0, <1>2, <2>1, <2>2, <3>1, RestInv
  <2>4. CASE CodePoint(b)
    <3>1. AtBackslash(b) /\ HexAt(b + 2, 4)
      BY <2>4 DEF CodePoint
    <3>2. b + 2 <= end
      BY <1>2, <2>1, <3>1 DEF AtBackslash
    <3>3. b + 2 \in Nat /\ (b + 2) + 4 <= end
      BY <1>2, <2>1, <3>1, <3>2, HexStopsAtQuote
    <3>4. HexNumber(b + 2) \in Nat /\ HexNumber(b + 2) < 65536
      BY <3>1, <3>3, HexNumberRange
    <3>5. /\ Utf8(HexNumber(b + 2)) \in Seq(Bytes)
          /\ Len(Utf8(HexNumber(b + 2))) \in Nat
          /\ Len(Utf8(HexNumber(b + 2))) <= 3
      BY <3>4, Utf8Bytes
    <3> DEFINE addition == Between(chunk, b) \o Utf8(HexNumber(b + 2))
    <3>6. addition \in Seq(Bytes) /\ Len(addition) <= (b - chunk) + 3
      <4>1. /\ addition \in Seq(Bytes)
            /\ Len(addition) = Len(Between(chunk, b)) + Len(Utf8(HexNumber(b + 2)))
        BY <2>2, <3>5, ConcatBytes
      <4>2. \A m \in Nat : m <= 3 => (b - chunk) + m <= (b - chunk) + 3
        BY <1>2, <2>1
      <4> QED
        BY <2>2, <3>5, <4>1, <4>2
    <3>7. GoOn(addition, b + 6) /\ read' = b + 5
      BY <2>4 DEF CodePoint
    <3> HIDE DEF addition
    <3>8. Len(addition) \in Nat
      BY <3>6
    <3>9. /\ b + 6 \in Nat /\ chunk <= b + 6 /\ b + 6 <= end
          /\ Len(addition) <= (b + 6) - chunk
          /\ read' \in Nat /\ read' <= end
      BY <1>2, <2>1, <3>3, <3>6, <3>7, <3>8
    <3> QED
      BY <1>0, <3>6, <3>7, <3>9, RoundInv
  <2>5. CASE BrokenCodePoint(b)
    <3>1. AtBackslash(b)
      BY <2>5 DEF BrokenCodePoint
    <3>2. b + 2 <= end
      BY <1>2, <2>1, <3>1 DEF AtBackslash
    <3>3. PICK n \in 0 .. 3 : HexStops(b + 2, n) /\ read' = b + 2 + n
      BY <2>5 DEF BrokenCodePoint
    <3>4. b + 2 \in Nat /\ (b + 2) + n <= end
      BY <1>2, <2>1, <3>2, <3>3, HexStopsAtQuote DEF HexStops
    <3>5. CopyRest(Between(chunk, b), b + 1)
      BY <2>5 DEF BrokenCodePoint
    <3>6. /\ b + 1 \in Nat /\ chunk <= b + 1 /\ b + 1 <= end
          /\ Len(Between(chunk, b)) <= (b + 1) - chunk
          /\ read' \in Nat /\ read' <= end
      BY <1>2, <2>1, <2>2, <3>2, <3>3, <3>4
    <3> QED
      BY <1>0, <2>2, <3>5, <3>6, RestInv
  <2>6. CASE SimpleEscape(b)
    <3>1. AtBackslash(b)
      BY <2>6 DEF SimpleEscape
    <3>2. b + 2 <= end
      BY <1>2, <2>1, <3>1 DEF AtBackslash
    <3>3. doc[b + 1] \in Bytes
      BY <1>1, <1>2, <2>1, <3>2 DEF TypeOK
    <3>4. <<Unescape(doc[b + 1])>> \in Seq(Bytes) /\ Len(<<Unescape(doc[b + 1])>>) = 1
      BY <3>3, UnescapeIsByte
    <3> DEFINE addition == Between(chunk, b) \o <<Unescape(doc[b + 1])>>
    <3>5. addition \in Seq(Bytes) /\ Len(addition) = (b - chunk) + 1
      BY <2>2, <3>4, ConcatBytes
    <3>6. GoOn(addition, b + 2) /\ read' = read
      BY <2>6 DEF SimpleEscape
    <3> HIDE DEF addition
    <3>7. /\ b + 2 \in Nat /\ chunk <= b + 2
          /\ Len(addition) <= (b + 2) - chunk
          /\ read' \in Nat /\ read' <= end
      BY <1>2, <2>1, <3>5, <3>6
    <3> QED
      BY <1>0, <3>2, <3>5, <3>6, <3>7, RoundInv
  <2> QED
    BY <1>4, <2>3, <2>4, <2>5, <2>6
<1> QED
    BY <1>3, <1>4 DEF Parse

-----------------------------------------------------------------------------
(* The bounds are kept by every step of the writer and of the reader. *)
THEOREM BoundsKept == Spec => []IndInv
<1>1. ASSUME IndInv, [Next]_vars PROVE IndInv'
  <2>1. CASE Next
    BY <1>1, <2>1, EscapeInv, MeasureInv, ParseInv DEF Next
  <2>2. CASE UNCHANGED vars
    BY <1>1, <2>2 DEF vars, IndInv, TypeOK, BoundsInv
  <2> QED
    BY <1>1, <2>1, <2>2
<1> QED
    BY <1>1, InitInv, PTL DEF Spec

(* json_escape_string, json_str_len and parse_json_string handle bytes, in    *)
(* positions within what they were given.                                     *)
THEOREM StringTypes == Spec => []TypeOK
<1>1. IndInv => TypeOK
    BY DEF IndInv
<1> QED
    BY <1>1, BoundsKept, PTL

(* parse_json_string never writes behind its buffer and never looks behind    *)
(* the closing quote, for any text whatever.                                  *)
THEOREM StaysInBounds == Spec => []InBounds
<1>1. IndInv => InBounds
    BY DEF IndInv, BoundsInv, InBounds
<1> QED
    BY <1>1, BoundsKept, PTL

-----------------------------------------------------------------------------
(* Induction, about a set of numbers.                                         *)
LEMMA Numbers ==
    ASSUME NEW T \in SUBSET Nat, 0 \in T, \A n \in T : n + 1 \in T
    PROVE  T = Nat
<1>1. \E R : /\ IsWellFoundedOn(R, Nat)
             /\ \A m, n \in Nat : m < n => <<m, n>> \in R
  <2>1. IsWellFoundedOn(OpToRel(<, Nat), Nat)
    BY NatLessThanWellFounded
  <2>2. \A m, n \in Nat : m < n => <<m, n>> \in OpToRel(<, Nat)
    BY DEF OpToRel
  <2> QED
    BY <2>1, <2>2, Zenon
<1>2. PICK R : /\ IsWellFoundedOn(R, Nat)
               /\ \A m, n \in Nat : m < n => <<m, n>> \in R
  BY <1>1
<1> SUFFICES ASSUME Nat \ T # {} PROVE FALSE
  OBVIOUS
<1>3. PICK n \in Nat \ T : \A m \in Nat \ T : ~ (<<m, n>> \in R)
  <2>1. Nat \ T \subseteq Nat /\ IsWellFoundedOn(R, Nat)
    BY <1>2
  <2> QED
    BY <2>1, WFMin, Zenon
<1>4. n # 0
  BY <1>3
<1>5. n - 1 \in Nat /\ n - 1 < n /\ (n - 1) + 1 = n
  BY <1>3, <1>4
<1>6. n - 1 \in T
  BY <1>2, <1>3, <1>5
<1> QED
  BY <1>3, <1>5, <1>6


(***************************************************************************)
(* Pieces and their texts.                                                 *)
(***************************************************************************)

(* The first m of some byte sequences, one behind the other.                  *)
Joins(q, m, F) == /\ F \in [0 .. m -> Seq(Bytes)] /\ F[0] = <<>>
                  /\ \A k \in 1 .. m : F[k] = F[k - 1] \o q[k]

LEMMA JoinsExist ==
    ASSUME NEW q \in Seq(Seq(Bytes))
    PROVE  \E F : Joins(q, Len(q), F)
<1>1. PICK n : n = Len(q) /\ n \in Nat /\ \A k \in 1 .. n : q[k] \in Seq(Bytes)
  BY LenProperties
<1> DEFINE T == {m \in Nat : m <= n => \E F : Joins(q, m, F)}
<1>2. 0 \in T
  <2>1. PICK F : F = [k \in 0 .. 0 |-> <<>>]
    OBVIOUS
  <2>2. 0 \in 0 .. 0 /\ \A k \in 0 .. 0 : F[k] \in Seq(Bytes)
    BY <2>1, EmptySeq
  <2>3. F \in [0 .. 0 -> Seq(Bytes)] /\ F[0] = <<>>
    BY <2>1, <2>2
  <2>4. Joins(q, 0, F)
    BY <2>3 DEF Joins
  <2> QED
    BY <2>4
<1>3. ASSUME NEW m \in T
      PROVE  m + 1 \in T
  <2>1. m \in Nat
    OBVIOUS
  <2>2. SUFFICES ASSUME m + 1 <= n PROVE \E F : Joins(q, m + 1, F)
    BY <2>1
  <2>3. m <= n /\ m + 1 \in 1 .. n
    BY <1>1, <2>1, <2>2
  <2>4. PICK F : Joins(q, m, F)
    BY <2>3
  <2>5. PICK e : e = F[m] \o q[m + 1]
    OBVIOUS
  <2>6. e \in Seq(Bytes)
    <3>1. F[m] \in Seq(Bytes)
      BY <2>1, <2>4 DEF Joins
    <3>2. q[m + 1] \in Seq(Bytes)
      BY <1>1, <2>3
    <3> QED
      BY <2>5, <3>1, <3>2, ConcatProperties
  <2>7. PICK G : G = [k \in 0 .. m + 1 |-> IF k = m + 1 THEN e ELSE F[k]]
    OBVIOUS
  <2>8. \A k \in 0 .. m + 1 : k \in 0 .. m \/ k = m + 1
    BY <2>1
  <2>9. G[m + 1] = e /\ \A k \in 0 .. m : G[k] = F[k]
    BY <2>1, <2>7
  <2>10. \A k \in 0 .. m : F[k] \in Seq(Bytes)
    BY <2>4 DEF Joins
  <2>11. G \in [0 .. m + 1 -> Seq(Bytes)]
    BY <2>6, <2>7, <2>8, <2>10
  <2>12. G[0] = <<>>
    BY <2>1, <2>4, <2>9 DEF Joins
  <2>13. ASSUME NEW k \in 1 .. m + 1
         PROVE  G[k] = G[k - 1] \o q[k]
    <3>1. CASE k = m + 1
      <4>1. k - 1 = m /\ m \in 0 .. m
        BY <2>1, <3>1
      <4> QED
        BY <2>5, <2>9, <3>1, <4>1
    <3>2. CASE k # m + 1
      <4>1. k \in 1 .. m /\ k \in 0 .. m /\ k - 1 \in 0 .. m
        BY <2>1, <3>2
      <4>2. F[k] = F[k - 1] \o q[k]
        BY <2>4, <4>1 DEF Joins
      <4> QED
        BY <2>9, <4>1, <4>2
    <3> QED
      BY <3>1, <3>2
  <2>14. Joins(q, m + 1, G)
    BY <2>11, <2>12, <2>13 DEF Joins
  <2> QED
    BY <2>14
<1>4. T = Nat
  <2> HIDE DEF T
  <2>1. T \in SUBSET Nat
    BY DEF T
  <2> QED
    BY <1>2, <1>3, <2>1, Numbers
<1>5. n \in T
  BY <1>1, <1>4
<1> QED
  BY <1>1, <1>5

(* FlattenSeq gives the last of them.                                         *)
LEMMA Flattened ==
    ASSUME NEW q \in Seq(Seq(Bytes)), NEW F, Joins(q, Len(q), F)
    PROVE  FlattenSeq(q) = F[Len(q)]
<1>1. PICK n : n = Len(q) /\ n \in Nat
  BY LenProperties
<1>2. Joins(q, n, F)
  BY <1>1
<1>3. CASE n = 0
  <2>1. q = <<>>
    BY <1>1, <1>3, EmptySeq
  <2>2. FlattenSeq(q) = q
    BY <1>1, <1>3 DEF FlattenSeq
  <2> QED
    BY <1>1, <1>2, <1>3, <2>1, <2>2 DEF Joins
<1>4. CASE n # 0
  <2>1. \A k \in 1 .. n : k - 1 \in 0 .. n /\ k \in 0 .. n /\ (k # 1 => k - 1 \in 1 .. n)
    BY <1>1
  <2>2. F[1] = q[1]
    <3>1. 1 \in 1 .. n /\ 1 - 1 = 0
      BY <1>1, <1>4
    <3>2. F[1] = F[1 - 1] \o q[1] /\ F[0] = <<>>
      BY <1>2, <3>1 DEF Joins
    <3>3. q[1] \in Seq(Bytes)
      BY <1>1, <3>1, LenProperties
    <3> QED
      BY <3>1, <3>2, <3>3, ConcatEmptySeq
  <2>3. PICK g : g = [i \in 1 .. n |-> F[i]]
    OBVIOUS
  <2>4. g = [i \in 1 .. n |-> IF i = 1 THEN q[i] ELSE g[i - 1] \o q[i]]
    <3>1. ASSUME NEW i \in 1 .. n
          PROVE  F[i] = IF i = 1 THEN q[i] ELSE g[i - 1] \o q[i]
      <4>1. CASE i = 1
        BY <2>2, <4>1
      <4>2. CASE i # 1
        <5>1. g[i - 1] = F[i - 1]
          BY <2>1, <2>3, <4>2
        <5>2. F[i] = F[i - 1] \o q[i]
          BY <1>2 DEF Joins
        <5> QED
          BY <4>2, <5>1, <5>2
      <4> QED
        BY <4>1, <4>2
    <3> QED
      BY <2>3, <3>1
  <2>5. PICK f : f = CHOOSE h : h = [i \in 1 .. n |-> IF i = 1 THEN q[i] ELSE h[i - 1] \o q[i]]
    OBVIOUS
  <2>6. f = [i \in 1 .. n |-> IF i = 1 THEN q[i] ELSE f[i - 1] \o q[i]]
    BY <2>4, <2>5
  <2>7. FlattenSeq(q) = f[n]
    BY <1>1, <1>4, <2>5 DEF FlattenSeq
  <2> DEFINE T == {m \in Nat : m + 1 <= n => f[m + 1] = F[m + 1]}
  <2>8. 0 \in T
    <3>1. 1 \in 1 .. n /\ 0 + 1 = 1
      BY <1>1, <1>4
    <3>2. f[1] = q[1]
      BY <2>6, <3>1
    <3> QED
      BY <2>2, <3>1, <3>2
  <2>9. ASSUME NEW m \in T
        PROVE  m + 1 \in T
    <3>1. SUFFICES ASSUME (m + 1) + 1 <= n PROVE f[(m + 1) + 1] = F[(m + 1) + 1]
      OBVIOUS
    <3>2. PICK k : k = (m + 1) + 1
      OBVIOUS
    <3>3. m \in Nat /\ m + 1 <= n /\ k \in 1 .. n /\ k # 1 /\ k - 1 = m + 1
      BY <1>1, <3>1, <3>2
    <3>4. f[k] = f[k - 1] \o q[k]
      BY <2>6, <3>3
    <3>5. F[k] = F[k - 1] \o q[k]
      BY <1>2, <3>3 DEF Joins
    <3>6. f[k - 1] = F[k - 1]
      BY <3>3
    <3> QED
      BY <3>2, <3>4, <3>5, <3>6
  <2>10. T = Nat
    <3> HIDE DEF T
    <3>1. T \in SUBSET Nat
      BY DEF T
    <3> QED
      BY <2>8, <2>9, <3>1, Numbers
  <2>11. PICK m : m = n - 1
    OBVIOUS
  <2>12. m \in Nat /\ m + 1 = n
    BY <1>1, <1>4, <2>11
  <2>13. m \in T
    BY <2>10, <2>12
  <2> QED
    BY <1>1, <2>7, <2>12, <2>13
<1> QED
  BY <1>3, <1>4

(* What a piece looks like: plain, or a backslash with more behind it.  A     *)
(* quote or another backslash is only the second byte of two.                 *)
PlainPiece(p) == /\ Len(p.text) = 1 /\ p.text[1] \notin {Quote, Backslash}
                 /\ p.bytes = p.text

EscapePiece(p) ==
    /\ Len(p.text) >= 2 /\ p.text[1] = Backslash
    /\ \A i \in 2 .. Len(p.text) : /\ p.text[i] = Quote => p.text = <<Backslash, Quote>>
                                   /\ p.text[i] = Backslash => p.text = <<Backslash, Backslash>>
    /\ p.text[2] # 117 => Len(p.text) = 2 /\ p.bytes = <<Unescape(p.text[2])>>
    /\ p.text[2] = 117 => /\ Len(p.text) = 6 /\ HasFourDigits(p.text)
                          /\ p.bytes = Utf8(FourDigits(p.text))

LEMMA DigitRange ==
    ASSUME NEW b \in Bytes, IsDigit(b)
    PROVE  DigitValue(b) \in 0 .. 15 /\ b # Quote /\ b # Backslash
BY DEF IsDigit, DigitValue, Bytes, Quote, Backslash

LEMMA PieceShape ==
    ASSUME NEW p, IsPiece(p)
    PROVE  /\ p.text \in Seq(Bytes) /\ p.bytes \in Seq(Bytes) /\ Len(p.text) \in Nat \ {0}
           /\ PlainPiece(p) \/ EscapePiece(p)
<1>1. CASE IsPlain(p)
  <2>1. PICK b \in Bytes \ {Quote, Backslash} : p = [text |-> <<b>>, bytes |-> <<b>>]
    BY <1>1 DEF IsPlain
  <2>2. p.text = <<b>> /\ p.bytes = <<b>> /\ Len(<<b>>) = 1 /\ <<b>>[1] = b /\ <<b>> \in Seq(Bytes)
    BY <2>1
  <2> QED
    BY <2>1, <2>2 DEF PlainPiece
<1>2. CASE IsShorthand(p)
  <2>1. PICK e \in Shorthands : p = [text |-> <<Backslash, e[1]>>, bytes |-> <<e[2]>>]
    BY <1>2 DEF IsShorthand
  <2>2. PICK b, c : b = e[1] /\ c = e[2]
    OBVIOUS
  <2>3. b \in Bytes /\ c \in Bytes /\ c = Unescape(b) /\ b # 117
    BY <2>2 DEF Shorthands, Unescape, Bytes, Quote, Backslash
  <2>4. p.text = <<Backslash, b>> /\ p.bytes = <<c>>
    BY <2>1, <2>2
  <2>5. Backslash \in Bytes
    BY DEF Backslash, Bytes
  <2>6. PICK t : t = <<Backslash, b>>
    OBVIOUS
  <2>7. t \in Seq(Bytes) /\ Len(t) = 2 /\ t[1] = Backslash /\ t[2] = b /\ <<c>> \in Seq(Bytes)
    BY <2>3, <2>5, <2>6
  <2>8. \A i \in 2 .. 2 : i = 2
    OBVIOUS
  <2> QED
    BY <2>3, <2>4, <2>6, <2>7, <2>8 DEF EscapePiece
<1>3. CASE IsCodePoint(p)
  <2>1. PICK t : t = p.text
    OBVIOUS
  <2>2. /\ t \in Seq(Bytes) /\ Len(t) = 6 /\ t[1] = Backslash /\ t[2] = 117
        /\ \A j \in 3 .. 6 : IsDigit(t[j])
        /\ p.bytes = Utf8(FourDigits(t))
    <3>1. p.text \in Seq(Bytes) /\ Len(p.text) = 6 /\ p.text[1] = Backslash /\ p.text[2] = 117
      BY <1>3 DEF IsCodePoint
    <3>2. HasFourDigits(p.text) /\ p.bytes = Utf8(FourDigits(p.text))
      BY <1>3 DEF IsCodePoint
    <3>3. HasFourDigits(t)
      BY <2>1, <3>2
    <3>4. \A j \in 3 .. 6 : IsDigit(t[j])
      BY <3>3 DEF HasFourDigits
    <3> QED
      BY <2>1, <3>1, <3>2, <3>4
  <2>3. \A j \in 3 .. 6 : t[j] \in Bytes
    <3>1. t \in Seq(Bytes) /\ Len(t) = 6
      BY <2>2
    <3>2. \A j \in 1 .. 6 : t[j] \in Bytes
      BY <3>1, LenProperties
    <3> QED
      BY <3>2
  <2>4. \A j \in 3 .. 6 : DigitValue(t[j]) \in 0 .. 15 /\ t[j] # Quote /\ t[j] # Backslash
    BY <2>2, <2>3, DigitRange
  <2>5. FourDigits(t) \in Nat /\ FourDigits(t) < 65536
    <3>1. PICK d3, d4, d5, d6 : /\ d3 = DigitValue(t[3]) /\ d4 = DigitValue(t[4])
                                /\ d5 = DigitValue(t[5]) /\ d6 = DigitValue(t[6])
      OBVIOUS
    <3>2. d3 \in 0 .. 15 /\ d4 \in 0 .. 15 /\ d5 \in 0 .. 15 /\ d6 \in 0 .. 15
      BY <2>4, <3>1
    <3>3. FourDigits(t) = 4096 * d3 + 256 * d4 + 16 * d5 + d6
      BY <3>1 DEF FourDigits
    <3> QED
      BY <3>2, <3>3
  <2>6. p.bytes \in Seq(Bytes)
    BY <2>2, <2>5, Utf8Bytes
  <2>7. \A i \in 2 .. 6 : i = 2 \/ i \in 3 .. 6
    OBVIOUS
  <2>8. \A i \in 2 .. 6 : t[i] # Quote /\ t[i] # Backslash
    BY <2>2, <2>4, <2>7 DEF Quote, Backslash
  <2> QED
    BY <2>1, <2>2, <2>6, <2>8 DEF EscapePiece, HasFourDigits
<1> QED
  BY <1>1, <1>2, <1>3 DEF IsPiece

Pieced(s) == s \in Seq(ToSet(s)) /\ \A j \in DOMAIN s : IsPiece(s[j])

(* The text t stands at position p of d.                                      *)
StandsAt(t, d, p) == \A i \in 1 .. Len(t) : d[p + i - 1] = t[i]

(* Where each piece begins in the text d: piece k is on f[k - 1] .. f[k] - 1. *)
Placed(s, d, f) ==
    /\ f \in [0 .. Len(s) -> Nat] /\ f[0] = 2
    /\ d \in Seq(Bytes) /\ Len(d) = f[Len(s)] /\ d[1] = Quote /\ d[f[Len(s)]] = Quote
    /\ \A k \in 1 .. Len(s) : /\ f[k] = f[k - 1] + Len(s[k].text)
                              /\ StandsAt(s[k].text, d, f[k - 1])

LEMMA PiecedLength ==
    ASSUME NEW s, Pieced(s)
    PROVE  /\ Len(s) \in Nat /\ DOMAIN s = 1 .. Len(s)
           /\ \A k \in 1 .. Len(s) : /\ IsPiece(s[k]) /\ Len(s[k].text) \in Nat \ {0}
                                     /\ s[k].text \in Seq(Bytes) /\ s[k].bytes \in Seq(Bytes)
<1>1. Len(s) \in Nat /\ DOMAIN s = 1 .. Len(s)
  BY LenProperties DEF Pieced
<1>2. \A k \in 1 .. Len(s) : IsPiece(s[k])
  BY <1>1 DEF Pieced
<1> QED
  BY <1>1, <1>2, PieceShape

(* The bytes and the texts of the pieces are sequences of byte sequences.     *)
LEMMA PartsOfPieces ==
    ASSUME NEW s, Pieced(s)
    PROVE  /\ [j \in DOMAIN s |-> s[j].text] \in Seq(Seq(Bytes))
           /\ [j \in DOMAIN s |-> s[j].bytes] \in Seq(Seq(Bytes))
           /\ Len([j \in DOMAIN s |-> s[j].text]) = Len(s)
           /\ Len([j \in DOMAIN s |-> s[j].bytes]) = Len(s)
<1>1. PICK n : n = Len(s)
  OBVIOUS
<1>2. PICK q, r : q = [j \in DOMAIN s |-> s[j].text] /\ r = [j \in DOMAIN s |-> s[j].bytes]
  OBVIOUS
<1>3. n \in Nat /\ DOMAIN s = 1 .. n
  BY <1>1, PiecedLength
<1>4. q \in [1 .. n -> Seq(Bytes)] /\ r \in [1 .. n -> Seq(Bytes)]
  BY <1>1, <1>2, <1>3, PiecedLength
<1>5. q \in Seq(Seq(Bytes)) /\ Len(q) = n /\ r \in Seq(Seq(Bytes)) /\ Len(r) = n
  BY <1>3, <1>4
<1> QED
  BY <1>1, <1>2, <1>5

(* What was joined stays where it is when more is joined to it.               *)
LEMMA JoinsGrow ==
    ASSUME NEW q \in Seq(Seq(Bytes)), NEW F, Joins(q, Len(q), F)
    PROVE  \A k \in 0 .. Len(q), m \in 0 .. Len(q) :
              k <= m => Len(F[k]) <= Len(F[m]) /\ \A i \in 1 .. Len(F[k]) : F[m][i] = F[k][i]
<1>1. PICK n : n = Len(q) /\ n \in Nat /\ \A k \in 1 .. n : q[k] \in Seq(Bytes)
  BY LenProperties
<1>2. Joins(q, n, F)
  BY <1>1
<1>3. \A k \in 0 .. n : F[k] \in Seq(Bytes)
  BY <1>2 DEF Joins
<1> SUFFICES ASSUME NEW k \in 0 .. n
             PROVE  \A m \in 0 .. n : k <= m => Len(F[k]) <= Len(F[m]) /\ \A i \in 1 .. Len(F[k]) : F[m][i] = F[k][i]
  BY <1>1
<1> DEFINE T == {h \in Nat : k + h <= n => /\ Len(F[k]) <= Len(F[k + h])
                                           /\ \A i \in 1 .. Len(F[k]) : F[k + h][i] = F[k][i]}
<1>4. 0 \in T
  <2>1. k + 0 = k /\ Len(F[k]) \in Nat
    BY <1>1, <1>3, LenProperties
  <2> QED
    BY <2>1
<1>5. ASSUME NEW h \in T
      PROVE  h + 1 \in T
  <2>1. h \in Nat
    OBVIOUS
  <2>2. SUFFICES ASSUME k + (h + 1) <= n
                 PROVE  /\ Len(F[k]) <= Len(F[k + (h + 1)])
                        /\ \A i \in 1 .. Len(F[k]) : F[k + (h + 1)][i] = F[k][i]
    BY <2>1
  <2>3. PICK m : m = k + (h + 1)
    OBVIOUS
  <2>4. m \in 1 .. n /\ m - 1 = k + h /\ m - 1 \in 0 .. n /\ k + h <= n
    BY <1>1, <2>1, <2>2, <2>3
  <2>5. PICK u, v, w : u = F[m - 1] /\ v = q[m] /\ w = F[m]
    OBVIOUS
  <2>6. u \in Seq(Bytes) /\ v \in Seq(Bytes) /\ w = u \o v
    BY <1>1, <1>2, <1>3, <2>4, <2>5 DEF Joins
  <2>7. /\ Len(w) = Len(u) + Len(v) /\ Len(u) \in Nat /\ Len(v) \in Nat
        /\ \A i \in 1 .. Len(u) : w[i] = u[i]
    <3>1. Len(u) \in Nat /\ Len(v) \in Nat
      BY <2>6, LenProperties
    <3>2. \A i \in 1 .. Len(u) : i \in 1 .. Len(u) + Len(v) /\ i <= Len(u)
      BY <3>1
    <3> QED
      BY <2>6, <3>1, <3>2, ConcatProperties
  <2>8. Len(F[k]) <= Len(u) /\ (\A i \in 1 .. Len(F[k]) : u[i] = F[k][i]) /\ Len(F[k]) \in Nat
    BY <1>3, <2>4, <2>5, LenProperties
  <2>9. Len(F[k]) <= Len(w) /\ \A i \in 1 .. Len(F[k]) : w[i] = F[k][i]
    <3>1. PICK a, b, c : a = Len(F[k]) /\ b = Len(u) /\ c = Len(v)
      OBVIOUS
    <3>2. a \in Nat /\ b \in Nat /\ c \in Nat /\ a <= b /\ Len(w) = b + c
      BY <2>7, <2>8, <3>1
    <3>3. a <= Len(w) /\ \A i \in 1 .. a : i \in 1 .. b
      BY <3>2
    <3>4. \A i \in 1 .. a : w[i] = u[i] /\ u[i] = F[k][i]
      BY <2>7, <2>8, <3>1, <3>3
    <3> QED
      BY <3>1, <3>3, <3>4
  <2> QED
    BY <2>3, <2>5, <2>9
<1>6. T = Nat
  <2> HIDE DEF T
  <2>1. T \in SUBSET Nat
    BY DEF T
  <2> QED
    BY <1>4, <1>5, <2>1, Numbers
<1>7. ASSUME NEW m \in 0 .. n, k <= m
      PROVE  Len(F[k]) <= Len(F[m]) /\ \A i \in 1 .. Len(F[k]) : F[m][i] = F[k][i]
  <2>1. PICK h : h = m - k
    OBVIOUS
  <2>2. h \in Nat /\ k + h = m /\ k + h <= n
    BY <1>1, <1>7, <2>1
  <2>3. h \in T
    BY <1>6, <2>2
  <2> QED
    BY <2>2, <2>3
<1> QED
  BY <1>7

(* Every text made of pieces has them in their places.                        *)
LEMMA TextPlaced ==
    ASSUME NEW s, Pieced(s), NEW F, Joins([j \in DOMAIN s |-> s[j].text], Len(s), F)
    PROVE  /\ TextOf(s) = (<<Quote>> \o F[Len(s)]) \o <<Quote>>
           /\ Placed(s, TextOf(s), [k \in 0 .. Len(s) |-> Len(F[k]) + 2])
<1>1. PICK n : n = Len(s) /\ n \in Nat /\ DOMAIN s = 1 .. n
  BY PiecedLength
<1>2. PICK q : q = [j \in DOMAIN s |-> s[j].text]
  OBVIOUS
<1>3. q \in Seq(Seq(Bytes)) /\ Len(q) = n /\ \A k \in 1 .. n : q[k] = s[k].text
  BY <1>1, <1>2, PartsOfPieces
<1>4. Joins(q, n, F)
  BY <1>1, <1>2
<1>5. FlattenSeq(q) = F[n]
  BY <1>3, <1>4, Flattened
<1>6. \A k \in 0 .. n : F[k] \in Seq(Bytes) /\ Len(F[k]) \in Nat
  BY <1>4, LenProperties DEF Joins
<1>7. PICK d, t, u : d = TextOf(s) /\ t = F[n] /\ u = <<Quote>> \o t
  OBVIOUS
<1>8. t \in Seq(Bytes) /\ Len(t) \in Nat /\ Quote \in Bytes
  BY <1>1, <1>6, <1>7 DEF Quote, Bytes
<1>9. d = u \o <<Quote>> /\ TextOf(s) = (<<Quote>> \o F[Len(s)]) \o <<Quote>>
  <2>1. TextOf(s) = <<Quote>> \o t \o <<Quote>>
    BY <1>2, <1>5, <1>7 DEF TextOf
  <2> QED
    BY <1>1, <1>7, <2>1
<1>10. /\ u \in Seq(Bytes) /\ Len(u) = Len(t) + 1 /\ u[1] = Quote
       /\ \A i \in 1 .. Len(t) : u[i + 1] = t[i]
  <2>1. <<Quote>> \in Seq(Bytes) /\ Len(<<Quote>>) = 1 /\ <<Quote>>[1] = Quote
    BY <1>8
  <2>2. /\ u \in Seq(Bytes) /\ Len(u) = 1 + Len(t)
        /\ \A i \in 1 .. 1 + Len(t) : u[i] = IF i <= 1 THEN <<Quote>>[i] ELSE t[i - 1]
    BY <1>7, <1>8, <2>1, ConcatProperties
  <2>3. \A i \in 1 .. Len(t) : i + 1 \in 1 .. 1 + Len(t) /\ ~(i + 1 <= 1) /\ (i + 1) - 1 = i
    BY <1>8
  <2>4. 1 \in 1 .. 1 + Len(t)
    BY <1>8
  <2> QED
    BY <1>8, <2>1, <2>2, <2>3, <2>4
<1>11. /\ d \in Seq(Bytes) /\ Len(d) = Len(t) + 2 /\ d[1] = Quote /\ d[Len(t) + 2] = Quote
       /\ \A i \in 1 .. Len(t) : d[i + 1] = t[i]
  <2>1. <<Quote>> \in Seq(Bytes) /\ Len(<<Quote>>) = 1 /\ <<Quote>>[1] = Quote
    BY <1>8
  <2>2. /\ d \in Seq(Bytes) /\ Len(d) = (Len(t) + 1) + 1
        /\ \A i \in 1 .. (Len(t) + 1) + 1 : d[i] = IF i <= Len(t) + 1 THEN u[i] ELSE <<Quote>>[i - (Len(t) + 1)]
    BY <1>9, <1>10, <2>1, ConcatProperties
  <2>3. \A i \in 1 .. Len(t) : i + 1 \in 1 .. (Len(t) + 1) + 1 /\ i + 1 <= Len(t) + 1
    BY <1>8
  <2>4. /\ 1 \in 1 .. (Len(t) + 1) + 1 /\ 1 <= Len(t) + 1
        /\ Len(t) + 2 \in 1 .. (Len(t) + 1) + 1 /\ ~(Len(t) + 2 <= Len(t) + 1) /\ Len(t) + 2 - (Len(t) + 1) = 1
        /\ (Len(t) + 1) + 1 = Len(t) + 2
    BY <1>8
  <2>5. d[1] = u[1] /\ d[Len(t) + 2] = <<Quote>>[1]
    BY <2>2, <2>4
  <2>6. \A i \in 1 .. Len(t) : d[i + 1] = u[i + 1]
    BY <2>2, <2>3
  <2> QED
    BY <1>10, <2>1, <2>2, <2>4, <2>5, <2>6
<1>12. PICK f : f = [k \in 0 .. n |-> Len(F[k]) + 2]
  OBVIOUS
<1>13. f \in [0 .. n -> Nat] /\ f[n] = Len(t) + 2 /\ \A k \in 0 .. n : f[k] = Len(F[k]) + 2
  BY <1>1, <1>6, <1>7, <1>12
<1>14. f[0] = 2
  <2>1. F[0] = <<>> /\ 0 \in 0 .. n
    BY <1>1, <1>4 DEF Joins
  <2> QED
    BY <1>13, <2>1, EmptySeq
<1>15. ASSUME NEW k \in 1 .. n
       PROVE  f[k] = f[k - 1] + Len(s[k].text) /\ StandsAt(s[k].text, d, f[k - 1])
  <2>1. k \in 0 .. n /\ k - 1 \in 0 .. n /\ k <= n /\ n \in 0 .. n
    BY <1>1
  <2>2. PICK v, x, w : v = F[k - 1] /\ x = s[k].text /\ w = F[k]
    OBVIOUS
  <2>3. w = v \o x
    BY <1>3, <1>4, <2>2 DEF Joins
  <2>4. v \in Seq(Bytes) /\ x \in Seq(Bytes) /\ w \in Seq(Bytes)
    BY <1>1, <1>6, <2>1, <2>2, PiecedLength
  <2>5. /\ Len(w) = Len(v) + Len(x) /\ Len(v) \in Nat /\ Len(x) \in Nat
        /\ \A i \in 1 .. Len(v) + Len(x) : w[i] = IF i <= Len(v) THEN v[i] ELSE x[i - Len(v)]
    BY <2>3, <2>4, ConcatProperties, LenProperties
  <2>6. Len(w) <= Len(t) /\ \A i \in 1 .. Len(w) : t[i] = w[i]
    BY <1>3, <1>4, <1>7, <2>1, <2>2, JoinsGrow
  <2>7. f[k - 1] = Len(v) + 2 /\ f[k] = Len(w) + 2
    BY <1>13, <2>1, <2>2
  <2>8. ASSUME NEW i \in 1 .. Len(x)
        PROVE  d[f[k - 1] + i - 1] = x[i]
    <3>1. PICK h : h = Len(v) + i
      OBVIOUS
    <3>2. /\ h \in 1 .. Len(v) + Len(x) /\ ~(h <= Len(v)) /\ h - Len(v) = i
          /\ h \in 1 .. Len(w) /\ h \in 1 .. Len(t) /\ f[k - 1] + i - 1 = h + 1
      BY <1>8, <2>5, <2>6, <2>7, <3>1
    <3>3. d[h + 1] = t[h] /\ t[h] = w[h] /\ w[h] = x[h - Len(v)]
      BY <1>11, <2>5, <2>6, <3>2
    <3> QED
      BY <3>2, <3>3
  <2>9. f[k] = f[k - 1] + Len(x)
    BY <2>5, <2>7
  <2>10. StandsAt(x, d, f[k - 1])
    BY <2>8 DEF StandsAt
  <2> QED
    BY <2>2, <2>9, <2>10
<1>16. Placed(s, d, f)
  BY <1>1, <1>11, <1>13, <1>14, <1>15 DEF Placed
<1> QED
  BY <1>1, <1>7, <1>9, <1>12, <1>16

(***************************************************************************)
(* Reading what is made of pieces.                                         *)
(***************************************************************************)

(* The text d is made of the pieces s, which are not misread: they begin at   *)
(* the positions in f, and D has the bytes they stand for, as far as each.    *)
StandsFor(s, D) == Joins([j \in DOMAIN s |-> s[j].bytes], Len(s), D)
Laid(s, d, f, D) == Pieced(s) /\ Placed(s, d, f) /\ ~Misread(s) /\ StandsFor(s, D)

PlainBetween(s, k, m) == \A j \in k + 1 .. m : PlainPiece(s[j])
NoneFrom(d, p, q) == \A j \in Nat : p <= j /\ j < q => d[j] # Backslash

LEMMA PlacesGrow ==
    ASSUME NEW s, NEW d, NEW f, Pieced(s), Placed(s, d, f)
    PROVE  \A k, m \in 0 .. Len(s) : k <= m => f[k] + (m - k) <= f[m]
<1>1. PICK n : n = Len(s) /\ n \in Nat
  BY PiecedLength
<1>2. f \in [0 .. n -> Nat] /\ \A k \in 1 .. n : f[k - 1] + 1 <= f[k]
  <2>1. f \in [0 .. n -> Nat] /\ \A k \in 1 .. n : f[k] = f[k - 1] + Len(s[k].text)
    BY <1>1 DEF Placed
  <2>2. \A k \in 1 .. n : Len(s[k].text) \in Nat \ {0} /\ k - 1 \in 0 .. n
    BY <1>1, PiecedLength
  <2> QED
    BY <2>1, <2>2
<1> SUFFICES ASSUME NEW k \in 0 .. n
             PROVE  \A m \in 0 .. n : k <= m => f[k] + (m - k) <= f[m]
  BY <1>1
<1> DEFINE T == {h \in Nat : k + h <= n => f[k] + h <= f[k + h]}
<1>3. 0 \in T
  BY <1>1, <1>2
<1>4. ASSUME NEW h \in T PROVE h + 1 \in T
  <2>1. h \in Nat /\ k + (h + 1) = (k + h) + 1 /\ k \in Nat
    OBVIOUS
  <2>2. SUFFICES ASSUME k + (h + 1) <= n PROVE f[k] + (h + 1) <= f[k + (h + 1)]
    BY <2>1
  <2>3. PICK m : m = k + (h + 1)
    OBVIOUS
  <2>4. m \in 1 .. n /\ m - 1 = k + h /\ k + h <= n /\ k + h \in 0 .. n /\ m \in 0 .. n
    BY <1>1, <2>1, <2>2, <2>3
  <2>5. f[k + h] + 1 <= f[m]
    BY <1>2, <2>4
  <2>6. f[k] + h <= f[k + h]
    BY <2>4
  <2>7. f[k] \in Nat /\ f[k + h] \in Nat /\ f[m] \in Nat
    BY <1>2, <2>4
  <2>8. f[k] + (h + 1) <= f[m]
    BY <2>1, <2>5, <2>6, <2>7
  <2> QED
    BY <2>3, <2>8
<1>5. T = Nat
  <2> HIDE DEF T
  <2>1. T \in SUBSET Nat
    BY DEF T
  <2> QED
    BY <1>3, <1>4, <2>1, Numbers
<1>6. ASSUME NEW m \in 0 .. n, k <= m PROVE f[k] + (m - k) <= f[m]
  <2>1. PICK h : h = m - k
    OBVIOUS
  <2>2. h \in Nat /\ k + h = m /\ k + h <= n
    BY <1>1, <1>6, <2>1
  <2>3. h \in T
    BY <1>5, <2>2
  <2> QED
    BY <2>1, <2>2, <2>3
<1> QED
  BY <1>6

(* Piece k of a text is where it should be.                                   *)
IsPlaced(s, d, f, k) ==
    /\ k - 1 \in 0 .. Len(s) /\ f[k - 1] \in Nat /\ f[k - 1] >= 2 /\ f[k] \in Nat
    /\ Len(s[k].text) \in Nat \ {0} /\ s[k].text \in Seq(Bytes) /\ s[k].bytes \in Seq(Bytes)
    /\ f[k] = f[k - 1] + Len(s[k].text) /\ f[k] <= f[Len(s)]
    /\ StandsAt(s[k].text, d, f[k - 1]) /\ d[f[k - 1]] = s[k].text[1]
    /\ PlainPiece(s[k]) \/ EscapePiece(s[k])

LEMMA PieceAt ==
    ASSUME NEW s, NEW d, NEW f, Pieced(s), Placed(s, d, f), NEW k \in 1 .. Len(s)
    PROVE  IsPlaced(s, d, f, k)
<1>1. PICK n : n = Len(s) /\ n \in Nat
  BY PiecedLength
<1>2. k \in 0 .. n /\ k - 1 \in 0 .. n /\ 0 \in 0 .. n /\ n \in 0 .. n /\ k <= n /\ 0 <= k - 1
  BY <1>1
<1>3. f \in [0 .. n -> Nat] /\ f[0] = 2
  BY <1>1 DEF Placed
<1>4. f[k - 1] \in Nat /\ f[k] \in Nat /\ f[n] \in Nat
  BY <1>2, <1>3
<1>5. f[0] + ((k - 1) - 0) <= f[k - 1] /\ f[k] + (n - k) <= f[n]
  BY <1>1, <1>2, PlacesGrow
<1>6. f[k - 1] >= 2 /\ f[k] <= f[n]
  BY <1>1, <1>2, <1>3, <1>4, <1>5
<1>7. f[k] = f[k - 1] + Len(s[k].text) /\ StandsAt(s[k].text, d, f[k - 1])
  BY <1>1 DEF Placed
<1>8. /\ Len(s[k].text) \in Nat \ {0} /\ s[k].text \in Seq(Bytes) /\ s[k].bytes \in Seq(Bytes)
      /\ IsPiece(s[k])
  BY PiecedLength
<1>9. PlainPiece(s[k]) \/ EscapePiece(s[k])
  BY <1>8, PieceShape
<1>10. d[f[k - 1]] = s[k].text[1]
  <2>1. 1 \in 1 .. Len(s[k].text) /\ f[k - 1] + 1 - 1 = f[k - 1]
    BY <1>4, <1>8
  <2> QED
    BY <1>7, <2>1 DEF StandsAt
<1> QED
  BY <1>1, <1>2, <1>4, <1>6, <1>7, <1>8, <1>9, <1>10 DEF IsPlaced

(* Every position between the quotes is in a piece.                           *)
LEMMA InPiece ==
    ASSUME NEW s, NEW d, NEW f, Pieced(s), Placed(s, d, f),
           NEW j \in Nat, 2 <= j, j < f[Len(s)]
    PROVE  \E k \in 1 .. Len(s) : \E i \in 1 .. Len(s[k].text) :
              /\ j = f[k - 1] + i - 1 /\ d[j] = s[k].text[i]
<1>1. PICK n : n = Len(s) /\ n \in Nat
  BY PiecedLength
<1>2. f \in [0 .. n -> Nat] /\ f[0] = 2
  BY <1>1 DEF Placed
<1> DEFINE T == {h \in Nat : h <= n /\ j < f[h] => \E k \in 1 .. n : f[k - 1] <= j /\ j < f[k]}
<1>3. 0 \in T
  BY <1>2
<1>4. ASSUME NEW h \in T PROVE h + 1 \in T
  <2>1. h \in Nat
    OBVIOUS
  <2>2. SUFFICES ASSUME h + 1 <= n, j < f[h + 1] PROVE \E k \in 1 .. n : f[k - 1] <= j /\ j < f[k]
    BY <2>1
  <2>3. PICK k : k = h + 1
    OBVIOUS
  <2>4. k \in 1 .. n /\ k - 1 = h /\ h \in 0 .. n /\ h <= n
    BY <1>1, <2>1, <2>2, <2>3
  <2>5. f[h] \in Nat
    BY <1>2, <2>4
  <2>6. CASE j < f[h]
    BY <2>4, <2>6
  <2>7. CASE f[h] <= j
    BY <2>2, <2>3, <2>4, <2>7
  <2> QED
    BY <2>5, <2>6, <2>7
<1>5. T = Nat
  <2> HIDE DEF T
  <2>1. T \in SUBSET Nat
    BY DEF T
  <2> QED
    BY <1>3, <1>4, <2>1, Numbers
<1>6. n \in T
  BY <1>1, <1>5
<1>7. PICK k \in 1 .. n : f[k - 1] <= j /\ j < f[k]
  BY <1>1, <1>6
<1>8. PICK i : i = j - f[k - 1] + 1
  OBVIOUS
<1>9. /\ f[k - 1] \in Nat /\ Len(s[k].text) \in Nat /\ f[k] = f[k - 1] + Len(s[k].text)
      /\ StandsAt(s[k].text, d, f[k - 1])
  <2>1. IsPlaced(s, d, f, k)
    BY <1>1, PieceAt
  <2> QED
    BY <2>1 DEF IsPlaced
<1>10. i \in 1 .. Len(s[k].text) /\ j = f[k - 1] + i - 1
  BY <1>7, <1>8, <1>9
<1> QED
  BY <1>1, <1>9, <1>10 DEF StandsAt

(* The last byte of a piece is a backslash only if the piece is two of them.  *)
LEMMA LastOfPiece ==
    ASSUME NEW s, NEW d, NEW f, Pieced(s), Placed(s, d, f), NEW k \in 1 .. Len(s),
           d[f[k] - 1] = Backslash
    PROVE  /\ s[k].text = <<Backslash, Backslash>> /\ d[f[k] - 2] = Backslash
<1>1. PICK t, m, b : t = s[k].text /\ m = Len(t) /\ b = f[k - 1]
  OBVIOUS
<1>2. /\ b \in Nat /\ m \in Nat \ {0} /\ f[k] = b + m
      /\ \A i \in 1 .. m : d[b + i - 1] = t[i]
      /\ PlainPiece(s[k]) \/ EscapePiece(s[k])
  <2>1. /\ f[k - 1] \in Nat /\ Len(s[k].text) \in Nat \ {0} /\ f[k] = f[k - 1] + Len(s[k].text)
        /\ StandsAt(s[k].text, d, f[k - 1])
        /\ PlainPiece(s[k]) \/ EscapePiece(s[k])
    <3>1. IsPlaced(s, d, f, k)
      BY PieceAt
    <3> QED
      BY <3>1 DEF IsPlaced
  <2> QED
    BY <1>1, <2>1 DEF StandsAt
<1>3. m \in 1 .. m /\ b + m - 1 = f[k] - 1
  BY <1>2
<1>4. t[m] = Backslash
  BY <1>2, <1>3
<1>5. EscapePiece(s[k])
  <2>1. ASSUME PlainPiece(s[k]) PROVE FALSE
    <3>1. m = 1 /\ t[1] # Backslash
      BY <1>1, <2>1 DEF PlainPiece
    <3> QED
      BY <1>4, <3>1
  <2> QED
    BY <1>2, <2>1
<1>6. m >= 2 /\ t[1] = Backslash /\ \A i \in 2 .. m : t[i] = Backslash => t = <<Backslash, Backslash>>
  BY <1>1, <1>5 DEF EscapePiece
<1>7. m \in 2 .. m
  BY <1>2, <1>6
<1>8. t = <<Backslash, Backslash>>
  BY <1>4, <1>6, <1>7
<1>9. m = 2
  BY <1>1, <1>8
<1>10. 1 \in 1 .. m /\ b + 1 - 1 = f[k] - 2
  BY <1>2, <1>9
<1> QED
  BY <1>1, <1>2, <1>6, <1>8, <1>10

(* A quote that is not the last is behind a backslash of its own.             *)
LEMMA NoEarlyEnd ==
    ASSUME NEW s, NEW d, NEW f, Pieced(s), Placed(s, d, f), ~Misread(s),
           NEW q \in Nat, 2 <= q, q < f[Len(s)], d[q] = Quote
    PROVE  d[q - 1] = Backslash /\ d[q - 2] # Backslash
<1>1. PICK k \in 1 .. Len(s) : \E i \in 1 .. Len(s[k].text) :
              /\ q = f[k - 1] + i - 1 /\ d[q] = s[k].text[i]
  BY InPiece
<1>2. PICK i \in 1 .. Len(s[k].text) : q = f[k - 1] + i - 1 /\ d[q] = s[k].text[i]
  BY <1>1
<1>3. PICK t, m, b : t = s[k].text /\ m = Len(t) /\ b = f[k - 1]
  OBVIOUS
<1>4. /\ b \in Nat /\ m \in Nat \ {0} /\ b >= 2 /\ d[b] = t[1]
      /\ PlainPiece(s[k]) \/ EscapePiece(s[k])
  <2>1. /\ f[k - 1] \in Nat /\ Len(s[k].text) \in Nat \ {0} /\ f[k - 1] >= 2
        /\ d[f[k - 1]] = s[k].text[1]
        /\ PlainPiece(s[k]) \/ EscapePiece(s[k])
    <3>1. IsPlaced(s, d, f, k)
      BY PieceAt
    <3> QED
      BY <3>1 DEF IsPlaced
  <2> QED
    BY <1>3, <2>1
<1>5. i \in 1 .. m /\ q = b + i - 1 /\ t[i] = Quote
  BY <1>2, <1>3
<1>6. EscapePiece(s[k])
  <2>1. ASSUME PlainPiece(s[k]) PROVE FALSE
    <3>1. m = 1 /\ t[1] # Quote
      BY <1>3, <2>1 DEF PlainPiece
    <3>2. i = 1
      BY <1>5, <3>1
    <3> QED
      BY <1>5, <3>1, <3>2
  <2> QED
    BY <1>4, <2>1
<1>7. t[1] = Backslash /\ \A h \in 2 .. m : t[h] = Quote => t = <<Backslash, Quote>>
  BY <1>3, <1>6 DEF EscapePiece
<1>8. i # 1
  BY <1>5, <1>7 DEF Quote, Backslash
<1>9. i \in 2 .. m
  BY <1>4, <1>5, <1>8
<1>10. t = <<Backslash, Quote>>
  BY <1>5, <1>7, <1>9
<1>11. m = 2
  BY <1>3, <1>10
<1>12. i = 2 /\ q = b + 1
  BY <1>4, <1>5, <1>9, <1>11
<1>13. d[q - 1] = Backslash
  <2>1. q - 1 = b
    BY <1>4, <1>12
  <2> QED
    BY <1>4, <1>7, <2>1
<1>14. ASSUME d[q - 2] = Backslash PROVE FALSE
  <2>1. q - 2 = b - 1 /\ k - 1 \in 0 .. Len(s) /\ Len(s) \in Nat
    BY <1>4, <1>12, PiecedLength
  <2>2. CASE k = 1
    <3>1. b = 2 /\ d[1] = Quote
      BY <1>3, <2>2 DEF Placed
    <3>2. q - 2 = 1
      BY <2>1, <3>1
    <3> QED
      BY <1>14, <3>1, <3>2 DEF Quote, Backslash
  <2>3. CASE k # 1
    <3>1. PICK j : j = k - 1
      OBVIOUS
    <3>2. j \in 1 .. Len(s) /\ j + 1 = k /\ j \in 1 .. Len(s) - 1
      BY <2>1, <2>3, <3>1
    <3>3. d[f[j] - 1] = Backslash
      BY <1>3, <1>14, <2>1, <3>1
    <3>4. s[j].text = <<Backslash, Backslash>>
      BY <3>2, <3>3, LastOfPiece
    <3>5. s[j + 1].text = <<Backslash, Quote>>
      BY <1>3, <1>10, <3>2
    <3> QED
      BY <3>2, <3>4, <3>5 DEF Misread
  <2> QED
    BY <2>2, <2>3
<1> QED
  BY <1>13, <1>14

(* The last quote is taken for the end.                                       *)
LEMMA LastEnds ==
    ASSUME NEW s, NEW d, NEW f, Pieced(s), Placed(s, d, f), d[f[Len(s)] - 1] = Backslash
    PROVE  d[f[Len(s)] - 2] = Backslash
<1>1. Len(s) \in Nat
  BY PiecedLength
<1>2. CASE Len(s) = 0
  <2>1. f[Len(s)] = 2 /\ d[1] = Quote
    BY <1>2 DEF Placed
  <2>2. f[Len(s)] - 1 = 1
    BY <2>1
  <2> QED
    BY <2>1, <2>2 DEF Quote, Backslash
<1>3. CASE Len(s) # 0
  <2>1. Len(s) \in 1 .. Len(s)
    BY <1>1, <1>3
  <2> QED
    BY <2>1, LastOfPiece
<1> QED
  BY <1>2, <1>3

(* Where the reader is at the beginning of a piece, the pieces up to the next *)
(* backslash are plain, and it begins the piece behind them.                  *)
LEMMA FirstBackslash ==
    ASSUME NEW s, NEW d, NEW f, Pieced(s), Placed(s, d, f), NEW k \in 0 .. Len(s),
           NEW b \in Nat, f[k] <= b, b < f[Len(s)], d[b] = Backslash,
           NoneFrom(d, f[k], b)
    PROVE  \E m \in k + 1 .. Len(s) : /\ b = f[m - 1] /\ EscapePiece(s[m])
                                      /\ PlainBetween(s, k, m - 1)
<1>1. PICK n : n = Len(s) /\ n \in Nat
  BY PiecedLength
<1>2. f[k] \in Nat /\ f[k] >= 2
  <2>1. f \in [0 .. n -> Nat] /\ f[0] = 2 /\ 0 \in 0 .. n
    BY <1>1 DEF Placed
  <2>2. f[0] + (k - 0) <= f[k]
    BY <1>1, <2>1, PlacesGrow
  <2> QED
    BY <1>1, <2>1, <2>2
<1>3. 2 <= b
  BY <1>2
<1>4. PICK m \in 1 .. Len(s) : \E i \in 1 .. Len(s[m].text) :
              /\ b = f[m - 1] + i - 1 /\ d[b] = s[m].text[i]
  BY <1>3, InPiece
<1>5. PICK i \in 1 .. Len(s[m].text) : b = f[m - 1] + i - 1 /\ d[b] = s[m].text[i]
  BY <1>4
<1>6. PICK t, c : t = s[m].text /\ c = f[m - 1]
  OBVIOUS
<1>7. /\ c \in Nat /\ Len(t) \in Nat \ {0} /\ c >= 2 /\ d[c] = t[1] /\ f[m] = c + Len(t) /\ f[m] \in Nat
      /\ PlainPiece(s[m]) \/ EscapePiece(s[m])
  <2>1. /\ f[m - 1] \in Nat /\ Len(s[m].text) \in Nat \ {0} /\ f[m - 1] >= 2
        /\ d[f[m - 1]] = s[m].text[1] /\ f[m] = f[m - 1] + Len(s[m].text) /\ f[m] \in Nat
        /\ PlainPiece(s[m]) \/ EscapePiece(s[m])
    <3>1. IsPlaced(s, d, f, m)
      BY PieceAt
    <3> QED
      BY <3>1 DEF IsPlaced
  <2> QED
    BY <1>6, <2>1
<1>8. i \in 1 .. Len(t) /\ b = c + i - 1 /\ t[i] = Backslash
  BY <1>5, <1>6
<1>9. k <= m - 1
  <2>1. ASSUME m <= k PROVE FALSE
    <3>1. f[m] + (k - m) <= f[k] /\ m \in 0 .. n
      BY <1>1, <2>1, PlacesGrow
    <3>2. b < f[k]
      BY <1>1, <1>2, <1>7, <1>8, <2>1, <3>1
    <3> QED
      BY <1>2, <3>2
  <2> QED
    BY <1>1, <2>1
<1>10. f[k] <= c
  <2>1. m - 1 \in 0 .. n
    BY <1>1
  <2>2. f[k] + ((m - 1) - k) <= f[m - 1]
    BY <1>1, <1>9, <2>1, PlacesGrow
  <2> QED
    BY <1>1, <1>2, <1>6, <1>7, <1>9, <2>2
<1>11. ASSUME PlainPiece(s[m]) PROVE FALSE
  <2>1. Len(t) = 1 /\ t[1] # Backslash
    BY <1>6, <1>11 DEF PlainPiece
  <2>2. i = 1
    BY <1>8, <2>1
  <2> QED
    BY <1>8, <2>1, <2>2
<1>12. EscapePiece(s[m])
  BY <1>7, <1>11
<1>13. t[1] = Backslash
  BY <1>6, <1>12 DEF EscapePiece
<1>14. b = c
  <2>1. ASSUME i # 1 PROVE FALSE
    <3>1. c < b
      BY <1>7, <1>8, <2>1
    <3>2. d[c] # Backslash
      BY <1>7, <1>10, <3>1 DEF NoneFrom
    <3> QED
      BY <1>7, <1>13, <3>2
  <2>2. i = 1
    BY <2>1
  <2> QED
    BY <1>7, <1>8, <2>2
<1>15. ASSUME NEW j \in k + 1 .. m - 1 PROVE PlainPiece(s[j])
  <2>1. j \in 1 .. n /\ j - 1 \in 0 .. n /\ k <= j - 1 /\ j <= m - 1 /\ m - 1 \in 0 .. n /\ j \in 0 .. n
    BY <1>1
  <2>2. /\ f[j - 1] \in Nat /\ d[f[j - 1]] = s[j].text[1] /\ Len(s[j].text) \in Nat \ {0}
        /\ f[j] = f[j - 1] + Len(s[j].text)
        /\ PlainPiece(s[j]) \/ EscapePiece(s[j])
    <3>1. j \in 1 .. Len(s)
      BY <1>1, <2>1
    <3> QED
      <4>1. IsPlaced(s, d, f, j)
        BY <3>1, PieceAt
      <4> QED
        BY <4>1 DEF IsPlaced
  <2>3. f[k] + ((j - 1) - k) <= f[j - 1] /\ f[j] + ((m - 1) - j) <= f[m - 1]
    BY <1>1, <2>1, PlacesGrow
  <2>4. f[k] <= f[j - 1] /\ f[j - 1] < b
    <3>1. f[k] <= f[j - 1]
      BY <1>1, <1>2, <2>1, <2>2, <2>3
    <3>2. PICK x, y : x = f[j - 1] /\ y = f[j]
      OBVIOUS
    <3>3. y + ((m - 1) - j) <= c /\ 0 <= (m - 1) - j /\ (m - 1) - j \in Nat
      BY <1>1, <1>6, <2>1, <2>3, <3>2
    <3>4. x \in Nat /\ y \in Nat /\ x < y
      BY <2>2, <3>2
    <3>5. x < c
      BY <1>7, <3>3, <3>4
    <3> QED
      BY <1>14, <3>1, <3>2, <3>5
  <2>5. s[j].text[1] # Backslash
    BY <2>2, <2>4 DEF NoneFrom
  <2>6. ASSUME EscapePiece(s[j]) PROVE FALSE
    BY <2>5, <2>6 DEF EscapePiece
  <2> QED
    BY <2>2, <2>6
<1>16. m \in k + 1 .. n
  BY <1>1, <1>9
<1> QED
  BY <1>1, <1>6, <1>12, <1>14, <1>15, <1>16 DEF PlainBetween

LEMMA ConcatBytesAssociative ==
    ASSUME NEW s \in Seq(Bytes), NEW t \in Seq(Bytes), NEW u \in Seq(Bytes)
    PROVE  (s \o t) \o u = s \o (t \o u)
BY ConcatAssociative

LEMMA DigitNumber ==
    ASSUME NEW b, IsDigit(b)
    PROVE  DigitValue(b) \in 0 .. 15
BY DEF IsDigit, DigitValue

(* A run of plain pieces stands for its own bytes.                            *)
IsCopied(d, f, D, k, m) == D[m] = D[k] \o SubSeq(d, f[k], f[m] - 1)

LEMMA PlainRun ==
    ASSUME NEW s, NEW d, NEW f, NEW D, Pieced(s), Placed(s, d, f),
           StandsFor(s, D),
           NEW k \in 0 .. Len(s), NEW m \in k .. Len(s),
           PlainBetween(s, k, m)
    PROVE  IsCopied(d, f, D, k, m)
<1>1. PICK n : n = Len(s) /\ n \in Nat /\ DOMAIN s = 1 .. n
  BY PiecedLength
<1>2. f \in [0 .. n -> Nat] /\ f[0] = 2 /\ d \in Seq(Bytes) /\ Len(d) = f[n]
  BY <1>1 DEF Placed
<1>3. /\ \A j \in 0 .. n : D[j] \in Seq(Bytes)
      /\ \A j \in 1 .. n : D[j] = D[j - 1] \o s[j].bytes
  <2>1. PICK r : r = [j \in DOMAIN s |-> s[j].bytes]
    OBVIOUS
  <2>2. Joins(r, n, D)
    BY <1>1, <2>1 DEF StandsFor
  <2>3. \A j \in 1 .. n : r[j] = s[j].bytes
    BY <1>1, <2>1
  <2> QED
    BY <2>2, <2>3 DEF Joins
<1>4. f[k] \in Nat /\ f[k] >= 2 /\ k \in 0 .. n /\ m \in 0 .. n
  <2>1. f[0] + (k - 0) <= f[k] /\ 0 \in 0 .. n
    BY <1>1, PlacesGrow
  <2> QED
    BY <1>1, <1>2, <2>1
<1> DEFINE P(h) == k + h <= m => D[k + h] = D[k] \o SubSeq(d, f[k], f[k + h] - 1)
<1> DEFINE T == {h \in Nat : P(h)}
<1>5. P(0)
  <2>1. k + 0 = k /\ D[k] \in Seq(Bytes)
    BY <1>1, <1>3
  <2>2. SubSeq(d, f[k], f[k] - 1) = <<>>
    BY <1>4, SubSeqEmpty
  <2>3. D[k] \o <<>> = D[k]
    BY <2>1, ConcatEmptySeq
  <2> QED
    BY <2>1, <2>2, <2>3
<1>6. ASSUME NEW h \in Nat, P(h) PROVE P(h + 1)
  <2>1. h \in Nat
    OBVIOUS
  <2>2. SUFFICES ASSUME k + (h + 1) <= m
                 PROVE  D[k + (h + 1)] = D[k] \o SubSeq(d, f[k], f[k + (h + 1)] - 1)
    BY <2>1
  <2>3. PICK j : j = k + (h + 1)
    OBVIOUS
  <2>4. /\ j \in 1 .. Len(s) /\ j \in 1 .. n /\ j \in k + 1 .. m /\ j - 1 = k + h /\ k + h <= m
        /\ j - 1 \in 0 .. n /\ k <= j - 1
    BY <1>1, <2>1, <2>2, <2>3
  <2>5. D[j - 1] = D[k] \o SubSeq(d, f[k], f[j - 1] - 1)
    BY <1>6, <2>4
  <2>6. PICK x, y, t, b : x = f[j - 1] /\ y = f[j] /\ t = s[j].text /\ b = s[j].bytes
    OBVIOUS
  <2>7. /\ x \in Nat /\ t \in Seq(Bytes) /\ y = x + Len(t) /\ y <= f[n] /\ d[x] = t[1]
    <3>1. /\ f[j - 1] \in Nat /\ s[j].text \in Seq(Bytes) /\ f[j] = f[j - 1] + Len(s[j].text)
          /\ f[j] <= f[Len(s)] /\ d[f[j - 1]] = s[j].text[1]
      <4>1. IsPlaced(s, d, f, j)
        BY <2>4, PieceAt
      <4> QED
        BY <4>1 DEF IsPlaced
    <3> QED
      BY <1>1, <2>6, <3>1
  <2>8. Len(t) = 1 /\ b = t
    <3>1. PlainPiece(s[j])
      BY <2>4 DEF PlainBetween
    <3> QED
      BY <2>6, <3>1 DEF PlainPiece
  <2>9. b = <<d[x]>> /\ y = x + 1 /\ d[x] \in Bytes
    BY <2>7, <2>8
  <2>10. f[k] <= x
    <3>1. f[k] + ((j - 1) - k) <= f[j - 1]
      BY <1>1, <1>4, <2>4, PlacesGrow
    <3> QED
      <4>1. (j - 1) - k \in Nat /\ f[k] + ((j - 1) - k) <= x
        BY <1>1, <2>4, <2>6, <3>1
      <4> QED
        BY <1>4, <2>7, <4>1
  <2>11. SubSeq(d, f[k], x) = SubSeq(d, f[k], x - 1) \o <<d[x]>>
    <3>1. PICK p : p = f[k]
      OBVIOUS
    <3>2. p \in 1 .. Len(d) /\ x \in p .. Len(d)
      BY <1>1, <1>2, <1>4, <2>7, <2>9, <2>10, <3>1
    <3>3. SubSeq(d, p, x) = SubSeq(d, p, x - 1) \o <<d[x]>>
      BY <1>2, <3>2, SubSeqRecursiveSecond
    <3> QED
      BY <3>1, <3>3
  <2>12. SubSeq(d, f[k], x - 1) \in Seq(Bytes)
    <3>1. PICK p : p = f[k]
      OBVIOUS
    <3>2. p \in Nat \ {0} /\ x - 1 \in Nat /\ x - 1 <= Len(d) /\ p <= (x - 1) + 1
      BY <1>1, <1>2, <1>4, <2>7, <2>9, <2>10, <3>1
    <3>3. SubSeq(d, p, x - 1) \in Seq(Bytes)
      BY <1>2, <3>2, PartOfBytes
    <3> QED
      BY <3>1, <3>3
  <2>13. PICK u, v, w : u = D[k] /\ v = SubSeq(d, f[k], x - 1) /\ w = <<d[x]>>
    OBVIOUS
  <2>14. (u \o v) \o w = u \o (v \o w)
    <3>1. u \in Seq(Bytes) /\ v \in Seq(Bytes) /\ w \in Seq(Bytes)
      BY <1>3, <1>4, <2>9, <2>12, <2>13
    <3> QED
      BY <3>1, ConcatBytesAssociative
  <2>15. D[j] = D[j - 1] \o b
    BY <1>3, <2>4, <2>6
  <2>16. D[j] = u \o (v \o w) /\ SubSeq(d, f[k], y - 1) = v \o w
    <3>1. y - 1 = x
      BY <2>7, <2>9
    <3>2. D[j - 1] = u \o v
      BY <2>5, <2>6, <2>13
    <3> QED
      BY <2>9, <2>11, <2>13, <2>14, <2>15, <3>1, <3>2
  <2> QED
    BY <2>3, <2>6, <2>13, <2>16
<1>7. T = Nat
  <2> HIDE DEF P
  <2>1. T \in SUBSET Nat /\ 0 \in T /\ \A h \in T : h + 1 \in T
    BY <1>5, <1>6
  <2> HIDE DEF T
  <2> QED
    BY <2>1, Numbers
<1>8. PICK h : h = m - k
  OBVIOUS
<1>9. h \in Nat /\ k + h = m /\ k + h <= m
  BY <1>1, <1>4, <1>8
<1>10. P(h)
  <2> HIDE DEF P
  <2> QED
    BY <1>7, <1>9
<1> QED
  BY <1>9, <1>10 DEF IsCopied

(* Where no backslash is left, the pieces left are plain.                     *)
LEMMA NoneLeft ==
    ASSUME NEW s, NEW d, NEW f, Pieced(s), Placed(s, d, f), NEW k \in 0 .. Len(s),
           NoneFrom(d, f[k], f[Len(s)])
    PROVE  PlainBetween(s, k, Len(s))
<1>1. PICK n : n = Len(s) /\ n \in Nat
  BY PiecedLength
<1>2. SUFFICES ASSUME NEW j \in k + 1 .. n PROVE PlainPiece(s[j])
  BY <1>1 DEF PlainBetween
<1>3. j - 1 \in 0 .. n /\ k <= j - 1 /\ k \in 0 .. n
  BY <1>1
<1>4. /\ f[j - 1] \in Nat /\ d[f[j - 1]] = s[j].text[1] /\ Len(s[j].text) \in Nat \ {0}
      /\ f[j] = f[j - 1] + Len(s[j].text) /\ f[j] <= f[Len(s)]
      /\ PlainPiece(s[j]) \/ EscapePiece(s[j])
  <2>1. j \in 1 .. Len(s)
    BY <1>1
  <2> QED
    <3>1. IsPlaced(s, d, f, j)
      BY <2>1, PieceAt
    <3> QED
      BY <3>1 DEF IsPlaced
<1>5. f[k] + ((j - 1) - k) <= f[j - 1]
  BY <1>1, <1>3, PlacesGrow
<1>6. f \in [0 .. n -> Nat] /\ n \in 0 .. n
  BY <1>1 DEF Placed
<1>7. PICK x, y, z : x = f[j - 1] /\ y = f[n] /\ z = f[k]
  OBVIOUS
<1>8. x \in Nat /\ y \in Nat /\ z \in Nat /\ z <= x /\ x < y
  <2>1. x \in Nat /\ y \in Nat /\ z \in Nat
    BY <1>3, <1>6, <1>7
  <2>2. PICK e : e = Len(s[j].text)
    OBVIOUS
  <2>3. e \in Nat \ {0} /\ x + e <= y
    BY <1>1, <1>4, <1>7, <2>2
  <2>4. z + ((j - 1) - k) <= x /\ (j - 1) - k \in Nat
    BY <1>1, <1>3, <1>5, <1>7
  <2> QED
    BY <2>1, <2>3, <2>4
<1>9. s[j].text[1] # Backslash
  BY <1>1, <1>4, <1>7, <1>8 DEF NoneFrom
<1>10. ASSUME EscapePiece(s[j]) PROVE FALSE
  BY <1>9, <1>10 DEF EscapePiece
<1> QED
  BY <1>4, <1>10

(* Plain pieces and one more stand for their own bytes and what it stands for.*)
IsTranslated(s, d, f, D, k, m) ==
    D[m] = D[k] \o (SubSeq(d, f[k], f[m - 1] - 1) \o s[m].bytes)

LEMMA RunAndPiece ==
    ASSUME NEW s, NEW d, NEW f, NEW D, Pieced(s), Placed(s, d, f),
           StandsFor(s, D),
           NEW k \in 0 .. Len(s), NEW m \in k + 1 .. Len(s),
           PlainBetween(s, k, m - 1)
    PROVE  IsTranslated(s, d, f, D, k, m)
<1>1. PICK n : n = Len(s) /\ n \in Nat /\ DOMAIN s = 1 .. n
  BY PiecedLength
<1>2. PICK h : h = m - 1
  OBVIOUS
<1>3. h \in k .. Len(s) /\ m \in 1 .. n /\ k \in 0 .. n /\ h \in 0 .. n
  BY <1>1, <1>2
<1>4. D[h] = D[k] \o SubSeq(d, f[k], f[h] - 1)
  <2>1. PlainBetween(s, k, h)
    BY <1>2
  <2>2. IsCopied(d, f, D, k, h)
    BY <1>3, <2>1, PlainRun
  <2> QED
    BY <2>2 DEF IsCopied
<1>5. /\ \A j \in 0 .. n : D[j] \in Seq(Bytes)
      /\ \A j \in 1 .. n : D[j] = D[j - 1] \o s[j].bytes
  <2>1. PICK r : r = [j \in DOMAIN s |-> s[j].bytes]
    OBVIOUS
  <2>2. Joins(r, n, D)
    BY <1>1, <2>1 DEF StandsFor
  <2>3. \A j \in 1 .. n : r[j] = s[j].bytes
    BY <1>1, <2>1
  <2> QED
    BY <2>2, <2>3 DEF Joins
<1>6. PICK u, v, w : u = D[k] /\ v = SubSeq(d, f[k], f[h] - 1) /\ w = s[m].bytes
  OBVIOUS
<1>7. u \in Seq(Bytes) /\ w \in Seq(Bytes)
  BY <1>1, <1>3, <1>5, <1>6, PiecedLength
<1>8. v \in Seq(Bytes)
  <2>1. f \in [0 .. n -> Nat] /\ f[0] = 2 /\ d \in Seq(Bytes) /\ Len(d) = f[n] /\ 0 \in 0 .. n /\ n \in 0 .. n
    BY <1>1 DEF Placed
  <2>2. PICK p, q, e : p = f[k] /\ q = f[h] /\ e = f[n]
    OBVIOUS
  <2>3. p \in Nat /\ q \in Nat /\ e \in Nat
    BY <1>3, <2>1, <2>2
  <2>4. f[0] + (k - 0) <= f[k] /\ f[k] + (h - k) <= f[h] /\ f[h] + (n - h) <= f[n]
    <3>1. 0 <= k /\ k <= h /\ h <= n
      BY <1>1, <1>3
    <3> QED
      BY <1>1, <1>3, <2>1, <3>1, PlacesGrow
  <2>5. 2 <= p /\ p <= q /\ q <= e
    <3>1. k - 0 \in Nat /\ h - k \in Nat /\ n - h \in Nat
      BY <1>1, <1>3
    <3>2. 2 + (k - 0) <= p /\ p + (h - k) <= q /\ q + (n - h) <= e
      BY <2>1, <2>2, <2>4
    <3> QED
      BY <2>3, <3>1, <3>2
  <2>6. p \in Nat \ {0} /\ q - 1 \in Nat /\ q - 1 <= Len(d) /\ p <= (q - 1) + 1
    BY <2>1, <2>2, <2>3, <2>5
  <2>7. SubSeq(d, p, q - 1) \in Seq(Bytes)
    BY <2>1, <2>6, PartOfBytes
  <2> QED
    BY <1>6, <2>2, <2>7
<1>9. (u \o v) \o w = u \o (v \o w)
  BY <1>7, <1>8, ConcatBytesAssociative
<1>10. D[m] = D[h] \o w
  BY <1>2, <1>3, <1>5, <1>6
<1> QED
  BY <1>2, <1>4, <1>6, <1>9, <1>10 DEF IsTranslated

(* How far the reader has come in a text made of pieces.                      *)
AtPiece(s, f, D) ==
    /\ pc = "measure" => chunk <= Len(doc)
    /\ pc = "parse" => end = Len(doc) /\ \E k \in 0 .. Len(s) : chunk = f[k] /\ dest = D[k]
    /\ pc = "done" => end = Len(doc) /\ dest = D[Len(s)]

ReaderInv == /\ pc = "escape" => chunk = 2
             /\ \A s, f, D : Laid(s, doc, f, D) => AtPiece(s, f, D)

LEMMA LaidShape ==
    ASSUME NEW s, NEW d, NEW f, NEW D, Laid(s, d, f, D)
    PROVE  /\ Len(s) \in Nat /\ f \in [0 .. Len(s) -> Nat] /\ f[0] = 2 /\ D[0] = <<>>
           /\ f[Len(s)] = Len(d) /\ Len(d) \in Nat /\ Len(d) >= 2 /\ d \in Seq(Bytes)
           /\ d[Len(d)] = Quote
<1>1. Len(s) \in Nat /\ D[0] = <<>>
  BY PiecedLength DEF Laid, StandsFor, Joins
<1>2. /\ f \in [0 .. Len(s) -> Nat] /\ f[0] = 2 /\ f[Len(s)] = Len(d) /\ d \in Seq(Bytes)
      /\ d[Len(d)] = Quote
  BY DEF Laid, Placed
<1>3. f[0] + (Len(s) - 0) <= f[Len(s)]
  <2>1. 0 \in 0 .. Len(s) /\ Len(s) \in 0 .. Len(s) /\ 0 <= Len(s)
    BY <1>1
  <2> QED
    BY <2>1, PlacesGrow DEF Laid
<1> QED
  BY <1>1, <1>2, <1>3

LEMMA ReaderInit ==
    ASSUME Init
    PROVE  ReaderInv
<1>1. chunk = 2 /\ pc \in {"escape", "measure"}
  BY DEF Init
<1>2. ASSUME NEW s, NEW f, NEW D, Laid(s, doc, f, D) PROVE AtPiece(s, f, D)
  <2>1. Len(doc) >= 2
    BY <1>2, LaidShape
  <2> QED
    BY <1>1, <2>1 DEF AtPiece
<1> QED
  BY <1>1, <1>2 DEF ReaderInv

LEMMA EscapeReads ==
    ASSUME ReaderInv, Escape
    PROVE  ReaderInv'
<1>1. pc = "escape" /\ chunk' = chunk /\ pc' \in {"escape", "measure"}
  BY DEF Escape, PlainByte, EscapeByte, EscapeNothingPending, CloseString, Input
<1>2. chunk' = 2
  BY <1>1 DEF ReaderInv
<1>3. ASSUME NEW s, NEW f, NEW D, Laid(s, doc', f, D) PROVE AtPiece(s, f, D)'
  <2>1. Len(doc') >= 2
    BY <1>3, LaidShape
  <2> QED
    BY <1>1, <1>2, <2>1 DEF AtPiece
<1>4. (\A s, f, D : Laid(s, doc, f, D) => AtPiece(s, f, D))'
  BY <1>3
<1> QED
  BY <1>2, <1>4 DEF ReaderInv

LEMMA MeasureReads ==
    ASSUME IndInv, ReaderInv, Measure
    PROVE  ReaderInv'
<1>1. /\ pc = "measure" /\ pc' # "escape" /\ doc' = doc /\ dest' = dest
      /\ dest = <<>> /\ chunk \in Nat /\ chunk >= 2
  BY DEF Measure, NoEnd, SkipQuote, EndFound, IndInv, BoundsInv, TypeOK, output, Input
<1>2. SUFFICES ASSUME NEW s, NEW f, NEW D, Laid(s, doc, f, D) PROVE AtPiece(s, f, D)'
  <2>1. (\A s, f, D : Laid(s, doc, f, D) => AtPiece(s, f, D))'
    BY <1>1, <1>2
  <2> QED
    BY <1>1, <2>1 DEF ReaderInv
<1>3. PICK n, L : n = Len(s) /\ L = Len(doc)
  OBVIOUS
<1>4. /\ n \in Nat /\ f[0] = 2 /\ f[n] = L /\ D[0] = <<>> /\ L \in Nat /\ doc[L] = Quote
  BY <1>2, <1>3, LaidShape
<1>5. Pieced(s) /\ Placed(s, doc, f) /\ ~Misread(s)
  BY <1>2 DEF Laid
<1>6. chunk <= L
  <2>1. AtPiece(s, f, D)
    BY <1>2 DEF ReaderInv
  <2> QED
    BY <1>1, <1>3, <2>1 DEF AtPiece
<1>7. L \in Quotes
  BY <1>1, <1>3, <1>4, <1>6 DEF Quotes, Found
<1>8. \A q \in Quotes : q \in Nat /\ 2 <= q /\ q <= L /\ doc[q] = Quote
  BY <1>1, <1>3, <1>4 DEF Quotes, Found
<1>9. \A q \in Quotes : Ends(q) <=> q = L
  <2>1. SUFFICES ASSUME NEW q \in Quotes PROVE Ends(q) <=> q = L
    OBVIOUS
  <2>2. q \in Nat /\ 2 <= q /\ q <= L /\ doc[q] = Quote
    BY <1>8
  <2>3. CASE q = L
    <3>1. doc[L - 1] = Backslash => doc[L - 2] = Backslash
      BY <1>3, <1>4, <1>5, LastEnds
    <3> QED
      BY <2>3, <3>1 DEF Ends
  <2>4. CASE q # L
    <3>1. q < f[Len(s)]
      BY <1>3, <1>4, <2>2, <2>4
    <3>2. doc[q - 1] = Backslash /\ doc[q - 2] # Backslash
      BY <1>5, <2>2, <3>1, NoEarlyEnd
    <3> QED
      BY <2>4, <3>2 DEF Ends
  <2> QED
    BY <2>3, <2>4
<1>10. CASE NoEnd
  BY <1>7, <1>10 DEF NoEnd
<1>11. CASE SkipQuote
  <2>1. PICK q \in Quotes : ~Ends(q) /\ chunk' = q + 1
    BY <1>11 DEF SkipQuote
  <2>2. q + 1 <= L
    BY <1>4, <1>8, <1>9, <2>1
  <2>3. pc' = "measure" /\ chunk' <= Len(doc')
    BY <1>1, <1>3, <1>11, <2>1, <2>2 DEF SkipQuote
  <2> QED
    BY <2>3 DEF AtPiece
<1>12. CASE EndFound
  <2>1. PICK q \in Quotes : Ends(q) /\ end' = q
    BY <1>12 DEF EndFound
  <2>2. end' = Len(doc') /\ chunk' = f[0] /\ dest' = D[0] /\ pc' = "parse"
    BY <1>1, <1>3, <1>4, <1>9, <1>12, <2>1 DEF EndFound
  <2>3. 0 \in 0 .. Len(s)
    BY <1>3, <1>4
  <2> QED
    BY <2>2, <2>3 DEF AtPiece
<1> QED
  BY <1>10, <1>11, <1>12 DEF Measure

LEMMA ParseReads ==
    ASSUME IndInv, ReaderInv, Parse
    PROVE  ReaderInv'
<1>1. pc = "parse" /\ pc' \in {"parse", "done"} /\ doc' = doc /\ end' = end
  BY DEF Parse, NoBackslash, LastBackslash, CodePoint, BrokenCodePoint, SimpleEscape,
         AtBackslash, CopyRest, GoOn
<1>2. SUFFICES ASSUME NEW s, NEW f, NEW D, Laid(s, doc, f, D) PROVE AtPiece(s, f, D)'
  <2>1. (\A s, f, D : Laid(s, doc, f, D) => AtPiece(s, f, D))'
    BY <1>1, <1>2
  <2> QED
    BY <1>1, <2>1 DEF ReaderInv
<1>3. PICK n : n = Len(s) /\ n \in Nat /\ f \in [0 .. n -> Nat] /\ f[n] = Len(doc)
  BY <1>2, LaidShape
<1>4. Pieced(s) /\ Placed(s, doc, f) /\ StandsFor(s, D)
  BY <1>2 DEF Laid
<1>5. PICK k \in 0 .. n : end = f[n] /\ chunk = f[k] /\ dest = D[k]
  <2>1. AtPiece(s, f, D)
    BY <1>2 DEF ReaderInv
  <2> QED
    BY <1>1, <1>3, <2>1 DEF AtPiece
<1>6. /\ k \in 0 .. Len(s) /\ n \in k .. Len(s) /\ f[k] \in Nat /\ f[n] \in Nat
      /\ \A j \in 1 .. n : j \in 0 .. Len(s)
  BY <1>3
<1>7. dest \in Seq(Bytes)
  BY DEF IndInv, TypeOK
<1>8. CASE NoBackslash
  <2>1. NoneFrom(doc, f[k], f[Len(s)])
    <3>1. Backslashes = {}
      BY <1>8 DEF NoBackslash
    <3>2. \A j \in f[k] .. f[n] - 1 : doc[j] # Backslash
      BY <1>5, <3>1 DEF Backslashes, Found
    <3>3. \A j \in Nat : f[k] <= j /\ j < f[n] => j \in f[k] .. f[n] - 1
      BY <1>6
    <3> QED
      BY <1>3, <3>2, <3>3 DEF NoneFrom
  <2>2. PlainBetween(s, k, n)
    BY <1>3, <1>4, <1>6, <2>1, NoneLeft
  <2>3. D[n] = D[k] \o SubSeq(doc, f[k], f[n] - 1)
    <3>1. IsCopied(doc, f, D, k, n)
      BY <1>4, <1>6, <2>2, PlainRun
    <3> QED
      BY <3>1 DEF IsCopied
  <2>4. dest' = (dest \o <<>>) \o Between(chunk, end) /\ pc' = "done"
    BY <1>8 DEF NoBackslash, CopyRest
  <2>5. dest \o <<>> = dest
    BY <1>7, ConcatEmptySeq
  <2>6. dest' = D[n]
    BY <1>5, <2>3, <2>4, <2>5 DEF Between
  <2> QED
    BY <1>1, <1>3, <1>5, <2>4, <2>6 DEF AtPiece
<1>9. ASSUME NEW b \in Backslashes,
             LastBackslash(b) \/ CodePoint(b) \/ BrokenCodePoint(b) \/ SimpleEscape(b)
      PROVE  AtPiece(s, f, D)'
  <2>1. IsFirst(b, Backslashes)
    BY <1>9 DEF LastBackslash, CodePoint, BrokenCodePoint, SimpleEscape, AtBackslash
  <2>2. b \in Nat /\ f[k] <= b /\ b < f[n] /\ doc[b] = Backslash
    BY <1>5, <1>6 DEF Backslashes, Found
  <2>3. NoneFrom(doc, f[k], b)
    <3>1. ASSUME NEW j \in Nat, f[k] <= j, j < b, doc[j] = Backslash PROVE FALSE
      <4>1. j \in Backslashes
        BY <1>5, <1>6, <2>2, <3>1 DEF Backslashes, Found
      <4>2. b <= j
        BY <2>1, <4>1 DEF IsFirst
      <4> QED
        BY <2>2, <3>1, <4>2
    <3> QED
      BY <3>1 DEF NoneFrom
  <2>4. PICK m \in k + 1 .. Len(s) : /\ b = f[m - 1] /\ EscapePiece(s[m])
                                     /\ PlainBetween(s, k, m - 1)
    <3>1. b < f[Len(s)]
      BY <1>3, <2>2
    <3> QED
      BY <1>4, <1>6, <2>2, <2>3, <3>1, FirstBackslash
  <2>5. D[m] = D[k] \o (SubSeq(doc, f[k], f[m - 1] - 1) \o s[m].bytes)
    <3>1. IsTranslated(s, doc, f, D, k, m)
      BY <1>4, <1>6, <2>4, RunAndPiece
    <3> QED
      BY <3>1 DEF IsTranslated
  <2>6. PICK t, x, e : t = s[m].text /\ x = s[m].bytes /\ e = Len(t)
    OBVIOUS
  <2>7. /\ e \in Nat /\ f[m] = b + e /\ f[m] <= f[n]
        /\ \A i \in 1 .. e : doc[b + i - 1] = t[i]
    <3>1. m \in 1 .. Len(s)
      BY <1>3, <1>6
    <3>2. /\ Len(s[m].text) \in Nat /\ f[m] = f[m - 1] + Len(s[m].text) /\ f[m] <= f[Len(s)]
          /\ StandsAt(s[m].text, doc, f[m - 1])
      <4>1. IsPlaced(s, doc, f, m)
        BY <1>4, <3>1, PieceAt
      <4> QED
        BY <4>1 DEF IsPlaced
    <3> QED
      BY <1>3, <2>4, <2>6, <3>2 DEF StandsAt
  <2>8. /\ e >= 2 /\ t[1] = Backslash
        /\ t[2] # 117 => e = 2 /\ x = <<Unescape(t[2])>>
        /\ t[2] = 117 => e = 6 /\ HasFourDigits(t) /\ x = Utf8(FourDigits(t))
    BY <2>4, <2>6 DEF EscapePiece
  <2>9. doc[b + 1] = t[2]
    <3>1. 2 \in 1 .. e /\ b + 2 - 1 = b + 1
      BY <2>2, <2>7, <2>8
    <3> QED
      BY <2>7, <3>1
  <2>10. m \in 0 .. Len(s)
    BY <1>3, <1>6
  <2>11. ASSUME t[2] = 117 PROVE HexAt(b + 2, 4) /\ HexNumber(b + 2) = FourDigits(t)
    <3>1. e = 6 /\ HasFourDigits(t)
      BY <2>8, <2>11
    <3>2. doc[b + 2] = t[3] /\ doc[b + 3] = t[4] /\ doc[b + 4] = t[5] /\ doc[b + 5] = t[6]
      <4>1. /\ 3 \in 1 .. e /\ 4 \in 1 .. e /\ 5 \in 1 .. e /\ 6 \in 1 .. e
            /\ b + 3 - 1 = b + 2 /\ b + 4 - 1 = b + 3 /\ b + 5 - 1 = b + 4 /\ b + 6 - 1 = b + 5
        BY <2>2, <3>1
      <4> QED
        BY <2>7, <4>1
    <3>3. IsDigit(t[3]) /\ IsDigit(t[4]) /\ IsDigit(t[5]) /\ IsDigit(t[6])
      BY <3>1 DEF HasFourDigits
    <3>4. HexAt(b + 2, 4)
      <4>1. SUFFICES ASSUME NEW j \in 0 .. 3 PROVE b + 2 + j <= Len(doc) /\ IsDigit(doc[b + 2 + j])
        BY DEF HexAt
      <4>2. b + 2 + j <= Len(doc)
        <5>1. b + 6 <= Len(doc) /\ Len(doc) \in Nat
          BY <1>3, <1>6, <2>7, <3>1
        <5> QED
          BY <2>2, <5>1
      <4>3. j = 0 \/ j = 1 \/ j = 2 \/ j = 3
        OBVIOUS
      <4>4. b + 2 + 0 = b + 2 /\ b + 2 + 1 = b + 3 /\ b + 2 + 2 = b + 4 /\ b + 2 + 3 = b + 5
        BY <2>2
      <4> QED
        BY <3>2, <3>3, <4>2, <4>3, <4>4
    <3>5. PICK d3, d4, d5, d6 : /\ d3 = DigitValue(t[3]) /\ d4 = DigitValue(t[4])
                                /\ d5 = DigitValue(t[5]) /\ d6 = DigitValue(t[6])
      OBVIOUS
    <3>6. d3 \in Int /\ d4 \in Int /\ d5 \in Int /\ d6 \in Int
      <4>1. /\ DigitValue(t[3]) \in 0 .. 15 /\ DigitValue(t[4]) \in 0 .. 15
            /\ DigitValue(t[5]) \in 0 .. 15 /\ DigitValue(t[6]) \in 0 .. 15
        BY <3>3, DigitNumber
      <4> QED
        BY <3>5, <4>1
    <3>7. HexPair(b + 2) = 16 * d3 + d4 /\ HexPair(b + 2 + 2) = 16 * d5 + d6
      <4>1. b + 2 + 1 = b + 3 /\ b + 2 + 2 = b + 4 /\ b + 2 + 2 + 1 = b + 5
        BY <2>2
      <4> QED
        BY <3>2, <3>5, <4>1 DEF HexPair
    <3>8. HexNumber(b + 2) = 256 * (16 * d3 + d4) + (16 * d5 + d6)
      BY <3>7 DEF HexNumber
    <3>9. FourDigits(t) = 4096 * d3 + 256 * d4 + 16 * d5 + d6
      BY <3>5 DEF FourDigits
    <3> QED
      BY <3>4, <3>6, <3>8, <3>9
  <2>12. CASE LastBackslash(b)
    <3>1. b + 1 = f[n]
      BY <1>5, <2>12 DEF LastBackslash
    <3> QED
      BY <1>6, <2>2, <2>7, <2>8, <3>1
  <2>13. CASE BrokenCodePoint(b)
    <3>1. PICK h \in 0 .. 3 : ~HexAt(b + 2, h + 1)
      BY <2>13 DEF BrokenCodePoint, HexStops
    <3>2. HexAt(b + 2, 4)
      BY <2>9, <2>11, <2>13 DEF BrokenCodePoint
    <3>3. \A j \in 0 .. (h + 1) - 1 : j \in 0 .. 4 - 1
      OBVIOUS
    <3>4. HexAt(b + 2, h + 1)
      BY <3>2, <3>3 DEF HexAt
    <3> QED
      BY <3>1, <3>4
  <2>14. CASE CodePoint(b)
    <3>1. /\ dest' = dest \o (Between(chunk, b) \o Utf8(HexNumber(b + 2))) /\ chunk' = b + 6
          /\ pc' = pc /\ doc[b + 1] = 117
      BY <2>14 DEF CodePoint, GoOn
    <3>2. e = 6 /\ x = Utf8(HexNumber(b + 2))
      BY <2>8, <2>9, <2>11, <3>1
    <3>3. dest' = D[m] /\ chunk' = f[m]
      BY <1>5, <2>4, <2>5, <2>6, <2>7, <3>1, <3>2 DEF Between
    <3> QED
      BY <1>1, <1>3, <1>5, <2>10, <3>1, <3>3 DEF AtPiece
  <2>15. CASE SimpleEscape(b)
    <3>1. /\ dest' = dest \o (Between(chunk, b) \o <<Unescape(doc[b + 1])>>) /\ chunk' = b + 2
          /\ pc' = pc /\ doc[b + 1] # 117
      BY <2>15 DEF SimpleEscape, GoOn
    <3>2. e = 2 /\ x = <<Unescape(doc[b + 1])>>
      BY <2>8, <2>9, <3>1
    <3>3. dest' = D[m] /\ chunk' = f[m]
      BY <1>5, <2>4, <2>5, <2>6, <2>7, <3>1, <3>2 DEF Between
    <3> QED
      BY <1>1, <1>3, <1>5, <2>10, <3>1, <3>3 DEF AtPiece
  <2> QED
    BY <1>9, <2>12, <2>13, <2>14, <2>15
<1> QED
  BY <1>8, <1>9 DEF Parse

(* A text made of pieces is laid out, and the last bytes are all of them.     *)
LEMMA LaidOut ==
    ASSUME NEW s, Pieced(s), ~Misread(s)
    PROVE  \E f, D : Laid(s, TextOf(s), f, D) /\ BytesOf(s) = D[Len(s)]
<1>1. PICK q, r : q = [j \in DOMAIN s |-> s[j].text] /\ r = [j \in DOMAIN s |-> s[j].bytes]
  OBVIOUS
<1>2. /\ q \in Seq(Seq(Bytes)) /\ Len(q) = Len(s)
      /\ r \in Seq(Seq(Bytes)) /\ Len(r) = Len(s)
  BY <1>1, PartsOfPieces
<1>3. PICK F : Joins(q, Len(q), F)
  BY <1>2, JoinsExist
<1>4. PICK D : Joins(r, Len(r), D)
  BY <1>2, JoinsExist
<1>5. PICK f : f = [k \in 0 .. Len(s) |-> Len(F[k]) + 2]
  OBVIOUS
<1>6. Placed(s, TextOf(s), f)
  <2>1. Joins([j \in DOMAIN s |-> s[j].text], Len(s), F)
    BY <1>1, <1>2, <1>3
  <2> QED
    BY <1>5, <2>1, TextPlaced
<1>7. StandsFor(s, D)
  BY <1>1, <1>2, <1>4 DEF StandsFor
<1>8. BytesOf(s) = D[Len(s)]
  <2>1. FlattenSeq(r) = D[Len(r)]
    BY <1>2, <1>4, Flattened
  <2> QED
    BY <1>1, <1>2, <2>1 DEF BytesOf
<1> QED
  BY <1>6, <1>7, <1>8 DEF Laid

(* Whatever was read by the end was read as JSON says.                        *)
LEMMA ReadAsSaid ==
    ASSUME ReaderInv, pc = "done", NEW s, Pieced(s), ~Misread(s), TextOf(s) = doc
    PROVE  end = Len(doc) /\ dest = BytesOf(s)
<1>1. PICK f, D : Laid(s, doc, f, D) /\ BytesOf(s) = D[Len(s)]
  BY LaidOut
<1>2. AtPiece(s, f, D)
  BY <1>1 DEF ReaderInv
<1> QED
  BY <1>1, <1>2 DEF AtPiece

LEMMA ReaderKept == Spec => []ReaderInv
<1>1. ASSUME IndInv, ReaderInv, [Next]_vars PROVE ReaderInv'
  <2>1. CASE Next
    BY <1>1, <2>1, EscapeReads, MeasureReads, ParseReads DEF Next
  <2>2. CASE UNCHANGED vars
    <3>1. /\ pc' = pc /\ chunk' = chunk /\ doc' = doc /\ end' = end /\ dest' = dest
      BY <2>2 DEF vars
    <3>2. ASSUME NEW s, NEW f, NEW D, Laid(s, doc', f, D) PROVE AtPiece(s, f, D)'
      <4>1. AtPiece(s, f, D)
        BY <1>1, <3>1, <3>2 DEF ReaderInv
      <4> QED
        BY <3>1, <4>1 DEF AtPiece
    <3>3. (\A s, f, D : Laid(s, doc, f, D) => AtPiece(s, f, D))'
      BY <3>2
    <3> QED
      BY <1>1, <3>1, <3>3 DEF ReaderInv
  <2> QED
    BY <1>1, <2>1, <2>2
<1> QED
  BY <1>1, ReaderInit, BoundsKept, PTL DEF Spec

(* Every string in JSON is read to its last quote and to the bytes its        *)
(* characters and escapes stand for, of whatever length and in whatever order *)
(* they come, unless an escaped quote is right behind an escaped backslash.   *)
THEOREM PiecesAreRead == Spec => []ReadsPieces
<1>1. ASSUME ReaderInv PROVE ReadsPieces
  <2>1. SUFFICES ASSUME pc = "done", doc \in PieceTexts, ~Misread(PiecesOf[doc])
                 PROVE  end = Len(doc) /\ dest = BytesOf(PiecesOf[doc])
    BY DEF ReadsPieces
  <2>2. PICK s : s = PiecesOf[doc]
    OBVIOUS
  <2>3. s \in Composed /\ TextOf(s) = doc
    <3>1. s = CHOOSE t \in Composed : TextOf(t) = doc
      BY <2>1, <2>2 DEF PiecesOf
    <3>2. \E t \in Composed : TextOf(t) = doc
      BY <2>1 DEF PieceTexts
    <3> QED
      BY <3>1, <3>2
  <2>4. Pieced(s)
    <3>1. s \in Seq(Pieces) /\ \A p \in Pieces : IsPiece(p)
      BY <2>3, PieceAssumption
    <3>2. PICK m : m = Len(s)
      OBVIOUS
    <3>3. m \in Nat /\ DOMAIN s = 1 .. m /\ \A j \in 1 .. m : s[j] \in Pieces
      BY <3>1, <3>2, LenProperties
    <3>4. s \in [1 .. m -> ToSet(s)]
      <4>1. s = [j \in 1 .. m |-> s[j]]
        BY <3>1, <3>2, LenProperties
      <4>2. \A j \in 1 .. m : s[j] \in ToSet(s)
        BY <3>3 DEF ToSet
      <4> QED
        BY <4>1, <4>2
    <3>5. s \in Seq(ToSet(s))
      BY <3>3, <3>4
    <3> QED
      BY <3>1, <3>3, <3>5 DEF Pieced
  <2> QED
    BY <1>1, <2>1, <2>2, <2>3, <2>4, ReadAsSaid
<1> QED
  BY <1>1, ReaderKept, PTL

(***************************************************************************)
(* What json_escape_string writes is made of pieces.                       *)
(***************************************************************************)
WrittenOf(b) == IF Escaped(b) THEN EscapeOf(b) ELSE <<b>>
PieceOf(b) == [text |-> WrittenOf(b), bytes |-> <<b>>]
PiecesFor(t) == [j \in DOMAIN t |-> PieceOf(t[j])]

LEMMA HexDigits ==
    ASSUME NEW x \in 0 .. 15
    PROVE  /\ Digit(x) \in Bytes /\ IsDigit(Digit(x)) /\ DigitValue(Digit(x)) = x
BY DEF Digit, IsDigit, DigitValue, Bytes

LEMMA WrittenIsPiece ==
    ASSUME NEW b \in Bytes, b # Backslash
    PROVE  IsPiece(PieceOf(b))
<1>1. CASE ~Escaped(b)
  <2>1. b # Quote
    BY <1>1 DEF Escaped, HasLetter
  <2>2. PieceOf(b) = [text |-> <<b>>, bytes |-> <<b>>]
    BY <1>1 DEF PieceOf, WrittenOf
  <2>3. IsPlain(PieceOf(b))
    BY <2>1, <2>2 DEF IsPlain
  <2> QED
    BY <2>3 DEF IsPiece
<1>2. CASE HasLetter(b)
  <2>1. PICK c : c = Letter(b)
    OBVIOUS
  <2>2. PieceOf(b) = [text |-> <<Backslash, c>>, bytes |-> <<b>>]
    BY <1>2, <2>1 DEF PieceOf, WrittenOf, Escaped, EscapeOf
  <2>3. <<c, b>> \in Shorthands
    BY <1>2, <2>1 DEF HasLetter, Letter, Shorthands, Quote
  <2>4. \E e \in Shorthands : PieceOf(b) = [text |-> <<Backslash, e[1]>>, bytes |-> <<e[2]>>]
    <3>1. PICK e : e = <<c, b>>
      OBVIOUS
    <3>2. e[1] = c /\ e[2] = b
      BY <3>1
    <3> QED
      BY <2>2, <2>3, <3>1, <3>2
  <2> QED
    BY <2>4 DEF IsPiece, IsShorthand
<1>3. CASE Escaped(b) /\ ~HasLetter(b)
  <2>1. b \in 0 .. 127
    BY <1>3 DEF Escaped, IsControl, Bytes
  <2>2. PICK x, y : x = b \div 16 /\ y = b % 16
    OBVIOUS
  <2>3. x \in 0 .. 15 /\ y \in 0 .. 15 /\ b = 16 * x + y
    BY <2>1, <2>2
  <2>4. PICK u, v : u = Digit(x) /\ v = Digit(y)
    OBVIOUS
  <2>5. /\ u \in Bytes /\ IsDigit(u) /\ DigitValue(u) = x
        /\ v \in Bytes /\ IsDigit(v) /\ DigitValue(v) = y
    BY <2>3, <2>4, HexDigits
  <2>6. PICK t : t = <<Backslash, 117, 48, 48, u, v>>
    OBVIOUS
  <2>7. PieceOf(b) = [text |-> t, bytes |-> <<b>>]
    BY <1>3, <2>2, <2>4, <2>6 DEF PieceOf, WrittenOf, EscapeOf
  <2>8. /\ t \in Seq(Bytes) /\ Len(t) = 6 /\ t[1] = Backslash /\ t[2] = 117
        /\ t[3] = 48 /\ t[4] = 48 /\ t[5] = u /\ t[6] = v
    BY <2>5, <2>6 DEF Bytes, Backslash
  <2>9. IsDigit(48) /\ DigitValue(48) = 0
    BY DEF IsDigit, DigitValue
  <2>10. HasFourDigits(t)
    <3>1. \A j \in 3 .. 6 : j = 3 \/ j = 4 \/ j = 5 \/ j = 6
      OBVIOUS
    <3> QED
      BY <2>5, <2>8, <2>9, <3>1 DEF HasFourDigits
  <2>11. FourDigits(t) = b
    <3>1. FourDigits(t) = 4096 * 0 + 256 * 0 + 16 * x + y
      BY <2>5, <2>8, <2>9 DEF FourDigits
    <3> QED
      BY <2>3, <3>1
  <2>12. Utf8(b) = <<b>>
    BY <2>1 DEF Utf8
  <2>13. b \notin 55296 .. 57343
    <3>1. \A i \in 55296 .. 57343 : i >= 55296
      OBVIOUS
    <3>2. b \in 0 .. 127 /\ ~ (b >= 55296)
      BY <2>1
    <3>3. ASSUME b \in 55296 .. 57343 PROVE FALSE
      BY <3>1, <3>2, <3>3
    <3> QED
      BY <3>3
  <2>14. IsCodePoint(PieceOf(b))
    BY <2>7, <2>8, <2>10, <2>11, <2>12, <2>13 DEF IsCodePoint
  <2> QED
    BY <2>14 DEF IsPiece
<1> QED
  BY <1>1, <1>2, <1>3 DEF Escaped

(* An escape is never that of a backslash.                                    *)
LEMMA NeverTwoBackslashes ==
    ASSUME NEW b \in Bytes
    PROVE  WrittenOf(b) # <<Backslash, Backslash>>
<1>1. CASE ~Escaped(b)
  BY <1>1 DEF WrittenOf
<1>2. CASE HasLetter(b)
  <2>1. WrittenOf(b) = <<Backslash, Letter(b)>>
    BY <1>2 DEF WrittenOf, Escaped, EscapeOf
  <2>2. Letter(b) # Backslash
    BY <1>2 DEF Letter, HasLetter, Backslash, Quote
  <2> QED
    BY <2>1, <2>2
<1>3. CASE Escaped(b) /\ ~HasLetter(b)
  <2>1. WrittenOf(b) = <<Backslash, 117, 48, 48, Digit(b \div 16), Digit(b % 16)>>
    BY <1>3 DEF WrittenOf, EscapeOf
  <2>2. PICK u, v : u = Digit(b \div 16) /\ v = Digit(b % 16)
    OBVIOUS
  <2>3. <<Backslash, 117, 48, 48, u, v>> # <<Backslash, Backslash>>
    BY DEF Backslash
  <2> QED
    BY <2>1, <2>2, <2>3
<1> QED
  BY <1>1, <1>2, <1>3 DEF Escaped

LEMMA PiecesForString ==
    ASSUME NEW t \in Seq(Bytes), Backslash \notin ToSet(t)
    PROVE  /\ Pieced(PiecesFor(t)) /\ ~Misread(PiecesFor(t)) /\ BytesOf(PiecesFor(t)) = t
           /\ Len(PiecesFor(t)) = Len(t)
<1>1. PICK n, s : n = Len(t) /\ s = PiecesFor(t)
  OBVIOUS
<1>2. n \in Nat /\ DOMAIN t = 1 .. n /\ \A j \in 1 .. n : t[j] \in Bytes
  BY <1>1, LenProperties
<1>3. \A j \in 1 .. n : t[j] # Backslash
  <2>1. \A j \in DOMAIN t : t[j] \in ToSet(t)
    BY DEF ToSet
  <2> QED
    BY <1>2, <2>1
<1>4. s = [j \in 1 .. n |-> PieceOf(t[j])]
  BY <1>1, <1>2 DEF PiecesFor
<1>5. \A j \in 1 .. n : s[j].text = WrittenOf(t[j]) /\ s[j].bytes = <<t[j]>> /\ IsPiece(s[j])
  <2>1. SUFFICES ASSUME NEW j \in 1 .. n
                 PROVE  s[j].text = WrittenOf(t[j]) /\ s[j].bytes = <<t[j]>> /\ IsPiece(s[j])
    OBVIOUS
  <2>2. s[j] = PieceOf(t[j]) /\ IsPiece(PieceOf(t[j]))
    BY <1>2, <1>3, <1>4, WrittenIsPiece
  <2> QED
    BY <2>2 DEF PieceOf
<1>6. Pieced(s) /\ Len(s) = n /\ DOMAIN s = 1 .. n
  <2>1. DOMAIN s = 1 .. n
    BY <1>4
  <2>2. \A j \in 1 .. n : s[j] \in ToSet(s)
    BY <2>1 DEF ToSet
  <2>3. s \in [1 .. n -> ToSet(s)]
    <3>1. s = [j \in 1 .. n |-> s[j]]
      BY <1>4
    <3> QED
      BY <2>2, <3>1
  <2>4. s \in Seq(ToSet(s)) /\ Len(s) = n
    BY <1>2, <2>3
  <2> QED
    BY <1>5, <2>1, <2>4 DEF Pieced
<1>7. ~Misread(s)
  <2>1. SUFFICES ASSUME NEW j \in 1 .. Len(s) - 1, s[j].text = <<Backslash, Backslash>> PROVE FALSE
    BY DEF Misread
  <2>2. j \in 1 .. n
    BY <1>2, <1>6
  <2>3. WrittenOf(t[j]) # <<Backslash, Backslash>>
    BY <1>2, <2>2, NeverTwoBackslashes
  <2> QED
    BY <1>5, <2>1, <2>2, <2>3
<1>8. BytesOf(s) = t
  <2>1. PICK r : r = [j \in DOMAIN s |-> s[j].bytes]
    OBVIOUS
  <2>2. r \in Seq(Seq(Bytes)) /\ Len(r) = n /\ \A j \in 1 .. n : r[j] = <<t[j]>>
    BY <1>5, <1>6, <2>1, PartsOfPieces
  <2>3. PICK D : D = [k \in 0 .. n |-> SubSeq(t, 1, k)]
    OBVIOUS
  <2>4. \A k \in 0 .. n : SubSeq(t, 1, k) \in Seq(Bytes)
    <3>1. SUFFICES ASSUME NEW k \in 0 .. n PROVE SubSeq(t, 1, k) \in Seq(Bytes)
      OBVIOUS
    <3>2. 1 \in Nat \ {0} /\ k \in Nat /\ k <= Len(t) /\ 1 <= k + 1
      BY <1>1, <1>2
    <3> QED
      BY <3>2, PartOfBytes
  <2>5. D \in [0 .. n -> Seq(Bytes)]
    BY <2>3, <2>4
  <2>6. D[0] = <<>>
    <3>1. SubSeq(t, 1, 0) = <<>>
      BY SubSeqEmpty
    <3>2. 0 \in 0 .. n
      BY <1>2
    <3> QED
      BY <2>3, <3>1, <3>2
  <2>7. ASSUME NEW k \in 1 .. n PROVE D[k] = D[k - 1] \o r[k]
    <3>1. 1 \in 1 .. Len(t) /\ k \in 1 .. Len(t) /\ k \in 0 .. n /\ k - 1 \in 0 .. n
      BY <1>1, <1>2
    <3>2. SubSeq(t, 1, k) = SubSeq(t, 1, k - 1) \o <<t[k]>>
      BY <3>1, SubSeqRecursiveSecond
    <3> QED
      BY <2>2, <2>3, <3>1, <3>2
  <2>8. Joins(r, Len(r), D)
    BY <2>2, <2>5, <2>6, <2>7 DEF Joins
  <2>9. FlattenSeq(r) = D[n]
    BY <2>2, <2>8, Flattened
  <2>10. D[n] = t
    <3>1. SubSeq(t, 1, Len(t)) = t
      BY SubSeqFull
    <3>2. n \in 0 .. n
      BY <1>2
    <3> QED
      BY <1>1, <2>3, <3>1, <3>2
  <2> QED
    BY <2>1, <2>9, <2>10 DEF BytesOf
<1> QED
  BY <1>1, <1>6, <1>7, <1>8

Spelled(s, F) == Joins([j \in DOMAIN s |-> s[j].text], Len(s), F)

(* How much of the string is written.                                         *)
AsWritten(F) ==
    /\ pc = "escape" => /\ doc \o Pending = <<Quote>> \o F[written]
                        /\ last_write = written /\ written > 0 => Escaped(data[written])
    /\ pc # "escape" /\ written > 0 => doc = (<<Quote>> \o F[Len(data)]) \o <<Quote>>

WriterInv == \A F : Writable(data) /\ Spelled(PiecesFor(data), F) => AsWritten(F)

LEMMA SpelledShape ==
    ASSUME NEW t \in Seq(Bytes), NEW F, Spelled(PiecesFor(t), F)
    PROVE  /\ Len(t) \in Nat /\ F[0] = <<>> /\ \A k \in 0 .. Len(t) : F[k] \in Seq(Bytes)
           /\ \A k \in 1 .. Len(t) : F[k] = F[k - 1] \o WrittenOf(t[k])
<1>1. PICK n, s : n = Len(t) /\ s = PiecesFor(t)
  OBVIOUS
<1>2. n \in Nat /\ DOMAIN t = 1 .. n
  BY <1>1, LenProperties
<1>3. s = [j \in 1 .. n |-> PieceOf(t[j])]
  BY <1>1, <1>2 DEF PiecesFor
<1>4. Len(s) = n /\ DOMAIN s = 1 .. n
  <2>1. \A j \in 1 .. n : s[j] \in ToSet(s) /\ DOMAIN s = 1 .. n
    BY <1>3 DEF ToSet
  <2>2. s \in [1 .. n -> ToSet(s)]
    BY <1>3, <2>1
  <2> QED
    BY <1>2, <1>3, <2>2
<1>5. PICK q : q = [j \in DOMAIN s |-> s[j].text]
  OBVIOUS
<1>6. Joins(q, n, F)
  BY <1>1, <1>4, <1>5 DEF Spelled
<1>7. \A k \in 1 .. n : q[k] = WrittenOf(t[k])
  BY <1>3, <1>4, <1>5 DEF PieceOf
<1> QED
  BY <1>1, <1>2, <1>6, <1>7 DEF Joins

LEMMA WriterInit ==
    ASSUME Init
    PROVE  WriterInv
<1>1. SUFFICES ASSUME NEW F, Spelled(PiecesFor(data), F) PROVE AsWritten(F)
  BY DEF WriterInv
<1>2. data \in Seq(Bytes)
  BY InitInv DEF IndInv, TypeOK
<1>3. written = 0 /\ last_write = 0 /\ (pc = "escape" => doc = <<Quote>>)
  BY DEF Init
<1>4. F[0] = <<>>
  BY <1>1, <1>2, SpelledShape
<1>5. Pending = <<>>
  <2>1. SubSeq(data, 0 + 1, 0) = <<>>
    BY SubSeqEmpty
  <2> QED
    BY <1>3, <2>1 DEF Pending
<1> QED
  BY <1>3, <1>4, <1>5 DEF AsWritten

(* What is written is the string up to the next byte, spelled out.            *)
LEMMA OneMore ==
    ASSUME NEW F, NEW u \in Seq(Bytes), NEW x \in Seq(Bytes), NEW w \in Seq(Bytes),
           u = <<Quote>> \o x
    PROVE  u \o w = <<Quote>> \o (x \o w)
<1>1. <<Quote>> \in Seq(Bytes)
  BY DEF Quote, Bytes
<1> QED
  BY <1>1, ConcatBytesAssociative

LEMMA EscapeWrites ==
    ASSUME IndInv, WriterInv, Escape
    PROVE  WriterInv'
<1>1. data' = data
  BY DEF Escape, PlainByte, EscapeByte, EscapeNothingPending, CloseString, output
<1>2. SUFFICES ASSUME NEW F, Writable(data), Spelled(PiecesFor(data), F) PROVE AsWritten(F)'
  <2>1. (\A F : Writable(data) /\ Spelled(PiecesFor(data), F) => AsWritten(F))'
    BY <1>1, <1>2
  <2> QED
    BY <2>1 DEF WriterInv
<1>3. pc = "escape"
  BY DEF Escape, PlainByte, EscapeByte, EscapeNothingPending, CloseString
<1>4. /\ data \in Seq(Bytes) /\ Len(data) \in Nat /\ doc \in Seq(Bytes)
      /\ written \in 0 .. Len(data) /\ last_write \in 0 .. written
  BY LenProperties DEF IndInv, TypeOK
<1>5. /\ \A k \in 0 .. Len(data) : F[k] \in Seq(Bytes)
      /\ \A k \in 1 .. Len(data) : F[k] = F[k - 1] \o WrittenOf(data[k])
  BY <1>2, <1>4, SpelledShape
<1>6. /\ doc \o Pending = <<Quote>> \o F[written]
      /\ last_write = written /\ written > 0 => Escaped(data[written])
  <2>1. AsWritten(F)
    BY <1>2 DEF WriterInv
  <2> QED
    BY <1>3, <2>1 DEF AsWritten
<1>7. Pending \in Seq(Bytes)
  BY PendingBytes DEF IndInv
<1>8. doc \o Pending \in Seq(Bytes) /\ F[written] \in Seq(Bytes)
  BY <1>4, <1>5, <1>7, ConcatBytes
<1>9. PICK k : k = written + 1
  OBVIOUS
<1>10. ASSUME written < Len(data)
       PROVE  /\ k \in 1 .. Len(data) /\ k - 1 = written /\ Byte = data[k] /\ Byte \in Bytes
              /\ F[k] = F[written] \o WrittenOf(Byte)
  <2>1. k \in 1 .. Len(data) /\ k - 1 = written /\ Byte = data[k]
    BY <1>4, <1>9, <1>10 DEF Byte
  <2>2. Byte \in Bytes
    BY <1>4, <2>1
  <2> QED
    BY <1>5, <2>1, <2>2
<1>11. CASE PlainByte
  <2>1. /\ written < Len(data) /\ ~Escaped(Byte) /\ written' = k /\ pc' = "escape"
        /\ doc' = doc /\ last_write' = last_write
    BY <1>3, <1>9, <1>11 DEF PlainByte
  <2>2. WrittenOf(Byte) = <<Byte>> /\ <<Byte>> \in Seq(Bytes)
    BY <1>10, <2>1 DEF WrittenOf
  <2>3. Pending' = Pending \o <<Byte>>
    <3>1. PICK l : l = last_write + 1
      OBVIOUS
    <3>2. l \in 1 .. Len(data) /\ k \in l .. Len(data) /\ k - 1 = written
      BY <1>4, <1>9, <2>1, <3>1
    <3>3. SubSeq(data, l, k) = SubSeq(data, l, k - 1) \o <<data[k]>>
      BY <1>4, <3>2, SubSeqRecursiveSecond
    <3> QED
      BY <1>1, <1>10, <2>1, <3>1, <3>2, <3>3 DEF Pending
  <2>4. (doc \o Pending) \o <<Byte>> = <<Quote>> \o (F[written] \o <<Byte>>)
    BY <1>6, <1>8, <2>2, OneMore
  <2>5. (doc \o Pending) \o <<Byte>> = doc \o (Pending \o <<Byte>>)
    BY <1>4, <1>7, <2>2, ConcatBytesAssociative
  <2>6. doc' \o Pending' = <<Quote>> \o F[written']
    BY <1>10, <2>1, <2>2, <2>3, <2>4, <2>5
  <2>7. last_write' # written'
    BY <1>4, <1>9, <2>1
  <2> QED
    BY <2>1, <2>6, <2>7 DEF AsWritten
<1>12. CASE EscapeByte
  <2>1. /\ written < Len(data) /\ Escaped(Byte) /\ written' = k /\ last_write' = k /\ pc' = "escape"
        /\ doc' = (doc \o Pending) \o EscapeOf(Byte)
    BY <1>3, <1>9, <1>12 DEF EscapeByte
  <2>2. WrittenOf(Byte) = EscapeOf(Byte) /\ EscapeOf(Byte) \in Seq(Bytes)
    BY <1>10, <2>1, EscapeIsBytes DEF WrittenOf
  <2>3. Pending' = <<>>
    <3>1. k + 1 \in Int /\ k \in Int /\ k < k + 1
      BY <1>4, <1>9
    <3>2. SubSeq(data, k + 1, k) = <<>>
      BY <3>1, SubSeqEmpty
    <3> QED
      BY <1>1, <2>1, <3>2 DEF Pending
  <2>4. doc' = <<Quote>> \o (F[written] \o EscapeOf(Byte))
    BY <1>6, <1>8, <2>1, <2>2, OneMore
  <2>5. doc' \in Seq(Bytes)
    BY <1>8, <2>1, <2>2, ConcatBytes
  <2>6. doc' \o <<>> = doc'
    BY <2>5, ConcatEmptySeq
  <2>7. doc' \o Pending' = <<Quote>> \o F[written']
    BY <1>10, <2>1, <2>2, <2>3, <2>4, <2>6
  <2>8. Escaped(data'[written'])
    BY <1>1, <1>10, <2>1
  <2> QED
    BY <2>1, <2>7, <2>8 DEF AsWritten
<1>13. CASE EscapeNothingPending
  <2>1. written < Len(data) /\ Escaped(Byte) /\ Pending = <<>>
    BY <1>13 DEF EscapeNothingPending
  <2>2. last_write = written
    <3>1. last_write + 1 \in Nat \ {0} /\ written \in Nat /\ written <= Len(data) /\ last_write + 1 <= written + 1
      BY <1>4
    <3>2. Len(Pending) = written + 1 - (last_write + 1)
      BY <1>4, <3>1, PartOfBytes DEF Pending
    <3>3. Len(Pending) = 0
      BY <2>1
    <3> QED
      BY <1>4, <3>2, <3>3
  <2>3. k \in DOMAIN data /\ Escaped(data[k])
    <3>1. DOMAIN data = 1 .. Len(data)
      BY <1>4, LenProperties
    <3> QED
      BY <1>10, <2>1, <3>1
  <2>4. k > 1 /\ ~Escaped(data[k - 1])
    BY <1>2, <2>3 DEF Writable
  <2>5. written > 0 /\ k - 1 = written
    BY <1>4, <1>9, <2>4
  <2> QED
    BY <1>6, <2>2, <2>4, <2>5
<1>14. CASE CloseString
  <2>1. /\ written = Len(data) /\ pc' = "measure" /\ doc' = (doc \o Pending) \o <<Quote>>
    BY <1>14 DEF CloseString
  <2>2. doc' = (<<Quote>> \o F[Len(data)]) \o <<Quote>>
    BY <1>6, <2>1
  <2> QED
    BY <1>1, <2>1, <2>2 DEF AsWritten
<1> QED
  BY <1>11, <1>12, <1>13, <1>14 DEF Escape

LEMMA WriterKept == Spec => []WriterInv
<1>1. ASSUME IndInv, WriterInv, [Next]_vars PROVE WriterInv'
  <2>1. CASE Escape
    BY <1>1, <2>1, EscapeWrites
  <2>2. ASSUME /\ data' = data /\ doc' = doc /\ written' = written
               /\ pc # "escape" /\ pc' # "escape"
        PROVE  WriterInv'
    <3>1. ASSUME NEW F, Writable(data), Spelled(PiecesFor(data), F) PROVE AsWritten(F)'
      <4>1. AsWritten(F)
        BY <1>1, <3>1 DEF WriterInv
      <4> QED
        BY <2>2, <4>1 DEF AsWritten
    <3>2. (\A F : Writable(data) /\ Spelled(PiecesFor(data), F) => AsWritten(F))'
      BY <2>2, <3>1
    <3> QED
      BY <3>2 DEF WriterInv
  <2>3. CASE Measure
    <3>1. /\ data' = data /\ doc' = doc /\ written' = written
          /\ pc # "escape" /\ pc' # "escape"
      BY <2>3 DEF Measure, NoEnd, SkipQuote, EndFound, output
    <3> QED
      BY <2>2, <3>1
  <2>4. CASE Parse
    <3>1. /\ data' = data /\ doc' = doc /\ written' = written
          /\ pc # "escape" /\ pc' # "escape"
      BY <2>4 DEF Parse, NoBackslash, LastBackslash, CodePoint, BrokenCodePoint, SimpleEscape,
                  AtBackslash, CopyRest, GoOn, output
    <3> QED
      BY <2>2, <3>1
  <2>5. CASE UNCHANGED vars
    <3>1. /\ data' = data /\ doc' = doc /\ written' = written /\ pc' = pc
          /\ last_write' = last_write
      BY <2>5 DEF vars
    <3>2. Pending' = Pending
      BY <3>1 DEF Pending
    <3>3. ASSUME NEW F, Writable(data), Spelled(PiecesFor(data), F) PROVE AsWritten(F)'
      <4>1. AsWritten(F)
        BY <1>1, <3>3 DEF WriterInv
      <4> QED
        BY <3>1, <3>2, <4>1 DEF AsWritten
    <3>4. (\A F : Writable(data) /\ Spelled(PiecesFor(data), F) => AsWritten(F))'
      BY <3>1, <3>3
    <3> QED
      BY <3>4 DEF WriterInv
  <2> QED
    BY <1>1, <2>1, <2>3, <2>4, <2>5 DEF Next
<1> QED
  BY <1>1, WriterInit, BoundsKept, PTL DEF Spec

(* Writing a string and reading back what came out gives the string, for      *)
(* every string without a backslash in which no byte that needs an escape is  *)
(* first or comes behind another.                                             *)
THEOREM WrittenIsRead == Spec => []WritesBack
<1>1. ASSUME IndInv, WriterInv, ReaderInv PROVE WritesBack
  <2>1. SUFFICES ASSUME pc = "done", Writable(data), written > 0
                 PROVE  end = Len(doc) /\ dest = data
    BY DEF WritesBack
  <2>2. data \in Seq(Bytes)
    BY <1>1 DEF IndInv, TypeOK
  <2>3. PICK s : s = PiecesFor(data)
    OBVIOUS
  <2>4. Pieced(s) /\ ~Misread(s) /\ BytesOf(s) = data
    BY <2>1, <2>2, <2>3, PiecesForString DEF Writable
  <2>5. PICK q : q = [j \in DOMAIN s |-> s[j].text]
    OBVIOUS
  <2>6. q \in Seq(Seq(Bytes)) /\ Len(q) = Len(s)
    BY <2>4, <2>5, PartsOfPieces
  <2>7. PICK F : Joins(q, Len(q), F)
    BY <2>6, JoinsExist
  <2>8. Spelled(s, F)
    BY <2>5, <2>6, <2>7 DEF Spelled
  <2>9. TextOf(s) = (<<Quote>> \o F[Len(s)]) \o <<Quote>>
    BY <2>4, <2>8, TextPlaced DEF Spelled
  <2>10. Len(s) = Len(data)
    BY <2>1, <2>2, <2>3, PiecesForString DEF Writable
  <2>11. doc = (<<Quote>> \o F[Len(data)]) \o <<Quote>>
    <3>1. AsWritten(F)
      BY <1>1, <2>1, <2>3, <2>8 DEF WriterInv
    <3> QED
      BY <2>1, <3>1 DEF AsWritten
  <2>12. TextOf(s) = doc
    BY <2>9, <2>10, <2>11
  <2> QED
    BY <1>1, <2>1, <2>4, <2>12, ReadAsSaid
<1> QED
  BY <1>1, BoundsKept, WriterKept, ReaderKept, PTL
=============================================================================
