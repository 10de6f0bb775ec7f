------------------------------- MODULE Codecs -------------------------------
(***************************************************************************)
(* Numbers and base64: __nson_parse_dev, __nson_parse_number and           *)
(* __nson_parse_b64 of src/util.c, nson_mapper_b64_enc and                 *)
(* nson_mapper_b64_dec of src/map_reduce.c.                                *)
(*                                                                         *)
(* A routine is a function of the bytes it is given; a loop is a function  *)
(* defined by recursion over the bytes it has passed.  A real is counted   *)
(* in units of 1 / Scale; what the rounding of a double adds is left out.  *)
(***************************************************************************)
EXTENDS Characters, SequencesExt

CONSTANTS
    MaxInt,      \* the largest int64_t
    Decimals,    \* digits printf("%f") writes behind the point, and a text has at most
    SignedChar   \* does char have a sign, as on x86?

ASSUME CodecBounds == MaxInt \in Nat /\ Decimals \in Nat \ {0} /\ SignedChar \in BOOLEAN

Scale == 10 ^ Decimals

Plus == 43
Minus == 45
Point == 46
Padding == 61

IsDecimal(b) == b \in 48 .. 57
HasSign(s) == s # <<>> /\ s[1] \in {Plus, Minus}
Sign(s) == IF s # <<>> /\ s[1] = Minus THEN -1 ELSE 1

(* How many bytes from position p on are decimal digits. *)
Digits(s, p) ==
    LET Run(n) == p + n - 1 <= Len(s) /\ \A j \in p .. p + n - 1 : IsDecimal(s[j])
    IN CHOOSE n \in 0 .. Len(s) : Run(n) /\ ~Run(n + 1)

(* The number that the n digits from position p on denote. *)
Decimal(s, p, n) ==
    LET val[m \in 0 .. n] == IF m = 0 THEN 0 ELSE 10 * val[m - 1] + (s[p + m - 1] - 48)
    IN val[n]

ParseDevWrapping(s) ==
    LET start == IF HasSign(s) THEN 2 ELSE 1
        n == Digits(s, start)
        val == Decimal(s, start, n)
    IN [val |-> Sign(s) * (val % (MaxInt + 1)), len |-> start - 1 + n]

(* __nson_parse_dev: the number and the bytes it takes, -1 if it is too large *)
(* or there is no text.  MaxInt + 1 is too large with a sign, too.            *)
ParseDev(s) ==
    LET start == IF HasSign(s) THEN 2 ELSE 1
        n == Digits(s, start)
        val == Decimal(s, start, n)
    IN IF s = <<>> \/ val > MaxInt
       THEN [val |-> 0, len |-> -1]
       ELSE [val |-> Sign(s) * val, len |-> start - 1 + n]

(* The digits behind the point, each step dividing what was read before by    *)
(* ten: the last digit counts most.                                           *)
Fraction(s, p, n) ==
    LET r[m \in 0 .. n] == IF m = 0 THEN 0 ELSE r[m - 1] \div 10 + Scale * (s[p + m - 1] - 48)
    IN r[n] \div 10

(* __nson_parse_number: an integer, or a real if a point follows.             *)
ParseNumber(s) ==
    LET dev == ParseDev(s)
        n == Digits(s, dev.len + 2)
        part == Fraction(s, dev.len + 2, n)
    IN IF dev.len < 0 \/ dev.len >= Len(s)
       THEN [type |-> "int", val |-> dev.val, len |-> dev.len]
       ELSE IF s[dev.len + 1] # Point
       THEN [type |-> "int", val |-> dev.val, len |-> dev.len]
       ELSE [type |-> "real", len |-> dev.len + 1 + n,
             val |-> IF dev.val >= 0 THEN part + Scale * dev.val ELSE part - Scale * dev.val]

-----------------------------------------------------------------------------
(* base64_table. *)
Symbol(v) == IF v < 26 THEN 65 + v ELSE IF v < 52 THEN 71 + v
             ELSE IF v < 62 THEN v - 4 ELSE IF v = 62 THEN 43 ELSE 47
Symbols == {Symbol(v) : v \in 0 .. 63}
ValueOf == [b \in Symbols |-> CHOOSE v \in 0 .. 63 : Symbol(v) = b]

IsNegative(b) == SignedChar /\ b > 127

(* The top bits of byte b, which have `high' values, behind the bits the byte *)
(* before it left over.  Shifting a negative char shifts ones in, which the   *)
(* `or' keeps.                                                                *)
Joined(left, b, high) == b \div (256 \div high) + IF IsNegative(b) THEN 64 - high ELSE left

(* nson_mapper_b64_enc: six bits for symbol k, what the byte before left over *)
(* and the top of the next byte, if there is one.                             *)
Sextet(s, k) ==
    LET n == ((k - 1) \div 4) * 3
        Next(left, j, high) == IF j <= Len(s) THEN Joined(left, s[j], high) ELSE left
    IN IF k % 4 = 1 THEN s[n + 1] \div 4
       ELSE IF k % 4 = 2 THEN Next((s[n + 1] % 4) * 16, n + 2, 16)
       ELSE IF k % 4 = 3 THEN Next((s[n + 2] % 16) * 4, n + 3, 4)
       ELSE s[n + 3] % 64

SymbolCount(s) == (Len(s) * 4 + 2) \div 3

EncodeUnpadded(s) == [k \in 1 .. SymbolCount(s) |-> Symbol(Sextet(s, k))]

(* The buffer has four bytes for every three, the symbols and then padding.   *)
Encode(s) == [k \in 1 .. ((Len(s) + 2) \div 3) * 4 |->
                 IF k <= SymbolCount(s) THEN Symbol(Sextet(s, k)) ELSE Padding]

(* The bytes the encoder keeps: a negative char is safe only where it comes   *)
(* first of three.                                                            *)
ReadableBlob(s) == \A j \in DOMAIN s : j % 3 = 1 \/ ~IsNegative(s[j])

(* The first n bytes that the symbols of s, m of them, stand for. *)
SymbolValue(s, m, j) == IF j <= m THEN ValueOf[s[j]] ELSE 0

BytesOf(s, m, n) ==
    LET v(j) == SymbolValue(s, m, j)
        Byte(k) == LET q == ((k - 1) \div 3) * 4
                   IN IF k % 3 = 1 THEN v(q + 1) * 4 + v(q + 2) \div 16
                      ELSE IF k % 3 = 2 THEN (v(q + 2) % 16) * 16 + v(q + 3) \div 4
                      ELSE (v(q + 3) % 4) * 64 + v(q + 4)
    IN [k \in 1 .. n |-> Byte(k)]

(* The symbols before the first byte that is none, and the padding behind     *)
(* them, at most up to a multiple of four.                                    *)
SymbolRun(s) == CHOOSE n \in 0 .. Len(s) :
    (\A j \in 1 .. n : s[j] \in Symbols) /\ (n < Len(s) => s[n + 1] \notin Symbols)

PaddingRun(s, m) ==
    LET missing == (4 - (m % 4)) % 4
    IN CHOOSE n \in 0 .. missing :
           /\ \A j \in m + 1 .. m + n : j <= Len(s) /\ s[j] = Padding
           /\ n < missing /\ m + n < Len(s) => s[m + n + 1] # Padding

DecodeRunWithTail(s) ==
    LET m == SymbolRun(s)
        n == m + PaddingRun(s, m)
    IN [ok |-> n % 4 = 0, bytes |-> BytesOf(s, m, (m * 3 + 3) \div 4)]

(* Decoding up to the first byte that is no symbol.  The texts that are       *)
(* accepted have a multiple of four symbols and padding; the last bits count  *)
(* only in whole bytes.                                                       *)
DecodeRun(s) ==
    LET m == SymbolRun(s)
        n == m + PaddingRun(s, m)
    IN [ok |-> n % 4 = 0, bytes |-> BytesOf(s, m, (m * 3) \div 4)]

(* __nson_parse_b64 refuses other bytes than the padding; nson_mapper_b64_dec *)
(* takes them for the end.                                                    *)
ParseB64(s) ==
    LET m == SymbolRun(s)
    IN IF m < Len(s) /\ s[m + 1] # Padding THEN [ok |-> FALSE, bytes |-> <<>>] ELSE DecodeRun(s)

MapperDecode(s) == DecodeRun(s)
=============================================================================
