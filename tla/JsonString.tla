----------------------------- MODULE JsonString -----------------------------
(***************************************************************************)
(* The characters of a JSON string: json_escape_string writes them,        *)
(* json_str_len looks for the closing quote and parse_json_string          *)
(* translates what is between the quotes (src/json.c), with                *)
(* __nson_parse_hex of src/util.c; __nson_to_utf8 is in Characters.        *)
(*                                                                         *)
(* A behaviour writes a string and reads the text that came out, or reads  *)
(* any text that starts with a quote.  Each round of a loop is a step.     *)
(* Positions count from 1; the opening quote is doc[1].                    *)
(***************************************************************************)
EXTENDS Characters

CONSTANTS
    Strings,   \* strings to be written, sequences of bytes
    Texts      \* texts to be read, which start with a quote

Quote == 34
Backslash == 92

ASSUME TextAssumption ==
    /\ Strings \subseteq Seq(Bytes)
    /\ Texts \subseteq {t \in Seq(Bytes) : t # <<>> /\ t[1] = Quote}

VARIABLES
    data,        \* the string being written
    doc,         \* the text: what was written so far, or the text to be read
    pc,          \* "escape", "measure", "parse", "done"
    written,     \* i of json_escape_string: the bytes of data looked at
    last_write,  \* the bytes of data that are in doc
    chunk,       \* where memchr starts to look
    end,         \* the closing quote, 0 as long as it is not known
    dest,        \* the bytes in the buffer of parse_json_string
    read,        \* ghost: the last position __nson_parse_hex looked at
    rv           \* the result of the last routine that ended

vars == <<data, doc, pc, written, last_write, chunk, end, dest, read, rv>>
output == <<data, written, last_write>>

HasLetter(b) == b \in {9, 10, 13, Quote}
Escaped(b) == HasLetter(b) \/ IsControl(b)

(* The escapes that have a letter: tab, line feed, carriage return, quote. *)
Letter(b) == IF b = 9 THEN 116 ELSE IF b = 10 THEN 110 ELSE IF b = 13 THEN 114 ELSE b
Unescape(b) == IF b = 116 THEN 9 ELSE IF b = 110 THEN 10 ELSE IF b = 114 THEN 13 ELSE b

IsDigit(b) == b \in 48 .. 57 \/ b \in 65 .. 70 \/ b \in 97 .. 102
DigitValue(b) == IF b <= 57 THEN b - 48 ELSE IF b <= 70 THEN b - 55 ELSE b - 87

EscapeOf(b) ==
    IF HasLetter(b) THEN <<Backslash, Letter(b)>>
    ELSE <<Backslash, 117, 48, 48, Digit(b \div 16), Digit(b % 16)>>

-----------------------------------------------------------------------------
Init == /\ \/ data \in Strings /\ doc = <<Quote>> /\ pc = "escape"
           \/ data = <<>> /\ doc \in Texts /\ pc = "measure"
        /\ written = 0 /\ last_write = 0
        /\ chunk = 2 /\ end = 0
        /\ dest = <<>> /\ read = 0
        /\ rv = 0

Input == <<chunk, end, dest, read>>
Pending == SubSeq(data, last_write + 1, written)
Byte == data[written + 1]

PlainByte ==
    /\ pc = "escape" /\ written < Len(data) /\ ~Escaped(Byte)
    /\ written' = written + 1
    /\ UNCHANGED <<data, doc, pc, last_write, rv, Input>>

EscapeKeepingMark ==
    /\ pc = "escape" /\ written < Len(data) /\ Escaped(Byte) /\ Pending # <<>>
    /\ doc' = doc \o Pending \o EscapeOf(Byte)
    /\ written' = written + 1
    /\ rv' = -1
    /\ UNCHANGED <<data, pc, last_write, Input>>

EscapeByte ==
    /\ pc = "escape" /\ written < Len(data) /\ Escaped(Byte) /\ Pending # <<>>
    /\ doc' = doc \o Pending \o EscapeOf(Byte)
    /\ written' = written + 1
    /\ last_write' = written + 1
    /\ rv' = -1
    /\ UNCHANGED <<data, pc, Input>>

(* fwrite of no bytes returns 0, which is taken for an error: the string ends *)
(* here, without a quote, and nson_json_write ignores it.                     *)
EscapeNothingPending ==
    /\ pc = "escape" /\ written < Len(data) /\ Escaped(Byte) /\ Pending = <<>>
    /\ pc' = "measure"
    /\ rv' = -1
    /\ UNCHANGED <<doc, output, Input>>

CloseString ==
    /\ pc = "escape" /\ written = Len(data)
    /\ doc' = doc \o Pending \o <<Quote>>
    /\ pc' = "measure"
    /\ rv' = written
    /\ UNCHANGED <<output, Input>>

-----------------------------------------------------------------------------
(* memchr from position p up to and without position q. *)
Found(b, p, q) == {j \in p .. q - 1 : doc[j] = b}
IsFirst(j, S) == j \in S /\ \A h \in S : j <= h

Quotes == Found(Quote, chunk, Len(doc) + 1)

(* json_str_len takes a quote for the end if no backslash is before it, or    *)
(* two of them are.                                                           *)
EndsOneBack(q) == doc[q - 1] # Backslash
Ends(q) == doc[q - 1] = Backslash => doc[q - 2] = Backslash

NoEnd ==
    /\ pc = "measure" /\ Quotes = {}
    /\ pc' = "done" /\ rv' = -1
    /\ UNCHANGED <<doc, output, Input>>

SkipQuote ==
    /\ pc = "measure"
    /\ \E q \in Quotes : IsFirst(q, Quotes) /\ ~Ends(q) /\ chunk' = q + 1
    /\ UNCHANGED <<doc, output, pc, end, dest, read, rv>>

EndFound ==
    /\ pc = "measure"
    /\ \E q \in Quotes : /\ IsFirst(q, Quotes) /\ Ends(q)
                         /\ end' = q /\ rv' = q - 2
    /\ chunk' = 2
    /\ pc' = "parse"
    /\ UNCHANGED <<doc, output, dest, read>>

-----------------------------------------------------------------------------
(* parse_json_string into a buffer of end - 2 bytes. *)
Backslashes == Found(Backslash, chunk, end)

Between(p, q) == SubSeq(doc, p, q - 1)

(* How many of the four bytes from p are hexadecimal digits, up to the first  *)
(* that is not, and the last byte looked at to find out.                      *)
HexAt(p, n) == \A j \in 0 .. n - 1 : p + j <= Len(doc) /\ IsDigit(doc[p + j])
HexStops(p, n) == HexAt(p, n) /\ ~HexAt(p, n + 1)
HexPair(p) == 16 * DigitValue(doc[p]) + DigitValue(doc[p + 1])
HexNumber(p) == 256 * HexPair(p) + HexPair(p + 2)

(* The loop is left at position p: the rest is copied as it is. *)
CopyRest(prefix, p) ==
    /\ dest' = dest \o prefix \o Between(p, end)
    /\ rv' = Len(dest')
    /\ pc' = "done"
    /\ UNCHANGED <<doc, output, chunk, end>>

(* Another round from position p on. *)
GoOn(addition, p) ==
    /\ dest' = dest \o addition
    /\ chunk' = p
    /\ UNCHANGED <<doc, output, pc, end, rv>>

NoBackslash ==
    /\ pc = "parse" /\ Backslashes = {}
    /\ CopyRest(<<>>, chunk)
    /\ UNCHANGED read

AtBackslashUnchecked(b) == pc = "parse" /\ IsFirst(b, Backslashes)

(* A backslash that is the last byte of the text ends the loop. *)
LastBackslash(b) ==
    /\ pc = "parse" /\ IsFirst(b, Backslashes) /\ b + 1 = end
    /\ CopyRest(Between(chunk, b), end)
    /\ UNCHANGED read

AtBackslash(b) == pc = "parse" /\ IsFirst(b, Backslashes) /\ b + 1 # end

CodePoint(b) ==
    /\ AtBackslash(b) /\ doc[b + 1] = 117 /\ HexAt(b + 2, 4)
    /\ GoOn(Between(chunk, b) \o Utf8(HexNumber(b + 2)), b + 6)
    /\ read' = b + 5

BrokenCodePoint(b) ==
    /\ AtBackslash(b) /\ doc[b + 1] = 117
    /\ \E n \in 0 .. 3 : HexStops(b + 2, n) /\ read' = b + 2 + n
    /\ CopyRest(Between(chunk, b), b + 1)

SimpleEscape(b) ==
    /\ AtBackslash(b) /\ doc[b + 1] # 117
    /\ GoOn(Between(chunk, b) \o <<Unescape(doc[b + 1])>>, b + 2)
    /\ UNCHANGED read

-----------------------------------------------------------------------------
Escape == PlainByte \/ EscapeByte \/ EscapeNothingPending \/ CloseString
Measure == NoEnd \/ SkipQuote \/ EndFound
Parse == \/ NoBackslash
         \/ \E b \in Backslashes : \/ LastBackslash(b) \/ CodePoint(b)
                                   \/ BrokenCodePoint(b) \/ SimpleEscape(b)

Next == Escape \/ Measure \/ Parse

Spec == Init /\ [][Next]_vars

-----------------------------------------------------------------------------
TypeOK ==
    /\ data \in Seq(Bytes) /\ doc \in Seq(Bytes) /\ dest \in Seq(Bytes)
    /\ doc # <<>> /\ doc[1] = Quote
    /\ pc \in {"escape", "measure", "parse", "done"}
    /\ written \in 0 .. Len(data) /\ last_write \in 0 .. written
    /\ chunk \in Nat /\ end \in Nat /\ read \in Nat
    /\ rv \in Nat \cup {-1}

(* Translating a string stays within the buffer, which is as long as the text *)
(* between the quotes, and within the text, though neither the calls of       *)
(* __nson_parse_hex nor those of __nson_to_utf8 are given a bound ("TODO:     *)
(* correctly supply upper bounds"): hexadecimal digits stop at the quote.     *)
InBounds ==
    end # 0 => /\ Len(dest) <= end - 2
               /\ chunk <= end
               /\ read <= end

(* What the proof of InBounds needs: the end is a quote, and each byte in the *)
(* buffer comes from one that was passed.                                     *)
BoundsInv ==
    /\ chunk >= 2
    /\ end = 0 => dest = <<>> /\ read = 0 /\ pc # "parse"
    /\ end # 0 => /\ end \in 2 .. Len(doc) /\ doc[end] = Quote
                  /\ pc \in {"parse", "done"}
                  /\ chunk <= end /\ read <= end
                  /\ pc = "parse" => Len(dest) <= chunk - 2
                  /\ Len(dest) <= end - 2

IndInv == TypeOK /\ BoundsInv
=============================================================================
