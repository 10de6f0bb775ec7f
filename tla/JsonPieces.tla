----------------------------- MODULE JsonPieces -----------------------------
(***************************************************************************)
(* What the text of a JSON string stands for, after the grammar of JSON:   *)
(* the reference that JsonString is held against.  A string is a sequence  *)
(* of pieces, each with its text and the bytes it stands for.              *)
(***************************************************************************)
EXTENDS JsonString, SequencesExt

CONSTANTS
    Pieces,    \* some pieces, as IsPiece says they are
    Composed   \* some sequences of them

(* A byte that stands for itself.  (JSON has no control characters here.)     *)
IsPlain(p) ==
    \E b \in Bytes \ {Quote, Backslash} : p = [text |-> <<b>>, bytes |-> <<b>>]

(* The escapes of one character: what is written, and what is meant. *)
Shorthands == {<<116, 9>>, <<110, 10>>, <<114, 13>>,
               <<Quote, Quote>>, <<Backslash, Backslash>>, <<47, 47>>}

IsShorthand(p) ==
    \E e \in Shorthands : p = [text |-> <<Backslash, e[1]>>, bytes |-> <<e[2]>>]

(* A code point in four hexadecimal digits.  The halves of a surrogate pair   *)
(* are none.                                                                  *)
HasFourDigits(t) == \A j \in 3 .. 6 : IsDigit(t[j])
FourDigits(t) == 4096 * DigitValue(t[3]) + 256 * DigitValue(t[4])
                     + 16 * DigitValue(t[5]) + DigitValue(t[6])

IsCodePoint(p) ==
    /\ p.text \in Seq(Bytes) /\ Len(p.text) = 6
    /\ p.text[1] = Backslash /\ p.text[2] = 117
    /\ HasFourDigits(p.text)
    /\ FourDigits(p.text) \notin 55296 .. 57343
    /\ p.bytes = Utf8(FourDigits(p.text))

IsPiece(p) == IsPlain(p) \/ IsShorthand(p) \/ IsCodePoint(p)

ASSUME PieceAssumption ==
    /\ \A p \in Pieces : IsPiece(p)
    /\ Composed \subseteq Seq(Pieces)

TextOf(s) == <<Quote>> \o FlattenSeq([j \in DOMAIN s |-> s[j].text]) \o <<Quote>>
BytesOf(s) == FlattenSeq([j \in DOMAIN s |-> s[j].bytes])

PieceTexts == {TextOf(s) : s \in Composed}
PiecesOf == [t \in PieceTexts |-> CHOOSE s \in Composed : TextOf(s) = t]

(* An escaped quote right behind an escaped backslash makes json_str_len stop *)
(* too early.                                                                 *)
Misread(s) == \E j \in 1 .. Len(s) - 1 : /\ s[j].text = <<Backslash, Backslash>>
                                         /\ s[j + 1].text = <<Backslash, Quote>>

(* A text made of the pieces JSON allows is read to its last quote and to the *)
(* bytes the pieces stand for, however escapes follow one another, unless an  *)
(* escaped quote comes right behind an escaped backslash.                     *)
ReadsPieces ==
    pc = "done" /\ doc \in PieceTexts => LET s == PiecesOf[doc] IN
        ~Misread(s) => end = Len(doc) /\ dest = BytesOf(s)

(* Strings json_escape_string can write: it knows no escape for a backslash,  *)
(* and stops at an escape with nothing before it.                             *)
Writable(s) == /\ Backslash \notin ToSet(s)
               /\ \A j \in DOMAIN s : Escaped(s[j]) => j > 1 /\ ~Escaped(s[j - 1])

(* Writing and reading back gives the string that was written.                *)
WritesBack == pc = "done" /\ Writable(data) /\ written > 0 => end = Len(doc) /\ dest = data
=============================================================================
