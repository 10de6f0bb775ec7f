----------------------------- MODULE PlistText -----------------------------
(***************************************************************************)
(* The text between the tags of a property list: plist_escape and          *)
(* parse_string of src/plist.c.                                            *)
(***************************************************************************)
EXTENDS Codecs

Lt == 60
Gt == 62
Amp == 38
Hash == 35
Semicolon == 59

(* "lt;", "gt;" and "amp;". *)
Entity == [b \in {Lt, Gt, Amp} |-> IF b = Lt THEN <<108, 116, Semicolon>>
                                   ELSE IF b = Gt THEN <<103, 116, Semicolon>>
                                   ELSE <<97, 109, 112, Semicolon>>]

IsEscaped(b) == b \in {Lt, Gt, Amp} \/ IsControl(b)

(* Control characters are written with two hexadecimal digits. *)
EscapeOf(b) == CASE b \in {Lt, Gt, Amp} -> <<Amp>> \o Entity[b]
                 [] IsControl(b) -> <<Amp, Hash, Digit(b \div 16), Digit(b % 16), Semicolon>>
                 [] OTHER -> <<b>>

EscapeWhole(s) == FlattenSeq([j \in DOMAIN s |-> EscapeOf(s[j])])

(* plist_escape.  Before it writes an escape it writes what is pending; if    *)
(* nothing is, fwrite answers 0, which is taken for an error, and the rest of *)
(* the text is dropped.  The callers do not look at the result.               *)
IsCut(s, j) == IsEscaped(s[j]) /\ (j = 1 \/ IsEscaped(s[j - 1]))

Escape(s) ==
    LET kept == CHOOSE n \in 0 .. Len(s) : /\ \A j \in 1 .. n : ~IsCut(s, j)
                                           /\ n < Len(s) => IsCut(s, n + 1)
    IN EscapeWhole(SubSeq(s, 1, kept))

-----------------------------------------------------------------------------
(* The closing tag stands behind the text. *)
ByteAt(s, p) == IF p <= Len(s) THEN s[p] ELSE Lt

HasAt(s, p, w) == p + Len(w) - 1 <= Len(s) /\ SubSeq(s, p, p + Len(w) - 1) = w

ReferencePastEnd(s, b) ==
    LET dev == ParseDev(SubSeq(s, b + 2, Len(s)))
        q == b + 2 + dev.len
        known == {c \in {Lt, Gt, Amp} : HasAt(s, b + 1, Entity[c])}
    IN IF ByteAt(s, b + 1) = Hash
       THEN IF ByteAt(s, q) = Semicolon
            THEN [byte |-> Utf8(dev.val)[1], next |-> q + Len(Utf8(dev.val))]
            ELSE [byte |-> Amp, next |-> q]
       ELSE IF known = {}
       THEN [byte |-> Amp, next |-> b + 1]
       ELSE LET c == CHOOSE c \in known : TRUE
            IN [byte |-> c, next |-> b + 2 + Len(Entity[c])]

(* What one round of parse_string makes of the `&' on position b: the byte it *)
(* leaves and where it goes on.  A number in front of `;' is decimal; of its  *)
(* UTF-8 form only the first byte stays, and as many bytes of the text as the *)
(* form is long are passed.  A number that is too large leaves the `#'.       *)
Reference(s, b) ==
    LET dev == ParseDev(SubSeq(s, b + 2, Len(s)))
        q == b + 2 + dev.len
        known == {c \in {Lt, Gt, Amp} : HasAt(s, b + 1, Entity[c])}
    IN IF ByteAt(s, b + 1) = Hash
       THEN IF ByteAt(s, q) = Semicolon
            THEN [byte |-> Utf8(dev.val)[1], next |-> q + Len(Utf8(dev.val))]
            ELSE [byte |-> Amp, next |-> q]
       ELSE IF known = {}
       THEN [byte |-> Amp, next |-> b + 1]
       ELSE LET c == CHOOSE c \in known : TRUE
            IN [byte |-> c, next |-> b + 1 + Len(Entity[c])]

(* The next `&' from position p on, or the end of the text. *)
MarkFrom(s, p) == CHOOSE b \in p .. Len(s) + 1 :
    /\ \A j \in p .. b - 1 : s[j] # Amp
    /\ b <= Len(s) => s[b] = Amp

(* A round of parse_string from position p on, in front of what rest gives    *)
(* for later positions: the bytes up to the next `&' as they are, then the    *)
(* reference.  Past the end of the text the length that is left wraps around: *)
(* the outcome is not defined.                                                *)
TextFrom(s, rest, p) ==
    LET b == MarkFrom(s, p)
        step == Reference(s, b)
    IN IF p > Len(s) + 1 THEN [ok |-> FALSE, bytes |-> <<>>]
       ELSE IF b > Len(s) THEN [ok |-> TRUE, bytes |-> SubSeq(s, p, Len(s))]
       ELSE [ok |-> rest[step.next].ok,
             bytes |-> Append(SubSeq(s, p, b - 1), step.byte) \o rest[step.next].bytes]

(* parse_string. *)
ParseText(s) ==
    LET dest[p \in 1 .. Len(s) + 3] == TextFrom(s, dest, p)
    IN dest[1]
=============================================================================
