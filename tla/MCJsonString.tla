---------------------------- MODULE MCJsonString ----------------------------
(* JSON strings over a few bytes, against what JSON says of escapes. *)
EXTENDS JsonPieces

CONSTANTS StringLen, TextLen, PieceLen   \* bounds on the lengths

Sequences(S, n) == UNION {[1 .. m -> S] : m \in 0 .. n}

a == 97     \* also a hexadecimal digit
n == 110    \* names the line feed
u == 117
zero == 48

AllStrings == Sequences({a, n, 10, 1, Quote, Backslash}, StringLen)

SomePieces == {
    [text |-> <<a>>, bytes |-> <<a>>],
    [text |-> <<Backslash, n>>, bytes |-> <<10>>],
    [text |-> <<Backslash, Quote>>, bytes |-> <<Quote>>],
    [text |-> <<Backslash, Backslash>>, bytes |-> <<Backslash>>],
    [text |-> <<Backslash, u, 48, 48, 50, 52>>, bytes |-> <<36>>],            \* $
    [text |-> <<Backslash, u, 48, 48, 65, 50>>, bytes |-> <<194, 162>>],      \* cent
    [text |-> <<Backslash, u, 50, 48, 97, 99>>, bytes |-> <<226, 130, 172>>]} \* euro

PieceSeqs == Sequences(SomePieces, PieceLen)

AllTexts ==
    PieceTexts
    \cup {<<Quote>> \o s : s \in Sequences({a, n, u, zero, Quote, Backslash}, TextLen)}
    \cup {<<Quote, Backslash, u>> \o s : s \in Sequences({a, zero, Quote, Backslash}, TextLen)}
=============================================================================
