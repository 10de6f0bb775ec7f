------------------------------ MODULE IniLines ------------------------------
(***************************************************************************)
(* What an INI file means, line by line: the reference that nson_load_ini  *)
(* is held against.                                                        *)
(***************************************************************************)
EXTENDS IniFile, FiniteSets

(* A line ends before an end of line; the last one may lack it.               *)
LineEnds == {n \in DOMAIN file : file[n] = "nl"} \cup (IF LastUnended THEN {Len(file) + 1} ELSE {})
Before(n) == CHOOSE m \in LineEnds \cup {0} : m < n /\ \A k \in LineEnds : k < n => k <= m
LineOf(n) == SubSeq(file, Before(n) + 1, n - 1)

(* A line is blanks, a key, blanks and a value, or blanks and a comment. *)
Unindented(line) ==
    LET from == CHOOSE n \in 1 .. Len(line) + 1 : /\ \A m \in 1 .. n - 1 : line[m] = " "
                                                  /\ n <= Len(line) => line[n] # " "
    IN SubSeq(line, from, Len(line))
IsComment(line) == Unindented(line) # <<>> /\ Head(Unindented(line)) = "#"
KeyLength(line) == CHOOSE n \in 0 .. Len(line) :
    (\A m \in 1 .. n : line[m] # " ") /\ (n < Len(line) => line[n + 1] = " ")
HasValue(line) == LET word == Unindented(line) IN word # <<>> /\ KeyLength(word) < Len(word)
EntryOf(line) ==
    LET word == Unindented(line)
        n == KeyLength(word)
    IN [key |-> Kept(SubSeq(word, 1, n)), ok |-> TRUE,
        val |-> Unindented(SubSeq(word, n + 1, Len(word)))]

WellFormed == \A n \in LineEnds : IsComment(LineOf(n)) \/ HasValue(LineOf(n))

(* The entries are those of the lines that end up to q, in their order. *)
EntryEnds(q) == {n \in LineEnds : n <= q /\ ~IsComment(LineOf(n))}
EntriesUpTo(q) ==
    /\ Len(entries) = Cardinality(EntryEnds(q))
    /\ \A n \in EntryEnds(q) : entries[Cardinality(EntryEnds(n))] = EntryOf(LineOf(n))

(* A file of comments and of keys with values is read to exactly those, in    *)
(* their order.                                                               *)
LinesRead ==
    at = "returned" /\ ~failed /\ WellFormed => rv >= 0 /\ EntriesUpTo(Len(file) + 1)

-----------------------------------------------------------------------------
(* The strengthened invariant: so it is for the lines read so far.            *)
LinesInv ==
    /\ IndInv
    /\ at \in {"start", "lines"} /\ WellFormed => rv >= 0 /\ EntriesUpTo(p)
    /\ (at = "unmap" \/ (at = "returned" /\ ~failed)) /\ WellFormed => rv >= 0 /\ EntriesUpTo(Len(file) + 1)
=============================================================================
