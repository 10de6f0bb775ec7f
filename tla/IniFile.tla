------------------------------ MODULE IniFile ------------------------------
(***************************************************************************)
(* nson_load_ini: nson_load of src/data.c maps a file into memory, and     *)
(* nson_parse_ini of src/ini.c reads it line by line.  The parser does not *)
(* look at the length it is given, it reads up to a terminating zero; so   *)
(* what the memory holds behind the file's last byte is part of the model. *)
(***************************************************************************)
EXTENDS Integers, Sequences

CONSTANTS
    Files,   \* the contents of files
    Page,    \* the page size in bytes
    KeyMax   \* characters of a key that are kept, 63 in the code

(* What the parser tells apart: blanks, line ends, comments, anything else.   *)
Chars == {" ", "nl", "#", "x"}

ASSUME IniInstance ==
    /\ Files \subseteq Seq(Chars)
    /\ Page \in Nat \ {0}
    /\ KeyMax \in Nat

VARIABLES
    file,
    at,       \* "start", "lines", "unmap", "returned", "crashed"
    p,        \* the offset where the next line begins
    rv,       \* the result
    entries,  \* the object, in the order in which it is filled
    failed    \* did a system call fail?

vars == <<file, at, p, rv, entries, failed>>

(* The pages that hold bytes of the file can be read, with zeros behind its   *)
(* last byte.  nson_load may map another page, for a file whose size is two   *)
(* bytes short of full pages, but there is no file behind it: reading it      *)
(* fails as it does outside of the mapping.                                   *)
Backed == ((Len(file) + Page - 1) \div Page) * Page
At(q) == IF q < Len(file) THEN file[q + 1] ELSE IF q < Backed THEN "nul" ELSE "none"

(* The first offset from q on whose character is in S, or that cannot be      *)
(* read.                                                                      *)
First(q, S) == CHOOSE n \in q .. Backed :
    /\ At(n) \in S \cup {"none"}
    /\ \A m \in q .. n - 1 : At(m) \notin S \cup {"none"}

KeptWhole(s) == s
Kept(s) == SubSeq(s, 1, IF Len(s) < KeyMax THEN Len(s) ELSE KeyMax)

(* The key of the line ends at a blank, wherever that is. *)
EndOfKeyUnterminated(q) == First(q, {" "})
EndOfKey(q) == First(q, {" ", "nul"})

NoBlanksSkipped(q) == q
EndOfBlanks(q) == First(q, {"nl", "#", "x", "nul"})

Bytes(q, n) == [k \in 1 .. n |-> At(q + k - 1)]

(* nson_init_data with the length len - i, which is huge when the value       *)
(* begins behind the line: no buffer is allocated.                            *)
ValueLengthWithEnd(line, len, val) == len + 1 - (val - line)
ValueLength(line, len, val) == len - (val - line)
Entry(key, val, n) == [key |-> key, ok |-> n >= 0, val |-> IF n >= 0 THEN Bytes(val, n) ELSE <<>>]

(* parse_line on the line of len characters: its result and what it adds.     *)
ParseLine(line, len) ==
    LET key == EndOfBlanks(line)
        end == EndOfKey(key)
        val == EndOfBlanks(end + 1)
        Result(result, new) == [crashed |-> FALSE, rv |-> result, new |-> new]
    IN IF At(key) \in {"#", "nul"} THEN Result(0, <<>>)
       ELSE IF At(end) = "nul" THEN Result(-1, <<>>)
       ELSE IF At(end) = "none" \/ At(val) = "none" THEN [crashed |-> TRUE, rv |-> 0, new |-> <<>>]
       ELSE Result(val - line, <<Entry(Kept(Bytes(key, end - key)), val, ValueLength(line, len, val))>>)

-----------------------------------------------------------------------------
Init == /\ file \in Files
        /\ at = "start" /\ p = 0 /\ rv = 0
        /\ entries = <<>> /\ failed = FALSE

(* open, fstat, mmap, and the object that is to be filled. *)
Load ==
    /\ at = "start"
    /\ at' = "lines"
    /\ UNCHANGED <<file, p, rv, entries, failed>>

LoadFails ==
    /\ at = "start"
    /\ at' = "returned" /\ rv' = -1 /\ failed' = TRUE
    /\ UNCHANGED <<file, p, entries>>

Crash == at' = "crashed" /\ UNCHANGED <<file, p, rv, entries, failed>>

(* One line.  The next one begins behind its end, be that a zero.             *)
Line ==
    LET end == First(p, {"nl", "nul"})
        line == ParseLine(p, end - p)
    IN /\ at = "lines" /\ At(p) # "nul"
       /\ IF At(end) = "none" \/ line.crashed
          THEN Crash
          ELSE /\ rv' = line.rv
               /\ entries' = entries \o line.new
               /\ p' = end + 1
               /\ UNCHANGED <<file, at, failed>>

EndOfFileBehindZero ==
    /\ at = "lines" /\ At(p) = "nul" /\ p > Len(file)
    /\ at' = "unmap"
    /\ UNCHANGED <<file, p, rv, entries, failed>>

EndOfFile ==
    /\ at = "lines" /\ At(p) = "nul"
    /\ at' = "unmap"
    /\ UNCHANGED <<file, p, rv, entries, failed>>

UnmapUnchecked ==
    /\ at = "unmap"
    /\ at' = "returned"
    /\ failed' \in BOOLEAN
    /\ UNCHANGED <<file, p, rv, entries>>

Unmap ==
    /\ at = "unmap"
    /\ at' = "returned"
    /\ failed' \in BOOLEAN
    /\ rv' = IF failed' THEN -1 ELSE rv
    /\ UNCHANGED <<file, p, entries>>

Next == Load \/ LoadFails \/ Line \/ EndOfFile \/ Unmap

Spec == Init /\ [][Next]_vars

(* The call runs. *)
FairSpec == Spec /\ WF_vars(Next)

-----------------------------------------------------------------------------
(* No key is longer than the array of parse_line that receives it. *)
TypeOK ==
    /\ at \in {"start", "lines", "unmap", "returned", "crashed"}
    /\ p \in 0 .. Backed
    /\ rv \in -1 .. Backed
    /\ failed \in BOOLEAN
    /\ \A n \in DOMAIN entries : entries[n].key \in Seq(Chars) /\ Len(entries[n].key) <= KeyMax

(* Memory that cannot be read is reached from the files that fill their last  *)
(* page, so that there is no zero behind them, or all but one byte of it      *)
(* without ending their last line, where the loop steps over the only zero;   *)
(* and from no other, whatever their lines are.                               *)
LastUnended == file # <<>> /\ file[Len(file)] # "nl"
FillsPage == Len(file) % Page = 0 \/ (Len(file) % Page = Page - 1 /\ LastUnended)
CrashesAtPageEnds ==
    /\ at = "crashed" => FillsPage
    /\ at = "unmap" => ~FillsPage

(* A value never runs over the end of its line, whatever its key does. *)
ValuesStayInLine ==
    \A n \in DOMAIN entries : \A m \in DOMAIN entries[n].val : entries[n].val[m] # "nl"

(* The caller learns of a system call that failed, and of a last line that    *)
(* has no value (test/ini.c, syntax_error); of an earlier one it does not.    *)
LastLine == {n \in 1 .. Len(file) : \A m \in n .. Len(file) : file[m] # "nl"}
LastWithoutValue == LastLine # {} /\ \A n \in LastLine : file[n] = "x"
FailuresReported == at = "returned" /\ (failed \/ LastWithoutValue) => rv < 0

(* nson_load's comment: there is a zero behind the file when the parser runs. *)
NulTerminated == at = "lines" => At(Len(file)) = "nul"

(* The file is read to a result. *)
LoadReturns == <>(at \in {"returned", "crashed"})

-----------------------------------------------------------------------------
(* The strengthened invariant.  A line begins behind the end of another; the  *)
(* zero behind an unended last line may be taken for such an end, once.       *)
LineStart ==
    /\ p \in 1 .. Len(file) => file[p] = "nl"
    /\ p > Len(file) => p = Len(file) + 1 /\ LastUnended

(* A last line without a value is the last one that gives a result. *)
LastReported == LastWithoutValue => rv < 0

Entries == [key : {s \in Seq(Chars) : Len(s) <= KeyMax}, ok : BOOLEAN, val : Seq(Chars \ {"nl"})]

IndInv ==
    /\ file \in Files
    /\ TypeOK
    /\ entries \in Seq(Entries)
    /\ CrashesAtPageEnds
    /\ at \in {"start", "lines"} => LineStart
    /\ (at \in {"start", "lines"} /\ p > Len(file)) \/ at = "unmap" => LastReported
    /\ FailuresReported
=============================================================================
