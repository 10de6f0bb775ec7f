----------------------------- MODULE JsonParser -----------------------------
(***************************************************************************)
(* nson_parse_json of src/json.c: one pass over the document with a stack  *)
(* of the arrays that are still open.  The stack's bottom is an array that *)
(* receives the document's value; the loop ends when it is the only one    *)
(* left or the text is used up.                                            *)
(*                                                                         *)
(* The document is a sequence of tokens, what one round of the loop        *)
(* consumes.  Two kinds of broken tokens matter: one that makes the parser *)
(* give up (an unknown character, an unterminated string, a number that    *)
(* does not fit), and a misspelled or cut off literal in the last bytes of *)
(* the document, which the length test lets through and which is taken for *)
(* as long as it should be: the parser goes on behind the text.            *)
(***************************************************************************)
EXTENDS Integers, Sequences

CONSTANT Docs   \* the documents to be parsed

Scalars == {"str", "num", "true", "null"}
Tokens == Scalars \cup {"[", "]", "{", "}", ",", ":", " ", "cut", "bad"}

(* A cut off literal is the last token of its document: whatever bytes follow *)
(* its first letter are not looked at.                                        *)
Documents == {d \in Seq(Tokens) : \A j \in DOMAIN d : d[j] = "cut" => j = Len(d)}

ASSUME DocsAreDocuments == Docs \subseteq Documents

VARIABLES
    doc,
    i,          \* the position in doc: tokens, counted from 0, and behind the
                \* end the bytes that doc does not have
    stack,      \* stack[n]: the value being filled on level n
    old_top,    \* the value that was popped last and not yet moved elsewhere
    at,         \* where the parser is: "skip", "loop", "end", "out",
                \* "returned"
    rv,         \* the result: -1 for an error, the position otherwise
    nson        \* the caller's value

vars == <<doc, i, stack, old_top, at, rv, nson>>

Nil == [type |-> "nil"]
Arr(s) == [type |-> "arr", elems |-> s]
Obj(s) == [type |-> "obj", elems |-> s]    \* keys and values in turn
Scalar(k) == [type |-> k]

(* null becomes a string without characters; cut stands for true or false,    *)
(* whose spelling is not looked at, or again for null, and may lack all bytes *)
(* but the first.                                                             *)
ScalarsOf(token) == CASE token = "null" -> {Scalar("str")}
                      [] token = "cut" -> {Scalar("str"), Scalar("true")}
                      [] OTHER -> {Scalar(token)}

MissingBytes(v) == 0 .. IF v.type = "str" THEN 3 ELSE 4

Token == doc[i + 1]
More == i < Len(doc)
Top == stack[Len(stack)]
Below == SubSeq(stack, 1, Len(stack) - 1)

Push(s, v) == Append(s, v)

(* nson_arr_push(stack_top, value). *)
AddTo(s, v) == [s EXCEPT ![Len(s)] = Arr(Append(@.elems, v))]

-----------------------------------------------------------------------------
Init == /\ doc \in Docs
        /\ i = 0
        /\ stack = <<Arr(<<>>)>>
        /\ old_top = Nil
        /\ at = "skip"
        /\ rv = 0
        /\ nson = Nil

(* The loop over leading white space, and the jump to out if that is all.     *)
SkipSpace ==
    /\ at = "skip" /\ More /\ Token = " "
    /\ i' = i + 1
    /\ UNCHANGED <<doc, stack, old_top, at, rv, nson>>

Enter ==
    /\ at = "skip"
    /\ \/ More /\ Token # " " /\ at' = "loop" /\ UNCHANGED rv
       \/ ~More /\ at' = "out" /\ rv' = -1
    /\ UNCHANGED <<doc, i, stack, old_top, nson>>

(* The end of a round: the loop goes on while an array is open and there is   *)
(* text; behind it a single value on the bottom is what was asked for.        *)
NextRoundAlways(s, j) == /\ stack' = s
                         /\ i' = j
                         /\ at' = IF s # <<>> /\ j < Len(doc) THEN "loop" ELSE "end"
                         /\ UNCHANGED <<doc, rv, nson>>

NextRound(s, j) == /\ stack' = s
                   /\ i' = j
                   /\ at' = IF Len(s) > 1 /\ j < Len(doc) THEN "loop" ELSE "end"
                   /\ UNCHANGED <<doc, rv, nson>>

Fail == /\ rv' = -1
        /\ at' = "out"
        /\ UNCHANGED <<doc, i, nson>>

InLoop(tokens) == at = "loop" /\ Token \in tokens

OpenContainer ==
    /\ InLoop({"[", "{"})
    /\ NextRound(Push(stack, Arr(<<>>)), i + 1)
    /\ UNCHANGED old_top

SkipTokenStaying ==
    /\ InLoop({",", ":", " "})
    /\ NextRound(stack, i)
    /\ UNCHANGED old_top

(* Commas, colons and white space may stand anywhere. *)
SkipToken ==
    /\ InLoop({",", ":", " "})
    /\ NextRound(stack, i + 1)
    /\ UNCHANGED old_top

(* `]', and `}' behind the conversion: the top is popped and moved into the   *)
(* array below, if there is one.                                              *)
CloseWith(v) ==
    IF Len(stack) = 1
    THEN stack' = <<>> /\ old_top' = v /\ Fail
    ELSE NextRound(AddTo(Below, v), i + 1) /\ UNCHANGED old_top

CloseArray == InLoop({"]"}) /\ CloseWith(Top)

CloseObjectUnconverted ==
    /\ InLoop({"}"})
    /\ IF Len(Top.elems) % 2 # 0
       THEN Fail /\ UNCHANGED <<stack, old_top>>
       ELSE CloseWith(Top)

CloseObjectBreaking ==
    /\ InLoop({"}"})
    /\ IF Len(Top.elems) % 2 # 0
       THEN Fail /\ UNCHANGED <<stack, old_top>>
       ELSE NextRound([stack EXCEPT ![Len(stack)] = Obj(@.elems)], i) /\ UNCHANGED old_top

CloseObject ==
    /\ InLoop({"}"})
    /\ IF Len(Top.elems) % 2 # 0
       THEN Fail /\ UNCHANGED <<stack, old_top>>
       ELSE CloseWith(Obj(Top.elems))

AddScalarBelow ==
    /\ InLoop(Scalars \cup {"cut"})
    /\ \E v \in ScalarsOf(Token) : NextRound([stack EXCEPT ![1] = Arr(Append(@.elems, v))], i + 1)
    /\ UNCHANGED old_top

(* The position moves by the bytes the literal should have.                   *)
AddScalar ==
    /\ InLoop(Scalars \cup {"cut"})
    /\ \E v \in ScalarsOf(Token) :
          \E n \in IF Token = "cut" THEN MissingBytes(v) ELSE {0} :
              NextRound(AddTo(stack, v), i + 1 + n)
    /\ UNCHANGED old_top

GiveUp ==
    /\ InLoop({"bad"})
    /\ Fail
    /\ UNCHANGED <<stack, old_top>>

FinishUncounted ==
    /\ at = "end"
    /\ IF Len(stack) # 1
       THEN Fail /\ UNCHANGED stack
       ELSE /\ nson' = IF Top.elems = <<>> THEN Nil ELSE Head(Top.elems)
            /\ stack' = <<Arr(<<Nil>>)>>
            /\ rv' = i
            /\ at' = "out"
            /\ UNCHANGED <<doc, i>>
    /\ UNCHANGED old_top

FinishUnclosed ==
    /\ at = "end"
    /\ IF Len(Top.elems) # 1
       THEN Fail /\ UNCHANGED stack
       ELSE /\ nson' = Head(Top.elems)
            /\ stack' = <<Arr(<<Nil>>)>>
            /\ rv' = i
            /\ at' = "out"
            /\ UNCHANGED <<doc, i>>
    /\ UNCHANGED old_top

(* Behind the loop. *)
Finish ==
    /\ at = "end"
    /\ IF Len(stack) # 1 \/ Len(Top.elems) # 1
       THEN Fail /\ UNCHANGED stack
       ELSE /\ nson' = Head(Top.elems)
            /\ stack' = <<Arr(<<Nil>>)>>
            /\ rv' = i
            /\ at' = "out"
            /\ UNCHANGED <<doc, i>>
    /\ UNCHANGED old_top

(* out: the stack is cleaned, old_top is not. *)
Return ==
    /\ at = "out"
    /\ stack' = <<>>
    /\ at' = "returned"
    /\ UNCHANGED <<doc, i, old_top, rv, nson>>

Next == \/ SkipSpace \/ Enter \/ OpenContainer \/ SkipToken \/ CloseArray \/ CloseObject
        \/ AddScalar \/ GiveUp \/ Finish \/ Return

Spec == Init /\ [][Next]_vars

(* The parser runs. *)
FairSpec == Spec /\ WF_vars(Next)

-----------------------------------------------------------------------------
Types == Scalars \cup {"nil", "arr", "obj"}

TypeOK ==
    /\ i \in 0 .. Len(doc) + 4
    /\ \A n \in DOMAIN stack : stack[n].type = "arr"
    /\ old_top.type \in {"nil", "arr", "obj"}
    /\ at \in {"skip", "loop", "end", "out", "returned"}
    /\ rv \in -1 .. Len(doc) + 4
    /\ nson.type \in Types

(* The bottom of the stack holds nothing while arrays are open, and is left   *)
(* alone in the loop only before the first token: so a closing bracket finds  *)
(* an array below the one it closes, or closes the empty bottom.              *)
BottomLast ==
    at = "loop" => /\ stack # <<>> /\ stack[1] = Arr(<<>>)
                   /\ Len(stack) = 1 => \A j \in 1 .. i : doc[j] = " "

(* Whatever way the parser leaves, every value it made is in the caller's     *)
(* hands or was on the stack when that was cleaned: old_top, which nobody     *)
(* cleans, is empty.                                                          *)
NothingLeaks == old_top # Nil => old_top.elems = <<>>

(* An error leaves the caller's value empty, so that cleaning it is harmless; *)
(* a result is never empty.                                                   *)
NilIffError == at = "returned" => (rv < 0 <=> nson = Nil)

(* A call answers with a position behind the text only if the text is nothing *)
(* but a literal that misses its last bytes: behind every other text that     *)
(* ends so, an array is open, and the call fails.                             *)
LoneLiteral ==
    /\ doc # <<>> /\ doc[Len(doc)] = "cut"
    /\ \A j \in 1 .. Len(doc) - 1 : doc[j] = " "

OverrunsOnlyAtLoneLiteral == rv > Len(doc) => LoneLiteral

(* Every document is read to a result. *)
ParserReturns == <>(at = "returned")

-----------------------------------------------------------------------------
(* The strengthened invariant.  A level is an array whose elements are values *)
(* that were read, so none of them is empty; until the parser is done nothing *)
(* has been handed out, and then it is a value and its end, or an error.      *)
IsSeq(s) == s \in Seq({s[n] : n \in DOMAIN s})
IsLevel(v) ==
    /\ v = Arr(v.elems) /\ IsSeq(v.elems)
    /\ \A m \in DOMAIN v.elems : v.elems[m].type \in Types \ {"nil"}
AreLevels(s) == IsSeq(s) /\ s # <<>> /\ \A n \in DOMAIN s : IsLevel(s[n])

Parsing == AreLevels(stack) /\ rv = 0 /\ nson = Nil
Parsed == IF rv < 0 THEN nson = Nil ELSE nson.type \in Types \ {"nil"}

IndInv ==
    /\ doc \in Documents
    /\ TypeOK
    /\ BottomLast
    /\ NothingLeaks
    /\ OverrunsOnlyAtLoneLiteral
    /\ at = "end" /\ i > Len(doc) /\ Len(stack) = 1 => LoneLiteral
    /\ at = "skip" => stack = <<Arr(<<>>)>> /\ \A j \in 1 .. i : doc[j] = " "
    /\ at = "loop" => More
    /\ at \in {"skip", "loop", "end"} => Parsing
    /\ at \in {"out", "returned"} => Parsed
=============================================================================
