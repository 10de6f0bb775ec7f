---------------------------- MODULE PlistParser ----------------------------
(***************************************************************************)
(* nson_parse_plist of src/plist.c: calls one behind the other, which      *)
(* share the static string_tag.  As in module JsonParser a stack holds the *)
(* arrays that are being filled.                                           *)
(*                                                                         *)
(* A document is a sequence of tokens: white space, a tag, or a value with *)
(* its text and its closing tag.  Most failures do not leave the loop at   *)
(* once: the position stays inside a token, and the next round, which      *)
(* looks for `<', gives up and returns whatever rv holds.                  *)
(***************************************************************************)
EXTENDS PlistText

CONSTANTS
    Docs,        \* the documents of the first call
    LaterDocs,   \* the documents of the other calls
    Calls        \* number of calls

Nil == [type |-> "nil"]
Arr(s) == [type |-> "arr", elems |-> s]
Obj(s) == [type |-> "obj", elems |-> s]    \* keys and values in turn
BoolVal(b) == [type |-> "bool", val |-> b]
IntVal(n) == [type |-> "int", val |-> n]
RealVal(n) == [type |-> "real", val |-> n]
StrVal(s) == [type |-> "str", text |-> s]
BlobVal(s) == [type |-> "blob", text |-> s]

(* Tags without a text.  "/other" is another closing tag, "/d" one that       *)
(* starts with a d; "stray" is a `<' or `</' in front of the next token;      *)
(* "kind" stands for tags that start with a k and "other" for the rest; "cut" *)
(* lacks its `>'.                                                             *)
Tags == {" ", "?xml", "!DOCTYPE", "plist", "/plist", "array", "/array", "dict", "/dict",
         "true", "false", "stray", "kind", "other", "/other", "/d", "cut"}
Texts == {"string", "key", "data", "integer", "real"}

Tag(t) == [tag |-> t]
Elem(t, s, closed) == [tag |-> t, text |-> s, closed |-> closed]

Tokens == [tag : Tags] \cup [tag : Texts, text : Seq(Bytes), closed : BOOLEAN]

(* A string or data that is not closed runs up to the next closing tag of its *)
(* kind: there is none.  A number without its closing tag has something       *)
(* behind it, and a tag without `>' has not.                                  *)
IsDocument(d) ==
    /\ d \in Seq(Tokens)
    /\ \A j \in DOMAIN d :
          /\ d[j].tag = "cut" => j = Len(d)
          /\ d[j].tag \in Texts /\ ~d[j].closed =>
                 IF d[j].tag \in {"integer", "real"} THEN j < Len(d)
                 ELSE \A k \in j + 1 .. Len(d) : d[k].tag \notin {"string", "key", "data"}

ASSUME PlistInstance ==
    /\ \A d \in Docs \cup LaterDocs : IsDocument(d)
    /\ Calls \in Nat \ {0}

VARIABLES
    doc,
    i,          \* the position in doc, counted in tokens from 0
    inside,     \* is the position inside the token i, behind its beginning?
    stack,      \* stack[n]: the array being filled on level n
    old_top,    \* the value that was popped last and not yet moved elsewhere
    at,         \* where the parser is: "idle", "begin", "loop", "end", "out",
                \* "returned", "crashed"
    rv,         \* the result
    nson,       \* the caller's value
    string_tag, \* the static variable: "string" or "key"
    calls,      \* number of calls so far
    refused     \* did a call before this one fail?

parse == <<i, inside, stack, old_top, rv, nson>>
vars == <<parse, doc, at, string_tag, calls, refused>>

Top == stack[Len(stack)]
Below == SubSeq(stack, 1, Len(stack) - 1)
AddToBottom(s, v) == [s EXCEPT ![1] = Arr(Append(@.elems, v))]
AddTo(s, v) == [s EXCEPT ![Len(s)] = Arr(Append(@.elems, v))]

(* SKIP_SPACES from the boundary j on. *)
AfterSpaces(j) == CHOOSE k \in j .. Len(doc) :
    (\A m \in j + 1 .. k : doc[m].tag = " ") /\ (k < Len(doc) => doc[k + 1].tag # " ")

Has(j, t) == j < Len(doc) /\ doc[j + 1].tag = t

(* The tag that is behind the spaces the loop skips. *)
Upcoming == doc[AfterSpaces(i) + 1]
Found(tags) == /\ at = "loop" /\ ~inside
               /\ AfterSpaces(i) < Len(doc) /\ Upcoming.tag \in tags

Behind == AfterSpaces(i) + 1

-----------------------------------------------------------------------------
Init == /\ doc = <<>> /\ i = 0 /\ inside = FALSE
        /\ stack = <<>> /\ old_top = Nil
        /\ at = "idle" /\ rv = 0 /\ nson = Nil
        /\ string_tag = "string"
        /\ calls = 0 /\ refused = FALSE

(* A call with an empty value. *)
CallOn(d) ==
    /\ at \in {"idle", "returned"} /\ calls < Calls
    /\ doc' = d
    /\ i' = 0 /\ inside' = FALSE
    /\ stack' = <<>> /\ old_top' = Nil
    /\ at' = "begin" /\ rv' = 0 /\ nson' = Nil
    /\ calls' = calls + 1
    /\ refused' = (refused \/ (at = "returned" /\ nson = Nil))
    /\ UNCHANGED string_tag

Call == \E d \in IF calls = 0 THEN Docs ELSE LaterDocs : CallOn(d)

(* The three tags at the beginning; nothing is set up before they are read.   *)
Header ==
    LET second == AfterSpaces(1)
        third == AfterSpaces(second + 1)
    IN /\ at = "begin"
       /\ IF Has(0, "?xml") /\ Has(second, "!DOCTYPE") /\ Has(third, "plist")
          THEN /\ i' = third + 1 /\ rv' = 1
               /\ stack' = <<Arr(<<>>)>>
               /\ at' = "loop"
          ELSE rv' = -1 /\ at' = "returned" /\ UNCHANGED <<i, stack>>
       /\ UNCHANGED <<doc, inside, old_top, nson, string_tag, calls, refused>>

GoesOnAtBottom(s, j, within, result) ==
    /\ stack' = s
    /\ i' = j /\ inside' = within
    /\ rv' = result
    /\ at' = IF s # <<>> /\ (j < Len(doc) \/ within) THEN "loop" ELSE "end"
    /\ UNCHANGED <<doc, nson, calls, refused>>

(* The end of a round: the loop goes on while an array is open and there is   *)
(* text.                                                                      *)
Goes(s, j, within, result) ==
    /\ stack' = s
    /\ i' = j /\ inside' = within
    /\ rv' = result
    /\ at' = IF Len(s) > 1 /\ (j < Len(doc) \/ within) THEN "loop" ELSE "end"
    /\ UNCHANGED <<doc, nson, calls, refused>>

(* A round that read the whole token, and one that stays inside it, with what *)
(* skip_tag or a reader of numbers answered in rv.                            *)
Round(s) == Goes(s, Behind, FALSE, 1)
Stays(s, result) == Goes(s, Behind - 1, TRUE, result)

Fail(result) == /\ rv' = result
                /\ at' = "out"
                /\ UNCHANGED <<doc, i, inside, stack, nson, calls, refused>>

(* No `<', or less than two bytes. *)
NoTag ==
    /\ at = "loop"
    /\ inside \/ AfterSpaces(i) = Len(doc)
    /\ Fail(rv)
    /\ UNCHANGED <<old_top, string_tag>>

StrayStaying ==
    /\ Found({"stray"})
    /\ IF Behind = Len(doc) THEN Fail(rv) ELSE Goes(stack, i, FALSE, rv)
    /\ UNCHANGED <<old_top, string_tag>>

(* A `<' or `</' that another tag follows. *)
Stray ==
    /\ Found({"stray"})
    /\ IF Behind = Len(doc) THEN Fail(rv) ELSE Goes(stack, Behind, FALSE, rv)
    /\ UNCHANGED <<old_top, string_tag>>

(* A tag that no case reads to its end; rv is assigned if a case looked at it. *)
Unread ==
    /\ Found({"?xml", "!DOCTYPE", "plist", "/plist", "other", "/other", "kind", "cut"})
    /\ \E result \in CASE Upcoming.tag = "kind" -> {0}
                       [] Upcoming.tag \in {"other", "/other"} -> {0, rv}
                       [] Upcoming.tag = "cut" -> {-1, 0, rv}
                       [] OTHER -> {rv} :
           Stays(stack, result)
    /\ string_tag' \in CASE Upcoming.tag = "kind" -> {"key"}
                         [] Upcoming.tag = "cut" -> {"key", string_tag}
                         [] OTHER -> {string_tag}
    /\ UNCHANGED old_top

Open ==
    /\ Found({"array", "dict"})
    /\ Round(Append(stack, Arr(<<>>)))
    /\ UNCHANGED <<old_top, string_tag>>

Boolean ==
    /\ Found({"true", "false"})
    /\ Round(AddTo(stack, BoolVal(Upcoming.tag = "true")))
    /\ UNCHANGED <<old_top, string_tag>>

Data ==
    /\ Found({"data"})
    /\ IF ~Upcoming.closed \/ ~ParseB64(Upcoming.text).ok THEN Fail(-1)
       ELSE Round(AddTo(stack, BlobVal(ParseB64(Upcoming.text).bytes)))
    /\ UNCHANGED <<old_top, string_tag>>

StringKeepingTag ==
    LET expected == IF Upcoming.tag = "key" THEN "key" ELSE string_tag
    IN /\ Found({"string", "key"})
       /\ UNCHANGED old_top
       /\ string_tag' = expected
       /\ IF Upcoming.tag # expected THEN Stays(stack, 0)
          ELSE IF ~Upcoming.closed THEN Fail(-1)
          ELSE Round(AddTo(stack, StrVal(ParseText(Upcoming.text).bytes)))

(* The tag is compared with string_tag, which a k sets and only a string that *)
(* was read resets.                                                           *)
String ==
    LET expected == IF Upcoming.tag = "key" THEN "key" ELSE string_tag
    IN /\ Found({"string", "key"})
       /\ UNCHANGED old_top
       /\ IF Upcoming.tag # expected
          THEN Stays(stack, 0) /\ string_tag' = expected
          ELSE IF ~Upcoming.closed
          THEN Fail(-1) /\ string_tag' = expected
          ELSE IF ~ParseText(Upcoming.text).ok
          THEN /\ at' = "crashed" /\ string_tag' = expected
               /\ UNCHANGED <<doc, i, inside, stack, rv, nson, calls, refused>>
          ELSE Round(AddTo(stack, StrVal(ParseText(Upcoming.text).bytes))) /\ string_tag' = "string"

(* Behind a number its closing tag is looked for.  Without it the value stays *)
(* in the array: bytes in between leave the position inside the token; if     *)
(* there are none, the next round reads the next token.                       *)
Number(s, len) ==
    IF len < Len(Upcoming.text) THEN Stays(s, 0)
    ELSE Goes(s, Behind, FALSE, IF Upcoming.closed THEN 1 ELSE 0)

(* The readers of numbers see the rest of the document: behind the text a `<'. *)
IntegerNumber ==
    LET dev == ParseDev(Append(Upcoming.text, Lt))
    IN /\ Found({"integer"})
       /\ UNCHANGED <<old_top, string_tag>>
       /\ IF dev.len < 0 THEN Fail(-1) ELSE Number(AddTo(stack, IntVal(dev.val)), dev.len)

RealNumber ==
    LET number == ParseNumber(Append(Upcoming.text, Lt))
    IN /\ Found({"real"})
       /\ UNCHANGED <<old_top, string_tag>>
       /\ IF number.len < 0 THEN Stays(stack, -1)
          ELSE LET val == IF number.type = "int" THEN Scale * number.val ELSE number.val
               IN Number(AddTo(stack, RealVal(val)), number.len)

(* The top is popped and moved into the array below, if there is one.         *)
CloseWith(v) ==
    IF Len(stack) = 1
    THEN /\ stack' = <<>> /\ old_top' = v
         /\ rv' = 1 /\ at' = "out"
         /\ UNCHANGED <<doc, i, inside, nson, calls, refused>>
    ELSE Round(AddTo(Below, v)) /\ UNCHANGED old_top

CloseArray ==
    /\ Found({"/array"})
    /\ CloseWith(Top)
    /\ UNCHANGED string_tag

CloseDictUnchecked ==
    /\ Found({"/dict"})
    /\ CloseWith(Obj(Top.elems))
    /\ UNCHANGED string_tag

CloseDictInPlace ==
    /\ Found({"/dict"})
    /\ Len(Top.elems) % 2 = 0
    /\ Round(Append(Below, Obj(Top.elems)))
    /\ UNCHANGED <<old_top, string_tag>>

(* The conversion comes before the look at the tag. *)
CloseDict ==
    /\ Found({"/dict", "/d"})
    /\ UNCHANGED string_tag
    /\ IF Len(Top.elems) % 2 # 0 THEN Fail(rv) /\ UNCHANGED old_top
       ELSE IF Upcoming.tag = "/dict" THEN CloseWith(Obj(Top.elems))
       ELSE Stays(Append(Below, Obj(Top.elems)), 0) /\ UNCHANGED old_top

FinishAnyway ==
    /\ at = "end" /\ Len(stack) = 1 /\ Top.elems # <<>>
    /\ nson' = Head(Top.elems)
    /\ stack' = <<Arr(<<Nil>> \o Tail(Top.elems))>>
    /\ rv' = i
    /\ at' = "out"
    /\ UNCHANGED <<doc, i, inside, old_top, string_tag, calls, refused>>

(* Behind the loop. *)
Finish ==
    LET last == AfterSpaces(i)
    IN /\ at = "end"
       /\ UNCHANGED <<doc, inside, old_top, string_tag, calls, refused>>
       /\ at' = "out"
       /\ IF Len(stack) = 1 /\ ~inside /\ Has(last, "/plist") /\ Top.elems # <<>>
          THEN /\ nson' = Head(Top.elems)
               /\ stack' = <<Arr(<<Nil>> \o Tail(Top.elems))>>
               /\ i' = last + 1
               /\ rv' = last + 1
          ELSE /\ rv' \in IF Len(stack) # 1 \/ (~inside /\ Has(last, "/plist")) THEN {-1}
                         ELSE IF ~inside /\ Has(last, "cut") THEN {-1, 0} ELSE {0}
               /\ UNCHANGED <<i, stack, nson>>

(* err: the stack is cleaned, old_top is not. *)
Return ==
    /\ at = "out"
    /\ stack' = <<>>
    /\ at' = "returned"
    /\ UNCHANGED <<doc, i, inside, old_top, rv, nson, string_tag, calls, refused>>

Step == \/ Header \/ NoTag \/ Stray \/ Unread \/ Open \/ Boolean \/ Data \/ String
        \/ IntegerNumber \/ RealNumber \/ CloseArray \/ CloseDict \/ Finish \/ Return

Next == Call \/ Step

Spec == Init /\ [][Next]_vars

(* A call runs to its end; nobody has to call. *)
FairSpec == Spec /\ WF_vars(Step)
-----------------------------------------------------------------------------
TypeOK ==
    /\ i \in 0 .. Len(doc) /\ inside \in BOOLEAN
    /\ \A n \in DOMAIN stack : stack[n].type = "arr" \/ (inside /\ n = Len(stack))
    /\ old_top.type \in {"nil", "arr", "obj"}
    /\ at \in {"idle", "begin", "loop", "end", "out", "returned", "crashed"}
    /\ rv \in -1 .. Len(doc)
    /\ nson.type \in {"nil", "arr", "obj", "bool", "int", "real", "str", "blob"}
    /\ string_tag \in {"string", "key"}
    /\ calls \in 0 .. Calls /\ refused \in BOOLEAN

(* Whatever way the parser leaves, every value it made is in the caller's     *)
(* hands or was on the stack when that was cleaned: old_top, which nobody     *)
(* cleans, is empty.                                                          *)
NothingLeaks == old_top # Nil => old_top.elems = <<>>

(* Most errors leave rv as an earlier step set it, also at 0 or above, so the *)
(* caller can go by the value alone.  There is one only if the document was   *)
(* read up to its end tag; then rv is the position behind that.  As long as   *)
(* no call failed, the tag that the next call's strings are compared with is  *)
(* the right one; behind a failure a call may succeed and leave it wrong.     *)
ReadToEnd == rv = i /\ i \in DOMAIN doc /\ doc[i].tag = "/plist" /\ ~inside

ValueMeansSuccess ==
    at = "returned" /\ nson # Nil => ReadToEnd /\ (~refused => string_tag = "string")

(* The texts of strings are read within their bounds, except where a number   *)
(* whose UTF-8 form is longer than a byte stands in front of a `;': then the  *)
(* parser passes bytes behind the text.                                       *)
WideReferenceAt(s, b) ==
    LET dev == ParseDev(SubSeq(s, b + 2, Len(s)))
    IN /\ HasAt(s, b, <<Amp, Hash>>)
       /\ HasAt(s, b + 2 + dev.len, <<Semicolon>>)
       /\ dev.val < 0 \/ dev.val > 127

OverrunsOnlyAtWideReferences ==
    at = "crashed" => \E b \in DOMAIN Upcoming.text : WideReferenceAt(Upcoming.text, b)

(* The mapper that decodes base64 undoes the one that encodes it, and agrees  *)
(* with the reader of property lists on what that accepts, except that it     *)
(* takes any other byte for the end.                                          *)
MapperUndoesEncoding ==
    at = "loop" /\ Found({"data"}) =>
        LET text == Upcoming.text
            bytes == ParseB64(text).bytes
        IN ParseB64(text).ok /\ ReadableBlob(bytes) =>
               /\ MapperDecode(text) = [ok |-> TRUE, bytes |-> bytes]
               /\ MapperDecode(Encode(bytes)) = [ok |-> TRUE, bytes |-> bytes]

(* A call that was begun ends. *)
CallReturns == at = "begin" ~> at \in {"returned", "crashed"}

-----------------------------------------------------------------------------
(* The strengthened invariant.  Outside of tokens a level is an array of      *)
(* values that were read; the loop is left when the bottom gets its first     *)
(* one, so in the loop a bottom that is closed is empty.  Nothing is handed   *)
(* out before the end tag.                                                    *)
Types == {"arr", "obj", "bool", "int", "real", "str", "blob"}
IsSeq(s) == s \in Seq({s[n] : n \in DOMAIN s})
IsLevel(v) ==
    /\ v = Arr(v.elems) /\ IsSeq(v.elems)
    /\ \A m \in DOMAIN v.elems : v.elems[m].type \in Types
AreLevels(s) == IsSeq(s) /\ s # <<>> /\ \A n \in DOMAIN s : IsLevel(s[n])

Levels ==
    /\ AreLevels(stack)
    /\ at = "loop" /\ Len(stack) = 1 => stack[1].elems = <<>>

TagRestored == ~refused => string_tag = "string"

IndInv ==
    /\ doc \in Seq(Tokens)
    /\ TypeOK
    /\ NothingLeaks
    /\ at = "begin" => ~inside
    /\ at = "idle" => string_tag = "string"
    /\ at \in {"idle", "begin", "loop", "end"} => nson = Nil /\ old_top = Nil
    /\ at \in {"loop", "end"} /\ ~inside => Levels
    /\ at \in {"begin", "loop", "end"} /\ ~inside => TagRestored
    /\ at \in {"out", "returned"} /\ nson # Nil => ReadToEnd /\ TagRestored
=============================================================================
