------------------------------ MODULE MCPlist ------------------------------
(* Property lists: what is written is read back, and what is accepted. *)
EXTENDS PlistWriter

VARIABLE written   \* the value whose text is being read, or nil

CONSTANTS
    BodyLen,   \* length of the bodies of arbitrary tokens
    CoreLen    \* length of those of readable tokens

UpTo(S, n) == UNION {[1 .. m -> S] : m \in 0 .. n}

Whole(body) == Begin \o body \o <<Tag("/plist")>>

(* Bodies of any tokens: texts that are read and that are not.                *)
A == <<97>>
BodyTokens ==
    {Tag(t) : t \in Tags \ {"?xml", "!DOCTYPE", "false", "cut"}} \cup
    {Elem("string", A, TRUE), Elem("string", A, FALSE), Elem("key", A, TRUE), Elem("key", A, FALSE),
     Elem("data", Encode(A), TRUE), Elem("data", A, TRUE),
     Elem("integer", <<52>>, TRUE), Elem("integer", <<52>>, FALSE), Elem("integer", <<52, 97>>, TRUE),
     Elem("integer", <<49, 48, 48, 48>>, TRUE), Elem("real", <<52>>, TRUE),
     Elem("real", <<49, 48, 48, 48>>, TRUE)}

CoreTokens == {Tag(t) : t \in {"array", "/array", "dict", "/dict", "true"}} \cup
    {Elem("string", A, TRUE), Elem("key", A, TRUE), Elem("integer", <<52>>, FALSE)}
Bodies == UpTo(BodyTokens, BodyLen) \cup UpTo(CoreTokens, CoreLen)
Broken == {Begin, Tail(Begin), <<Tag(" ")>> \o Begin, Whole(<<Tag("array"), Tag("cut")>>)}
              \cup {SubSeq(Begin, 1, 2) \o <<Tag("cut")>>, Begin \o <<Tag("cut")>>,
                    Begin \o <<Tag("true"), Tag("cut")>>, Begin \o <<Tag("array"), Tag("cut")>>}
AnyDocs == {d \in {Whole(b) : b \in Bodies} \cup {Begin \o b : b \in UpTo(BodyTokens, 1)}
                      \cup {<<Begin[1], Tag(" "), Begin[2], Tag(" "), Begin[3]>> \o Whole(<<>>)}
                      \cup Broken : IsDocument(d)}

(* Texts of strings: references, broken ones, and some that are too wide.     *)
Strings == UpTo({97, Lt, Amp, 5, 16, 200}, 3)
References == {<<Amp, Hash>> \o n \o tail : n \in {<<>>, <<54, 53>>, <<Minus, 53>>, <<50, 48, 48>>, <<49, 48, 48, 48>>},
                                            tail \in UpTo({Semicolon, Amp, 97}, 3)}
                  \cup {<<Amp>> \o w : w \in UpTo({108, 116, Semicolon, Amp}, 3)}
RawStrings == {Whole(<<Elem("string", r, TRUE)>>) : r \in References}

(* Values: every kind, and two levels of arrays and objects.                  *)
Plain == {BoolVal(TRUE), StrVal(A), IntVal(-7)}
Scalars == Plain \cup {BoolVal(FALSE)} \cup {StrVal(s) : s \in Strings}
               \cup {BlobVal(s) : s \in UpTo({0, 77, 200}, 4)}
               \cup {IntVal(n) : n \in {-1000, -999, 0, 42, 999}}
               \cup {RealVal(n) : n \in {-110, -11, 0, 5, 11, 110, 120, 1234}}
Above(V) == V \cup {Arr(s) : s \in UpTo(V, 2)} \cup {Obj(<<>>)}
              \cup {Obj(<<StrVal(A), v>>) : v \in V} \cup {Obj(<<StrVal(A), v, StrVal(A), w>>) : v, w \in V}
Values == Scalars \cup Above(Above({BoolVal(TRUE), StrVal(A)})) \cup Above(Plain)

AllDocs == AnyDocs \cup RawStrings

(* Calls that come later: a string, a dictionary, a failure, and one that     *)
(* reads no string.                                                           *)
FewDocs == {Whole(<<Elem("string", A, TRUE)>>), Whole(<<Tag("true")>>),
            PlistWrite(Obj(<<StrVal(A), Arr(<<StrVal(A)>>)>>), {}),
            Whole(<<Elem("key", A, FALSE)>>)}

(* What a property list can carry: see the README for each case.              *)
ReadableText(s) ==
    \A j \in DOMAIN s : /\ ~IsCut(s, j)
                        /\ IsControl(s[j]) => s[j] \in 1 .. 9

(* The digits behind the point come back in reverse. *)
ReadableReal(n) == n >= 0 /\ LET d == DigitsOf(n % Scale, Decimals) IN d = Reverse(d)

RECURSIVE Readable(_)
Readable(v) ==
    CASE v.type = "str" -> ReadableText(v.text)
      [] v.type = "blob" -> ReadableBlob(v.text)
      [] v.type = "int" -> v.val >= -MaxInt
      [] v.type = "real" -> ReadableReal(v.val)
      [] v.type \in {"arr", "obj"} -> \A n \in DOMAIN v.elems : Readable(v.elems[n])
      [] OTHER -> v # Nil

(* A call on any document, or on the text of a value. *)
CallOnAny == Call /\ written' = Nil
CallOnWritten ==
    /\ calls = 0
    /\ \E v \in Values : CallOn(PlistWrite(v, {})) /\ written' = v

MCInit == Init /\ written = Nil
MCNext == CallOnAny \/ CallOnWritten \/ (Step /\ UNCHANGED written)
MCSpec == MCInit /\ [][MCNext]_<<vars, written>> /\ WF_<<vars, written>>(Step /\ UNCHANGED written)

(* As long as no call failed, a value that is written is read back as it was: *)
(* the writer's escapes, digits and base64 are what the reader takes them     *)
(* for, and the key of an object leaves string_tag as the next string needs   *)
(* it.                                                                        *)
ReadsPlist ==
    at = "returned" /\ ~refused /\ Readable(written) => nson = written /\ rv = Len(doc)

(* What was read of a document as brackets and scalars; the closing tag tells *)
(* arrays from objects.  Integers keep the number their digits denote.        *)
Mark(kind, val) == [kind |-> kind, val |-> val]

RECURSIVE Nesting(_)
Nesting(v) ==
    CASE v.type \in {"arr", "obj"} ->
             <<Mark("open", 0)>> \o FlattenSeq([n \in DOMAIN v.elems |-> Nesting(v.elems[n])])
                                \o <<Mark(v.type, 0)>>
      [] v.type = "int" -> <<Mark("int", v.val)>>
      [] OTHER -> <<Mark(v.type, 0)>>

Denoted(s) == IF HasSign(s) THEN Sign(s) * Decimal(s, 2, Len(s) - 1) ELSE Decimal(s, 1, Len(s))

NestingOf(text) ==
    LET kept == SelectSeq(text, LAMBDA t : t.tag \notin {" ", "stray", "?xml", "!DOCTYPE", "plist", "/plist"})
        mark(t) == CASE t.tag \in {"array", "dict"} -> Mark("open", 0)
                     [] t.tag = "/array" -> Mark("arr", 0)
                     [] t.tag = "/dict" -> Mark("obj", 0)
                     [] t.tag \in {"true", "false"} -> Mark("bool", 0)
                     [] t.tag \in {"string", "key"} -> Mark("str", 0)
                     [] t.tag = "data" -> Mark("blob", 0)
                     [] t.tag = "integer" -> Mark("int", Denoted(t.text))
                     [] OTHER -> Mark(t.tag, 0)
    IN [n \in DOMAIN kept |-> mark(kept[n])]

RECURSIVE EntriesComplete(_)
EntriesComplete(v) ==
    v.type \in {"arr", "obj"} => /\ v.type = "obj" => Len(v.elems) % 2 = 0
                                 /\ \A n \in DOMAIN v.elems : EntriesComplete(v.elems[n])

(* Whatever is accepted, its value has the nesting, the order and the scalars *)
(* of the text: nothing dropped, nothing counted twice, every tag that was    *)
(* opened closed, no integer that does not fit; and every key of an object    *)
(* has its value.                                                             *)
ValueMatchesDocument ==
    at = "returned" /\ nson # Nil =>
        /\ Nesting(nson) = NestingOf(SubSeq(doc, 1, rv))
        /\ EntriesComplete(nson)
=============================================================================
