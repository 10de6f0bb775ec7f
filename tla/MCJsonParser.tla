---------------------------- MODULE MCJsonParser ----------------------------
(* nson_parse_json against the grammar of JSON. *)
EXTENDS JsonNesting, JsonGrammar, JsonWriter

CONSTANT ShortLen   \* length of the arbitrary token sequences

Sequences(S, n) == UNION {[1 .. m -> S] : m \in 0 .. n}

(* Every token sequence up to a length, well-formed or not. *)
ShortDocs == {d \in Sequences({"str", "num", "null", "[", "]", "{", "}", ",", " ", "cut", "bad"}, ShortLen) :
                \A j \in DOMAIN d : d[j] = "cut" => j = Len(d)}

(* Every value of two levels with up to two elements or pairs on each. *)
Level0 == {Scalar("str"), Scalar("num")}
Above(V) == V \cup {Arr(s) : s \in Sequences(V, 2)}
              \cup {Obj(<<>>)} \cup {Obj(<<Scalar("str"), v>>) : v \in V}
              \cup {Obj(<<Scalar("str"), v, Scalar("str"), w>>) : v, w \in V}
SmallValues == Above(Above(Level0))

(* Their texts, those with white space behind the first token, and those with *)
(* any one token missing.                                                     *)
Texts == {Render(v) : v \in SmallValues}
ValidDocs == Texts \cup {<<Head(d), " ">> \o Tail(d) : d \in Texts}
                   \cup UNION {{RemoveAt(d, j) : j \in DOMAIN d} : d \in Texts}

AllDocs == UNION {ShortDocs, ValidDocs}

(* Well-formed JSON is read to its value and to its end: a text of a value    *)
(* gives that value back, wherever there is white space, and the position     *)
(* behind it.                                                                 *)
ReadsJson ==
    at = "returned" /\ WithoutSpace(doc) \in Texts =>
        /\ rv >= 0 /\ WithoutSpace(SubSeq(doc, 1, rv)) = WithoutSpace(doc)
        /\ Render(nson) = WithoutSpace(doc)

(* Whatever is accepted, however carelessly its commas and colons are set, is *)
(* written as JSON with exactly those the grammar asks for.                   *)
WritesJson == at = "returned" /\ rv >= 0 => JsonWrite(nson) = Render(nson)
=============================================================================
