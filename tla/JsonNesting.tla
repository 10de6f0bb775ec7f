----------------------------- MODULE JsonNesting ----------------------------
(***************************************************************************)
(* A value and a text seen alike, as brackets and scalars in a row: the    *)
(* reference that the values nson_parse_json makes are held against.       *)
(***************************************************************************)
EXTENDS JsonParser, SequencesExt

(* The closing bracket tells arrays from objects.                             *)
ItemUnfolded(v) ==
    CASE v.type = "arr" -> <<Scalar("open")>> \o v.elems \o <<Scalar("]")>>
      [] v.type = "obj" -> <<Scalar("open")>> \o v.elems \o <<Scalar("}")>>
      [] OTHER -> <<v>>

(* Every container is replaced by its brackets and what is between them.      *)
Unfolded(items) == FlattenSeq([n \in DOMAIN items |-> ItemUnfolded(items[n])])

(* A value unfolded so many times: if it is no deeper, nothing but brackets   *)
(* and scalars is left.                                                       *)
Nesting(v, depth) ==
    LET level[n \in Nat] == IF n = 0 THEN <<v>> ELSE Unfolded(level[n - 1])
    IN level[depth]

ItemsOf(token) ==
    CASE token \in {",", ":", " "} -> <<>>
      [] token \in {"[", "{"} -> <<Scalar("open")>>
      [] token = "null" -> <<Scalar("str")>>
      [] OTHER -> <<Scalar(token)>>

NestingOf(text) == FlattenSeq([n \in DOMAIN text |-> ItemsOf(text[n])])

(* Whatever is accepted, the value has exactly the nesting, the order and the *)
(* scalars of the text that was consumed: nothing is dropped, nothing counted *)
(* twice, and every bracket that was opened is closed.  (A value is no deeper *)
(* than its text is long.)                                                    *)
ValueMatchesText ==
    at = "returned" /\ rv >= 0 /\ (\A j \in 1 .. rv : doc[j] # "cut") =>
        Nesting(nson, rv) = NestingOf(SubSeq(doc, 1, rv))
=============================================================================
