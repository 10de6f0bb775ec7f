---------------------------- MODULE JsonGrammar ----------------------------
(***************************************************************************)
(* JSON as sequences of tokens: how a value is written.  A reference for   *)
(* module JsonParser, written from the grammar and not from the parser.    *)
(***************************************************************************)
EXTENDS Integers, SequencesExt

RECURSIVE Render(_)

Separated(parts, token) ==
    FoldLeft(LAMBDA text, part : IF text = <<>> THEN part ELSE text \o <<token>> \o part, <<>>, parts)

Pairs(elems) == [n \in 1 .. Len(elems) \div 2 |->
                   Render(elems[2 * n - 1]) \o <<":">> \o Render(elems[2 * n])]

(* The text of a value, without white space. *)
Render(v) ==
    CASE v.type = "arr" -> <<"[">> \o Separated([n \in DOMAIN v.elems |-> Render(v.elems[n])], ",") \o <<"]">>
      [] v.type = "obj" -> <<"{">> \o Separated(Pairs(v.elems), ",") \o <<"}">>
      [] OTHER -> <<v.type>>

WithoutSpace(text) == SelectSeq(text, LAMBDA token : token # " ")
=============================================================================
