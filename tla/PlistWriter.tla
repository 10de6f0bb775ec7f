---------------------------- MODULE PlistWriter ----------------------------
(***************************************************************************)
(* nson_plist_write of src/plist.c: the tokens of a value, with the texts  *)
(* between the tags.                                                       *)
(***************************************************************************)
EXTENDS PlistParser, Serializer

RECURSIVE PlistWrite(_, _)

(* printf's "%d", and its "%f" for a real in units of 1 / Scale. *)
DigitsOf(n, width) == [j \in 1 .. width |-> Digit((n \div 10 ^ (width - j)) % 10)]
Width(n) == CHOOSE w \in 1 .. n + 1 : n < 10 ^ w /\ (w > 1 => n >= 10 ^ (w - 1))
Magnitude(n) == IF n < 0 THEN -n ELSE n
Minuses(n) == IF n < 0 THEN <<Minus>> ELSE <<>>
IntText(n) == Minuses(n) \o DigitsOf(Magnitude(n), Width(Magnitude(n)))
RealText(n) ==
    LET whole == Magnitude(n) \div Scale
    IN Minuses(n) \o DigitsOf(whole, Width(whole)) \o <<Point>>
                  \o DigitsOf(Magnitude(n) % Scale, Decimals)

Begin == <<Tag("?xml"), Tag("!DOCTYPE"), Tag("plist")>>

PlistScalar(v, options) ==
    CASE v.type = "str" -> <<Elem(IF "IS_KEY" \in options THEN "key" ELSE "string", Escape(v.text), TRUE)>>
      [] v.type = "blob" -> <<Elem("data", Encode(v.text), TRUE)>>
      [] v.type = "int" -> <<Elem("integer", IntText(v.val), TRUE)>>
      [] v.type = "real" -> <<Elem("real", RealText(v.val), TRUE)>>
      [] v.type = "bool" -> <<Tag(IF v.val THEN "true" ELSE "false")>>

PlistWriteAll(elems, options) == [n \in DOMAIN elems |-> PlistWrite(elems[n], options)]

PlistBody(v, options) ==
    LET inner == options \cup {"SKIP_HEADER"}
    IN CASE v.type = "arr" ->
                <<Tag("array")>> \o SerializeArr(PlistWriteAll(v.elems, inner), <<>>) \o <<Tag("/array")>>
         [] v.type = "obj" ->
                <<Tag("dict")>>
                    \o SerializeObj(PlistWriteAll(KeysOf(v.elems), inner \cup {"IS_KEY"}),
                                    PlistWriteAll(ValuesOf(v.elems), inner), <<>>, <<>>)
                    \o <<Tag("/dict")>>
         [] OTHER -> PlistScalar(v, options)

(* Nothing is written for nil, and the document stays without its end. *)
PlistWrite(v, options) ==
    LET header == "SKIP_HEADER" \notin options
    IN (IF header THEN Begin ELSE <<>>)
           \o IF v = Nil THEN <<>>
              ELSE PlistBody(v, options) \o IF header THEN <<Tag("/plist")>> ELSE <<>>
=============================================================================
