----------------------------- MODULE JsonWriter -----------------------------
(***************************************************************************)
(* nson_json_write of src/json.c: the tokens of a value.  What becomes of  *)
(* the characters of a string is module JsonString's subject.              *)
(***************************************************************************)
EXTENDS Serializer

RECURSIVE JsonWrite(_)

(* A blob is written as a string, its base64 between quotes. *)
JsonScalar(v) == CASE v.type = "nil" -> "null"
                   [] v.type = "blob" -> "str"
                   [] OTHER -> v.type

JsonWriteAll(elems) == [n \in DOMAIN elems |-> JsonWrite(elems[n])]

JsonWrite(v) ==
    CASE v.type = "arr" ->
             <<"[">> \o SerializeArr(JsonWriteAll(v.elems), <<",">>) \o <<"]">>
      [] v.type = "obj" ->
             <<"{">> \o SerializeObj(JsonWriteAll(KeysOf(v.elems)), JsonWriteAll(ValuesOf(v.elems)),
                                     <<":">>, <<",">>)
                     \o <<"}">>
      [] OTHER -> <<JsonScalar(v)>>
=============================================================================
