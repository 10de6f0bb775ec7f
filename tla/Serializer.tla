----------------------------- MODULE Serializer -----------------------------
(***************************************************************************)
(* __nson_arr_serialize of src/array.c and __nson_obj_serialize of         *)
(* src/object.c, which the writers of JSON and of property lists share:    *)
(* the texts of the elements, as the writer makes them, one behind the     *)
(* other.                                                                  *)
(***************************************************************************)
EXTENDS Naturals, SequencesExt

ConcatenatedTrailing(texts, separator) ==
    FlattenSeq([n \in DOMAIN texts |-> texts[n] \o separator])

(* A separator stands behind every element but the last. *)
Concatenated(texts, separator) ==
    FlattenSeq([n \in DOMAIN texts |-> IF n # Len(texts) THEN texts[n] \o separator ELSE texts[n]])

SerializeArr(texts, separator) == Concatenated(texts, separator)

SerializeObj(keys, values, key_value_separator, separator) ==
    Concatenated([n \in DOMAIN keys |-> keys[n] \o key_value_separator \o values[n]], separator)

(* The keys and the values of an object whose entries are in elems in turn. *)
KeysOf(elems) == [n \in 1 .. Len(elems) \div 2 |-> elems[2 * n - 1]]
ValuesOf(elems) == [n \in 1 .. Len(elems) \div 2 |-> elems[2 * n]]
=============================================================================
