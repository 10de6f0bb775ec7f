----------------------------- MODULE Characters -----------------------------
(***************************************************************************)
(* What the readers and writers of JSON and property lists share: bytes,   *)
(* and __nson_to_utf8 of src/util.c.                                       *)
(***************************************************************************)
EXTENDS Integers, Sequences

Bytes == 0 .. 255

IsControl(b) == b < 32 \/ b = 127

(* The hexadecimal digit printf makes of n, and the decimal one if n < 10. *)
Digit(n) == IF n < 10 THEN 48 + n ELSE 87 + n

(* __nson_to_utf8 with room for three bytes.  It takes an unsigned number: a  *)
(* negative one is a large one.                                               *)
Utf8Two(v) == <<192 + (v \div 64), 128 + (v % 64)>>
Utf8Three(v) == <<224 + ((v \div 4096) % 16), 128 + ((v \div 64) % 64), 128 + (v % 64)>>

Utf8WrongLimit(v) == IF 0 <= v /\ v < 128 THEN <<v>>
                     ELSE IF 0 <= v /\ v < 32768 THEN Utf8Two(v) ELSE Utf8Three(v)

Utf8(v) == IF 0 <= v /\ v < 128 THEN <<v>>
           ELSE IF 0 <= v /\ v < 2048 THEN Utf8Two(v) ELSE Utf8Three(v)
=============================================================================
