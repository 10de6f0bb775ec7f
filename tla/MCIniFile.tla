----------------------------- MODULE MCIniFile -----------------------------
(* nson_load_ini on every small file, against the lines of that file. *)
EXTENDS IniLines

CONSTANT FileLen   \* length of the files

AllFiles == UNION {[1 .. n -> Chars] : n \in 0 .. FileLen}
=============================================================================
