---------------------------- MODULE ParallelMap ----------------------------
(***************************************************************************)
(* What a caller of nson_map and nson_map_thread (src/map_reduce.c) is     *)
(* entitled to: the mapper is called on the elements of an array, on each  *)
(* at most once and never by two callers at a time, and the call returns   *)
(* only when no mapper is running any more and either every element was    *)
(* mapped or a mapper failed.  Nothing is said of the order, nor of the    *)
(* number of workers: MapThread refines this specification.                *)
(***************************************************************************)

CONSTANT Elements   \* the universe array indices are drawn from

VARIABLES todo,      \* elements no mapper call was started on
          busy,      \* elements a mapper call is running on
          mapped,    \* elements whose mapper call ended
          failed,    \* did any of those calls report an error?
          returned   \* has control gone back to the caller?

vars == <<todo, busy, mapped, failed, returned>>

Init == /\ todo \in SUBSET Elements
        /\ busy = {}
        /\ mapped = {}
        /\ failed = FALSE
        /\ returned = FALSE

(* A mapper call starts on an element nobody has touched. *)
Start(e) == /\ ~returned
            /\ e \in todo
            /\ todo' = todo \ {e}
            /\ busy' = busy \cup {e}
            /\ UNCHANGED <<mapped, failed, returned>>

(* A mapper call ends, with an error or without. *)
Finish(e) == /\ e \in busy
             /\ busy' = busy \ {e}
             /\ mapped' = mapped \cup {e}
             /\ failed' \in {failed, TRUE}
             /\ UNCHANGED <<todo, returned>>

Return == /\ ~returned
          /\ busy = {}
          /\ todo = {} \/ failed
          /\ returned' = TRUE
          /\ UNCHANGED <<todo, busy, mapped, failed>>

Next == Return \/ \E e \in Elements : Start(e) \/ Finish(e)

Spec == Init /\ [][Next]_vars

(* The call also comes to an end. *)
FairSpec == Spec /\ WF_vars(Next)
=============================================================================
