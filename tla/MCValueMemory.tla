--------------------------- MODULE MCValueMemory ---------------------------
EXTENDS ValueMemory, TLC

CONSTANTS MaxEntries   \* bound on the elements of all trees together

RECURSIVE Entries(_)
Entries(v) == IF IsContainer(v)
              THEN Len(v.elems) + FoldSeq(LAMBDA e, n : Entries(e) + n, 0, v.elems)
              ELSE 0

(* Trees over the bound are checked, but not changed any further.             *)
Small == MapThenSumSet(LAMBDA x : Entries(val[x]), Vars) <= MaxEntries

Symmetry == Permutations(Vars) \cup Permutations(Bufs)
=============================================================================
