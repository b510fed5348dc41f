------------------------------- MODULE MCKHeap -------------------------------
(* Small instances of KHeap for TLC. *)
EXTENDS KHeap, TLC

\* Callers are interchangeable.
Symmetry == Permutations(Caller)

=============================================================================
