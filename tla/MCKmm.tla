-------------------------------- MODULE MCKmm --------------------------------
(* Small instances of Kmm for TLC. *)
EXTENDS Kmm, TLC

\* Slabs, heap pages and holders are interchangeable.
Symmetry == Permutations(Slab) \cup Permutations(HeapPage) \cup Permutations(Holder)

=============================================================================
