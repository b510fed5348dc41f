----------------------------- MODULE MCSlabCache -----------------------------
(* Small instances of SlabCache for TLC. *)
EXTENDS SlabCache, TLC

\* Slabs are interchangeable.
Symmetry == Permutations(Slab)

=============================================================================
