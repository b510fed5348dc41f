----------------------------- MODULE MCMemZones -----------------------------
(* Small instances of MemZones for TLC: two zones, one smaller than the other. *)
EXTENDS MemZones, TLC

CONSTANTS low, high   \* the zones

MCPages == low :> 5 @@ high :> 7
MCInfo == low :> 1 @@ high :> 2

\* Holders are interchangeable.
Symmetry == Permutations(Holder)

=============================================================================
