------------------------------ MODULE MCVmSpace ------------------------------
(* Instances of VmSpace for TLC: 16 pages of two addresses. *)
EXTENDS VmSpace, TLC

MCSegments == {<<12, 2>>}
MCZones == {<<18, 6, 2>>}
MCRequests == {<<2, 2>>, <<4, 8>>, <<8, 8>>}
Symmetry == Permutations(Area)

=============================================================================
