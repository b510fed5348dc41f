---------------------------- MODULE MCPageTables -----------------------------
(* Instances of PageTables for TLC. *)
EXTENDS PageTables, TLC

CONSTANTS d1, d2, e1, e2

\* One lazy page in each table; the other pages are mapped for devices.
MCLazy == {<<d1, e1>>, <<d2, e1>>}

Symmetry == Permutations(Frame) \cup Permutations(Target)

=============================================================================
