----------------------------- MODULE AddressMap ------------------------------
(***************************************************************************)
(* What page tables promise: a translation for some pages, which changes   *)
(* for one page at a time, by mapping it when it has none and unmapping it *)
(* when it has one.                                                        *)
(*                                                                         *)
(* The module models no code of its own; PageTables is shown to implement  *)
(* it.                                                                     *)
(***************************************************************************)
CONSTANTS Page, Target, None

VARIABLE map   \* the translation of every page, or None

Init == map = [p \in Page |-> None]

Map(p, f) == map[p] = None /\ map' = [map EXCEPT ![p] = f]

Unmap(p) == map[p] # None /\ map' = [map EXCEPT ![p] = None]

Next == \E p \in Page : Unmap(p) \/ \E f \in Target : Map(p, f)

Spec == Init /\ [][Next]_map

=============================================================================
