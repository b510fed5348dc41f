------------------------------- MODULE Regions -------------------------------
(***************************************************************************)
(* What the management of an address space promises: its regions are       *)
(* disjoint, and one call adds or removes a single region and leaves the   *)
(* others as they are.  A region is the set of its addresses.              *)
(*                                                                         *)
(* The module models no code of its own; VmSpace is shown to implement it, *)
(* and device memory (KDev in Startup) as long as its list is sound.       *)
(***************************************************************************)
CONSTANT Address

VARIABLE regions   \* the regions in use

Init == regions = {}

Add ==
  \E r \in regions' :
    /\ r # {} /\ r \subseteq Address
    /\ \A s \in regions : s \cap r = {}
    /\ regions' = regions \cup {r}

Remove == \E r \in regions : regions' = regions \ {r}

Next == Add \/ Remove

Spec == Init /\ [][Next]_regions

=============================================================================
