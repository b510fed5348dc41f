------------------------------ MODULE Allocator ------------------------------
(***************************************************************************)
(* What every allocator of the kernel promises to its callers: a unit (a   *)
(* page frame, a page of the heap, a slab object) is handed to at most one *)
(* holder at a time, and only its holder gives it back.  A holder stands   *)
(* for one pointer variable of some caller, so it holds at most one unit.  *)
(*                                                                         *)
(* The module models no code of its own; Buddy and SlabCache are shown to  *)
(* implement it.                                                           *)
(***************************************************************************)
CONSTANTS
  Holder,   \* the pointers of the callers
  Unit,     \* what is handed out
  None      \* the value of a pointer that holds nothing

VARIABLE own   \* own[h]: the unit that h holds, or None

Init == own = [h \in Holder |-> None]

Acquire(h, u) ==
  /\ own[h] = None
  /\ \A g \in Holder : own[g] # u
  /\ own' = [own EXCEPT ![h] = u]

Release(h) ==
  /\ own[h] # None
  /\ own' = [own EXCEPT ![h] = None]

Next == \E h \in Holder : Release(h) \/ \E u \in Unit : Acquire(h, u)

Spec == Init /\ [][Next]_own

=============================================================================
