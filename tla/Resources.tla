------------------------------- MODULE Resources -------------------------------
(***************************************************************************)
(* The register of platform resources, kernel/kernel/resources.c: memory   *)
(* regions and device buffers that the platform registers and that the     *)
(* kernel or a module claims by name or by type.  A resource is its place  *)
(* in RESOURCES_STORAGE; there is no way to give one back.                 *)
(*                                                                         *)
(* Startup composes this module with its users.                            *)
(***************************************************************************)
EXTENDS Naturals, Sequences, SequencesExt

CONSTANTS
  MaxResources,  \* MAX_RESOURCES
  None           \* RES_OWNER_NONE

VARIABLES
  storage,  \* RESOURCES_STORAGE up to RESOURCES_NEXT_FREE_NDX
  free,     \* free_head, the resources nobody has claimed
  claimed,  \* claimed_head
  fault     \* the assertion that has stopped the kernel

Resource == 1 .. Len(storage)

Init == storage = <<>> /\ free = <<>> /\ claimed = <<>>

\* resources_register: the new resource becomes the head of the free ones.
Register(name, type, base, len) ==
  IF Len(storage) = MaxResources
  THEN /\ fault' = "resources_get_new"
       /\ UNCHANGED <<storage, free, claimed>>
  ELSE /\ storage' = Append(storage, [name |-> name, type |-> type, owner |-> None,
                                      base |-> base, len |-> len])
       /\ free' = <<Len(storage) + 1>> \o free
       /\ UNCHANGED <<claimed, fault>>

\* What the two searches compare.
Named(name) == {r \in Resource : storage[r].name = name}
Typed(type) == {r \in Resource : storage[r].type = type}

\* The search found none of the wanted resources, and NULL is returned.
NotFound(wanted) == wanted \cap ToSet(free) = {}

\* The assertion of a claim that succeeds.
ClaimFault(r) == IF storage[r].owner # None THEN "owner" ELSE "none"

\* Mutant of Claim: the resource stays on the list of the free ones.
ClaimKept(wanted, owner, r) ==
  \E i \in DOMAIN free :
    /\ r = free[i] /\ r \in wanted
    /\ \A j \in 1 .. i - 1 : free[j] \notin wanted
    /\ claimed' = <<r>> \o claimed
    /\ storage' = [storage EXCEPT ![r].owner = owner]
    /\ UNCHANGED free

\* claim_by_id and claim_by_type: r is the first free resource among the wanted ones.
Claim(wanted, owner, r) ==
  \E i \in DOMAIN free :
    /\ r = free[i] /\ r \in wanted
    /\ \A j \in 1 .. i - 1 : free[j] \notin wanted
    /\ free' = RemoveAt(free, i)
    /\ claimed' = <<r>> \o claimed
    /\ storage' = [storage EXCEPT ![r].owner = owner]

================================================================================
