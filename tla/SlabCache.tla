------------------------------ MODULE SlabCache ------------------------------
(***************************************************************************)
(* One cache of the slab allocator, kernel/kernel/mm/kmm.c.  A slab is one *)
(* page cut into Capacity buffers; it is on the list of empty, partially   *)
(* used or full slabs according to its objects in use.  The lists are      *)
(* sets: the code takes the head, the model any member.                    *)
(*                                                                         *)
(* The kernel runs one thread, but a call is not atomic: the first write   *)
(* to a new page faults, and when no frame is left the fault handler trims *)
(* every cache, this one too, before the call goes on.  So a call that     *)
(* needs a page is a Begin and an End step, with the steps of other calls  *)
(* between them.                                                           *)
(***************************************************************************)
EXTENDS Integers, FiniteSets

CONSTANTS
  Slab,           \* names of slabs: the pages they are made of
  Capacity,       \* slab_capacity, the number of buffers of a slab
  Large,          \* whether flags has KMM_CACHE_LARGE
  TrimInFree,     \* whether memory may run out while an object is being freed
  Holder,         \* the variables of the callers that hold an object
  None            \* the value of a Holder that holds nothing

Slot == 1 .. Capacity
Object == Slab \X Slot

ASSUME CapacityAssumption == Capacity \in Nat \ {0}
ASSUME FlagsAssumption == Large \in BOOLEAN /\ TrimInFree \in BOOLEAN
ASSUME NoneAssumption == None \notin Object /\ None \notin Holder

VARIABLES
  empty, partial, full,   \* slabs_empty, slabs_partial, slabs_full
  inuse,                  \* objects_inuse of a slab
  free,                   \* free_buffers of a slab
  made,                   \* the objects that the constructor has run on, and not yet the destructor
  held,                   \* held[h]: the object that h holds, or None
  grow,                   \* the holder whose kmm_cache_alloc is in get_new_slab, or None
  freeing,                \* the object whose large object_free waits for a bufctl, or None
  alive,                  \* the cache has not been destroyed
  fault                   \* a kassert has failed, or freed memory was used

lists == <<empty, partial, full>>
vars == <<empty, partial, full, inuse, free, made, held, grow, freeing, alive, fault>>

\* The slabs of the cache.
Live == empty \cup partial \cup full

\* No call on the cache is in progress.
Idle == alive /\ ~fault /\ grow = None /\ freeing = None

Init ==
  /\ empty = {} /\ partial = {} /\ full = {}
  /\ inuse = [s \in Slab |-> 0]
  /\ free = [s \in Slab |-> {}]
  /\ made = {}
  /\ held = [h \in Holder |-> None]
  /\ grow = None /\ freeing = None
  /\ alive = TRUE /\ fault = FALSE

-----------------------------------------------------------------------------
(* kmm_cache_alloc *)

\* Mutant of FromPartial: the slab becomes full one object too late.
FromPartialLate(s) ==
  /\ s \in partial
  /\ IF inuse[s] = Capacity
     THEN partial' = partial \ {s} /\ full' = full \cup {s}
     ELSE UNCHANGED <<partial, full>>
  /\ UNCHANGED empty

\* find_existing_slab, when there is a partial slab.
FromPartial(s) ==
  /\ s \in partial
  /\ IF inuse[s] + 1 = Capacity
     THEN partial' = partial \ {s} /\ full' = full \cup {s}
     ELSE UNCHANGED <<partial, full>>
  /\ UNCHANGED empty

\* Mutant of FromEmpty: the slab is not taken off the list of empty slabs.
FromEmptyKept(s) ==
  /\ partial = {} /\ s \in empty
  /\ partial' = partial \cup {s}
  /\ UNCHANGED <<empty, full>>

\* find_existing_slab, when there are only empty slabs: s "becomes partial",
\* also when it has a single buffer.
FromEmpty(s) ==
  /\ partial = {} /\ s \in empty
  /\ empty' = empty \ {s} /\ partial' = partial \cup {s}
  /\ UNCHANGED full

\* Mutant of ObjectAlloc: the buffer stays free.
ObjectAllocKept(h, s) ==
  /\ free[s] # {}
  /\ inuse' = [inuse EXCEPT ![s] = @ + 1]
  /\ \E o \in free[s] : held' = [held EXCEPT ![h] = <<s, o>>]
  /\ UNCHANGED <<free, fault>>

\* object_alloc: it asserts that the slab has a free buffer.
ObjectAlloc(h, s) ==
  /\ IF free[s] = {}
     THEN fault' = TRUE /\ UNCHANGED <<free, inuse, held>>
     ELSE \E o \in free[s] :
            /\ free' = [free EXCEPT ![s] = @ \ {o}]
            /\ inuse' = [inuse EXCEPT ![s] = @ + 1]
            /\ held' = [held EXCEPT ![h] = <<s, o>>]
            /\ UNCHANGED fault

\* kmm_cache_alloc from a slab that the cache has.
AllocExisting(h, s) ==
  /\ Idle /\ held[h] = None
  /\ FromPartial(s) \/ FromEmpty(s)
  /\ ObjectAlloc(h, s)
  /\ UNCHANGED <<made, grow, freeing, alive>>

\* find_existing_slab returns NULL and get_new_slab is called.
GrowBegin(h) ==
  /\ Idle /\ held[h] = None
  /\ partial = {} /\ empty = {}
  /\ grow' = h
  /\ UNCHANGED <<lists, inuse, free, made, held, freeing, alive, fault>>

\* get_new_slab creates slab s and object_alloc takes a buffer of it.
GrowEnd(s) ==
  /\ grow # None /\ ~fault
  /\ s \notin Live
  /\ IF Capacity = 1
     THEN full' = full \cup {s} /\ UNCHANGED partial
     ELSE partial' = partial \cup {s} /\ UNCHANGED full
  /\ made' = made \cup {<<s, o>> : o \in Slot}
  /\ \E o \in Slot :
       /\ free' = [free EXCEPT ![s] = Slot \ {o}]
       /\ held' = [held EXCEPT ![grow] = <<s, o>>]
  /\ inuse' = [inuse EXCEPT ![s] = 1]
  /\ grow' = None
  /\ UNCHANGED <<empty, freeing, alive, fault>>

\* page_alloc has no page: kmm_cache_alloc returns NULL.
GrowFail ==
  /\ grow # None /\ ~fault
  /\ grow' = None
  /\ UNCHANGED <<lists, inuse, free, made, held, freeing, alive, fault>>

-----------------------------------------------------------------------------
(* kmm_cache_free *)

\* Mutant of Relist: the last object in use is recognised one object too late.
RelistLate(s) ==
  LET wasFull == inuse[s] = Capacity
      becomesEmpty == inuse[s] = 0
  IN  /\ full' = IF wasFull THEN full \ {s} ELSE full
      /\ partial' = IF becomesEmpty THEN partial \ {s}
                    ELSE IF wasFull THEN partial \cup {s} ELSE partial
      /\ empty' = IF becomesEmpty THEN empty \cup {s} ELSE empty
      /\ fault' = (wasFull /\ s \notin full)

\* The move of slab s between the lists, before the object is freed.
Relist(s) ==
  LET wasFull == inuse[s] = Capacity
      becomesEmpty == inuse[s] = 1
  IN  /\ full' = IF wasFull THEN full \ {s} ELSE full
      /\ partial' = IF ~wasFull /\ becomesEmpty THEN partial \ {s}
                    ELSE IF wasFull /\ ~becomesEmpty THEN partial \cup {s} ELSE partial
      /\ empty' = IF becomesEmpty THEN empty \cup {s} ELSE empty
      \* slist_remove asserts that the slab is on the list.
      /\ fault' = \/ wasFull /\ s \notin full
                  \/ ~wasFull /\ becomesEmpty /\ s \notin partial

\* kmm_cache_free.  The free buffer of a large object needs a bufctl from another
\* cache before it is on the free list, see FreeEnd.  It may also be called while this
\* cache grows, when it is one of the two small caches that bufctls and slabs come
\* from: a trim of a large cache gives them back.
Free(h) ==
  /\ alive /\ ~fault /\ freeing = None /\ held[h] # None
  /\ grow # None => ~Large
  /\ LET s == held[h][1]
         o == held[h][2]
     IN  /\ Relist(s)
         /\ inuse' = [inuse EXCEPT ![s] = @ - 1]
         /\ free' = IF Large THEN free ELSE [free EXCEPT ![s] = @ \cup {o}]
  /\ freeing' = IF Large THEN held[h] ELSE None
  /\ held' = [held EXCEPT ![h] = None]
  /\ UNCHANGED <<made, grow, alive>>

\* Mutant of FreeEnd: the buffer is not put on the free list.
FreeEndLost ==
  /\ freeing # None /\ ~fault
  /\ fault' = (freeing[1] \notin Live)
  /\ freeing' = None
  /\ UNCHANGED <<lists, inuse, free, made, held, grow, alive>>

\* object_free of a large object has its bufctl: slist_insert writes to the slab.
FreeEnd ==
  /\ freeing # None /\ ~fault
  /\ free' = [free EXCEPT ![freeing[1]] = @ \cup {freeing[2]}]
  /\ fault' = (freeing[1] \notin Live)
  /\ freeing' = None
  /\ UNCHANGED <<lists, inuse, made, held, grow, alive>>

-----------------------------------------------------------------------------
(* kmm_cache_trim and kmm_cache_destroy *)

\* Mutant of SlabDestroy: the destructor does not run.
SlabDestroyQuietly(S) ==
  /\ empty' = empty \ S /\ full' = full \ S /\ partial' = partial \ S
  /\ free' = [s \in Slab |-> IF s \in S THEN {} ELSE free[s]]
  /\ inuse' = [s \in Slab |-> IF s \in S THEN 0 ELSE inuse[s]]
  /\ UNCHANGED <<made, fault>>

\* slab_destroy on the slabs of S: the destructor runs on the free buffers, each slab
\* leaves the list its counter names, and its page is given back.
SlabDestroy(S) ==
  /\ made' = {x \in made : ~(x[1] \in S /\ x[2] \in free[x[1]])}
  /\ empty' = empty \ {s \in S : inuse[s] = 0}
  /\ full' = full \ {s \in S : inuse[s] = Capacity}
  /\ partial' = partial \ {s \in S : inuse[s] \notin {0, Capacity}}
  /\ fault' = \E s \in S : \/ inuse[s] = 0 /\ s \notin empty
                           \/ inuse[s] = Capacity /\ s \notin full
                           \/ inuse[s] \notin {0, Capacity} /\ s \notin partial
  /\ free' = [s \in Slab |-> IF s \in S THEN {} ELSE free[s]]
  /\ inuse' = [s \in Slab |-> IF s \in S THEN 0 ELSE inuse[s]]

\* One round of free_slabs_list in kmm_cache_trim, called by the owner of the cache or
\* by the page fault of a call that is in progress.
Trim(s) ==
  /\ alive /\ ~fault
  /\ freeing # None => TrimInFree
  /\ s \in empty
  /\ SlabDestroy({s})
  /\ UNCHANGED <<held, grow, freeing, alive>>

\* kmm_cache_destroy, also when there are objects in use.
Destroy ==
  /\ Idle
  /\ SlabDestroy(Live)
  /\ alive' = FALSE
  /\ UNCHANGED <<held, grow, freeing>>

Next ==
  \/ \E h \in Holder : GrowBegin(h) \/ Free(h) \/ \E s \in Slab : AllocExisting(h, s)
  \/ \E s \in Slab : GrowEnd(s) \/ Trim(s)
  \/ GrowFail \/ FreeEnd \/ Destroy

Spec == Init /\ [][Next]_vars

-----------------------------------------------------------------------------
(* Properties *)

\* The variables have the types of the fields of struct kmm_cache and struct kmm_slab.
TypeOK ==
  /\ empty \subseteq Slab /\ partial \subseteq Slab /\ full \subseteq Slab
  /\ inuse \in [Slab -> 0 .. Capacity]
  /\ free \in [Slab -> SUBSET Slot]
  /\ made \subseteq Object
  /\ held \in [Holder -> Object \cup {None}]
  /\ grow \in Holder \cup {None}
  /\ freeing \in Object \cup {None}
  /\ alive \in BOOLEAN /\ fault \in BOOLEAN

\* A slab is on one list, and it is the one its counter of objects in use names.
ListsMatchUse ==
  /\ \A s \in empty : inuse[s] = 0
  /\ \A s \in partial : inuse[s] \in 1 .. Capacity - 1
  /\ \A s \in full : inuse[s] = Capacity

\* Nobody holds buffer o of slab s, and nobody is just giving it back.
Unclaimed(s, o) ==
  /\ \A h \in Holder : held[h] # <<s, o>>
  /\ freeing # <<s, o>>

\* The number of buffers of s that are between their holder and the free list.
Pending(s) == IF freeing # None /\ freeing[1] = s THEN 1 ELSE 0

\* A buffer of a slab is on the free list exactly when it is unclaimed, and
\* objects_inuse counts the others.
SlabAccounted(s) ==
  /\ \A o \in Slot : o \in free[s] <=> Unclaimed(s, o)
  /\ Cardinality(free[s]) + inuse[s] + Pending(s) = Capacity

\* That holds of every slab: no buffer is lost by any order of calls, so that
\* object_alloc finds a free buffer whenever the counter says there is one.
BuffersAccountedFor == \A s \in Live : SlabAccounted(s)

\* No object is handed to two callers.
NoDoubleAllocation ==
  \A g, h \in Holder : g # h /\ held[g] # None => held[g] # held[h]

\* As long as the cache exists, an object that a caller holds is on a slab of
\* it: a trim by a page fault in the middle of any call never takes it away.
HeldObjectsStay ==
  alive => \A h \in Holder : held[h] # None => held[h][1] \in Live

\* No kassert of kmm.c or slist.c fails and no slab is used after it was freed.
NoFault == ~fault

\* The constructor has run on every buffer that the cache has, and the destructor on
\* every buffer that it has given up.
ConstructedExactly ==
  alive => made = {<<s, o>> : s \in Live, o \in Slot}

\* The cache implements Allocator.
Abs == INSTANCE Allocator WITH Unit <- Object, own <- held
ImplementsAllocator == Abs!Spec

=============================================================================
