--------------------------------- MODULE KMalloc -------------------------------
(***************************************************************************)
(* kmalloc, kernel/kernel/mm/kmalloc.c: a cache for each power of two, and *)
(* in front of every piece of memory a byte that says which cache it is    *)
(* of.  A cache is modelled by what SlabCache shows of it: it yields an    *)
(* object that overlaps no other, or none.                                 *)
(***************************************************************************)
EXTENDS Naturals, FiniteSets

CONSTANTS
  LowPow, MaxPow,  \* LOW_POW, MAX_POW
  Align,           \* alignof(max_align_t)
  Bytes,           \* the memory of the caches is 0 .. Bytes - 1
  Requests,        \* the sizes asked for
  None             \* what a byte holds that no call of kmalloc has written

VARIABLES
  objects,  \* the objects in use: <<base, index of the cache, the size asked for>>
  memory,   \* what each byte holds: an index, or None after its user has written it
  fault     \* what has stopped the kernel

Info == 1   \* sizeof(struct kmalloc_ident_info)
Powers == MaxPow - LowPow + 1
RoundUp(n) == ((n + Align - 1) \div Align) * Align

\* kmalloc_init: the size of an object of each cache.
ObjectSize(i) == RoundUp(Info) + 2 ^ (i + LowPow)

Init == objects = {} /\ memory = [b \in 0 .. Bytes - 1 |-> None]

\* Mutant of CacheIndex: log2_floor.
CacheIndexFloor(size) ==
  {i \in 0 .. Powers - 1 : /\ 2 ^ (i + LowPow + 1) > size + Info
                           /\ \A j \in 0 .. i - 1 : 2 ^ (j + LowPow + 1) <= size + Info}

\* cache_index: log2_ceil(req_space), at least LOW_POW, less LOW_POW; none when it is not below POWERS.
CacheIndex(size) ==
  {i \in 0 .. Powers - 1 : /\ 2 ^ (i + LowPow) >= size + Info
                           /\ \A j \in 0 .. i - 1 : 2 ^ (j + LowPow) < size + Info}

Extent(b, i) == b .. b + ObjectSize(i) - 1

\* What kmm_cache_alloc(KMALLOC_CACHES[i]) may yield: NULL is always possible.
Places(i) ==
  {b \in 0 .. Bytes - ObjectSize(i) :
     b % Align = 0 /\ \A o \in objects : Extent(o[1], o[2]) \cap Extent(b, i) = {}}

\* kmalloc.  The result of kmm_cache_alloc is written to without a look at it.
Alloc(size) ==
  \E i \in CacheIndex(size) :
    \/ \E b \in Places(i) :
         /\ objects' = objects \cup {<<b, i, size>>}
         /\ memory' = [memory EXCEPT ![b] = i]
         /\ UNCHANGED fault
    \/ fault' = "header at NULL" /\ UNCHANGED <<objects, memory>>

\* The address that kmalloc returns for an object, and the object that kfree finds behind it.
Given(o) == RoundUp(o[1] + Info)
HeaderOf(mem) == ((mem - 1) \div Align) * Align

\* kfree hands its argument to the cache that the header names; None fails the kassert.
Free(mem) ==
  LET info == HeaderOf(mem)
      o == CHOOSE o \in objects : o[1] = info
  IN  IF memory[info] = o[2] THEN objects' = objects \ {o} /\ UNCHANGED <<memory, fault>>
      ELSE fault' = "object of another cache" /\ UNCHANGED <<objects, memory>>

\* Outside of the kernel's allocators: a user fills its memory.
Fill(o) ==
  /\ memory' = [b \in DOMAIN memory |-> IF b \in Given(o) .. Given(o) + o[3] - 1 THEN None ELSE memory[b]]
  /\ UNCHANGED <<objects, fault>>

Next ==
  /\ fault = "none"
  /\ \/ \E size \in Requests : Alloc(size)
     \/ \E o \in objects : Free(Given(o)) \/ Fill(o)

\* The addresses that users hold; a request for no bytes yields none.
Held == {Given(o) .. Given(o) + o[3] - 1 : o \in objects} \ {{}}

================================================================================
