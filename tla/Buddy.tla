-------------------------------- MODULE Buddy --------------------------------
(***************************************************************************)
(* The buddy allocator, kernel/lib/mm/buddy.c, over the bitmaps of         *)
(* kernel/lib/ds/bitmap.c.  Level l keeps one bit for each block of 2^l    *)
(* pages; a level is modelled by the set of its bits that are true.        *)
(* Every bitmap access checks its index (assert_bounds, a kassert); a      *)
(* failed check stops the kernel, and is recorded in fault.                *)
(***************************************************************************)
EXTENDS Integers, FiniteSets

CONSTANTS  \* see PagesAreRight in Library
  Pages,    \* number of pages that buddy_init is given
  Orders,   \* the orders that callers ask for; the kernel only uses 0
  Holder,   \* the variables of the callers that hold an allocation
  None      \* the value of a Holder that holds nothing

VARIABLES
  bits,     \* bits[l]: the indices of level l whose bit is true
  held,     \* held[h]: the <<order, index>> of the block that h holds, or None
  ret,      \* how the last call ended
  fault     \* the check or memory access that has stopped the kernel

vars == <<bits, held, ret, fault>>

-----------------------------------------------------------------------------
(* Geometry: levels, and the blocks of a level. *)

\* bit >> i
Shr(bit, i) == bit \div 2^i

\* get_max_index + 1: the length of the bitmap of a level
Length(lvl) == Shr(Pages, lvl)

\* 0 .. lvls - 1, where lvls = log2_floor(pages) + 1
Level == {l \in 0 .. Pages : Length(l) > 0}

Index(lvl) == 0 .. Length(lvl) - 1

\* The pages that a block consists of.
PagesOf(blk) == {p \in Index(0) : Shr(p, blk[1]) = blk[2]}

-----------------------------------------------------------------------------
(* Bitmap helpers and the marking of blocks. *)

\* bitmap_search_false: it finds bit n.  (The words after the bitmap's length
\* are false for ever, so the first word with a false bit is the right one.)
SearchFalse(lvl, n) ==
  /\ n \in Index(lvl) \ bits[lvl]
  /\ \A m \in Index(lvl) \ bits[lvl] : n <= m

\* occupy_buddys_descendants: the blocks of level j below block bit of level lvl.
Descendants(lvl, bit, j) == {c \in Index(j) : j < lvl /\ Shr(c, lvl - j) = bit}

\* occupy_buddy: the loop over the levels shifts by the level itself, whatever
\* the level of the block.
OccupyBuddy(lvl, bit) ==
  bits' = [i \in Level |->
             bits[i] \cup Descendants(lvl, bit, i)
                     \cup ({Shr(bit, i)} \cap Index(i))]

\* Mutants of ClearBlock: the block stays marked; the pair of blocks is cleared.
ClearDescendants(lvl, bit) == [i \in Level |-> bits[i] \ Descendants(lvl, bit, i)]
ClearPair(lvl, bit) ==
  [i \in Level |-> IF i = lvl THEN {b \in bits[i] : b \div 2 # bit \div 2} ELSE bits[i]]

\* bitmap_set_false on the block, then free_buddys_children.
ClearBlock(lvl, bit) ==
  [i \in Level |->
     bits[i] \ (Descendants(lvl, bit, i) \cup (IF i = lvl THEN {bit} ELSE {}))]

\* Mutant of RightChild: the block after the pair.
AfterPair(bit) == 2 * (bit \div 2) + 2

\* The two blocks of a level that share the parent of block bit.
LeftChild(bit) == 2 * (bit \div 2)
RightChild(bit) == 2 * (bit \div 2) + 1

\* Mutant of FreeAncestors: the parent becomes free with the first child.
FreeAncestorsEarly(bs, lvl, bit) ==
  [i \in Level |-> IF i = lvl + 1 THEN bs[i] \ {bit \div 2} ELSE bs[i]]

\* free_buddys_ancestors on the bitmaps bs.  The parent's bit is cleared when the
\* bits of both children are true, which buddy_free has just made impossible: it
\* clears the bit of one of them first.  So there is at most one round of the loop.
FreeAncestors(bs, lvl, bit) ==
  IF {LeftChild(bit), RightChild(bit)} \subseteq bs[lvl]
  THEN [i \in Level |-> IF i = lvl + 1 THEN bs[i] \ {bit \div 2} ELSE bs[i]]
  ELSE bs

-----------------------------------------------------------------------------
(* The interface of the allocator. *)

\* buddy_init
Init ==
  /\ bits = [l \in Level |-> {}]
  /\ held = [h \in Holder |-> None]
  /\ ret = "ok"
  /\ fault = "none"

\* buddy_alloc when a block of the order is found
Alloc(h, order) ==
  /\ fault = "none" /\ held[h] = None
  /\ order \in Level
  /\ \E n \in Index(order) :
       /\ SearchFalse(order, n)
       /\ OccupyBuddy(order, n)
       /\ held' = [held EXCEPT ![h] = <<order, n>>]
  /\ ret' = "ok"
  /\ UNCHANGED fault

\* buddy_alloc when the bitmap of the order has no false bit
AllocFull(h, order) ==
  /\ fault = "none" /\ held[h] = None
  /\ order \in Level
  /\ Index(order) \subseteq bits[order]
  /\ ret' = "full"
  /\ UNCHANGED <<bits, held, fault>>

\* buddy_alloc for an order above the top level.  Only order > lvls is refused:
\* order = lvls reads the element after the last of lvl_bitmaps.
AllocTooLarge(h, order) ==
  /\ fault = "none" /\ held[h] = None
  /\ order \notin Level
  /\ ret' = "refused"
  /\ fault' = IF order - 1 \in Level THEN "read past lvl_bitmaps" ELSE "none"
  /\ UNCHANGED <<bits, held>>

\* buddy_try_alloc
TryAlloc(h, order, n) ==
  /\ fault = "none" /\ held[h] = None
  /\ order \in Level /\ n \in Index(order)
  /\ IF n \in bits[order]
     THEN ret' = "taken" /\ UNCHANGED <<bits, held>>
     ELSE /\ OccupyBuddy(order, n)
          /\ held' = [held EXCEPT ![h] = <<order, n>>]
          /\ ret' = "ok"
  /\ UNCHANGED fault

\* buddy_free.  free_buddys_ancestors reads both bits of the pair: assert_bounds
\* fails when the second one is past the end of the bitmap.
Free(h) ==
  /\ fault = "none" /\ held[h] # None
  /\ LET lvl == held[h][1]
         bit == held[h][2]
     IN  /\ bits' = FreeAncestors(ClearBlock(lvl, bit), lvl, bit)
         /\ fault' = IF RightChild(bit) \in Index(lvl) THEN "none" ELSE "assert_bounds"
  /\ held' = [held EXCEPT ![h] = None]
  /\ ret' = "ok"

Next ==
  \E h \in Holder :
    \/ \E o \in Orders : Alloc(h, o) \/ AllocFull(h, o) \/ AllocTooLarge(h, o)
    \/ \E o \in Orders : \E n \in Index(o) : TryAlloc(h, o, n)
    \/ Free(h)

Spec == Init /\ [][Next]_vars

-----------------------------------------------------------------------------
(* Properties *)

\* Every bitmap holds indices below its length, and a holder holds a block of a
\* level that exists.
TypeOK ==
  /\ bits \in [Level -> SUBSET Nat]
  /\ \A l \in Level : bits[l] \subseteq Index(l)
  /\ held \in [Holder -> {None} \cup (Orders \X Index(0))]
  /\ ret \in {"ok", "full", "refused", "taken"}
  /\ fault \in {"none", "assert_bounds", "read past lvl_bitmaps"}

\* No page belongs to two outstanding allocations: what buddy_alloc and
\* buddy_try_alloc hand out is not in use.
NoDoubleAllocation ==
  \A g, h \in Holder :
    g # h /\ held[g] # None /\ held[h] # None
      => PagesOf(held[g]) \cap PagesOf(held[h]) = {}

\* The allocator never touches memory outside of its bitmaps.
NoFault == fault = "none"

\* buddy_alloc of one page reports that there is none only when every page has
\* been handed out: freed pages are never lost.
FullMeansExhausted ==
  ret = "full" => \A p \in Index(0) : \E h \in Holder : held[h] = <<0, p>>

\* A block of any level that looks free contains no page in use.  The bits above
\* level 0 may stay true after a free, but never become false too early.
FreeBlocksAreUnused ==
  \A l \in Level : \A b \in Index(l) \ bits[l] :
    \A h \in Holder : held[h] # None => PagesOf(held[h]) \cap PagesOf(<<l, b>>) = {}

\* With requests of one page the allocator implements Allocator.
Abs == INSTANCE Allocator WITH Unit <- {<<0, p>> : p \in Index(0)}, own <- held
ImplementsAllocator == Abs!Spec

=============================================================================
