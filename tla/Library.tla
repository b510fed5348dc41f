-------------------------------- MODULE Library --------------------------------
(***************************************************************************)
(* The parts of the kernel that the others are built on and that share no  *)
(* state: the containers, the allocators without slabs and the dispatch of *)
(* interrupts.  A behaviour uses one of them, so that the instances do not *)
(* multiply.                                                               *)
(***************************************************************************)
EXTENDS Integers, Sequences, FiniteSets

CONSTANTS
  Parts,                                             \* the parts that behaviours use
  Pages, Orders, Holder,                             \* of Buddy
  Key, Value, Capacity, None,                        \* of KVStore, and None of Buddy
  Item, Slots, Nothing,                              \* of CBuffer
  Start, Size, Requests, Aligns,                     \* of Linear
  Mem, MemSize, ElemSize, ElemAlign, NodeSize,       \* of Pool
  LowPow, MaxPow, Align, Bytes,                      \* of KMalloc
  Line, Exception,                                   \* of Interrupts
  Node, KeyOf, Null                                  \* of RbTree

\* The alignments are not zero, as linear.c asserts.  The last line is arithmetic; it is
\* here because the provers know no law of ^.
ASSUME SizesAreNatural ==
  /\ {Capacity, Slots} \subseteq Nat \ {0}
  /\ {Start, Size, Mem, MemSize, Bytes} \cup Requests \subseteq Nat
  /\ {ElemSize, ElemAlign, NodeSize, Align} \cup Aligns \subseteq Nat \ {0}
  /\ LowPow \in Nat /\ MaxPow \in Nat /\ LowPow < MaxPow
  /\ \A i \in 0 .. MaxPow : 2 ^ (i + LowPow) \in Nat

\* What buddy_init is given, and a holder with a block is not one without.
ASSUME PagesAreRight ==
  /\ Pages \in Nat \ {0} /\ Orders \subseteq Nat
  /\ None \notin Nat \X Nat

\* What kvstore_append asserts of its key and intr_handler_pic of its line; the
\* exceptions are vectors of the processor.
ASSUME ArgumentsAreRight ==
  /\ None \notin Key
  /\ Line \subseteq 0 .. 15 /\ Exception \subseteq Nat

\* What the comparison functions see of a node are numbers, and NULL is no node.
ASSUME KeysAreRight == KeyOf \in [Node -> Int] /\ Null \notin Node

VARIABLES
  part,                                              \* the part that this behaviour uses
  bits, owned, ret,                                  \* of Buddy, where owned is held
  keys, vals,                                        \* of KVStore
  r_idx, w_idx, count, array, got,                   \* of CBuffer
  position, limit, given,                            \* of Linear
  nodes, held,                                       \* of Pool
  objects, memory,                                   \* of KMalloc
  handlers, default, enabled, irr, isr, running, regs, regVals,   \* of Interrupts
  tree, pc, node, deletee, child, members,           \* of RbTree
  fault                                              \* what has stopped the kernel

Y == INSTANCE Buddy WITH held <- owned
K == INSTANCE KVStore
B == INSTANCE CBuffer
L == INSTANCE Linear
P == INSTANCE Pool
M == INSTANCE KMalloc
I == INSTANCE Interrupts
R == INSTANCE RbTree WITH Key <- KeyOf, t <- tree

buddyVars == <<bits, owned, ret>>
storeVars == <<keys, vals>>
bufferVars == <<r_idx, w_idx, count, array, got>>
linearVars == <<position, limit, given>>
poolVars == <<nodes, held>>
mallocVars == <<objects, memory>>
intrVars == <<handlers, default, enabled, irr, isr, running, regs, regVals>>
treeVars == <<tree, pc, node, deletee, child, members>>
vars == <<part, buddyVars, storeVars, bufferVars, linearVars, poolVars, mallocVars, intrVars,
          treeVars, fault>>

Init ==
  /\ part \in Parts /\ fault = "none"
  /\ Y!Init /\ K!Init /\ B!Init /\ L!Init /\ P!Init /\ M!Init /\ I!Init /\ R!Init

\* A part's step leaves the others as they are.
UsePages ==
  /\ part = "buddy" /\ Y!Next
  /\ UNCHANGED <<part, storeVars, bufferVars, linearVars, poolVars, mallocVars, intrVars, treeVars>>

UseStore ==
  /\ part = "kvstore" /\ K!Next
  /\ UNCHANGED <<part, buddyVars, bufferVars, linearVars, poolVars, mallocVars, intrVars, treeVars>>

UseBuffer ==
  /\ part = "cbuffer" /\ B!Next
  /\ UNCHANGED <<part, buddyVars, storeVars, linearVars, poolVars, mallocVars, intrVars, treeVars, fault>>

UseLinear ==
  /\ part = "linear" /\ L!Next
  /\ UNCHANGED <<part, buddyVars, storeVars, bufferVars, poolVars, mallocVars, intrVars, treeVars, fault>>

UsePool ==
  /\ part = "pool" /\ P!Next
  /\ UNCHANGED <<part, buddyVars, storeVars, bufferVars, linearVars, mallocVars, intrVars, treeVars, fault>>

UseMalloc ==
  /\ part = "kmalloc" /\ M!Next
  /\ UNCHANGED <<part, buddyVars, storeVars, bufferVars, linearVars, poolVars, intrVars, treeVars>>

UseInterrupts ==
  /\ part = "interrupts" /\ I!Next
  /\ UNCHANGED <<part, buddyVars, storeVars, bufferVars, linearVars, poolVars, mallocVars, treeVars>>

UseTree ==
  /\ part = "rbtree" /\ R!Next
  /\ UNCHANGED <<part, buddyVars, storeVars, bufferVars, linearVars, poolVars, mallocVars, intrVars, fault>>

Next ==
  \/ UsePages \/ UseStore \/ UseBuffer \/ UseLinear \/ UsePool \/ UseMalloc \/ UseInterrupts \/ UseTree

\* A call to the tree runs to its end; whether there is a next one is up to the callers.
Spec == Init /\ [][Next]_vars /\ WF_treeVars(R!InsertFix \/ R!DeleteFix)

-----------------------------------------------------------------------------
(* Properties *)

\* See Buddy.
FullMeansExhausted == Y!FullMeansExhausted
FreeBlocksAreUnused == Y!FreeBlocksAreUnused
BitsInBounds == part = "buddy" => Y!NoFault
PagesImplementAllocator == Y!ImplementsAllocator

StoredPairs == INSTANCE Dictionary WITH dict <- K!Contents
QueuedItems == INSTANCE BoundedQueue WITH queue <- B!Queued, out <- got, Size <- Slots

\* The containers are what their users take them for: a store is a partial function,
\* of which every call changes one key, also with holes among the slots (kvstore.c), and
\* a buffer gives items back in their order wherever its indices wrap (cbuffer.h).
ContainersKeepOrder == StoredPairs!Spec /\ QueuedItems!Spec

LinearRegions == INSTANCE Regions WITH regions <- L!Held, Address <- Start .. Start + Size - 1
PoolRegions == INSTANCE Regions WITH regions <- P!Held, Address <- P!Memory
MallocRegions == INSTANCE Regions WITH regions <- M!Held, Address <- 0 .. Bytes - 1

\* A user that fills its memory does not reach the byte by which kfree finds the cache.
HeadersSurvive ==
  /\ fault # "object of another cache"
  /\ \A o \in objects : memory[o[1]] = o[2]

\* What is handed out is not handed out again before it is given back and lies inside
\* of the memory, whatever the sizes and alignments, and what kmalloc keeps of it for
\* kfree stays (linear.c, pool.c, kmalloc.c).
AllocatorsImplementRegions ==
  LinearRegions!Spec /\ PoolRegions!Spec /\ MallocRegions!Spec /\ []HeadersSurvive

\* See Interrupts.
LinesHandled == I!LinesHandled

\* See RbTree.
HoldsMembers == R!HoldsMembers
Balanced == R!Balanced
SearchesAreRight == R!SearchesAreRight
CallsReturn == R!CallsReturn

================================================================================
