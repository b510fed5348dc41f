------------------------------ MODULE KmmProofs ------------------------------
(***************************************************************************)
(* The three caches of Kmm stay sound for any number of slabs and pages,   *)
(* and capacities of at least two, as long as frames do not run out while  *)
(* an object is being freed.  That a step of one cache keeps what SlabCache *)
(* promises is taken from SlabCacheProofs; proved here is what the caches  *)
(* owe each other in the middle of a call.                                 *)
(***************************************************************************)
EXTENDS Kmm, TLAPS

UP == INSTANCE SlabCacheProofs WITH
       Capacity <- UCap, Large <- TRUE, TrimInFree <- ShortInFree,
       empty <- uEmpty, partial <- uPartial, full <- uFull, inuse <- uInuse, free <- uFree,
       made <- uMade, held <- uHeld, grow <- uGrow, freeing <- uFreeing,
       fault <- uFault

BP == INSTANCE SlabCacheProofs WITH
       Slab <- HeapPage, Holder <- Slab \X (1 .. UCap),
       Capacity <- BCap, Large <- FALSE, TrimInFree <- TRUE,
       empty <- bEmpty, partial <- bPartial, full <- bFull, inuse <- bInuse, free <- bFree,
       made <- bMade, held <- bHeld, grow <- bGrow, freeing <- noFreeing,
       fault <- bFault

SP == INSTANCE SlabCacheProofs WITH
       Slab <- HeapPage, Holder <- Slab,
       Capacity <- SCap, Large <- FALSE, TrimInFree <- TRUE,
       empty <- sEmpty, partial <- sPartial, full <- sFull, inuse <- sInuse, free <- sFree,
       made <- sMade, held <- sHeld, grow <- sGrow, freeing <- noFreeing,
       fault <- sFault

AllowedUse ==
  /\ UCap >= 2 /\ BCap >= 2 /\ SCap >= 2
  /\ ~ShortInFree

\* What the call in progress has come to, by its stage.
CallState ==
  /\ alive /\ noFreeing = None
  /\ IF stage \in {"slab", "page", "bufctls"}
     THEN newSlab \in Slab /\ newSlab \notin U!Live /\ uGrow # None
     ELSE newSlab = None /\ uGrow = None
  /\ uFreeing # None <=> stage = "bufctl"
  /\ sGrow # None => stage = "slab" /\ sGrow = newSlab
  /\ bGrow # None => \/ stage = "bufctls" /\ bGrow[1] = newSlab
                     \/ stage = "bufctl" /\ bGrow = uFreeing

\* A page is new only while a cache waits for it, and only then a page fault has trimmed;
\* a trim runs in a page fault, never while an object is being freed, or by itself.
PageState ==
  /\ newPage # None => sGrow # None \/ bGrow # None \/ stage = "page"
  /\ trimmed # "no" => newPage # None /\ stage # "bufctl"
  /\ IF trimming = "no" THEN stage # "trim"
     ELSE stage = "trim" \/ (newPage # None /\ stage # "bufctl")

\* The caches that a trim has come past have no empty slab.
TrimOrder ==
  /\ trimming \in {"B", "S"} => uEmpty = {}
  /\ trimming = "S" => bEmpty = {}

\* A bufctl is in use for each free buffer of U, a slab object for each slab; those of the
\* slab that is being made or trimmed, and of the buffer that is being freed, come and go.
BufctlsMatch ==
  \A s \in Slab, o \in 1 .. UCap :
    /\ bHeld[<<s, o>>] # None => \/ s \in U!Live /\ o \in uFree[s]
                                 \/ stage = "bufctls" /\ s = newSlab
                                 \/ uFreeing = <<s, o>>
    /\ s \in U!Live /\ o \in uFree[s] => \/ bHeld[<<s, o>>] # None
                                         \/ trimming = "U" /\ s \in uEmpty

SlabObjectsMatch ==
  \A s \in Slab : /\ sHeld[s] # None <=> \/ s \in U!Live
                                         \/ s = newSlab /\ stage \in {"page", "bufctls"}
                  /\ pageOf[s] # None <=> \/ s \in U!Live
                                          \/ s = newSlab /\ stage = "bufctls"

\* A page of the heap belongs to one slab.
PagesApart ==
  /\ \A s, t \in Slab : s # t /\ pageOf[s] # None => pageOf[s] # pageOf[t]
  /\ \A s \in Slab : pageOf[s] \notin B!Live \cup S!Live
  /\ B!Live \cap S!Live = {}
  /\ newPage # None => /\ newPage \notin B!Live \cup S!Live
                       /\ \A s \in Slab : pageOf[s] # newPage

CacheInv == UP!Inv /\ BP!Inv /\ SP!Inv

CallTyped ==
  /\ pageOf \in [Slab -> HeapPage \cup {None}]
  /\ stage \in {"idle", "slab", "page", "bufctls", "bufctl", "trim"}
  /\ newSlab \in Slab \cup {None} /\ newPage \in HeapPage \cup {None}
  /\ trimming \in {"no", "U", "B", "S"} /\ trimmed \in {"no", "nothing", "some"}
  /\ panic \in {"no", "NULL bufctl", "Couldn't trim enough space"}

Inv ==
  /\ CacheInv
  /\ CallTyped
  /\ CallState
  /\ PageState
  /\ TrimOrder
  /\ BufctlsMatch
  /\ SlabObjectsMatch
  /\ PagesApart


-----------------------------------------------------------------------------
(* What SlabCacheProofs shows of a cache, of each of the three *)

\* Holder x takes an object, drops the one it has.
Takes(before, x, after) ==
  after[x] # None /\ \A y \in DOMAIN before : y # x => after[y] = before[y]
Drops(before, x, after) ==
  after[x] = None /\ \A y \in DOMAIN before : y # x => after[y] = before[y]

LEMMA UKeepsInv ==
  ASSUME AllowedUse, UP!Inv, [U!Next]_uVars
  PROVE  UP!Inv'
<1>1. [UP!Next]_(UP!vars)
  BY DEF uVars, UP!vars, U!Next, UP!Next, U!GrowBegin, UP!GrowBegin, U!Idle, UP!Idle, U!lists,
         UP!lists, U!Free, UP!Free, U!Relist, UP!Relist, U!AllocExisting, UP!AllocExisting,
         U!FromPartial, UP!FromPartial, U!FromEmpty, UP!FromEmpty, U!ObjectAlloc, UP!ObjectAlloc,
         U!GrowEnd, UP!GrowEnd, U!Live, UP!Live, U!Slot, UP!Slot, U!Trim, UP!Trim, U!SlabDestroy,
         UP!SlabDestroy, U!GrowFail, UP!GrowFail, U!FreeEnd, UP!FreeEnd, U!Destroy, UP!Destroy
<1>. QED
  BY SMTT(30), <1>1, UP!InvNext, CapacityAssumption, ShortInFreeAssumption, NoneAssumption
    DEF AllowedUse, UP!AllowedUse, UP!CapacityAssumption, UP!FlagsAssumption,
        UP!NoneAssumption, UP!Object, UP!Slot

LEMMA BKeepsInv ==
  ASSUME AllowedUse, BP!Inv, [B!Next]_bVars
  PROVE  BP!Inv'
<1>1. [BP!Next]_(BP!vars)
  BY DEF bVars, BP!vars, B!Next, BP!Next, B!GrowBegin, BP!GrowBegin, B!Idle, BP!Idle, B!lists,
         BP!lists, B!Free, BP!Free, B!Relist, BP!Relist, B!AllocExisting, BP!AllocExisting,
         B!FromPartial, BP!FromPartial, B!FromEmpty, BP!FromEmpty, B!ObjectAlloc, BP!ObjectAlloc,
         B!GrowEnd, BP!GrowEnd, B!Live, BP!Live, B!Slot, BP!Slot, B!Trim, BP!Trim, B!SlabDestroy,
         BP!SlabDestroy, B!GrowFail, BP!GrowFail, B!FreeEnd, BP!FreeEnd, B!Destroy, BP!Destroy
<1>. QED
  BY <1>1, BP!InvNext, CapacityAssumption, ShortInFreeAssumption, NoneAssumption
    DEF AllowedUse, BP!AllowedUse, BP!CapacityAssumption, BP!FlagsAssumption,
        BP!NoneAssumption, BP!Object, BP!Slot

LEMMA SKeepsInv ==
  ASSUME AllowedUse, SP!Inv, [S!Next]_sVars
  PROVE  SP!Inv'
<1>1. [SP!Next]_(SP!vars)
  BY DEF sVars, SP!vars, S!Next, SP!Next, S!GrowBegin, SP!GrowBegin, S!Idle, SP!Idle, S!lists,
         SP!lists, S!Free, SP!Free, S!Relist, SP!Relist, S!AllocExisting, SP!AllocExisting,
         S!FromPartial, SP!FromPartial, S!FromEmpty, SP!FromEmpty, S!ObjectAlloc, SP!ObjectAlloc,
         S!GrowEnd, SP!GrowEnd, S!Live, SP!Live, S!Slot, SP!Slot, S!Trim, SP!Trim, S!SlabDestroy,
         SP!SlabDestroy, S!GrowFail, SP!GrowFail, S!FreeEnd, SP!FreeEnd, S!Destroy, SP!Destroy
<1>. QED
  BY <1>1, SP!InvNext, CapacityAssumption, ShortInFreeAssumption, NoneAssumption
    DEF AllowedUse, SP!AllowedUse, SP!CapacityAssumption, SP!FlagsAssumption,
        SP!NoneAssumption, SP!Object, SP!Slot


LEMMA UAllocEffect ==
  ASSUME AllowedUse, UP!Inv, NEW h \in Holder, NEW s \in Slab, U!AllocExisting(h, s)
  PROVE  /\ uHeld[h] = None /\ U!Live' = U!Live /\ uEmpty' \subseteq uEmpty
         /\ UNCHANGED <<uGrow, uFreeing, alive>>
         /\ s \in U!Live
         /\ \E o \in 1 .. UCap : /\ o \in uFree[s] /\ uFree' = [uFree EXCEPT ![s] = @ \ {o}]
                                /\ uHeld' = [uHeld EXCEPT ![h] = <<s, o>>]
<1>1. UP!AllocExisting(h, s)
  BY DEF U!AllocExisting, UP!AllocExisting, U!Idle, UP!Idle, U!FromPartial, UP!FromPartial,
         U!FromEmpty, UP!FromEmpty, U!ObjectAlloc, UP!ObjectAlloc
<1>. QED
  BY <1>1, UP!AllocExistingEffect, CapacityAssumption, ShortInFreeAssumption, NoneAssumption
    DEF AllowedUse, UP!AllowedUse, UP!CapacityAssumption, UP!FlagsAssumption,
           UP!NoneAssumption,
        UP!Object, UP!Slot, UP!Live, U!Live

LEMMA UGrowEndEffect ==
  ASSUME AllowedUse, UP!Inv, NEW s \in Slab, U!GrowEnd(s)
  PROVE  /\ s \notin U!Live /\ U!Live' = U!Live \cup {s}
         /\ UNCHANGED <<uEmpty, uFreeing, alive>> /\ uGrow \in Holder /\ uGrow' = None
         /\ \E o \in 1 .. UCap : /\ uFree' = [uFree EXCEPT ![s] = (1 .. UCap) \ {o}]
                                /\ uHeld' = [uHeld EXCEPT ![uGrow] = <<s, o>>]
<1>1. UP!GrowEnd(s)
  BY DEF U!GrowEnd, UP!GrowEnd, U!Live, UP!Live, U!Slot, UP!Slot
<1>. QED
  BY <1>1, UP!GrowEndEffect, CapacityAssumption, ShortInFreeAssumption, NoneAssumption
    DEF AllowedUse, UP!AllowedUse, UP!CapacityAssumption, UP!FlagsAssumption,
           UP!NoneAssumption,
        UP!Object, UP!Slot, UP!Live, U!Live

LEMMA UFreeEffect ==
  ASSUME AllowedUse, UP!Inv, NEW h \in Holder, U!Free(h)
  PROVE  /\ uHeld[h] # None /\ U!Live' = U!Live
         /\ UNCHANGED <<uGrow, alive>>
         /\ uHeld[h] \in Slab \X (1 .. UCap) /\ uHeld[h][1] \in U!Live
         /\ uFreeing' = uHeld[h] /\ uFree' = uFree
<1>1. UP!Free(h)
  BY DEF U!Free, UP!Free, U!Relist, UP!Relist
<1>. QED
  BY <1>1, UP!FreeEffect, CapacityAssumption, ShortInFreeAssumption, NoneAssumption
    DEF AllowedUse, UP!AllowedUse, UP!CapacityAssumption, UP!FlagsAssumption,
           UP!NoneAssumption,
        UP!Object, UP!Slot, UP!Live, U!Live

LEMMA UTrimEffect ==
  ASSUME AllowedUse, UP!Inv, NEW s \in Slab, U!Trim(s)
  PROVE  /\ s \in U!Live /\ U!Live' = U!Live \ {s} /\ uEmpty' = uEmpty \ {s}
         /\ UNCHANGED <<uHeld, uGrow, uFreeing, alive>>
         /\ s \in uEmpty /\ uFree[s] = 1 .. UCap
         /\ uFree' = [r \in Slab |-> IF r = s THEN {} ELSE uFree[r]]
<1>1. UP!Trim(s)
  BY DEF U!Trim, UP!Trim, U!SlabDestroy, UP!SlabDestroy
<1>. QED
  BY <1>1, UP!TrimEffect, CapacityAssumption, ShortInFreeAssumption, NoneAssumption
    DEF AllowedUse, UP!AllowedUse, UP!CapacityAssumption, UP!FlagsAssumption,
           UP!NoneAssumption,
        UP!Object, UP!Slot, UP!Live, U!Live

LEMMA BAllocEffect ==
  ASSUME AllowedUse, BP!Inv, NEW h \in Slab \X (1 .. UCap), NEW s \in HeapPage, B!AllocExisting(h, s)
  PROVE  /\ bHeld[h] = None /\ B!Live' = B!Live /\ bEmpty' \subseteq bEmpty
         /\ UNCHANGED <<bGrow, noFreeing, alive>>
         /\ Takes(bHeld, h, bHeld')
<1>1. BP!AllocExisting(h, s)
  BY DEF B!AllocExisting, BP!AllocExisting, B!Idle, BP!Idle, B!FromPartial, BP!FromPartial,
         B!FromEmpty, BP!FromEmpty, B!ObjectAlloc, BP!ObjectAlloc
<1>. QED
  BY <1>1, BP!AllocExistingEffect, CapacityAssumption, ShortInFreeAssumption, NoneAssumption
    DEF AllowedUse, BP!AllowedUse, BP!CapacityAssumption, BP!FlagsAssumption,
           BP!NoneAssumption,
        BP!Object, BP!Slot, BP!Live, B!Live, Takes, BP!Inv, BP!TypeOK

LEMMA BGrowEndEffect ==
  ASSUME AllowedUse, BP!Inv, NEW s \in HeapPage, B!GrowEnd(s)
  PROVE  /\ s \notin B!Live /\ B!Live' = B!Live \cup {s}
         /\ UNCHANGED <<bEmpty, noFreeing, alive>> /\ bGrow \in Slab \X (1 .. UCap) /\ bGrow' = None
         /\ Takes(bHeld, bGrow, bHeld')
<1>1. BP!GrowEnd(s)
  BY DEF B!GrowEnd, BP!GrowEnd, B!Live, BP!Live, B!Slot, BP!Slot
<1>. QED
  BY <1>1, BP!GrowEndEffect, CapacityAssumption, ShortInFreeAssumption, NoneAssumption
    DEF AllowedUse, BP!AllowedUse, BP!CapacityAssumption, BP!FlagsAssumption,
           BP!NoneAssumption,
        BP!Object, BP!Slot, BP!Live, B!Live, Takes, BP!Inv, BP!TypeOK

LEMMA BFreeEffect ==
  ASSUME AllowedUse, BP!Inv, NEW h \in Slab \X (1 .. UCap), B!Free(h)
  PROVE  /\ bHeld[h] # None /\ B!Live' = B!Live
         /\ UNCHANGED <<bGrow, alive>>
         /\ Drops(bHeld, h, bHeld') /\ noFreeing' = None
<1>1. BP!Free(h)
  BY DEF B!Free, BP!Free, B!Relist, BP!Relist
<1>. QED
  BY <1>1, BP!FreeEffect, CapacityAssumption, ShortInFreeAssumption, NoneAssumption
    DEF AllowedUse, BP!AllowedUse, BP!CapacityAssumption, BP!FlagsAssumption,
           BP!NoneAssumption,
        BP!Object, BP!Slot, BP!Live, B!Live, Drops, BP!Inv, BP!TypeOK

LEMMA BTrimEffect ==
  ASSUME AllowedUse, BP!Inv, NEW s \in HeapPage, B!Trim(s)
  PROVE  /\ s \in B!Live /\ B!Live' = B!Live \ {s} /\ bEmpty' = bEmpty \ {s}
         /\ UNCHANGED <<bHeld, bGrow, noFreeing, alive>>
<1>1. BP!Trim(s)
  BY DEF B!Trim, BP!Trim, B!SlabDestroy, BP!SlabDestroy
<1>. QED
  BY <1>1, BP!TrimEffect, CapacityAssumption, ShortInFreeAssumption, NoneAssumption
    DEF AllowedUse, BP!AllowedUse, BP!CapacityAssumption, BP!FlagsAssumption,
           BP!NoneAssumption,
        BP!Object, BP!Slot, BP!Live, B!Live

LEMMA SAllocEffect ==
  ASSUME AllowedUse, SP!Inv, NEW h \in Slab, NEW s \in HeapPage, S!AllocExisting(h, s)
  PROVE  /\ sHeld[h] = None /\ S!Live' = S!Live /\ sEmpty' \subseteq sEmpty
         /\ UNCHANGED <<sGrow, noFreeing, alive>>
         /\ Takes(sHeld, h, sHeld')
<1>1. SP!AllocExisting(h, s)
  BY DEF S!AllocExisting, SP!AllocExisting, S!Idle, SP!Idle, S!FromPartial, SP!FromPartial,
         S!FromEmpty, SP!FromEmpty, S!ObjectAlloc, SP!ObjectAlloc
<1>. QED
  BY <1>1, SP!AllocExistingEffect, CapacityAssumption, ShortInFreeAssumption, NoneAssumption
    DEF AllowedUse, SP!AllowedUse, SP!CapacityAssumption, SP!FlagsAssumption,
           SP!NoneAssumption,
        SP!Object, SP!Slot, SP!Live, S!Live, Takes, SP!Inv, SP!TypeOK

LEMMA SGrowEndEffect ==
  ASSUME AllowedUse, SP!Inv, NEW s \in HeapPage, S!GrowEnd(s)
  PROVE  /\ s \notin S!Live /\ S!Live' = S!Live \cup {s}
         /\ UNCHANGED <<sEmpty, noFreeing, alive>> /\ sGrow \in Slab /\ sGrow' = None
         /\ Takes(sHeld, sGrow, sHeld')
<1>1. SP!GrowEnd(s)
  BY DEF S!GrowEnd, SP!GrowEnd, S!Live, SP!Live, S!Slot, SP!Slot
<1>. QED
  BY <1>1, SP!GrowEndEffect, CapacityAssumption, ShortInFreeAssumption, NoneAssumption
    DEF AllowedUse, SP!AllowedUse, SP!CapacityAssumption, SP!FlagsAssumption,
           SP!NoneAssumption,
        SP!Object, SP!Slot, SP!Live, S!Live, Takes, SP!Inv, SP!TypeOK

LEMMA SFreeEffect ==
  ASSUME AllowedUse, SP!Inv, NEW h \in Slab, S!Free(h)
  PROVE  /\ sHeld[h] # None /\ S!Live' = S!Live
         /\ UNCHANGED <<sGrow, alive>>
         /\ Drops(sHeld, h, sHeld') /\ noFreeing' = None
<1>1. SP!Free(h)
  BY DEF S!Free, SP!Free, S!Relist, SP!Relist
<1>. QED
  BY <1>1, SP!FreeEffect, CapacityAssumption, ShortInFreeAssumption, NoneAssumption
    DEF AllowedUse, SP!AllowedUse, SP!CapacityAssumption, SP!FlagsAssumption,
           SP!NoneAssumption,
        SP!Object, SP!Slot, SP!Live, S!Live, Drops, SP!Inv, SP!TypeOK

LEMMA STrimEffect ==
  ASSUME AllowedUse, SP!Inv, NEW s \in HeapPage, S!Trim(s)
  PROVE  /\ s \in S!Live /\ S!Live' = S!Live \ {s} /\ sEmpty' = sEmpty \ {s}
         /\ UNCHANGED <<sHeld, sGrow, noFreeing, alive>>
<1>1. SP!Trim(s)
  BY DEF S!Trim, SP!Trim, S!SlabDestroy, SP!SlabDestroy
<1>. QED
  BY <1>1, SP!TrimEffect, CapacityAssumption, ShortInFreeAssumption, NoneAssumption
    DEF AllowedUse, SP!AllowedUse, SP!CapacityAssumption, SP!FlagsAssumption,
           SP!NoneAssumption,
        SP!Object, SP!Slot, SP!Live, S!Live

LEMMA CacheFacts ==
  ASSUME CacheInv
  PROVE  /\ U!Live \subseteq Slab /\ uEmpty \subseteq U!Live
         /\ B!Live \subseteq HeapPage /\ S!Live \subseteq HeapPage
         /\ uFree \in [Slab -> SUBSET (1 .. UCap)]
         /\ DOMAIN bHeld = Slab \X (1 .. UCap) /\ DOMAIN sHeld = Slab
         /\ uGrow \in Holder \cup {None} /\ sGrow \in Slab \cup {None}
         /\ bGrow \in (Slab \X (1 .. UCap)) \cup {None}
         /\ uGrow # None => uHeld[uGrow] = None
         /\ bGrow # None => bHeld[bGrow] = None
         /\ sGrow # None => sHeld[sGrow] = None
         /\ uFreeing # None => /\ uFreeing \in Slab \X (1 .. UCap)
                               /\ uFreeing[1] \in U!Live
                               /\ uFreeing[2] \notin uFree[uFreeing[1]]
<1>1. uFreeing # None => /\ uFreeing \in Slab \X (1 .. UCap) /\ uFreeing[1] \in U!Live
                         /\ uFreeing[2] \notin uFree[uFreeing[1]]
  <2>. SUFFICES ASSUME uFreeing # None
                PROVE  /\ uFreeing \in Slab \X (1 .. UCap) /\ uFreeing[1] \in U!Live
                       /\ uFreeing[2] \notin uFree[uFreeing[1]]
    OBVIOUS
  <2>1. uFreeing \in Slab \X (1 .. UCap)
    BY DEF CacheInv, UP!Inv, UP!TypeOK, UP!Object, UP!Slot
  <2>2. uFreeing[1] \in UP!Live
    BY DEF CacheInv, UP!Inv, UP!FreeInProgress
  <2>3. ~UP!Unclaimed(uFreeing[1], uFreeing[2])
    BY <2>1 DEF UP!Unclaimed
  <2>4. uFreeing[2] \notin uFree[uFreeing[1]]
    BY <2>1, <2>2, <2>3 DEF CacheInv, UP!Inv, UP!BuffersAccountedFor, UP!SlabAccounted, UP!Slot
  <2>. QED
    BY <2>1, <2>2, <2>4 DEF U!Live, UP!Live
<1>2. /\ U!Live \subseteq Slab /\ uEmpty \subseteq U!Live
      /\ uFree \in [Slab -> SUBSET (1 .. UCap)] /\ uGrow \in Holder \cup {None}
      /\ uGrow # None => uHeld[uGrow] = None
  BY DEF CacheInv, UP!Inv, UP!TypeOK, UP!Object, UP!Slot, UP!GrowInProgress, U!Live
<1>3. /\ B!Live \subseteq HeapPage /\ DOMAIN bHeld = Slab \X (1 .. UCap)
      /\ bGrow \in (Slab \X (1 .. UCap)) \cup {None}
      /\ bGrow # None => bHeld[bGrow] = None
  BY DEF CacheInv, BP!Inv, BP!TypeOK, BP!GrowInProgress, B!Live
<1>4. /\ S!Live \subseteq HeapPage /\ DOMAIN sHeld = Slab /\ sGrow \in Slab \cup {None}
      /\ sGrow # None => sHeld[sGrow] = None
  BY DEF CacheInv, SP!Inv, SP!TypeOK, SP!GrowInProgress, S!Live
<1>. QED
  BY <1>1, <1>2, <1>3, <1>4

LEMMA CachesKeepInv ==
  ASSUME AllowedUse, CacheInv, [U!Next]_uVars, [B!Next]_bVars, [S!Next]_sVars
  PROVE  CacheInv'
BY UKeepsInv, BKeepsInv, SKeepsInv DEF CacheInv

-----------------------------------------------------------------------------
(* page_alloc and the first write to the page *)

LEMMA PageAllocKeepsInv ==
  ASSUME AllowedUse, Inv, NEW p \in HeapPage, PageAlloc(p)
  PROVE  Inv'
<1>. USE DEF PageAlloc, uVars, bVars, sVars, Inv
<1>1. CacheInv'
  BY CachesKeepInv
<1>2. U!Live' = U!Live /\ B!Live' = B!Live /\ S!Live' = S!Live
  BY DEF U!Live, B!Live, S!Live
<1>3. CallTyped' /\ CallState'
  <2>1. CallTyped'
    BY DEF CallTyped
  <2>2. CallState'
    BY <1>2 DEF CallState
  <2>. QED
    BY <2>1, <2>2
<1>4. PageState' /\ TrimOrder'
  BY NoneAssumption DEF NeedsPage, PageState, TrimOrder
<1>5. BufctlsMatch' /\ SlabObjectsMatch'
  BY <1>2 DEF BufctlsMatch, SlabObjectsMatch
<1>6. PagesApart'
  BY <1>2, NoneAssumption DEF PagesApart, Used, CallTyped
<1>. QED
  BY <1>1, <1>3, <1>4, <1>5, <1>6

LEMMA PageAllocFailsKeepsInv ==
  ASSUME AllowedUse, Inv, PageAllocFails
  PROVE  Inv'
<1>1. /\ newPage = None /\ trimming = "no" /\ trimmed = "no"
      /\ UNCHANGED <<pageOf, newPage, trimming, trimmed>>
  BY DEF PageAllocFails, NeedsPage, Inv, PageState
<1>2. CASE sGrow # None /\ S!GrowFail /\ U!GrowFail /\ stage' = "idle" /\ newSlab' = None
           /\ UNCHANGED <<bVars, panic>>
  <2>1. CacheInv'
    BY <1>2, CachesKeepInv DEF Inv, U!Next, S!Next
  <2>2. /\ U!Live' = U!Live /\ B!Live' = B!Live /\ S!Live' = S!Live
        /\ uGrow' = None /\ sGrow' = None
        /\ UNCHANGED <<uEmpty, uFree, uFreeing, bEmpty, bHeld, bGrow, sHeld, alive, noFreeing>>
    BY <1>2 DEF U!Live, B!Live, S!Live, U!GrowFail, S!GrowFail, U!lists, S!lists, bVars
  <2>3. stage = "slab" /\ sGrow = newSlab /\ newSlab \in Slab /\ newSlab \notin U!Live
    BY <1>2 DEF Inv, CallState
  <2>4. CallTyped' /\ CallState' /\ PageState' /\ TrimOrder' /\ PagesApart'
    BY <1>1, <1>2, <2>2, <2>3 DEF Inv, CallTyped, CallState, PageState, TrimOrder, PagesApart
  <2>5. BufctlsMatch' /\ SlabObjectsMatch'
    BY <1>1, <1>2, <2>2, <2>3 DEF Inv, BufctlsMatch, SlabObjectsMatch
  <2>. QED
    BY <2>1, <2>4, <2>5 DEF Inv
<1>3. CASE stage = "page" /\ S!Free(newSlab) /\ U!GrowFail /\ stage' = "idle" /\ newSlab' = None
           /\ UNCHANGED <<bVars, panic>>
  <2>1. newSlab \in Slab /\ newSlab \notin U!Live /\ sGrow = None
    BY <1>3 DEF Inv, CallState
  <2>2. CacheInv'
    BY <1>3, <2>1, CachesKeepInv DEF Inv, U!Next, S!Next
  <2>3. S!Live' = S!Live /\ Drops(sHeld, newSlab, sHeld') /\ sGrow' = None /\ noFreeing' = None
    BY <1>3, <2>1, SFreeEffect DEF Inv, CacheInv
  <2>4. /\ U!Live' = U!Live /\ B!Live' = B!Live
        /\ uGrow' = None
        /\ UNCHANGED <<uEmpty, uFree, uFreeing, bEmpty, bHeld, bGrow, alive>>
    BY <1>3 DEF U!Live, B!Live, U!GrowFail, U!lists, bVars
  <2>5. CallTyped' /\ CallState' /\ PageState' /\ TrimOrder' /\ PagesApart'
    BY <1>1, <1>3, <2>1, <2>3, <2>4 DEF Inv, CallTyped, CallState, PageState, TrimOrder, PagesApart
  <2>6. BufctlsMatch' /\ SlabObjectsMatch'
    BY <1>1, <1>3, <2>1, <2>3, <2>4, CacheFacts
      DEF Inv, BufctlsMatch, SlabObjectsMatch, Drops
  <2>. QED
    BY <2>2, <2>5, <2>6 DEF Inv
<1>4. CASE bGrow # None /\ B!GrowFail /\ panic' = "NULL bufctl"
           /\ UNCHANGED <<uVars, sVars, stage, newSlab>>
  <2>1. CacheInv'
    BY <1>4, CachesKeepInv DEF Inv, B!Next
  <2>2. /\ U!Live' = U!Live /\ B!Live' = B!Live /\ S!Live' = S!Live
        /\ bGrow' = None
        /\ UNCHANGED <<uGrow, sGrow, uEmpty, uFree, uFreeing, bEmpty, bHeld, sHeld, alive, noFreeing>>
    BY <1>4 DEF U!Live, B!Live, S!Live, B!GrowFail, B!lists, uVars, sVars
  <2>3. CallTyped' /\ CallState' /\ PageState' /\ TrimOrder' /\ PagesApart'
    BY <1>1, <1>4, <2>2 DEF Inv, CallTyped, CallState, PageState, TrimOrder, PagesApart
  <2>4. BufctlsMatch' /\ SlabObjectsMatch'
    BY <1>1, <1>4, <2>2 DEF Inv, BufctlsMatch, SlabObjectsMatch
  <2>. QED
    BY <2>1, <2>3, <2>4 DEF Inv
<1>. QED
  BY <1>2, <1>3, <1>4 DEF PageAllocFails

LEMMA PageWrittenKeepsInv ==
  ASSUME AllowedUse, Inv, PageWritten
  PROVE  Inv'
<1>1. /\ newPage \in HeapPage /\ trimming = "no" /\ newPage' = None /\ trimmed' = "no"
      /\ newPage \notin B!Live \cup S!Live /\ \A s \in Slab : pageOf[s] # newPage
      /\ UNCHANGED <<newSlab, trimming, panic>>
  BY DEF PageWritten, NeedsPage, Inv, CallTyped, PagesApart
<1>2. CASE sGrow # None /\ S!GrowEnd(newPage) /\ stage' = "page" /\ UNCHANGED <<uVars, bVars, pageOf>>
  <2>1. stage = "slab" /\ sGrow = newSlab /\ newSlab \in Slab /\ bGrow = None
    BY <1>2 DEF Inv, CallState
  <2>2. CacheInv'
    BY <1>1, <1>2, CachesKeepInv DEF Inv, S!Next
  <2>3. /\ S!Live' = S!Live \cup {newPage} /\ sGrow' = None /\ Takes(sHeld, newSlab, sHeld')
        /\ UNCHANGED <<noFreeing, alive>>
    BY <1>1, <1>2, <2>1, SGrowEndEffect DEF Inv, CacheInv
  <2>4. /\ U!Live' = U!Live /\ B!Live' = B!Live
        /\ UNCHANGED <<uGrow, uEmpty, uFree, uFreeing, bEmpty, bHeld, bGrow>>
    BY <1>2 DEF U!Live, B!Live, uVars, bVars
  <2>5. CallTyped' /\ CallState' /\ PageState' /\ TrimOrder'
    BY <1>1, <1>2, <2>1, <2>3, <2>4 DEF Inv, CallTyped, CallState, PageState, TrimOrder
  <2>6. PagesApart'
    BY <1>1, <1>2, <2>3, <2>4 DEF Inv, PagesApart
  <2>7. BufctlsMatch' /\ SlabObjectsMatch'
    BY <1>1, <1>2, <2>1, <2>3, <2>4, CacheFacts
      DEF Inv, BufctlsMatch, SlabObjectsMatch, Takes
  <2>. QED
    BY <2>2, <2>5, <2>6, <2>7 DEF Inv
<1>3. CASE bGrow # None /\ B!GrowEnd(newPage) /\ UNCHANGED <<uVars, sVars, pageOf, stage>>
  <2>1. /\ sGrow = None
        /\ bGrow \in Slab \X (1 .. UCap) /\ bHeld[bGrow] = None
        /\ \/ stage = "bufctls" /\ bGrow[1] = newSlab
           \/ stage = "bufctl" /\ bGrow = uFreeing
    BY <1>3, CacheFacts DEF Inv, CallState
  <2>2. CacheInv'
    BY <1>1, <1>3, CachesKeepInv DEF Inv, B!Next
  <2>3. /\ B!Live' = B!Live \cup {newPage} /\ bGrow' = None /\ Takes(bHeld, bGrow, bHeld')
        /\ UNCHANGED <<bEmpty, noFreeing, alive>>
    BY <1>1, <1>3, <2>1, BGrowEndEffect DEF Inv, CacheInv
  <2>4. /\ U!Live' = U!Live /\ S!Live' = S!Live
        /\ UNCHANGED <<uGrow, uEmpty, uFree, uFreeing, sHeld, sGrow>>
    BY <1>3 DEF U!Live, S!Live, uVars, sVars
  <2>5. CallTyped' /\ CallState' /\ PageState' /\ TrimOrder'
    BY <1>1, <1>3, <2>1, <2>3, <2>4 DEF Inv, CallTyped, CallState, PageState, TrimOrder
  <2>6. PagesApart'
    BY <1>1, <1>3, <2>3, <2>4 DEF Inv, PagesApart
  <2>7. \A s \in Slab, o \in 1 .. UCap :
          <<s, o>> # bGrow => bHeld'[<<s, o>>] = bHeld[<<s, o>>]
    BY <2>3, CacheFacts DEF Inv, Takes
  <2>8. BufctlsMatch' /\ SlabObjectsMatch'
    BY <1>1, <1>3, <2>1, <2>3, <2>4, <2>7 DEF Inv, BufctlsMatch, SlabObjectsMatch, Takes
  <2>. QED
    BY <2>2, <2>5, <2>6, <2>8 DEF Inv
<1>4. CASE stage = "page" /\ pageOf' = [pageOf EXCEPT ![newSlab] = newPage]
           /\ stage' = "bufctls" /\ UNCHANGED <<uVars, bVars, sVars>>
  <2>1. newSlab \in Slab /\ newSlab \notin U!Live /\ sGrow = None /\ bGrow = None
    BY <1>4 DEF Inv, CallState
  <2>2. CacheInv'
    BY <1>4, CachesKeepInv DEF Inv
  <2>3. /\ U!Live' = U!Live /\ B!Live' = B!Live /\ S!Live' = S!Live
        /\ UNCHANGED <<uGrow, uEmpty, uFree, uFreeing, bEmpty, bHeld, bGrow, sHeld, sGrow,
                       alive, noFreeing>>
    BY <1>4 DEF U!Live, B!Live, S!Live, uVars, bVars, sVars
  <2>4. \A s \in Slab : pageOf'[s] = IF s = newSlab THEN newPage ELSE pageOf[s]
    BY <1>4, <2>1 DEF Inv, CallTyped
  <2>5. CallTyped'
    BY <1>1, <1>4, <2>1, <2>3 DEF Inv, CallTyped
  <2>6. CallState' /\ PageState' /\ TrimOrder'
    BY <1>1, <1>4, <2>1, <2>3 DEF Inv, CallState, PageState, TrimOrder
  <2>7. PagesApart'
    BY <1>1, <2>3, <2>4 DEF Inv, PagesApart
  <2>8. BufctlsMatch'
    BY <1>1, <1>4, <2>3 DEF Inv, BufctlsMatch
  <2>9. SlabObjectsMatch'
    BY <1>1, <1>4, <2>1, <2>3, <2>4, NoneAssumption DEF Inv, SlabObjectsMatch
  <2>. QED
    BY <2>2, <2>5, <2>6, <2>7, <2>8, <2>9 DEF Inv
<1>. QED
  BY <1>2, <1>3, <1>4 DEF PageWritten

LEMMA PageFaultKeepsInv ==
  ASSUME AllowedUse, Inv, PageFault
  PROVE  Inv'
<1>1. /\ trimming = "no" /\ newPage # None
      /\ UNCHANGED <<uVars, bVars, sVars, pageOf, stage, newSlab, newPage>>
      /\ trimmed = "no" => stage # "bufctl"
  BY DEF PageFault, NeedsPage, FrameMayLack, AllowedUse
<1>2. CacheInv'
  BY <1>1, CachesKeepInv DEF Inv
<1>3. /\ U!Live' = U!Live /\ B!Live' = B!Live /\ S!Live' = S!Live
      /\ UNCHANGED <<uGrow, uEmpty, uFree, uFreeing, bEmpty, bHeld, bGrow, sHeld, sGrow,
                     alive, noFreeing>>
  BY <1>1 DEF U!Live, B!Live, S!Live, uVars, bVars, sVars
<1>4. CallTyped' /\ CallState'
  BY <1>1, <1>3 DEF Inv, CallTyped, CallState, PageFault
<1>5. PageState' /\ TrimOrder'
  BY <1>1, <1>3 DEF Inv, PageState, TrimOrder, PageFault
<1>6. BufctlsMatch' /\ SlabObjectsMatch' /\ PagesApart'
  BY <1>1, <1>3 DEF Inv, BufctlsMatch, SlabObjectsMatch, PagesApart
<1>. QED
  BY <1>2, <1>4, <1>5, <1>6 DEF Inv

-----------------------------------------------------------------------------
(* kmm_cache_alloc(U) *)

LEMMA AllocKeepsInv ==
  ASSUME AllowedUse, Inv, NEW h \in Holder, NEW s \in Slab, Alloc(h, s)
  PROVE  Inv'
<1>1. /\ stage = "idle" /\ trimming = "no" /\ newSlab = None /\ sGrow = None /\ bGrow = None
      /\ UNCHANGED <<sVars, pageOf, stage, newSlab, newPage, trimming, trimmed, panic>>
      /\ U!AllocExisting(h, s) /\ B!Free(uHeld'[h])
  BY DEF Alloc, At, Inv, CallState
<1>2. /\ U!Live' = U!Live /\ uEmpty' \subseteq uEmpty /\ UNCHANGED <<uGrow, uFreeing, alive>>
      /\ s \in U!Live
  BY <1>1, UAllocEffect DEF Inv, CacheInv
<1>3. PICK o \in 1 .. UCap : /\ o \in uFree[s] /\ uFree' = [uFree EXCEPT ![s] = @ \ {o}]
                             /\ uHeld' = [uHeld EXCEPT ![h] = <<s, o>>]
  BY <1>1, UAllocEffect DEF Inv, CacheInv
<1>4. uHeld'[h] = <<s, o>>
  BY <1>3 DEF Inv, CacheInv, UP!Inv, UP!TypeOK
<1>5. CacheInv'
  BY <1>1, <1>4, CachesKeepInv DEF Inv, U!Next, B!Next
<1>6. /\ B!Live' = B!Live /\ bGrow' = None /\ noFreeing' = None
      /\ Drops(bHeld, <<s, o>>, bHeld')
  BY <1>1, <1>4, BFreeEffect DEF Inv, CacheInv
<1>7. S!Live' = S!Live /\ UNCHANGED <<sHeld, sGrow>>
  BY <1>1 DEF S!Live, sVars
<1>8. CallTyped' /\ CallState' /\ PageState' /\ TrimOrder'
  BY <1>1, <1>2, <1>6, <1>7 DEF Inv, CallTyped, CallState, PageState, TrimOrder
<1>9. \A r \in Slab, x \in 1 .. UCap :
        /\ bHeld'[<<r, x>>] = IF r = s /\ x = o THEN None ELSE bHeld[<<r, x>>]
        /\ x \in uFree'[r] <=> x \in uFree[r] /\ ~(r = s /\ x = o)
  BY <1>3, <1>6, CacheFacts DEF Inv, Drops
<1>10. BufctlsMatch'
  BY ZenonT(40), <1>1, <1>2, <1>9, <1>3 DEF Inv, BufctlsMatch
<1>11. SlabObjectsMatch' /\ PagesApart'
  BY <1>1, <1>2, <1>6, <1>7 DEF Inv, SlabObjectsMatch, PagesApart
<1>. QED
  BY <1>5, <1>8, <1>10, <1>11 DEF Inv

LEMMA AllocNewSlabKeepsInv ==
  ASSUME AllowedUse, Inv, NEW h \in Holder, NEW s \in Slab, AllocNewSlab(h, s)
  PROVE  Inv'
<1>1. /\ stage = "idle" /\ trimming = "no" /\ newSlab = None /\ sGrow = None /\ bGrow = None
      /\ sHeld[s] = None /\ stage' = "slab" /\ newSlab' = s /\ U!GrowBegin(h)
      /\ UNCHANGED <<bVars, sVars, pageOf, newPage, trimming, trimmed, panic>>
  BY DEF AllocNewSlab, At, Inv, CallState
<1>2. CacheInv'
  BY <1>1, CachesKeepInv DEF Inv, U!Next
<1>3. /\ U!Live' = U!Live /\ B!Live' = B!Live /\ S!Live' = S!Live /\ uGrow' = h
      /\ UNCHANGED <<uEmpty, uFree, uFreeing, bEmpty, bHeld, bGrow, sHeld, sGrow,
                     alive, noFreeing>>
  BY <1>1 DEF U!Live, B!Live, S!Live, U!GrowBegin, U!lists, bVars, sVars
<1>4. s \notin U!Live /\ h # None
  BY <1>1, NoneAssumption DEF Inv, SlabObjectsMatch
<1>5. CallTyped' /\ CallState' /\ PageState' /\ TrimOrder'
  BY <1>1, <1>3, <1>4 DEF Inv, CallTyped, CallState, PageState, TrimOrder
<1>6. BufctlsMatch' /\ SlabObjectsMatch' /\ PagesApart'
  BY <1>1, <1>3, <1>4, NoneAssumption DEF Inv, BufctlsMatch, SlabObjectsMatch, PagesApart
<1>. QED
  BY <1>2, <1>5, <1>6 DEF Inv

LEMMA GetSlabObjectKeepsInv ==
  ASSUME AllowedUse, Inv, GetSlabObject
  PROVE  Inv'
<1>1. /\ stage = "slab" /\ trimming = "no" /\ sGrow = None /\ bGrow = None
      /\ newSlab \in Slab /\ newSlab \notin U!Live /\ newPage = None
      /\ UNCHANGED <<uVars, bVars, pageOf, newSlab, newPage, trimming, trimmed, panic>>
  BY DEF GetSlabObject, At, Inv, CallState, PageState
<1>2. /\ U!Live' = U!Live /\ B!Live' = B!Live
      /\ UNCHANGED <<uGrow, uEmpty, uFree, uFreeing, bEmpty, bHeld, bGrow, alive, noFreeing>>
  BY <1>1 DEF U!Live, B!Live, uVars, bVars
<1>3. ASSUME NEW p \in HeapPage, S!AllocExisting(newSlab, p), stage' = "page"
      PROVE  Inv'
  <2>1. CacheInv'
    BY <1>1, <1>3, CachesKeepInv DEF Inv, S!Next
  <2>2. S!Live' = S!Live /\ Takes(sHeld, newSlab, sHeld') /\ sGrow' = sGrow
    BY <1>1, <1>3, SAllocEffect DEF Inv, CacheInv
  <2>3. CallTyped' /\ CallState' /\ PageState' /\ TrimOrder' /\ PagesApart'
    BY <1>1, <1>2, <1>3, <2>2 DEF Inv, CallTyped, CallState, PageState, TrimOrder, PagesApart
  <2>4. BufctlsMatch' /\ SlabObjectsMatch'
    BY <1>1, <1>2, <1>3, <2>2, CacheFacts DEF Inv, BufctlsMatch, SlabObjectsMatch, Takes
  <2>. QED
    BY <2>1, <2>3, <2>4 DEF Inv
<1>4. CASE S!GrowBegin(newSlab) /\ UNCHANGED stage
  <2>1. CacheInv'
    BY <1>1, <1>4, CachesKeepInv DEF Inv, S!Next
  <2>2. S!Live' = S!Live /\ UNCHANGED sHeld /\ sGrow' = newSlab
    BY <1>4 DEF S!GrowBegin, S!Live, S!lists
  <2>3. CallTyped' /\ CallState' /\ PageState' /\ TrimOrder' /\ PagesApart'
    BY <1>1, <1>2, <1>4, <2>2 DEF Inv, CallTyped, CallState, PageState, TrimOrder, PagesApart
  <2>4. BufctlsMatch' /\ SlabObjectsMatch'
    BY <1>1, <1>2, <1>4, <2>2 DEF Inv, BufctlsMatch, SlabObjectsMatch
  <2>. QED
    BY <2>1, <2>3, <2>4 DEF Inv
<1>. QED
  BY <1>3, <1>4 DEF GetSlabObject

\* A bufctl for a buffer of the new slab, or for the buffer that is being freed.
LEMMA GetBufctlKeepsInv ==
  ASSUME AllowedUse, Inv, NEW x \in Slab \X (1 .. UCap), GetBufctl(x), trimming = "no",
         (stage = "bufctls" /\ x[1] = newSlab) \/ (stage = "bufctl" /\ x = uFreeing)
  PROVE  Inv'
<1>1. /\ sGrow = None /\ bGrow = None /\ newPage = None
      /\ UNCHANGED <<uVars, sVars, pageOf, stage, newSlab, newPage, trimming, trimmed, panic>>
  BY DEF GetBufctl, Inv, CallState, PageState
<1>2. /\ U!Live' = U!Live /\ S!Live' = S!Live
      /\ UNCHANGED <<uGrow, uEmpty, uFree, uFreeing, sHeld, sGrow, alive, noFreeing>>
  BY <1>1 DEF U!Live, S!Live, uVars, sVars
<1>3. ASSUME NEW p \in HeapPage, B!AllocExisting(x, p)
      PROVE  Inv'
  <2>1. CacheInv'
    BY <1>1, <1>3, CachesKeepInv DEF Inv, B!Next
  <2>2. /\ B!Live' = B!Live /\ bEmpty' \subseteq bEmpty /\ Takes(bHeld, x, bHeld')
        /\ bGrow' = bGrow
    BY <1>3, BAllocEffect DEF Inv, CacheInv
  <2>3. CallTyped' /\ CallState' /\ PageState' /\ TrimOrder' /\ PagesApart'
    BY <1>1, <1>2, <2>2 DEF Inv, CallTyped, CallState, PageState, TrimOrder, PagesApart
  <2>4. \A s \in Slab, o \in 1 .. UCap :
          <<s, o>> # x => bHeld'[<<s, o>>] = bHeld[<<s, o>>]
    BY <2>2, CacheFacts DEF Inv, Takes
  <2>5. BufctlsMatch' /\ SlabObjectsMatch'
    BY <1>1, <1>2, <2>2, <2>4 DEF Inv, BufctlsMatch, SlabObjectsMatch, Takes
  <2>. QED
    BY <2>1, <2>3, <2>5 DEF Inv
<1>4. CASE B!GrowBegin(x)
  <2>1. CacheInv'
    BY <1>1, <1>4, CachesKeepInv DEF Inv, B!Next
  <2>2. B!Live' = B!Live /\ UNCHANGED <<bEmpty, bHeld>> /\ bGrow' = x
    BY <1>4 DEF B!GrowBegin, B!Live, B!lists
  <2>3. CallTyped' /\ CallState' /\ PageState' /\ TrimOrder' /\ PagesApart'
    BY <1>1, <1>2, <2>2 DEF Inv, CallTyped, CallState, PageState, TrimOrder, PagesApart
  <2>4. BufctlsMatch' /\ SlabObjectsMatch'
    BY <1>1, <1>2, <2>2 DEF Inv, BufctlsMatch, SlabObjectsMatch
  <2>. QED
    BY <2>1, <2>3, <2>4 DEF Inv
<1>. QED
  BY <1>3, <1>4 DEF GetBufctl

LEMMA NewSlabDoneKeepsInv ==
  ASSUME AllowedUse, Inv, NewSlabDone
  PROVE  Inv'
<1>1. /\ stage = "bufctls" /\ trimming = "no" /\ sGrow = None /\ bGrow = None
      /\ newSlab \in Slab /\ newSlab \notin U!Live /\ uFreeing = None /\ newPage = None
      /\ \A o \in 1 .. UCap : bHeld[<<newSlab, o>>] # None
      /\ stage' = "idle" /\ newSlab' = None
      /\ UNCHANGED <<sVars, pageOf, newPage, trimming, trimmed, panic>>
      /\ U!GrowEnd(newSlab) /\ B!Free(uHeld'[uGrow])
  BY DEF NewSlabDone, At, Inv, CallState, PageState
<1>2. /\ U!Live' = U!Live \cup {newSlab} /\ uEmpty' = uEmpty
      /\ UNCHANGED <<uFreeing, alive>> /\ uGrow \in Holder /\ uGrow' = None
  BY <1>1, UGrowEndEffect DEF Inv, CacheInv
<1>3. PICK o \in 1 .. UCap : /\ uFree' = [uFree EXCEPT ![newSlab] = (1 .. UCap) \ {o}]
                             /\ uHeld' = [uHeld EXCEPT ![uGrow] = <<newSlab, o>>]
  BY <1>1, UGrowEndEffect DEF Inv, CacheInv
<1>4. uHeld'[uGrow] = <<newSlab, o>>
  BY <1>2, <1>3 DEF Inv, CacheInv, UP!Inv, UP!TypeOK
<1>5. CacheInv'
  BY <1>1, <1>4, CachesKeepInv DEF Inv, U!Next, B!Next
<1>6. /\ B!Live' = B!Live /\ bGrow' = None /\ noFreeing' = None
      /\ Drops(bHeld, <<newSlab, o>>, bHeld')
  BY <1>1, <1>4, BFreeEffect DEF Inv, CacheInv
<1>7. S!Live' = S!Live /\ UNCHANGED <<sHeld, sGrow>>
  BY <1>1 DEF S!Live, sVars
<1>8. CallTyped' /\ CallState' /\ PageState' /\ TrimOrder'
  BY <1>1, <1>2, <1>6, <1>7 DEF Inv, CallTyped, CallState, PageState, TrimOrder
<1>9. \A r \in Slab, x \in 1 .. UCap :
        /\ bHeld'[<<r, x>>] = IF r = newSlab /\ x = o THEN None ELSE bHeld[<<r, x>>]
        /\ x \in uFree'[r] <=> IF r = newSlab THEN x # o ELSE x \in uFree[r]
  BY <1>1, <1>3, <1>6, CacheFacts DEF Inv, Drops
<1>10. BufctlsMatch'
  <2>. SUFFICES ASSUME NEW r \in Slab, NEW x \in 1 .. UCap
                PROVE  /\ bHeld'[<<r, x>>] # None => r \in U!Live' /\ x \in uFree'[r]
                       /\ r \in U!Live' /\ x \in uFree'[r] => bHeld'[<<r, x>>] # None
    BY DEF BufctlsMatch
  <2>1. CASE r = newSlab
    BY <1>1, <1>2, <1>9, <2>1
  <2>2. CASE r # newSlab
    BY <1>1, <1>2, <1>9, <2>2, NoneAssumption DEF Inv, BufctlsMatch
  <2>. QED
    BY <2>1, <2>2
<1>11. SlabObjectsMatch' /\ PagesApart'
  BY <1>1, <1>2, <1>6, <1>7 DEF Inv, SlabObjectsMatch, PagesApart
<1>. QED
  BY <1>5, <1>8, <1>10, <1>11 DEF Inv

-----------------------------------------------------------------------------
(* kmm_cache_free(U) *)

LEMMA FreeKeepsInv ==
  ASSUME AllowedUse, Inv, NEW h \in Holder, Free(h)
  PROVE  Inv'
<1>1. /\ stage = "idle" /\ trimming = "no" /\ newSlab = None /\ sGrow = None /\ bGrow = None
      /\ uFreeing = None /\ newPage = None /\ trimmed = "no"
      /\ stage' = "bufctl" /\ U!Free(h)
      /\ UNCHANGED <<bVars, sVars, pageOf, newSlab, newPage, trimming, trimmed, panic>>
  BY DEF Free, At, Inv, CallState, PageState
<1>2. CacheInv'
  BY <1>1, CachesKeepInv DEF Inv, U!Next
<1>3. /\ uHeld[h] # None /\ U!Live' = U!Live /\ UNCHANGED <<uGrow, uFree, alive>>
      /\ uFreeing' = uHeld[h]
  BY <1>1, UFreeEffect DEF Inv, CacheInv
<1>4. /\ B!Live' = B!Live /\ S!Live' = S!Live
      /\ UNCHANGED <<bEmpty, bHeld, bGrow, sHeld, sGrow, noFreeing>>
  BY <1>1 DEF B!Live, S!Live, bVars, sVars
<1>5. CallTyped' /\ CallState' /\ PageState' /\ TrimOrder'
  BY <1>1, <1>3, <1>4 DEF Inv, CallTyped, CallState, PageState, TrimOrder
<1>6. BufctlsMatch'
  <2>. SUFFICES ASSUME NEW r \in Slab, NEW x \in 1 .. UCap
                PROVE  /\ bHeld[<<r, x>>] # None => r \in U!Live /\ x \in uFree[r]
                       /\ r \in U!Live /\ x \in uFree[r] => bHeld[<<r, x>>] # None
    BY <1>3, <1>4 DEF BufctlsMatch
  <2>1. <<r, x>> # None
    BY NoneAssumption
  <2>. QED
    BY <1>1, <2>1 DEF Inv, BufctlsMatch
<1>7. SlabObjectsMatch' /\ PagesApart'
  BY <1>1, <1>3, <1>4 DEF Inv, SlabObjectsMatch, PagesApart
<1>. QED
  BY <1>2, <1>5, <1>6, <1>7 DEF Inv

LEMMA FreeDoneKeepsInv ==
  ASSUME AllowedUse, Inv, FreeDone
  PROVE  Inv'
<1>1. /\ stage = "bufctl" /\ trimming = "no" /\ newSlab = None /\ sGrow = None /\ bGrow = None
      /\ newPage = None /\ trimmed = "no" /\ bHeld[uFreeing] # None /\ uFreeing # None
      /\ stage' = "idle" /\ U!FreeEnd
      /\ UNCHANGED <<bVars, sVars, pageOf, newSlab, newPage, trimming, trimmed, panic>>
  BY DEF FreeDone, At, Inv, CallState, PageState
<1>2. CacheInv'
  BY <1>1, CachesKeepInv DEF Inv, U!Next
<1>3. PICK s \in Slab, o \in 1 .. UCap : uFreeing = <<s, o>> /\ s \in U!Live
  BY <1>1, CacheFacts DEF Inv
<1>4. /\ U!Live' = U!Live /\ UNCHANGED <<uGrow, uEmpty, alive>> /\ uFreeing' = None
      /\ uFree' = [uFree EXCEPT ![s] = @ \cup {o}]
  BY <1>1, <1>3 DEF U!FreeEnd, U!Live, U!lists
<1>5. /\ B!Live' = B!Live /\ S!Live' = S!Live
      /\ UNCHANGED <<bEmpty, bHeld, bGrow, sHeld, sGrow, noFreeing>>
  BY <1>1 DEF B!Live, S!Live, bVars, sVars
<1>6. CallTyped' /\ CallState' /\ PageState' /\ TrimOrder'
  BY <1>1, <1>4, <1>5 DEF Inv, CallTyped, CallState, PageState, TrimOrder
<1>7. \A r \in Slab, x \in 1 .. UCap :
        x \in uFree'[r] <=> x \in uFree[r] \/ (r = s /\ x = o)
  BY <1>4, CacheFacts DEF Inv
<1>8. BufctlsMatch'
  BY <1>1, <1>3, <1>4, <1>5, <1>7 DEF Inv, BufctlsMatch
<1>9. SlabObjectsMatch' /\ PagesApart'
  BY <1>1, <1>4, <1>5 DEF Inv, SlabObjectsMatch, PagesApart
<1>. QED
  BY <1>2, <1>6, <1>8, <1>9 DEF Inv

-----------------------------------------------------------------------------
(* kmm_cache_trim_all *)

LEMMA TrimAllKeepsInv ==
  ASSUME AllowedUse, Inv, TrimAll
  PROVE  Inv'
<1>1. /\ stage = "idle" /\ trimming = "no" /\ newSlab = None /\ sGrow = None /\ bGrow = None
      /\ newPage = None /\ trimmed = "no" /\ stage' = "trim" /\ trimming' = "U"
      /\ UNCHANGED <<uVars, bVars, sVars, pageOf, newSlab, newPage, trimmed, panic>>
  BY DEF TrimAll, At, Inv, CallState, PageState
<1>2. CacheInv'
  BY <1>1, CachesKeepInv DEF Inv
<1>3. /\ U!Live' = U!Live /\ B!Live' = B!Live /\ S!Live' = S!Live
      /\ UNCHANGED <<uGrow, uEmpty, uFree, uFreeing, bEmpty, bHeld, bGrow, sHeld, sGrow,
                     alive, noFreeing>>
  BY <1>1 DEF U!Live, B!Live, S!Live, uVars, bVars, sVars
<1>4. CallTyped' /\ CallState' /\ PageState' /\ TrimOrder'
  BY <1>1, <1>3 DEF Inv, CallTyped, CallState, PageState, TrimOrder
<1>5. BufctlsMatch' /\ SlabObjectsMatch' /\ PagesApart'
  BY <1>1, <1>3 DEF Inv, BufctlsMatch, SlabObjectsMatch, PagesApart
<1>. QED
  BY <1>2, <1>4, <1>5 DEF Inv

LEMMA TrimBufctlKeepsInv ==
  ASSUME AllowedUse, Inv, NEW s \in Slab, NEW o \in 1 .. UCap, TrimBufctl(s, o)
  PROVE  Inv'
<1>1. /\ trimming = "U" /\ s \in uEmpty /\ B!Free(<<s, o>>)
      /\ UNCHANGED <<uVars, sVars, pageOf, stage, newSlab, newPage, trimming, trimmed, panic>>
  BY DEF TrimBufctl
<1>2. CacheInv'
  BY <1>1, CachesKeepInv DEF Inv, B!Next
<1>3. B!Live' = B!Live /\ UNCHANGED bGrow /\ noFreeing' = None /\ Drops(bHeld, <<s, o>>, bHeld')
  BY <1>1, BFreeEffect DEF Inv, CacheInv
<1>4. /\ U!Live' = U!Live /\ S!Live' = S!Live
      /\ UNCHANGED <<uGrow, uEmpty, uFree, uFreeing, sHeld, sGrow, alive>>
  BY <1>1 DEF U!Live, S!Live, uVars, sVars
<1>5. CallTyped' /\ CallState' /\ PageState' /\ TrimOrder'
  BY <1>1, <1>3, <1>4 DEF Inv, CallTyped, CallState, PageState, TrimOrder
<1>6. \A r \in Slab, x \in 1 .. UCap :
        bHeld'[<<r, x>>] = IF r = s /\ x = o THEN None ELSE bHeld[<<r, x>>]
  BY <1>3, CacheFacts DEF Inv, Drops
<1>7. BufctlsMatch'
  BY <1>1, <1>4, <1>6 DEF Inv, BufctlsMatch
<1>8. SlabObjectsMatch' /\ PagesApart'
  BY <1>1, <1>3, <1>4 DEF Inv, SlabObjectsMatch, PagesApart
<1>. QED
  BY <1>2, <1>5, <1>7, <1>8 DEF Inv

LEMMA TrimSlabKeepsInv ==
  ASSUME AllowedUse, Inv, NEW s \in Slab, TrimSlab(s)
  PROVE  Inv'
<1>1. /\ trimming = "U" /\ \A o \in uFree[s] : bHeld[<<s, o>>] = None
      /\ U!Trim(s) /\ S!Free(s) /\ pageOf' = [pageOf EXCEPT ![s] = None]
      /\ trimmed' = (IF trimmed = "nothing" THEN "some" ELSE trimmed)
      /\ UNCHANGED <<bVars, stage, newSlab, newPage, trimming, panic>>
  BY DEF TrimSlab, PageGivenBack
<1>2. CacheInv'
  BY <1>1, CachesKeepInv DEF Inv, U!Next, S!Next
<1>3. /\ s \in U!Live /\ U!Live' = U!Live \ {s} /\ uEmpty' = uEmpty \ {s}
      /\ UNCHANGED <<uGrow, uFreeing, alive>> /\ uFree[s] = 1 .. UCap
      /\ uFree' = [r \in Slab |-> IF r = s THEN {} ELSE uFree[r]]
  BY <1>1, UTrimEffect DEF Inv, CacheInv
<1>4. S!Live' = S!Live /\ UNCHANGED sGrow /\ noFreeing' = None /\ Drops(sHeld, s, sHeld')
  BY <1>1, SFreeEffect DEF Inv, CacheInv
<1>5. B!Live' = B!Live /\ UNCHANGED <<bEmpty, bHeld, bGrow>>
  BY <1>1 DEF B!Live, bVars
<1>6. stage # "bufctl" /\ uFreeing = None /\ s # newSlab
  BY <1>1, <1>3, NoneAssumption DEF Inv, CallState, PageState
<1>7. \A r \in Slab : pageOf'[r] = IF r = s THEN None ELSE pageOf[r]
  BY <1>1 DEF Inv, CallTyped
<1>8. CallTyped'
  BY <1>1 DEF Inv, CallTyped
<1>9. CallState' /\ PageState' /\ TrimOrder'
  BY <1>1, <1>3, <1>4, <1>5 DEF Inv, CallState, PageState, TrimOrder
<1>10. BufctlsMatch'
  BY <1>1, <1>3, <1>5, <1>6 DEF Inv, BufctlsMatch
<1>11. \A r \in Slab : r # s => sHeld'[r] = sHeld[r]
  BY <1>4, CacheFacts DEF Inv, Drops
<1>12. SlabObjectsMatch'
  BY <1>1, <1>3, <1>4, <1>6, <1>7, <1>11 DEF Inv, SlabObjectsMatch, Drops
<1>13. None \notin B!Live \cup S!Live
  BY CacheFacts, NoneAssumption DEF Inv
<1>14. PagesApart'
  BY <1>1, <1>4, <1>5, <1>7, <1>13 DEF Inv, PagesApart
<1>. QED
  BY <1>2, <1>8, <1>9, <1>10, <1>12, <1>14 DEF Inv

LEMMA TrimSmallKeepsInv ==
  ASSUME AllowedUse, Inv, NEW p \in HeapPage, TrimSmall(p)
  PROVE  Inv'
<1>1. /\ trimming \in {"B", "S"}
      /\ trimmed' = (IF trimmed = "nothing" THEN "some" ELSE trimmed)
      /\ UNCHANGED <<uVars, pageOf, stage, newSlab, newPage, trimming, panic>>
  BY DEF TrimSmall, PageGivenBack
<1>2. U!Live' = U!Live /\ UNCHANGED <<uGrow, uEmpty, uFree, uFreeing, alive>>
  BY <1>1 DEF U!Live, uVars
<1>3. /\ CacheInv' /\ B!Live' \subseteq B!Live /\ S!Live' \subseteq S!Live
      /\ bEmpty' \subseteq bEmpty
      /\ UNCHANGED <<bHeld, bGrow, sHeld, sGrow, noFreeing>>
  <2>1. CASE B!Trim(p) /\ UNCHANGED sVars
    BY <1>1, <2>1, CachesKeepInv, BTrimEffect DEF Inv, CacheInv, B!Next, S!Live, sVars
  <2>2. CASE S!Trim(p) /\ UNCHANGED bVars
    BY <1>1, <2>2, CachesKeepInv, STrimEffect DEF Inv, CacheInv, S!Next, B!Live, bVars
  <2>. QED
    BY <2>1, <2>2 DEF TrimSmall
<1>4. CallTyped' /\ CallState' /\ PageState' /\ TrimOrder'
  BY <1>1, <1>2, <1>3 DEF Inv, CallTyped, CallState, PageState, TrimOrder
<1>5. BufctlsMatch' /\ SlabObjectsMatch' /\ PagesApart'
  BY <1>1, <1>2, <1>3 DEF Inv, BufctlsMatch, SlabObjectsMatch, PagesApart
<1>. QED
  BY <1>3, <1>4, <1>5 DEF Inv

LEMMA TrimNextCacheKeepsInv ==
  ASSUME AllowedUse, Inv, TrimNextCache
  PROVE  Inv'
<1>1. /\ \/ trimming = "U" /\ uEmpty = {} /\ trimming' = "B"
         \/ trimming = "B" /\ bEmpty = {} /\ trimming' = "S"
         \/ trimming = "S" /\ sEmpty = {} /\ trimming' = "no"
      /\ stage' = (IF trimming' = "no" /\ stage = "trim" THEN "idle" ELSE stage)
      /\ UNCHANGED <<uVars, bVars, sVars, pageOf, newSlab, newPage, trimmed, panic>>
  BY DEF TrimNextCache, NextCache
<1>2. CacheInv'
  BY <1>1, CachesKeepInv DEF Inv
<1>3. /\ U!Live' = U!Live /\ B!Live' = B!Live /\ S!Live' = S!Live
      /\ UNCHANGED <<uGrow, uEmpty, uFree, uFreeing, bEmpty, bHeld, bGrow, sHeld, sGrow,
                     alive, noFreeing>>
  BY <1>1 DEF U!Live, B!Live, S!Live, uVars, bVars, sVars
<1>4. CallTyped' /\ CallState'
  BY ZenonT(40), <1>1, <1>3 DEF Inv, CallTyped, CallState
<1>5. PageState' /\ TrimOrder'
  BY <1>1, <1>3 DEF Inv, CallState, PageState, TrimOrder
<1>6. BufctlsMatch' /\ SlabObjectsMatch' /\ PagesApart'
  BY <1>1, <1>3 DEF Inv, TrimOrder, BufctlsMatch, SlabObjectsMatch, PagesApart
<1>. QED
  BY <1>2, <1>4, <1>5, <1>6 DEF Inv

-----------------------------------------------------------------------------
(* The invariant holds of every behaviour *)

LEMMA InvInit == Init => Inv
<1>. SUFFICES ASSUME Init PROVE Inv
  OBVIOUS
<1>1. UP!Inv
  <2>1. UP!Init
    BY DEF Init, U!Init, UP!Init
  <2>. QED
    BY <2>1, UP!InvInit, CapacityAssumption, ShortInFreeAssumption, NoneAssumption
      DEF UP!CapacityAssumption, UP!FlagsAssumption, UP!NoneAssumption, UP!Object, UP!Slot
<1>2. BP!Inv
  <2>1. BP!Init
    BY DEF Init, B!Init, BP!Init
  <2>. QED
    BY <2>1, BP!InvInit, CapacityAssumption, NoneAssumption
      DEF BP!CapacityAssumption, BP!FlagsAssumption, BP!NoneAssumption, BP!Object, BP!Slot
<1>3. SP!Inv
  <2>1. SP!Init
    BY DEF Init, S!Init, SP!Init
  <2>. QED
    BY <2>1, SP!InvInit, CapacityAssumption, NoneAssumption
      DEF SP!CapacityAssumption, SP!FlagsAssumption, SP!NoneAssumption, SP!Object, SP!Slot
<1>4. CallTyped
  BY DEF Init, CallTyped
<1>5. U!Live = {} /\ B!Live = {} /\ S!Live = {}
  BY DEF Init, U!Init, B!Init, S!Init, U!Live, B!Live, S!Live
<1>6. CallState /\ PageState /\ TrimOrder
  BY <1>5 DEF Init, U!Init, B!Init, S!Init, CallState, PageState, TrimOrder
<1>7. BufctlsMatch
  BY <1>5 DEF Init, B!Init, BufctlsMatch
<1>8. SlabObjectsMatch /\ PagesApart
  BY <1>5 DEF Init, S!Init, SlabObjectsMatch, PagesApart
<1>. QED
  BY <1>1, <1>2, <1>3, <1>4, <1>6, <1>7, <1>8 DEF Inv, CacheInv

LEMMA InvNext ==
  ASSUME AllowedUse, Inv, [Next]_vars
  PROVE  Inv'
<1>1. ASSUME NEW h \in Holder, Free(h) PROVE Inv'
  BY <1>1, FreeKeepsInv
<1>2. ASSUME NEW h \in Holder, NEW s \in Slab, Alloc(h, s) PROVE Inv'
  BY <1>2, AllocKeepsInv
<1>3. ASSUME NEW h \in Holder, NEW s \in Slab, AllocNewSlab(h, s) PROVE Inv'
  BY <1>3, AllocNewSlabKeepsInv
<1>4. CASE TrimAll
  BY <1>4, TrimAllKeepsInv
<1>5. ASSUME NEW p \in HeapPage, PageAlloc(p) PROVE Inv'
  BY <1>5, PageAllocKeepsInv
<1>6. ASSUME NEW p \in HeapPage, TrimSmall(p) PROVE Inv'
  BY <1>6, TrimSmallKeepsInv
<1>7. CASE PageAllocFails
  BY <1>7, PageAllocFailsKeepsInv
<1>8. CASE PageWritten
  BY <1>8, PageWrittenKeepsInv
<1>9. CASE PageFault
  BY <1>9, PageFaultKeepsInv
<1>10. CASE GetSlabObject
  BY <1>10, GetSlabObjectKeepsInv
<1>11. CASE NewSlabDone
  BY <1>11, NewSlabDoneKeepsInv
<1>12. CASE GetFreeBufctl
  <2>1. stage = "bufctl" /\ trimming = "no" /\ GetBufctl(uFreeing)
    BY <1>12 DEF GetFreeBufctl, At
  <2>2. uFreeing \in Slab \X (1 .. UCap)
    BY <2>1, CacheFacts DEF Inv, CallState
  <2>. QED
    BY <2>1, <2>2, GetBufctlKeepsInv
<1>13. CASE FreeDone
  BY <1>13, FreeDoneKeepsInv
<1>14. CASE TrimNextCache
  BY <1>14, TrimNextCacheKeepsInv
<1>15. ASSUME NEW o \in 1 .. UCap, GetNewBufctl(o) PROVE Inv'
  <2>1. stage = "bufctls" /\ trimming = "no" /\ GetBufctl(<<newSlab, o>>) /\ newSlab \in Slab
    BY <1>15 DEF GetNewBufctl, At, Inv, CallState
  <2>. QED
    BY <2>1, GetBufctlKeepsInv
<1>16. ASSUME NEW s \in Slab, NEW o \in 1 .. UCap, TrimBufctl(s, o) PROVE Inv'
  BY <1>16, TrimBufctlKeepsInv
<1>17. ASSUME NEW s \in Slab, TrimSlab(s) PROVE Inv'
  BY <1>17, TrimSlabKeepsInv
<1>18. CASE UNCHANGED vars
  <2>1. CacheInv'
    BY <1>18, CachesKeepInv DEF Inv, vars
  <2>2. U!Live' = U!Live /\ B!Live' = B!Live /\ S!Live' = S!Live
    BY <1>18 DEF vars, uVars, bVars, sVars, U!Live, B!Live, S!Live
  <2>3. CallTyped' /\ CallState'
    <3>1. CallTyped'
      BY <1>18 DEF vars, Inv, CallTyped
    <3>2. CallState'
      BY <1>18, <2>2 DEF vars, uVars, bVars, sVars, Inv, CallState
    <3>. QED
      BY <3>1, <3>2
  <2>4. PageState' /\ TrimOrder'
    BY <1>18 DEF vars, uVars, bVars, sVars, Inv, PageState, TrimOrder
  <2>5. BufctlsMatch' /\ SlabObjectsMatch' /\ PagesApart'
    BY <1>18, <2>2
      DEF vars, uVars, bVars, sVars, Inv, BufctlsMatch, SlabObjectsMatch, PagesApart
  <2>. QED
    BY <2>1, <2>3, <2>4, <2>5 DEF Inv
<1>. QED
  BY <1>1, <1>2, <1>3, <1>4, <1>5, <1>6, <1>7, <1>8, <1>9, <1>10, <1>11, <1>12, <1>13,
     <1>14, <1>15, <1>16, <1>17, <1>18 DEF Next, Call, Work

LEMMA InvHolds ==
  ASSUME AllowedUse
  PROVE  Spec => []Inv
BY InvInit, InvNext, PTL DEF Spec

-----------------------------------------------------------------------------
(* What the invariant gives *)

LEMMA InvBalances ==
  ASSUME Inv
  PROVE  MetadataBalanced
<1>. SUFFICES ASSUME stage = "idle"
              PROVE  /\ \A s \in Slab, o \in 1 .. UCap :
                          bHeld[<<s, o>>] # None <=> s \in U!Live /\ o \in uFree[s]
                     /\ \A s \in Slab : /\ sHeld[s] # None <=> s \in U!Live
                                        /\ pageOf[s] # None <=> s \in U!Live
                     /\ \A s, t \in U!Live : s # t => pageOf[s] # pageOf[t]
  BY DEF MetadataBalanced
<1>1. trimming = "no" /\ newSlab = None /\ uFreeing = None
  BY DEF Inv, PageState, CallState
<1>2. \A s \in Slab, o \in 1 .. UCap :
        bHeld[<<s, o>>] # None <=> s \in U!Live /\ o \in uFree[s]
  <2>. SUFFICES ASSUME NEW s \in Slab, NEW o \in 1 .. UCap
                PROVE  bHeld[<<s, o>>] # None <=> s \in U!Live /\ o \in uFree[s]
    OBVIOUS
  <2>1. <<s, o>> # None
    BY NoneAssumption
  <2>. QED
    BY <1>1, <2>1 DEF Inv, BufctlsMatch
<1>3. \A s \in Slab : /\ sHeld[s] # None <=> s \in U!Live
                      /\ pageOf[s] # None <=> s \in U!Live
  BY <1>1, NoneAssumption DEF Inv, SlabObjectsMatch
<1>4. \A s, t \in U!Live : s # t => pageOf[s] # pageOf[t]
  BY <1>3, CacheFacts DEF Inv, PagesApart
<1>. QED
  BY <1>2, <1>3, <1>4

LEMMA InvTyped ==
  ASSUME Inv
  PROVE  TypeOK
<1>1. U!TypeOK
  BY DEF Inv, CacheInv, UP!Inv, UP!TypeOK, U!TypeOK, UP!Object, U!Object, UP!Slot, U!Slot
<1>2. B!TypeOK
  BY DEF Inv, CacheInv, BP!Inv, BP!TypeOK, B!TypeOK, BP!Object, B!Object, BP!Slot, B!Slot
<1>3. S!TypeOK
  BY DEF Inv, CacheInv, SP!Inv, SP!TypeOK, S!TypeOK, SP!Object, S!Object, SP!Slot, S!Slot
<1>. QED
  BY <1>1, <1>2, <1>3 DEF Inv, CallTyped, TypeOK

LEMMA InvSound ==
  ASSUME Inv
  PROVE  CachesSound
<1>1. U!NoFault /\ U!BuffersAccountedFor
  <2>1. U!NoFault
    BY DEF Inv, CacheInv, UP!Inv, UP!NoFault, U!NoFault
  <2>2. ASSUME NEW s \in UP!Live
        PROVE  U!SlabAccounted(s)
    <3>1. UP!SlabAccounted(s)
      BY DEF Inv, CacheInv, UP!Inv, UP!BuffersAccountedFor
    <3>2. \A o : U!Unclaimed(s, o) <=> UP!Unclaimed(s, o)
      BY DEF UP!Unclaimed, U!Unclaimed
    <3>3. U!Pending(s) = UP!Pending(s) /\ U!Slot = UP!Slot
      BY DEF UP!Pending, U!Pending, UP!Slot, U!Slot
    <3>4. \A F : U!Cardinality(F) = UP!Cardinality(F)
      BY DEF U!Cardinality, UP!Cardinality, U!IsFiniteSet, UP!IsFiniteSet
    <3>. QED
      BY <3>1, <3>2, <3>3, <3>4 DEF UP!SlabAccounted, U!SlabAccounted
  <2>. QED
    BY <2>1, <2>2 DEF U!BuffersAccountedFor, U!Live, UP!Live
<1>2. B!NoFault /\ B!BuffersAccountedFor
  <2>1. B!NoFault
    BY DEF Inv, CacheInv, BP!Inv, BP!NoFault, B!NoFault
  <2>2. ASSUME NEW s \in BP!Live
        PROVE  B!SlabAccounted(s)
    <3>1. BP!SlabAccounted(s)
      BY DEF Inv, CacheInv, BP!Inv, BP!BuffersAccountedFor
    <3>2. \A o : B!Unclaimed(s, o) <=> BP!Unclaimed(s, o)
      BY DEF BP!Unclaimed, B!Unclaimed
    <3>3. B!Pending(s) = BP!Pending(s) /\ B!Slot = BP!Slot
      BY DEF BP!Pending, B!Pending, BP!Slot, B!Slot
    <3>4. \A F : B!Cardinality(F) = BP!Cardinality(F)
      BY DEF B!Cardinality, BP!Cardinality, B!IsFiniteSet, BP!IsFiniteSet
    <3>. QED
      BY <3>1, <3>2, <3>3, <3>4 DEF BP!SlabAccounted, B!SlabAccounted
  <2>. QED
    BY <2>1, <2>2 DEF B!BuffersAccountedFor, B!Live, BP!Live
<1>3. S!NoFault /\ S!BuffersAccountedFor
  <2>1. S!NoFault
    BY DEF Inv, CacheInv, SP!Inv, SP!NoFault, S!NoFault
  <2>2. ASSUME NEW s \in SP!Live
        PROVE  S!SlabAccounted(s)
    <3>1. SP!SlabAccounted(s)
      BY DEF Inv, CacheInv, SP!Inv, SP!BuffersAccountedFor
    <3>2. \A o : S!Unclaimed(s, o) <=> SP!Unclaimed(s, o)
      BY DEF SP!Unclaimed, S!Unclaimed
    <3>3. S!Pending(s) = SP!Pending(s) /\ S!Slot = SP!Slot
      BY DEF SP!Pending, S!Pending, SP!Slot, S!Slot
    <3>4. \A F : S!Cardinality(F) = SP!Cardinality(F)
      BY DEF S!Cardinality, SP!Cardinality, S!IsFiniteSet, SP!IsFiniteSet
    <3>. QED
      BY <3>1, <3>2, <3>3, <3>4 DEF SP!SlabAccounted, S!SlabAccounted
  <2>. QED
    BY <2>1, <2>2 DEF S!BuffersAccountedFor, S!Live, SP!Live
<1>. QED
  BY <1>1, <1>2, <1>3, InvBalances, InvTyped DEF CachesSound

\* kmm.c: whatever page faults and trims come in the middle of the nested calls, no assertion
\* fails, no slab is used after it was destroyed, and no bufctl or slab object is lost.
THEOREM CachesAreSound ==
  ASSUME AllowedUse
  PROVE  Spec => []CachesSound
<1>1. Inv => CachesSound
  BY InvSound
<1>. QED
  BY InvHolds, <1>1, PTL

\* A user slab is gone when no object is in use and no slab is empty, and its metadata with it.
LEMMA NothingUsed ==
  ASSUME Inv, stage = "trim", trimming = "S", sEmpty = {}, \A h \in Holder : uHeld[h] = None
  PROVE  U!Live = {} /\ B!Live = {} /\ S!Live = {} /\ newPage = None /\ \A s \in Slab : pageOf[s] = None
<1>1. /\ uEmpty = {} /\ bEmpty = {} /\ uFreeing = None /\ noFreeing = None
      /\ newSlab = None /\ newPage = None
  BY DEF Inv, TrimOrder, CallState, PageState
<1>2. U!Live = {}
  <2>1. \A s \in UP!Live : s \in uEmpty
    BY <1>1, UP!UnusedIsEmpty, CapacityAssumption, ShortInFreeAssumption, NoneAssumption
      DEF Inv, CacheInv, UP!CapacityAssumption, UP!FlagsAssumption, UP!NoneAssumption,
          UP!Object, UP!Slot
  <2>. QED
    BY <1>1, <2>1 DEF U!Live, UP!Live
<1>3. \A x \in Slab \X (1 .. UCap) : bHeld[x] = None
  BY <1>1, <1>2, NoneAssumption DEF Inv, BufctlsMatch
<1>4. \A s \in Slab : sHeld[s] = None /\ pageOf[s] = None
  BY <1>1, <1>2, NoneAssumption DEF Inv, SlabObjectsMatch
<1>5. B!Live = {}
  <2>1. \A s \in BP!Live : s \in bEmpty
    BY <1>1, <1>3, BP!UnusedIsEmpty, CapacityAssumption, NoneAssumption
      DEF Inv, CacheInv, BP!CapacityAssumption, BP!FlagsAssumption, BP!NoneAssumption,
          BP!Object, BP!Slot
  <2>. QED
    BY <1>1, <2>1 DEF B!Live, BP!Live
<1>6. S!Live = {}
  <2>1. \A s \in SP!Live : s \in sEmpty
    BY <1>1, <1>4, SP!UnusedIsEmpty, CapacityAssumption, NoneAssumption
      DEF Inv, CacheInv, SP!CapacityAssumption, SP!FlagsAssumption, SP!NoneAssumption,
          SP!Object, SP!Slot
  <2>. QED
    BY <2>1 DEF S!Live, SP!Live
<1>. QED
  BY <1>1, <1>2, <1>4, <1>5, <1>6

\* kmm_cache_trim_all leaves no empty slab in any cache, and nothing at all when no object is
\* in use: the order of the caches is right.
THEOREM TrimAllIsComplete ==
  ASSUME AllowedUse
  PROVE  Spec => TrimAllComplete
<1>1. ASSUME Inv, [Next]_vars, trimming # "no", trimming' = "no"
      PROVE  /\ uEmpty = {} /\ bEmpty = {} /\ sEmpty = {}
             /\ stage = "trim" /\ (\A h \in Holder : uHeld[h] = None) => Used = {}
  <2>1. TrimNextCache
    BY <1>1 DEF Next, Call, Work, vars, Free, Alloc, AllocNewSlab, TrimAll, PageAlloc, TrimSmall,
                PageAllocFails, PageWritten, PageFault, GetSlabObject, NewSlabDone,
                GetFreeBufctl, GetNewBufctl, GetBufctl, FreeDone, TrimBufctl, TrimSlab, At, NeedsPage
  <2>2. trimming = "S" /\ sEmpty = {}
    BY <1>1, <2>1 DEF TrimNextCache, NextCache
  <2>3. uEmpty = {} /\ bEmpty = {}
    BY <1>1, <2>2 DEF Inv, TrimOrder
  <2>4. ASSUME stage = "trim", \A h \in Holder : uHeld[h] = None
        PROVE  Used = {}
    BY <1>1, <2>2, <2>4, NothingUsed DEF Used
  <2>. QED
    BY <2>2, <2>3, <2>4
<1>2. Inv /\ [Next]_vars =>
        [trimming # "no" /\ trimming' = "no" =>
           /\ uEmpty = {} /\ bEmpty = {} /\ sEmpty = {}
           /\ stage = "trim" /\ (\A h \in Holder : uHeld[h] = None) => Used = {}]_vars
  BY <1>1
<1>. QED
  BY InvHolds, <1>2, PTL DEF Spec, TrimAllComplete

=============================================================================
