--------------------------- MODULE SlabCacheProofs ---------------------------
(***************************************************************************)
(* A slab cache is safe for every capacity of at least two buffers, any    *)
(* slabs and any callers, as long as memory does not run out in the middle *)
(* of object_free.                                                         *)
(***************************************************************************)
EXTENDS SlabCache, FiniteSetTheorems, TLAPS

AllowedUse ==
  /\ Capacity >= 2
  /\ Large => ~TrimInFree

\* The slab of the object that is being freed exists, and nobody holds the object.
FreeInProgress ==
  freeing # None => /\ alive /\ Large
                    /\ freeing[1] \in Live /\ grow = None
                    /\ \A h \in Holder : held[h] # freeing

\* The holder that waits for a new slab holds nothing yet.
GrowInProgress ==
  grow # None => alive /\ held[grow] = None

Inv ==
  /\ TypeOK
  /\ NoFault
  /\ ListsMatchUse
  /\ BuffersAccountedFor
  /\ NoDoubleAllocation
  /\ HeldObjectsStay
  /\ ConstructedExactly
  /\ FreeInProgress
  /\ GrowInProgress

-----------------------------------------------------------------------------
(* Counting buffers *)

LEMMA SlotFinite ==
  /\ IsFiniteSet(Slot)
  /\ Cardinality(Slot) = Capacity
BY FS_Interval, CapacityAssumption DEF Slot

LEMMA FreeCount ==
  ASSUME NEW F \in SUBSET Slot
  PROVE  /\ Cardinality(F) \in 0 .. Capacity
         /\ Cardinality(F) = 0 <=> F = {}
         /\ Cardinality(F) = Capacity => F = Slot
         /\ \A o \in F : Cardinality(F \ {o}) = Cardinality(F) - 1
         /\ \A o \in Slot \ F : Cardinality(F \cup {o}) = Cardinality(F) + 1
<1>1. IsFiniteSet(F) /\ Cardinality(F) <= Capacity
  BY SlotFinite, FS_Subset
<1>2. Cardinality(F) \in Nat
  BY <1>1, FS_CardinalityType
<1>3. Cardinality(F) = 0 <=> F = {}
  BY <1>1, FS_EmptySet
<1>4. \A o \in F : Cardinality(F \ {o}) = Cardinality(F) - 1
  BY <1>1, FS_RemoveElement
<1>5. \A o \in Slot \ F : Cardinality(F \cup {o}) = Cardinality(F) + 1
  BY <1>1, FS_AddElement
<1>6. Cardinality(F) = Capacity => F = Slot
  BY SlotFinite, FS_Subset
<1>. QED
  BY <1>1, <1>2, <1>3, <1>4, <1>5, <1>6, CapacityAssumption

LEMMA LiveSlabs == TypeOK => Live \subseteq Slab
BY DEF TypeOK, Live

\* When no object is being freed, a slab that is not full has a free buffer.
LEMMA FreeBufferExists ==
  ASSUME Inv, freeing = None, NEW s \in Live, inuse[s] < Capacity
  PROVE  free[s] # {}
<1>1. free[s] \in SUBSET Slot /\ inuse[s] \in 0 .. Capacity
  BY LiveSlabs DEF Inv, TypeOK
<1>2. Cardinality(free[s]) + inuse[s] + 0 = Capacity
  BY DEF Inv, BuffersAccountedFor, SlabAccounted, Pending
<1>. QED
  BY <1>1, <1>2, FreeCount, CapacityAssumption

\* A step that changes nothing about slab r keeps its account.
LEMMA AccountFrame ==
  ASSUME NEW r, SlabAccounted(r), free'[r] = free[r], inuse'[r] = inuse[r],
         Pending(r)' = Pending(r),
         \A x \in Slot : Unclaimed(r, x)' <=> Unclaimed(r, x)
  PROVE  SlabAccounted(r)'
BY DEF SlabAccounted

-----------------------------------------------------------------------------
LEMMA InvInit == Init => Inv
<1>. SUFFICES ASSUME Init PROVE Inv
  OBVIOUS
<1>1. TypeOK
  <2>1. alive \in BOOLEAN /\ fault \in BOOLEAN
    BY Zenon DEF Init
  <2>. QED
    BY <2>1, CapacityAssumption DEF Init, TypeOK
<1>2. Live = {}
  BY DEF Init, Live
<1>. QED
  BY <1>1, <1>2 DEF Init, Inv, NoFault, ListsMatchUse, BuffersAccountedFor, NoDoubleAllocation,
       HeldObjectsStay, ConstructedExactly, FreeInProgress, GrowInProgress

-----------------------------------------------------------------------------
(* kmm_cache_alloc from an existing slab *)

LEMMA AllocExistingKeepsInv ==
  ASSUME AllowedUse, Inv, NEW h \in Holder, NEW s \in Slab, AllocExisting(h, s)
  PROVE  Inv'
<1>1. freeing = None /\ grow = None /\ alive /\ held[h] = None
  BY DEF AllocExisting, Idle
<1>2. s \in Live /\ inuse[s] \in Nat /\ inuse[s] < Capacity
  BY CapacityAssumption DEF AllocExisting, FromPartial, FromEmpty, Live, Inv, ListsMatchUse
<1>3. free[s] # {}
  BY <1>1, <1>2, FreeBufferExists
<1>4. PICK o \in free[s] :
        /\ free' = [free EXCEPT ![s] = @ \ {o}]
        /\ inuse' = [inuse EXCEPT ![s] = @ + 1]
        /\ held' = [held EXCEPT ![h] = <<s, o>>]
        /\ fault' = fault
  BY <1>3 DEF AllocExisting, ObjectAlloc
<1>5. o \in Slot
  BY DEF Inv, TypeOK
<1>6. UNCHANGED <<made, grow, freeing, alive>>
  BY DEF AllocExisting
<1>7. Live' = Live
  BY DEF AllocExisting, FromPartial, FromEmpty, Live
<1>8. \A g \in Holder : held[g] # <<s, o>>
  BY <1>2, <1>5 DEF Inv, BuffersAccountedFor, SlabAccounted, Unclaimed
<1>9. \A g \in Holder : held'[g] = IF g = h THEN <<s, o>> ELSE held[g]
  BY <1>4 DEF Inv, TypeOK
<1>10. <<s, o>> # None
  BY <1>5, NoneAssumption DEF Object
<1>11. TypeOK'
  <2>1. inuse' \in [Slab -> 0 .. Capacity]
    BY <1>2, <1>4, CapacityAssumption DEF Inv, TypeOK
  <2>2. held' \in [Holder -> Object \cup {None}]
    BY <1>4, <1>5 DEF Inv, TypeOK, Object
  <2>3. empty' \subseteq Slab /\ partial' \subseteq Slab /\ full' \subseteq Slab
    BY DEF Inv, TypeOK, AllocExisting, FromPartial, FromEmpty
  <2>4. free' \in [Slab -> SUBSET Slot]
    BY <1>4 DEF Inv, TypeOK
  <2>. QED
    BY <2>1, <2>2, <2>3, <2>4, <1>4, <1>6 DEF Inv, TypeOK
<1>12. ListsMatchUse'
  <2>1. \A r \in Slab : inuse'[r] = IF r = s THEN inuse[s] + 1 ELSE inuse[r]
    BY <1>4 DEF Inv, TypeOK
  <2>2. Live \subseteq Slab
    BY LiveSlabs DEF Inv
  <2>3. CASE FromPartial(s)
    BY <2>1, <2>2, <2>3, <1>2, CapacityAssumption
      DEF FromPartial, Inv, ListsMatchUse, AllowedUse, Live
  <2>4. CASE FromEmpty(s)
    BY <2>1, <2>2, <2>4, <1>2, CapacityAssumption
      DEF FromEmpty, Inv, ListsMatchUse, AllowedUse, Live
  <2>. QED
    BY <2>3, <2>4 DEF AllocExisting
<1>13. BuffersAccountedFor'
  <2>. SUFFICES ASSUME NEW r \in Live
                PROVE  SlabAccounted(r)'
    BY <1>7 DEF BuffersAccountedFor
  <2>1. r \in Slab /\ SlabAccounted(r)
    BY LiveSlabs DEF Inv, BuffersAccountedFor
  <2>2. Pending(r)' = Pending(r)
    BY <1>6 DEF Pending
  <2>3. CASE r = s
    <3>1. free'[r] = free[r] \ {o} /\ inuse'[r] = inuse[r] + 1
      BY <2>3, <1>4 DEF Inv, TypeOK
    <3>2. Cardinality(free[r]) \in Nat /\ Cardinality(free'[r]) = Cardinality(free[r]) - 1
      BY <2>1, <2>3, <3>1, FreeCount, CapacityAssumption DEF Inv, TypeOK
    <3>3. Pending(r) = 0
      BY <1>1 DEF Pending
    <3>4. Cardinality(free'[r]) + inuse'[r] + Pending(r)' = Capacity
      BY <3>1, <3>2, <3>3, <2>1, <2>2, <2>3, <1>2, CapacityAssumption DEF SlabAccounted
    <3>5. ASSUME NEW x \in Slot
          PROVE  x \in free'[r] <=> Unclaimed(r, x)'
      <4>1. CASE x = o
        BY <4>1, <2>3, <3>1, <1>9 DEF Unclaimed
      <4>2. CASE x # o
        <5>1. <<r, x>> # <<s, o>> /\ <<r, x>> # None
          BY <4>2, <2>1, NoneAssumption DEF Object
        <5>2. Unclaimed(r, x)' <=> Unclaimed(r, x)
          BY <5>1, <1>1, <1>6, <1>9 DEF Unclaimed
        <5>. QED
          BY <4>2, <5>2, <2>1, <3>1 DEF SlabAccounted
      <4>. QED
        BY <4>1, <4>2
    <3>. QED
      BY <3>4, <3>5 DEF SlabAccounted
  <2>4. CASE r # s
    <3>1. free'[r] = free[r] /\ inuse'[r] = inuse[r]
      BY <2>1, <2>4, <1>4 DEF Inv, TypeOK
    <3>2. ASSUME NEW x \in Slot
          PROVE  Unclaimed(r, x)' <=> Unclaimed(r, x)
      <4>1. <<r, x>> # <<s, o>> /\ <<r, x>> # None
        BY <2>1, <2>4, NoneAssumption DEF Object
      <4>. QED
        BY <4>1, <1>1, <1>6, <1>9 DEF Unclaimed
    <3>. QED
      BY <2>1, <2>2, <3>1, <3>2, AccountFrame
  <2>. QED
    BY <2>3, <2>4
<1>14. NoDoubleAllocation'
  BY <1>8, <1>9 DEF Inv, NoDoubleAllocation
<1>15. HeldObjectsStay'
  BY <1>1, <1>2, <1>7, <1>9 DEF Inv, HeldObjectsStay
<1>16. ConstructedExactly'
  BY <1>6, <1>7 DEF Inv, ConstructedExactly
<1>17. FreeInProgress' /\ GrowInProgress' /\ NoFault'
  BY <1>1, <1>4, <1>6 DEF FreeInProgress, GrowInProgress, Inv, NoFault
<1>. QED
  BY <1>11, <1>12, <1>13, <1>14, <1>15, <1>16, <1>17 DEF Inv

-----------------------------------------------------------------------------
(* kmm_cache_alloc that needs a new slab *)

\* GrowBegin and GrowFail, which only set grow.
LEMMA GrowMarkKeepsInv ==
  ASSUME Inv, UNCHANGED <<lists, inuse, free, made, held, freeing, alive, fault>>,
         grow' = None \/ (grow' \in Holder /\ held[grow'] = None /\ alive),
         freeing # None => grow' = None
  PROVE  Inv'
<1>1. TypeOK' /\ NoFault' /\ ListsMatchUse'
  BY DEF Inv, TypeOK, NoFault, ListsMatchUse, lists
<1>2. Live' = Live
  BY DEF Live, lists
<1>3. BuffersAccountedFor'
  BY <1>2 DEF Inv, BuffersAccountedFor, SlabAccounted, Unclaimed, Pending
<1>4. NoDoubleAllocation' /\ HeldObjectsStay' /\ ConstructedExactly'
  BY <1>2 DEF Inv, NoDoubleAllocation, HeldObjectsStay, ConstructedExactly
<1>5. FreeInProgress' /\ GrowInProgress'
  BY <1>2 DEF Inv, FreeInProgress, GrowInProgress
<1>. QED
  BY <1>1, <1>3, <1>4, <1>5 DEF Inv

LEMMA GrowEndKeepsInv ==
  ASSUME AllowedUse, Inv, NEW s \in Slab, GrowEnd(s)
  PROVE  Inv'
<1>1. grow \in Holder /\ grow # None /\ s \notin Live
  BY DEF GrowEnd, Inv, TypeOK
<1>2. alive /\ held[grow] = None /\ freeing = None
  BY <1>1 DEF Inv, GrowInProgress, FreeInProgress
<1>3. PICK o \in Slot :
        /\ free' = [free EXCEPT ![s] = Slot \ {o}]
        /\ held' = [held EXCEPT ![grow] = <<s, o>>]
  BY DEF GrowEnd
<1>4. /\ partial' = partial \cup {s} /\ full' = full /\ empty' = empty
      /\ inuse' = [inuse EXCEPT ![s] = 1]
      /\ made' = made \cup {<<s, o1>> : o1 \in Slot}
      /\ grow' = None /\ UNCHANGED <<freeing, alive, fault>>
  BY CapacityAssumption DEF GrowEnd, AllowedUse
<1>5. Live' = Live \cup {s}
  BY <1>4 DEF Live
<1>6. \A g \in Holder : held'[g] = IF g = grow THEN <<s, o>> ELSE held[g]
  BY <1>3 DEF Inv, TypeOK
<1>7. \A g \in Holder : held[g] # None => held[g][1] \in Live
  BY <1>2 DEF Inv, HeldObjectsStay
<1>8. TypeOK'
  <2>1. inuse' \in [Slab -> 0 .. Capacity]
    BY <1>4, CapacityAssumption DEF Inv, TypeOK
  <2>2. held' \in [Holder -> Object \cup {None}]
    BY <1>3 DEF Inv, TypeOK, Object
  <2>3. made' \subseteq Object
    BY <1>4 DEF Inv, TypeOK, Object
  <2>4. free' \in [Slab -> SUBSET Slot]
    BY <1>3 DEF Inv, TypeOK
  <2>. QED
    BY <2>1, <2>2, <2>3, <2>4, <1>4 DEF Inv, TypeOK
<1>9. ListsMatchUse'
  <2>1. \A r \in Slab : inuse'[r] = IF r = s THEN 1 ELSE inuse[r]
    BY <1>4 DEF Inv, TypeOK
  <2>. QED
    BY <2>1, <1>1, <1>4, LiveSlabs, CapacityAssumption DEF Inv, ListsMatchUse, AllowedUse, Live
<1>10. BuffersAccountedFor'
  <2>. SUFFICES ASSUME NEW r \in Live \cup {s}
                PROVE  SlabAccounted(r)'
    BY <1>5 DEF BuffersAccountedFor
  <2>1. r \in Slab
    BY LiveSlabs DEF Inv
  <2>2. Pending(r)' = 0 /\ Pending(r) = 0
    BY <1>2, <1>4 DEF Pending
  <2>3. CASE r = s
    <3>1. free'[s] = Slot \ {o} /\ inuse'[s] = 1
      BY <1>3, <1>4 DEF Inv, TypeOK
    <3>2. Cardinality(free'[s]) = Capacity - 1
      BY <3>1, FreeCount, SlotFinite
    <3>3. ASSUME NEW x \in Slot
          PROVE  x \in free'[s] <=> Unclaimed(s, x)'
      <4>1. \A g \in Holder : held[g] # <<s, x>>
        BY <1>1, <1>7, NoneAssumption DEF Object
      <4>2. freeing' # <<s, x>>
        BY <1>2, <1>4, NoneAssumption DEF Object
      <4>. QED
        BY <4>1, <4>2, <3>1, <1>1, <1>6 DEF Unclaimed
    <3>. QED
      BY <2>2, <2>3, <3>1, <3>2, <3>3, CapacityAssumption DEF SlabAccounted
  <2>4. CASE r # s
    <3>1. free'[r] = free[r] /\ inuse'[r] = inuse[r]
      BY <2>1, <2>4, <1>3, <1>4 DEF Inv, TypeOK
    <3>2. ASSUME NEW x \in Slot
          PROVE  Unclaimed(r, x)' <=> Unclaimed(r, x)
      <4>1. <<r, x>> # <<s, o>> /\ <<r, x>> # None
        BY <2>1, <2>4, NoneAssumption DEF Object
      <4>. QED
        BY <4>1, <1>2, <1>4, <1>6 DEF Unclaimed
    <3>3. SlabAccounted(r)
      BY <2>4 DEF Inv, BuffersAccountedFor
    <3>. QED
      BY <2>2, <3>1, <3>2, <3>3, AccountFrame
  <2>. QED
    BY <2>3, <2>4
<1>11. NoDoubleAllocation'
  <2>1. \A g \in Holder : held[g] # <<s, o>>
    BY <1>1, <1>7, NoneAssumption DEF Object
  <2>. QED
    BY <2>1, <1>6 DEF Inv, NoDoubleAllocation
<1>12. HeldObjectsStay'
  BY <1>5, <1>6, <1>7 DEF HeldObjectsStay
<1>13. ConstructedExactly'
  BY <1>2, <1>4, <1>5 DEF Inv, ConstructedExactly
<1>14. FreeInProgress' /\ GrowInProgress' /\ NoFault'
  BY <1>2, <1>4 DEF FreeInProgress, GrowInProgress, Inv, NoFault
<1>. QED
  BY <1>8, <1>9, <1>10, <1>11, <1>12, <1>13, <1>14 DEF Inv

-----------------------------------------------------------------------------
(* kmm_cache_free *)

LEMMA FreeKeepsInv ==
  ASSUME AllowedUse, Inv, NEW h \in Holder, Free(h)
  PROVE  Inv'
<1>1. alive /\ freeing = None /\ held[h] # None
  BY DEF Free
<1>2. PICK s \in Slab, o \in Slot : held[h] = <<s, o>>
  BY <1>1 DEF Inv, TypeOK, Object
<1>3. s \in Live
  BY <1>1, <1>2 DEF Inv, HeldObjectsStay
<1>4. /\ inuse' = [inuse EXCEPT ![s] = @ - 1]
      /\ free' = IF Large THEN free ELSE [free EXCEPT ![s] = @ \cup {o}]
      /\ freeing' = IF Large THEN <<s, o>> ELSE None
      /\ held' = [held EXCEPT ![h] = None]
      /\ UNCHANGED <<made, grow, alive>>
      /\ Relist(s)
  BY <1>2 DEF Free
<1>5. /\ SlabAccounted(s) /\ free[s] \in SUBSET Slot
      /\ inuse[s] \in 0 .. Capacity /\ Pending(s) = 0
  BY <1>1, <1>3 DEF Inv, BuffersAccountedFor, TypeOK, Pending
<1>6. o \notin free[s]
  BY <1>2, <1>5 DEF SlabAccounted, Unclaimed
<1>7. Cardinality(free[s]) \in 0 .. Capacity /\ Cardinality(free[s]) # Capacity
  BY <1>5, <1>6, FreeCount
<1>8. inuse[s] \in 1 .. Capacity /\ Cardinality(free[s]) + inuse[s] = Capacity
  BY <1>5, <1>7, CapacityAssumption DEF SlabAccounted
<1>9. inuse[s] = Capacity => s \in full /\ s \notin empty \cup partial
  BY <1>3, CapacityAssumption DEF Inv, ListsMatchUse, Live
<1>10. inuse[s] # Capacity => s \in partial /\ s \notin empty \cup full
  BY <1>3, <1>8, CapacityAssumption DEF Inv, ListsMatchUse, Live
<1>11. Live' = Live /\ fault' = FALSE
  BY <1>4, <1>8, <1>9, <1>10, CapacityAssumption DEF Relist, AllowedUse, Live
<1>12. \A g \in Holder : held'[g] = IF g = h THEN None ELSE held[g]
  BY <1>4 DEF Inv, TypeOK
<1>13. \A r \in Slab : inuse'[r] = IF r = s THEN inuse[s] - 1 ELSE inuse[r]
  BY <1>4 DEF Inv, TypeOK
<1>14. \A g \in Holder : held'[g] # <<s, o>>
  BY <1>2, <1>12, NoneAssumption DEF Inv, NoDoubleAllocation, Object
<1>15. <<s, o>> \in Object /\ <<s, o>> # None
  BY NoneAssumption DEF Object
<1>16. TypeOK'
  <2>1. inuse' \in [Slab -> 0 .. Capacity]
    BY <1>4, <1>8, CapacityAssumption DEF Inv, TypeOK
  <2>2. free' \in [Slab -> SUBSET Slot] /\ held' \in [Holder -> Object \cup {None}]
    BY <1>4 DEF Inv, TypeOK
  <2>3. empty' \subseteq Slab /\ partial' \subseteq Slab /\ full' \subseteq Slab
    BY <1>4 DEF Inv, TypeOK, Relist
  <2>4. freeing' \in Object \cup {None}
    BY <1>4, <1>15
  <2>5. fault' \in BOOLEAN
    BY <1>11, Zenon
  <2>. QED
    BY <2>1, <2>2, <2>3, <2>4, <2>5, <1>4 DEF Inv, TypeOK
<1>17. ListsMatchUse'
  <2>1. Live \subseteq Slab
    BY LiveSlabs DEF Inv
  <2>2. CASE inuse[s] = Capacity
    <3>1. full' = full \ {s} /\ partial' = partial \cup {s} /\ empty' = empty
      BY <2>2, <1>4, CapacityAssumption DEF Relist, AllowedUse
    <3>. QED
      BY <2>1, <2>2, <3>1, <1>9, <1>13, CapacityAssumption DEF Inv, ListsMatchUse, AllowedUse, Live
  <2>3. CASE inuse[s] = 1
    <3>1. full' = full /\ partial' = partial \ {s} /\ empty' = empty \cup {s}
      BY <2>3, <1>4, CapacityAssumption DEF Relist, AllowedUse
    <3>. QED
      BY <2>1, <2>3, <3>1, <1>10, <1>13, CapacityAssumption DEF Inv, ListsMatchUse, AllowedUse, Live
  <2>4. CASE inuse[s] \notin {1, Capacity}
    <3>1. full' = full /\ partial' = partial /\ empty' = empty
      BY <2>4, <1>4 DEF Relist
    <3>. QED
      BY <2>1, <2>4, <3>1, <1>8, <1>10, <1>13, CapacityAssumption
        DEF Inv, ListsMatchUse, AllowedUse, Live
  <2>. QED
    BY <2>2, <2>3, <2>4
<1>18. BuffersAccountedFor'
  <2>. SUFFICES ASSUME NEW r \in Live
                PROVE  SlabAccounted(r)'
    BY <1>11 DEF BuffersAccountedFor
  <2>1. r \in Slab /\ SlabAccounted(r)
    BY LiveSlabs DEF Inv, BuffersAccountedFor
  <2>2. CASE r # s
    <3>1. free'[r] = free[r] /\ inuse'[r] = inuse[r]
      BY <2>1, <2>2, <1>4 DEF Inv, TypeOK
    <3>2. Pending(r)' = Pending(r)
      BY <2>2, <1>1, <1>4 DEF Pending
    <3>3. ASSUME NEW x \in Slot
          PROVE  Unclaimed(r, x)' <=> Unclaimed(r, x)
      <4>1. <<r, x>> # <<s, o>> /\ <<r, x>> # None
        BY <2>1, <2>2, NoneAssumption DEF Object
      <4>. QED
        BY <4>1, <1>1, <1>2, <1>4, <1>12 DEF Unclaimed
    <3>. QED
      BY <2>1, <3>1, <3>2, <3>3, AccountFrame
  <2>3. CASE r = s
    <3>1. ASSUME NEW x \in Slot, x # o
          PROVE  Unclaimed(s, x)' <=> Unclaimed(s, x)
      <4>1. <<s, x>> # <<s, o>> /\ <<s, x>> # None
        BY <3>1, NoneAssumption DEF Object
      <4>. QED
        BY <4>1, <1>1, <1>2, <1>4, <1>12 DEF Unclaimed
    <3>2. inuse'[s] = inuse[s] - 1
      BY <1>13
    <3>3. CASE Large
      <4>1. free' = free /\ Pending(s)' = 1 /\ ~Unclaimed(s, o)'
        BY <3>3, <1>4, <1>15 DEF Pending, Unclaimed
      <4>. QED
        BY <4>1, <3>1, <3>2, <2>3, <1>5, <1>6, <1>7, <1>8, CapacityAssumption DEF SlabAccounted
    <3>4. CASE ~Large
      <4>1. free'[s] = free[s] \cup {o} /\ Pending(s)' = 0
        BY <3>4, <1>4 DEF Pending, Inv, TypeOK
      <4>2. Unclaimed(s, o)'
        BY <3>4, <1>4, <1>14, <1>15 DEF Unclaimed
      <4>3. Cardinality(free'[s]) = Cardinality(free[s]) + 1
        BY <4>1, <1>5, <1>6, FreeCount
      <4>4. Cardinality(free'[s]) + inuse'[s] + Pending(s)' = Capacity
        BY <4>1, <4>3, <3>2, <1>7, <1>8, CapacityAssumption
      <4>. QED
        BY <4>1, <4>2, <4>4, <3>1, <2>3, <1>5 DEF SlabAccounted
    <3>. QED
      BY <3>3, <3>4
  <2>. QED
    BY <2>2, <2>3
<1>19. NoDoubleAllocation' /\ HeldObjectsStay' /\ ConstructedExactly'
  BY <1>4, <1>11, <1>12 DEF Inv, NoDoubleAllocation, HeldObjectsStay, ConstructedExactly
<1>20. FreeInProgress'
  <2>1. Large => grow = None
    BY DEF Free
  <2>. QED
    BY <2>1, <1>1, <1>3, <1>4, <1>11, <1>14 DEF FreeInProgress
<1>21. GrowInProgress' /\ NoFault'
  BY <1>4, <1>11, <1>12 DEF Inv, GrowInProgress, NoFault, TypeOK
<1>. QED
  BY <1>16, <1>17, <1>18, <1>19, <1>20, <1>21 DEF Inv

LEMMA FreeEndKeepsInv ==
  ASSUME AllowedUse, Inv, FreeEnd
  PROVE  Inv'
<1>1. freeing # None
  BY DEF FreeEnd
<1>2. PICK s \in Slab, o \in Slot : freeing = <<s, o>>
  BY <1>1 DEF Inv, TypeOK, Object
<1>3. s \in Live /\ Large /\ alive /\ grow = None /\ \A h \in Holder : held[h] # <<s, o>>
  BY <1>1, <1>2 DEF Inv, FreeInProgress
<1>4. /\ free' = [free EXCEPT ![s] = @ \cup {o}]
      /\ fault' = FALSE /\ freeing' = None
      /\ UNCHANGED <<lists, inuse, made, held, grow, alive>>
  BY <1>2, <1>3 DEF FreeEnd
<1>5. Live' = Live
  BY <1>4 DEF Live, lists
<1>6. SlabAccounted(s) /\ free[s] \in SUBSET Slot /\ inuse[s] \in Nat /\ o \notin free[s]
  <2>1. SlabAccounted(s)
    BY <1>3 DEF Inv, BuffersAccountedFor
  <2>2. free[s] \in SUBSET Slot /\ inuse[s] \in Nat
    BY CapacityAssumption DEF Inv, TypeOK
  <2>3. o \notin free[s]
    BY <2>1, <1>2 DEF SlabAccounted, Unclaimed
  <2>. QED
    BY <2>1, <2>2, <2>3
<1>7. TypeOK'
  <2>1. fault' \in BOOLEAN
    BY <1>4, Zenon
  <2>2. free' \in [Slab -> SUBSET Slot]
    BY <1>4, <1>6 DEF Inv, TypeOK
  <2>. QED
    BY <2>1, <2>2, <1>4 DEF Inv, TypeOK, lists
<1>8. BuffersAccountedFor'
  <2>. SUFFICES ASSUME NEW r \in Live
                PROVE  SlabAccounted(r)'
    BY <1>5 DEF BuffersAccountedFor
  <2>1. r \in Slab /\ SlabAccounted(r)
    BY LiveSlabs DEF Inv, BuffersAccountedFor
  <2>2. ASSUME NEW x \in Slot, r # s \/ x # o
        PROVE  Unclaimed(r, x)' <=> Unclaimed(r, x)
    <3>1. <<r, x>> # <<s, o>> /\ <<r, x>> # None
      BY <2>1, <2>2, NoneAssumption DEF Object
    <3>. QED
      BY <3>1, <1>2, <1>4 DEF Unclaimed
  <2>3. Pending(r)' = 0 /\ Pending(r) = IF r = s THEN 1 ELSE 0
    BY <1>1, <1>2, <1>4 DEF Pending
  <2>4. CASE r # s
    <3>1. free'[r] = free[r] /\ inuse'[r] = inuse[r]
      BY <2>1, <2>4, <1>4 DEF Inv, TypeOK
    <3>. QED
      BY <2>1, <2>2, <2>3, <2>4, <3>1, AccountFrame
  <2>5. CASE r = s
    <3>1. free'[s] = free[s] \cup {o} /\ inuse'[s] = inuse[s]
      BY <1>4 DEF Inv, TypeOK
    <3>2. Unclaimed(s, o)'
      BY <1>3, <1>4, NoneAssumption DEF Unclaimed, Object
    <3>3. Cardinality(free'[s]) = Cardinality(free[s]) + 1 /\ Cardinality(free[s]) \in Nat
      BY <3>1, <1>6, FreeCount, CapacityAssumption
    <3>4. Cardinality(free'[s]) + inuse'[s] + Pending(s)' = Capacity
      BY <3>1, <3>3, <2>3, <2>5, <1>6, CapacityAssumption DEF SlabAccounted
    <3>. QED
      BY <3>1, <3>2, <3>4, <2>2, <2>5, <1>6 DEF SlabAccounted
  <2>. QED
    BY <2>4, <2>5
<1>9. ListsMatchUse' /\ NoDoubleAllocation' /\ HeldObjectsStay' /\ ConstructedExactly'
  BY <1>4, <1>5 DEF Inv, ListsMatchUse, NoDoubleAllocation, HeldObjectsStay,
                    ConstructedExactly, lists
<1>10. FreeInProgress' /\ GrowInProgress' /\ NoFault'
  BY <1>3, <1>4 DEF FreeInProgress, GrowInProgress, NoFault
<1>. QED
  BY <1>7, <1>8, <1>9, <1>10 DEF Inv

-----------------------------------------------------------------------------
(* kmm_cache_trim and kmm_cache_destroy *)

LEMMA TrimKeepsInv ==
  ASSUME AllowedUse, Inv, NEW s \in Slab, Trim(s)
  PROVE  Inv'
<1>1. alive /\ s \in empty /\ UNCHANGED <<held, grow, freeing, alive>>
  BY DEF Trim
<1>2. freeing = None
  BY DEF Trim, Inv, FreeInProgress, AllowedUse
<1>3. inuse[s] = 0 /\ s \in Live
  BY <1>1 DEF Inv, ListsMatchUse, Live
<1>4. s \notin partial /\ s \notin full
  BY <1>3, CapacityAssumption DEF Inv, ListsMatchUse
<1>5. free[s] = Slot
  <2>1. SlabAccounted(s) /\ free[s] \in SUBSET Slot
    BY <1>3 DEF Inv, BuffersAccountedFor, TypeOK
  <2>2. Cardinality(free[s]) \in Nat
    BY <2>1, FreeCount, CapacityAssumption
  <2>3. Cardinality(free[s]) + 0 + 0 = Capacity
    BY <2>1, <1>2, <1>3 DEF SlabAccounted, Pending
  <2>. QED
    BY <2>1, <2>2, <2>3, FreeCount, CapacityAssumption
<1>6. /\ made' = {x \in made : ~(x[1] = s /\ x[2] \in Slot)}
      /\ empty' = empty \ {s} /\ partial' = partial /\ full' = full
      /\ fault' = FALSE
      /\ free' = [r \in Slab |-> IF r = s THEN {} ELSE free[r]]
      /\ inuse' = [r \in Slab |-> IF r = s THEN 0 ELSE inuse[r]]
  BY <1>1, <1>3, <1>4, <1>5, CapacityAssumption DEF Trim, SlabDestroy
<1>7. Live' = Live \ {s}
  BY <1>1, <1>4, <1>6 DEF Live
<1>8. \A h \in Holder : held[h] # None => held[h][1] # s
  <2>1. \A o \in Slot, h \in Holder : held[h] # <<s, o>>
    BY <1>3, <1>5 DEF Inv, BuffersAccountedFor, SlabAccounted, Unclaimed
  <2>. QED
    BY <2>1 DEF Inv, TypeOK, Object
<1>9. TypeOK'
  <2>1. fault' \in BOOLEAN
    BY <1>6, Zenon
  <2>2. inuse' \in [Slab -> 0 .. Capacity]
    BY <1>6, CapacityAssumption DEF Inv, TypeOK
  <2>3. free' \in [Slab -> SUBSET Slot] /\ made' \subseteq Object
    BY <1>6 DEF Inv, TypeOK
  <2>. QED
    BY <2>1, <2>2, <2>3, <1>1, <1>6 DEF Inv, TypeOK
<1>10. ListsMatchUse'
  BY <1>1, <1>4, <1>6, LiveSlabs DEF Inv, ListsMatchUse, Live
<1>11. BuffersAccountedFor'
  <2>. SUFFICES ASSUME NEW r \in Live, r # s
                PROVE  SlabAccounted(r)'
    BY <1>7 DEF BuffersAccountedFor
  <2>1. SlabAccounted(r) /\ r \in Slab
    BY LiveSlabs DEF Inv, BuffersAccountedFor
  <2>2. free'[r] = free[r] /\ inuse'[r] = inuse[r]
    BY <2>1, <1>6
  <2>3. Pending(r)' = Pending(r) /\ \A x \in Slot : Unclaimed(r, x)' <=> Unclaimed(r, x)
    BY <1>1 DEF Pending, Unclaimed
  <2>. QED
    BY <2>1, <2>2, <2>3, AccountFrame
<1>12. NoDoubleAllocation' /\ HeldObjectsStay'
  BY <1>1, <1>7, <1>8 DEF Inv, NoDoubleAllocation, HeldObjectsStay
<1>13. ConstructedExactly'
  BY <1>1, <1>6, <1>7 DEF Inv, ConstructedExactly
<1>14. FreeInProgress' /\ GrowInProgress' /\ NoFault'
  BY <1>1, <1>2, <1>6 DEF Inv, FreeInProgress, GrowInProgress, NoFault
<1>. QED
  BY <1>9, <1>10, <1>11, <1>12, <1>13, <1>14 DEF Inv

LEMMA DestroyKeepsInv ==
  ASSUME AllowedUse, Inv, Destroy
  PROVE  Inv'
<1>1. /\ freeing = None /\ grow = None /\ alive' = FALSE
      /\ UNCHANGED <<held, grow, freeing>>
      /\ SlabDestroy(Live)
  BY DEF Destroy, Idle
<1>2. \A s \in Live : /\ inuse[s] = 0 <=> s \in empty
                      /\ inuse[s] = Capacity <=> s \in full
                      /\ inuse[s] \notin {0, Capacity} <=> s \in partial
  BY CapacityAssumption DEF Inv, ListsMatchUse, Live
<1>3. empty' = {} /\ partial' = {} /\ full' = {}
  BY <1>1, <1>2 DEF SlabDestroy, Live
<1>4. fault' = FALSE
  BY <1>1, <1>2 DEF SlabDestroy
<1>5. Live' = {}
  BY <1>3 DEF Live
<1>6. TypeOK'
  <2>1. fault' \in BOOLEAN /\ alive' \in BOOLEAN
    BY <1>1, <1>4, Zenon
  <2>2. inuse' \in [Slab -> 0 .. Capacity]
    BY <1>1, CapacityAssumption DEF SlabDestroy, Inv, TypeOK
  <2>3. free' \in [Slab -> SUBSET Slot] /\ made' \subseteq Object
    BY <1>1 DEF SlabDestroy, Inv, TypeOK
  <2>. QED
    BY <2>1, <2>2, <2>3, <1>1, <1>3 DEF Inv, TypeOK
<1>7. ListsMatchUse' /\ BuffersAccountedFor' /\ NoDoubleAllocation'
  BY <1>1, <1>3, <1>5 DEF Inv, ListsMatchUse, BuffersAccountedFor, NoDoubleAllocation
<1>8. HeldObjectsStay' /\ ConstructedExactly' /\ FreeInProgress' /\ GrowInProgress' /\ NoFault'
  BY <1>1, <1>4
    DEF HeldObjectsStay, ConstructedExactly, FreeInProgress, GrowInProgress, NoFault
<1>. QED
  BY <1>6, <1>7, <1>8 DEF Inv

-----------------------------------------------------------------------------
(* What a step does to the slabs and the holders, for those who compose caches *)

LEMMA AllocExistingEffect ==
  ASSUME AllowedUse, Inv, NEW h \in Holder, NEW s \in Slab, AllocExisting(h, s)
  PROVE  /\ held[h] = None /\ s \in Live /\ Live' = Live /\ empty' \subseteq empty
         /\ UNCHANGED <<grow, freeing, alive>>
         /\ \E o \in Slot : /\ o \in free[s] /\ free' = [free EXCEPT ![s] = @ \ {o}]
                            /\ held' = [held EXCEPT ![h] = <<s, o>>]
<1>1. freeing = None /\ held[h] = None
  BY DEF AllocExisting, Idle
<1>2. s \in Live /\ inuse[s] \in Nat /\ inuse[s] < Capacity
  BY CapacityAssumption DEF AllocExisting, FromPartial, FromEmpty, Live, Inv, ListsMatchUse
<1>3. free[s] # {}
  BY <1>1, <1>2, FreeBufferExists
<1>4. PICK o \in free[s] : /\ free' = [free EXCEPT ![s] = @ \ {o}]
                           /\ held' = [held EXCEPT ![h] = <<s, o>>]
  BY <1>3 DEF AllocExisting, ObjectAlloc
<1>5. o \in Slot
  BY DEF Inv, TypeOK
<1>6. Live' = Live /\ empty' \subseteq empty
  BY DEF AllocExisting, FromPartial, FromEmpty, Live
<1>. QED
  BY <1>1, <1>2, <1>4, <1>5, <1>6 DEF AllocExisting

LEMMA GrowEndEffect ==
  ASSUME AllowedUse, Inv, NEW s \in Slab, GrowEnd(s)
  PROVE  /\ s \notin Live /\ Live' = Live \cup {s} /\ UNCHANGED <<empty, freeing, alive>>
         /\ grow \in Holder /\ grow' = None
         /\ \E o \in Slot : /\ free' = [free EXCEPT ![s] = Slot \ {o}]
                            /\ held' = [held EXCEPT ![grow] = <<s, o>>]
<1>1. Live' = Live \cup {s}
  BY DEF GrowEnd, Live
<1>. QED
  BY <1>1 DEF GrowEnd, Inv, TypeOK

LEMMA FreeEffect ==
  ASSUME AllowedUse, Inv, NEW h \in Holder, Free(h)
  PROVE  /\ held[h] # None /\ held[h] \in Object /\ held[h][1] \in Live
         /\ Live' = Live /\ UNCHANGED <<grow, alive>>
         /\ held' = [held EXCEPT ![h] = None]
         /\ freeing' = IF Large THEN held[h] ELSE None
         /\ Large => free' = free
<1>1. /\ held[h] # None /\ held[h] \in Object /\ held[h][1] \in Live
      /\ freeing = None
  BY DEF Free, Inv, TypeOK, HeldObjectsStay
<1>2. PICK s \in Slab, o \in Slot : held[h] = <<s, o>>
  BY <1>1 DEF Object
<1>3. SlabAccounted(s) /\ free[s] \in SUBSET Slot /\ inuse[s] \in 0 .. Capacity /\ Pending(s) = 0
  BY <1>1, <1>2 DEF Inv, BuffersAccountedFor, TypeOK, Pending
<1>4. o \notin free[s]
  BY <1>2, <1>3 DEF SlabAccounted, Unclaimed
<1>5. Cardinality(free[s]) \in 0 .. Capacity /\ Cardinality(free[s]) # Capacity
  BY <1>3, <1>4, FreeCount
<1>6. inuse[s] \in 1 .. Capacity
  BY <1>3, <1>5, CapacityAssumption DEF SlabAccounted
<1>7. /\ inuse[s] = Capacity => s \in full
      /\ inuse[s] # Capacity => s \in partial
  BY <1>1, <1>2, <1>6, CapacityAssumption DEF Inv, ListsMatchUse, Live
<1>8. Live' = Live
  BY <1>2, <1>6, <1>7, CapacityAssumption DEF Free, Relist, AllowedUse, Live
<1>. QED
  BY <1>1, <1>8 DEF Free

LEMMA TrimEffect ==
  ASSUME AllowedUse, Inv, NEW s \in Slab, Trim(s)
  PROVE  /\ s \in empty /\ s \in Live /\ free[s] = Slot
         /\ Live' = Live \ {s} /\ empty' = empty \ {s}
         /\ free' = [r \in Slab |-> IF r = s THEN {} ELSE free[r]]
         /\ UNCHANGED <<held, grow, freeing, alive>>
<1>1. s \in empty /\ UNCHANGED <<held, grow, freeing, alive>>
  BY DEF Trim
<1>2. inuse[s] = 0 /\ s \in Live /\ s \notin partial /\ s \notin full /\ freeing = None
  BY <1>1, CapacityAssumption DEF Inv, ListsMatchUse, Live, Trim, FreeInProgress, AllowedUse
<1>3. SlabAccounted(s) /\ free[s] \in SUBSET Slot
  BY <1>2 DEF Inv, BuffersAccountedFor, TypeOK
<1>4. Cardinality(free[s]) \in Nat
  BY <1>3, FreeCount, CapacityAssumption
<1>5. Cardinality(free[s]) + 0 + 0 = Capacity
  BY <1>2, <1>3 DEF SlabAccounted, Pending
<1>6. free[s] = Slot
  BY <1>3, <1>4, <1>5, FreeCount, CapacityAssumption
<1>7. Live' = Live \ {s} /\ empty' = empty \ {s}
  BY <1>1, <1>2, CapacityAssumption DEF Trim, SlabDestroy, Live
<1>8. free' = [r \in Slab |-> IF r = s THEN {} ELSE free[r]]
  BY DEF Trim, SlabDestroy
<1>. QED
  BY <1>1, <1>2, <1>6, <1>7, <1>8

\* A slab of which no object is held is empty.
LEMMA UnusedIsEmpty ==
  ASSUME Inv, freeing = None, NEW s \in Live, \A h \in Holder : held[h] = None
  PROVE  s \in empty
<1>1. s \in Slab /\ SlabAccounted(s) /\ free[s] \in SUBSET Slot /\ inuse[s] \in 0 .. Capacity
  BY LiveSlabs DEF Inv, BuffersAccountedFor, TypeOK
<1>2. \A o \in Slot : o \in free[s]
  BY <1>1, NoneAssumption DEF SlabAccounted, Unclaimed, Object
<1>3. free[s] = Slot
  BY <1>1, <1>2
<1>4. Cardinality(free[s]) = Capacity
  BY <1>3, SlotFinite
<1>5. inuse[s] = 0
  BY <1>1, <1>4, CapacityAssumption DEF SlabAccounted, Pending
<1>. QED
  BY <1>5, CapacityAssumption DEF Inv, ListsMatchUse, Live

-----------------------------------------------------------------------------
(* The invariant holds of every behaviour *)

LEMMA InvNext ==
  ASSUME AllowedUse, Inv, [Next]_vars
  PROVE  Inv'
<1>1. ASSUME NEW h \in Holder, GrowBegin(h)
      PROVE  Inv'
  BY <1>1, GrowMarkKeepsInv DEF GrowBegin, Idle
<1>2. ASSUME NEW h \in Holder, Free(h)
      PROVE  Inv'
  BY <1>2, FreeKeepsInv
<1>3. ASSUME NEW h \in Holder, NEW s \in Slab, AllocExisting(h, s)
      PROVE  Inv'
  BY <1>3, AllocExistingKeepsInv
<1>4. ASSUME NEW s \in Slab, GrowEnd(s)
      PROVE  Inv'
  BY <1>4, GrowEndKeepsInv
<1>5. ASSUME NEW s \in Slab, Trim(s)
      PROVE  Inv'
  BY <1>5, TrimKeepsInv
<1>6. CASE GrowFail
  BY <1>6, GrowMarkKeepsInv DEF GrowFail
<1>7. CASE FreeEnd
  BY <1>7, FreeEndKeepsInv
<1>8. CASE Destroy
  BY <1>8, DestroyKeepsInv
<1>9. CASE UNCHANGED vars
  <2>1. Live' = Live /\ UNCHANGED vars
    BY <1>9 DEF vars, Live
  <2>2. TypeOK' /\ NoFault' /\ ListsMatchUse'
    BY <2>1 DEF vars, Inv, TypeOK, NoFault, ListsMatchUse
  <2>3. BuffersAccountedFor'
    BY <2>1 DEF vars, Inv, BuffersAccountedFor, SlabAccounted, Unclaimed, Pending
  <2>4. NoDoubleAllocation' /\ HeldObjectsStay' /\ ConstructedExactly'
    BY <2>1 DEF vars, Inv, NoDoubleAllocation, HeldObjectsStay, ConstructedExactly
  <2>5. FreeInProgress' /\ GrowInProgress'
    BY <2>1 DEF vars, Inv, FreeInProgress, GrowInProgress
  <2>. QED
    BY <2>2, <2>3, <2>4, <2>5 DEF Inv
<1>. QED
  BY <1>1, <1>2, <1>3, <1>4, <1>5, <1>6, <1>7, <1>8, <1>9 DEF Next

LEMMA InvHolds ==
  ASSUME AllowedUse
  PROVE  Spec => []Inv
BY InvInit, InvNext, PTL DEF Spec

\* Type correctness of a cache.
THEOREM TypeCorrect ==
  ASSUME AllowedUse
  PROVE  Spec => []TypeOK
<1>1. Inv => TypeOK
  BY DEF Inv
<1>. QED
  BY InvHolds, <1>1, PTL

\* slabs_empty, slabs_partial and slabs_full are what their names say.
THEOREM ListsAreRight ==
  ASSUME AllowedUse
  PROVE  Spec => []ListsMatchUse
<1>1. Inv => ListsMatchUse
  BY DEF Inv
<1>. QED
  BY InvHolds, <1>1, PTL

\* No buffer is lost or counted twice.
THEOREM NoBufferLost ==
  ASSUME AllowedUse
  PROVE  Spec => []BuffersAccountedFor
<1>1. Inv => BuffersAccountedFor
  BY DEF Inv
<1>. QED
  BY InvHolds, <1>1, PTL

\* kmm_cache_alloc never returns an object that is in use.
THEOREM NoObjectTwice ==
  ASSUME AllowedUse
  PROVE  Spec => []NoDoubleAllocation
<1>1. Inv => NoDoubleAllocation
  BY DEF Inv
<1>. QED
  BY InvHolds, <1>1, PTL

\* A trim, also one by a page fault in the middle of a call, leaves the objects in use.
THEOREM TrimIsSafe ==
  ASSUME AllowedUse
  PROVE  Spec => []HeldObjectsStay
<1>1. Inv => HeldObjectsStay
  BY DEF Inv
<1>. QED
  BY InvHolds, <1>1, PTL

\* Constructor and destructor run in pairs.
THEOREM ConstructorsMatch ==
  ASSUME AllowedUse
  PROVE  Spec => []ConstructedExactly
<1>1. Inv => ConstructedExactly
  BY DEF Inv
<1>. QED
  BY InvHolds, <1>1, PTL

\* The assertions of object_alloc, kmm_cache_free and slist_remove hold.
THEOREM AssertionsHold ==
  ASSUME AllowedUse
  PROVE  Spec => []NoFault
<1>1. Inv => NoFault
  BY DEF Inv
<1>. QED
  BY InvHolds, <1>1, PTL

-----------------------------------------------------------------------------
(* Refinement *)

LEMMA StepRefines ==
  ASSUME AllowedUse, Inv, [Next]_vars
  PROVE  [Abs!Next]_held
<1>1. ASSUME NEW h \in Holder, NEW s \in Slab, AllocExisting(h, s)
      PROVE  Abs!Next
  <2>1. held[h] = None /\ freeing = None
    BY <1>1 DEF AllocExisting, Idle
  <2>2. s \in Live /\ inuse[s] < Capacity
    BY <1>1, CapacityAssumption
      DEF AllocExisting, FromPartial, FromEmpty, Live, Inv, ListsMatchUse
  <2>3. PICK o \in free[s] : held' = [held EXCEPT ![h] = <<s, o>>]
    BY <1>1, <2>1, <2>2, FreeBufferExists DEF AllocExisting, ObjectAlloc
  <2>4. o \in Slot
    BY DEF Inv, TypeOK
  <2>5. \A g \in Holder : held[g] # <<s, o>>
    BY <2>2, <2>4 DEF Inv, BuffersAccountedFor, SlabAccounted, Unclaimed
  <2>6. Abs!Acquire(h, <<s, o>>)
    BY <2>1, <2>3, <2>5 DEF Abs!Acquire
  <2>. QED
    BY <2>4, <2>6 DEF Abs!Next, Object
<1>2. ASSUME NEW s \in Slab, GrowEnd(s)
      PROVE  Abs!Next
  <2>1. grow \in Holder /\ held[grow] = None /\ alive
    BY <1>2 DEF GrowEnd, Inv, TypeOK, GrowInProgress
  <2>2. PICK o \in Slot : held' = [held EXCEPT ![grow] = <<s, o>>]
    BY <1>2 DEF GrowEnd
  <2>3. \A g \in Holder : held[g] # <<s, o>>
    <3>1. \A g \in Holder : held[g] # None => held[g][1] # s
      BY <1>2, <2>1 DEF GrowEnd, Inv, HeldObjectsStay
    <3>2. <<s, o>> # None
      BY NoneAssumption DEF Object
    <3>. QED
      BY <3>1, <3>2
  <2>4. Abs!Acquire(grow, <<s, o>>)
    BY <2>1, <2>2, <2>3 DEF Abs!Acquire
  <2>. QED
    BY <2>1, <2>4 DEF Abs!Next, Object
<1>3. ASSUME NEW h \in Holder, Free(h)
      PROVE  Abs!Next
  <2>1. Abs!Release(h)
    BY <1>3 DEF Free, Abs!Release
  <2>. QED
    BY <2>1 DEF Abs!Next
<1>. QED
  BY <1>1, <1>2, <1>3 DEF Next, vars, GrowBegin, GrowFail, FreeEnd, Trim, Destroy

\* A slab cache is an Allocator of its objects, whatever trims interleave with its calls.
THEOREM SlabCacheImplementsAllocator ==
  ASSUME AllowedUse
  PROVE  Spec => ImplementsAllocator
<1>1. Init => Abs!Init
  BY DEF Init, Abs!Init
<1>. QED
  BY <1>1, InvHolds, StepRefines, PTL DEF Spec, ImplementsAllocator, Abs!Spec

=============================================================================
