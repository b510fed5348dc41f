--------------------------- MODULE LibraryProofs ----------------------------
(***************************************************************************)
(* The parts that stand alone: the key-value store and the circular buffer *)
(* keep the order of what they hold, interrupts are answered in time, the  *)
(* linear allocator, the pool and kmalloc hand out aligned regions apart   *)
(* from each other, the buddy allocator is safe as the kernel uses it, and *)
(* the red-black tree keeps its nodes, their order and its balance, and    *)
(* its searches and its iteration find what they are named for.            *)
(* Each part has an inductive invariant over its own state, which a step   *)
(* of another part leaves alone.                                           *)
(***************************************************************************)
EXTENDS Library, FiniteSetTheorems, SequenceTheorems, WellFoundedInduction, TLAPS

-----------------------------------------------------------------------------
(* Sequences *)

LEMMA Appended ==
  ASSUME NEW T, NEW q \in Seq(T), NEW e \in T
  PROVE  /\ Append(q, e) \in Seq(T) /\ Append(q, e) # <<>>
         /\ Len(Append(q, e)) = Len(q) + 1
         /\ DOMAIN Append(q, e) = 1 .. Len(q) + 1
         /\ Append(q, e)[Len(q) + 1] = e
         /\ \A i \in 1 .. Len(q) : Append(q, e)[i] = q[i]
<1>1. Append(q, e) \in Seq(T) /\ Len(Append(q, e)) = Len(q) + 1  OBVIOUS
<1>2. Append(q, e) # <<>>
  <2>1. Len(<<>>) = 0 /\ Len(Append(q, e)) # 0  BY <1>1
  <2>. QED  BY Zenon, <2>1
<1>. QED  BY <1>1, <1>2

LEMMA Shortened ==
  ASSUME NEW T, NEW q \in Seq(T), q # <<>>
  PROVE  LET p == SubSeq(q, 1, Len(q) - 1)
         IN  /\ p \in Seq(T)
             /\ Len(p) = Len(q) - 1 /\ Len(q) \in Nat \ {0}
             /\ DOMAIN p = 1 .. Len(q) - 1
             /\ \A i \in 1 .. Len(q) - 1 : p[i] = q[i]
<1>1. Len(q) \in Nat \ {0}  OBVIOUS
<1>2. \A i \in 1 .. Len(q) - 1 : q[i] \in T  BY <1>1
<1>3. SubSeq(q, 1, Len(q) - 1) \in Seq(T) /\ Len(SubSeq(q, 1, Len(q) - 1)) = Len(q) - 1
  <2>1. 1 \in Int /\ Len(q) - 1 \in Int /\ (1 <= Len(q) - 1 => Len(q) - 1 - 1 + 1 = Len(q) - 1)
        /\ (~(1 <= Len(q) - 1) => Len(q) - 1 = 0)
    BY <1>1
  <2> DEFINE k == Len(q) - 1
  <2>2. k \in Int /\ \A i \in 1 .. k : q[i] \in T  BY <1>2, <2>1
  <2> HIDE DEF k
  <2>3. SubSeq(q, 1, k) \in Seq(T) /\ Len(SubSeq(q, 1, k)) = IF 1 <= k THEN k - 1 + 1 ELSE 0
    BY <2>1, <2>2, SubSeqProperties
  <2>. QED  BY <2>1, <2>3 DEF k
<1>4. \A i \in 1 .. Len(q) - 1 : SubSeq(q, 1, Len(q) - 1)[i] = q[i]  BY <1>1
<1>. QED  BY <1>1, <1>3, <1>4

-----------------------------------------------------------------------------
(* The key-value store *)

\* A set of numbers has a least one.
LEMMA LeastExists ==
  ASSUME NEW T, T \subseteq Nat, T # {}
  PROVE  \E x \in T : \A y \in T : x <= y
<1>1. PICK x \in T : \A y \in T : <<y, x>> \notin OpToRel(<, Nat)
  BY WFMin, NatLessThanWellFounded
<1>2. \A y \in T : ~(y < x)  BY <1>1 DEF OpToRel
<1>. QED  BY <1>2

\* No key has two slots.
StoreInv ==
  /\ keys \in [K!Slot -> Key \cup {None}]
  /\ vals \in [K!Slot -> Value \cup {None}]
  /\ \A s, t \in K!Slot : keys[s] # None /\ keys[s] = keys[t] => s = t

StoreVars == <<keys, vals>>

\* What the store holds for a key is what is in the key's only slot.
LEMMA ValueOf ==
  ASSUME StoreInv, NEW k \in Key
  PROVE  /\ \A s \in K!Slot : keys[s] = k => K!Contents[k] = vals[s]
         /\ (\A s \in K!Slot : keys[s] # k) => K!Contents[k] = None
<1>1. k # None  BY ArgumentsAreRight
<1>2. K!Contents[k] = IF K!Has(k) THEN vals[CHOOSE s \in K!Slot : keys[s] = k] ELSE None
  BY DEF K!Contents
<1>3. ASSUME NEW s \in K!Slot, keys[s] = k
      PROVE  K!Contents[k] = vals[s]
  <2>1. (CHOOSE t \in K!Slot : keys[t] = k) = s  BY <1>1, <1>3 DEF StoreInv
  <2>2. K!Has(k)  BY <1>3 DEF K!Has
  <2>. QED  BY <1>2, <2>1, <2>2
<1>4. (\A s \in K!Slot : keys[s] # k) => ~K!Has(k)  BY DEF K!Has
<1>. QED  BY <1>2, <1>3, <1>4

LEMMA ContentsIs == K!Contents = [k \in Key |-> K!Contents[k]]
BY DEF K!Contents

\* The contents change at one key at most.
LEMMA OneKeyChanges ==
  ASSUME NEW k \in Key, \A j \in Key : j # k => K!Contents'[j] = K!Contents[j],
         K!Contents'[k] \in Value \cup {None}
  PROVE  StoredPairs!Next
<1>1. K!Contents' = [j \in Key |-> K!Contents'[j]]  BY DEF K!Contents
<1>2. K!Contents' = [K!Contents EXCEPT ![k] = K!Contents'[k]]  BY <1>1, ContentsIs
<1>. QED  BY <1>2 DEF StoredPairs!Next, StoredPairs!Set

LEMMA ContentsTyped ==
  ASSUME StoreInv, NEW k \in Key
  PROVE  K!Contents[k] \in Value \cup {None}
BY ValueOf DEF StoreInv

LEMMA ContentsTypedLater ==
  ASSUME StoreInv', NEW k \in Key
  PROVE  K!Contents'[k] \in Value \cup {None}
<1>1. (StoreInv => K!Contents[k] \in Value \cup {None})'  BY ContentsTyped, PTL
<1>. QED  BY <1>1

LEMMA ValueLater ==
  ASSUME StoreInv', NEW k \in Key
  PROVE  /\ \A s \in K!Slot : keys'[s] = k => K!Contents'[k] = vals'[s]
         /\ (\A s \in K!Slot : keys'[s] # k) => K!Contents'[k] = None
<1>1. (StoreInv => /\ \A s \in K!Slot : keys[s] = k => K!Contents[k] = vals[s]
                   /\ (\A s \in K!Slot : keys[s] # k) => K!Contents[k] = None)'
  BY ValueOf, PTL
<1>. QED  BY <1>1

\* What is stored of a key stays when its slot does.
LEMMA SameSlotSameValue ==
  ASSUME StoreInv, StoreInv', NEW j \in Key,
         \A s \in K!Slot : keys[s] = j \/ keys'[s] = j => keys'[s] = keys[s] /\ vals'[s] = vals[s]
  PROVE  K!Contents'[j] = K!Contents[j]
BY ValueOf, ValueLater

LEMMA StoreInit == K!Init => StoreInv
BY DEF K!Init, StoreInv

LEMMA StoreAppend ==
  ASSUME StoreInv, NEW k \in Key, NEW v \in Value, K!Append(k, v)
  PROVE  StoreInv' /\ (StoredPairs!Next \/ UNCHANGED StoreVars)
<1>1. CASE UNCHANGED StoreVars  BY <1>1 DEF StoreInv, StoreVars
<1>2. CASE ~UNCHANGED StoreVars
  <2>1. ~K!Has(k) /\ K!Holes # {}  BY <1>2 DEF K!Append, StoreVars
  <2> DEFINE h == CHOOSE s \in K!Holes : \A t \in K!Holes : s <= t
  <2>2. keys' = [keys EXCEPT ![h] = k] /\ vals' = [vals EXCEPT ![h] = v]
    BY <2>1 DEF K!Append
  <2> HIDE DEF h
  <2>3. \A s \in K!Slot : keys[s] # k  BY <2>1 DEF K!Has
  <2>4. \A s \in K!Slot : keys'[s] = (IF s = h THEN k ELSE keys[s])
          /\ vals'[s] = (IF s = h THEN v ELSE vals[s])
    BY <2>2 DEF StoreInv
  <2>5. StoreInv'
    <3>1. keys' \in [K!Slot -> Key \cup {None}] /\ vals' \in [K!Slot -> Value \cup {None}]
      BY <2>2 DEF StoreInv
    <3>. QED  BY <2>3, <2>4, <3>1 DEF StoreInv
  <2>6. h \in K!Slot /\ keys[h] = None
    <3>1. \E s \in K!Holes : \A t \in K!Holes : s <= t
      <4>1. \E s : s \in K!Holes /\ s \in Nat
        BY <2>1, SizesAreNatural DEF K!Holes, K!Slot
      <4>2. K!Holes \subseteq Nat  BY SizesAreNatural DEF K!Holes, K!Slot
      <4>. QED  BY <4>1, <4>2, LeastExists
    <3>2. h \in K!Holes  BY <3>1 DEF h
    <3>. QED  BY <3>2 DEF K!Holes
  <2>7. \A j \in Key : j # k => K!Contents'[j] = K!Contents[j]
    <3>. SUFFICES ASSUME NEW j \in Key, j # k
                  PROVE  K!Contents'[j] = K!Contents[j]
      OBVIOUS
    <3>1. j # None  BY ArgumentsAreRight
    <3>. QED  BY <2>4, <2>5, <2>6, <3>1, SameSlotSameValue
  <2>. QED  BY <2>5, <2>7, OneKeyChanges, ContentsTypedLater
<1>. QED  BY <1>1, <1>2

LEMMA StoreRemove ==
  ASSUME StoreInv, NEW k \in Key, K!Remove(k)
  PROVE  StoreInv' /\ (StoredPairs!Next \/ UNCHANGED StoreVars)
<1>1. k # None  BY ArgumentsAreRight
<1>2. \A s \in K!Slot :
        /\ keys'[s] = IF s \in K!Reached /\ keys[s] = k THEN None ELSE keys[s]
        /\ vals'[s] = IF s \in K!Reached /\ keys[s] = k THEN None ELSE vals[s]
  BY DEF K!Remove
<1>3. StoreInv'
  <2>1. keys' \in [K!Slot -> Key \cup {None}] /\ vals' \in [K!Slot -> Value \cup {None}]
    BY DEF K!Remove, StoreInv
  <2>2. \A s, t \in K!Slot : keys'[s] # None /\ keys'[s] = keys'[t] => s = t
    BY <1>2 DEF StoreInv
  <2>. QED  BY <2>1, <2>2 DEF StoreInv
<1>4. \A j \in Key : j # k => K!Contents'[j] = K!Contents[j]
  <2>. SUFFICES ASSUME NEW j \in Key, j # k
                PROVE  K!Contents'[j] = K!Contents[j]
    OBVIOUS
  <2>1. j # None  BY ArgumentsAreRight
  <2>. QED  BY <1>2, <1>3, <2>1, SameSlotSameValue
<1>. QED  BY <1>3, <1>4, OneKeyChanges, ContentsTypedLater

LEMMA StoreChange ==
  ASSUME StoreInv, NEW k \in Key, NEW v \in Value, K!Change(k, v)
  PROVE  StoreInv' /\ (StoredPairs!Next \/ UNCHANGED StoreVars)
<1>2. keys' = keys /\ \A s \in K!Slot : vals'[s] = IF s \in K!Reached /\ keys[s] = k THEN v ELSE vals[s]
  BY DEF K!Change
<1>3. StoreInv'
  <2>1. vals' \in [K!Slot -> Value \cup {None}]  BY DEF K!Change, StoreInv
  <2>. QED  BY <1>2, <2>1 DEF StoreInv
<1>4. \A j \in Key : j # k => K!Contents'[j] = K!Contents[j]
  BY <1>2, <1>3, SameSlotSameValue
<1>. QED  BY <1>3, <1>4, OneKeyChanges, ContentsTypedLater

LEMMA StoreNext ==
  ASSUME StoreInv, K!Next \/ UNCHANGED StoreVars
  PROVE  StoreInv' /\ [StoredPairs!Next]_(K!Contents)
<1>1. CASE UNCHANGED StoreVars
  <2>1. K!Slot' = K!Slot  BY DEF K!Slot
  <2>2. K!Contents' = K!Contents  BY <1>1 DEF K!Contents, K!Has, StoreVars
  <2>. QED  BY <1>1, <2>2 DEF StoreVars, StoreInv
<1>2. CASE K!Next
  <2>1. PICK k \in Key : K!Remove(k) \/ \E v \in Value : K!Append(k, v) \/ K!Change(k, v)
    BY <1>2 DEF K!Next
  <2>2. StoreInv' /\ (StoredPairs!Next \/ UNCHANGED StoreVars)
    BY <2>1, StoreRemove, StoreAppend, StoreChange
  <2>3. UNCHANGED StoreVars => K!Contents' = K!Contents
    BY DEF K!Contents, K!Has, StoreVars
  <2>. QED  BY <2>2, <2>3
<1>. QED  BY <1>1, <1>2

-----------------------------------------------------------------------------
(* The circular buffer *)

\* The index at which the next item is pushed is count items behind the one to pop.
BufferInv ==
  /\ r_idx \in 0 .. Slots - 1 /\ count \in 0 .. Slots
  /\ w_idx = (r_idx + count) % Slots
  /\ DOMAIN array = 0 .. Slots - 1

\* An index that has gone past the end once.
LEMMA Wrapped ==
  ASSUME NEW n \in Nat \ {0}, NEW i \in 0 .. 2 * n - 1
  PROVE  i % n = IF i < n THEN i ELSE i - n
<1>1. CASE i < n  BY <1>1
<1>2. CASE i >= n
  <2>1. i = n * (i \div n) + (i % n) /\ i % n \in 0 .. n - 1 /\ i \div n \in Int  BY Z3
  <2>2. i \div n = 1  BY <1>2, <2>1, Z3
  <2>. QED  BY <1>2, <2>1, <2>2
<1>. QED  BY <1>1, <1>2

LEMMA NextIndex ==
  ASSUME NEW n \in Nat \ {0}, NEW r \in 0 .. n - 1, NEW c \in 0 .. n - 1
  PROVE  (((r + c) % n) + 1) % n = (r + (c + 1)) % n
<1>1. PICK a \in 0 .. 2 * n - 1 : a = r + c  OBVIOUS
<1>2. PICK w \in 0 .. n - 1 : w = a % n /\ w = IF a < n THEN a ELSE a - n
  BY <1>1, Wrapped
<1>3. PICK u \in 0 .. 2 * n - 1 : u = w + 1  OBVIOUS
<1>4. PICK b \in 0 .. 2 * n - 1 : b = r + (c + 1) /\ b = a + 1  BY <1>1
<1>5. u % n = (IF u < n THEN u ELSE u - n) /\ b % n = (IF b < n THEN b ELSE b - n)
  BY Wrapped
<1>6. u % n = b % n  BY <1>2, <1>3, <1>4, <1>5
<1>. QED  BY <1>1, <1>2, <1>3, <1>4, <1>6

\* Where the item i of the queue is.
At(i) == IF r_idx + i - 1 < Slots THEN r_idx + i - 1 ELSE r_idx + i - 1 - Slots

LEMMA AtIs ==
  ASSUME BufferInv, NEW i \in 1 .. Slots + 1
  PROVE  (r_idx + i - 1) % Slots = At(i)
<1>1. Slots \in Nat \ {0} /\ r_idx \in 0 .. Slots - 1  BY SizesAreNatural DEF BufferInv
<1> DEFINE k == r_idx + i - 1
<1>2. k \in 0 .. 2 * Slots - 1  BY <1>1
<1>3. /\ k < Slots => At(i) = k
      /\ ~(k < Slots) => At(i) = k - Slots
  BY <1>1, <1>2 DEF At
<1> HIDE DEF k
<1>4. k % Slots = IF k < Slots THEN k ELSE k - Slots  BY <1>1, <1>2, Wrapped
<1>5. k % Slots = At(i)  BY <1>3, <1>4
<1>. QED  BY <1>5 DEF k

LEMMA QueuedIs ==
  ASSUME BufferInv
  PROVE  B!Queued = [i \in 1 .. count |-> array[At(i)]]
<1>1. Slots \in Nat \ {0} /\ count \in 0 .. Slots  BY SizesAreNatural DEF BufferInv
<1>2. \A i \in 1 .. count : (r_idx + i - 1) % Slots = At(i)  BY <1>1, AtIs
<1>3. B!Queued = [i \in 1 .. count |-> array[(r_idx + i - 1) % Slots]]  BY DEF B!Queued
<1>. QED  BY Zenon, <1>2, <1>3

LEMMA QueuedLater ==
  ASSUME BufferInv'
  PROVE  B!Queued' = [i \in 1 .. count' |-> array'[At(i)']]
<1>1. (BufferInv => B!Queued = [i \in 1 .. count |-> array[At(i)]])'  BY QueuedIs, PTL
<1>. QED  BY <1>1

\* A sequence as a function, with an item more behind it or without its first.
LEMMA Sequences ==
  ASSUME NEW n \in Nat, NEW f
  PROVE  /\ Len([i \in 1 .. n |-> f[i]]) = n
         /\ \A v : Append([i \in 1 .. n |-> f[i]], v) = [i \in 1 .. n + 1 |-> IF i = n + 1 THEN v
              ELSE f[i]]
         /\ n # 0 => /\ Head([i \in 1 .. n |-> f[i]]) = f[1]
                     /\ Tail([i \in 1 .. n |-> f[i]]) = [i \in 1 .. n - 1 |-> f[i + 1]]
                     /\ [i \in 1 .. n |-> f[i]] # <<>>
<1> DEFINE s == [i \in 1 .. n |-> f[i]]
<1>1. Len(s) = n  OBVIOUS
<1>2. \A v : Append(s, v) = [i \in 1 .. n + 1 |-> IF i = n + 1 THEN v ELSE f[i]]
  OBVIOUS
<1>3. n # 0 => Head(s) = f[1] /\ Tail(s) = [i \in 1 .. n - 1 |-> f[i + 1]]  OBVIOUS
<1>4. n # 0 => s # <<>>  BY <1>1
<1>. QED  BY <1>1, <1>2, <1>3, <1>4

LEMMA BufferInit == B!Init => BufferInv
<1>. SUFFICES ASSUME B!Init PROVE BufferInv  OBVIOUS
<1>1. Slots \in Nat \ {0}  BY SizesAreNatural
<1>2. r_idx = 0 /\ w_idx = 0 /\ count = 0 /\ array = [i \in 0 .. Slots - 1 |-> Nothing]
  BY DEF B!Init
<1>3. (0 + 0) % Slots = 0  BY <1>1, Wrapped
<1>. QED  BY <1>1, <1>2, <1>3 DEF BufferInv

LEMMA BufferPush ==
  ASSUME BufferInv, NEW v \in Item, B!Push(v)
  PROVE  BufferInv' /\ QueuedItems!Put(v)
<1>1. Slots \in Nat \ {0} /\ r_idx \in 0 .. Slots - 1 /\ count \in 0 .. Slots - 1
  BY SizesAreNatural DEF BufferInv, B!Push
<1>2. r_idx' = r_idx /\ count' = count + 1 /\ got' = got  BY DEF B!Push
<1>3. w_idx = At(count + 1) /\ At(count + 1) \in 0 .. Slots - 1
  <2>1. r_idx + (count + 1) - 1 = r_idx + count /\ count + 1 \in 1 .. Slots + 1  BY <1>1
  <2>2. w_idx = (r_idx + count) % Slots  BY DEF BufferInv
  <2>3. At(count + 1) \in 0 .. Slots - 1  BY <1>1 DEF At
  <2>. QED  BY <2>1, <2>2, <2>3, AtIs
<1>4. array' = [array EXCEPT ![At(count + 1)] = v] /\ DOMAIN array = 0 .. Slots - 1
  BY <1>3 DEF B!Push, BufferInv
<1>5. BufferInv'
  <2>1. r_idx' \in 0 .. Slots - 1 /\ count' \in 0 .. Slots  BY <1>1, <1>2
  <2>2. DOMAIN array' = 0 .. Slots - 1  BY <1>4
  <2>3. w_idx' = (w_idx + 1) % Slots  BY DEF B!Push
  <2>4. w_idx = (r_idx + count) % Slots  BY DEF BufferInv
  <2>5. (((r_idx + count) % Slots) + 1) % Slots = (r_idx + (count + 1)) % Slots
    BY <1>1, NextIndex
  <2>9. w_idx' = (r_idx' + count') % Slots  BY <1>2, <2>3, <2>4, <2>5
  <2>. QED  BY <2>1, <2>2, <2>9 DEF BufferInv
<1>6. B!Queued' = Append(B!Queued, v)
  <2> DEFINE f == [i \in 1 .. count |-> array[At(i)]]
             g == [i \in 1 .. count + 1 |-> IF i = count + 1 THEN v ELSE f[i]]
  <2>1. count \in Nat  BY <1>1
  <2>2. B!Queued = [i \in 1 .. count |-> f[i]]  BY QueuedIs
  <2>3. Append(B!Queued, v) = g
    <3> HIDE DEF f
    <3>. QED  BY <2>1, <2>2, Sequences
  <2>4. \A i \in 1 .. count + 1 : array'[At(i)] = IF i = count + 1 THEN v ELSE array[At(i)]
    <3>. SUFFICES ASSUME NEW i \in 1 .. count + 1
                  PROVE  array'[At(i)] = IF i = count + 1 THEN v ELSE array[At(i)]
      OBVIOUS
    <3>1. At(i) \in 0 .. Slots - 1  BY <1>1 DEF At
    <3>2. i # count + 1 => At(i) # At(count + 1)  BY <1>1 DEF At
    <3>. QED  BY <1>3, <1>4, <3>1, <3>2
  <2>5. \A i \in 1 .. count + 1 : At(i)' = At(i)  BY <1>2 DEF At
  <2>6. B!Queued' = [i \in 1 .. count + 1 |-> array'[At(i)']]
    BY <1>2, <1>5, QueuedLater
  <2>7. \A i \in 1 .. count + 1 : i # count + 1 => i \in 1 .. count  BY <1>1
  <2>8. \A i \in 1 .. count + 1 : array'[At(i)'] = g[i]  BY <2>4, <2>5, <2>7
  <2>9. B!Queued' = [i \in 1 .. count + 1 |-> g[i]]
    <3> HIDE DEF g
    <3>. QED  BY Zenon, <2>6, <2>8
  <2>. QED  BY <2>3, <2>9
<1>7. Len(B!Queued) < Slots
  <2>1. Len(B!Queued) = count  BY <1>1, QueuedIs
  <2>. QED  BY <1>1, <2>1
<1>. QED  BY <1>2, <1>5, <1>6, <1>7 DEF QueuedItems!Put

LEMMA BufferPop ==
  ASSUME BufferInv, B!Pop
  PROVE  BufferInv' /\ QueuedItems!Take
<1>1. Slots \in Nat \ {0} /\ r_idx \in 0 .. Slots - 1 /\ count \in 1 .. Slots
  BY SizesAreNatural DEF BufferInv, B!Pop
<1>2. count' = count - 1 /\ w_idx' = w_idx /\ array' = array /\ got' = array[r_idx]
  BY DEF B!Pop
<1> DEFINE s == r_idx + 1
<1>3. r_idx' = IF s < Slots THEN s ELSE s - Slots
  <2>1. r_idx' = s % Slots /\ s \in 0 .. 2 * Slots - 1  BY <1>1 DEF B!Pop
  <2> HIDE DEF s
  <2>. QED  BY <1>1, <2>1, Wrapped
<1>4. BufferInv'
  <2>1. r_idx' \in 0 .. Slots - 1 /\ count' \in 0 .. Slots  BY <1>1, <1>2, <1>3
  <2>2. w_idx' = (r_idx + count) % Slots  BY <1>2 DEF BufferInv
  <2> DEFINE a == r_idx + count
             b == r_idx' + (count - 1)
  <2>3. a \in 0 .. 2 * Slots - 1 /\ b \in 0 .. 2 * Slots - 1 /\ (b = a \/ b = a - Slots)
    BY <1>1, <1>3
  <2>4. b < Slots \/ b = a  BY <1>1, <1>3
  <2> HIDE DEF a, b
  <2>5. a % Slots = (IF a < Slots THEN a ELSE a - Slots)
          /\ b % Slots = (IF b < Slots THEN b ELSE b - Slots)
    BY <1>1, <2>3, Wrapped
  <2>6. a % Slots = b % Slots  BY <1>1, <2>3, <2>4, <2>5
  <2>7. w_idx' = (r_idx' + count') % Slots  BY <1>2, <2>2, <2>6 DEF a, b
  <2>. QED  BY <1>2, <2>1, <2>7 DEF BufferInv
<1>5. B!Queued # <<>> /\ got' = Head(B!Queued) /\ B!Queued' = Tail(B!Queued)
  <2> DEFINE f == [i \in 1 .. count |-> array[At(i)]]
  <2>1. count \in Nat /\ count # 0 /\ 1 \in 1 .. count  BY <1>1
  <2>2. B!Queued = [i \in 1 .. count |-> f[i]]  BY QueuedIs
  <2>3. f[1] = array[r_idx]
    <3>1. At(1) = r_idx  BY <1>1 DEF At
    <3>. QED  BY <2>1, <3>1
  <2>4. \A i \in 1 .. count - 1 : f[i + 1] = array[At(i + 1)]  BY <2>1
  <2>5. \A i \in 1 .. count - 1 : At(i)' = At(i + 1)  BY <1>1, <1>3 DEF At
  <2>6. B!Queued' = [i \in 1 .. count - 1 |-> array[At(i)']]  BY <1>2, <1>4, QueuedLater
  <2> HIDE DEF f
  <2>7. B!Queued' = [i \in 1 .. count - 1 |-> f[i + 1]]  BY Zenon, <2>4, <2>5, <2>6
  <2>8. B!Queued # <<>> /\ Head(B!Queued) = f[1] /\ Tail(B!Queued) = [i \in 1 .. count - 1 |-> f[i + 1]]
    BY <2>1, <2>2, Sequences
  <2>. QED  BY <1>2, <2>3, <2>7, <2>8
<1>. QED  BY <1>4, <1>5 DEF QueuedItems!Take

BufferVars == <<r_idx, w_idx, count, array, got>>

LEMMA BufferNext ==
  ASSUME BufferInv, B!Next \/ UNCHANGED BufferVars
  PROVE  BufferInv' /\ [QueuedItems!Next]_<<B!Queued, got>>
<1>1. CASE UNCHANGED BufferVars  BY <1>1 DEF BufferVars, BufferInv, B!Queued
<1>2. ASSUME NEW v \in Item, B!Push(v)
      PROVE  BufferInv' /\ QueuedItems!Next
  BY <1>2, BufferPush DEF QueuedItems!Next
<1>3. ASSUME B!Pop
      PROVE  BufferInv' /\ QueuedItems!Next
  BY <1>3, BufferPop DEF QueuedItems!Next
<1>4. ASSUME B!PopEmpty
      PROVE  BufferInv' /\ QueuedItems!Next
  <2>1. BufferInv' /\ B!Queued' = B!Queued  BY <1>4 DEF B!PopEmpty, BufferInv, B!Queued
  <2>2. B!Queued = <<>>
    <3>1. B!Queued = [i \in 1 .. 0 |-> array[At(i)]]  BY <1>4, QueuedIs DEF B!PopEmpty
    <3>. QED  BY <3>1
  <2>3. QueuedItems!TakeNothing
    BY <1>4, <2>1, <2>2 DEF QueuedItems!TakeNothing, B!PopEmpty
  <2>. QED  BY <2>1, <2>3 DEF QueuedItems!Next
<1>. QED  BY <1>1, <1>2, <1>3, <1>4 DEF B!Next

\* A store changes the value of one key in a call, whatever holes it has, and a buffer
\* gives items back in their order wherever its indices wrap (kvstore.c, cbuffer.h).
THEOREM ContainersAreRight == Spec => ContainersKeepOrder
<1>1. Init => StoreInv /\ StoredPairs!Init
  <2>1. K!Init => StoredPairs!Init
    <3>. SUFFICES ASSUME K!Init PROVE StoredPairs!Init  OBVIOUS
    <3>1. \A k \in Key : K!Contents[k] = None
      BY StoreInit, ArgumentsAreRight, ValueOf DEF K!Init
    <3>. QED  BY <3>1, ContentsIs DEF StoredPairs!Init
  <2>. QED  BY <2>1, StoreInit DEF Init
<1>2. Init => BufferInv /\ QueuedItems!Init
  <2>1. B!Init => QueuedItems!Init
    <3>. SUFFICES ASSUME B!Init PROVE QueuedItems!Init  OBVIOUS
    <3>1. B!Queued = [i \in 1 .. 0 |-> array[At(i)]]  BY BufferInit, QueuedIs DEF B!Init
    <3>2. B!Queued = <<>>  BY <3>1
    <3>. QED  BY <3>2 DEF B!Init, QueuedItems!Init
  <2>. QED  BY <2>1, BufferInit DEF Init
<1>3. StoreInv /\ [Next]_vars => StoreInv' /\ [StoredPairs!Next]_(K!Contents)
  <2>1. [Next]_vars => K!Next \/ UNCHANGED StoreVars
    BY DEF Next, vars, StoreVars, storeVars, UsePages, UseStore, UseBuffer, UseLinear, UsePool,
        UseMalloc, UseInterrupts, UseTree
  <2>. QED  BY <2>1, StoreNext
<1>4. BufferInv /\ [Next]_vars => BufferInv' /\ [QueuedItems!Next]_<<B!Queued, got>>
  <2>1. [Next]_vars => B!Next \/ UNCHANGED BufferVars
    BY DEF Next, vars, BufferVars, bufferVars, UsePages, UseStore, UseBuffer, UseLinear, UsePool,
        UseMalloc, UseInterrupts, UseTree
  <2>. QED  BY <2>1, BufferNext
<1>. QED
  BY <1>1, <1>2, <1>3, <1>4, PTL DEF Spec, ContainersKeepOrder, StoredPairs!Spec, QueuedItems!Spec

-----------------------------------------------------------------------------
(* Interrupts *)

\* At most the context of one line is there, below all others; only its line is in
\* service, and the cascade with a line of the slave.  A context for a line of the
\* master has the handler that the tables name, which do not change meanwhile.
InService(l) == IF l > 7 THEN {l, I!Cascade} ELSE {l}

Context == [kind : {"line", "exception"}, n : 0 .. 55, handler : {I!HandlerOf(v) : v \in 0 .. 55}]

ContextsRight ==
  /\ running \in Seq(Context)
  /\ \A i \in DOMAIN running :
       running[i].kind = "line" =>
         /\ i = 1 /\ running[i].n \in 0 .. 15
         /\ running[i].n <= 7 => running[i].handler = I!HandlerOf(I!Master + running[i].n)

ServiceRight ==
  /\ running = <<>> \/ running[1].kind # "line" => isr = {}
  /\ running # <<>> /\ running[1].kind = "line" => isr \subseteq InService(running[1].n)

TableRight ==
  /\ DOMAIN handlers = 0 .. 55
  /\ \A l \in 0 .. 7 : handlers[I!Master + l] \in {None, <<"line", l>>}

IntrInv == ContextsRight /\ ServiceRight /\ TableRight

LEMMA LeastOf ==
  ASSUME NEW l \in 0 .. 16, l < 16
  PROVE  I!Min({l, 16}) = l /\ I!Min({16}) = 16
BY DEF I!Min

\* Both controllers get an EOI command, which ends whatever is in service.
LEMMA EoiEndsAll ==
  ASSUME NEW l \in 0 .. 15, isr \subseteq InService(l), NEW v \in Nat, v > 7
  PROVE  I!WriteEoi(v) = {}
<1>1. ASSUME NEW lines, NEW k \in 0 .. 15, lines \subseteq {k}
      PROVE  I!AfterEoi(lines) = {}
  <2>1. CASE lines = {}  BY <2>1 DEF I!AfterEoi
  <2>2. CASE lines = {k}
    <3>1. {k} \cup {16} = {k, 16}  OBVIOUS
    <3>2. I!Min({k, 16}) = k  BY LeastOf
    <3>3. I!AfterEoi({k}) = {k} \ {I!Min({k} \cup {16})}  BY DEF I!AfterEoi
    <3>. QED  BY <2>2, <3>1, <3>2, <3>3
  <2>. QED  BY <1>1, <2>1, <2>2
<1>2. I!WriteEoi(v) = I!EoiMaster(I!EoiSlave(isr))  BY DEF I!WriteEoi
<1> DEFINE m == IF l > 7 THEN 2 ELSE l
<1>3. I!OfSlave(isr) \subseteq {l} /\ isr \ I!OfSlave(isr) \subseteq {m} /\ m \in 0 .. 15
  <2>1. I!OfSlave(isr) = {k \in isr : k > 7}  BY DEF I!OfSlave
  <2>2. CASE l > 7
    <3>1. isr \subseteq {l, 2} /\ m = 2  BY <2>2 DEF InService, I!Cascade
    <3> HIDE DEF m
    <3>2. \A k \in isr : k = l \/ k = 2  BY <3>1
    <3>6. l \in isr => l \in I!OfSlave(isr)  BY <2>1, <2>2
    <3>3. isr \ I!OfSlave(isr) \subseteq {m} /\ m \in 0 .. 15
      <4>1. \A k \in isr : k \notin I!OfSlave(isr) => k = m  BY Zenon, <3>1, <3>2, <3>6
      <4>2. m \in 0 .. 15  BY <3>1
      <4>. QED  BY Zenon, <4>1, <4>2
    <3>4. \A k \in I!OfSlave(isr) : k \in isr /\ k > 7  BY <2>1
    <3>5. \A k \in I!OfSlave(isr) : k = l  BY <3>2, <3>4
    <3>. QED  BY <3>3, <3>5
  <2>3. CASE ~(l > 7)
    <3>1. isr \subseteq {l} /\ m = l  BY <2>3 DEF InService
    <3> HIDE DEF m
    <3>. QED  BY <2>1, <2>3, <3>1
  <2>. QED  BY <2>2, <2>3
<1> HIDE DEF m
<1>4. I!EoiSlave(isr) = isr \ I!OfSlave(isr)  BY <1>1, <1>3 DEF I!EoiSlave
<1>5. I!OfSlave(I!EoiSlave(isr)) = {}  BY <1>4 DEF I!OfSlave
<1>7. I!AfterEoi(I!EoiSlave(isr)) = {}  BY <1>1, <1>3, <1>4
<1>. QED  BY <1>2, <1>5, <1>7 DEF I!EoiMaster

LEMMA IntrInit == I!Init => IntrInv
<1>. SUFFICES ASSUME I!Init PROVE IntrInv  OBVIOUS
<1>1. running = <<>> /\ isr = {} /\ handlers = [v \in 0 .. 55 |-> None]  BY DEF I!Init
<1>2. TableRight  BY <1>1 DEF TableRight, I!Master
<1>. QED  BY <1>1, <1>2 DEF IntrInv, ContextsRight, ServiceRight

LEMMA InstallKeeps ==
  ASSUME IntrInv, running = <<>>, UNCHANGED <<running, isr>>, TableRight'
  PROVE  IntrInv'
BY DEF IntrInv, ContextsRight, ServiceRight

\* The context of line l is entered, and the controllers have it in service or not.
LEMMA LineEnters ==
  ASSUME IntrInv, NEW l \in 0 .. 15, running = <<>>, I!EnterLine(l),
         isr' \subseteq InService(l), UNCHANGED <<handlers, default>>
  PROVE  IntrInv'
<1> DEFINE v == IF l < 8 THEN l + 32 ELSE l + 40
           c == [kind |-> "line", n |-> l, handler |-> I!HandlerOf(v)]
<1>1. running' = Append(<<>>, c)  BY DEF I!EnterLine, I!Enter, I!Master, I!Slave
<1>5. c.kind = "line" /\ c.n = l /\ c.handler = I!HandlerOf(v) /\ v \in 0 .. 55 /\ (l <= 7 => v = 32 + l)
  OBVIOUS
<1>6. c \in Context
  <2>1. I!HandlerOf(v) \in {I!HandlerOf(u) : u \in 0 .. 55}  BY <1>5
  <2>2. l \in 0 .. 55  OBVIOUS
  <2>. QED  BY <2>1, <2>2 DEF Context
<1> HIDE DEF v, c
<1>7. running' \in Seq(Context) /\ running' # <<>> /\ DOMAIN running' = {1} /\ running'[1] = c
  <2>1. <<>> \in Seq(Context) /\ Len(<<>>) = 0 /\ 0 + 1 = 1 /\ 1 .. 1 = {1}  OBVIOUS
  <2>2. \A q \in Seq(Context) : /\ Append(q, c) \in Seq(Context) /\ Append(q, c) # <<>>
                                /\ DOMAIN Append(q, c) = 1 .. Len(q) + 1
                                /\ Append(q, c)[Len(q) + 1] = c
    BY <1>6, Appended
  <2>. QED  BY Zenon, <1>1, <2>1, <2>2
<1>2. \A w : I!HandlerOf(w)' = I!HandlerOf(w)  BY DEF I!HandlerOf
<1>3. ContextsRight'
  <2>1. Context' = Context  BY <1>2 DEF Context
  <2>3. running'[1].n \in 0 .. 15  BY <1>5, <1>7
  <2>4. running'[1].n <= 7 => running'[1].handler = I!HandlerOf(I!Master + running'[1].n)
    BY <1>5, <1>7 DEF I!Master
  <2>5. \A i \in DOMAIN running' : i = 1  BY <1>7
  <2>. QED  BY Zenon, <1>2, <1>7, <2>1, <2>3, <2>4, <2>5 DEF ContextsRight
<1>9. running' # <<>> /\ running'[1].kind = "line" /\ running'[1].n = l
  BY Zenon, <1>5, <1>7
<1>4. ServiceRight'  BY Zenon, <1>9 DEF ServiceRight
<1>8. TableRight'  BY DEF IntrInv, TableRight
<1>. QED  BY <1>3, <1>4, <1>8 DEF IntrInv

LEMMA NothingOfIntr ==
  ASSUME IntrInv, UNCHANGED <<handlers, default, isr, running>>
  PROVE  IntrInv'
<1>1. handlers' = handlers /\ default' = default /\ isr' = isr /\ running' = running
  OBVIOUS
<1>2. \A v : I!HandlerOf(v)' = I!HandlerOf(v)  BY <1>1 DEF I!HandlerOf
<1>3. Context' = Context  BY Zenon, <1>2 DEF Context
<1>. QED
  BY Zenon, <1>1, <1>2, <1>3 DEF IntrInv, ContextsRight, ServiceRight, TableRight

LEMMA IntrNext ==
  ASSUME IntrInv, [I!Next]_intrVars
  PROVE  IntrInv'
<1>1. ASSUME I!SetDefault \/ \E on \in BOOLEAN : I!Enable(on)
      PROVE  IntrInv'
  BY <1>1, InstallKeeps DEF I!SetDefault, I!Enable, IntrInv, TableRight, I!picVars
<1>2. ASSUME NEW n \in Exception, I!HandlerCpu(n)
      PROVE  IntrInv'
  <2>1. n \in 0 .. 21  BY <1>2, ArgumentsAreRight DEF I!HandlerCpu
  <2>2. TableRight'
    <3>1. handlers' = handlers \/ handlers' = [handlers EXCEPT ![n] = <<"exception", n>>]
      BY <1>2 DEF I!HandlerCpu, I!Install
    <3>2. DOMAIN handlers' = 0 .. 55  BY <3>1 DEF IntrInv, TableRight
    <3>3. \A l \in 0 .. 7 : handlers'[32 + l] = handlers[32 + l]
      BY <2>1, <3>1 DEF IntrInv, TableRight
    <3>. QED  BY <3>2, <3>3 DEF IntrInv, TableRight, I!Master
  <2>. QED  BY <1>2, <2>2, InstallKeeps DEF I!HandlerCpu, I!Install, I!picVars
<1>3. ASSUME NEW l \in Line, I!HandlerPic(l)
      PROVE  IntrInv'
  <2>1. l \in 0 .. 15  BY ArgumentsAreRight
  <2>2. TableRight'
    <3> DEFINE v == IF l > 7 THEN 40 + l - 8 ELSE 32 + l
    <3>0. v = 32 + l  BY <2>1
    <3>1. handlers' = handlers \/ handlers' = [handlers EXCEPT ![v] = <<"line", l>>]
      BY <1>3 DEF I!HandlerPic, I!Install, I!Master, I!Slave
    <3>2. DOMAIN handlers' = 0 .. 55  BY <3>1 DEF IntrInv, TableRight
    <3> HIDE DEF v
    <3>3. ASSUME NEW k \in 0 .. 7
          PROVE  handlers'[32 + k] \in {None, <<"line", k>>}
      <4>1. handlers[32 + k] \in {None, <<"line", k>>} /\ DOMAIN handlers = 0 .. 55
        BY DEF IntrInv, TableRight, I!Master
      <4>2. handlers'[32 + k] = IF handlers' # handlers /\ k = l THEN <<"line", l>> ELSE handlers[32 + k]
        BY <2>1, <3>0, <3>1, <4>1
      <4>. QED  BY <4>1, <4>2
    <3>. QED  BY <3>2, <3>3 DEF TableRight, I!Master
  <2>. QED  BY <1>3, <2>2, InstallKeeps DEF I!HandlerPic, I!Install, I!picVars
<1>4. ASSUME NEW l \in Line, I!Raise(l)
      PROVE  IntrInv'
  <2>1. UNCHANGED <<handlers, default, isr, running>>  BY <1>4 DEF I!Raise
  <2>. QED  BY <2>1, NothingOfIntr
<1>5. ASSUME NEW l \in Line, I!Interrupt(l)
      PROVE  IntrInv'
  <2>1. isr' \subseteq InService(l)
    BY <1>5 DEF I!Interrupt, IntrInv, ServiceRight, InService, I!Cascade
  <2>. QED  BY <1>5, <2>1, LineEnters, ArgumentsAreRight DEF I!Interrupt
<1>6. ASSUME NEW l \in {7, 15}, I!Spurious(l)
      PROVE  IntrInv'
  <2>1. isr' \subseteq InService(l)
    BY <1>6 DEF I!Spurious, IntrInv, ServiceRight, InService, I!Cascade
  <2>. QED  BY <1>6, <2>1, LineEnters DEF I!Spurious
<1>7. ASSUME NEW n \in Exception, I!Trap(n)
      PROVE  IntrInv'
  <2>1. \A w : I!HandlerOf(w)' = I!HandlerOf(w)  BY <1>7 DEF I!Trap, I!HandlerOf
  <2>2. CASE running' = running  BY <1>7, <2>2, NothingOfIntr DEF I!Trap, I!picVars
  <2>3. CASE n \in I!ErrorCode /\ I!Enter("exception", n, n)
    <3> DEFINE c == [kind |-> "exception", n |-> n, handler |-> I!HandlerOf(n)]
    <3>1. running' = Append(running, c)  BY <2>3 DEF I!Enter
    <3>2. c.kind # "line"  OBVIOUS
    <3>3. c \in Context
      <4>1. n \in 0 .. 55  BY <2>3 DEF I!ErrorCode
      <4>2. I!HandlerOf(n) \in {I!HandlerOf(u) : u \in 0 .. 55}  BY <4>1
      <4>. QED  BY <4>1, <4>2 DEF Context
    <3> HIDE DEF c
    <3>4. running \in Seq(Context) /\ Len(running) \in Nat /\ DOMAIN running = 1 .. Len(running)
      <4>1. running \in Seq(Context)  BY DEF IntrInv, ContextsRight
      <4>. QED  BY <4>1
    <3>6. /\ running' \in Seq(Context) /\ running' # <<>>
          /\ DOMAIN running' = 1 .. Len(running) + 1
          /\ running'[Len(running) + 1] = c
          /\ \A i \in 1 .. Len(running) : running'[i] = running[i]
      BY <3>1, <3>3, <3>4, Appended
    <3>7. \A i \in DOMAIN running' : running'[i].kind = "line" => i \in DOMAIN running
            /\ running'[i] = running[i]
      <4>1. \A i \in 1 .. Len(running) + 1 : i \in 1 .. Len(running) \/ i = Len(running) + 1
        BY <3>4
      <4>. QED  BY Zenon, <3>2, <3>4, <3>6, <4>1
    <3>8. ContextsRight'
      <4>1. Context' = Context  BY <2>1 DEF Context
      <4>. QED  BY ZenonT(40), <2>1, <3>6, <3>7, <4>1 DEF IntrInv, ContextsRight
    <3>9. ServiceRight'
      <4>1. isr' = isr  BY <1>7 DEF I!Trap, I!picVars
      <4>2. CASE running = <<>>
        <5>1. running'[1] = c  BY <3>6, <4>2
        <5>. QED  BY Zenon, <3>2, <4>1, <4>2, <5>1 DEF IntrInv, ServiceRight
      <4>3. CASE running # <<>>
        <5>1. running'[1] = running[1]  BY <3>4, <3>6, <4>3
        <5>. QED  BY Zenon, <3>6, <4>1, <4>3, <5>1 DEF IntrInv, ServiceRight
      <4>. QED  BY <4>2, <4>3
    <3>5. TableRight'  BY <1>7 DEF IntrInv, TableRight, I!Trap
    <3>. QED  BY <3>5, <3>8, <3>9 DEF IntrInv
  <2>. QED  BY <1>7, <2>2, <2>3 DEF I!Trap
<1>8. ASSUME I!Leave
      PROVE  IntrInv'
  <2>1. \A w : I!HandlerOf(w)' = I!HandlerOf(w)  BY <1>8 DEF I!Leave, I!HandlerOf
  <2>2. running \in Seq(Context) /\ running # <<>> /\ running' = SubSeq(running, 1, Len(running) - 1)
    BY <1>8 DEF I!Leave, IntrInv, ContextsRight
  <2>3. /\ running' \in Seq(Context) /\ Len(running') = Len(running) - 1 /\ Len(running) \in Nat \ {0}
        /\ DOMAIN running' = 1 .. Len(running) - 1
        /\ \A i \in 1 .. Len(running) - 1 : running'[i] = running[i]
    BY Zenon, <2>2, Shortened
  <2>7. DOMAIN running = 1 .. Len(running)  BY <2>2
  <2>8. \A i \in 1 .. Len(running) - 1 : i \in 1 .. Len(running)  BY <2>3
  <2>4. ContextsRight'
    <3>1. Context' = Context  BY <2>1 DEF Context
    <3>. QED  BY Zenon, <2>1, <2>3, <2>7, <2>8, <3>1 DEF IntrInv, ContextsRight
  <2>5. TableRight'  BY <1>8 DEF IntrInv, TableRight, I!Leave
  <2>6. ServiceRight'
    <3>1. CASE running[Len(running)].kind = "line"
      <4>1. Len(running) = 1 /\ isr \subseteq InService(running[1].n) /\ running[1].n \in 0 .. 15
        <5>1. Len(running) \in DOMAIN running  BY <2>3, <2>7
        <5>. QED  BY Zenon, <2>2, <3>1, <5>1 DEF IntrInv, ContextsRight, ServiceRight
      <4>2. PICK v \in Nat : v > 7 /\ isr' = I!WriteEoi(v)
        BY <1>8, <3>1, <4>1 DEF I!Leave, I!Context, I!Master, I!Slave
      <4>3. isr' = {}  BY <4>1, <4>2, EoiEndsAll
      <4>4. running' = <<>>  BY <2>3, <4>1
      <4>. QED  BY Zenon, <4>3, <4>4 DEF ServiceRight
    <3>2. CASE running[Len(running)].kind # "line"
      <4>1. isr' = isr  BY <1>8, <3>2 DEF I!Leave, I!Context
      <4>. QED
        <5>1. CASE Len(running) = 1
          <6>1. running' = <<>>  BY <2>3, <5>1
          <6>. QED  BY Zenon, <2>2, <3>2, <4>1, <5>1, <6>1 DEF IntrInv, ServiceRight
        <5>2. CASE Len(running) # 1
          <6>1. running'[1] = running[1] /\ running' # <<>>  BY <2>3, <5>2
          <6>. QED  BY Zenon, <2>2, <4>1, <6>1 DEF IntrInv, ServiceRight
        <5>. QED  BY <5>1, <5>2
    <3>. QED  BY <3>1, <3>2
  <2>. QED  BY <2>4, <2>5, <2>6 DEF IntrInv
<1>9. ASSUME I!DefaultHandler \/ UNCHANGED intrVars
      PROVE  IntrInv'
  <2>1. UNCHANGED <<handlers, default, isr, running>>
    BY <1>9 DEF I!DefaultHandler, intrVars, I!picVars
  <2>. QED  BY <2>1, NothingOfIntr
<1>. QED  BY <1>1, <1>2, <1>3, <1>4, <1>5, <1>6, <1>7, <1>8, <1>9 DEF I!Next

\* Between interrupts no line is in service, and the handler of a line of the master
\* runs for it (intr.c).
THEOREM LinesAreHandled == Spec => []LinesHandled
<1>1. Init => IntrInv  BY IntrInit DEF Init
<1>2. IntrInv /\ [Next]_vars => IntrInv'
  <2>1. [Next]_vars => [I!Next]_intrVars
    BY DEF Next, vars, intrVars, UsePages, UseStore, UseBuffer, UseLinear, UsePool,
        UseMalloc, UseInterrupts, UseTree
  <2>. QED  BY <2>1, IntrNext
<1>3. IntrInv => LinesHandled
  <2>. SUFFICES ASSUME IntrInv PROVE LinesHandled  OBVIOUS
  <2>1. running = <<>> => isr = {}  BY DEF IntrInv, ServiceRight
  <2>2. ASSUME NEW i \in DOMAIN running, running[i].kind = "line", running[i].n <= 7
        PROVE  /\ handlers[I!Master + running[i].n] # None => running[i].handler = <<"line", running[i].n>>
               /\ running[i].handler \in {None, I!Default, <<"line", running[i].n>>}
    <3>1. running[i].n \in 0 .. 7 /\ running[i].handler = I!HandlerOf(I!Master + running[i].n)
      BY <2>2 DEF IntrInv, ContextsRight
    <3>. QED  BY <3>1 DEF IntrInv, TableRight, I!HandlerOf
  <2>. QED  BY <2>1, <2>2 DEF LinesHandled, I!LinesHandled
<1>. QED  BY <1>1, <1>2, <1>3, PTL DEF Spec

-----------------------------------------------------------------------------
(* The linear allocator *)

\* What is held lies in the order of the calls, before the position.
LinearInv ==
  /\ position \in Nat /\ limit \in Nat
  /\ Start <= position /\ position <= limit /\ limit <= Start + Size
  /\ given \in Seq(Nat \X Nat)
  /\ \A i \in DOMAIN given : Start <= given[i][1] /\ given[i][1] + given[i][2] <= position
  /\ \A i, j \in DOMAIN given : i < j => given[i][1] + given[i][2] <= given[j][1]

\* The addresses of a piece of memory.
Piece(g) == g[1] .. g[1] + g[2] - 1

LEMMA LinearConstants ==
  /\ Start \in Nat /\ Size \in Nat /\ Requests \subseteq Nat /\ Aligns \subseteq Nat \ {0}
BY SizesAreNatural

LEMMA LinearNumbers ==
  ASSUME LinearInv
  PROVE  /\ position \in Nat /\ limit \in Nat /\ Start \in Nat /\ Size \in Nat
         /\ Start <= position /\ position <= limit /\ limit <= Start + Size
BY LinearConstants DEF LinearInv

LEMMA LinearPieces ==
  ASSUME LinearInv, NEW i \in DOMAIN given
  PROVE  /\ given[i][1] \in Nat /\ given[i][2] \in Nat
         /\ Start <= given[i][1] /\ given[i][1] + given[i][2] <= position
         /\ \A j \in DOMAIN given : i < j => given[i][1] + given[i][2] <= given[j][1]
<1>1. given \in Seq(Nat \X Nat)  BY DEF LinearInv
<1>2. given[i] \in Nat \X Nat  BY <1>1
<1>3. given[i][1] \in Nat /\ given[i][2] \in Nat  BY <1>2
<1>. QED  BY Zenon, <1>3 DEF LinearInv

LEMMA LinearHeld == L!Held = {Piece(given[i]) : i \in DOMAIN given} \ {{}}
BY DEF L!Held, Piece

LEMMA LinearHeldLater == L!Held' = {Piece(given'[i]) : i \in DOMAIN given'} \ {{}}
BY DEF L!Held, Piece

LEMMA LinearInit == L!Init => LinearInv /\ LinearRegions!Init
<1>. SUFFICES ASSUME L!Init PROVE LinearInv /\ LinearRegions!Init  OBVIOUS
<1>1. position = Start /\ limit = Start + Size /\ given = <<>>  BY DEF L!Init
<1>2. LinearInv
  <2>1. Start <= Start /\ Start <= Start + Size /\ Start + Size <= Start + Size /\ Start + Size \in Nat
    BY LinearConstants
  <2>2. given \in Seq(Nat \X Nat) /\ DOMAIN given = {}  BY <1>1
  <2>. QED  BY Zenon, <1>1, <2>1, <2>2, LinearConstants DEF LinearInv
<1>3. L!Held = {}  BY <1>1, LinearHeld
<1>. QED  BY <1>2, <1>3 DEF LinearRegions!Init

\* A piece is handed out behind the position.
Handed(p, n) ==
  /\ position <= p /\ p + n <= limit
  /\ position' = p + n /\ given' = Append(given, <<p, n>>) /\ limit' = limit

LEMMA LinearTake ==
  ASSUME LinearInv, NEW p \in Nat, NEW n \in Nat, Handed(p, n)
  PROVE  LinearInv' /\ [LinearRegions!Next]_(L!Held)
<1>1. given \in Seq(Nat \X Nat) /\ Len(given) \in Nat /\ DOMAIN given = 1 .. Len(given)
        /\ <<p, n>> \in Nat \X Nat
  BY DEF LinearInv
<1> DEFINE g == <<p, n>>
           k == Len(given)
<1>2. /\ given' \in Seq(Nat \X Nat) /\ DOMAIN given' = 1 .. k + 1
      /\ given'[k + 1] = g /\ \A i \in 1 .. k : given'[i] = given[i]
  BY <1>1, Appended DEF Handed
<1>12. position <= p /\ p + n <= limit /\ position' = p + n /\ limit' = limit
  BY DEF Handed
<1>3. g[1] = p /\ g[2] = n /\ g \in Nat \X Nat  OBVIOUS
<1>4. k \in Nat /\ \A i \in 1 .. k + 1 : i \in 1 .. k \/ i = k + 1  BY <1>1
<1> HIDE DEF g, k
<1>5. \A i \in 1 .. k : /\ Start <= given[i][1] /\ given[i][1] + given[i][2] <= position
                        /\ given[i][1] \in Nat /\ given[i][2] \in Nat
  <2>. SUFFICES ASSUME NEW i \in 1 .. k
                PROVE  /\ Start <= given[i][1] /\ given[i][1] + given[i][2] <= position
                       /\ given[i][1] \in Nat /\ given[i][2] \in Nat
    OBVIOUS
  <2>1. i \in DOMAIN given  BY <1>1 DEF k
  <2>. QED  BY <2>1, LinearPieces
<1>6. LinearInv'
  <2>1. position' \in Nat /\ limit' \in Nat /\ Start <= position' /\ position' <= limit'
          /\ limit' <= Start + Size
    BY <1>12, LinearNumbers
  <2>2. \A i \in 1 .. k + 1 : Start <= given'[i][1] /\ given'[i][1] + given'[i][2] <= position'
    <3>. SUFFICES ASSUME NEW i \in 1 .. k + 1
                  PROVE  Start <= given'[i][1] /\ given'[i][1] + given'[i][2] <= position'
      OBVIOUS
    <3>1. CASE i = k + 1
      <4>1. given'[i][1] = p /\ given'[i][2] = n  BY <1>2, <1>3, <3>1
      <4>. QED  BY <1>12, <4>1, LinearNumbers
    <3>2. CASE i \in 1 .. k
      <4>1. given'[i] = given[i] /\ position <= position' /\ position \in Nat /\ position' \in Nat
        BY <1>12, <1>2, <2>1, <3>2, LinearNumbers
      <4>2. /\ Start <= given[i][1] /\ given[i][1] + given[i][2] <= position
            /\ given[i][1] \in Nat /\ given[i][2] \in Nat
        BY Zenon, <1>5, <3>2
      <4>. QED  BY <4>1, <4>2
    <3>. QED  BY <1>4, <3>1, <3>2
  <2>3. \A i, j \in 1 .. k + 1 : i < j => given'[i][1] + given'[i][2] <= given'[j][1]
    <3>. SUFFICES ASSUME NEW i \in 1 .. k + 1, NEW j \in 1 .. k + 1, i < j
                  PROVE  given'[i][1] + given'[i][2] <= given'[j][1]
      OBVIOUS
    <3>1. i \in 1 .. k  BY <1>4
    <3>2. given'[i] = given[i]  BY <1>2, <3>1
    <3>3. CASE j = k + 1
      <4>1. given'[j][1] = p  BY <1>2, <1>3, <3>3
      <4>2. /\ given[i][1] + given[i][2] <= position
            /\ given[i][1] \in Nat /\ given[i][2] \in Nat
        BY Zenon, <1>5, <3>1
      <4>. QED  BY <1>12, <3>2, <4>1, <4>2, LinearNumbers
    <3>4. CASE j \in 1 .. k  BY <1>1, <1>2, <3>1, <3>2, <3>4 DEF LinearInv, k
    <3>. QED  BY <1>4, <3>3, <3>4
  <2>. QED  BY <1>2, <2>1, <2>2, <2>3 DEF LinearInv
<1>7. L!Held' = L!Held \cup ({Piece(g)} \ {{}})
  <2>1. \A i \in 1 .. k : i \in 1 .. k + 1  BY <1>4
  <2>2. k + 1 \in 1 .. k + 1  BY <1>4
  <2>3. {Piece(given'[i]) : i \in 1 .. k + 1} = {Piece(given[i]) : i \in 1 .. k} \cup {Piece(g)}
    BY <1>2, <1>4, <2>1, <2>2
  <2>4. DOMAIN given = 1 .. k  BY <1>1 DEF k
  <2>. QED  BY <1>2, <2>3, <2>4, LinearHeld, LinearHeldLater
<1>8. Piece(g) \subseteq Start .. Start + Size - 1
  BY <1>12, <1>3, LinearNumbers DEF Piece
<1>9. \A r \in L!Held : r \cap Piece(g) = {}
  <2>. SUFFICES ASSUME NEW i \in 1 .. k
                PROVE  Piece(given[i]) \cap Piece(g) = {}
    BY <1>1, LinearHeld DEF k
  <2>1. given[i][1] + given[i][2] <= p  BY <1>12, <1>5, LinearNumbers
  <2>. QED  BY <1>3, <1>5, <2>1 DEF Piece
<1>10. CASE Piece(g) = {}  BY <1>6, <1>7, <1>10
<1>11. CASE Piece(g) # {}
  <2>1. L!Held' = L!Held \cup {Piece(g)}  BY <1>7, <1>11
  <2>2. LinearRegions!Add  BY <1>8, <1>9, <1>11, <2>1 DEF LinearRegions!Add
  <2>. QED  BY <1>6, <2>2 DEF LinearRegions!Next
<1>. QED  BY <1>10, <1>11

\* n rounded up to a multiple of a is not less.
LEMMA RoundsUp ==
  ASSUME NEW n \in Nat, NEW a \in Nat \ {0}
  PROVE  ((n + a - 1) \div a) * a \in Nat /\ n <= ((n + a - 1) \div a) * a
<1>1. PICK m \in Nat : m = n + a - 1  OBVIOUS
<1>2. m = a * (m \div a) + (m % a) /\ m % a \in 0 .. a - 1 /\ m \div a \in Nat  BY Z3
<1>3. PICK q \in Nat : q = m \div a  BY <1>2
<1>4. PICK t \in 0 .. a - 1 : t = m % a  BY <1>2
<1>5. PICK e : e = a * q  OBVIOUS
<1>6. e = q * a /\ e \in Nat  BY <1>5, Z3
<1>7. m = e + t  BY <1>2, <1>3, <1>4, <1>5
<1>8. n <= e  BY <1>1, <1>4, <1>6, <1>7
<1>. QED  BY <1>1, <1>3, <1>6, <1>8

\* The piece that was handed out last is given back.
LEMMA LinearFree ==
  ASSUME LinearInv, L!Free
  PROVE  LinearInv' /\ [LinearRegions!Next]_(L!Held)
<1> DEFINE k == Len(given)
           g == given[k]
<1>1. given \in Seq(Nat \X Nat) /\ given # <<>> /\ k \in Nat \ {0} /\ DOMAIN given = 1 .. k
  BY DEF LinearInv, L!Free
<1>2. /\ given' \in Seq(Nat \X Nat) /\ DOMAIN given' = 1 .. k - 1
      /\ \A i \in 1 .. k - 1 : given'[i] = given[i]
  BY <1>1, Shortened DEF L!Free
<1>3. position' = position - g[2] /\ limit' = limit  BY DEF L!Free
<1>4. k \in DOMAIN given /\ \A i \in 1 .. k - 1 : i \in DOMAIN given /\ i < k  BY <1>1
<1> HIDE DEF k
<1>5. /\ g[1] \in Nat /\ g[2] \in Nat /\ Start <= g[1] /\ g[1] + g[2] <= position
  BY <1>4, LinearPieces
<1>6. \A i \in 1 .. k - 1 : /\ Start <= given[i][1] /\ given[i][1] + given[i][2] <= g[1]
                            /\ given[i][1] \in Nat /\ given[i][2] \in Nat
  BY <1>4, LinearPieces
<1> HIDE DEF g
<1>7. LinearInv'
  <2>1. position' \in Nat /\ limit' \in Nat /\ Start <= position' /\ position' <= limit'
          /\ limit' <= Start + Size
    BY <1>3, <1>5, LinearNumbers
  <2>2. \A i \in 1 .. k - 1 : Start <= given'[i][1] /\ given'[i][1] + given'[i][2] <= position'
    <3>. SUFFICES ASSUME NEW i \in 1 .. k - 1
                  PROVE  Start <= given'[i][1] /\ given'[i][1] + given'[i][2] <= position'
      OBVIOUS
    <3>1. given'[i] = given[i]  BY <1>2
    <3>2. /\ Start <= given[i][1] /\ given[i][1] + given[i][2] <= g[1]
          /\ given[i][1] \in Nat /\ given[i][2] \in Nat
      BY Zenon, <1>6
    <3>. QED  BY <1>3, <1>5, <3>1, <3>2, LinearNumbers
  <2>3. \A i, j \in 1 .. k - 1 : i < j => given'[i][1] + given'[i][2] <= given'[j][1]
    BY <1>2, <1>4, LinearPieces
  <2>. QED  BY Zenon, <1>2, <2>1, <2>2, <2>3 DEF LinearInv
<1>8. \A i \in 1 .. k : i \in 1 .. k - 1 \/ i = k  BY <1>1
<1>9. L!Held = (L!Held' \cup {Piece(g)}) \ {{}}
  <2>1. {Piece(given[i]) : i \in 1 .. k} = {Piece(given'[i]) : i \in 1 .. k - 1} \cup {Piece(g)}
    <3>1. \A i \in 1 .. k - 1 : i \in 1 .. k  BY <1>1
    <3>2. k \in 1 .. k  BY <1>1
    <3>. QED  BY <1>2, <1>8, <3>1, <3>2 DEF g
  <2>. QED  BY <1>1, <1>2, <2>1, LinearHeld, LinearHeldLater
<1>10. CASE Piece(g) = {}
  <2>1. {} \notin L!Held'  BY LinearHeldLater
  <2>. QED  BY <1>7, <1>9, <1>10, <2>1
<1>11. CASE Piece(g) # {}
  <2>1. Piece(g) \notin L!Held'
    <3>. SUFFICES ASSUME NEW i \in 1 .. k - 1, Piece(given[i]) = Piece(g)
                  PROVE  FALSE
      BY <1>2, LinearHeldLater
    <3>1. PICK x : x \in Piece(g)  BY <1>11
    <3>2. x \in Piece(given[i]) /\ x \in Int
      <4>1. \A y \in Piece(g) : y \in Int  BY <1>5 DEF Piece
      <4>2. Piece(given[i]) = Piece(g)  OBVIOUS
      <4>. QED  BY Zenon, <3>1, <4>1, <4>2
    <3>. QED  BY <1>5, <1>6, <3>1, <3>2 DEF Piece
  <2>2. Piece(g) \in L!Held /\ L!Held' = L!Held \ {Piece(g)}
    <3>1. {} \notin L!Held'  BY LinearHeldLater
    <3>. QED  BY <1>9, <1>11, <2>1, <3>1
  <2>. QED  BY <1>7, <2>2 DEF LinearRegions!Next, LinearRegions!Remove
<1>. QED  BY <1>10, <1>11

LEMMA LinearNext ==
  ASSUME LinearInv, [L!Next]_linearVars
  PROVE  LinearInv' /\ [LinearRegions!Next]_(L!Held)
<1>1. ASSUME NEW n \in Requests, L!Alloc(n)
      PROVE  LinearInv' /\ [LinearRegions!Next]_(L!Held)
  <2>1. position \in Nat /\ n \in Nat  BY LinearConstants, LinearNumbers
  <2>2. Handed(position, n)  BY <1>1, <2>1 DEF L!Alloc, Handed
  <2>. QED  BY <2>1, <2>2, LinearTake
<1>2. ASSUME NEW n \in Requests, NEW a \in Aligns, L!AllocAligned(n, a)
      PROVE  LinearInv' /\ [LinearRegions!Next]_(L!Held)
  <2>1. position \in Nat /\ n \in Nat /\ a \in Nat \ {0} /\ limit \in Nat
    BY LinearConstants, LinearNumbers
  <2>2. PICK p \in Nat : p = L!RoundUp(position, a) /\ position <= p
    BY <2>1, RoundsUp DEF L!RoundUp
  <2>3. p + n < limit /\ position' = p + n /\ given' = Append(given, <<p, n>>) /\ limit' = limit
    BY <1>2, <2>2 DEF L!AllocAligned
  <2>4. p + n <= limit  BY <2>1, <2>3
  <2>5. Handed(p, n)  BY <2>2, <2>3, <2>4 DEF Handed
  <2>. QED  BY <2>1, <2>5, LinearTake
<1>3. ASSUME L!Forbid
      PROVE  LinearInv' /\ [LinearRegions!Next]_(L!Held)
  <2>1. limit' = position /\ position' = position /\ given' = given
    BY <1>3 DEF L!Forbid
  <2>2. position <= position /\ position <= Start + Size  BY LinearNumbers
  <2>3. LinearInv'  BY Zenon, <2>1, <2>2 DEF LinearInv
  <2>. QED  BY <2>1, <2>3, LinearHeld, LinearHeldLater
<1>4. ASSUME UNCHANGED linearVars
      PROVE  LinearInv' /\ [LinearRegions!Next]_(L!Held)
  <2>1. position' = position /\ limit' = limit /\ given' = given  BY <1>4 DEF linearVars
  <2>2. LinearInv'  BY Zenon, <2>1 DEF LinearInv
  <2>. QED  BY <2>1, <2>2, LinearHeld, LinearHeldLater
<1>. QED  BY <1>1, <1>2, <1>3, <1>4, LinearFree DEF L!Next

-----------------------------------------------------------------------------
(* The pool allocator *)

\* An element and its place.
Place(j) == P!First + j * P!Stride
Fitting == {j \in 0 .. MemSize : Place(j) + P!Elem <= P!Limit}
Elements == {Place(j) : j \in Fitting}

\* Each element is on the list or in use.
PoolInv ==
  /\ nodes \in Seq(Elements) /\ held \subseteq Elements
  /\ \A i \in DOMAIN nodes : nodes[i] \notin held
  /\ \A i, j \in DOMAIN nodes : nodes[i] = nodes[j] => i = j

LEMMA PoolConstants ==
  /\ Mem \in Nat /\ MemSize \in Nat /\ P!Elem \in Nat \ {0} /\ P!First \in Nat /\ P!Stride \in Nat
  /\ Mem <= P!First /\ P!Elem <= P!Stride /\ P!Limit = Mem + MemSize
<1>1. Mem \in Nat /\ MemSize \in Nat /\ ElemSize \in Nat \ {0} /\ NodeSize \in Nat \ {0}
        /\ ElemAlign \in Nat \ {0}
  BY SizesAreNatural
<1>2. P!Elem \in Nat \ {0}  BY <1>1 DEF P!Elem
<1>3. P!First \in Nat /\ Mem <= P!First  BY <1>1, RoundsUp DEF P!First, P!RoundUp
<1>4. P!Stride \in Nat /\ P!Elem <= P!Stride
  BY <1>1, <1>2, RoundsUp DEF P!Stride, P!RoundUp
<1>. QED  BY <1>1, <1>2, <1>3, <1>4 DEF P!Limit

\* Where the elements are: one Stride behind the other.
LEMMA Places ==
  ASSUME NEW i \in Nat, NEW j \in Nat, i < j
  PROVE  Place(i) \in Nat /\ Place(j) \in Nat /\ Place(i) + P!Elem <= Place(j)
<1>1. PICK e \in Nat \ {0} : e = P!Elem  BY PoolConstants
<1>2. PICK t \in Nat : t = P!Stride /\ e <= t  BY <1>1, PoolConstants
<1>3. PICK f \in Nat : f = P!First  BY PoolConstants
<1>4. i * t \in Nat /\ j * t \in Nat /\ i * t + t <= j * t
  <2>1. PICK d \in Nat : j = i + 1 + d
    <3>1. j - i - 1 \in Nat /\ j = i + 1 + (j - i - 1)  OBVIOUS
    <3>. QED  BY <3>1
  <2>2. j * t = i * t + t + d * t /\ d * t \in Nat /\ i * t \in Nat  BY <2>1, Z3
  <2>. QED  BY <2>2
<1>5. Place(i) = f + i * t /\ Place(j) = f + j * t  BY <1>2, <1>3 DEF Place
<1>6. PICK a \in Nat, b \in Nat : a = i * t /\ b = j * t  BY <1>4
<1>7. a + t <= b /\ Place(i) = f + a /\ Place(j) = f + b  BY <1>4, <1>5, <1>6
<1>. QED  BY <1>1, <1>2, <1>7

LEMMA PlacesDiffer ==
  ASSUME NEW i \in Nat, NEW j \in Nat, i # j
  PROVE  /\ Place(i) # Place(j)
         /\ (Place(i) .. Place(i) + P!Elem - 1) \cap (Place(j) .. Place(j) + P!Elem - 1) = {}
<1>1. P!Elem \in Nat \ {0}  BY PoolConstants
<1>2. CASE i < j  BY <1>1, <1>2, Places
<1>3. CASE j < i  BY <1>1, <1>3, Places
<1>. QED  BY <1>2, <1>3

\* mem_pool_init puts as many elements on the list as fit, from the first on.
LEMMA FittingAre ==
  /\ Cardinality(Fitting) \in Nat
  /\ \A j \in 0 .. Cardinality(Fitting) - 1 : j \in Fitting
<1>1. IsFiniteSet(Fitting)
  <2>1. IsFiniteSet(0 .. MemSize)  BY FS_Interval, PoolConstants
  <2>2. Fitting \subseteq 0 .. MemSize  BY DEF Fitting
  <2>. QED  BY <2>1, <2>2, FS_Subset
<1>2. \A i \in Fitting, j \in Nat : j < i => j \in Fitting
  <2>. SUFFICES ASSUME NEW i \in Fitting, NEW j \in Nat, j < i
                PROVE  j \in Fitting
    OBVIOUS
  <2>1. i \in 0 .. MemSize /\ Place(i) + P!Elem <= P!Limit /\ MemSize \in Nat
    BY PoolConstants DEF Fitting
  <2>2. Place(i) \in Nat /\ Place(j) \in Nat /\ Place(j) + P!Elem <= Place(i)
    BY <2>1, Places
  <2>3. P!Elem \in Nat /\ P!Limit \in Nat  BY PoolConstants
  <2>4. j \in 0 .. MemSize /\ Place(j) + P!Elem <= P!Limit  BY <2>1, <2>2, <2>3
  <2>. QED  BY <2>4 DEF Fitting
<1>3. \E k \in Nat : Fitting = 0 .. k - 1
  <2>1. MemSize + 1 \in Nat /\ MemSize + 1 \notin Fitting  BY PoolConstants DEF Fitting
  <2>2. PICK k \in Nat \ Fitting : \A y \in Nat \ Fitting : k <= y  BY <2>1, LeastExists
  <2>3. \A j \in Nat : j < k => j \in Fitting  BY <2>2
  <2>4. \A j \in Fitting : j \in Nat /\ j < k
    <3>1. Fitting \subseteq Nat  BY PoolConstants DEF Fitting
    <3>. QED  BY <1>2, <2>2, <3>1
  <2>5. Fitting = 0 .. k - 1  BY <2>3, <2>4
  <2>. QED  BY <2>5
<1>4. PICK k \in Nat : Fitting = 0 .. k - 1  BY <1>3
<1>5. Cardinality(0 .. k - 1) = k  BY FS_Interval
<1>. QED  BY <1>4, <1>5

\* The addresses of the element at m.
ElementAt(m) == m .. m + P!Elem - 1

LEMMA PoolHeld == P!Held = {ElementAt(m) : m \in held} /\ P!Held' = {ElementAt(m) : m \in held'}
BY DEF P!Held, ElementAt

\* An element is not empty, lies inside of the memory and shares nothing with the others.
LEMMA ElementsApart ==
  ASSUME NEW m \in Elements
  PROVE  /\ m \in ElementAt(m) /\ ElementAt(m) \subseteq P!Memory
         /\ \A n \in Elements : n # m => ElementAt(n) \cap ElementAt(m) = {}
<1>1. PICK j \in Fitting : m = Place(j)  BY DEF Elements
<1>2. j \in Nat /\ Place(j) + P!Elem <= P!Limit  BY <1>1, PoolConstants DEF Fitting
<1>3. Place(j) \in Nat /\ Mem <= Place(j)
  <2>1. PICK t \in Nat, f \in Nat : t = P!Stride /\ f = P!First /\ Mem <= f
    BY PoolConstants
  <2>2. j * t \in Nat  BY <1>2, Z3
  <2>3. PICK a \in Nat : a = j * t  BY <2>2
  <2>4. Place(j) = f + a  BY <2>1, <2>3 DEF Place
  <2>. QED  BY <2>1, <2>4, PoolConstants
<1>4. m \in ElementAt(m) /\ ElementAt(m) \subseteq P!Memory
  <2>1. P!Elem \in Nat \ {0} /\ P!Limit \in Nat /\ Mem \in Nat  BY PoolConstants
  <2>. QED  BY <1>1, <1>2, <1>3, <2>1 DEF ElementAt, P!Memory
<1>5. ASSUME NEW n \in Elements, n # m
      PROVE  ElementAt(n) \cap ElementAt(m) = {}
  <2>1. PICK i \in Fitting : n = Place(i)  BY DEF Elements
  <2>2. i \in Nat /\ i # j  BY <1>1, <1>5, <2>1, PoolConstants DEF Fitting
  <2>. QED  BY <1>1, <1>2, <2>1, <2>2, PlacesDiffer DEF ElementAt
<1>. QED  BY <1>4, <1>5

LEMMA PoolInit == P!Init => PoolInv /\ PoolRegions!Init
<1>. SUFFICES ASSUME P!Init PROVE PoolInv /\ PoolRegions!Init  OBVIOUS
<1> DEFINE c == Cardinality(Fitting)
<1>1. held = {}  BY DEF P!Init
<1>2. nodes = [i \in 1 .. c |-> Place(i - 1)]
  <2>1. \A T : P!Cardinality(T) = Cardinality(T)  BY DEF P!Cardinality, Cardinality
  <2>. QED  BY Zenon, <2>1 DEF P!Init, Fitting, Place
<1>3. c \in Nat /\ \A j \in 0 .. c - 1 : j \in Fitting  BY FittingAre
<1> HIDE DEF c
<1>4. \A i \in 1 .. c : i - 1 \in Fitting /\ i - 1 \in Nat  BY <1>3
<1>5. \A i \in 1 .. c : Place(i - 1) \in Elements  BY <1>4 DEF Elements
<1>6. nodes \in Seq(Elements) /\ DOMAIN nodes = 1 .. c  BY <1>2, <1>3, <1>5
<1>7. \A i, j \in 1 .. c : nodes[i] = nodes[j] => i = j
  <2>1. \A i, j \in 1 .. c : i # j => i - 1 # j - 1  BY <1>3
  <2>. QED  BY <1>2, <1>4, <2>1, PlacesDiffer
<1>8. PoolInv  BY <1>1, <1>6, <1>7 DEF PoolInv
<1>. QED  BY <1>1, <1>8, PoolHeld DEF PoolRegions!Init

LEMMA PoolAlloc ==
  ASSUME PoolInv, P!Alloc
  PROVE  PoolInv' /\ PoolRegions!Next
<1> DEFINE m == Head(nodes)
<1>1. nodes \in Seq(Elements) /\ nodes # <<>> /\ nodes' = Tail(nodes) /\ held' = held \cup {m}
  BY DEF P!Alloc, PoolInv
<1>2. Len(nodes) \in Nat \ {0} /\ DOMAIN nodes = 1 .. Len(nodes) /\ m = nodes[1]
  BY <1>1
<1>3. /\ m \in Elements /\ nodes' \in Seq(Elements) /\ DOMAIN nodes' = 1 .. Len(nodes) - 1
      /\ \A i \in 1 .. Len(nodes) - 1 : nodes'[i] = nodes[i + 1]
  BY <1>1, HeadTailProperties
<1>4. \A i \in 1 .. Len(nodes) - 1 : i + 1 \in DOMAIN nodes /\ i + 1 # 1  BY <1>2
<1>5. 1 \in DOMAIN nodes  BY <1>2
<1> HIDE DEF m
<1>6. m \notin held  BY <1>2, <1>5 DEF PoolInv
<1>7. PoolInv'
  <2>1. \A i \in DOMAIN nodes' : nodes'[i] \notin held'
    BY <1>1, <1>2, <1>3, <1>4, <1>5 DEF PoolInv
  <2>2. \A i, j \in DOMAIN nodes' : nodes'[i] = nodes'[j] => i = j
    <3>. SUFFICES ASSUME NEW i \in 1 .. Len(nodes) - 1, NEW j \in 1 .. Len(nodes) - 1,
             nodes'[i] = nodes'[j]
                  PROVE  i = j
      BY <1>3
    <3>1. i + 1 = j + 1  BY <1>3, <1>4 DEF PoolInv
    <3>. QED  BY <1>2, <3>1
  <2>3. held' \subseteq Elements  BY <1>1, <1>3 DEF PoolInv
  <2>. QED  BY <1>3, <2>1, <2>2, <2>3 DEF PoolInv
<1>8. P!Held' = P!Held \cup {ElementAt(m)}  BY <1>1, PoolHeld
<1>9. \A r \in P!Held : r \cap ElementAt(m) = {}
  BY <1>3, <1>6, PoolHeld, ElementsApart DEF PoolInv
<1>10. ElementAt(m) # {} /\ ElementAt(m) \subseteq P!Memory  BY <1>3, ElementsApart
<1>. QED  BY <1>7, <1>8, <1>9, <1>10 DEF PoolRegions!Next, PoolRegions!Add

LEMMA PoolFree ==
  ASSUME PoolInv, NEW m \in held, P!Free(m)
  PROVE  PoolInv' /\ PoolRegions!Next
<1>1. nodes \in Seq(Elements) /\ nodes' = <<m>> \o nodes /\ held' = held \ {m} /\ m \in Elements
  BY DEF P!Free, PoolInv
<1>2. Len(nodes) \in Nat /\ DOMAIN nodes = 1 .. Len(nodes)  BY <1>1
<1>3. /\ nodes' \in Seq(Elements) /\ DOMAIN nodes' = 1 .. Len(nodes) + 1 /\ nodes'[1] = m
      /\ \A i \in 1 .. Len(nodes) : nodes'[i + 1] = nodes[i]
  BY <1>1
<1>4. \A i \in DOMAIN nodes' : i = 1 \/ \E k \in 1 .. Len(nodes) : i = k + 1
  <2>. SUFFICES ASSUME NEW i \in 1 .. Len(nodes) + 1, i # 1
                PROVE  \E k \in 1 .. Len(nodes) : i = k + 1
    BY <1>3
  <2>1. i - 1 \in 1 .. Len(nodes) /\ i = (i - 1) + 1  BY <1>2
  <2>. QED  BY <2>1
<1>5. PoolInv'
  <2>1. \A k \in 1 .. Len(nodes) : nodes[k] # m /\ nodes[k] \notin held
    BY <1>2 DEF PoolInv
  <2>2. \A i \in DOMAIN nodes' : nodes'[i] \notin held'  BY <1>1, <1>3, <1>4, <2>1
  <2>3. \A i, j \in DOMAIN nodes' : nodes'[i] = nodes'[j] => i = j
    <3>1. \A k, l \in 1 .. Len(nodes) : nodes[k] = nodes[l] => k = l
      BY <1>2 DEF PoolInv
    <3>2. \A k \in 1 .. Len(nodes) : nodes'[k + 1] # nodes'[1]  BY <1>3, <2>1
    <3>. SUFFICES ASSUME NEW i \in DOMAIN nodes', NEW j \in DOMAIN nodes', nodes'[i] = nodes'[j]
                  PROVE  i = j
      OBVIOUS
    <3>3. CASE i = 1 \/ j = 1  BY <1>4, <3>2, <3>3
    <3>4. CASE i # 1 /\ j # 1
      <4>1. PICK k \in 1 .. Len(nodes), l \in 1 .. Len(nodes) : i = k + 1 /\ j = l + 1
        BY <1>4, <3>4
      <4>. QED  BY <1>3, <3>1, <4>1
    <3>. QED  BY <3>3, <3>4
  <2>4. held' \subseteq Elements  BY <1>1 DEF PoolInv
  <2>. QED  BY <1>3, <2>2, <2>3, <2>4 DEF PoolInv
<1>6. P!Held' = P!Held \ {ElementAt(m)} /\ ElementAt(m) \in P!Held
  <2>1. \A n \in held : n # m => ElementAt(n) # ElementAt(m)
    BY <1>1, ElementsApart DEF PoolInv
  <2>. QED  BY <1>1, <2>1, PoolHeld
<1>. QED  BY <1>5, <1>6 DEF PoolRegions!Next, PoolRegions!Remove

LEMMA PoolNext ==
  ASSUME PoolInv, [P!Next]_poolVars
  PROVE  PoolInv' /\ [PoolRegions!Next]_(P!Held)
<1>1. CASE UNCHANGED poolVars  BY <1>1, PoolHeld DEF poolVars, PoolInv
<1>. QED  BY <1>1, PoolAlloc, PoolFree DEF P!Next

-----------------------------------------------------------------------------
(* kmalloc *)

\* A multiple of a, and less than a more, is rounded down to the multiple.
LEMMA DownToMultiple ==
  ASSUME NEW a \in Nat \ {0}, NEW b \in Nat, b % a = 0, NEW t \in 0 .. a - 1
  PROVE  ((b + t) \div a) * a = b
<1>1. PICK q \in Nat : b = q * a
  <2>1. b = a * (b \div a) + (b % a) /\ b \div a \in Nat  BY Z3
  <2>2. PICK q \in Nat : q = b \div a  BY <2>1
  <2>3. a * q = q * a /\ q * a \in Nat  BY <2>2, Z3
  <2>4. b = q * a  BY <2>1, <2>2, <2>3
  <2>. QED  BY <2>4
<1>2. PICK m \in Nat : m = b + t  OBVIOUS
<1>3. PICK k \in Nat : k = m \div a /\ m = a * k + (m % a) /\ m % a \in 0 .. a - 1
  <2>1. m = a * (m \div a) + (m % a) /\ m % a \in 0 .. a - 1 /\ m \div a \in Nat
    BY <1>2, Z3
  <2>. QED  BY <2>1
<1>4. a * k = k * a /\ k * a \in Nat /\ q * a \in Nat  BY Z3
<1>5. PICK e \in Nat : e = k * a  BY <1>4
<1>6. e <= m /\ m < e + a /\ b <= m /\ m < b + a  BY <1>2, <1>3, <1>4, <1>5
<1>7. CASE k = q  BY <1>1, <1>2, <1>3, <1>5, <1>7
<1>8. CASE k < q
  <2>1. PICK d \in Nat : q = k + 1 + d
    <3>1. q - k - 1 \in Nat /\ q = k + 1 + (q - k - 1)  BY <1>8
    <3>. QED  BY <3>1
  <2>2. q * a = k * a + a + d * a /\ d * a \in Nat  BY <2>1, Z3
  <2>3. PICK u \in Nat : u = d * a  BY <2>2
  <2>4. b = e + a + u  BY <1>1, <1>5, <2>2, <2>3
  <2>. QED  BY <1>6, <2>4
<1>9. CASE q < k
  <2>1. PICK d \in Nat : k = q + 1 + d
    <3>1. k - q - 1 \in Nat /\ k = q + 1 + (k - q - 1)  BY <1>9
    <3>. QED  BY <3>1
  <2>2. k * a = q * a + a + d * a /\ d * a \in Nat  BY <2>1, Z3
  <2>3. PICK u \in Nat : u = d * a  BY <2>2
  <2>4. e = b + a + u  BY <1>1, <1>5, <2>2, <2>3
  <2>. QED  BY <1>6, <2>4
<1>. QED  BY <1>7, <1>8, <1>9

LEMMA MallocConstants ==
  /\ Align \in Nat \ {0} /\ Bytes \in Nat /\ M!Powers \in Nat
  /\ \A i \in 0 .. M!Powers - 1 : /\ 2 ^ (i + LowPow) \in Nat
                                  /\ M!ObjectSize(i) = Align + 2 ^ (i + LowPow)
<1>1. /\ Align \in Nat \ {0} /\ Bytes \in Nat /\ LowPow \in Nat /\ MaxPow \in Nat /\ LowPow < MaxPow
      /\ \A i \in 0 .. MaxPow : 2 ^ (i + LowPow) \in Nat
  BY SizesAreNatural
<1>2. M!Powers \in Nat /\ \A i \in 0 .. M!Powers - 1 : i \in 0 .. MaxPow
  BY <1>1 DEF M!Powers
<1>3. M!RoundUp(M!Info) = Align
  <2>1. 0 \in Nat /\ 0 % Align = 0  BY <1>1
  <2>2. PICK c \in Nat : c = Align /\ c % Align = 0
    <3>1. Align % Align = 0  BY <1>1
    <3>. QED  BY <1>1, <3>1
  <2>3. ((c + 0) \div Align) * Align = c  BY <1>1, <2>2, DownToMultiple
  <2>4. 1 + Align - 1 = c + 0  BY <1>1, <2>2
  <2>. QED  BY <2>2, <2>3, <2>4 DEF M!RoundUp, M!Info
<1>. QED  BY <1>1, <1>2, <1>3 DEF M!ObjectSize

\* What kmalloc keeps of an object: it is aligned, has room for its header and what was
\* asked for, and the header names its cache.
IsObject(o) ==
  /\ o \in Nat \X (0 .. M!Powers - 1) \X Nat
  /\ o[1] % Align = 0 /\ o[1] + M!ObjectSize(o[2]) <= Bytes
  /\ o[3] + 1 <= 2 ^ (o[2] + LowPow)

MallocInv ==
  /\ DOMAIN memory = 0 .. Bytes - 1
  /\ \A o \in objects : IsObject(o) /\ memory[o[1]] = o[2]
  /\ \A o, p \in objects : o # p => M!Extent(o[1], o[2]) \cap M!Extent(p[1], p[2]) = {}

\* The addresses that the user of an object holds.
Given(o) == M!Given(o) .. M!Given(o) + o[3] - 1

\* The user's memory lies in the object, behind the header; kfree finds the header.
LEMMA ObjectLayout ==
  ASSUME NEW o, IsObject(o)
  PROVE  /\ M!Given(o) = o[1] + Align /\ M!HeaderOf(M!Given(o)) = o[1]
         /\ o[1] \in M!Extent(o[1], o[2]) /\ o[1] \in 0 .. Bytes - 1
         /\ Given(o) \subseteq M!Extent(o[1], o[2]) /\ o[1] \notin Given(o)
         /\ Given(o) \subseteq 0 .. Bytes - 1
<1>1. o[1] \in Nat /\ o[2] \in 0 .. M!Powers - 1 /\ o[3] \in Nat /\ o[1] % Align = 0
  BY DEF IsObject
<1>2. Align \in Nat \ {0} /\ Bytes \in Nat  BY MallocConstants
<1>3. PICK b \in Nat : b = o[1] /\ b % Align = 0  BY <1>1
<1>4. M!Given(o) = o[1] + Align
  <2>1. PICK c \in Nat : c = b + Align /\ c % Align = 0
    <3>1. (b + Align) % Align = 0  BY <1>2, <1>3, Z3
    <3>. QED  BY <1>2, <3>1
  <2>2. ((c + 0) \div Align) * Align = c  BY <1>2, <2>1, DownToMultiple
  <2>3. o[1] + 1 + Align - 1 = c + 0  BY <1>2, <1>3, <2>1
  <2>. QED  BY <1>3, <2>1, <2>2, <2>3 DEF M!Given, M!RoundUp, M!Info
<1>5. M!HeaderOf(M!Given(o)) = o[1]
  <2>1. PICK t \in 0 .. Align - 1 : t = Align - 1  BY <1>2
  <2>2. ((b + t) \div Align) * Align = b  BY <1>2, <1>3, DownToMultiple
  <2>3. M!Given(o) - 1 = b + t  BY <1>2, <1>3, <1>4, <2>1
  <2>4. M!HeaderOf(M!Given(o)) = ((M!Given(o) - 1) \div Align) * Align
    BY DEF M!HeaderOf
  <2>. QED  BY Zenon, <1>3, <2>2, <2>3, <2>4
<1>6. PICK z \in Nat : /\ z = 2 ^ (o[2] + LowPow) /\ M!ObjectSize(o[2]) = Align + z
                       /\ o[3] + 1 <= z /\ o[1] + (Align + z) <= Bytes
  BY <1>1, MallocConstants DEF IsObject
<1>7. M!Extent(o[1], o[2]) = o[1] .. o[1] + (Align + z) - 1  BY <1>6 DEF M!Extent
<1>8. Given(o) = o[1] + Align .. o[1] + Align + o[3] - 1  BY <1>4 DEF Given
<1>9. PICK n \in Nat : n = o[3]  BY <1>1
<1>10. PICK a \in Nat \ {0}, e \in Nat : a = Align /\ e = Bytes  BY <1>2
<1>11. n + 1 <= z /\ b + (a + z) <= e  BY <1>3, <1>6, <1>9, <1>10
<1>12. /\ b \in b .. b + (a + z) - 1 /\ b \in 0 .. e - 1
       /\ b + a .. b + a + n - 1 \subseteq b .. b + (a + z) - 1
       /\ b \notin b + a .. b + a + n - 1
       /\ b + a .. b + a + n - 1 \subseteq 0 .. e - 1
  BY <1>10, <1>11
<1>13. M!Extent(o[1], o[2]) = b .. b + (a + z) - 1 /\ Given(o) = b + a .. b + a + n - 1
  BY Zenon, <1>3, <1>7, <1>8, <1>9, <1>10
<1>. QED  BY Zenon, <1>3, <1>4, <1>5, <1>10, <1>12, <1>13

LEMMA MallocHeld == M!Held = {Given(o) : o \in objects} \ {{}}
    /\ M!Held' = {Given(o) : o \in objects'} \ {{}}
BY DEF M!Held, Given, M!Given

\* What belongs to different objects is apart, the headers from the users' memory, too.
LEMMA ObjectsApart ==
  ASSUME MallocInv, NEW o \in objects, NEW p \in objects, o # p
  PROVE  Given(o) \cap Given(p) = {} /\ o[1] # p[1] /\ p[1] \notin Given(o)
<1>1. M!Extent(o[1], o[2]) \cap M!Extent(p[1], p[2]) = {} /\ IsObject(o) /\ IsObject(p)
  BY DEF MallocInv
<1>2. /\ o[1] \in M!Extent(o[1], o[2]) /\ Given(o) \subseteq M!Extent(o[1], o[2])
      /\ p[1] \in M!Extent(p[1], p[2]) /\ Given(p) \subseteq M!Extent(p[1], p[2])
  BY <1>1, ObjectLayout
<1>. QED  BY <1>1, <1>2

LEMMA MallocInit == M!Init => MallocInv /\ MallocRegions!Init
<1>. SUFFICES ASSUME M!Init PROVE MallocInv /\ MallocRegions!Init  OBVIOUS
<1>1. objects = {} /\ DOMAIN memory = 0 .. Bytes - 1  BY DEF M!Init
<1>. QED  BY <1>1, MallocHeld DEF MallocInv, MallocRegions!Init

LEMMA MallocAlloc ==
  ASSUME MallocInv, NEW size \in Requests, NEW i \in M!CacheIndex(size), NEW b \in M!Places(i),
         objects' = objects \cup {<<b, i, size>>}, memory' = [memory EXCEPT ![b] = i]
  PROVE  MallocInv' /\ [MallocRegions!Next]_(M!Held)
<1> DEFINE o == <<b, i, size>>
<1>1. i \in 0 .. M!Powers - 1 /\ 2 ^ (i + LowPow) >= size + 1 /\ size \in Nat
  BY SizesAreNatural DEF M!CacheIndex, M!Info
<1>2. PICK z \in Nat : z = 2 ^ (i + LowPow) /\ M!ObjectSize(i) = Align + z /\ size + 1 <= z
  BY <1>1, MallocConstants
<1>3. /\ b \in 0 .. Bytes - (Align + z) /\ b % Align = 0
      /\ \A p \in objects : M!Extent(p[1], p[2]) \cap M!Extent(b, i) = {}
  BY <1>2 DEF M!Places
<1>4. Align \in Nat \ {0} /\ Bytes \in Nat  BY MallocConstants
<1>5. b \in Nat /\ b + (Align + z) <= Bytes /\ b \in 0 .. Bytes - 1  BY <1>2, <1>3, <1>4
<1>6. o[1] = b /\ o[2] = i /\ o[3] = size /\ o \in Nat \X (0 .. M!Powers - 1) \X Nat
  BY <1>1, <1>5
<1>7. objects' = objects \cup {o} /\ memory' = [memory EXCEPT ![b] = i]  OBVIOUS
<1> HIDE DEF o
<1>8. IsObject(o)  BY <1>2, <1>3, <1>5, <1>6 DEF IsObject
<1>9. \A p \in objects : M!Extent(p[1], p[2]) \cap M!Extent(o[1], o[2]) = {} /\ p[1] # b /\ p # o
  <2>. SUFFICES ASSUME NEW p \in objects
                PROVE  M!Extent(p[1], p[2]) \cap M!Extent(o[1], o[2]) = {} /\ p[1] # b /\ p # o
    OBVIOUS
  <2>1. M!Extent(p[1], p[2]) \cap M!Extent(o[1], o[2]) = {}  BY <1>3, <1>6
  <2>2. IsObject(p)  BY DEF MallocInv
  <2>3. p[1] \in M!Extent(p[1], p[2]) /\ b \in M!Extent(o[1], o[2])
    BY <1>6, <1>8, <2>2, ObjectLayout
  <2>. QED  BY <1>6, <2>1, <2>3
<1>10. MallocInv'
  <2>1. DOMAIN memory' = 0 .. Bytes - 1  BY <1>7 DEF MallocInv
  <2>2. \A p \in objects' : IsObject(p) /\ memory'[p[1]] = p[2]
    <3>. SUFFICES ASSUME NEW p \in objects'
                  PROVE  IsObject(p) /\ memory'[p[1]] = p[2]
      OBVIOUS
    <3>1. CASE p = o  BY <1>5, <1>6, <1>7, <1>8, <3>1 DEF MallocInv
    <3>2. CASE p \in objects
      <4>1. IsObject(p) /\ memory[p[1]] = p[2] /\ DOMAIN memory = 0 .. Bytes - 1
        BY <3>2 DEF MallocInv
      <4>2. p[1] \in DOMAIN memory /\ p[1] # b  BY <1>9, <3>2, <4>1, ObjectLayout
      <4>. QED  BY <1>7, <4>1, <4>2
    <3>. QED  BY <1>7, <3>1, <3>2
  <2>3. \A p, q \in objects' : p # q => M!Extent(p[1], p[2]) \cap M!Extent(q[1], q[2]) = {}
    BY <1>7, <1>9 DEF MallocInv
  <2>. QED
    BY Zenon, <2>1, <2>2, <2>3 DEF MallocInv, IsObject, M!Extent, M!ObjectSize, M!RoundUp
<1>11. M!Held' = M!Held \cup ({Given(o)} \ {{}})  BY <1>7, MallocHeld
<1>12. \A r \in M!Held : r \cap Given(o) = {}
  <2>1. Given(o) \subseteq M!Extent(o[1], o[2])  BY <1>8, ObjectLayout
  <2>2. \A p \in objects : Given(p) \subseteq M!Extent(p[1], p[2])
    BY ObjectLayout DEF MallocInv
  <2>3. \A p \in objects : Given(p) \cap Given(o) = {}  BY <1>9, <2>1, <2>2
  <2>. QED  BY <2>3, MallocHeld
<1>13. CASE Given(o) = {}  BY <1>10, <1>11, <1>13
<1>14. CASE Given(o) # {}
  <2>1. M!Held' = M!Held \cup {Given(o)} /\ Given(o) \subseteq 0 .. Bytes - 1
    BY <1>8, <1>11, <1>14, ObjectLayout
  <2>2. MallocRegions!Add  BY <1>12, <1>14, <2>1 DEF MallocRegions!Add
  <2>. QED  BY <1>10, <2>2 DEF MallocRegions!Next
<1>. QED  BY <1>13, <1>14

LEMMA MallocFree ==
  ASSUME MallocInv, NEW o \in objects, M!Free(M!Given(o))
  PROVE  MallocInv' /\ [MallocRegions!Next]_(M!Held) /\ fault' = fault
<1>1. IsObject(o) /\ memory[o[1]] = o[2]  BY DEF MallocInv
<1>2. M!HeaderOf(M!Given(o)) = o[1]  BY <1>1, ObjectLayout
<1>3. (CHOOSE p \in objects : p[1] = o[1]) = o  BY ObjectsApart
<1>4. objects' = objects \ {o} /\ memory' = memory /\ fault' = fault
  BY <1>1, <1>2, <1>3 DEF M!Free
<1>5. MallocInv'  BY <1>4 DEF MallocInv, IsObject, M!Extent, M!ObjectSize, M!RoundUp
<1>6. M!Held = (M!Held' \cup {Given(o)}) \ {{}} /\ {} \notin M!Held'
  BY <1>4, MallocHeld
<1>7. CASE Given(o) = {}  BY <1>4, <1>5, <1>6, <1>7
<1>8. CASE Given(o) # {}
  <2>1. Given(o) \notin M!Held'
    <3>. SUFFICES ASSUME NEW p \in objects, p # o, Given(p) = Given(o)
                  PROVE  FALSE
      BY <1>4, MallocHeld
    <3>. QED  BY <1>8, ObjectsApart
  <2>2. M!Held' = M!Held \ {Given(o)} /\ Given(o) \in M!Held  BY <1>6, <1>8, <2>1
  <2>. QED  BY <1>4, <1>5, <2>2 DEF MallocRegions!Next, MallocRegions!Remove
<1>. QED  BY <1>7, <1>8

\* A user that fills its memory writes no header.
LEMMA MallocFill ==
  ASSUME MallocInv, NEW o \in objects, M!Fill(o)
  PROVE  MallocInv' /\ M!Held' = M!Held
<1>1. objects' = objects /\ memory' = [b \in DOMAIN memory |-> IF b \in Given(o) THEN None
        ELSE memory[b]]
  BY DEF M!Fill, Given
<1>2. \A p \in objects : p[1] \notin Given(o) /\ p[1] \in DOMAIN memory
  BY ObjectsApart, ObjectLayout DEF MallocInv
<1>3. \A p \in objects : memory'[p[1]] = memory[p[1]]  BY <1>1, <1>2
<1>4. MallocInv'
  BY <1>1, <1>3 DEF MallocInv, IsObject, M!Extent, M!ObjectSize, M!RoundUp
<1>. QED  BY <1>1, <1>4, MallocHeld

LEMMA MallocNext ==
  ASSUME MallocInv, M!Next
  PROVE  /\ MallocInv' /\ [MallocRegions!Next]_(M!Held)
         /\ fault' = fault \/ fault' = "header at NULL"
<1>1. ASSUME NEW size \in Requests, M!Alloc(size)
      PROVE  /\ MallocInv' /\ [MallocRegions!Next]_(M!Held)
             /\ fault' = fault \/ fault' = "header at NULL"
  <2>1. CASE fault' = "header at NULL" /\ UNCHANGED <<objects, memory>>
    <3>1. MallocInv'  BY <2>1 DEF MallocInv, IsObject, M!Extent, M!ObjectSize, M!RoundUp
    <3>. QED  BY <2>1, <3>1, MallocHeld
  <2>2. CASE ~(fault' = "header at NULL" /\ UNCHANGED <<objects, memory>>)
    <3>1. PICK i \in M!CacheIndex(size) : \E b \in M!Places(i) :
            objects' = objects \cup {<<b, i, size>>} /\ memory' = [memory EXCEPT ![b] = i]
              /\ fault' = fault
      BY <1>1, <2>2 DEF M!Alloc
    <3>2. PICK b \in M!Places(i) :
            objects' = objects \cup {<<b, i, size>>} /\ memory' = [memory EXCEPT ![b] = i]
              /\ fault' = fault
      BY <3>1
    <3>. QED  BY <3>2, MallocAlloc
  <2>. QED  BY <2>1, <2>2
<1>2. ASSUME NEW o \in objects, M!Free(M!Given(o))
      PROVE  /\ MallocInv' /\ [MallocRegions!Next]_(M!Held)
             /\ fault' = fault \/ fault' = "header at NULL"
  BY <1>2, MallocFree
<1>3. ASSUME NEW o \in objects, M!Fill(o)
      PROVE  /\ MallocInv' /\ [MallocRegions!Next]_(M!Held)
             /\ fault' = fault \/ fault' = "header at NULL"
  BY <1>3, MallocFill DEF M!Fill
<1>. QED  BY <1>1, <1>2, <1>3 DEF M!Next

NoForeignObject == fault # "object of another cache"

\* The parts stop the kernel for other reasons.
LEMMA OtherFaults ==
  ASSUME NoForeignObject, MallocInv, [Next]_vars
  PROVE  NoForeignObject'
<1>1. ASSUME UseStore PROVE NoForeignObject'
  BY <1>1 DEF UseStore, K!Next, K!Append, K!Remove, K!Change, NoForeignObject
<1>2. ASSUME UseMalloc PROVE NoForeignObject'
  BY <1>2, MallocNext DEF UseMalloc, NoForeignObject
<1>3. ASSUME UseInterrupts PROVE NoForeignObject'
  BY <1>3 DEF UseInterrupts, NoForeignObject, I!Next, I!SetDefault, I!Leave, I!DefaultHandler, I!Enable,
     I!HandlerCpu, I!Trap, I!HandlerPic, I!Raise, I!Interrupt, I!Spurious, I!Install, I!Enter,
       I!EnterLine,
     I!Report!Append
<1>4. ASSUME UseBuffer \/ UseLinear \/ UsePool \/ UseTree \/ UNCHANGED vars PROVE NoForeignObject'
  BY <1>4 DEF UseBuffer, UseLinear, UsePool, UseTree, vars, NoForeignObject
<1>5. ASSUME UsePages PROVE NoForeignObject'
  BY <1>5 DEF UsePages, Y!Next, Y!Alloc, Y!AllocFull, Y!AllocTooLarge, Y!TryAlloc, Y!Free,
      NoForeignObject
<1>. QED  BY <1>1, <1>2, <1>3, <1>4, <1>5 DEF Next

\* The linear allocator, the pool and kmalloc hand out nothing twice and nothing outside of
\* their memory, and what kmalloc keeps for kfree stays (linear.c, pool.c, kmalloc.c).
THEOREM AllocatorsAreRight == Spec => AllocatorsImplementRegions
<1>1. Init => LinearInv /\ PoolInv /\ MallocInv /\ NoForeignObject
  BY LinearInit, PoolInit, MallocInit DEF Init, NoForeignObject
<1>2. Init => LinearRegions!Init /\ PoolRegions!Init /\ MallocRegions!Init
  BY LinearInit, PoolInit, MallocInit DEF Init
<1>3. LinearInv /\ [Next]_vars => LinearInv' /\ [LinearRegions!Next]_(L!Held)
  <2>1. [Next]_vars => [L!Next]_linearVars
    BY DEF Next, vars, linearVars, UsePages, UseStore, UseBuffer, UseLinear, UsePool,
        UseMalloc, UseInterrupts, UseTree
  <2>. QED  BY <2>1, LinearNext
<1>4. PoolInv /\ [Next]_vars => PoolInv' /\ [PoolRegions!Next]_(P!Held)
  <2>1. [Next]_vars => [P!Next]_poolVars
    BY DEF Next, vars, poolVars, UsePages, UseStore, UseBuffer, UseLinear, UsePool,
        UseMalloc, UseInterrupts, UseTree
  <2>. QED  BY <2>1, PoolNext
<1>5. MallocInv /\ [Next]_vars => MallocInv' /\ [MallocRegions!Next]_(M!Held)
  <2>1. [Next]_vars => M!Next \/ UNCHANGED mallocVars
    BY DEF Next, vars, mallocVars, UsePages, UseStore, UseBuffer, UseLinear, UsePool,
        UseMalloc, UseInterrupts, UseTree
  <2>2. MallocInv /\ UNCHANGED mallocVars => MallocInv' /\ M!Held' = M!Held
    BY MallocHeld DEF MallocInv, mallocVars, IsObject, M!Extent, M!ObjectSize, M!RoundUp
  <2>. QED  BY <2>1, <2>2, MallocNext
<1>6. MallocInv /\ NoForeignObject /\ [Next]_vars => NoForeignObject'  BY OtherFaults
<1>7. MallocInv /\ NoForeignObject => HeadersSurvive
  BY DEF MallocInv, NoForeignObject, HeadersSurvive
<1>. QED
  BY <1>1, <1>2, <1>3, <1>4, <1>5, <1>6, <1>7, PTL
     DEF Spec, AllocatorsImplementRegions, LinearRegions!Spec, PoolRegions!Spec, MallocRegions!Spec

-----------------------------------------------------------------------------
(* The buddy allocator *)

\* Requests for single pages, or of an order that is properly refused, and an even number
\* of pages.
SinglePageUse ==
  /\ \A o \in Orders : o = 0 \/ (o \notin Y!Level /\ o - 1 \notin Y!Level)
  /\ Pages % 2 = 0

\* Level 0 is exactly the set of pages that are held, each once.
LeavesAreHeld ==
  /\ \A p \in Y!Index(0) : p \in bits[0] <=> \E h \in Holder : owned[h] = <<0, p>>
  /\ \A g, h \in Holder : g # h /\ owned[g] # None => owned[g] # owned[h]

\* The blocks that contain a held page are marked at every level.
AncestorsAreMarked ==
  \A h \in Holder, l \in Y!Level, p \in Y!Index(0) :
    owned[h] = <<0, p>> /\ Y!Shr(p, l) \in Y!Index(l) => Y!Shr(p, l) \in bits[l]

BuddyInv ==
  /\ Y!TypeOK
  /\ \A h \in Holder : owned[h] # None => \E p \in Y!Index(0) : owned[h] = <<0, p>>
  /\ LeavesAreHeld
  /\ AncestorsAreMarked
  /\ fault = "none"
  /\ ret = "full" => Y!Index(0) \subseteq bits[0]

-----------------------------------------------------------------------------
(* Geometry *)

LEMMA PagesAre == Pages \in Nat \ {0}
BY PagesAreRight

\* Level 0 exists and its blocks are the pages.
LEMMA LevelZero ==
  /\ 0 \in Y!Level
  /\ Y!Index(0) = 0 .. Pages - 1
  /\ \A p \in Y!Index(0) : Y!Shr(p, 0) = p
  /\ \A p \in Y!Index(0) : Y!PagesOf(<<0, p>>) = {p}
<1>1. \A p \in Nat : Y!Shr(p, 0) = p  BY DEF Y!Shr
<1>2. Y!Length(0) = Pages  BY <1>1, PagesAre DEF Y!Length
<1>3. Y!Index(0) = 0 .. Pages - 1  BY <1>2 DEF Y!Index
<1>4. 0 \in Y!Level  BY <1>2, PagesAre DEF Y!Level
<1>5. \A p \in Y!Index(0) : Y!Shr(p, 0) = p  BY <1>1, <1>3, PagesAre
<1>6. \A p \in Y!Index(0) : Y!PagesOf(<<0, p>>) = {p}  BY <1>5 DEF Y!PagesOf
<1>. QED  BY <1>3, <1>4, <1>5, <1>6

LEMMA NoBlockIsNone == None \notin (Orders \cup {0}) \X Y!Index(0)
<1>1. Orders \cup {0} \subseteq Nat /\ Y!Index(0) \subseteq Nat /\ None \notin Nat \X Nat
  BY LevelZero, PagesAreRight
<1>2. \A x \in (Orders \cup {0}) \X Y!Index(0) : x \in Nat \X Nat  BY <1>1
<1>. QED  BY Zenon, <1>1, <1>2

\* With an even number of pages, both pages of a pair are below the end.
LEMMA PairInBounds ==
  ASSUME Pages % 2 = 0, NEW p \in Y!Index(0)
  PROVE  Y!RightChild(p) \in Y!Index(0)
BY LevelZero, PagesAre DEF Y!RightChild

\* Marking a page adds that page to level 0, its block to every level, and
\* removes nothing.
LEMMA OccupyPage ==
  ASSUME NEW p \in Y!Index(0), Y!TypeOK, Y!OccupyBuddy(0, p)
  PROVE  /\ bits' \in [Y!Level -> SUBSET Nat]
         /\ \A l \in Y!Level : bits'[l] \subseteq Y!Index(l)
         /\ bits'[0] = bits[0] \cup {p}
         /\ \A l \in Y!Level : bits[l] \subseteq bits'[l]
         /\ \A l \in Y!Level : Y!Shr(p, l) \in Y!Index(l) => Y!Shr(p, l) \in bits'[l]
<1>1. \A i \in Y!Level : bits'[i] = bits[i] \cup ({Y!Shr(p, i)} \cap Y!Index(i))
  <2>1. \A i \in Y!Level : Y!Descendants(0, p, i) = {}
    BY DEF Y!Descendants, Y!Level, Y!Index
  <2>. QED  BY <2>1 DEF Y!OccupyBuddy
<1>2. \A l \in Y!Level : bits'[l] \subseteq Y!Index(l)  BY <1>1 DEF Y!TypeOK
<1>3. \A l \in Y!Level : bits'[l] \subseteq Nat  BY <1>2 DEF Y!Index
<1>4. bits' \in [Y!Level -> SUBSET Nat]  BY <1>3 DEF Y!OccupyBuddy
<1>. QED  BY <1>1, <1>2, <1>4, LevelZero

\* Freeing a page clears its bit of level 0 and nothing else: the bit is
\* itself one of the pair that free_buddys_ancestors reads.
LEMMA FreePage ==
  ASSUME NEW p \in Y!Index(0), Y!TypeOK
  PROVE  Y!FreeAncestors(Y!ClearBlock(0, p), 0, p)
           = [l \in Y!Level |-> IF l = 0 THEN bits[0] \ {p} ELSE bits[l]]
<1>1. \A i \in Y!Level : Y!Descendants(0, p, i) = {}
  BY DEF Y!Descendants, Y!Level, Y!Index
<1>2. Y!ClearBlock(0, p) = [l \in Y!Level |-> IF l = 0 THEN bits[0] \ {p} ELSE bits[l]]
  BY <1>1 DEF Y!ClearBlock
<1>3. p \in {Y!LeftChild(p), Y!RightChild(p)}
  BY LevelZero, PagesAre DEF Y!LeftChild, Y!RightChild
<1>4. p \notin Y!ClearBlock(0, p)[0]  BY <1>2, LevelZero
<1>. QED  BY <1>2, <1>3, <1>4 DEF Y!FreeAncestors

-----------------------------------------------------------------------------
(* The invariant *)

LEMMA BuddyInit == Y!Init => BuddyInv
BY LevelZero, NoBlockIsNone DEF Y!Init, BuddyInv, Y!TypeOK, LeavesAreHeld, AncestorsAreMarked

\* A free page p is given to h, with its blocks marked.
LEMMA TakePage ==
  ASSUME BuddyInv, NEW h \in Holder, 0 \in Orders, NEW p \in Y!Index(0) \ bits[0], owned[h] = None,
         Y!OccupyBuddy(0, p), owned' = [owned EXCEPT ![h] = <<0, p>>],
         ret' = "ok", fault' = fault
  PROVE  BuddyInv'
<1>1. Y!TypeOK'  BY OccupyPage, LevelZero DEF BuddyInv, Y!TypeOK
<1>2. \A g \in Holder : owned'[g] = IF g = h THEN <<0, p>> ELSE owned[g]
  BY DEF BuddyInv, Y!TypeOK
<1>3. <<0, p>> # None  BY LevelZero, NoBlockIsNone
<1>4. LeavesAreHeld'
  <2>1. \A g \in Holder : owned[g] # <<0, p>>  BY DEF BuddyInv, LeavesAreHeld
  <2>2. \A q \in Y!Index(0) : q \in bits'[0] <=> \E g \in Holder : owned'[g] = <<0, q>>
    <3>. SUFFICES ASSUME NEW q \in Y!Index(0)
                  PROVE  q \in bits'[0] <=> \E g \in Holder : owned'[g] = <<0, q>>
      OBVIOUS
    <3>1. CASE q = p  BY <3>1, <1>2, OccupyPage DEF BuddyInv
    <3>2. CASE q # p
      <4>1. q \in bits'[0] <=> q \in bits[0]  BY <3>2, OccupyPage DEF BuddyInv
      <4>2. q \in bits[0] <=> \E g \in Holder : owned[g] = <<0, q>>
        BY DEF BuddyInv, LeavesAreHeld
      <4>3. <<0, q>> # <<0, p>>  BY <3>2
      <4>4. owned[h] # <<0, q>>  BY LevelZero, NoBlockIsNone
      <4>. QED  BY <4>1, <4>2, <4>3, <4>4, <1>2
    <3>. QED  BY <3>1, <3>2
  <2>3. \A f, g \in Holder : f # g /\ owned'[f] # None => owned'[f] # owned'[g]
    BY <2>1, <1>2 DEF BuddyInv, LeavesAreHeld
  <2>. QED  BY <2>2, <2>3 DEF LeavesAreHeld
<1>5. AncestorsAreMarked'
  <2>. SUFFICES ASSUME NEW g \in Holder, NEW l \in Y!Level, NEW q \in Y!Index(0),
                       owned'[g] = <<0, q>>, Y!Shr(q, l) \in Y!Index(l)
                PROVE  Y!Shr(q, l) \in bits'[l]
    BY DEF AncestorsAreMarked
  <2>1. CASE g = h  BY <2>1, <1>2, OccupyPage DEF BuddyInv
  <2>2. CASE g # h  BY <2>2, <1>2, OccupyPage DEF BuddyInv, AncestorsAreMarked
  <2>. QED  BY <2>1, <2>2
<1>6. \A g \in Holder : owned'[g] # None => \E q \in Y!Index(0) : owned'[g] = <<0, q>>
  BY <1>2 DEF BuddyInv
<1>. QED  BY <1>1, <1>4, <1>5, <1>6 DEF BuddyInv

\* Page p of h becomes free.
LEMMA ReleasePage ==
  ASSUME BuddyInv, NEW h \in Holder, NEW p \in Y!Index(0), owned[h] = <<0, p>>,
         bits' = [l \in Y!Level |-> IF l = 0 THEN bits[0] \ {p} ELSE bits[l]],
         owned' = [owned EXCEPT ![h] = None], ret' = "ok", fault' = "none"
  PROVE  BuddyInv'
<1>1. \A g \in Holder : owned'[g] = IF g = h THEN None ELSE owned[g]
  BY DEF BuddyInv, Y!TypeOK
<1>2. <<0, p>> # None  BY LevelZero, NoBlockIsNone
<1>3. \A g \in Holder : owned'[g] # <<0, p>>  BY <1>1, <1>2 DEF BuddyInv, LeavesAreHeld
<1>4. Y!TypeOK'  BY SMTT(40), LevelZero DEF BuddyInv, Y!TypeOK
<1>5. LeavesAreHeld'
  <2>1. \A q \in Y!Index(0) : q \in bits'[0] <=> \E g \in Holder : owned'[g] = <<0, q>>
    <3>. SUFFICES ASSUME NEW q \in Y!Index(0)
                  PROVE  q \in bits'[0] <=> \E g \in Holder : owned'[g] = <<0, q>>
      OBVIOUS
    <3>1. CASE q = p  BY <3>1, <1>3, LevelZero
    <3>2. CASE q # p
      <4>1. q \in bits'[0] <=> q \in bits[0]  BY <3>2, LevelZero
      <4>2. q \in bits[0] <=> \E g \in Holder : owned[g] = <<0, q>>
        BY DEF BuddyInv, LeavesAreHeld
      <4>3. <<0, q>> # <<0, p>> /\ <<0, q>> # None  BY <3>2, LevelZero, NoBlockIsNone
      <4>. QED  BY <4>1, <4>2, <4>3, <1>1
    <3>. QED  BY <3>1, <3>2
  <2>2. \A f, g \in Holder : f # g /\ owned'[f] # None => owned'[f] # owned'[g]
    BY <1>1 DEF BuddyInv, LeavesAreHeld
  <2>. QED  BY <2>1, <2>2 DEF LeavesAreHeld
<1>6. AncestorsAreMarked'
  <2>. SUFFICES ASSUME NEW g \in Holder, NEW l \in Y!Level, NEW q \in Y!Index(0),
                       owned'[g] = <<0, q>>, Y!Shr(q, l) \in Y!Index(l)
                PROVE  Y!Shr(q, l) \in bits'[l]
    BY DEF AncestorsAreMarked
  <2>0. <<0, q>> # None  BY LevelZero, NoBlockIsNone
  <2>1. g # h /\ owned[g] = <<0, q>> /\ q # p  BY <2>0, <1>1, <1>3
  <2>2. Y!Shr(q, l) \in bits[l]  BY <2>1 DEF BuddyInv, AncestorsAreMarked
  <2>. QED  BY <2>1, <2>2, LevelZero
<1>7. \A g \in Holder : owned'[g] # None => \E q \in Y!Index(0) : owned'[g] = <<0, q>>
  BY <1>1 DEF BuddyInv
<1>. QED  BY <1>4, <1>5, <1>6, <1>7 DEF BuddyInv

\* Every step of the allocator preserves the invariant.
LEMMA BuddyNext ==
  ASSUME SinglePageUse, BuddyInv, [Y!Next]_(Y!vars)
  PROVE  BuddyInv'
<1>1. ASSUME NEW h \in Holder, NEW o \in Orders, Y!Alloc(h, o)
      PROVE  BuddyInv'
  <2>1. o = 0  BY <1>1 DEF SinglePageUse, Y!Alloc
  <2>2. PICK n \in Y!Index(0) :
          /\ n \notin bits[0] /\ Y!OccupyBuddy(0, n)
          /\ owned' = [owned EXCEPT ![h] = <<0, n>>]
    BY <1>1, <2>1 DEF Y!Alloc, Y!SearchFalse
  <2>. QED  BY <1>1, <2>1, <2>2, TakePage DEF Y!Alloc
<1>2. ASSUME NEW h \in Holder, NEW o \in Orders, Y!AllocFull(h, o)
      PROVE  BuddyInv'
  <2>1. o = 0  BY <1>2 DEF SinglePageUse, Y!AllocFull
  <2>. QED
    BY <1>2, <2>1 DEF Y!AllocFull, BuddyInv, Y!TypeOK, LeavesAreHeld, AncestorsAreMarked
<1>3. ASSUME NEW h \in Holder, NEW o \in Orders, Y!AllocTooLarge(h, o)
      PROVE  BuddyInv'
  <2>1. o - 1 \notin Y!Level  BY <1>3, LevelZero DEF SinglePageUse, Y!AllocTooLarge
  <2>. QED
    BY <1>3, <2>1 DEF Y!AllocTooLarge, BuddyInv, Y!TypeOK, LeavesAreHeld, AncestorsAreMarked
<1>4. ASSUME NEW h \in Holder, NEW o \in Orders, NEW n \in Y!Index(o), Y!TryAlloc(h, o, n)
      PROVE  BuddyInv'
  <2>1. o = 0  BY <1>4 DEF SinglePageUse, Y!TryAlloc
  <2>2. CASE n \in bits[0]
    BY <1>4, <2>1, <2>2 DEF Y!TryAlloc, BuddyInv, Y!TypeOK, LeavesAreHeld, AncestorsAreMarked
  <2>3. CASE n \notin bits[0]  BY <1>4, <2>1, <2>3, TakePage DEF Y!TryAlloc
  <2>. QED  BY <2>2, <2>3
<1>5. ASSUME NEW h \in Holder, Y!Free(h)
      PROVE  BuddyInv'
  <2>1. PICK p \in Y!Index(0) : owned[h] = <<0, p>>  BY <1>5 DEF Y!Free, BuddyInv
  <2>2. bits' = [l \in Y!Level |-> IF l = 0 THEN bits[0] \ {p} ELSE bits[l]]
    BY <1>5, <2>1, FreePage DEF Y!Free, BuddyInv
  <2>3. fault' = "none"  BY <1>5, <2>1, PairInBounds DEF Y!Free, SinglePageUse
  <2>. QED  BY <1>5, <2>1, <2>2, <2>3, ReleasePage DEF Y!Free
<1>6. CASE UNCHANGED Y!vars
  BY <1>6 DEF Y!vars, BuddyInv, Y!TypeOK, LeavesAreHeld, AncestorsAreMarked
<1>. QED  BY <1>1, <1>2, <1>3, <1>4, <1>5, <1>6 DEF Y!Next

-----------------------------------------------------------------------------
(* What the invariant gives *)

LEMMA BuddyInvImplies ==
  ASSUME BuddyInv
  PROVE  /\ Y!NoDoubleAllocation
         /\ Y!FullMeansExhausted
         /\ Y!FreeBlocksAreUnused
<1>1. \A h \in Holder : owned[h] # None =>
        \E p \in Y!Index(0) : owned[h] = <<0, p>> /\ Y!PagesOf(owned[h]) = {p}
  BY LevelZero DEF BuddyInv
<1>2. Y!NoDoubleAllocation  BY <1>1 DEF Y!NoDoubleAllocation, BuddyInv, LeavesAreHeld
<1>3. Y!FullMeansExhausted  BY DEF Y!FullMeansExhausted, BuddyInv, LeavesAreHeld
<1>4. Y!FreeBlocksAreUnused
  <2>. SUFFICES ASSUME NEW l \in Y!Level, NEW b \in Y!Index(l) \ bits[l], NEW h \in Holder,
                       NEW p \in Y!Index(0), owned[h] = <<0, p>>, Y!PagesOf(owned[h]) = {p}
                PROVE  {p} \cap Y!PagesOf(<<l, b>>) = {}
    BY <1>1 DEF Y!FreeBlocksAreUnused
  <2>1. SUFFICES ASSUME Y!Shr(p, l) = b
                 PROVE  FALSE
    BY DEF Y!PagesOf
  <2>. QED  BY <2>1 DEF BuddyInv, AncestorsAreMarked
<1>. QED  BY <1>2, <1>3, <1>4

-----------------------------------------------------------------------------
(* Refinement *)

\* A page that buddy_alloc or buddy_try_alloc hands to h is a unit nobody owns.
LEMMA TakeRefines ==
  ASSUME BuddyInv, NEW h \in Holder, NEW p \in Y!Index(0) \ bits[0], owned[h] = None,
         owned' = [owned EXCEPT ![h] = <<0, p>>]
  PROVE  Y!Abs!Next
<1>1. \A g \in Holder : owned[g] # <<0, p>>  BY DEF BuddyInv, LeavesAreHeld
<1>2. Y!Abs!Acquire(h, <<0, p>>)  BY <1>1 DEF Y!Abs!Acquire
<1>. QED  BY <1>2 DEF Y!Abs!Next

LEMMA StepRefines ==
  ASSUME SinglePageUse, BuddyInv, [Y!Next]_(Y!vars)
  PROVE  [Y!Abs!Next]_owned
<1>1. ASSUME NEW h \in Holder, NEW o \in Orders, Y!Alloc(h, o)
      PROVE  Y!Abs!Next
  <2>1. o = 0  BY <1>1 DEF SinglePageUse, Y!Alloc
  <2>2. PICK n \in Y!Index(0) \ bits[0] : owned' = [owned EXCEPT ![h] = <<0, n>>]
    BY <1>1, <2>1 DEF Y!Alloc, Y!SearchFalse
  <2>. QED  BY <1>1, <2>2, TakeRefines DEF Y!Alloc
<1>2. ASSUME NEW h \in Holder, NEW o \in Orders, NEW n \in Y!Index(o), Y!TryAlloc(h, o, n)
      PROVE  [Y!Abs!Next]_owned
  <2>1. o = 0  BY <1>2 DEF SinglePageUse, Y!TryAlloc
  <2>. QED  BY <1>2, <2>1, TakeRefines DEF Y!TryAlloc
<1>3. ASSUME NEW h \in Holder, Y!Free(h)
      PROVE  Y!Abs!Next
  <2>1. Y!Abs!Release(h)  BY <1>3 DEF Y!Free, Y!Abs!Release
  <2>. QED  BY <2>1 DEF Y!Abs!Next
<1>. QED  BY <1>1, <1>2, <1>3 DEF Y!Next, Y!vars, Y!AllocFull, Y!AllocTooLarge

-----------------------------------------------------------------------------
(* A behaviour of Library that uses the buddy allocator, or that leaves it as it is *)

NoneTaken == ret = "ok" /\ owned = [h \in Holder |-> None]

PagesInv == IF part = "buddy" THEN BuddyInv ELSE NoneTaken

LEMMA PagesInit == Init => PagesInv /\ Y!Abs!Init
BY BuddyInit DEF Init, PagesInv, NoneTaken, Y!Init, Y!Abs!Init

LEMMA PagesNext ==
  ASSUME SinglePageUse, PagesInv, [Next]_vars
  PROVE  PagesInv' /\ [Y!Abs!Next]_owned
<1>1. CASE UsePages
  <2>1. part = "buddy" /\ part' = "buddy" /\ BuddyInv  BY <1>1 DEF UsePages, PagesInv
  <2>. QED  BY <1>1, <2>1, BuddyNext, StepRefines DEF UsePages, PagesInv
<1>2. CASE UNCHANGED vars
  <2>1. part' = part /\ owned' = owned /\ ret' = ret /\ bits' = bits /\ fault' = fault
    BY <1>2 DEF vars, buddyVars
  <2>2. CASE part = "buddy"
    <3>1. [Y!Next]_(Y!vars)  BY <2>1 DEF Y!vars
    <3>. QED  BY <2>1, <2>2, <3>1, BuddyNext DEF PagesInv
  <2>3. CASE part # "buddy"  BY <2>1, <2>3 DEF PagesInv, NoneTaken
  <2>. QED  BY <2>1, <2>2, <2>3
<1>3. CASE part # "buddy" /\ part' = part /\ UNCHANGED buddyVars
  BY <1>3 DEF PagesInv, NoneTaken, buddyVars
<1>4. Next => UsePages \/ (part # "buddy" /\ part' = part /\ UNCHANGED buddyVars)
  BY Zenon DEF Next, UseStore, UseBuffer, UseLinear, UsePool, UseMalloc,
    UseInterrupts, UseTree
<1>. QED  BY <1>1, <1>2, <1>3, <1>4

LEMMA PagesInvImplies ==
  ASSUME PagesInv
  PROVE  FullMeansExhausted /\ FreeBlocksAreUnused /\ BitsInBounds /\ Y!NoDoubleAllocation
<1>1. CASE part = "buddy"
  BY <1>1, BuddyInvImplies DEF PagesInv, BuddyInv, FullMeansExhausted, FreeBlocksAreUnused,
      BitsInBounds, Y!NoFault
<1>2. CASE part # "buddy"
  <2>1. \A h \in Holder : owned[h] = None  BY <1>2 DEF PagesInv, NoneTaken
  <2>2. FullMeansExhausted
    BY <1>2 DEF PagesInv, NoneTaken, FullMeansExhausted, Y!FullMeansExhausted
  <2>3. FreeBlocksAreUnused /\ Y!NoDoubleAllocation
    BY <2>1 DEF FreeBlocksAreUnused, Y!FreeBlocksAreUnused, Y!NoDoubleAllocation
  <2>. QED  BY <1>2, <2>2, <2>3 DEF BitsInBounds
<1>. QED  BY <1>1, <1>2

\* buddy_alloc and buddy_try_alloc never hand out a page that is in use (buddy.c).
THEOREM NoPageTwice ==
  ASSUME SinglePageUse
  PROVE  Spec => []Y!NoDoubleAllocation
BY PagesInit, PagesNext, PagesInvImplies, PTL DEF Spec

\* buddy_alloc fails only when all pages are in use (buddy.c).
THEOREM NoMissingMemory ==
  ASSUME SinglePageUse
  PROVE  Spec => []FullMeansExhausted
BY PagesInit, PagesNext, PagesInvImplies, PTL DEF Spec

\* The bits of the upper levels never show a used page as free (buddy.c).
THEOREM UpperLevelsAreSafe ==
  ASSUME SinglePageUse
  PROVE  Spec => []FreeBlocksAreUnused
BY PagesInit, PagesNext, PagesInvImplies, PTL DEF Spec

\* No kassert of bitmap.c fails and lvl_bitmaps is not overrun (bitmap.c, buddy.c).
THEOREM BuddyStaysInBounds ==
  ASSUME SinglePageUse
  PROVE  Spec => []BitsInBounds
BY PagesInit, PagesNext, PagesInvImplies, PTL DEF Spec

\* The buddy allocator, asked for single pages, is an Allocator of its pages (buddy.c).
THEOREM BuddyImplementsAllocator ==
  ASSUME SinglePageUse
  PROVE  Spec => PagesImplementAllocator
BY PagesInit, PagesNext, PTL DEF Spec, PagesImplementAllocator, Y!ImplementsAllocator, Y!Abs!Spec

-----------------------------------------------------------------------------
(* The red-black tree: moves of pointers *)

Tree == [root : Node \cup {Null},
         left : [Node -> Node \cup {Null}], right : [Node -> Node \cup {Null}],
         parent : [Node -> Node \cup {Null}], colour : [Node -> {R!Red, R!Black}]]

\* What the helpers do to a tree s.
ParentSet(s, n, p, u) ==
  /\ u \in Tree
  /\ u.root = s.root /\ u.left = s.left /\ u.right = s.right /\ u.colour = s.colour
  /\ \A m \in Node : u.parent[m] = IF m = n THEN p ELSE s.parent[m]

Relinked(s, p, old, new, u) ==
  /\ u \in Tree
  /\ u.root = (IF p = Null THEN new ELSE s.root)
  /\ u.parent = s.parent /\ u.colour = s.colour
  /\ \A m \in Node : u.left[m] = IF m = p /\ s.left[m] = old THEN new ELSE s.left[m]
  /\ \A m \in Node : u.right[m] = IF m = p /\ s.left[m] # old THEN new ELSE s.right[m]

Replaced(s, old, new, u) ==
  /\ u \in Tree
  /\ u.root = (IF s.parent[old] = Null THEN new ELSE s.root) /\ u.colour = s.colour
  /\ \A m \in Node : u.left[m] = IF m = s.parent[old] /\ s.left[m] = old THEN new ELSE s.left[m]
  /\ \A m \in Node : u.right[m] = IF m = s.parent[old] /\ s.left[m] # old THEN new ELSE s.right[m]
  /\ \A m \in Node : u.parent[m] = IF m = new THEN s.parent[old] ELSE s.parent[m]

LEMMA SetParentIs ==
  ASSUME NEW s \in Tree, NEW n \in Node \cup {Null}, NEW p \in Node \cup {Null}
  PROVE  ParentSet(s, n, p, R!SetParent(s, n, p))
BY KeysAreRight DEF R!SetParent, Tree, ParentSet

LEMMA RelinkIs ==
  ASSUME NEW s \in Tree, NEW p \in Node \cup {Null}, NEW old \in Node, NEW new \in Node \cup {Null}
  PROVE  Relinked(s, p, old, new, R!Relink(s, p, old, new))
BY KeysAreRight DEF R!Relink, Tree, Relinked

LEMMA ReplaceIs ==
  ASSUME NEW s \in Tree, NEW old \in Node, NEW new \in Node \cup {Null}
  PROVE  Replaced(s, old, new, R!ReplaceSubtree(s, old, new))
<1>1. s.parent[old] \in Node \cup {Null}  BY DEF Tree
<1>2. PICK v : v = R!Relink(s, s.parent[old], old, new)  OBVIOUS
<1>3. Relinked(s, s.parent[old], old, new, v)  BY Zenon, <1>1, <1>2, RelinkIs
<1>4. PICK u : u = R!ReplaceSubtree(s, old, new)  OBVIOUS
<1>5. u = R!SetParent(v, new, s.parent[old])  BY Zenon, <1>2, <1>4 DEF R!ReplaceSubtree
<1>6. ParentSet(v, new, s.parent[old], u)
  BY Zenon, <1>1, <1>3, <1>5, SetParentIs DEF Relinked
<1>7. Replaced(s, old, new, u)  BY <1>1, <1>3, <1>6 DEF Replaced, Relinked, ParentSet
<1>. QED  BY Zenon, <1>4, <1>7

\* The pointers of the nodes T of a tree agree with each other.
Linked(s, T) ==
  /\ s \in Tree /\ T \subseteq Node /\ s.root \in T \cup {Null}
  /\ \A n \in T : /\ s.left[n] \in T \cup {Null} /\ s.right[n] \in T \cup {Null}
                  /\ s.left[n] # Null => s.parent[s.left[n]] = n /\ s.left[n] # s.right[n]
                  /\ s.right[n] # Null => s.parent[s.right[n]] = n
                  /\ s.parent[n] = Null <=> n = s.root
                  /\ s.parent[n] # Null =>
                       s.parent[n] \in T /\ n \in {s.left[s.parent[n]], s.right[s.parent[n]]}

Kids(s, n) == {s.left[n], s.right[n]}

\* A rotation: new, a child of old, comes above it; inner goes from new to old.
Turned(s, u, T, old, new, inner, outer, other) ==
  /\ Linked(u, T) /\ u.colour = s.colour
  /\ Kids(u, new) = {old, outer} /\ Kids(u, old) = {inner, other}
  /\ \A n \in T \ {old, new} :
       /\ Null \in Kids(u, n) <=> Null \in Kids(s, n)
       /\ old \notin Kids(s, n) => Kids(u, n) = Kids(s, n)
  /\ u.parent[old] = new /\ u.parent[new] = s.parent[old]
  /\ \A n \in T \ {old, new, inner} : u.parent[n] = s.parent[n]
  /\ inner # Null => u.parent[inner] = old
  /\ \A n \in Node \ T : /\ u.left[n] = s.left[n] /\ u.right[n] = s.right[n]
                         /\ u.parent[n] = s.parent[n]

RotatedLeft(s, old, new, u) ==
  /\ u \in Tree /\ u.colour = s.colour
  /\ u.root = (IF s.parent[old] = Null THEN new ELSE s.root)
  /\ \A m \in Node : u.left[m] = IF m = new THEN old
                                 ELSE IF m = s.parent[old] /\ s.left[m] = old THEN new ELSE s.left[m]
  /\ \A m \in Node : u.right[m] = IF m = old THEN s.left[new]
                                  ELSE IF m = s.parent[old] /\ s.left[m] # old THEN new ELSE s.right[m]
  /\ \A m \in Node : u.parent[m] = IF m = old THEN new
                                   ELSE IF m = s.left[new] THEN old
                                   ELSE IF m = new THEN s.parent[old] ELSE s.parent[m]

LEMMA RotateLeftIs ==
  ASSUME NEW s \in Tree, NEW old \in Node, NEW new \in Node, new = s.right[old], new # old,
         s.parent[old] \notin {old, new}
  PROVE  RotatedLeft(s, old, new, R!RotateLeft(s, old))
<1> DEFINE inner == s.left[new]
           above == s.parent[old]
<1>1. inner \in Node \cup {Null} /\ above \in Node \cup {Null}  BY DEF Tree
<1>2. PICK a : a = R!ReplaceSubtree(s, old, new)  OBVIOUS
<1>3. Replaced(s, old, new, a)  BY Zenon, <1>2, ReplaceIs
<1>4. PICK b : b = [a EXCEPT !.right[old] = inner]  OBVIOUS
<1>5. /\ b \in Tree /\ b.root = a.root /\ b.left = a.left /\ b.parent = a.parent /\ b.colour = a.colour
      /\ \A m \in Node : b.right[m] = IF m = old THEN inner ELSE a.right[m]
  <2> HIDE DEF inner
  <2>. QED  BY <1>1, <1>3, <1>4 DEF Tree, Replaced
<1>6. PICK c : c = R!SetParent(b, inner, old)  OBVIOUS
<1>7. ParentSet(b, inner, old, c)
  <2> HIDE DEF inner
  <2>. QED  BY Zenon, <1>1, <1>5, <1>6, SetParentIs
<1>8. PICK d : d = [c EXCEPT !.left[new] = old]  OBVIOUS
<1>9. /\ d \in Tree /\ d.root = c.root /\ d.right = c.right /\ d.parent = c.parent /\ d.colour = c.colour
      /\ \A m \in Node : d.left[m] = IF m = new THEN old ELSE c.left[m]
  BY <1>7, <1>8 DEF Tree, ParentSet
<1>10. PICK u : u = R!SetParent(d, old, new)  OBVIOUS
<1>11. ParentSet(d, old, new, u)  BY Zenon, <1>9, <1>10, SetParentIs
<1>12. u = R!RotateLeft(s, old)
  BY Zenon, <1>2, <1>4, <1>6, <1>8, <1>10 DEF R!RotateLeft
<1>13. RotatedLeft(s, old, new, u)
  <2>1. u.root = (IF s.parent[old] = Null THEN new ELSE s.root) /\ u.colour = s.colour /\ u \in Tree
    BY <1>3, <1>5, <1>7, <1>9, <1>11 DEF Replaced, ParentSet
  <2>2. \A m \in Node : u.left[m] = IF m = new THEN old
                                    ELSE IF m = above /\ s.left[m] = old THEN new ELSE s.left[m]
    BY <1>3, <1>5, <1>7, <1>9, <1>11 DEF Replaced, ParentSet
  <2>3. \A m \in Node : u.right[m] = IF m = old THEN inner
                                     ELSE IF m = above /\ s.left[m] # old THEN new ELSE s.right[m]
    BY <1>3, <1>5, <1>7, <1>9, <1>11 DEF Replaced, ParentSet
  <2>4. \A m \in Node : u.parent[m] = IF m = old THEN new
                                      ELSE IF m = inner THEN old
                                      ELSE IF m = new THEN above ELSE s.parent[m]
    BY <1>3, <1>5, <1>7, <1>9, <1>11 DEF Replaced, ParentSet
  <2>. QED  BY Zenon, <2>1, <2>2, <2>3, <2>4 DEF RotatedLeft
<1>. QED  BY Zenon, <1>12, <1>13

LEMMA TurnedLeft ==
  ASSUME NEW s, NEW T, NEW old, NEW new, NEW u, Linked(s, T), old \in T, new \in T,
         new = s.right[old], new # old, s.parent[old] \notin {old, new},
         RotatedLeft(s, old, new, u)
  PROVE  Turned(s, u, T, old, new, s.left[new], s.right[new], s.left[old])
<1>1. s \in Tree /\ T \subseteq Node /\ Null \notin T /\ old \in Node /\ new \in Node
  BY KeysAreRight DEF Linked
<1>2. /\ s.left[new] \notin {old, new} /\ s.right[new] \notin {old, new} /\ s.left[old] \notin {old, new}
      /\ s.parent[new] = old /\ s.parent[new] # Null
      /\ s.left[new] \in T \cup {Null} /\ s.right[new] \in T \cup {Null} /\ s.left[old] \in T \cup {Null}
      /\ (s.left[new] = s.right[new] => s.left[new] = Null)
      /\ (s.left[old] = s.left[new] => s.left[new] = Null)
      /\ (s.left[old] = s.right[new] => s.left[old] = Null)
  BY <1>1 DEF Linked
<1>3. ASSUME NEW n \in T \ {old, new}
      PROVE  /\ n # s.parent[old] => u.left[n] = s.left[n] /\ u.right[n] = s.right[n]
             /\ n = s.parent[old] /\ s.left[n] = old => u.left[n] = new /\ u.right[n] = s.right[n]
                  /\ s.right[n] # old
             /\ n = s.parent[old] /\ s.left[n] # old => u.left[n] = s.left[n] /\ u.right[n] = new
                  /\ s.right[n] = old
             /\ s.left[n] # new /\ s.right[n] # new
  BY <1>1, <1>2 DEF Linked, RotatedLeft
<1>4. /\ u.left[new] = old /\ u.right[new] = s.right[new]
      /\ u.left[old] = s.left[old] /\ u.right[old] = s.left[new]
      /\ u.parent[old] = new /\ u.parent[new] = s.parent[old]
      /\ s.left[new] # Null => u.parent[s.left[new]] = old
  BY <1>1, <1>2 DEF RotatedLeft, Linked
<1>5. ASSUME NEW n \in T \ {old, new}, n # s.left[new]
      PROVE  u.parent[n] = s.parent[n]
  BY <1>1, <1>5 DEF RotatedLeft
<1>6. Linked(u, T)
  <2>1. u \in Tree /\ T \subseteq Node /\ u.root \in T \cup {Null}
    BY <1>1 DEF Linked, RotatedLeft
  <2>2. ASSUME NEW n \in T
        PROVE  u.left[n] \in T \cup {Null} /\ u.right[n] \in T \cup {Null}
    BY <1>1, <1>2, <1>3, <1>4 DEF Linked
  <2>3. ASSUME NEW n \in T
        PROVE  /\ u.left[n] # Null => u.parent[u.left[n]] = n /\ u.left[n] # u.right[n]
               /\ u.right[n] # Null => u.parent[u.right[n]] = n
    <3>1. CASE n = old  BY <1>1, <1>2, <1>4, <1>5, <3>1 DEF Linked
    <3>2. CASE n = new  BY <1>1, <1>2, <1>4, <1>5, <3>2 DEF Linked
    <3>3. CASE n \notin {old, new} /\ n # s.parent[old]
      <4>1. u.left[n] = s.left[n] /\ u.right[n] = s.right[n]  BY <1>3, <3>3
      <4>2. s.left[n] \notin {old, new, s.left[new]} \/ s.left[n] = Null
        BY <1>1, <1>2, <3>3 DEF Linked
      <4>3. s.right[n] \notin {old, new, s.left[new]} \/ s.right[n] = Null
        BY <1>1, <1>2, <3>3 DEF Linked
      <4>. QED  BY <1>1, <1>5, <4>1, <4>2, <4>3 DEF Linked
    <3>4. CASE n \notin {old, new} /\ n = s.parent[old]
      <4>1. CASE s.left[n] = old
        <5>1. u.left[n] = new /\ u.right[n] = s.right[n] /\ s.right[n] # old
          BY <1>3, <3>4, <4>1
        <5>2. s.right[n] \notin {old, new, s.left[new]} \/ s.right[n] = Null
          BY <1>1, <1>2, <3>4, <5>1 DEF Linked
        <5>. QED  BY <1>1, <1>4, <1>5, <3>4, <5>1, <5>2 DEF Linked
      <4>2. CASE s.left[n] # old
        <5>1. u.left[n] = s.left[n] /\ u.right[n] = new  BY <1>3, <3>4, <4>2
        <5>2. s.left[n] \notin {old, new, s.left[new]} \/ s.left[n] = Null
          BY <1>1, <1>2, <3>4, <4>2 DEF Linked
        <5>. QED  BY <1>1, <1>4, <1>5, <3>4, <5>1, <5>2 DEF Linked
      <4>. QED  BY <4>1, <4>2
    <3>. QED  BY <3>1, <3>2, <3>3, <3>4
  <2>4. ASSUME NEW n \in T
        PROVE  u.parent[n] = Null <=> n = u.root
    <3>1. u.root = (IF s.parent[old] = Null THEN new ELSE s.root)  BY DEF RotatedLeft
    <3>2. CASE n \in {old, new}  BY <1>1, <1>2, <1>4, <3>1, <3>2 DEF Linked
    <3>3. CASE n \notin {old, new} /\ n = s.left[new]
      <4>1. u.parent[n] = old /\ s.parent[n] = new  BY <1>1, <1>2, <1>4, <3>3 DEF Linked
      <4>2. n # s.root /\ old # Null  BY <1>1, <4>1 DEF Linked
      <4>. QED  BY <1>1, <3>1, <3>3, <4>1, <4>2
    <3>4. CASE n \notin {old, new} /\ n # s.left[new]
      BY <1>1, <1>2, <1>5, <3>1, <3>4 DEF Linked
    <3>. QED  BY <3>2, <3>3, <3>4
  <2>5. ASSUME NEW n \in T, u.parent[n] # Null
        PROVE  u.parent[n] \in T /\ n \in {u.left[u.parent[n]], u.right[u.parent[n]]}
    <3>1. CASE n = old  BY <1>4, <3>1
    <3>2. CASE n = new
      <4>1. s.parent[old] \in T \ {old, new}  BY <1>4, <2>5, <3>2 DEF Linked
      <4>. QED  BY <1>3, <1>4, <3>2, <4>1
    <3>3. CASE n \notin {old, new} /\ n = s.left[new]
      <4>1. u.parent[n] = old  BY <1>1, <1>4, <3>3
      <4>. QED  BY <1>4, <3>3, <4>1
    <3>4. CASE n \notin {old, new} /\ n # s.left[new]
      <4>1. u.parent[n] = s.parent[n] /\ s.parent[n] \in T
              /\ n \in {s.left[s.parent[n]], s.right[s.parent[n]]}
        BY <1>5, <2>5, <3>4 DEF Linked
      <4>2. CASE s.parent[n] = old  BY <1>4, <3>4, <4>1, <4>2
      <4>3. CASE s.parent[n] = new  BY <1>4, <3>4, <4>1, <4>3
      <4>4. CASE s.parent[n] \notin {old, new}  BY <1>3, <3>4, <4>1, <4>4
      <4>. QED  BY <4>2, <4>3, <4>4
    <3>. QED  BY <3>1, <3>2, <3>3, <3>4
  <2>. QED  BY Zenon, <2>1, <2>2, <2>3, <2>4, <2>5 DEF Linked
<1>7. \A n \in T \ {old, new} :
        /\ Null \in Kids(u, n) <=> Null \in Kids(s, n)
        /\ old \notin Kids(s, n) => Kids(u, n) = Kids(s, n)
  <2>. SUFFICES ASSUME NEW n \in T \ {old, new}
                PROVE  /\ Null \in Kids(u, n) <=> Null \in Kids(s, n)
                       /\ old \notin Kids(s, n) => Kids(u, n) = Kids(s, n)
    BY Zenon
  <2>1. old # Null /\ new # Null  BY <1>1
  <2>. QED  BY <1>3, <2>1 DEF Kids
<1>8. Kids(u, new) = {old, s.right[new]} /\ Kids(u, old) = {s.left[new], s.left[old]}
  BY <1>4 DEF Kids
<1>9. \A n \in Node \ T : u.left[n] = s.left[n] /\ u.right[n] = s.right[n] /\ u.parent[n] = s.parent[n]
  <2>. SUFFICES ASSUME NEW n \in Node, n \notin T
                PROVE  u.left[n] = s.left[n] /\ u.right[n] = s.right[n] /\ u.parent[n] = s.parent[n]
    BY Zenon
  <2>1. n # old /\ n # new /\ n # s.left[new]  BY <1>1, <1>2, KeysAreRight
  <2>2. n # s.parent[old]  BY <1>1, KeysAreRight DEF Linked
  <2>. QED  BY <2>1, <2>2 DEF RotatedLeft
<1>10. u.colour = s.colour  BY DEF RotatedLeft
<1>. QED  BY Zenon, <1>4, <1>5, <1>6, <1>7, <1>8, <1>9, <1>10 DEF Turned

RotatedRight(s, old, new, u) ==
  /\ u \in Tree /\ u.colour = s.colour
  /\ u.root = (IF s.parent[old] = Null THEN new ELSE s.root)
  /\ \A m \in Node : u.right[m] = IF m = new THEN old
                                 ELSE IF m = s.parent[old] /\ s.left[m] # old THEN new ELSE s.right[m]
  /\ \A m \in Node : u.left[m] = IF m = old THEN s.right[new]
                                  ELSE IF m = s.parent[old] /\ s.left[m] = old THEN new ELSE s.left[m]
  /\ \A m \in Node : u.parent[m] = IF m = old THEN new
                                   ELSE IF m = s.right[new] THEN old
                                   ELSE IF m = new THEN s.parent[old] ELSE s.parent[m]

LEMMA RotateRightIs ==
  ASSUME NEW s \in Tree, NEW old \in Node, NEW new \in Node, new = s.left[old], new # old,
         s.parent[old] \notin {old, new}
  PROVE  RotatedRight(s, old, new, R!RotateRight(s, old))
<1> DEFINE inner == s.right[new]
           above == s.parent[old]
<1>1. inner \in Node \cup {Null} /\ above \in Node \cup {Null}  BY DEF Tree
<1>2. PICK a : a = R!ReplaceSubtree(s, old, new)  OBVIOUS
<1>3. Replaced(s, old, new, a)  BY Zenon, <1>2, ReplaceIs
<1>4. PICK b : b = [a EXCEPT !.left[old] = inner]  OBVIOUS
<1>5. /\ b \in Tree /\ b.root = a.root /\ b.right = a.right /\ b.parent = a.parent /\ b.colour = a.colour
      /\ \A m \in Node : b.left[m] = IF m = old THEN inner ELSE a.left[m]
  <2> HIDE DEF inner
  <2>. QED  BY <1>1, <1>3, <1>4 DEF Tree, Replaced
<1>6. PICK c : c = R!SetParent(b, inner, old)  OBVIOUS
<1>7. ParentSet(b, inner, old, c)
  <2> HIDE DEF inner
  <2>. QED  BY Zenon, <1>1, <1>5, <1>6, SetParentIs
<1>8. PICK d : d = [c EXCEPT !.right[new] = old]  OBVIOUS
<1>9. /\ d \in Tree /\ d.root = c.root /\ d.left = c.left /\ d.parent = c.parent /\ d.colour = c.colour
      /\ \A m \in Node : d.right[m] = IF m = new THEN old ELSE c.right[m]
  BY <1>7, <1>8 DEF Tree, ParentSet
<1>10. PICK u : u = R!SetParent(d, old, new)  OBVIOUS
<1>11. ParentSet(d, old, new, u)  BY Zenon, <1>9, <1>10, SetParentIs
<1>12. u = R!RotateRight(s, old)
  BY Zenon, <1>2, <1>4, <1>6, <1>8, <1>10 DEF R!RotateRight
<1>13. RotatedRight(s, old, new, u)
  <2>1. u.root = (IF s.parent[old] = Null THEN new ELSE s.root) /\ u.colour = s.colour /\ u \in Tree
    BY <1>3, <1>5, <1>7, <1>9, <1>11 DEF Replaced, ParentSet
  <2>2. \A m \in Node : u.right[m] = IF m = new THEN old
                                    ELSE IF m = above /\ s.left[m] # old THEN new ELSE s.right[m]
    BY <1>3, <1>5, <1>7, <1>9, <1>11 DEF Replaced, ParentSet
  <2>3. \A m \in Node : u.left[m] = IF m = old THEN inner
                                     ELSE IF m = above /\ s.left[m] = old THEN new ELSE s.left[m]
    BY <1>3, <1>5, <1>7, <1>9, <1>11 DEF Replaced, ParentSet
  <2>4. \A m \in Node : u.parent[m] = IF m = old THEN new
                                      ELSE IF m = inner THEN old
                                      ELSE IF m = new THEN above ELSE s.parent[m]
    BY <1>3, <1>5, <1>7, <1>9, <1>11 DEF Replaced, ParentSet
  <2>. QED  BY Zenon, <2>1, <2>2, <2>3, <2>4 DEF RotatedRight
<1>. QED  BY Zenon, <1>12, <1>13

LEMMA TurnedRight ==
  ASSUME NEW s, NEW T, NEW old, NEW new, NEW u, Linked(s, T), old \in T, new \in T,
         new = s.left[old], new # old, s.parent[old] \notin {old, new},
         RotatedRight(s, old, new, u)
  PROVE  Turned(s, u, T, old, new, s.right[new], s.left[new], s.right[old])
<1>1. s \in Tree /\ T \subseteq Node /\ Null \notin T /\ old \in Node /\ new \in Node
  BY KeysAreRight DEF Linked
<1>2. /\ s.right[new] \notin {old, new} /\ s.left[new] \notin {old, new}
           /\ s.right[old] \notin {old, new}
      /\ s.parent[new] = old /\ s.parent[new] # Null
      /\ s.right[new] \in T \cup {Null} /\ s.left[new] \in T \cup {Null}
           /\ s.right[old] \in T \cup {Null}
      /\ (s.right[new] = s.left[new] => s.right[new] = Null)
      /\ (s.right[old] = s.right[new] => s.right[new] = Null)
      /\ (s.right[old] = s.left[new] => s.right[old] = Null)
  BY <1>1 DEF Linked
<1>3. ASSUME NEW n \in T \ {old, new}
      PROVE  /\ n # s.parent[old] => u.right[n] = s.right[n] /\ u.left[n] = s.left[n]
             /\ n = s.parent[old] /\ s.right[n] = old => u.right[n] = new /\ u.left[n] = s.left[n]
                  /\ s.left[n] # old
             /\ n = s.parent[old] /\ s.right[n] # old => u.right[n] = s.right[n]
                  /\ u.left[n] = new /\ s.left[n] = old
             /\ s.right[n] # new /\ s.left[n] # new
  BY <1>1, <1>2 DEF Linked, RotatedRight
<1>4. /\ u.right[new] = old /\ u.left[new] = s.left[new]
      /\ u.right[old] = s.right[old] /\ u.left[old] = s.right[new]
      /\ u.parent[old] = new /\ u.parent[new] = s.parent[old]
      /\ s.right[new] # Null => u.parent[s.right[new]] = old
  BY <1>1, <1>2 DEF RotatedRight, Linked
<1>5. ASSUME NEW n \in T \ {old, new}, n # s.right[new]
      PROVE  u.parent[n] = s.parent[n]
  BY <1>1, <1>5 DEF RotatedRight
<1>6. Linked(u, T)
  <2>1. u \in Tree /\ T \subseteq Node /\ u.root \in T \cup {Null}
    BY <1>1 DEF Linked, RotatedRight
  <2>2. ASSUME NEW n \in T
        PROVE  u.right[n] \in T \cup {Null} /\ u.left[n] \in T \cup {Null}
    BY <1>1, <1>2, <1>3, <1>4 DEF Linked
  <2>3. ASSUME NEW n \in T
        PROVE  /\ u.right[n] # Null => u.parent[u.right[n]] = n /\ u.right[n] # u.left[n]
               /\ u.left[n] # Null => u.parent[u.left[n]] = n
    <3>1. CASE n = old  BY <1>1, <1>2, <1>4, <1>5, <3>1 DEF Linked
    <3>2. CASE n = new  BY <1>1, <1>2, <1>4, <1>5, <3>2 DEF Linked
    <3>3. CASE n \notin {old, new} /\ n # s.parent[old]
      <4>1. u.right[n] = s.right[n] /\ u.left[n] = s.left[n]  BY <1>3, <3>3
      <4>2. s.right[n] \notin {old, new, s.right[new]} \/ s.right[n] = Null
        BY <1>1, <1>2, <3>3 DEF Linked
      <4>3. s.left[n] \notin {old, new, s.right[new]} \/ s.left[n] = Null
        BY <1>1, <1>2, <3>3 DEF Linked
      <4>. QED  BY <1>1, <1>5, <4>1, <4>2, <4>3 DEF Linked
    <3>4. CASE n \notin {old, new} /\ n = s.parent[old]
      <4>1. CASE s.right[n] = old
        <5>1. u.right[n] = new /\ u.left[n] = s.left[n] /\ s.left[n] # old
          BY <1>3, <3>4, <4>1
        <5>2. s.left[n] \notin {old, new, s.right[new]} \/ s.left[n] = Null
          BY <1>1, <1>2, <3>4, <5>1 DEF Linked
        <5>. QED  BY <1>1, <1>4, <1>5, <3>4, <5>1, <5>2 DEF Linked
      <4>2. CASE s.right[n] # old
        <5>1. u.right[n] = s.right[n] /\ u.left[n] = new  BY <1>3, <3>4, <4>2
        <5>2. s.right[n] \notin {old, new, s.right[new]} \/ s.right[n] = Null
          BY <1>1, <1>2, <3>4, <4>2 DEF Linked
        <5>. QED  BY <1>1, <1>4, <1>5, <3>4, <5>1, <5>2 DEF Linked
      <4>. QED  BY <4>1, <4>2
    <3>. QED  BY <3>1, <3>2, <3>3, <3>4
  <2>4. ASSUME NEW n \in T
        PROVE  u.parent[n] = Null <=> n = u.root
    <3>1. u.root = (IF s.parent[old] = Null THEN new ELSE s.root)  BY DEF RotatedRight
    <3>2. CASE n \in {old, new}  BY <1>1, <1>2, <1>4, <3>1, <3>2 DEF Linked
    <3>3. CASE n \notin {old, new} /\ n = s.right[new]
      <4>1. u.parent[n] = old /\ s.parent[n] = new  BY <1>1, <1>2, <1>4, <3>3 DEF Linked
      <4>2. n # s.root /\ old # Null  BY <1>1, <4>1 DEF Linked
      <4>. QED  BY <1>1, <3>1, <3>3, <4>1, <4>2
    <3>4. CASE n \notin {old, new} /\ n # s.right[new]
      BY <1>1, <1>2, <1>5, <3>1, <3>4 DEF Linked
    <3>. QED  BY <3>2, <3>3, <3>4
  <2>5. ASSUME NEW n \in T, u.parent[n] # Null
        PROVE  u.parent[n] \in T /\ n \in {u.right[u.parent[n]], u.left[u.parent[n]]}
    <3>1. CASE n = old  BY <1>4, <3>1
    <3>2. CASE n = new
      <4>1. s.parent[old] \in T \ {old, new}  BY <1>4, <2>5, <3>2 DEF Linked
      <4>. QED  BY <1>3, <1>4, <3>2, <4>1
    <3>3. CASE n \notin {old, new} /\ n = s.right[new]
      <4>1. u.parent[n] = old  BY <1>1, <1>4, <3>3
      <4>. QED  BY <1>4, <3>3, <4>1
    <3>4. CASE n \notin {old, new} /\ n # s.right[new]
      <4>1. u.parent[n] = s.parent[n] /\ s.parent[n] \in T
              /\ n \in {s.right[s.parent[n]], s.left[s.parent[n]]}
        BY <1>5, <2>5, <3>4 DEF Linked
      <4>2. CASE s.parent[n] = old  BY <1>4, <3>4, <4>1, <4>2
      <4>3. CASE s.parent[n] = new  BY <1>4, <3>4, <4>1, <4>3
      <4>4. CASE s.parent[n] \notin {old, new}  BY <1>3, <3>4, <4>1, <4>4
      <4>. QED  BY <4>2, <4>3, <4>4
    <3>. QED  BY <3>1, <3>2, <3>3, <3>4
  <2>. QED  BY Zenon, <2>1, <2>2, <2>3, <2>4, <2>5 DEF Linked
<1>7. \A n \in T \ {old, new} :
        /\ Null \in Kids(u, n) <=> Null \in Kids(s, n)
        /\ old \notin Kids(s, n) => Kids(u, n) = Kids(s, n)
  <2>. SUFFICES ASSUME NEW n \in T \ {old, new}
                PROVE  /\ Null \in Kids(u, n) <=> Null \in Kids(s, n)
                       /\ old \notin Kids(s, n) => Kids(u, n) = Kids(s, n)
    BY Zenon
  <2>1. old # Null /\ new # Null  BY <1>1
  <2>. QED  BY <1>3, <2>1 DEF Kids
<1>8. Kids(u, new) = {old, s.left[new]} /\ Kids(u, old) = {s.right[new], s.right[old]}
  BY <1>4 DEF Kids
<1>9. \A n \in Node \ T : u.right[n] = s.right[n] /\ u.left[n] = s.left[n] /\ u.parent[n] = s.parent[n]
  <2>. SUFFICES ASSUME NEW n \in Node, n \notin T
                PROVE  u.right[n] = s.right[n] /\ u.left[n] = s.left[n] /\ u.parent[n] = s.parent[n]
    BY Zenon
  <2>1. n # old /\ n # new /\ n # s.right[new]  BY <1>1, <1>2, KeysAreRight
  <2>2. n # s.parent[old]  BY <1>1, KeysAreRight DEF Linked
  <2>. QED  BY <2>1, <2>2 DEF RotatedRight
<1>10. u.colour = s.colour  BY DEF RotatedRight
<1>. QED  BY Zenon, <1>4, <1>5, <1>6, <1>7, <1>8, <1>9, <1>10 DEF Turned

\* Node d, which has at most the child c, is taken out.
Removed(s, u, T, d, c) ==
  /\ Linked(u, T \ {d})
  /\ u.root = (IF s.parent[d] = Null THEN c ELSE s.root)
  /\ \A n \in T \ {d} : u.colour[n] = s.colour[n] /\ (n # c => u.parent[n] = s.parent[n])
  /\ c # Null => u.parent[c] = s.parent[d]
  /\ \A n \in T \ {d} : Null \in Kids(u, n) => Null \in Kids(s, n) \/ (c = Null /\ n = s.parent[d])
  /\ \A n \in T \ {d} : /\ u.left[n] = s.left[n] \/ (s.left[n] = d /\ u.left[n] = c)
                        /\ u.right[n] = s.right[n] \/ (s.right[n] = d /\ u.right[n] = c)
  /\ u.left[d] = Null /\ u.right[d] = Null /\ u.parent[d] = Null
  /\ \A n \in Node \ T : u.left[n] = s.left[n] /\ u.right[n] = s.right[n] /\ u.parent[n] = s.parent[n]

LEMMA RemoveNodeIs ==
  ASSUME NEW s, NEW T, NEW d \in T, NEW c \in T \cup {Null}, Linked(s, T),
         c # d, s.parent[d] # d, Kids(s, d) = {c, Null}
  PROVE  Removed(s, R!RemoveNode(s, d, c), T, d, c)
<1>1. s \in Tree /\ T \subseteq Node /\ Null \notin T /\ d \in Node /\ c \in Node \cup {Null}
  BY KeysAreRight DEF Linked
<1>2. PICK a : a = R!ReplaceSubtree(s, d, c)  OBVIOUS
<1>3. Replaced(s, d, c, a)  BY Zenon, <1>1, <1>2, ReplaceIs
<1>4. PICK u : u = R!RemoveNode(s, d, c)  OBVIOUS
<1>5. u = [a EXCEPT !.left[d] = Null, !.right[d] = Null, !.parent[d] = Null, !.colour[d] = R!Red]
  BY Zenon, <1>2, <1>4 DEF R!RemoveNode
<1>6. /\ u \in Tree /\ u.root = a.root /\ u.left[d] = Null /\ u.right[d] = Null /\ u.parent[d] = Null
      /\ \A n \in Node \ {d} : /\ u.left[n] = a.left[n] /\ u.right[n] = a.right[n]
                               /\ u.parent[n] = a.parent[n] /\ u.colour[n] = a.colour[n]
  BY <1>1, <1>3, <1>5 DEF Tree, Replaced
<1> DEFINE above == s.parent[d]
<1>7. above \in (T \ {d}) \cup {Null} /\ (c # Null => s.parent[c] = d)
        /\ (above # Null => d \in Kids(s, above))
  <2>1. c # Null => s.parent[c] = d  BY DEF Linked, Kids
  <2>. QED  BY <2>1 DEF Linked, Kids
<1>8. ASSUME NEW n \in T \ {d}
      PROVE  /\ u.colour[n] = s.colour[n]
             /\ u.parent[n] = IF n = c THEN above ELSE s.parent[n]
             /\ n # above => u.left[n] = s.left[n] /\ u.right[n] = s.right[n]
             /\ n = above /\ s.left[n] = d => u.left[n] = c /\ u.right[n] = s.right[n] /\ s.right[n] # d
             /\ n = above /\ s.left[n] # d => u.left[n] = s.left[n] /\ u.right[n] = c /\ s.right[n] = d
  <2>1. n = above => d \in Kids(s, n) /\ (s.left[n] = d => s.right[n] # d)
    BY <1>1, <1>7 DEF Linked
  <2>2. n \in Node /\ n # d  BY <1>1
  <2>. QED  BY <1>1, <1>3, <1>6, <2>1, <2>2 DEF Replaced, Kids
<1>9. ASSUME NEW n \in T \ {d}
      PROVE  /\ n # above => s.left[n] # d /\ s.right[n] # d
             /\ c # Null => s.left[n] # c /\ s.right[n] # c
  BY <1>1, <1>7 DEF Linked
<1>10. Linked(u, T \ {d})
  <2>1. u \in Tree /\ T \ {d} \subseteq Node /\ u.root = (IF above = Null THEN c ELSE s.root)
    BY <1>1, <1>3, <1>6 DEF Replaced
  <2>2. u.root \in (T \ {d}) \cup {Null}  BY <1>1, <1>7, <2>1 DEF Linked
  <2>3. ASSUME NEW n \in T \ {d}
        PROVE  /\ u.left[n] \in (T \ {d}) \cup {Null} /\ u.right[n] \in (T \ {d}) \cup {Null}
               /\ u.left[n] # Null => u.parent[u.left[n]] = n /\ u.left[n] # u.right[n]
               /\ u.right[n] # Null => u.parent[u.right[n]] = n
    <3>1. CASE n # above  BY <1>1, <1>7, <1>8, <1>9, <3>1 DEF Linked
    <3>2. CASE n = above /\ s.left[n] = d  BY <1>1, <1>7, <1>8, <1>9, <3>2 DEF Linked
    <3>3. CASE n = above /\ s.left[n] # d  BY <1>1, <1>7, <1>8, <1>9, <3>3 DEF Linked
    <3>. QED  BY <3>1, <3>2, <3>3
  <2>4. ASSUME NEW n \in T \ {d}
        PROVE  u.parent[n] = Null <=> n = u.root
    <3>1. s.root = d <=> above = Null  BY <1>1 DEF Linked
    <3>2. CASE n = c  BY <1>1, <1>7, <1>8, <2>1, <3>1, <3>2 DEF Linked
    <3>3. CASE n # c  BY <1>1, <1>7, <1>8, <2>1, <3>1, <3>3 DEF Linked
    <3>. QED  BY <3>2, <3>3
  <2>5. ASSUME NEW n \in T \ {d}, u.parent[n] # Null
        PROVE  u.parent[n] \in T \ {d} /\ n \in {u.left[u.parent[n]], u.right[u.parent[n]]}
    <3>1. CASE n = c
      <4>1. u.parent[n] = above /\ above \in T \ {d}  BY <1>7, <1>8, <2>5, <3>1
      <4>. QED  BY <1>8, <3>1, <4>1
    <3>2. CASE n # c
      <4>1. u.parent[n] = s.parent[n] /\ s.parent[n] \in T
              /\ n \in {s.left[s.parent[n]], s.right[s.parent[n]]}
        BY <1>8, <2>5, <3>2 DEF Linked
      <4>2. s.parent[n] # d  BY <1>1, <3>2, <4>1 DEF Kids
      <4>. QED  BY <1>8, <3>2, <4>1, <4>2
    <3>. QED  BY <3>1, <3>2
  <2>. QED  BY Zenon, <2>1, <2>2, <2>3, <2>4, <2>5 DEF Linked
<1>11. \A n \in T \ {d} : Null \in Kids(u, n) => Null \in Kids(s, n) \/ (c = Null /\ n = above)
  BY <1>1, <1>8 DEF Kids
<1>12. \A n \in Node \ T : u.left[n] = s.left[n] /\ u.right[n] = s.right[n] /\ u.parent[n] = s.parent[n]
  <2>. SUFFICES ASSUME NEW n \in Node, n \notin T
                PROVE  u.left[n] = s.left[n] /\ u.right[n] = s.right[n] /\ u.parent[n] = s.parent[n]
    BY Zenon
  <2>1. n # d /\ n # c /\ n # above  BY <1>1, <1>7, KeysAreRight
  <2>. QED  BY <1>3, <1>6, <2>1 DEF Replaced
<1>13. u.root = (IF above = Null THEN c ELSE s.root)  BY <1>3, <1>6 DEF Replaced
<1>14. \A n \in T \ {d} : u.colour[n] = s.colour[n] /\ (n # c => u.parent[n] = s.parent[n])
  BY <1>8
<1>15. c # Null => u.parent[c] = above  BY <1>8
<1>17. \A n \in T \ {d} : /\ u.left[n] = s.left[n] \/ (s.left[n] = d /\ u.left[n] = c)
                          /\ u.right[n] = s.right[n] \/ (s.right[n] = d /\ u.right[n] = c)
  BY <1>8
<1>16. Removed(s, u, T, d, c)
  BY Zenon, <1>6, <1>17, <1>10, <1>11, <1>12, <1>13, <1>14, <1>15 DEF Removed
<1>. QED  BY Zenon, <1>4, <1>16

\* Node n becomes a leaf below p.
Added(s, u, T, n, p, left) ==
  /\ Linked(u, T \cup {n})
  /\ u.root = (IF p = Null THEN n ELSE s.root)
  /\ u.colour[n] = R!Red /\ u.parent[n] = p /\ Kids(u, n) = {Null}
  /\ \A m \in T : /\ u.colour[m] = s.colour[m] /\ u.parent[m] = s.parent[m]
                  /\ Null \in Kids(u, m) => Null \in Kids(s, m)
  /\ u.left[n] = Null /\ u.right[n] = Null
  /\ \A m \in T : /\ u.left[m] = IF m = p /\ left THEN n ELSE s.left[m]
                  /\ u.right[m] = IF m = p /\ ~left THEN n ELSE s.right[m]
  /\ \A m \in Node \ (T \cup {n}) :
       u.left[m] = s.left[m] /\ u.right[m] = s.right[m] /\ u.parent[m] = s.parent[m]

LeafUnder(s, n, p, left) ==
  LET leaf == [s EXCEPT !.left[n] = Null, !.right[n] = Null, !.parent[n] = p, !.colour[n] = R!Red]
  IN  IF p = Null THEN [leaf EXCEPT !.root = n]
      ELSE IF left THEN [leaf EXCEPT !.left[p] = n]
      ELSE [leaf EXCEPT !.right[p] = n]

LEMMA LeafIs ==
  ASSUME NEW s, NEW T, NEW n \in Node, n \notin T, NEW p \in T \cup {Null}, Linked(s, T),
      NEW left \in BOOLEAN,
         p = Null => s.root = Null,
         p # Null => IF left THEN s.left[p] = Null ELSE s.right[p] = Null
  PROVE  Added(s, LeafUnder(s, n, p, left), T, n, p, left)
<1>0. PICK leaf : leaf = [s EXCEPT !.left[n] = Null, !.right[n] = Null, !.parent[n] = p,
          !.colour[n] = R!Red]
  OBVIOUS
<1>u. PICK u : u = LeafUnder(s, n, p, left)  OBVIOUS
<1>1. s \in Tree /\ T \subseteq Node /\ Null \notin T /\ n # Null /\ p # n /\ p \in Node \cup {Null}
  BY KeysAreRight DEF Linked
<1>2. /\ leaf \in Tree /\ leaf.root = s.root /\ leaf.left[n] = Null /\ leaf.right[n] = Null
      /\ leaf.parent[n] = p /\ leaf.colour[n] = R!Red
      /\ \A m \in Node \ {n} : /\ leaf.left[m] = s.left[m] /\ leaf.right[m] = s.right[m]
                               /\ leaf.parent[m] = s.parent[m] /\ leaf.colour[m] = s.colour[m]
  BY <1>0, <1>1 DEF Tree
<1>3. /\ u \in Tree /\ u.parent = leaf.parent /\ u.colour = leaf.colour
      /\ u.root = (IF p = Null THEN n ELSE s.root)
      /\ \A m \in Node : u.left[m] = IF m = p /\ left THEN n ELSE leaf.left[m]
      /\ \A m \in Node : u.right[m] = IF m = p /\ ~left THEN n ELSE leaf.right[m]
  <2>1. CASE p = Null
    <3>1. u = [leaf EXCEPT !.root = n]  BY Zenon, <1>0, <1>u, <2>1 DEF LeafUnder
    <3>. QED  BY <1>1, <1>2, <2>1, <3>1, KeysAreRight DEF Tree
  <2>2. CASE p # Null /\ left
    <3>1. u = [leaf EXCEPT !.left[p] = n]  BY Zenon, <1>0, <1>u, <2>2 DEF LeafUnder
    <3>. QED  BY <1>1, <1>2, <2>2, <3>1 DEF Tree
  <2>3. CASE p # Null /\ ~left
    <3>1. u = [leaf EXCEPT !.right[p] = n]  BY Zenon, <1>0, <1>u, <2>3 DEF LeafUnder
    <3>. QED  BY <1>1, <1>2, <2>3, <3>1 DEF Tree
  <2>. QED  BY <2>1, <2>2, <2>3
<1>4. /\ u.left[n] = Null /\ u.right[n] = Null /\ u.parent[n] = p /\ u.colour[n] = R!Red
      /\ \A m \in T : u.colour[m] = s.colour[m] /\ u.parent[m] = s.parent[m]
      /\ \A m \in T : u.left[m] = IF m = p /\ left THEN n ELSE s.left[m]
      /\ \A m \in T : u.right[m] = IF m = p /\ ~left THEN n ELSE s.right[m]
  BY <1>1, <1>2, <1>3
<1>5. Linked(u, T \cup {n})
  <2>1. ASSUME NEW m \in T \cup {n}
        PROVE  /\ u.left[m] \in T \cup {n, Null} /\ u.right[m] \in T \cup {n, Null}
               /\ u.left[m] # Null => u.parent[u.left[m]] = m /\ u.left[m] # u.right[m]
               /\ u.right[m] # Null => u.parent[u.right[m]] = m
    <3>1. CASE m = n  BY <1>4, <3>1
    <3>2. CASE m \in T /\ m # p  BY <1>1, <1>4, <3>2 DEF Linked
    <3>3. CASE m \in T /\ m = p /\ left  BY <1>1, <1>4, <3>3 DEF Linked
    <3>4. CASE m \in T /\ m = p /\ ~left  BY <1>1, <1>4, <3>4 DEF Linked
    <3>. QED  BY <3>1, <3>2, <3>3, <3>4
  <2>2. ASSUME NEW m \in T \cup {n}
        PROVE  u.parent[m] = Null <=> m = u.root
    BY <1>1, <1>3, <1>4 DEF Linked
  <2>3. ASSUME NEW m \in T \cup {n}, u.parent[m] # Null
        PROVE  u.parent[m] \in T \cup {n} /\ m \in {u.left[u.parent[m]], u.right[u.parent[m]]}
    <3>1. CASE m = n  BY <1>4, <2>3, <3>1
    <3>2. CASE m \in T
      <4>1. u.parent[m] \in T /\ m \in {s.left[u.parent[m]], s.right[u.parent[m]]}
        BY <1>4, <2>3, <3>2 DEF Linked
      <4>2. m # Null  BY <1>1, <3>2
      <4>. QED  BY <1>1, <1>4, <4>1, <4>2
    <3>. QED  BY <3>1, <3>2
  <2>4. u \in Tree /\ T \cup {n} \subseteq Node /\ u.root \in (T \cup {n}) \cup {Null}
    BY <1>1, <1>3 DEF Linked
  <2>5. T \cup {n, Null} = (T \cup {n}) \cup {Null}  OBVIOUS
  <2>. QED  BY Zenon, <2>1, <2>2, <2>3, <2>4, <2>5 DEF Linked
<1>6. Kids(u, n) = {Null} /\ \A m \in T : Null \in Kids(u, m) => Null \in Kids(s, m)
  BY <1>1, <1>4 DEF Kids
<1>7. \A m \in Node \ (T \cup {n}) :
        u.left[m] = s.left[m] /\ u.right[m] = s.right[m] /\ u.parent[m] = s.parent[m]
  <2>1. \A m \in Node \ (T \cup {n}) : m # p /\ m \in Node \ {n}  BY KeysAreRight
  <2>. QED  BY <1>2, <1>3, <2>1
<1>8. Added(s, u, T, n, p, left)  BY Zenon, <1>3, <1>4, <1>5, <1>6, <1>7 DEF Added
<1>. QED  BY Zenon, <1>u, <1>8

-----------------------------------------------------------------------------
(* The red-black tree: functions that call themselves *)

\* The arguments at which a bounded number is least and greatest.
LEMMA ExtremesExist ==
  ASSUME NEW D, D # {}, NEW W \in Nat, NEW f \in [D -> 0 .. W]
  PROVE  /\ \E x \in D : \A y \in D : f[x] <= f[y]
         /\ \E x \in D : \A y \in D : f[y] <= f[x]
<1>1. \E x \in D : \A y \in D : f[x] <= f[y]
  <2> DEFINE V == {f[x] : x \in D}
  <2>1. V \subseteq Nat /\ V # {}  OBVIOUS
  <2>2. PICK v \in V : \A u \in V : v <= u
    <3> HIDE DEF V
    <3>. QED  BY Zenon, <2>1, LeastExists
  <2>. QED  BY <2>2
<1>2. \E x \in D : \A y \in D : f[y] <= f[x]
  <2> DEFINE V == {W - f[x] : x \in D}
  <2>1. V \subseteq Nat /\ V # {}  OBVIOUS
  <2>2. PICK v \in V : \A u \in V : v <= u
    <3> HIDE DEF V
    <3>. QED  BY Zenon, <2>1, LeastExists
  <2>3. PICK x \in D : v = W - f[x]  BY <2>2
  <2>4. ASSUME NEW y \in D
        PROVE  f[y] <= f[x]
    <3>1. W - f[y] \in V  OBVIOUS
    <3>. QED  BY <2>2, <2>3, <3>1
  <2>. QED  BY <2>4
<1>. QED  BY <1>1, <1>2

LEMMA LeastRank ==
  ASSUME NEW D, NEW W \in Nat, NEW rank \in [D -> 0 .. W], NEW Q, Q \subseteq D, Q # {}
  PROVE  \E n \in Q : \A m \in Q : rank[n] <= rank[m]
<1>1. PICK f : f = [n \in Q |-> rank[n]]  OBVIOUS
<1>2. f \in [Q -> 0 .. W] /\ \A n \in Q : f[n] = rank[n]  BY <1>1
<1>3. PICK n \in Q : \A m \in Q : f[n] <= f[m]  BY Zenon, <1>2, ExtremesExist
<1>. QED  BY Zenon, <1>2, <1>3

\* A function that calls itself only with arguments of a lower rank exists; G is its body.
CallsBelow(G, D, V, W, rank) ==
  /\ V # {} /\ W \in Nat /\ rank \in [D -> 0 .. W] /\ G \in [D \X [D -> V] -> V]
  /\ \A n \in D : \A f, g \in [D -> V] :
       (\A m \in D : rank[m] < rank[n] => f[m] = g[m]) => G[<<n, f>>] = G[<<n, g>>]

Calls(G, D, V, f) == f \in [D -> V] /\ \A n \in D : f[n] = G[<<n, f>>]

LEMMA RecursionExists ==
  ASSUME NEW D, NEW V, NEW W, NEW rank, NEW G, CallsBelow(G, D, V, W, rank)
  PROVE  \E f : Calls(G, D, V, f)
<1>0. V # {} /\ W \in Nat /\ rank \in [D -> 0 .. W] /\ G \in [D \X [D -> V] -> V]
  BY Zenon DEF CallsBelow
<1> DEFINE Good(i) == \E f \in [D -> V] : \A n \in D : rank[n] < i => f[n] = G[<<n, f>>]
           Bad == {i \in 0 .. W + 1 : ~Good(i)}
<1>1. Good(0)
  <2>1. PICK v \in V : TRUE  BY <1>0
  <2>2. [n \in D |-> v] \in [D -> V] /\ \A n \in D : ~(rank[n] < 0)  BY <1>0
  <2>. QED  BY <2>2
<1>2. ASSUME NEW i \in 0 .. W, Good(i)
      PROVE  Good(i + 1)
  <2>1. PICK f \in [D -> V] : \A n \in D : rank[n] < i => f[n] = G[<<n, f>>]  BY <1>2
  <2>2. PICK g : g = [n \in D |-> G[<<n, f>>]]  OBVIOUS
  <2>3. g \in [D -> V] /\ \A n \in D : g[n] = G[<<n, f>>]  BY Zenon, <1>0, <2>2
  <2>4. ASSUME NEW n \in D, rank[n] < i + 1
        PROVE  g[n] = G[<<n, g>>]
    <3>1. \A m \in D : rank[m] < rank[n] => rank[m] < i  BY <1>0, <2>4
    <3>2. \A m \in D : rank[m] < rank[n] => f[m] = g[m]  BY Zenon, <2>1, <2>3, <3>1
    <3>3. G[<<n, f>>] = G[<<n, g>>]  BY Zenon, <2>3, <3>2 DEF CallsBelow
    <3>. QED  BY Zenon, <2>3, <3>3
  <2>. QED  BY Zenon, <2>3, <2>4
<1>3. CASE Bad = {}
  <2>1. W + 1 \in 0 .. W + 1 /\ \A n \in D : rank[n] < W + 1  BY <1>0
  <2>2. Good(W + 1)
    <3> HIDE DEF Good
    <3>. QED  BY <1>3, <2>1
  <2>. QED  BY Zenon, <2>1, <2>2 DEF Calls
<1>4. CASE Bad # {}
  <2>1. Bad \subseteq Nat  OBVIOUS
  <2>2. PICK i \in Bad : \A j \in Bad : i <= j
    <3> HIDE DEF Bad
    <3>. QED  BY Zenon, <1>4, <2>1, LeastExists
  <2>3. i \in 0 .. W + 1 /\ ~Good(i)  BY Zenon, <2>2
  <2>4. i # 0  BY Zenon, <1>1, <2>3
  <2>5. i - 1 \in 0 .. W /\ (i - 1) + 1 = i /\ i - 1 \in 0 .. W + 1 /\ ~(i <= i - 1)
    <3> HIDE DEF Good
    <3>. QED  BY <1>0, <2>3, <2>4
  <2>6. Good(i - 1)  BY Zenon, <2>2, <2>5
  <2>7. Good((i - 1) + 1)
    <3> HIDE DEF Good
    <3>. QED  BY Zenon, <1>2, <2>5, <2>6
  <2>. QED  BY Zenon, <2>3, <2>5, <2>7
<1>. QED  BY <1>3, <1>4

-----------------------------------------------------------------------------
(* The red-black tree: loops that search *)

\* A function that does no more than go on from one argument to the next, until it comes to
\* one of E.
Loops(f, D, E, v, g) ==
  f = [n \in D |-> f[n]] /\ \A n \in D : f[n] = IF n \in E THEN v[n] ELSE f[g[n]]

\* It exists, whether it ends or not.
LEMMA LoopExists ==
  ASSUME NEW D, NEW E, NEW v, NEW g \in [D -> D]
  PROVE  \E f : Loops(f, D, E, v, g)
<1> DEFINE Closed(Q) == Q \in SUBSET D /\ \A n \in Q \ E : g[n] \in Q
           Ends(n) == {x \in D \cap E : \A Q : Closed(Q) /\ n \in Q => x \in Q}
           f == [n \in D |-> v[CHOOSE x : x \in Ends(n)]]
<1>1. ASSUME NEW n \in D \cap E
      PROVE  Ends(n) = {n}
  <2>1. Closed({n})  OBVIOUS
  <2>2. ASSUME NEW x \in Ends(n)
        PROVE  x = n
    <3>1. x \in {n}  BY Zenon, <2>1, <2>2
    <3>. QED  BY <3>1
  <2>3. n \in Ends(n)  OBVIOUS
  <2>. QED  BY Zenon, <2>2, <2>3
<1>2. ASSUME NEW n \in D \ E
      PROVE  Ends(n) = Ends(g[n])
  <2>1. ASSUME NEW x \in Ends(n)
        PROVE  x \in Ends(g[n])
    <3>1. SUFFICES ASSUME NEW Q, Closed(Q), g[n] \in Q
                   PROVE  x \in Q
      BY <2>1
    <3>2. Closed(Q \cup {n})  BY <3>1
    <3>3. n \in Q \cup {n}  OBVIOUS
    <3>4. x \in Q \cup {n}  BY Zenon, <2>1, <3>2, <3>3
    <3>. QED  BY <2>1, <3>4
  <2>2. ASSUME NEW x \in Ends(g[n])
        PROVE  x \in Ends(n)
    <3>1. \A Q : Closed(Q) /\ n \in Q => g[n] \in Q  OBVIOUS
    <3>2. \A Q : Closed(Q) /\ g[n] \in Q => x \in Q  BY Zenon, <2>2
    <3>3. x \in D \cap E  BY Zenon, <2>2
    <3> HIDE DEF Closed
    <3>. QED  BY Zenon, <3>1, <3>2, <3>3
  <2> HIDE DEF Ends
  <2>. QED  BY <2>1, <2>2
<1>3. ASSUME NEW n \in D
      PROVE  f[n] = IF n \in E THEN v[n] ELSE f[g[n]]
  <2>1. CASE n \in E
    <3>1. f[n] = v[CHOOSE x : x \in Ends(n)]  BY <1>3
    <3>2. (CHOOSE x : x \in {n}) = n  OBVIOUS
    <3>3. Ends(n) = {n}  BY <1>1, <2>1
    <3> HIDE DEF Ends
    <3>. QED  BY <2>1, <3>1, <3>2, <3>3
  <2>2. CASE n \notin E
    <3>1. f[n] = v[CHOOSE x : x \in Ends(n)] /\ f[g[n]] = v[CHOOSE x : x \in Ends(g[n])]
      BY <1>3
    <3>2. Ends(n) = Ends(g[n])  BY <1>2, <2>2
    <3> HIDE DEF Ends
    <3>. QED  BY <2>2, <3>1, <3>2
  <2>. QED  BY <2>1, <2>2
<1>4. f = [n \in D |-> f[n]]  OBVIOUS
<1> HIDE DEF f
<1>. QED  BY Zenon, <1>3, <1>4 DEF Loops

-----------------------------------------------------------------------------
(* The red-black tree: the order of the nodes *)

\* A node's position lies between those that its subtree may have.
Ordered(s, T, top, pos, lo, hi) ==
  /\ top \in Nat /\ pos \in [Node -> 0 .. top] /\ lo \in [Node -> 0 .. top] /\ hi \in [Node -> 0 .. top]
  /\ \A n \in T :
       /\ lo[n] < pos[n] /\ pos[n] < hi[n]
       /\ s.left[n] # Null => lo[n] <= lo[s.left[n]] /\ hi[s.left[n]] <= pos[n]
       /\ s.right[n] # Null => pos[n] <= lo[s.right[n]] /\ hi[s.right[n]] <= hi[n]

\* Node b is in the subtree of a child of n.
Inside(s, T, lo, hi, b, n) ==
  \E c \in T : c \in Kids(s, n) /\ lo[c] <= lo[b] /\ hi[b] <= hi[c]

LEMMA InsideSubtree ==
  ASSUME NEW s, NEW T, NEW top, NEW pos, NEW lo, NEW hi, Linked(s, T), Ordered(s, T, top, pos, lo, hi),
         NEW a \in T, NEW b \in T, NEW n \in T, Inside(s, T, lo, hi, b, n),
         lo[b] <= lo[a], hi[a] <= hi[b]
  PROVE  Inside(s, T, lo, hi, a, n)
<1>1. /\ T \subseteq Node /\ \A m \in T : lo[m] \in Int /\ hi[m] \in Int
  BY DEF Linked, Ordered
<1>. QED  BY <1>1 DEF Inside

LEMMA KidIsInside ==
  ASSUME NEW s, NEW T, NEW top, NEW pos, NEW lo, NEW hi, Linked(s, T), Ordered(s, T, top, pos, lo, hi),
         NEW b \in T, s.parent[b] # Null
  PROVE  /\ s.parent[b] \in T /\ Inside(s, T, lo, hi, b, s.parent[b])
         /\ lo[s.parent[b]] <= lo[b] /\ hi[b] <= hi[s.parent[b]]
         /\ hi[b] - lo[b] < hi[s.parent[b]] - lo[s.parent[b]]
<1>1. s.parent[b] \in T /\ b \in Kids(s, s.parent[b]) /\ b # Null
  BY KeysAreRight DEF Linked, Kids
<1>2. /\ T \subseteq Node /\ \A m \in T : lo[m] \in Int /\ hi[m] \in Int /\ pos[m] \in Int
  BY DEF Linked, Ordered
<1>. QED  BY <1>1, <1>2 DEF Ordered, Kids, Inside

LEMMA AllInsideRoot ==
  ASSUME NEW s, NEW T, NEW top, NEW pos, NEW lo, NEW hi, Linked(s, T), Ordered(s, T, top, pos, lo, hi),
         NEW b \in T, b # s.root
  PROVE  s.root \in T /\ Inside(s, T, lo, hi, b, s.root)
<1> DEFINE Bad == {n \in T : n # s.root /\ ~(s.root \in T /\ Inside(s, T, lo, hi, n, s.root))}
<1>1. T \subseteq Node /\ (\A m \in T : lo[m] \in 0 .. top /\ hi[m] \in 0 .. top /\ lo[m] < hi[m])
        /\ top \in Nat
  BY DEF Linked, Ordered
<1>2. SUFFICES ASSUME Bad # {} PROVE FALSE  OBVIOUS
<1>3. PICK f : f = [n \in Bad |-> hi[n] - lo[n]]  OBVIOUS
<1>4. f \in [Bad -> 0 .. top]  BY <1>1, <1>3
<1>5. PICK n \in Bad : \A m \in Bad : f[m] <= f[n]
  <2> HIDE DEF Bad
  <2>. QED  BY Zenon, <1>1, <1>2, <1>4, ExtremesExist
<1>6. n \in T /\ n # s.root /\ ~(s.root \in T /\ Inside(s, T, lo, hi, n, s.root))
  BY <1>5
<1>7. s.parent[n] # Null  BY <1>6 DEF Linked
<1>8. PICK p : p = s.parent[n]  OBVIOUS
<1>9. /\ p \in T /\ Inside(s, T, lo, hi, n, p)
      /\ lo[p] <= lo[n] /\ hi[n] <= hi[p] /\ hi[n] - lo[n] < hi[p] - lo[p]
  BY Zenon, <1>6, <1>7, <1>8, KidIsInside
<1>10. p \notin Bad
  <2>1. p \in Bad => f[p] = hi[p] - lo[p] /\ f[n] = hi[n] - lo[n]  BY Zenon, <1>3, <1>5
  <2>2. p \in Bad => f[p] <= f[n]  BY Zenon, <1>5
  <2> HIDE DEF Bad
  <2>. QED  BY <1>1, <1>6, <1>9, <2>1, <2>2
<1>11. p # s.root  BY <1>6, <1>9
<1>12. s.root \in T /\ Inside(s, T, lo, hi, p, s.root)  BY <1>9, <1>10, <1>11
<1>13. Inside(s, T, lo, hi, n, s.root)  BY Zenon, <1>6, <1>9, <1>12, InsideSubtree
<1>. QED  BY <1>6, <1>12, <1>13

\* Two subtrees have no positions in common, or one is part of the other.
Related(s, T, lo, hi, a, b) ==
  \/ a = b \/ Inside(s, T, lo, hi, a, b) \/ Inside(s, T, lo, hi, b, a)
  \/ hi[a] <= lo[b] \/ hi[b] <= lo[a]

\* If the parent of b is related to n, then b is, or n is within b.
LEMMA RelatedBelow ==
  ASSUME NEW s, NEW T, NEW top, NEW pos, NEW lo, NEW hi, Linked(s, T), Ordered(s, T, top, pos, lo, hi),
         NEW n \in T, NEW b \in T, s.parent[b] # Null, Related(s, T, lo, hi, n, s.parent[b])
  PROVE  Related(s, T, lo, hi, n, b) \/ (lo[b] <= lo[n] /\ hi[n] <= hi[b])
<1>1. PICK q : q = s.parent[b]  OBVIOUS
<1>2. /\ q \in T /\ Inside(s, T, lo, hi, b, q) /\ lo[q] <= lo[b] /\ hi[b] <= hi[q]
  BY Zenon, <1>1, KidIsInside
<1>3. \A m \in T : lo[m] \in Int /\ hi[m] \in Int /\ pos[m] \in Int
  BY DEF Linked, Ordered
<1>4. CASE n = q  BY Zenon, <1>2, <1>4 DEF Related
<1>5. CASE Inside(s, T, lo, hi, q, n)
  <2>1. Inside(s, T, lo, hi, b, n)  BY Zenon, <1>2, <1>5, InsideSubtree
  <2>. QED  BY Zenon, <2>1 DEF Related
<1>6. CASE hi[n] <= lo[q] \/ hi[q] <= lo[n]
  <2>1. hi[n] <= lo[b] \/ hi[b] <= lo[n]  BY <1>2, <1>3, <1>6
  <2>. QED  BY Zenon, <2>1 DEF Related
<1>7. CASE Inside(s, T, lo, hi, n, q)
  <2>1. PICK c \in T : c \in Kids(s, q) /\ lo[c] <= lo[n] /\ hi[n] <= hi[c]
    BY Zenon, <1>7 DEF Inside
  <2>2. CASE c = b  BY <2>1, <2>2
  <2>3. CASE c # b
    <3>1. b \in Kids(s, q) /\ b # Null /\ c # Null
      BY <1>1, KeysAreRight DEF Linked, Kids
    <3>2. hi[c] <= lo[b] \/ hi[b] <= lo[c]
      BY <1>2, <1>3, <2>1, <2>3, <3>1 DEF Ordered, Kids
    <3>3. hi[n] <= lo[b] \/ hi[b] <= lo[n]  BY <1>3, <2>1, <3>2
    <3>. QED  BY Zenon, <3>3 DEF Related
  <2>. QED  BY <2>2, <2>3
<1>. QED  BY Zenon, <1>1, <1>4, <1>5, <1>6, <1>7 DEF Related

LEMMA AllRelated ==
  ASSUME NEW s, NEW T, NEW top, NEW pos, NEW lo, NEW hi, Linked(s, T), Ordered(s, T, top, pos, lo, hi),
         NEW a \in T, NEW b \in T
  PROVE  Related(s, T, lo, hi, a, b)
<1> DEFINE Bad == {p \in T \X T : ~Related(s, T, lo, hi, p[1], p[2])}
<1>1. T \subseteq Node /\ (\A m \in T : lo[m] \in 0 .. top /\ hi[m] \in 0 .. top /\ lo[m] < hi[m])
        /\ top \in Nat
  BY DEF Linked, Ordered
<1>2. SUFFICES ASSUME Bad # {} PROVE FALSE
  <2>1. ~Related(s, T, lo, hi, a, b) => <<a, b>> \in Bad  OBVIOUS
  <2>. QED  BY Zenon, <2>1
<1>3. PICK f : f = [p \in Bad |-> (hi[p[1]] - lo[p[1]]) + (hi[p[2]] - lo[p[2]])]
  OBVIOUS
<1>4. f \in [Bad -> 0 .. 2 * top]  BY <1>1, <1>3
<1>5. PICK p \in Bad : \A o \in Bad : f[o] <= f[p]
  <2>1. 2 * top \in Nat  BY <1>1
  <2> HIDE DEF Bad
  <2>. QED  BY Zenon, <2>1, <1>2, <1>4, ExtremesExist
<1>6. PICK n \in T, m \in T : p = <<n, m>> /\ ~Related(s, T, lo, hi, n, m)  BY <1>5
<1>7. ASSUME NEW x \in T, NEW y \in T,
          (hi[n] - lo[n]) + (hi[m] - lo[m]) < (hi[x] - lo[x]) + (hi[y] - lo[y])
      PROVE  Related(s, T, lo, hi, x, y)
  <2>1. <<x, y>> \in Bad => f[<<x, y>>] = (hi[x] - lo[x]) + (hi[y] - lo[y])  BY <1>3
  <2>2. f[<<n, m>>] = (hi[n] - lo[n]) + (hi[m] - lo[m])  BY <1>3, <1>5, <1>6
  <2>3. <<x, y>> \in Bad => f[<<x, y>>] <= f[<<n, m>>]  BY Zenon, <1>5, <1>6
  <2>4. <<x, y>> \notin Bad
    <3> HIDE DEF Bad
    <3>. QED  BY <1>1, <1>7, <2>1, <2>2, <2>3
  <2>. QED  BY <2>4
<1>8. n # m /\ ~Inside(s, T, lo, hi, n, m) /\ ~Inside(s, T, lo, hi, m, n) /\ ~(hi[n] <= lo[m])
        /\ ~(hi[m] <= lo[n])
  BY Zenon, <1>6 DEF Related
<1>9. n # s.root /\ m # s.root  BY Zenon, <1>8, AllInsideRoot
<1>10. PICK r, q : r = s.parent[n] /\ q = s.parent[m]  OBVIOUS
<1>11. r # Null /\ q # Null  BY <1>9, <1>10 DEF Linked
<1>12. /\ r \in T /\ lo[r] <= lo[n] /\ hi[n] <= hi[r] /\ hi[n] - lo[n] < hi[r] - lo[r]
  BY Zenon, <1>10, <1>11, KidIsInside
<1>13. /\ q \in T /\ lo[q] <= lo[m] /\ hi[m] <= hi[q] /\ hi[m] - lo[m] < hi[q] - lo[q]
  BY Zenon, <1>10, <1>11, KidIsInside
<1>14. Related(s, T, lo, hi, n, q)  BY <1>1, <1>7, <1>12, <1>13
<1>15. Related(s, T, lo, hi, m, r)
  <2>1. Related(s, T, lo, hi, r, m)  BY <1>1, <1>7, <1>12, <1>13
  <2>. QED  BY Zenon, <2>1 DEF Related
<1>16. lo[m] <= lo[n] /\ hi[n] <= hi[m]
  BY Zenon, <1>6, <1>10, <1>11, <1>14, RelatedBelow
<1>17. lo[n] <= lo[m] /\ hi[m] <= hi[n]
  <2>1. ~Related(s, T, lo, hi, m, n)  BY Zenon, <1>6 DEF Related
  <2>. QED  BY Zenon, <2>1, <1>10, <1>11, <1>15, RelatedBelow
<1>18. lo[n] = lo[m] /\ hi[n] = hi[m]  BY <1>1, <1>16, <1>17
<1>19. Related(s, T, lo, hi, r, q)  BY <1>1, <1>7, <1>12, <1>13
<1>20. n \in Kids(s, r) /\ m \in Kids(s, q) /\ n # Null /\ m # Null
  BY <1>10, <1>11, KeysAreRight DEF Linked, Kids
<1>21. \A x \in T : pos[x] \in Int /\ lo[x] < pos[x] /\ pos[x] < hi[x]
  BY DEF Linked, Ordered
<1>22. ASSUME NEW x \in T, NEW k \in T, NEW y \in T, k \in Kids(s, x), Inside(s, T, lo, hi, y, x),
           lo[y] <= lo[k], hi[k] <= hi[y]
       PROVE  hi[y] - lo[y] <= hi[k] - lo[k]
  <2>1. PICK c \in T : c \in Kids(s, x) /\ lo[c] <= lo[y] /\ hi[y] <= hi[c]
    BY Zenon, <1>22 DEF Inside
  <2>2. k # Null /\ c # Null  BY KeysAreRight, <1>1
  <2>3. CASE c = k  BY <1>1, <1>22, <2>1, <2>3
  <2>4. CASE c # k
    <3>1. hi[c] <= lo[k] \/ hi[k] <= lo[c]
      BY <1>1, <1>21, <1>22, <2>1, <2>2, <2>4 DEF Ordered, Kids
    <3>. QED  BY <1>1, <1>21, <1>22, <2>1, <3>1
  <2>. QED  BY <2>3, <2>4
<1>23. CASE r = q  BY <1>1, <1>8, <1>12, <1>18, <1>20, <1>21, <1>23 DEF Ordered, Kids
<1>24. CASE Inside(s, T, lo, hi, r, q)
  <2>1. hi[r] - lo[r] <= hi[m] - lo[m]  BY <1>12, <1>13, <1>18, <1>20, <1>22, <1>24
  <2>. QED  BY <1>1, <1>12, <1>18, <2>1
<1>25. CASE Inside(s, T, lo, hi, q, r)
  <2>1. hi[q] - lo[q] <= hi[n] - lo[n]  BY <1>12, <1>13, <1>18, <1>20, <1>22, <1>25
  <2>. QED  BY <1>1, <1>13, <1>18, <2>1
<1>26. CASE hi[r] <= lo[q] \/ hi[q] <= lo[r]  BY <1>1, <1>12, <1>13, <1>18, <1>21, <1>26
<1>. QED  BY Zenon, <1>19, <1>23, <1>24, <1>25, <1>26 DEF Related

\* A node between the bounds of m is m or on the side of m where its position is.
Between(s, T, pos, lo, hi, b, m) ==
  \/ b = m
  \/ /\ pos[b] < pos[m] /\ s.left[m] \in T /\ lo[s.left[m]] < pos[b] /\ pos[b] < hi[s.left[m]]
  \/ /\ pos[m] < pos[b] /\ s.right[m] \in T /\ lo[s.right[m]] < pos[b] /\ pos[b] < hi[s.right[m]]

LEMMA BetweenBounds ==
  ASSUME NEW s, NEW T, NEW top, NEW pos, NEW lo, NEW hi, Linked(s, T), Ordered(s, T, top, pos, lo, hi),
         NEW b \in T, NEW m \in T, lo[m] < pos[b], pos[b] < hi[m]
  PROVE  Between(s, T, pos, lo, hi, b, m)
<1>1. /\ T \subseteq Node /\ Null \notin T
      /\ \A x \in T : /\ lo[x] \in Int /\ hi[x] \in Int /\ pos[x] \in Int
                       /\ lo[x] < pos[x] /\ pos[x] < hi[x]
  BY KeysAreRight DEF Linked, Ordered
<1>2. Related(s, T, lo, hi, b, m)  BY Zenon, AllRelated
<1>3. CASE Inside(s, T, lo, hi, b, m)
  <2>1. PICK c \in T : c \in Kids(s, m) /\ lo[c] <= lo[b] /\ hi[b] <= hi[c]
    BY Zenon, <1>3 DEF Inside
  <2>. QED  BY <1>1, <2>1 DEF Between, Kids, Ordered
<1>4. CASE Inside(s, T, lo, hi, m, b)
  <2>1. PICK c \in T : c \in Kids(s, b) /\ lo[c] <= lo[m] /\ hi[m] <= hi[c]
    BY Zenon, <1>4 DEF Inside
  <2>. QED  BY <1>1, <2>1 DEF Kids, Ordered
<1>5. CASE hi[b] <= lo[m] \/ hi[m] <= lo[b]  BY <1>1, <1>5
<1>. QED  BY Zenon, <1>2, <1>3, <1>4, <1>5 DEF Related, Between

\* The nodes of a tree can be put in an order.
InOrderBy(s, T, top, pos) == \E lo, hi \in [Node -> 0 .. top] : Ordered(s, T, top, pos, lo, hi)

LEMMA OrderTurnedLeft ==
  ASSUME NEW s, NEW T, NEW top, NEW pos, NEW old \in T, NEW new \in T, NEW u, Linked(s, T),
         InOrderBy(s, T, top, pos), new = s.right[old], new # old, s.parent[old] \notin {old, new},
         RotatedLeft(s, old, new, u)
  PROVE  InOrderBy(u, T, top, pos)
<1>1. PICK lo, hi \in [Node -> 0 .. top] : Ordered(s, T, top, pos, lo, hi)
  BY Zenon DEF InOrderBy
<1>2. PICK lo2, hi2 : lo2 = [lo EXCEPT ![new] = lo[old]]
          /\ hi2 = [hi EXCEPT ![new] = hi[old], ![old] = pos[new]]
  OBVIOUS
<1>3. /\ s \in Tree /\ T \subseteq Node /\ Null \notin T
      /\ top \in Nat /\ pos \in [Node -> 0 .. top]
  BY <1>1, KeysAreRight DEF Linked, Ordered
<1>4. /\ lo2 \in [Node -> 0 .. top] /\ hi2 \in [Node -> 0 .. top]
      /\ lo2[new] = lo[old] /\ hi2[new] = hi[old] /\ lo2[old] = lo[old] /\ hi2[old] = pos[new]
      /\ \A n \in T \ {old, new} : lo2[n] = lo[n] /\ hi2[n] = hi[n]
  BY <1>1, <1>2, <1>3
<1>5. \A n \in T : lo[n] \in Int /\ hi[n] \in Int /\ pos[n] \in Int  BY <1>1, <1>3
<1>6. ASSUME NEW n \in T
      PROVE  /\ lo2[n] < pos[n] /\ pos[n] < hi2[n]
             /\ u.left[n] # Null => lo2[n] <= lo2[u.left[n]] /\ hi2[u.left[n]] <= pos[n]
             /\ u.right[n] # Null => pos[n] <= lo2[u.right[n]] /\ hi2[u.right[n]] <= hi2[n]
  <2>1. /\ lo[old] < pos[old] /\ pos[old] <= lo[new] /\ lo[new] < pos[new] /\ pos[new] < hi[new]
             /\ hi[new] <= hi[old]
    BY <1>1, <1>3 DEF Ordered
  <2>2. /\ s.left[new] \notin {old, new} /\ s.right[new] \notin {old, new}
             /\ s.left[old] \notin {old, new}
        /\ s.left[new] \in T \cup {Null} /\ s.right[new] \in T \cup {Null}
             /\ s.left[old] \in T \cup {Null}
    BY <1>3 DEF Linked
  <2>3. CASE n = old
    <3>1. u.left[n] = s.left[old] /\ u.right[n] = s.left[new]
      BY <1>3, <2>2, <2>3 DEF RotatedLeft
    <3>2. s.left[old] # Null => lo[old] <= lo[s.left[old]] /\ hi[s.left[old]] <= pos[old]
      BY <1>1 DEF Ordered
    <3>3. s.left[new] # Null => lo[new] <= lo[s.left[new]] /\ hi[s.left[new]] <= pos[new]
      BY <1>1 DEF Ordered
    <3>. QED  BY <1>4, <1>5, <2>1, <2>2, <2>3, <3>1, <3>2, <3>3
  <2>4. CASE n = new
    <3>1. u.left[n] = old /\ u.right[n] = s.right[new]
      BY <1>3, <2>2, <2>4 DEF RotatedLeft
    <3>2. s.right[new] # Null => pos[new] <= lo[s.right[new]] /\ hi[s.right[new]] <= hi[new]
      BY <1>1 DEF Ordered
    <3>. QED  BY <1>4, <1>5, <2>1, <2>2, <2>4, <3>1, <3>2
  <2>5. CASE n \notin {old, new}
    <3>1. /\ s.left[n] # new /\ s.right[n] # new /\ s.left[n] \in T \cup {Null}
               /\ s.right[n] \in T \cup {Null}
          /\ (s.left[n] = old => n = s.parent[old])
               /\ (s.right[n] = old => n = s.parent[old] /\ s.left[n] # old)
      BY <1>3, <2>5 DEF Linked
    <3>2. /\ lo[n] < pos[n] /\ pos[n] < hi[n]
          /\ s.left[n] # Null => lo[n] <= lo[s.left[n]] /\ hi[s.left[n]] <= pos[n]
          /\ s.right[n] # Null => pos[n] <= lo[s.right[n]] /\ hi[s.right[n]] <= hi[n]
      BY <1>1 DEF Ordered
    <3>3. n = s.parent[old] => s.left[n] = old \/ s.right[n] = old
      BY <1>3, <2>5 DEF Linked
    <3>4. /\ u.left[n] = s.left[n] \/ (s.left[n] = old /\ u.left[n] = new)
          /\ u.right[n] = s.right[n] \/ (s.right[n] = old /\ u.right[n] = new)
          /\ u.left[n] # old /\ u.right[n] # old
      BY <1>3, <2>5, <3>1, <3>3 DEF RotatedLeft
    <3>5. lo2[n] = lo[n] /\ hi2[n] = hi[n]  BY Zenon, <1>4, <2>5
    <3>6. u.left[n] # Null => lo2[n] <= lo2[u.left[n]] /\ hi2[u.left[n]] <= pos[n]
      <4>1. old # Null  BY <1>3
      <4>2. CASE u.left[n] = new /\ s.left[n] = old
        BY <1>4, <1>5, <2>1, <3>2, <3>5, <4>1, <4>2
      <4>3. CASE u.left[n] = s.left[n] /\ u.left[n] # Null
        <5>1. lo2[u.left[n]] = lo[s.left[n]] /\ hi2[u.left[n]] = hi[s.left[n]]
          BY <1>4, <3>1, <3>4, <4>3
        <5>. QED  BY <3>2, <3>5, <4>3, <5>1
      <4>. QED  BY <3>4, <4>2, <4>3
    <3>7. u.right[n] # Null => pos[n] <= lo2[u.right[n]] /\ hi2[u.right[n]] <= hi2[n]
      <4>1. old # Null  BY <1>3
      <4>2. CASE u.right[n] = new /\ s.right[n] = old
        BY <1>4, <1>5, <2>1, <3>2, <3>5, <4>1, <4>2
      <4>3. CASE u.right[n] = s.right[n] /\ u.right[n] # Null
        <5>1. lo2[u.right[n]] = lo[s.right[n]] /\ hi2[u.right[n]] = hi[s.right[n]]
          BY <1>4, <3>1, <3>4, <4>3
        <5>. QED  BY <3>2, <3>5, <4>3, <5>1
      <4>. QED  BY <3>4, <4>2, <4>3
    <3>. QED  BY <3>2, <3>5, <3>6, <3>7
  <2>. QED  BY <2>3, <2>4, <2>5
<1>7. Ordered(u, T, top, pos, lo2, hi2)  BY Zenon, <1>3, <1>4, <1>6 DEF Ordered
<1>. QED  BY Zenon, <1>4, <1>7 DEF InOrderBy

LEMMA OrderTurnedRight ==
  ASSUME NEW s, NEW T, NEW top, NEW pos, NEW old \in T, NEW new \in T, NEW u, Linked(s, T),
         InOrderBy(s, T, top, pos), new = s.left[old], new # old, s.parent[old] \notin {old, new},
         RotatedRight(s, old, new, u)
  PROVE  InOrderBy(u, T, top, pos)
<1>1. PICK lo, hi \in [Node -> 0 .. top] : Ordered(s, T, top, pos, lo, hi)
  BY Zenon DEF InOrderBy
<1>2. PICK lo2, hi2 : lo2 = [lo EXCEPT ![new] = lo[old], ![old] = pos[new]]
          /\ hi2 = [hi EXCEPT ![new] = hi[old]]
  OBVIOUS
<1>3. /\ s \in Tree /\ T \subseteq Node /\ Null \notin T
      /\ top \in Nat /\ pos \in [Node -> 0 .. top]
  BY <1>1, KeysAreRight DEF Linked, Ordered
<1>4. /\ lo2 \in [Node -> 0 .. top] /\ hi2 \in [Node -> 0 .. top]
      /\ lo2[new] = lo[old] /\ hi2[new] = hi[old] /\ lo2[old] = pos[new] /\ hi2[old] = hi[old]
      /\ \A n \in T \ {old, new} : lo2[n] = lo[n] /\ hi2[n] = hi[n]
  BY <1>1, <1>2, <1>3
<1>5. \A n \in T : lo[n] \in Int /\ hi[n] \in Int /\ pos[n] \in Int  BY <1>1, <1>3
<1>6. ASSUME NEW n \in T
      PROVE  /\ lo2[n] < pos[n] /\ pos[n] < hi2[n]
             /\ u.left[n] # Null => lo2[n] <= lo2[u.left[n]] /\ hi2[u.left[n]] <= pos[n]
             /\ u.right[n] # Null => pos[n] <= lo2[u.right[n]] /\ hi2[u.right[n]] <= hi2[n]
  <2>1. /\ lo[old] <= lo[new] /\ lo[new] < pos[new] /\ pos[new] < hi[new] /\ hi[new] <= pos[old]
             /\ pos[old] < hi[old]
    BY <1>1, <1>3 DEF Ordered
  <2>2. /\ s.left[new] \notin {old, new} /\ s.right[new] \notin {old, new}
             /\ s.right[old] \notin {old, new}
        /\ s.left[new] \in T \cup {Null} /\ s.right[new] \in T \cup {Null}
             /\ s.right[old] \in T \cup {Null}
    BY <1>3 DEF Linked
  <2>3. CASE n = old
    <3>1. u.right[n] = s.right[old] /\ u.left[n] = s.right[new]
      BY <1>3, <2>2, <2>3 DEF RotatedRight
    <3>2. s.right[old] # Null => pos[old] <= lo[s.right[old]] /\ hi[s.right[old]] <= hi[old]
      BY <1>1 DEF Ordered
    <3>3. s.right[new] # Null => pos[new] <= lo[s.right[new]] /\ hi[s.right[new]] <= hi[new]
      BY <1>1 DEF Ordered
    <3>. QED  BY <1>4, <1>5, <2>1, <2>2, <2>3, <3>1, <3>2, <3>3
  <2>4. CASE n = new
    <3>1. u.right[n] = old /\ u.left[n] = s.left[new]
      BY <1>3, <2>2, <2>4 DEF RotatedRight
    <3>2. s.left[new] # Null => lo[new] <= lo[s.left[new]] /\ hi[s.left[new]] <= pos[new]
      BY <1>1 DEF Ordered
    <3>. QED  BY <1>4, <1>5, <2>1, <2>2, <2>4, <3>1, <3>2
  <2>5. CASE n \notin {old, new}
    <3>1. /\ s.left[n] # new /\ s.right[n] # new /\ s.left[n] \in T \cup {Null}
               /\ s.right[n] \in T \cup {Null}
          /\ (s.left[n] = old => n = s.parent[old])
               /\ (s.right[n] = old => n = s.parent[old] /\ s.left[n] # old)
      BY <1>3, <2>5 DEF Linked
    <3>2. /\ lo[n] < pos[n] /\ pos[n] < hi[n]
          /\ s.left[n] # Null => lo[n] <= lo[s.left[n]] /\ hi[s.left[n]] <= pos[n]
          /\ s.right[n] # Null => pos[n] <= lo[s.right[n]] /\ hi[s.right[n]] <= hi[n]
      BY <1>1 DEF Ordered
    <3>3. n = s.parent[old] => s.left[n] = old \/ s.right[n] = old
      BY <1>3, <2>5 DEF Linked
    <3>4. /\ u.left[n] = s.left[n] \/ (s.left[n] = old /\ u.left[n] = new)
          /\ u.right[n] = s.right[n] \/ (s.right[n] = old /\ u.right[n] = new)
          /\ u.left[n] # old /\ u.right[n] # old
      BY <1>3, <2>5, <3>1, <3>3 DEF RotatedRight
    <3>5. lo2[n] = lo[n] /\ hi2[n] = hi[n]  BY Zenon, <1>4, <2>5
    <3>6. u.left[n] # Null => lo2[n] <= lo2[u.left[n]] /\ hi2[u.left[n]] <= pos[n]
      <4>1. old # Null  BY <1>3
      <4>2. CASE u.left[n] = new /\ s.left[n] = old
        BY <1>4, <1>5, <2>1, <3>2, <3>5, <4>1, <4>2
      <4>3. CASE u.left[n] = s.left[n] /\ u.left[n] # Null
        <5>1. lo2[u.left[n]] = lo[s.left[n]] /\ hi2[u.left[n]] = hi[s.left[n]]
          BY <1>4, <3>1, <3>4, <4>3
        <5>. QED  BY <3>2, <3>5, <4>3, <5>1
      <4>. QED  BY <3>4, <4>2, <4>3
    <3>7. u.right[n] # Null => pos[n] <= lo2[u.right[n]] /\ hi2[u.right[n]] <= hi2[n]
      <4>1. old # Null  BY <1>3
      <4>2. CASE u.right[n] = new /\ s.right[n] = old
        BY <1>4, <1>5, <2>1, <3>2, <3>5, <4>1, <4>2
      <4>3. CASE u.right[n] = s.right[n] /\ u.right[n] # Null
        <5>1. lo2[u.right[n]] = lo[s.right[n]] /\ hi2[u.right[n]] = hi[s.right[n]]
          BY <1>4, <3>1, <3>4, <4>3
        <5>. QED  BY <3>2, <3>5, <4>3, <5>1
      <4>. QED  BY <3>4, <4>2, <4>3
    <3>. QED  BY <3>2, <3>5, <3>6, <3>7
  <2>. QED  BY <2>3, <2>4, <2>5
<1>7. Ordered(u, T, top, pos, lo2, hi2)  BY Zenon, <1>3, <1>4, <1>6 DEF Ordered
<1>. QED  BY Zenon, <1>4, <1>7 DEF InOrderBy

LEMMA OrderRemoved ==
  ASSUME NEW s, NEW T, NEW top, NEW pos, NEW d \in T, NEW c \in T \cup {Null}, NEW u, Linked(s, T),
         InOrderBy(s, T, top, pos), c # d, Kids(s, d) = {c, Null}, Removed(s, u, T, d, c)
  PROVE  InOrderBy(u, T \ {d}, top, pos)
<1>1. PICK lo, hi \in [Node -> 0 .. top] : Ordered(s, T, top, pos, lo, hi)
  BY Zenon DEF InOrderBy
<1>2. /\ s \in Tree /\ T \subseteq Node /\ Null \notin T
      /\ top \in Nat /\ pos \in [Node -> 0 .. top]
      /\ \A n \in T : lo[n] \in Int /\ hi[n] \in Int /\ pos[n] \in Int
  BY <1>1, KeysAreRight DEF Linked, Ordered
<1>3. lo[d] < pos[d] /\ pos[d] < hi[d] /\ (c # Null => lo[d] <= lo[c] /\ hi[c] <= hi[d])
  BY <1>1, <1>2 DEF Ordered, Kids
<1>4. ASSUME NEW n \in T \ {d}
      PROVE  /\ lo[n] < pos[n] /\ pos[n] < hi[n]
             /\ u.left[n] # Null => lo[n] <= lo[u.left[n]] /\ hi[u.left[n]] <= pos[n]
             /\ u.right[n] # Null => pos[n] <= lo[u.right[n]] /\ hi[u.right[n]] <= hi[n]
  <2>1. /\ lo[n] < pos[n] /\ pos[n] < hi[n]
        /\ s.left[n] # Null => lo[n] <= lo[s.left[n]] /\ hi[s.left[n]] <= pos[n]
        /\ s.right[n] # Null => pos[n] <= lo[s.right[n]] /\ hi[s.right[n]] <= hi[n]
    BY <1>1 DEF Ordered
  <2>2. /\ u.left[n] = s.left[n] \/ (s.left[n] = d /\ u.left[n] = c)
        /\ u.right[n] = s.right[n] \/ (s.right[n] = d /\ u.right[n] = c)
    BY Zenon DEF Removed
  <2>3. d # Null  BY <1>2
  <2>. QED  BY <1>2, <1>3, <2>1, <2>2, <2>3
<1>5. Ordered(u, T \ {d}, top, pos, lo, hi)  BY Zenon, <1>1, <1>2, <1>4 DEF Ordered
<1>. QED  BY Zenon, <1>5 DEF InOrderBy

LEMMA OrderKept ==
  ASSUME NEW s, NEW T, NEW top, NEW pos, NEW u, InOrderBy(s, T, top, pos), u.left = s.left,
      u.right = s.right
  PROVE  InOrderBy(u, T, top, pos)
<1>1. PICK lo, hi \in [Node -> 0 .. top] : Ordered(s, T, top, pos, lo, hi)
  BY Zenon DEF InOrderBy
<1>2. Ordered(u, T, top, pos, lo, hi)  BY Zenon, <1>1 DEF Ordered
<1>. QED  BY Zenon, <1>2 DEF InOrderBy

\* A new leaf gets a position next to that of the node above, for which the others make room.
Doubled(pos, T, n, p, left, new) ==
  /\ \A m \in T : new[m] = 2 * pos[m]
  /\ p # Null => new[n] = IF left THEN 2 * pos[p] - 1 ELSE 2 * pos[p] + 1

MovesApart(u, T, pos, n, p, left) ==
  \E top2, pos2 : InOrderBy(u, T \cup {n}, top2, pos2) /\ Doubled(pos, T, n, p, left, pos2)

LEMMA OrderAdded ==
  ASSUME NEW s, NEW T, NEW top, NEW pos, NEW n \in Node, n \notin T, NEW p \in T \cup {Null},
         NEW left \in BOOLEAN, NEW u, Linked(s, T), InOrderBy(s, T, top, pos),
         p = Null => T = {},
         p # Null => IF left THEN s.left[p] = Null ELSE s.right[p] = Null,
         Added(s, u, T, n, p, left)
  PROVE  MovesApart(u, T, pos, n, p, left)
<1>1. PICK lo, hi \in [Node -> 0 .. top] : Ordered(s, T, top, pos, lo, hi)
  BY Zenon DEF InOrderBy
<1>2. /\ s \in Tree /\ T \subseteq Node /\ Null \notin T
      /\ top \in Nat /\ pos \in [Node -> 0 .. top]
      /\ \A m \in T : lo[m] \in 0 .. top /\ hi[m] \in 0 .. top /\ pos[m] \in 0 .. top
           /\ lo[m] < pos[m] /\ pos[m] < hi[m]
  BY <1>1, KeysAreRight DEF Linked, Ordered
<1> DEFINE top2 == 2 * top + 2
           l == IF p = Null THEN 0 ELSE IF left THEN 2 * lo[p] ELSE 2 * pos[p]
           h == IF p = Null THEN 2 ELSE IF left THEN 2 * pos[p] ELSE 2 * hi[p]
           at == IF p = Null THEN 1 ELSE IF left THEN 2 * pos[p] - 1 ELSE 2 * pos[p] + 1
<1>3. PICK pos2, lo2, hi2 : /\ pos2 = [m \in Node |-> IF m = n THEN at ELSE 2 * pos[m]]
                            /\ lo2 = [m \in Node |-> IF m = n THEN l ELSE 2 * lo[m]]
                            /\ hi2 = [m \in Node |-> IF m = n THEN h ELSE 2 * hi[m]]
  OBVIOUS
<1>4. /\ l \in 0 .. top2 /\ h \in 0 .. top2 /\ at \in 0 .. top2 /\ l < at /\ at < h
      /\ p # Null => IF left THEN 2 * lo[p] <= l /\ h <= 2 * pos[p] ELSE 2 * pos[p] <= l
           /\ h <= 2 * hi[p]
      /\ p # Null => at = IF left THEN 2 * pos[p] - 1 ELSE 2 * pos[p] + 1
  <2>1. CASE p = Null  BY <1>2, <2>1
  <2>2. CASE p # Null
    <3>1. p \in T  BY <2>2
    <3>2. /\ lo[p] \in 0 .. top /\ hi[p] \in 0 .. top /\ pos[p] \in 0 .. top /\ lo[p] < pos[p]
               /\ pos[p] < hi[p]
      BY <1>2, <3>1
    <3>. QED  BY <1>2, <2>2, <3>2
  <2>. QED  BY <2>1, <2>2
<1> HIDE DEF l, h, at
<1>5. /\ pos2[n] = at /\ lo2[n] = l /\ hi2[n] = h
      /\ \A m \in T : pos2[m] = 2 * pos[m] /\ lo2[m] = 2 * lo[m] /\ hi2[m] = 2 * hi[m]
  BY <1>2, <1>3
<1>6. top2 \in Nat /\ pos2 \in [Node -> 0 .. top2] /\ lo2 \in [Node -> 0 .. top2]
        /\ hi2 \in [Node -> 0 .. top2]
  BY <1>1, <1>2, <1>3, <1>4
<1> HIDE DEF top2
<1>7. ASSUME NEW m \in T \cup {n}
      PROVE  /\ lo2[m] < pos2[m] /\ pos2[m] < hi2[m]
             /\ u.left[m] # Null => lo2[m] <= lo2[u.left[m]] /\ hi2[u.left[m]] <= pos2[m]
             /\ u.right[m] # Null => pos2[m] <= lo2[u.right[m]] /\ hi2[u.right[m]] <= hi2[m]
  <2>1. CASE m = n
    <3>1. u.left[m] = Null /\ u.right[m] = Null  BY Zenon, <2>1 DEF Added
    <3>2. l \in Int /\ h \in Int /\ at \in Int /\ l < at /\ at < h  BY <1>4, <1>6
    <3>. QED  BY <1>5, <2>1, <3>1, <3>2
  <2>2. CASE m \in T
    <3>1. /\ u.left[m] = IF m = p /\ left THEN n ELSE s.left[m]
          /\ u.right[m] = IF m = p /\ ~left THEN n ELSE s.right[m]
      BY Zenon, <2>2 DEF Added
    <3>2. /\ lo[m] < pos[m] /\ pos[m] < hi[m]
          /\ s.left[m] # Null => lo[m] <= lo[s.left[m]] /\ hi[s.left[m]] <= pos[m]
          /\ s.right[m] # Null => pos[m] <= lo[s.right[m]] /\ hi[s.right[m]] <= hi[m]
      BY <1>1, <2>2 DEF Ordered
    <3>3. s.left[m] \in T \cup {Null} /\ s.right[m] \in T \cup {Null}
      BY <2>2 DEF Linked
    <3>4. m # Null  BY <1>2, <2>2
    <3>5. lo[m] \in Int /\ hi[m] \in Int /\ pos[m] \in Int /\ lo2[m] = 2 * lo[m]
            /\ pos2[m] = 2 * pos[m] /\ hi2[m] = 2 * hi[m]
      BY <1>2, <1>5, <2>2
    <3>6. u.left[m] # Null => lo2[m] <= lo2[u.left[m]] /\ hi2[u.left[m]] <= pos2[m]
      <4>1. CASE m = p /\ left  BY <1>4, <1>5, <3>1, <3>4, <3>5, <4>1
      <4>2. CASE ~(m = p /\ left)  BY <1>2, <1>5, <3>1, <3>2, <3>3, <3>5, <4>2
      <4>. QED  BY <4>1, <4>2
    <3>7. u.right[m] # Null => pos2[m] <= lo2[u.right[m]] /\ hi2[u.right[m]] <= hi2[m]
      <4>1. CASE m = p /\ ~left  BY <1>4, <1>5, <3>1, <3>4, <3>5, <4>1
      <4>2. CASE ~(m = p /\ ~left)  BY <1>2, <1>5, <3>1, <3>2, <3>3, <3>5, <4>2
      <4>. QED  BY <4>1, <4>2
    <3>. QED  BY <3>2, <3>5, <3>6, <3>7
  <2>. QED  BY <2>1, <2>2
<1>8. Ordered(u, T \cup {n}, top2, pos2, lo2, hi2)  BY Zenon, <1>6, <1>7 DEF Ordered
<1>9. InOrderBy(u, T \cup {n}, top2, pos2)  BY Zenon, <1>6, <1>8 DEF InOrderBy
<1>10. Doubled(pos, T, n, p, left, pos2)  BY Zenon, <1>4, <1>5 DEF Doubled
<1>. QED  BY Zenon, <1>9, <1>10 DEF MovesApart

\* x and y exchanged.
Ex(x, y, n) == IF n = x THEN y ELSE IF n = y THEN x ELSE n

\* Nodes x and y exchange their places and colours.
Swapped(s, u, T, x, y) ==
  /\ u \in Tree /\ u.root = Ex(x, y, s.root)
  /\ \A n \in T : /\ u.left[n] = Ex(x, y, s.left[Ex(x, y, n)])
                  /\ u.right[n] = Ex(x, y, s.right[Ex(x, y, n)])
                  /\ u.parent[n] = Ex(x, y, s.parent[Ex(x, y, n)])
                  /\ u.colour[n] = s.colour[Ex(x, y, n)]
  /\ \A n \in Node \ T : u.left[n] = s.left[n] /\ u.right[n] = s.right[n]

LEMMA SwapIs ==
  ASSUME NEW s, NEW T, NEW x \in T, NEW y \in T, Linked(s, T), x # y,
         s.parent[y] \in T \ {y}, s.parent[x] \notin {x, y},
         s.parent[y] = x \/ s.parent[y] # s.parent[x]
  PROVE  Swapped(s, R!SwapNodes(s, x, y), T, x, y)
<1> DEFINE lx == s.left[x]
           rx == s.right[x]
           ly == s.left[y]
           ry == s.right[y]
           px == s.parent[x]
           py == s.parent[y]
           newLeft == IF lx # y THEN lx ELSE x
           newRight == IF rx # y THEN rx ELSE x
           newParent == IF py = x THEN y ELSE py
<1>1. /\ s \in Tree /\ T \subseteq Node /\ Null \notin T /\ Null \notin Node /\ x \in Node /\ y \in Node
      /\ px \in Node \cup {Null} /\ py \in Node
  BY KeysAreRight DEF Linked, Tree
<1>2. /\ lx \in Node \cup {Null} /\ rx \in Node \cup {Null} /\ ly \in Node \cup {Null}
           /\ ry \in Node \cup {Null}
      /\ lx # x /\ rx # x /\ ly \notin {x, y} /\ ry \notin {x, y}
      /\ newLeft \in Node \cup {Null} /\ newRight \in Node \cup {Null} /\ newParent \in Node
  BY <1>1 DEF Linked
<1> HIDE DEF newLeft, newRight, newParent
<1>3. PICK a : a = R!SetParent(s, lx, y)  OBVIOUS
<1>4. ParentSet(s, lx, y, a)  BY Zenon, <1>1, <1>2, <1>3, SetParentIs
<1>5. PICK b : b = R!SetParent(a, rx, y)  OBVIOUS
<1>6. ParentSet(a, rx, y, b)
  <2>1. a \in Tree  BY Zenon, <1>4 DEF ParentSet
  <2>2. y \in Node \cup {Null}  BY <1>1
  <2>. QED  BY Zenon, <1>2, <1>5, <2>1, <2>2, SetParentIs
<1>7. /\ b \in Tree /\ b.root = s.root /\ b.left = s.left /\ b.right = s.right /\ b.colour = s.colour
      /\ \A m \in Node : b.parent[m] = IF m = lx \/ m = rx THEN y ELSE s.parent[m]
  BY <1>4, <1>6 DEF ParentSet
<1>8. PICK c : c = R!ReplaceSubtree(b, x, y)  OBVIOUS
<1>9. Replaced(b, x, y, c)  BY Zenon, <1>1, <1>7, <1>8, ReplaceIs
<1>10. PICK d : d = [c EXCEPT !.left[y] = newLeft, !.right[y] = newRight, !.colour[y] = s.colour[x]]
  OBVIOUS
<1>11. s.colour[x] \in {R!Red, R!Black} /\ s.colour[y] \in {R!Red, R!Black}
  BY <1>1 DEF Tree
<1>12. /\ d \in Tree /\ d.root = (IF px = Null THEN y ELSE s.root)
       /\ \A m \in Node : d.left[m] = IF m = y THEN newLeft ELSE IF m = px /\ s.left[m] = x THEN y
            ELSE s.left[m]
       /\ \A m \in Node : d.right[m] = IF m = y THEN newRight ELSE IF m = px /\ s.left[m] # x
            THEN y ELSE s.right[m]
       /\ \A m \in Node : d.parent[m] = IF m = y THEN px ELSE IF m = lx \/ m = rx THEN y ELSE s.parent[m]
       /\ \A m \in Node : d.colour[m] = IF m = y THEN s.colour[x] ELSE s.colour[m]
  <2>1. b.parent[x] = px  BY <1>1, <1>2, <1>7
  <2>2. /\ c \in Tree /\ c.root = (IF px = Null THEN y ELSE s.root) /\ c.colour = s.colour
        /\ \A m \in Node : c.left[m] = IF m = px /\ s.left[m] = x THEN y ELSE s.left[m]
        /\ \A m \in Node : c.right[m] = IF m = px /\ s.left[m] # x THEN y ELSE s.right[m]
        /\ \A m \in Node : c.parent[m] = IF m = y THEN px ELSE IF m = lx \/ m = rx THEN y
             ELSE s.parent[m]
    BY <1>7, <1>9, <2>1 DEF Replaced
  <2>3. /\ d \in Tree /\ d.root = c.root /\ d.parent = c.parent
        /\ \A m \in Node : d.left[m] = IF m = y THEN newLeft ELSE c.left[m]
        /\ \A m \in Node : d.right[m] = IF m = y THEN newRight ELSE c.right[m]
        /\ \A m \in Node : d.colour[m] = IF m = y THEN s.colour[x] ELSE c.colour[m]
    BY <1>1, <1>2, <1>10, <1>11, <2>2 DEF Tree
  <2>. QED  BY <1>1, <2>2, <2>3
<1>13. PICK e : e = R!SetParent(d, ly, x)  OBVIOUS
<1>14. ParentSet(d, ly, x, e)  BY Zenon, <1>1, <1>2, <1>12, <1>13, SetParentIs
<1>15. PICK f : f = R!SetParent(e, ry, x)  OBVIOUS
<1>16. ParentSet(e, ry, x, f)
  <2>1. e \in Tree  BY Zenon, <1>14 DEF ParentSet
  <2>2. x \in Node \cup {Null}  BY <1>1
  <2>. QED  BY Zenon, <1>2, <1>15, <2>1, <2>2, SetParentIs
<1>17. /\ f \in Tree /\ f.root = d.root /\ f.left = d.left /\ f.right = d.right /\ f.colour = d.colour
       /\ \A m \in Node : f.parent[m] = IF m = ly \/ m = ry THEN x ELSE d.parent[m]
  BY <1>14, <1>16 DEF ParentSet
<1>18. PICK g : g = IF py = x THEN R!SetParent(f, x, y) ELSE R!SetParent(R!Relink(f, py, y, x), x, py)
  OBVIOUS
<1>19. /\ g \in Tree /\ g.root = d.root /\ g.colour = d.colour
       /\ \A m \in Node : g.parent[m] = IF m = x THEN newParent ELSE f.parent[m]
       /\ \A m \in Node : g.left[m] = IF py # x /\ m = py /\ d.left[m] = y THEN x ELSE d.left[m]
       /\ \A m \in Node : g.right[m] = IF py # x /\ m = py /\ d.left[m] # y THEN x ELSE d.right[m]
  <2>1. CASE py = x
    <3>1. ParentSet(f, x, y, g)  BY Zenon, <1>1, <1>17, <1>18, <2>1, SetParentIs
    <3>. QED  BY <1>1, <1>17, <2>1, <3>1 DEF ParentSet, newParent
  <2>2. CASE py # x
    <3>1. PICK v : v = R!Relink(f, py, y, x)  OBVIOUS
    <3>2. Relinked(f, py, y, x, v)  BY Zenon, <1>1, <1>17, <3>1, RelinkIs
    <3>3. ParentSet(v, x, py, g)
      <4>1. v \in Tree /\ g = R!SetParent(v, x, py)
        BY Zenon, <1>18, <2>2, <3>1, <3>2 DEF Relinked
      <4>. QED  BY Zenon, <1>1, <4>1, SetParentIs
    <3>. QED  BY <1>1, <1>17, <2>2, <3>2, <3>3 DEF Relinked, ParentSet, newParent
  <2>. QED  BY <2>1, <2>2
<1>20. PICK u : u = R!SwapNodes(s, x, y)  OBVIOUS
<1>21. u = [g EXCEPT !.left[x] = ly, !.right[x] = ry, !.colour[x] = s.colour[y]]
  <2>1. R!SwapNodes(s, x, y) =
          LET h == IF py = x THEN R!SetParent(f, x, y) ELSE R!SetParent(R!Relink(f, py, y, x), x, py)
          IN  [h EXCEPT !.left[x] = ly, !.right[x] = ry, !.colour[x] = s.colour[y]]
    BY SMT, <1>3, <1>5, <1>8, <1>10, <1>13, <1>15 DEF R!SwapNodes, newLeft, newRight
  <2>. QED  BY SMT, <1>18, <1>20, <2>1
<1>22. /\ u \in Tree /\ u.root = (IF px = Null THEN y ELSE s.root)
       /\ \A m \in Node : u.left[m] = IF m = x THEN ly ELSE g.left[m]
       /\ \A m \in Node : u.right[m] = IF m = x THEN ry ELSE g.right[m]
       /\ \A m \in Node : u.parent[m] = IF m = x THEN newParent ELSE f.parent[m]
       /\ \A m \in Node : u.colour[m] = IF m = x THEN s.colour[y] ELSE IF m = y THEN s.colour[x]
            ELSE s.colour[m]
  <2>1. /\ u \in Tree /\ u.root = g.root /\ u.parent = g.parent
        /\ \A m \in Node : u.left[m] = IF m = x THEN ly ELSE g.left[m]
        /\ \A m \in Node : u.right[m] = IF m = x THEN ry ELSE g.right[m]
        /\ \A m \in Node : u.colour[m] = IF m = x THEN s.colour[y] ELSE g.colour[m]
    BY <1>1, <1>2, <1>11, <1>19, <1>21 DEF Tree
  <2>. QED  BY <1>12, <1>19, <2>1
<1>23. ASSUME NEW n \in T
       PROVE  /\ u.left[n] = Ex(x, y, s.left[Ex(x, y, n)])
              /\ u.right[n] = Ex(x, y, s.right[Ex(x, y, n)])
              /\ u.colour[n] = s.colour[Ex(x, y, n)]
  <2>0. n \in Node /\ y # py /\ x # px /\ y # px /\ (py = x \/ py # px)  BY <1>1
  <2>1. CASE n = x
    <3>1. Ex(x, y, n) = y /\ Ex(x, y, ly) = ly /\ Ex(x, y, ry) = ry
      BY <1>2, <2>1 DEF Ex
    <3>. QED  BY <1>22, <2>0, <2>1, <3>1
  <2>2. CASE n = y
    <3>1. Ex(x, y, n) = x /\ Ex(x, y, lx) = newLeft /\ Ex(x, y, rx) = newRight
      BY <1>2, <2>2 DEF Ex, newLeft, newRight
    <3>2. u.left[y] = newLeft /\ u.right[y] = newRight
      BY <1>12, <1>19, <1>22, <2>0, <2>2
    <3>. QED  BY <1>22, <2>0, <2>2, <3>1, <3>2
  <2>3. CASE n \notin {x, y}
    <3>1. Ex(x, y, n) = n  BY <2>3 DEF Ex
    <3>2. /\ (s.left[n] = x => n = px) /\ (s.right[n] = x => n = px /\ s.left[n] # x)
          /\ (s.left[n] = y => n = py) /\ (s.right[n] = y => n = py /\ s.left[n] # y)
          /\ (n = px => s.left[n] = x \/ s.right[n] = x) /\ (n = py => s.left[n] = y \/ s.right[n] = y)
      BY <1>1 DEF Linked
    <3>3. u.left[n] = (IF n = px /\ s.left[n] = x THEN y ELSE IF n = py /\ s.left[n] = y THEN x
            ELSE s.left[n])
      BY <1>12, <1>19, <1>22, <2>0, <2>3
    <3>4. u.right[n] = (IF n = px /\ s.left[n] # x THEN y ELSE IF n = py /\ s.left[n] # y THEN x
            ELSE s.right[n])
      BY <1>12, <1>19, <1>22, <2>0, <2>3
    <3>5. u.left[n] = Ex(x, y, s.left[n])  BY <2>0, <2>3, <3>2, <3>3 DEF Ex
    <3>6. u.right[n] = Ex(x, y, s.right[n])  BY <2>0, <2>3, <3>2, <3>4 DEF Ex
    <3>. QED  BY <1>22, <2>0, <2>3, <3>1, <3>5, <3>6
  <2>. QED  BY <2>1, <2>2, <2>3
<1>24. ASSUME NEW n \in T
       PROVE  u.parent[n] = Ex(x, y, s.parent[Ex(x, y, n)])
  <2>0. n \in Node /\ n # Null /\ y # py /\ x # px /\ y # px  BY <1>1
  <2>1. CASE n = x  BY <1>22, <2>0, <2>1 DEF Ex, newParent
  <2>2. CASE n = y
    <3>1. u.parent[y] = px  BY <1>1, <1>2, <1>12, <1>17, <1>22, <2>0, <2>2
    <3>. QED  BY <2>0, <2>2, <3>1 DEF Ex
  <2>3. CASE n \notin {x, y}
    <3>1. Ex(x, y, n) = n  BY <2>3 DEF Ex
    <3>2. /\ (n = lx \/ n = rx) <=> s.parent[n] = x
          /\ (n = ly \/ n = ry) <=> s.parent[n] = y
      BY <1>1, <2>0 DEF Linked
    <3>3. u.parent[n] = IF n = ly \/ n = ry THEN x ELSE IF n = lx \/ n = rx THEN y ELSE s.parent[n]
      BY <1>12, <1>17, <1>22, <2>0, <2>3
    <3>. QED  BY <2>0, <3>1, <3>2, <3>3 DEF Ex
  <2>. QED  BY <2>1, <2>2, <2>3
<1>25. \A n \in Node \ T : u.left[n] = s.left[n] /\ u.right[n] = s.right[n]
  <2>. SUFFICES ASSUME NEW n \in Node, n \notin T
                PROVE  u.left[n] = s.left[n] /\ u.right[n] = s.right[n]
    BY Zenon
  <2>1. n # x /\ n # y /\ n # px /\ n # py  BY <1>1 DEF Linked
  <2>. QED  BY <1>12, <1>19, <1>22, <2>1
<1>26. u.root = Ex(x, y, s.root)
  <2>1. (px = Null <=> s.root = x) /\ s.root # y  BY <1>1 DEF Linked
  <2>. QED  BY <1>22, <2>1 DEF Ex
<1>27. Swapped(s, u, T, x, y)  BY Zenon, <1>22, <1>23, <1>24, <1>25, <1>26 DEF Swapped
<1>. QED  BY Zenon, <1>20, <1>27

\* The pointers still agree, and the order is the same with x and y exchanged.
LEMMA SwapLinked ==
  ASSUME NEW s, NEW T, NEW x \in T, NEW y \in T, NEW u, Linked(s, T), Swapped(s, u, T, x, y)
  PROVE  Linked(u, T)
<1>1. s \in Tree /\ T \subseteq Node /\ Null \notin T /\ x # Null /\ y # Null
  BY KeysAreRight DEF Linked
<1>2. ASSUME NEW n
      PROVE  /\ Ex(x, y, Ex(x, y, n)) = n /\ (n \in T <=> Ex(x, y, n) \in T) /\ (n = Null <=> Ex(x, y, n) = Null)
             /\ n \in T \cup {Null} => Ex(x, y, n) \in T \cup {Null}
  BY <1>1 DEF Ex
<1>3. ASSUME NEW n, NEW m, Ex(x, y, n) = Ex(x, y, m)
      PROVE  n = m
  BY <1>3 DEF Ex
<1>4. ASSUME NEW n \in T
      PROVE  /\ u.left[n] \in T \cup {Null} /\ u.right[n] \in T \cup {Null}
             /\ u.left[n] # Null => u.parent[u.left[n]] = n /\ u.left[n] # u.right[n]
             /\ u.right[n] # Null => u.parent[u.right[n]] = n
             /\ u.parent[n] = Null <=> n = u.root
             /\ u.parent[n] # Null =>
                  u.parent[n] \in T /\ n \in {u.left[u.parent[n]], u.right[u.parent[n]]}
  <2>1. PICK m : m = Ex(x, y, n)  OBVIOUS
  <2>2. m \in T /\ Ex(x, y, m) = n  BY Zenon, <1>2, <2>1
  <2>3. /\ s.left[m] \in T \cup {Null} /\ s.right[m] \in T \cup {Null}
        /\ s.left[m] # Null => s.parent[s.left[m]] = m /\ s.left[m] # s.right[m]
        /\ s.right[m] # Null => s.parent[s.right[m]] = m
        /\ s.parent[m] = Null <=> m = s.root
        /\ s.parent[m] # Null =>
             s.parent[m] \in T /\ m \in {s.left[s.parent[m]], s.right[s.parent[m]]}
    BY Zenon, <2>2 DEF Linked
  <2>4. /\ u.left[n] = Ex(x, y, s.left[m]) /\ u.right[n] = Ex(x, y, s.right[m])
        /\ u.parent[n] = Ex(x, y, s.parent[m]) /\ u.root = Ex(x, y, s.root)
    BY Zenon, <2>1 DEF Swapped
  <2>5. u.left[n] \in T \cup {Null} /\ u.right[n] \in T \cup {Null}
    BY Zenon, <1>2, <2>3, <2>4
  <2>6. ASSUME u.left[n] # Null
        PROVE  u.parent[u.left[n]] = n /\ u.left[n] # u.right[n]
    <3>1. s.left[m] # Null /\ s.left[m] \in T /\ u.left[n] \in T /\ Ex(x, y, u.left[n]) = s.left[m]
      <4>1. u.left[n] \in T  BY <2>5, <2>6
      <4>. QED  BY Zenon, <1>2, <2>4, <2>6, <4>1
    <3>2. u.parent[u.left[n]] = Ex(x, y, s.parent[s.left[m]])
      BY Zenon, <3>1 DEF Swapped
    <3>3. u.left[n] # u.right[n]  BY Zenon, <1>3, <2>3, <2>4, <3>1
    <3>. QED  BY Zenon, <2>2, <2>3, <3>1, <3>2, <3>3
  <2>7. ASSUME u.right[n] # Null
        PROVE  u.parent[u.right[n]] = n
    <3>1. s.right[m] # Null /\ s.right[m] \in T /\ u.right[n] \in T /\ Ex(x, y, u.right[n]) = s.right[m]
      <4>1. u.right[n] \in T  BY <2>5, <2>7
      <4>. QED  BY Zenon, <1>2, <2>4, <2>7, <4>1
    <3>2. u.parent[u.right[n]] = Ex(x, y, s.parent[s.right[m]])
      BY Zenon, <3>1 DEF Swapped
    <3>. QED  BY Zenon, <2>2, <2>3, <3>1, <3>2
  <2>8. u.parent[n] = Null <=> n = u.root
    <3>1. u.parent[n] = Null <=> s.parent[m] = Null  BY Zenon, <1>2, <2>4
    <3>2. n = u.root <=> m = s.root  BY Zenon, <1>3, <2>2, <2>4
    <3>. QED  BY Zenon, <2>3, <3>1, <3>2
  <2>9. ASSUME u.parent[n] # Null
        PROVE  u.parent[n] \in T /\ n \in {u.left[u.parent[n]], u.right[u.parent[n]]}
    <3>1. s.parent[m] # Null /\ s.parent[m] \in T /\ u.parent[n] \in T
            /\ Ex(x, y, u.parent[n]) = s.parent[m]
      BY Zenon, <1>2, <2>3, <2>4, <2>9
    <3>2. u.left[u.parent[n]] = Ex(x, y, s.left[s.parent[m]])
            /\ u.right[u.parent[n]] = Ex(x, y, s.right[s.parent[m]])
      BY Zenon, <3>1 DEF Swapped
    <3>3. m = s.left[s.parent[m]] \/ m = s.right[s.parent[m]]  BY <2>3, <3>1
    <3>4. n = u.left[u.parent[n]] \/ n = u.right[u.parent[n]]
      BY Zenon, <2>2, <3>2, <3>3
    <3>. QED  BY <3>1, <3>4
  <2>. QED  BY Zenon, <2>5, <2>6, <2>7, <2>8, <2>9
<1>5. u \in Tree /\ u.root \in T \cup {Null}  BY Zenon, <1>2 DEF Swapped, Linked
<1>. QED  BY Zenon, <1>1, <1>4, <1>5 DEF Linked

PlacesSwapped(u, T, top, pos, x, y) ==
  \E pos2 : InOrderBy(u, T, top, pos2) /\ \A n \in T : pos2[n] = pos[Ex(x, y, n)]

LEMMA OrderSwapped ==
  ASSUME NEW s, NEW T, NEW top, NEW pos, NEW x \in T, NEW y \in T, NEW u, Linked(s, T),
         InOrderBy(s, T, top, pos), Swapped(s, u, T, x, y)
  PROVE  PlacesSwapped(u, T, top, pos, x, y)
<1>1. PICK lo, hi \in [Node -> 0 .. top] : Ordered(s, T, top, pos, lo, hi)
  BY Zenon DEF InOrderBy
<1>2. s \in Tree /\ T \subseteq Node /\ Null \notin T /\ x # Null /\ y # Null /\ x \in Node /\ y \in Node
  BY KeysAreRight DEF Linked
<1>3. PICK pos2, lo2, hi2 : /\ pos2 = [n \in Node |-> pos[Ex(x, y, n)]]
                            /\ lo2 = [n \in Node |-> lo[Ex(x, y, n)]]
                            /\ hi2 = [n \in Node |-> hi[Ex(x, y, n)]]
  OBVIOUS
<1>4. \A n \in Node : Ex(x, y, n) \in Node  BY <1>2 DEF Ex
<1>5. /\ \A n \in Node : pos2[n] = pos[Ex(x, y, n)] /\ lo2[n] = lo[Ex(x, y, n)]
           /\ hi2[n] = hi[Ex(x, y, n)]
      /\ pos2 \in [Node -> 0 .. top] /\ lo2 \in [Node -> 0 .. top] /\ hi2 \in [Node -> 0 .. top]
           /\ top \in Nat
  <2>1. pos \in [Node -> 0 .. top] /\ top \in Nat  BY Zenon, <1>1 DEF Ordered
  <2>. QED  BY Zenon, <1>1, <1>3, <1>4, <2>1
<1>6. ASSUME NEW n
      PROVE  /\ Ex(x, y, Ex(x, y, n)) = n /\ (n \in T <=> Ex(x, y, n) \in T)
          /\ (n = Null <=> Ex(x, y, n) = Null)
  BY <1>2 DEF Ex
<1>7. ASSUME NEW n \in T
      PROVE  /\ lo2[n] < pos2[n] /\ pos2[n] < hi2[n]
             /\ u.left[n] # Null => lo2[n] <= lo2[u.left[n]] /\ hi2[u.left[n]] <= pos2[n]
             /\ u.right[n] # Null => pos2[n] <= lo2[u.right[n]] /\ hi2[u.right[n]] <= hi2[n]
  <2>1. PICK m : m = Ex(x, y, n)  OBVIOUS
  <2>2. m \in T /\ n \in Node  BY Zenon, <1>2, <1>6, <2>1
  <2>3. pos2[n] = pos[m] /\ lo2[n] = lo[m] /\ hi2[n] = hi[m]  BY Zenon, <1>5, <2>1, <2>2
  <2>4. u.left[n] = Ex(x, y, s.left[m]) /\ u.right[n] = Ex(x, y, s.right[m])
    BY Zenon, <2>1 DEF Swapped
  <2>5. /\ lo[m] < pos[m] /\ pos[m] < hi[m]
        /\ s.left[m] # Null => lo[m] <= lo[s.left[m]] /\ hi[s.left[m]] <= pos[m]
        /\ s.right[m] # Null => pos[m] <= lo[s.right[m]] /\ hi[s.right[m]] <= hi[m]
    BY Zenon, <1>1, <2>2 DEF Ordered
  <2>6. u.left[n] # Null => s.left[m] # Null /\ lo2[u.left[n]] = lo[s.left[m]]
          /\ hi2[u.left[n]] = hi[s.left[m]]
    <3>1. s.left[m] \in Node \cup {Null}  BY <1>2, <2>2 DEF Linked
    <3>2. s.left[m] \in Node => Ex(x, y, s.left[m]) \in Node /\ Ex(x, y, Ex(x, y, s.left[m])) = s.left[m]
      BY Zenon, <1>4, <1>6
    <3>3. u.left[n] # Null => s.left[m] # Null  BY Zenon, <1>6, <2>4
    <3>4. u.left[n] # Null => s.left[m] \in Node  BY <3>1, <3>3
    <3>. QED  BY Zenon, <1>5, <2>4, <3>2, <3>3, <3>4
  <2>7. u.right[n] # Null => s.right[m] # Null /\ lo2[u.right[n]] = lo[s.right[m]]
          /\ hi2[u.right[n]] = hi[s.right[m]]
    <3>1. s.right[m] \in Node \cup {Null}  BY <1>2, <2>2 DEF Linked
    <3>2. s.right[m] \in Node => Ex(x, y, s.right[m]) \in Node
            /\ Ex(x, y, Ex(x, y, s.right[m])) = s.right[m]
      BY Zenon, <1>4, <1>6
    <3>3. u.right[n] # Null => s.right[m] # Null  BY Zenon, <1>6, <2>4
    <3>4. u.right[n] # Null => s.right[m] \in Node  BY <3>1, <3>3
    <3>. QED  BY Zenon, <1>5, <2>4, <3>2, <3>3, <3>4
  <2>. QED  BY Zenon, <2>3, <2>5, <2>6, <2>7
<1>8. Ordered(u, T, top, pos2, lo2, hi2)  BY Zenon, <1>5, <1>7 DEF Ordered
<1>9. InOrderBy(u, T, top, pos2)  BY Zenon, <1>5, <1>8 DEF InOrderBy
<1>10. \A n \in T : pos2[n] = pos[Ex(x, y, n)]  BY Zenon, <1>2, <1>5
<1>. QED  BY Zenon, <1>9, <1>10 DEF PlacesSwapped

Shaped(s, T, top, pos) ==
  /\ Linked(s, T) /\ InOrderBy(s, T, top, pos)
  /\ \A n \in Node \ T : s.left[n] = Null /\ s.right[n] = Null

Ranked(s, W, rank) ==
  /\ s \in Tree /\ W \in Nat /\ rank \in [Node \cup {Null} -> 0 .. W]
  /\ \A n \in Node : rank[s.left[n]] < rank[n] /\ rank[s.right[n]] < rank[n]

LEMMA RankExists ==
  ASSUME NEW s, NEW T, NEW top, NEW pos, Shaped(s, T, top, pos)
  PROVE  \E W, rank : Ranked(s, W, rank)
<1>1. PICK lo, hi \in [Node -> 0 .. top] : Ordered(s, T, top, pos, lo, hi)
  BY Zenon DEF InOrderBy, Shaped
<1>2. /\ s \in Tree /\ T \subseteq Node /\ Null \notin T /\ Null \notin Node /\ top \in Nat
      /\ \A n \in T : lo[n] \in 0 .. top /\ hi[n] \in 0 .. top /\ pos[n] \in Int
  BY <1>1, KeysAreRight DEF Linked, Ordered, Shaped
<1> DEFINE rank == [n \in Node \cup {Null} |-> IF n = Null THEN 0 ELSE IF n \in T
        THEN hi[n] - lo[n] ELSE 1]
<1>3. \A n \in T : lo[n] < pos[n] /\ pos[n] < hi[n]  BY Zenon, <1>1 DEF Ordered
<1>4. rank \in [Node \cup {Null} -> 0 .. top + 1]  BY <1>2, <1>3
<1>5. ASSUME NEW n \in Node
      PROVE  rank[s.left[n]] < rank[n] /\ rank[s.right[n]] < rank[n]
  <2>1. CASE n \in T
    <3>1. s.left[n] \in T \cup {Null} /\ s.right[n] \in T \cup {Null}
      BY <2>1 DEF Linked, Shaped
    <3>2. /\ lo[n] < pos[n] /\ pos[n] < hi[n]
          /\ s.left[n] # Null => lo[n] <= lo[s.left[n]] /\ hi[s.left[n]] <= pos[n]
          /\ s.right[n] # Null => pos[n] <= lo[s.right[n]] /\ hi[s.right[n]] <= hi[n]
      BY Zenon, <1>1, <2>1 DEF Ordered
    <3>3. rank[n] = hi[n] - lo[n] /\ rank[Null] = 0 /\ \A m \in T : rank[m] = hi[m] - lo[m]
      BY <1>2, <2>1
    <3> HIDE DEF rank
    <3>. QED  BY <1>2, <1>3, <2>1, <3>1, <3>2, <3>3
  <2>2. CASE n \notin T
    <3>1. s.left[n] = Null /\ s.right[n] = Null  BY <2>2 DEF Shaped
    <3>. QED  BY <1>2, <2>2, <3>1
  <2>. QED  BY <2>1, <2>2
<1>6. top + 1 \in Nat  BY <1>2
<1>7. Ranked(s, top + 1, rank)
  <2> HIDE DEF rank
  <2>. QED  BY Zenon, <1>2, <1>4, <1>5, <1>6 DEF Ranked
<1>. QED  BY Zenon, <1>7

LEMMA InOrderIs ==
  ASSUME NEW W, NEW rank, Ranked(tree, W, rank)
  PROVE  /\ R!InOrder \in [Node \cup {Null} -> Seq(Node)]
         /\ R!InOrder[Null] = <<>>
         /\ \A n \in Node : R!InOrder[n] = R!InOrder[tree.left[n]] \o <<n>> \o R!InOrder[tree.right[n]]
<1> DEFINE D == Node \cup {Null}
           V == Seq(Node)
           G == [p \in D \X [D -> V] |->
                   IF p[1] = Null THEN <<>>
                   ELSE p[2][tree.left[p[1]]] \o <<p[1]>> \o p[2][tree.right[p[1]]]]
<1>1. /\ \A n \in Node : tree.left[n] \in D /\ tree.right[n] \in D
      /\ W \in Nat /\ rank \in [D -> 0 .. W] /\ Null \notin Node
      /\ \A n \in Node : rank[tree.left[n]] < rank[n] /\ rank[tree.right[n]] < rank[n]
  BY KeysAreRight DEF Ranked, Tree
<1>2. ASSUME NEW n \in D, NEW f \in [D -> V]
      PROVE  /\ G[<<n, f>>] = (IF n = Null THEN <<>> ELSE f[tree.left[n]] \o <<n>> \o f[tree.right[n]])
             /\ G[<<n, f>>] \in V
  <2>1. G[<<n, f>>] = (IF n = Null THEN <<>> ELSE f[tree.left[n]] \o <<n>> \o f[tree.right[n]])
    OBVIOUS
  <2>2. CASE n = Null  BY <2>1, <2>2
  <2>3. CASE n \in Node
    <3>1. f[tree.left[n]] \in Seq(Node) /\ f[tree.right[n]] \in Seq(Node) /\ <<n>> \in Seq(Node)
      BY <1>1, <2>3
    <3>2. \A a, b, c \in Seq(Node) : a \o b \o c \in Seq(Node)  OBVIOUS
    <3> HIDE DEF G
    <3>. QED  BY <1>1, <2>1, <2>3, <3>1, <3>2
  <2>. QED  BY <2>1, <2>2, <2>3
<1>3. G \in [D \X [D -> V] -> V]
  <2>1. \A p \in D \X [D -> V] : G[p] \in V  BY <1>2
  <2>. QED  BY <2>1
<1>4. V # {}
  <2>1. <<>> \in V  OBVIOUS
  <2>. QED  BY <2>1
<1> HIDE DEF G
<1>5. ASSUME NEW n \in D, NEW f \in [D -> V], NEW g \in [D -> V], \A m \in D : rank[m] < rank[n]
          => f[m] = g[m]
      PROVE  G[<<n, f>>] = G[<<n, g>>]
  <2>1. n # Null => f[tree.left[n]] = g[tree.left[n]] /\ f[tree.right[n]] = g[tree.right[n]]
    BY <1>1, <1>5
  <2>. QED  BY Zenon, <1>2, <2>1
<1>6. CallsBelow(G, D, V, W, rank)  BY Zenon, <1>1, <1>3, <1>4, <1>5 DEF CallsBelow
<1>7. PICK f : Calls(G, D, V, f)
  <2> HIDE DEF D, V
  <2>. QED  BY Zenon, <1>6, RecursionExists
<1>8. f = [n \in D |-> IF n = Null THEN <<>> ELSE f[tree.left[n]] \o <<n>> \o f[tree.right[n]]]
  <2>1. \A n \in D : f[n] = IF n = Null THEN <<>> ELSE f[tree.left[n]] \o <<n>> \o f[tree.right[n]]
    BY Zenon, <1>2, <1>7 DEF Calls
  <2>. QED  BY Zenon, <1>7, <2>1 DEF Calls
<1>9. R!InOrder = [n \in D |-> IF n = Null THEN <<>>
                               ELSE R!InOrder[tree.left[n]] \o <<n>> \o R!InOrder[tree.right[n]]]
  BY Zenon, <1>8 DEF R!InOrder
<1>10. ASSUME NEW n \in D, R!InOrder[n] # f[n]
       PROVE  \E m \in D : R!InOrder[m] # f[m] /\ rank[m] < rank[n]
  <2>1. n # Null  BY Zenon, <1>8, <1>9, <1>10
  <2>2. R!InOrder[n] = R!InOrder[tree.left[n]] \o <<n>> \o R!InOrder[tree.right[n]]
    BY Zenon, <1>9, <2>1
  <2>3. f[n] = f[tree.left[n]] \o <<n>> \o f[tree.right[n]]  BY Zenon, <1>8, <2>1
  <2>4. R!InOrder[tree.left[n]] # f[tree.left[n]] \/ R!InOrder[tree.right[n]] # f[tree.right[n]]
    BY Zenon, <1>10, <2>2, <2>3
  <2>. QED  BY <1>1, <2>1, <2>4
<1>11. \A n \in D : R!InOrder[n] = f[n]
  <2> DEFINE Bad == {n \in D : R!InOrder[n] # f[n]}
  <2>1. SUFFICES ASSUME Bad # {} PROVE FALSE  OBVIOUS
  <2>2. PICK n \in Bad : \A m \in Bad : rank[n] <= rank[m]
    <3>1. W \in Nat /\ rank \in [D -> 0 .. W] /\ Bad \subseteq D  BY <1>1
    <3> HIDE DEF Bad
    <3>. QED  BY Zenon, <2>1, <3>1, LeastRank
  <2>3. PICK m \in D : R!InOrder[m] # f[m] /\ rank[m] < rank[n]  BY Zenon, <1>10, <2>2
  <2>4. m \in Bad /\ rank[n] \in Int /\ rank[m] \in Int  BY <1>1, <2>2, <2>3
  <2>. QED  BY <2>2, <2>3, <2>4
<1>12. R!InOrder = f /\ f \in [D -> V]  BY Zenon, <1>7, <1>9, <1>11 DEF Calls
<1>13. \A n \in Node : n \in D /\ n # Null  BY <1>1
<1>14. Null \in D  OBVIOUS
<1>. QED  BY Zenon, <1>9, <1>12, <1>13, <1>14

LEMMA BlackHeightIs ==
  ASSUME NEW W, NEW rank, Ranked(tree, W, rank)
  PROVE  /\ R!BlackHeight \in [Node \cup {Null} -> Nat]
         /\ R!BlackHeight[Null] = 0
         /\ \A n \in Node : R!BlackHeight[n] = R!BlackHeight[tree.left[n]] + (IF tree.colour[n] = R!Black THEN 1 ELSE 0)
<1> DEFINE D == Node \cup {Null}
           V == Nat
           G == [p \in D \X [D -> V] |->
                   IF p[1] = Null THEN 0
                   ELSE p[2][tree.left[p[1]]] + (IF tree.colour[p[1]] = R!Black THEN 1 ELSE 0)]
<1>1. /\ \A n \in Node : tree.left[n] \in D /\ tree.right[n] \in D
      /\ W \in Nat /\ rank \in [D -> 0 .. W] /\ Null \notin Node
      /\ \A n \in Node : rank[tree.left[n]] < rank[n] /\ rank[tree.right[n]] < rank[n]
  BY KeysAreRight DEF Ranked, Tree
<1>2. ASSUME NEW n \in D, NEW f \in [D -> V]
      PROVE  /\ G[<<n, f>>] = (IF n = Null THEN 0 ELSE f[tree.left[n]] + (IF tree.colour[n] = R!Black THEN 1 ELSE 0))
             /\ G[<<n, f>>] \in V
  <2>1. G[<<n, f>>] = (IF n = Null THEN 0
          ELSE f[tree.left[n]] + (IF tree.colour[n] = R!Black THEN 1 ELSE 0))
    OBVIOUS
  <2>2. CASE n = Null  BY <2>1, <2>2
  <2>3. CASE n \in Node
    <3>1. f[tree.left[n]] \in Nat  BY <1>1, <2>3
    <3> HIDE DEF G
    <3>. QED  BY <1>1, <2>1, <2>3, <3>1
  <2>. QED  BY <2>1, <2>2, <2>3
<1>3. G \in [D \X [D -> V] -> V]
  <2>1. \A p \in D \X [D -> V] : G[p] \in V  BY <1>2
  <2>. QED  BY <2>1
<1>4. V # {}
  <2>1. 0 \in V  OBVIOUS
  <2>. QED  BY <2>1
<1> HIDE DEF G
<1>5. ASSUME NEW n \in D, NEW f \in [D -> V], NEW g \in [D -> V], \A m \in D : rank[m] < rank[n]
          => f[m] = g[m]
      PROVE  G[<<n, f>>] = G[<<n, g>>]
  <2>1. n # Null => f[tree.left[n]] = g[tree.left[n]]  BY <1>1, <1>5
  <2>2. CASE n = Null  BY Zenon, <1>2, <2>2
  <2>3. CASE n # Null
    <3>1. G[<<n, f>>] = g[tree.left[n]] + (IF tree.colour[n] = R!Black THEN 1 ELSE 0)
      BY Zenon, <1>2, <2>1, <2>3
    <3>. QED  BY Zenon, <1>2, <2>3, <3>1
  <2>. QED  BY <2>2, <2>3
<1>6. CallsBelow(G, D, V, W, rank)  BY Zenon, <1>1, <1>3, <1>4, <1>5 DEF CallsBelow
<1>7. PICK f : Calls(G, D, V, f)
  <2> HIDE DEF D, V
  <2>. QED  BY Zenon, <1>6, RecursionExists
<1>8. f = [n \in D |-> IF n = Null THEN 0
        ELSE f[tree.left[n]] + (IF tree.colour[n] = R!Black THEN 1 ELSE 0)]
  <2>1. \A n \in D : f[n] = IF n = Null THEN 0
          ELSE f[tree.left[n]] + (IF tree.colour[n] = R!Black THEN 1 ELSE 0)
    BY Zenon, <1>2, <1>7 DEF Calls
  <2>. QED  BY Zenon, <1>7, <2>1 DEF Calls
<1>9. R!BlackHeight = [n \in D |-> IF n = Null THEN 0
                               ELSE R!BlackHeight[tree.left[n]] + (IF tree.colour[n] = R!Black
                                 THEN 1 ELSE 0)]
  BY Zenon, <1>8 DEF R!BlackHeight
<1>10. ASSUME NEW n \in D, R!BlackHeight[n] # f[n]
       PROVE  \E m \in D : R!BlackHeight[m] # f[m] /\ rank[m] < rank[n]
  <2>1. n # Null  BY Zenon, <1>8, <1>9, <1>10
  <2>2. R!BlackHeight[n] = R!BlackHeight[tree.left[n]] + (IF tree.colour[n] = R!Black THEN 1 ELSE 0)
    BY Zenon, <1>9, <2>1
  <2>3. f[n] = f[tree.left[n]] + (IF tree.colour[n] = R!Black THEN 1 ELSE 0)
    BY Zenon, <1>8, <2>1
  <2>4. R!BlackHeight[tree.left[n]] # f[tree.left[n]]  BY Zenon, <1>10, <2>2, <2>3
  <2>. QED  BY <1>1, <2>1, <2>4
<1>11. \A n \in D : R!BlackHeight[n] = f[n]
  <2> DEFINE Bad == {n \in D : R!BlackHeight[n] # f[n]}
  <2>1. SUFFICES ASSUME Bad # {} PROVE FALSE  OBVIOUS
  <2>2. PICK n \in Bad : \A m \in Bad : rank[n] <= rank[m]
    <3>1. W \in Nat /\ rank \in [D -> 0 .. W] /\ Bad \subseteq D  BY <1>1
    <3> HIDE DEF Bad
    <3>. QED  BY Zenon, <2>1, <3>1, LeastRank
  <2>3. PICK m \in D : R!BlackHeight[m] # f[m] /\ rank[m] < rank[n]
    BY Zenon, <1>10, <2>2
  <2>4. m \in Bad /\ rank[n] \in Int /\ rank[m] \in Int  BY <1>1, <2>2, <2>3
  <2>. QED  BY <2>2, <2>3, <2>4
<1>12. R!BlackHeight = f /\ f \in [D -> V]  BY Zenon, <1>7, <1>9, <1>11 DEF Calls
<1>13. \A n \in Node : n \in D /\ n # Null  BY <1>1
<1>14. Null \in D  OBVIOUS
<1>. QED  BY Zenon, <1>9, <1>12, <1>13, <1>14

\* The loop of rbtree_insert that looks for a place ends.
InsertionLoop(f, k) ==
  \A n \in Node :
    LET next == IF KeyOf[n] >= k THEN tree.left[n] ELSE tree.right[n]
    IN  f[n] = IF next = Null THEN n ELSE f[next]

LEMMA InsertionPointIs ==
  ASSUME tree \in Tree, tree.root # Null, NEW k
  PROVE  \E f : InsertionLoop(f, k) /\ R!InsertionPoint(k) = f[tree.root]
<1> DEFINE next(n) == IF KeyOf[n] >= k THEN tree.left[n] ELSE tree.right[n]
           g == [n \in Node |-> IF next(n) = Null THEN n ELSE next(n)]
           E == {n \in Node : next(n) = Null}
           v == [n \in Node |-> n]
<1>1. g \in [Node -> Node]  BY DEF Tree
<1>2. PICK f : Loops(f, Node, E, v, g)
  <2> HIDE DEF g, E, v
  <2>. QED  BY Zenon, <1>1, LoopExists
<1>3. f = [n \in Node |-> IF next(n) = Null THEN n ELSE f[next(n)]]
  <2>1. ASSUME NEW n \in Node
        PROVE  f[n] = IF next(n) = Null THEN n ELSE f[next(n)]
    <3> HIDE DEF next
    <3>. QED  BY <1>2 DEF Loops
  <2>. QED  BY Zenon, <1>2, <2>1 DEF Loops
<1>4. PICK h : /\ h = [n \in Node |-> IF next(n) = Null THEN n ELSE h[next(n)]]
               /\ R!InsertionPoint(k) = h[tree.root]
  BY Zenon, <1>3 DEF R!InsertionPoint
<1>5. InsertionLoop(h, k)  BY Zenon, <1>4 DEF InsertionLoop
<1>. QED  BY Zenon, <1>4, <1>5

\* And so does the loop of rbt_find_successor.
RightLoop(f) == \A n \in Node : f[n] = IF tree.right[n] = Null THEN n ELSE f[tree.right[n]]

LEMMA PredecessorIs ==
  ASSUME tree \in Tree, NEW x
  PROVE  \E f : RightLoop(f) /\ R!Predecessor(x) = f[tree.left[x]]
<1> DEFINE g == [n \in Node |-> IF tree.right[n] = Null THEN n ELSE tree.right[n]]
           E == {n \in Node : tree.right[n] = Null}
           v == [n \in Node |-> n]
<1>1. g \in [Node -> Node]  BY DEF Tree
<1>2. PICK f : Loops(f, Node, E, v, g)
  <2> HIDE DEF g, E, v
  <2>. QED  BY Zenon, <1>1, LoopExists
<1>3. f = [n \in Node |-> IF tree.right[n] = Null THEN n ELSE f[tree.right[n]]]
  <2>1. \A n \in Node : f[n] = IF tree.right[n] = Null THEN n ELSE f[tree.right[n]]
    BY <1>2 DEF Loops
  <2>. QED  BY Zenon, <1>2, <2>1 DEF Loops
<1>4. PICK h : /\ h = [n \in Node |-> IF tree.right[n] = Null THEN n ELSE h[tree.right[n]]]
               /\ R!Predecessor(x) = h[tree.left[x]]
  BY Zenon, <1>3 DEF R!Predecessor
<1>5. RightLoop(h)  BY Zenon, <1>4 DEF RightLoop
<1>. QED  BY Zenon, <1>4, <1>5

\* No two nodes have the same position.
LEMMA PositionsDiffer ==
  ASSUME NEW s, NEW T, NEW top, NEW pos, Shaped(s, T, top, pos), NEW a \in T, NEW b \in T,
      pos[a] = pos[b]
  PROVE  a = b
<1>1. Linked(s, T) /\ T \subseteq Node  BY DEF Shaped, Linked
<1>2. PICK lo, hi \in [Node -> 0 .. top] : Ordered(s, T, top, pos, lo, hi)
  BY DEF Shaped, InOrderBy
<1>3. Related(s, T, lo, hi, a, b)  BY <1>1, <1>2, AllRelated
<1>4. \A x, y \in T : Inside(s, T, lo, hi, x, y) => pos[x] # pos[y]
  <2> SUFFICES ASSUME NEW x \in T, NEW y \in T, Inside(s, T, lo, hi, x, y)
               PROVE  pos[x] # pos[y]
    OBVIOUS
  <2>1. PICK c \in T : c \in Kids(s, y) /\ lo[c] <= lo[x] /\ hi[x] <= hi[c]
    BY DEF Inside
  <2>. QED  BY <1>1, <1>2, <2>1, KeysAreRight DEF Ordered, Kids
<1>. QED  BY <1>1, <1>2, <1>3, <1>4 DEF Related, Ordered

\* A node is neither its parent nor above it.
LEMMA ParentsDiffer ==
  ASSUME NEW s, NEW T, NEW top, NEW pos, Shaped(s, T, top, pos), NEW n \in T, s.parent[n] # Null
  PROVE  s.parent[n] \in T /\ s.parent[n] # n /\ s.parent[s.parent[n]] \notin {n, s.parent[n]}
<1>1. Linked(s, T) /\ T \subseteq Node  BY DEF Shaped, Linked
<1>2. PICK lo, hi \in [Node -> 0 .. top] : Ordered(s, T, top, pos, lo, hi)
  BY DEF Shaped, InOrderBy
<1>3. \A b \in T : s.parent[b] # Null =>
        s.parent[b] \in T /\ hi[b] - lo[b] < hi[s.parent[b]] - lo[s.parent[b]]
  BY <1>1, <1>2, KidIsInside
<1>4. \A b \in T : lo[b] \in Int /\ hi[b] \in Int  BY <1>1, <1>2 DEF Ordered
<1>. QED  BY <1>3, <1>4, <1>1, KeysAreRight

\* A function of the nodes keeps a property if the nodes of a lower rank have it: the least
\* node without it is no node at all.
LEMMA RankIsGiven ==
  ASSUME NEW s, NEW W, NEW rank, Ranked(s, W, rank), NEW Q, Q \subseteq Node, Q # {}
  PROVE  \E n \in Q : \A m \in Q : rank[n] <= rank[m]
<1>1. W \in Nat /\ [x \in Node |-> rank[x]] \in [Node -> 0 .. W]  BY DEF Ranked
<1>2. \E n \in Q : \A m \in Q : [x \in Node |-> rank[x]][n] <= [x \in Node |-> rank[x]][m]
  BY <1>1, LeastRank
<1>. QED  BY <1>2

-----------------------------------------------------------------------------
(* The red-black tree: what the loops can rely on *)

\* The keys do not fall from left to right.
InKeyOrder(W, pos) == \A a, b \in W : pos[a] < pos[b] => KeyOf[a] <= KeyOf[b]

\* A search tree at rest, whose node n has all of its subtree strictly between lo[n] and hi[n].
Placed(T, top, pos, lo, hi) ==
  /\ T \subseteq Node /\ Null \notin Node /\ top \in Nat /\ tree.root \in T \cup {Null}
  /\ \A n \in T :
       /\ lo[n] \in 0 .. top /\ pos[n] \in 0 .. top /\ hi[n] \in 0 .. top /\ KeyOf[n] \in Int
       /\ lo[n] < pos[n] /\ pos[n] < hi[n]
       /\ tree.left[n] \in T \cup {Null} /\ tree.right[n] \in T \cup {Null}
       /\ tree.parent[n] \in T \cup {Null} /\ (tree.parent[n] = Null <=> n = tree.root)
       /\ tree.parent[n] # Null => n \in Kids(tree, tree.parent[n])
       /\ tree.left[n] # Null => /\ lo[n] <= lo[tree.left[n]] /\ hi[tree.left[n]] <= pos[n]
                                 /\ tree.parent[tree.left[n]] = n /\ tree.left[n] # tree.right[n]
       /\ tree.right[n] # Null => /\ pos[n] <= lo[tree.right[n]] /\ hi[tree.right[n]] <= hi[n]
                                  /\ tree.parent[tree.right[n]] = n
  /\ \A n \in Node \ T : tree.left[n] = Null /\ tree.right[n] = Null

\* Where the other nodes are.
Ranged(T, pos, lo, hi) ==
  /\ \A x, n \in T : lo[n] < pos[x] /\ pos[x] < hi[n] => Between(tree, T, pos, lo, hi, x, n)
  /\ \A x, n \in T : /\ pos[x] = pos[n] => x = n
                     /\ pos[x] < pos[n] => KeyOf[x] <= KeyOf[n]
  /\ \A x \in T : tree.root \in T /\ lo[tree.root] < pos[x] /\ pos[x] < hi[tree.root]

LEMMA PlacesExist ==
  ASSUME NEW T, NEW top, NEW pos, Shaped(tree, T, top, pos), InKeyOrder(T, pos)
  PROVE  \E lo, hi : Placed(T, top, pos, lo, hi) /\ Ranged(T, pos, lo, hi)
<1>1. PICK lo, hi \in [Node -> 0 .. top] : Ordered(tree, T, top, pos, lo, hi)
  BY Zenon DEF InOrderBy, Shaped
<1>2. Linked(tree, T) /\ T \subseteq Node /\ Null \notin T
  BY KeysAreRight DEF Shaped, Linked
<1>3. Placed(T, top, pos, lo, hi)
  <2>1. T \subseteq Node /\ Null \notin Node /\ top \in Nat /\ tree.root \in T \cup {Null}
    BY <1>1, KeysAreRight DEF Shaped, Linked, Ordered
  <2>2. ASSUME NEW n \in T
        PROVE  /\ lo[n] \in 0 .. top /\ pos[n] \in 0 .. top
               /\ hi[n] \in 0 .. top /\ KeyOf[n] \in Int
               /\ lo[n] < pos[n] /\ pos[n] < hi[n]
    BY <1>1, <2>1, <2>2, KeysAreRight DEF Ordered
  <2>3. ASSUME NEW n \in T
        PROVE  /\ tree.left[n] \in T \cup {Null} /\ tree.right[n] \in T \cup {Null}
               /\ tree.parent[n] \in T \cup {Null} /\ (tree.parent[n] = Null <=> n = tree.root)
               /\ tree.parent[n] # Null => n \in Kids(tree, tree.parent[n])
               /\ tree.left[n] # Null => /\ lo[n] <= lo[tree.left[n]] /\ hi[tree.left[n]] <= pos[n]
                                         /\ tree.parent[tree.left[n]] = n
                                         /\ tree.left[n] # tree.right[n]
               /\ tree.right[n] # Null => /\ pos[n] <= lo[tree.right[n]]
                                          /\ hi[tree.right[n]] <= hi[n]
                                          /\ tree.parent[tree.right[n]] = n
    BY <1>1, <1>2, <2>3 DEF Ordered, Linked, Kids
  <2>. QED  BY <2>1, <2>2, <2>3 DEF Placed, Shaped
<1>4. Ranged(T, pos, lo, hi)
  <2>1. \A x, n \in T : lo[n] < pos[x] /\ pos[x] < hi[n] => Between(tree, T, pos, lo, hi, x, n)
    BY <1>1, <1>2, BetweenBounds
  <2>2. \A x, n \in T : pos[x] = pos[n] => x = n  BY PositionsDiffer
  <2>3. ASSUME NEW x \in T
        PROVE  tree.root \in T /\ lo[tree.root] < pos[x] /\ pos[x] < hi[tree.root]
    <3>1. CASE x = tree.root  BY <1>3, <2>3, <3>1 DEF Placed
    <3>2. CASE x # tree.root
      <4>1. tree.root \in T /\ Inside(tree, T, lo, hi, x, tree.root)
        BY Zenon, <1>1, <1>2, <3>2, AllInsideRoot
      <4>2. PICK c \in T : c \in Kids(tree, tree.root) /\ lo[c] <= lo[x] /\ hi[x] <= hi[c]
        BY <4>1 DEF Inside
      <4>3. lo[tree.root] <= lo[c] /\ hi[c] <= hi[tree.root]
        BY <1>2, <1>3, <4>1, <4>2 DEF Placed, Kids
      <4>. QED  BY <1>3, <2>3, <4>1, <4>2, <4>3 DEF Placed
    <3>. QED  BY <3>1, <3>2
  <2>. QED  BY <2>1, <2>2, <2>3 DEF Ranged, InKeyOrder
<1>. QED  BY Zenon, <1>3, <1>4

\* What the bounds of a child are to the other nodes.
LEMMA KidBounds ==
  ASSUME NEW T, NEW top, NEW pos, NEW lo, NEW hi, Placed(T, top, pos, lo, hi),
         Ranged(T, pos, lo, hi), NEW n \in T, NEW c \in T, c \in Kids(tree, n)
  PROVE  /\ lo[n] <= lo[c] /\ hi[c] <= hi[n] /\ hi[c] - lo[c] < hi[n] - lo[n]
         /\ c = tree.left[n] =>
              /\ hi[c] <= pos[n] /\ c # tree.right[n]
              /\ \A x \in T : /\ lo[c] < pos[x] <=> lo[n] < pos[x]
                              /\ hi[c] <= pos[x] <=> pos[n] <= pos[x]
         /\ c = tree.right[n] =>
              /\ pos[n] <= lo[c]
              /\ \A x \in T : /\ lo[c] < pos[x] <=> pos[n] < pos[x]
                              /\ hi[c] <= pos[x] <=> hi[n] <= pos[x]
<1>1. /\ Null \notin T
      /\ \A x \in T : /\ lo[x] \in Int /\ hi[x] \in Int /\ pos[x] \in Int
                      /\ lo[x] < pos[x] /\ pos[x] < hi[x]
  BY DEF Placed
<1>2. /\ c = tree.left[n] => lo[n] <= lo[c] /\ hi[c] <= pos[n] /\ c # tree.right[n]
      /\ c = tree.right[n] => pos[n] <= lo[c] /\ hi[c] <= hi[n]
  BY <1>1 DEF Placed
<1>3. ASSUME NEW x \in T
      PROVE  /\ c = tree.left[n] => /\ lo[c] < pos[x] <=> lo[n] < pos[x]
                                    /\ hi[c] <= pos[x] <=> pos[n] <= pos[x]
             /\ c = tree.right[n] => /\ lo[c] < pos[x] <=> pos[n] < pos[x]
                                     /\ hi[c] <= pos[x] <=> hi[n] <= pos[x]
  <2>1. CASE lo[n] < pos[x] /\ pos[x] < hi[n]
    <3>1. Between(tree, T, pos, lo, hi, x, n)  BY <2>1 DEF Ranged
    <3>. QED  BY <1>1, <1>2, <2>1, <3>1 DEF Between
  <2>2. CASE ~(lo[n] < pos[x] /\ pos[x] < hi[n])  BY <1>1, <1>2, <2>2
  <2>. QED  BY <2>1, <2>2
<1>4. lo[n] <= lo[c] /\ hi[c] <= hi[n] /\ hi[c] - lo[c] < hi[n] - lo[n]
  BY <1>1, <1>2 DEF Kids
<1>. QED  BY <1>2, <1>3, <1>4

\* The keys do not fall along the order.
LEMMA KeysRise ==
  ASSUME NEW T, NEW top, NEW pos, NEW lo, NEW hi, Placed(T, top, pos, lo, hi),
         Ranged(T, pos, lo, hi), NEW x \in T, NEW n \in T, pos[x] <= pos[n]
  PROVE  KeyOf[x] <= KeyOf[n]
BY DEF Placed, Ranged

\* A set in which every node has one of a lower number is empty.
Sinks(rank, Bad) == \A n \in Bad : \E m \in Bad : rank[m] < rank[n]

LEMMA NoLowest ==
  ASSUME NEW D, NEW W \in Nat, NEW rank \in [D -> 0 .. W], NEW Bad, Bad \subseteq D,
         Sinks(rank, Bad)
  PROVE  Bad = {}
<1>1. SUFFICES ASSUME Bad # {} PROVE FALSE  OBVIOUS
<1>2. PICK n \in Bad : \A m \in Bad : rank[n] <= rank[m]  BY Zenon, <1>1, LeastRank
<1>3. PICK m \in Bad : rank[m] < rank[n]  BY <1>2 DEF Sinks
<1>4. rank[m] \in Int /\ rank[n] \in Int /\ rank[n] <= rank[m]  BY <1>2, <1>3
<1>. QED  BY <1>3, <1>4

\* No set of nodes goes on for ever to narrower bounds, or to wider ones.
Narrows(lo, hi, Bad) == \A n \in Bad : \E m \in Bad : hi[m] - lo[m] < hi[n] - lo[n]
Widens(lo, hi, Bad) == \A n \in Bad : \E m \in Bad : hi[n] - lo[n] < hi[m] - lo[m]

LEMMA NoEndlessPath ==
  ASSUME NEW T, NEW top, NEW pos, NEW lo, NEW hi, Placed(T, top, pos, lo, hi),
         NEW Bad, Bad \subseteq T, Narrows(lo, hi, Bad) \/ Widens(lo, hi, Bad)
  PROVE  Bad = {}
<1>1. top \in Nat /\ \A n \in T : hi[n] \in 0 .. top /\ lo[n] \in 0 .. top /\ lo[n] < hi[n]
  BY DEF Placed
<1>2. PICK size, climb : /\ size = [n \in T |-> hi[n] - lo[n]]
                         /\ climb = [n \in T |-> top - (hi[n] - lo[n])]
  OBVIOUS
<1>3. size \in [T -> 0 .. top] /\ climb \in [T -> 0 .. top]  BY <1>1, <1>2
<1>4. Narrows(lo, hi, Bad) => Sinks(size, Bad)  BY <1>2 DEF Narrows, Sinks
<1>5. Widens(lo, hi, Bad) => Sinks(climb, Bad)  BY <1>1, <1>2 DEF Widens, Sinks
<1>. QED  BY Zenon, <1>1, <1>3, <1>4, <1>5, NoLowest

\* A node without a child on one side.
LEMMA NothingLeft ==
  ASSUME NEW T, NEW top, NEW pos, NEW lo, NEW hi, Placed(T, top, pos, lo, hi),
         Ranged(T, pos, lo, hi), NEW m \in T, NEW x \in T
  PROVE  /\ tree.left[m] = Null /\ pos[x] < pos[m] => pos[x] <= lo[m]
         /\ tree.right[m] = Null /\ pos[m] < pos[x] => hi[m] <= pos[x]
<1>1. /\ Null \notin T
      /\ \A y \in T : /\ lo[y] \in Int /\ hi[y] \in Int /\ pos[y] \in Int
                      /\ lo[y] < pos[y] /\ pos[y] < hi[y]
  BY DEF Placed
<1>2. CASE lo[m] < pos[x] /\ pos[x] < hi[m]
  <2>1. Between(tree, T, pos, lo, hi, x, m)  BY <1>2 DEF Ranged
  <2>. QED  BY <1>1, <1>2, <2>1 DEF Between
<1>3. CASE ~(lo[m] < pos[x] /\ pos[x] < hi[m])  BY <1>1, <1>3
<1>. QED  BY <1>2, <1>3

-----------------------------------------------------------------------------
(* The red-black tree: what the loops find *)

\* The part below m of the sequence from left to right.
Listed(T, pos, lo, hi, m, q) ==
  /\ \A i \in 1 .. Len(q) : q[i] \in T /\ lo[m] < pos[q[i]] /\ pos[q[i]] < hi[m]
  /\ \A i, j \in 1 .. Len(q) : i < j => pos[q[i]] < pos[q[j]]
  /\ \A b \in T : lo[m] < pos[b] /\ pos[b] < hi[m] => \E i \in 1 .. Len(q) : q[i] = b

LEMMA ListedBelow ==
  ASSUME NEW top, NEW pos, NEW lo, NEW hi, NEW T, Linked(tree, T), Ordered(tree, T, top, pos, lo, hi),
         NEW n \in T, NEW q \in Seq(Node), NEW r \in Seq(Node),
         IF tree.left[n] = Null THEN q = <<>> ELSE Listed(T, pos, lo, hi, tree.left[n], q),
         IF tree.right[n] = Null THEN r = <<>> ELSE Listed(T, pos, lo, hi, tree.right[n], r)
  PROVE  Listed(T, pos, lo, hi, n, q \o <<n>> \o r)
<1>1. T \subseteq Node /\ n \in Node /\ tree.left[n] \in T \cup {Null}
        /\ tree.right[n] \in T \cup {Null} /\ Null \notin T
  BY KeysAreRight DEF Linked
<1>2. /\ \A b \in T : pos[b] \in Nat /\ lo[b] \in Nat /\ hi[b] \in Nat
      /\ lo[n] < pos[n] /\ pos[n] < hi[n]
      /\ tree.left[n] # Null => lo[n] <= lo[tree.left[n]] /\ hi[tree.left[n]] <= pos[n]
      /\ tree.right[n] # Null => pos[n] <= lo[tree.right[n]] /\ hi[tree.right[n]] <= hi[n]
  BY <1>1 DEF Ordered
<1> DEFINE z == q \o <<n>> \o r
<1>3. /\ Len(q) \in Nat /\ Len(r) \in Nat /\ Len(z) = Len(q) + 1 + Len(r)
      /\ \A i \in 1 .. Len(q) : z[i] = q[i]
      /\ z[Len(q) + 1] = n
      /\ \A i \in 1 .. Len(r) : z[Len(q) + 1 + i] = r[i]
  BY <1>1
<1>4. \A i \in 1 .. Len(q) : q[i] \in T /\ lo[n] < pos[q[i]] /\ pos[q[i]] < pos[n]
  <2>1. CASE tree.left[n] = Null  BY <2>1
  <2>2. CASE tree.left[n] # Null  BY <1>1, <1>2, <2>2 DEF Listed
  <2>. QED  BY <2>1, <2>2
<1>5. \A i \in 1 .. Len(r) : r[i] \in T /\ pos[n] < pos[r[i]] /\ pos[r[i]] < hi[n]
  <2>1. CASE tree.right[n] = Null  BY <2>1
  <2>2. CASE tree.right[n] # Null  BY <1>1, <1>2, <2>2 DEF Listed
  <2>. QED  BY <2>1, <2>2
<1>6. /\ \A i, j \in 1 .. Len(q) : i < j => pos[q[i]] < pos[q[j]]
      /\ \A i, j \in 1 .. Len(r) : i < j => pos[r[i]] < pos[r[j]]
  BY DEF Listed
<1> HIDE DEF z
<1>7. ASSUME NEW i \in 1 .. Len(z)
      PROVE  \/ i \in 1 .. Len(q) /\ z[i] = q[i]
             \/ i = Len(q) + 1 /\ z[i] = n
             \/ i - Len(q) - 1 \in 1 .. Len(r) /\ z[i] = r[i - Len(q) - 1]
  <2>1. CASE i <= Len(q)  BY <1>3, <2>1
  <2>2. CASE i = Len(q) + 1  BY <1>3, <2>2
  <2>3. CASE i > Len(q) + 1
    <3>1. i - Len(q) - 1 \in 1 .. Len(r) /\ i = Len(q) + 1 + (i - Len(q) - 1)
      BY <1>3, <2>3
    <3>. QED  BY <1>3, <3>1
  <2>. QED  BY <1>3, <2>1, <2>2, <2>3
<1>8. \A i \in 1 .. Len(z) : z[i] \in T /\ lo[n] < pos[z[i]] /\ pos[z[i]] < hi[n]
  <2> SUFFICES ASSUME NEW i \in 1 .. Len(z)
               PROVE  z[i] \in T /\ lo[n] < pos[z[i]] /\ pos[z[i]] < hi[n]
    OBVIOUS
  <2>1. CASE i \in 1 .. Len(q) /\ z[i] = q[i]
    <3>1. q[i] \in T /\ lo[n] < pos[q[i]] /\ pos[q[i]] < pos[n]  BY <1>4, <2>1
    <3>. QED  BY <1>2, <2>1, <3>1
  <2>2. CASE z[i] = n  BY <1>2, <2>2
  <2>3. CASE i - Len(q) - 1 \in 1 .. Len(r) /\ z[i] = r[i - Len(q) - 1]
    <3>1. PICK j \in 1 .. Len(r) : z[i] = r[j]  BY <2>3
    <3>. QED  BY <1>2, <1>5, <3>1
  <2>. QED  BY <1>7, <2>1, <2>2, <2>3
<1>9. \A i, j \in 1 .. Len(z) : i < j => pos[z[i]] < pos[z[j]]
  <2> SUFFICES ASSUME NEW i \in 1 .. Len(z), NEW j \in 1 .. Len(z), i < j
               PROVE  pos[z[i]] < pos[z[j]]
    OBVIOUS
  <2>1. CASE i \in 1 .. Len(q) /\ z[i] = q[i]
    <3>1. q[i] \in T /\ pos[q[i]] < pos[n]  BY <1>4, <2>1
    <3>2. CASE j \in 1 .. Len(q) /\ z[j] = q[j]  BY <1>6, <2>1, <3>2
    <3>3. CASE z[j] = n  BY <2>1, <3>1, <3>3
    <3>4. CASE j - Len(q) - 1 \in 1 .. Len(r) /\ z[j] = r[j - Len(q) - 1]
      <4>1. PICK k \in 1 .. Len(r) : z[j] = r[k]  BY <3>4
      <4>2. r[k] \in T /\ pos[n] < pos[r[k]]  BY <1>5
      <4>. QED  BY <1>2, <2>1, <3>1, <4>1, <4>2
    <3>. QED  BY <1>7, <3>2, <3>3, <3>4
  <2>2. CASE i = Len(q) + 1 /\ z[i] = n
    <3>1. j - Len(q) - 1 \in 1 .. Len(r) /\ z[j] = r[j - Len(q) - 1]
      BY <1>3, <1>7, <2>2
    <3>2. PICK k \in 1 .. Len(r) : z[j] = r[k]  BY <3>1
    <3>. QED  BY <1>5, <2>2, <3>2
  <2>3. CASE i - Len(q) - 1 \in 1 .. Len(r) /\ z[i] = r[i - Len(q) - 1]
    <3>1. j - Len(q) - 1 \in 1 .. Len(r) /\ z[j] = r[j - Len(q) - 1]
      BY <1>3, <1>7, <2>3
    <3>2. i - Len(q) - 1 < j - Len(q) - 1  BY <1>3
    <3>. QED  BY <1>6, <2>3, <3>1, <3>2
  <2>. QED  BY <1>7, <2>1, <2>2, <2>3
<1>10. ASSUME NEW b \in T, lo[n] < pos[b] /\ pos[b] < hi[n]
       PROVE  \E i \in 1 .. Len(z) : z[i] = b
  <2>1. Between(tree, T, pos, lo, hi, b, n)  BY <1>10, BetweenBounds
  <2>2. CASE b = n  BY <1>3, <2>2
  <2>3. CASE tree.left[n] \in T /\ lo[tree.left[n]] < pos[b] /\ pos[b] < hi[tree.left[n]]
    <3>1. PICK i \in 1 .. Len(q) : q[i] = b  BY <1>1, <2>3 DEF Listed
    <3>. QED  BY <1>3, <3>1
  <2>4. CASE tree.right[n] \in T /\ lo[tree.right[n]] < pos[b] /\ pos[b] < hi[tree.right[n]]
    <3>1. PICK i \in 1 .. Len(r) : r[i] = b  BY <1>1, <2>4 DEF Listed
    <3>. QED  BY <1>3, <3>1
  <2>. QED  BY <2>1, <2>2, <2>3, <2>4 DEF Between
<1>11. Listed(T, pos, lo, hi, n, z)  BY <1>8, <1>9, <1>10 DEF Listed
<1>. QED  BY <1>11 DEF z

\* InOrder lists every node of the tree once, from left to right.
LEMMA InOrderLists ==
  ASSUME NEW T, NEW top, NEW pos, Shaped(tree, T, top, pos)
  PROVE  /\ R!InOrder[tree.root] \in Seq(Node)
         /\ \A i \in 1 .. Len(R!InOrder[tree.root]) : R!InOrder[tree.root][i] \in T
         /\ \A i, j \in 1 .. Len(R!InOrder[tree.root]) :
              i < j => pos[R!InOrder[tree.root][i]] < pos[R!InOrder[tree.root][j]]
         /\ \A b \in T : \E i \in 1 .. Len(R!InOrder[tree.root]) : R!InOrder[tree.root][i] = b
<1>1. /\ Linked(tree, T) /\ T \subseteq Node /\ Null \notin T /\ tree.root \in T \cup {Null}
      /\ \A n \in T : tree.left[n] \in T \cup {Null} /\ tree.right[n] \in T \cup {Null}
  BY KeysAreRight DEF Shaped, Linked
<1>2. PICK lo, hi \in [Node -> 0 .. top] : Ordered(tree, T, top, pos, lo, hi)
  BY DEF Shaped, InOrderBy
<1>3. PICK W, rank : Ranked(tree, W, rank)  BY RankExists
<1>4. PICK f : /\ f = R!InOrder
               /\ f \in [Node \cup {Null} -> Seq(Node)]
               /\ f[Null] = <<>>
               /\ \A n \in Node : f[n] = f[tree.left[n]] \o <<n>> \o f[tree.right[n]]
  BY Zenon, <1>3, InOrderIs
<1>5. \A n \in T : Listed(T, pos, lo, hi, n, f[n])
  <2> DEFINE Q == {n \in T : ~Listed(T, pos, lo, hi, n, f[n])}
  <2>1. Q \subseteq Node  BY <1>1
  <2>2. ASSUME NEW n \in Q, \A m \in Q : rank[n] <= rank[m]
        PROVE  FALSE
    <3>1. n \in T /\ n \in Node  BY <1>1
    <3>2. /\ rank[tree.left[n]] < rank[n] /\ rank[tree.right[n]] < rank[n]
          /\ rank[n] \in Int /\ rank[tree.left[n]] \in Int /\ rank[tree.right[n]] \in Int
      BY <1>1, <1>3, <3>1 DEF Ranked
    <3>3. tree.left[n] \notin Q /\ tree.right[n] \notin Q  BY <2>2, <3>2
    <3>4. f[tree.left[n]] \in Seq(Node) /\ f[tree.right[n]] \in Seq(Node)
      BY <1>1, <1>4, <3>1
    <3>5. /\ IF tree.left[n] = Null THEN f[tree.left[n]] = <<>>
             ELSE Listed(T, pos, lo, hi, tree.left[n], f[tree.left[n]])
          /\ IF tree.right[n] = Null THEN f[tree.right[n]] = <<>>
             ELSE Listed(T, pos, lo, hi, tree.right[n], f[tree.right[n]])
      BY <1>1, <1>4, <3>1, <3>3
    <3>6. Listed(T, pos, lo, hi, n, f[tree.left[n]] \o <<n>> \o f[tree.right[n]])
      BY <1>1, <1>2, <3>1, <3>4, <3>5, ListedBelow
    <3>. QED  BY <1>4, <3>1, <3>6
  <2>3. Q = {}
    <3>1. ASSUME Q # {} PROVE FALSE
      <4> HIDE DEF Q
      <4>1. \E n \in Q : \A m \in Q : rank[n] <= rank[m]
        BY <1>3, <2>1, <3>1, RankIsGiven
      <4>. QED  BY <2>2, <4>1
    <3>. QED  BY <3>1
  <2>. QED  BY <2>3
<1>6. CASE tree.root = Null
  <2>1. T = {}  BY <1>1, <1>2, <1>6, AllInsideRoot
  <2>. QED  BY <1>4, <1>6, <2>1
<1>7. CASE tree.root # Null
  <2>1. tree.root \in T /\ Listed(T, pos, lo, hi, tree.root, f[tree.root])
    BY <1>1, <1>5, <1>7
  <2>2. ASSUME NEW b \in T
        PROVE  lo[tree.root] < pos[b] /\ pos[b] < hi[tree.root]
    <3>1. CASE b = tree.root  BY <1>2, <3>1 DEF Ordered
    <3>2. CASE b # tree.root
      <4>1. PICK c \in T : c \in Kids(tree, tree.root) /\ lo[c] <= lo[b] /\ hi[b] <= hi[c]
        BY <1>1, <1>2, <3>2, AllInsideRoot DEF Inside
      <4>. QED  BY <1>1, <1>2, <2>1, <4>1 DEF Ordered, Kids
    <3>. QED  BY <3>1, <3>2
  <2>3. f[tree.root] \in Seq(Node)  BY <1>1, <1>4, <2>1
  <2>. QED  BY <1>4, <2>1, <2>2, <2>3 DEF Listed
<1>. QED  BY <1>6, <1>7

\* Below p there is room for a node with key k.
Room(T, pos, k, p) ==
  /\ p \in T
  /\ IF KeyOf[p] >= k THEN tree.left[p] = Null ELSE tree.right[p] = Null

Splits(pos, k, p, b) == /\ pos[b] < pos[p] => KeyOf[b] <= k
                        /\ pos[p] < pos[b] => KeyOf[b] >= k

LEMMA InsertionPointFits ==
  ASSUME NEW T, NEW top, NEW pos, Shaped(tree, T, top, pos), InKeyOrder(T, pos), NEW k \in Int,
         tree.root # Null
  PROVE  /\ Room(T, pos, k, R!InsertionPoint(k))
         /\ \A b \in T : Splits(pos, k, R!InsertionPoint(k), b)
<1>1. PICK lo, hi : Placed(T, top, pos, lo, hi) /\ Ranged(T, pos, lo, hi)
  BY Zenon, PlacesExist
<1>2. PICK f : InsertionLoop(f, k) /\ R!InsertionPoint(k) = f[tree.root]
  BY InsertionPointIs DEF Shaped, Linked
<1>3. /\ top \in Nat /\ tree.root \in T /\ Null \notin T
      /\ \A n \in T : /\ lo[n] \in Int /\ pos[n] \in Int /\ hi[n] \in Int /\ KeyOf[n] \in Int
                      /\ lo[n] < pos[n] /\ pos[n] < hi[n] /\ n \in Node
                      /\ tree.left[n] \in T \cup {Null} /\ tree.right[n] \in T \cup {Null}
  BY <1>1 DEF Placed
<1>4. \A x, n \in T : pos[x] <= pos[n] => KeyOf[x] <= KeyOf[n]  BY <1>1, KeysRise
<1> DEFINE Found(m) ==
             /\ Room(T, pos, k, f[m]) /\ lo[m] < pos[f[m]] /\ pos[f[m]] < hi[m]
             /\ \A b \in T : lo[m] < pos[b] /\ pos[b] < hi[m] => Splits(pos, k, f[m], b)
           Follow(n) == IF KeyOf[n] >= k THEN tree.left[n] ELSE tree.right[n]
           Bad == {n \in T : ~Found(n)}
<1>5. ASSUME NEW n \in T, Follow(n) = Null
      PROVE  Found(n)
  <2>1. f[n] = n  BY <1>2, <1>3, <1>5 DEF InsertionLoop
  <2>2. Room(T, pos, k, n)  BY <1>5 DEF Room
  <2>3. \A b \in T : /\ tree.left[n] = Null /\ pos[b] < pos[n] => pos[b] <= lo[n]
                     /\ tree.right[n] = Null /\ pos[n] < pos[b] => hi[n] <= pos[b]
    BY <1>1, NothingLeft
  <2>4. ASSUME NEW b \in T, lo[n] < pos[b], pos[b] < hi[n]
        PROVE  Splits(pos, k, n, b)
    BY <1>3, <1>4, <1>5, <2>3, <2>4 DEF Splits
  <2>. QED  BY <1>3, <2>1, <2>2, <2>4
<1>6. ASSUME NEW n \in Bad
      PROVE  \E m \in Bad : hi[m] - lo[m] < hi[n] - lo[n]
  <2>1. n \in T /\ ~Found(n)  BY Zenon, <1>6
  <2>2. PICK c \in T : c = Follow(n) /\ c \in Kids(tree, n)
    BY <1>3, <1>5, <2>1 DEF Kids
  <2>3. f[n] = f[c]  BY <1>2, <1>3, <2>1, <2>2 DEF InsertionLoop
  <2>4. /\ lo[n] <= lo[c] /\ hi[c] <= hi[n] /\ hi[c] - lo[c] < hi[n] - lo[n]
        /\ \A x \in T : IF KeyOf[n] >= k
                        THEN /\ lo[c] < pos[x] <=> lo[n] < pos[x]
                             /\ hi[c] <= pos[x] <=> pos[n] <= pos[x]
                        ELSE /\ lo[c] < pos[x] <=> pos[n] < pos[x]
                             /\ hi[c] <= pos[x] <=> hi[n] <= pos[x]
    BY <1>1, <2>1, <2>2, KidBounds
  <2>5. ASSUME Found(c)
        PROVE  Found(n)
    <3>1. PICK p \in T : p = f[n] /\ p = f[c]  BY <2>3, <2>5 DEF Room
    <3>2. ASSUME NEW b \in T, lo[n] < pos[b], pos[b] < hi[n]
          PROVE  Splits(pos, k, p, b)
      <4>1. CASE lo[c] < pos[b] /\ pos[b] < hi[c]  BY <2>5, <3>1, <4>1
      <4>2. CASE ~(lo[c] < pos[b] /\ pos[b] < hi[c])
        <5>1. lo[c] < pos[p] /\ pos[p] < hi[c]  BY <2>5, <3>1
        <5> HIDE DEF Found
        <5>. QED  BY <1>3, <1>4, <2>1, <2>4, <3>2, <4>2, <5>1 DEF Splits
      <4>. QED  BY <4>1, <4>2
    <3>. QED  BY <1>3, <2>1, <2>3, <2>4, <2>5, <3>1, <3>2
  <2> HIDE DEF Found
  <2>. QED  BY <2>1, <2>2, <2>4, <2>5
<1> HIDE DEF Found
<1>7. Bad = {}
  <2>1. Bad \subseteq T  OBVIOUS
  <2> HIDE DEF Bad
  <2>2. Narrows(lo, hi, Bad)  BY Zenon, <1>6 DEF Narrows
  <2>. QED  BY Zenon, <1>1, <2>1, <2>2, NoEndlessPath
<1>8. Found(tree.root)  BY <1>3, <1>7
<1>9. \A b \in T : lo[tree.root] < pos[b] /\ pos[b] < hi[tree.root]  BY <1>1 DEF Ranged
<1>. QED  BY Zenon, <1>2, <1>8, <1>9 DEF Found

\* The predecessor y of x has no right child, and comes right before x.
Before(T, pos, x, y) ==
  /\ y \in T /\ y # x /\ tree.right[y] = Null /\ pos[y] < pos[x]
  /\ \A b \in T : ~(pos[y] < pos[b] /\ pos[b] < pos[x])
  /\ tree.parent[y] \in T \ {y} /\ tree.parent[x] \notin {x, y}
  /\ tree.parent[y] = x \/ tree.parent[y] # tree.parent[x]

LEMMA PredecessorComesBefore ==
  ASSUME NEW T, NEW top, NEW pos, Shaped(tree, T, top, pos), InKeyOrder(T, pos), NEW x \in T,
         tree.left[x] # Null
  PROVE  Before(T, pos, x, R!Predecessor(x))
<1>1. PICK lo, hi : Placed(T, top, pos, lo, hi) /\ Ranged(T, pos, lo, hi)
  BY Zenon, PlacesExist
<1>2. PICK f : RightLoop(f) /\ R!Predecessor(x) = f[tree.left[x]]
  BY PredecessorIs DEF Shaped, Linked
<1>3. /\ top \in Nat /\ Null \notin T /\ tree.root \in T /\ T \subseteq Node
      /\ \A n \in T : /\ lo[n] \in Int /\ pos[n] \in Int /\ hi[n] \in Int
                      /\ lo[n] < pos[n] /\ pos[n] < hi[n]
                      /\ lo[tree.root] < pos[n] /\ pos[n] < hi[tree.root]
                      /\ tree.left[n] \in T \cup {Null} /\ tree.right[n] \in T \cup {Null}
                      /\ tree.parent[n] \in T \cup {Null} /\ (tree.parent[n] = Null <=> n = tree.root)
                      /\ tree.parent[n] # Null => n \in Kids(tree, tree.parent[n])
  BY <1>1 DEF Placed, Ranged
<1>4. \A n, c \in T : c \in Kids(tree, n) =>
        /\ lo[n] <= lo[c] /\ hi[c] <= hi[n] /\ hi[c] - lo[c] < hi[n] - lo[n]
        /\ c = tree.left[n] => /\ hi[c] <= pos[n]
                               /\ \A b \in T : hi[c] <= pos[b] <=> pos[n] <= pos[b]
        /\ c = tree.right[n] => /\ pos[n] <= lo[c]
                                /\ \A b \in T : hi[c] <= pos[b] <=> hi[n] <= pos[b]
  BY <1>1, KidBounds
<1> DEFINE Found(m) ==
             /\ f[m] \in T /\ tree.right[f[m]] = Null /\ lo[m] <= lo[f[m]] /\ hi[f[m]] <= hi[m]
             /\ \A b \in T : pos[b] < hi[m] => pos[b] <= pos[f[m]]
           Bad == {n \in T : ~Found(n)}
<1>5. ASSUME NEW n \in T, tree.right[n] = Null
      PROVE  Found(n)
  <2>1. f[n] = n  BY <1>2, <1>3, <1>5 DEF RightLoop
  <2>2. \A b \in T : pos[n] < pos[b] => hi[n] <= pos[b]  BY <1>1, <1>5, NothingLeft
  <2>. QED  BY <1>3, <1>5, <2>1, <2>2
<1>6. ASSUME NEW n \in Bad
      PROVE  \E m \in Bad : hi[m] - lo[m] < hi[n] - lo[n]
  <2>1. n \in T /\ ~Found(n)  BY Zenon, <1>6
  <2>2. PICK c \in T : c = tree.right[n] /\ c \in Kids(tree, n)
    BY <1>3, <1>5, <2>1 DEF Kids
  <2>3. f[n] = f[c]  BY <1>2, <1>3, <2>1, <2>2 DEF RightLoop
  <2>4. /\ lo[n] <= lo[c] /\ hi[c] <= hi[n] /\ hi[c] - lo[c] < hi[n] - lo[n]
        /\ \A b \in T : hi[c] <= pos[b] <=> hi[n] <= pos[b]
    BY <1>4, <2>1, <2>2
  <2>5. Found(c) => Found(n)  BY <1>3, <2>1, <2>3, <2>4
  <2> HIDE DEF Found
  <2>. QED  BY <2>1, <2>2, <2>4, <2>5
<1> HIDE DEF Found
<1>7. Bad = {}
  <2>1. Bad \subseteq T  OBVIOUS
  <2> HIDE DEF Bad
  <2>2. Narrows(lo, hi, Bad)  BY Zenon, <1>6 DEF Narrows
  <2>. QED  BY Zenon, <1>1, <2>1, <2>2, NoEndlessPath
<1>8. PICK y, l \in T : l = tree.left[x] /\ l \in Kids(tree, x) /\ y = f[l] /\ Found(l)
  BY <1>3, <1>7 DEF Found, Kids
<1>9. /\ tree.right[y] = Null /\ lo[l] <= lo[y] /\ hi[y] <= hi[l] /\ hi[l] <= pos[x] /\ lo[x] <= lo[l]
       /\ \A b \in T : pos[b] < pos[x] => pos[b] <= pos[y]
  <2>1. \A b \in T : pos[b] < pos[x] => pos[b] < hi[l]  BY <1>3, <1>4, <1>8
  <2>. QED  BY <1>4, <1>8, <2>1 DEF Found
<1>10. pos[y] < pos[x] /\ y # x /\ \A b \in T : ~(pos[y] < pos[b] /\ pos[b] < pos[x])
  BY <1>3, <1>9
<1>11. \A n \in T : tree.parent[n] # n  BY <1>3, <1>4
<1>12. tree.parent[y] \in T \ {y}  BY <1>3, <1>9, <1>11
<1>13. tree.parent[x] # y  BY <1>3, <1>4, <1>9
<1>14. tree.parent[y] # tree.parent[x]
  <2>1. SUFFICES ASSUME NEW q \in T, q = tree.parent[x], q = tree.parent[y]
                 PROVE  FALSE
    BY <1>12
  <2>2. x \in Kids(tree, q) /\ y \in Kids(tree, q)  BY <1>3, <2>1
  <2>3. hi[y] <= lo[x] \/ hi[x] <= lo[y]  BY <1>3, <1>4, <1>10, <2>2 DEF Kids
  <2>. QED  BY <1>3, <1>9, <2>3
<1>. QED  BY <1>2, <1>8, <1>9, <1>10, <1>11, <1>12, <1>13, <1>14 DEF Before

-----------------------------------------------------------------------------
(* The red-black tree: the balance *)

\* Tree u is tree s with other colours.
Painted(s, u) ==
  u \in Tree /\ u.root = s.root /\ u.left = s.left /\ u.right = s.right /\ u.parent = s.parent

LEMMA PaintedShape ==
  ASSUME NEW s, NEW u, NEW T, NEW top, NEW pos, Shaped(s, T, top, pos), Painted(s, u)
  PROVE  Shaped(u, T, top, pos)
<1>1. InOrderBy(u, T, top, pos)  BY OrderKept DEF Shaped, Painted
<1>2. Linked(u, T)  BY DEF Shaped, Painted, Linked
<1>. QED  BY <1>1, <1>2 DEF Shaped, Painted

\* What n adds to the black nodes below its parent: itself if it is black and not the node
\* that is leaving, and the one that is missing below it if the loop of a deletion is at n.
Weight(s, n, gone, short) ==
  (IF s.colour[n] = R!Black /\ n # gone THEN 1 ELSE 0) + (IF n = short THEN 1 ELSE 0)

\* The black nodes below n are e[n] on every path, and a red node has a black parent; with
\* the exception ex, at which the loop of an insertion is.
EvenAt(s, ex, gone, short, e, n) ==
  /\ Null \in Kids(s, n) => e[n] = 0
  /\ s.parent[n] # Null => e[s.parent[n]] = e[n] + Weight(s, n, gone, short)
  /\ s.colour[n] = R!Red /\ n # ex => s.parent[n] # Null /\ s.colour[s.parent[n]] = R!Black

Even(s, T, ex, gone, short, e) ==
  e \in [Node -> Nat] /\ \A n \in T : EvenAt(s, ex, gone, short, e, n)

\* Other colours for a node p and the nodes below it: only these have to be looked at.
LEMMA EvenPainted ==
  ASSUME NEW s, NEW u, NEW T, NEW ex, NEW gone, NEW short, NEW e, Linked(s, T),
         Even(s, T, ex, gone, short, e), Painted(s, u),
         NEW p \in T, NEW ex2, NEW short2, NEW e2 \in [Node -> Nat],
         \A n \in T : n # p => e2[n] = e[n],
         \A n \in T : n # p /\ s.parent[n] # p =>
           /\ u.colour[n] = s.colour[n] /\ (n = short <=> n = short2)
           /\ n = ex => n = ex2 \/ (s.parent[n] # Null /\ u.colour[s.parent[n]] = R!Black)
           /\ s.parent[n] # Null /\ u.colour[n] = R!Red /\ s.colour[s.parent[n]] = R!Black =>
                u.colour[s.parent[n]] = R!Black,
         EvenAt(u, ex2, gone, short2, e2, p),
         \A n \in T : s.parent[n] = p => EvenAt(u, ex2, gone, short2, e2, n)
  PROVE  Even(u, T, ex2, gone, short2, e2)
<1>1. ASSUME NEW n \in T, n # p, s.parent[n] # p
      PROVE  EvenAt(u, ex2, gone, short2, e2, n)
  <2>1. EvenAt(s, ex, gone, short, e, n)  BY DEF Even
  <2>2. u.parent[n] = s.parent[n] /\ Kids(u, n) = Kids(s, n) /\ u.colour[n] = s.colour[n] /\ e2[n] = e[n]
    BY <1>1 DEF Painted, Kids
  <2>3. Weight(u, n, gone, short2) = Weight(s, n, gone, short)  BY <1>1, <2>2 DEF Weight
  <2>4. s.parent[n] # Null => e2[s.parent[n]] = e[s.parent[n]]  BY <1>1 DEF Linked
  <2>5. u.colour[n] = R!Red /\ n # ex2 => u.parent[n] # Null /\ u.colour[u.parent[n]] = R!Black
    BY <1>1, <2>1, <2>2 DEF EvenAt
  <2>6. Null \in Kids(u, n) => e2[n] = 0  BY <2>1, <2>2 DEF EvenAt
  <2>7. u.parent[n] # Null => e2[u.parent[n]] = e2[n] + Weight(u, n, gone, short2)
    BY <2>1, <2>2, <2>3, <2>4 DEF EvenAt
  <2>. QED  BY <2>5, <2>6, <2>7 DEF EvenAt
<1>. QED  BY <1>1 DEF Even

\* The same for a rotation: only the nodes that move, or that stand below one that moves.
LEMMA EvenTurned ==
  ASSUME NEW s, NEW v, NEW u, NEW T, NEW ex, NEW gone, NEW short, NEW e, Linked(s, T),
         Even(s, T, ex, gone, short, e), Painted(s, v),
         NEW old \in T, NEW new \in T, NEW inner \in T \cup {Null}, NEW outer \in T \cup {Null},
         NEW other \in T \cup {Null}, old # new,
         Kids(s, old) = {new, other}, Kids(s, new) = {inner, outer},
         Turned(v, u, T, old, new, inner, outer, other),
         NEW ex2, NEW short2, NEW e2 \in [Node -> Nat],
         \A n \in T : n \notin {old, new} => e2[n] = e[n],
         \A n \in T : n \notin {old, new, inner, outer, other} =>
           /\ v.colour[n] = s.colour[n] /\ (n = short <=> n = short2)
           /\ n = ex => n = ex2 \/ (s.parent[n] # Null /\ v.colour[s.parent[n]] = R!Black)
           /\ s.parent[n] # Null /\ v.colour[n] = R!Red /\ s.colour[s.parent[n]] = R!Black =>
                v.colour[s.parent[n]] = R!Black,
         \A n \in {old, new, inner, outer, other} : n # Null => EvenAt(u, ex2, gone, short2, e2, n)
  PROVE  Even(u, T, ex2, gone, short2, e2)
<1>1. ASSUME NEW n \in T, n \notin {old, new, inner, outer, other}
      PROVE  EvenAt(u, ex2, gone, short2, e2, n)
  <2>1. EvenAt(s, ex, gone, short, e, n)  BY DEF Even
  <2>2. u.parent[n] = s.parent[n] /\ (Null \in Kids(u, n) <=> Null \in Kids(s, n))
        /\ u.colour[n] = s.colour[n] /\ e2[n] = e[n]
    BY <1>1 DEF Painted, Kids, Turned
  <2>3. Weight(u, n, gone, short2) = Weight(s, n, gone, short)  BY <1>1, <2>2 DEF Weight
  <2>4. s.parent[n] # Null => s.parent[n] \in T /\ s.parent[n] \notin {old, new}
    BY <1>1 DEF Linked, Kids
  <2>5. u.colour[n] = R!Red /\ n # ex2 => u.parent[n] # Null /\ u.colour[u.parent[n]] = R!Black
    BY <1>1, <2>1, <2>2, <2>4 DEF EvenAt, Turned
  <2>6. Null \in Kids(u, n) => e2[n] = 0  BY <2>1, <2>2 DEF EvenAt
  <2>7. u.parent[n] # Null => e2[u.parent[n]] = e2[n] + Weight(u, n, gone, short2)
    BY <2>1, <2>2, <2>3, <2>4 DEF EvenAt
  <2>. QED  BY <2>5, <2>6, <2>7 DEF EvenAt
<1>2. Null \notin T  BY KeysAreRight DEF Linked
<1>. QED  BY <1>1, <1>2 DEF Even

-----------------------------------------------------------------------------
(* The red-black tree: rotations *)

\* What comes of a rotation that brings n above its parent.
Raised(s, n) ==
  IF n = s.right[s.parent[n]] THEN R!RotateLeft(s, s.parent[n]) ELSE R!RotateRight(s, s.parent[n])

\* The child of n on the side to which its parent goes, and the other one.
Inner(s, n) == IF n = s.right[s.parent[n]] THEN s.left[n] ELSE s.right[n]
Outer(s, n) == IF n = s.right[s.parent[n]] THEN s.right[n] ELSE s.left[n]
SiblingOf(s, n) == IF s.left[s.parent[n]] = n THEN s.right[s.parent[n]] ELSE s.left[s.parent[n]]

LEMMA RaisedIs ==
  ASSUME NEW s, NEW T, NEW top, NEW pos, Shaped(s, T, top, pos), NEW n \in T, s.parent[n] # Null
  PROVE  /\ Shaped(Raised(s, n), T, top, pos)
         /\ Turned(s, Raised(s, n), T, s.parent[n], n, Inner(s, n), Outer(s, n), SiblingOf(s, n))
<1> DEFINE p == s.parent[n]
<1>1. /\ Linked(s, T) /\ s \in Tree /\ T \subseteq Node /\ n \in Node /\ p \in T /\ p \in Node
      /\ InOrderBy(s, T, top, pos) /\ \A m \in Node \ T : s.left[m] = Null /\ s.right[m] = Null
  BY DEF Shaped, Linked
<1>2. n # p /\ s.parent[p] \notin {p, n}  BY ParentsDiffer
<1>3. n \in {s.left[p], s.right[p]} /\ (s.left[p] = s.right[p] => FALSE)
  BY <1>1, KeysAreRight DEF Linked
<1>4. CASE n = s.right[p]
  <2>1. s.left[p] # n  BY <1>3, <1>4
  <2>2. PICK u : u = R!RotateLeft(s, p)  OBVIOUS
  <2>3. RotatedLeft(s, p, n, u)  BY <1>1, <1>2, <1>4, <2>2, RotateLeftIs
  <2>4. Turned(s, u, T, p, n, s.left[n], s.right[n], s.left[p])
    BY <1>1, <1>2, <1>4, <2>3, TurnedLeft
  <2>5. InOrderBy(u, T, top, pos)  BY <1>1, <1>2, <1>4, <2>3, OrderTurnedLeft
  <2>6. Shaped(u, T, top, pos)  BY <1>1, <2>4, <2>5 DEF Shaped, Turned
  <2>. QED  BY <1>4, <2>1, <2>2, <2>4, <2>6 DEF Raised, Inner, Outer, SiblingOf
<1>5. CASE n # s.right[p]
  <2>1. s.left[p] = n  BY <1>3, <1>5
  <2>2. PICK u : u = R!RotateRight(s, p)  OBVIOUS
  <2>3. RotatedRight(s, p, n, u)  BY <1>1, <1>2, <2>1, <2>2, RotateRightIs
  <2>4. Turned(s, u, T, p, n, s.right[n], s.left[n], s.right[p])
    BY <1>1, <1>2, <2>1, <2>3, TurnedRight
  <2>5. InOrderBy(u, T, top, pos)  BY <1>1, <1>2, <2>1, <2>3, OrderTurnedRight
  <2>6. Shaped(u, T, top, pos)  BY <1>1, <2>4, <2>5 DEF Shaped, Turned
  <2>. QED  BY <1>5, <2>1, <2>2, <2>4, <2>6 DEF Raised, Inner, Outer, SiblingOf
<1>. QED  BY <1>4, <1>5

\* The nodes around n, which has a parent.
Family(s, T, n) ==
  /\ s.parent[n] \in T /\ s.parent[n] # n /\ s.parent[s.parent[n]] \notin {n, s.parent[n]}
  /\ SiblingOf(s, n) \in T \cup {Null} /\ SiblingOf(s, n) \notin {n, s.parent[n]}
  /\ SiblingOf(s, n) # Null => s.parent[SiblingOf(s, n)] = s.parent[n]
  /\ Kids(s, s.parent[n]) = {n, SiblingOf(s, n)}
  /\ Inner(s, n) \in T \cup {Null} /\ Outer(s, n) \in T \cup {Null}
  /\ Inner(s, n) # Null => s.parent[Inner(s, n)] = n
       /\ Inner(s, n) \notin {n, s.parent[n], SiblingOf(s, n), Outer(s, n)}
  /\ Outer(s, n) # Null => s.parent[Outer(s, n)] = n
       /\ Outer(s, n) \notin {n, s.parent[n], SiblingOf(s, n), Inner(s, n)}
  /\ Kids(s, n) = {Inner(s, n), Outer(s, n)}

LEMMA Around ==
  ASSUME NEW s, NEW T, NEW top, NEW pos, Shaped(s, T, top, pos), NEW n \in T, s.parent[n] # Null
  PROVE  Family(s, T, n)
<1> DEFINE p == s.parent[n]
<1>1. /\ Linked(s, T) /\ T \subseteq Node /\ Null \notin T
  BY KeysAreRight DEF Shaped, Linked
<1>2. p \in T /\ p # n /\ s.parent[p] \notin {n, p}  BY ParentsDiffer
<1>3. \A m \in T : s.parent[m] # Null => s.parent[m] # m /\ s.parent[s.parent[m]] # m
  BY ParentsDiffer
<1>4. /\ n \in {s.left[p], s.right[p]}
      /\ \A m \in {n, p} : /\ s.left[m] \in T \cup {Null} /\ s.right[m] \in T \cup {Null}
                           /\ s.left[m] # Null => s.parent[s.left[m]] = m /\ s.left[m] # s.right[m]
                           /\ s.right[m] # Null => s.parent[s.right[m]] = m
  BY <1>1, <1>2 DEF Linked
<1>5. /\ SiblingOf(s, n) \in T \cup {Null} /\ SiblingOf(s, n) # n
      /\ SiblingOf(s, n) # Null => s.parent[SiblingOf(s, n)] = p
      /\ Kids(s, p) = {n, SiblingOf(s, n)}
  BY <1>1, <1>2, <1>4 DEF SiblingOf, Kids
<1>6. SiblingOf(s, n) # p  BY <1>1, <1>2, <1>3, <1>5
<1>7. /\ Inner(s, n) \in T \cup {Null} /\ Outer(s, n) \in T \cup {Null}
      /\ Inner(s, n) # Null => s.parent[Inner(s, n)] = n /\ Inner(s, n) # Outer(s, n)
      /\ Outer(s, n) # Null => s.parent[Outer(s, n)] = n /\ Inner(s, n) # Outer(s, n)
      /\ Kids(s, n) = {Inner(s, n), Outer(s, n)}
  BY <1>1, <1>4 DEF Inner, Outer, Kids
<1>8. \A m \in T : s.parent[m] = n => m \notin {n, p, SiblingOf(s, n)}
  BY <1>1, <1>2, <1>3, <1>5
<1>. QED  BY <1>2, <1>5, <1>6, <1>7, <1>8 DEF Family

-----------------------------------------------------------------------------
(* The red-black tree: the cases of rbt_insert_fix *)

\* The loop of an insertion is at n, a red node below a red one.
Clash(s, T, top, pos, n, e) ==
  /\ Shaped(s, T, top, pos) /\ Even(s, T, n, Null, Null, e)
  /\ n \in T /\ s.colour[n] = R!Red /\ s.parent[n] # Null /\ s.colour[s.parent[n]] = R!Red

\* Around a clash: the grandparent is there and black, as are the other nodes below a red one.
LEMMA AroundClash ==
  ASSUME NEW s, NEW T, NEW top, NEW pos, NEW n, NEW e, Clash(s, T, top, pos, n, e)
  PROVE  LET p == s.parent[n]
             g == s.parent[s.parent[n]]
         IN  /\ p \in T /\ g \in T /\ p # n /\ g # p /\ g # n
             /\ s.colour[g] = R!Black
             /\ e[g] = e[p] /\ e[p] = e[n]
             /\ \A m \in T : s.parent[m] = n \/ (s.parent[m] = p /\ m # n) =>
                  s.colour[m] = R!Black /\ e[p] = e[m] + 1
<1> DEFINE p == s.parent[n]
           g == s.parent[s.parent[n]]
<1>1. /\ n \in T /\ p # Null /\ s.colour[n] = R!Red /\ s.colour[p] = R!Red
      /\ Linked(s, T) /\ s \in Tree /\ T \subseteq Node /\ Null \notin T
      /\ e \in [Node -> Nat] /\ \A m \in T : EvenAt(s, n, Null, Null, e, m)
  BY KeysAreRight DEF Clash, Shaped, Linked, Even
<1>2. p \in T /\ p # n /\ g \notin {n, p}  BY ParentsDiffer DEF Clash
<1>3. g # Null /\ s.colour[g] = R!Black  BY <1>1, <1>2 DEF EvenAt
<1>4. g \in T  BY <1>1, <1>2, <1>3 DEF Linked
<1>5. R!Red # R!Black  BY DEF R!Red, R!Black
<1>6. \A m \in T : m # Null /\ s.colour[m] \in {R!Red, R!Black} /\ e[m] \in Nat
  BY <1>1 DEF Tree
<1>7. \A m \in T : Weight(s, m, Null, Null) = IF s.colour[m] = R!Black THEN 1 ELSE 0
  BY <1>6 DEF Weight
<1>8. e[g] = e[p] /\ e[p] = e[n]  BY <1>1, <1>2, <1>3, <1>4, <1>5, <1>6, <1>7 DEF EvenAt
<1>9. ASSUME NEW m \in T, s.parent[m] = n \/ (s.parent[m] = p /\ m # n)
      PROVE  s.colour[m] = R!Black /\ e[p] = e[m] + 1
  <2>1. m # n  BY <1>2, <1>9
  <2>2. s.colour[m] = R!Black  BY <1>1, <1>5, <1>6, <1>9, <2>1 DEF EvenAt
  <2>3. e[s.parent[m]] = e[m] + 1  BY <1>1, <1>6, <1>7, <1>9, <2>2 DEF EvenAt
  <2>. QED  BY <1>8, <1>9, <2>2, <2>3
<1>. QED  BY <1>2, <1>3, <1>4, <1>8, <1>9

LEMMA UncleEven ==
  ASSUME NEW s, NEW T, NEW top, NEW pos, NEW n, NEW e, Clash(s, T, top, pos, n, e), NEW u, Painted(s, u),
         SiblingOf(s, s.parent[n]) # Null, s.colour[SiblingOf(s, s.parent[n])] = R!Red,
         \A m \in T : u.colour[m] = IF m = s.parent[s.parent[n]] THEN R!Red
                                    ELSE IF m = SiblingOf(s, s.parent[n]) \/ m = s.parent[n] THEN R!Black
                                    ELSE s.colour[m]
  PROVE  \E e2 : Even(u, T, s.parent[s.parent[n]], Null, Null, e2)
<1> DEFINE p == s.parent[n]
           g == s.parent[s.parent[n]]
           q == SiblingOf(s, s.parent[n])
<1>1. /\ Linked(s, T) /\ s \in Tree /\ T \subseteq Node /\ Null \notin T /\ Even(s, T, n, Null, Null, e)
      /\ e \in [Node -> Nat] /\ \A m \in T : EvenAt(s, n, Null, Null, e, m)
      /\ n \in T /\ s.colour[p] = R!Red
  BY KeysAreRight DEF Clash, Shaped, Linked, Even
<1>2. /\ p \in T /\ g \in T /\ p # n /\ g # p /\ g # n /\ s.colour[g] = R!Black
      /\ e[g] = e[p] /\ e[p] = e[n]
  BY AroundClash
<1>3. /\ q \in T /\ q \notin {p, g} /\ s.parent[q] = g /\ Kids(s, g) = {p, q}
           /\ s.parent[g] \notin {p, g}
  <2>1. Shaped(s, T, top, pos) /\ g # Null  BY <1>1, <1>2 DEF Clash
  <2>2. Family(s, T, p)  BY <1>2, <2>1, Around
  <2>. QED  BY <2>2 DEF Family
<1>4. \A m \in T : s.parent[m] = g => m \in {p, q}  BY <1>1, <1>2, <1>3 DEF Linked, Kids
<1>5. R!Red # R!Black  BY DEF R!Red, R!Black
<1>6. \A m \in T : /\ Weight(s, m, Null, Null) = IF s.colour[m] = R!Black THEN 1 ELSE 0
                   /\ Weight(u, m, Null, Null) = IF u.colour[m] = R!Black THEN 1 ELSE 0
                   /\ e[m] \in Nat
  BY <1>1 DEF Weight
<1>7. PICK e2 : e2 = [e EXCEPT ![g] = e[g] + 1]  OBVIOUS
<1>8. e2 \in [Node -> Nat] /\ e2[g] = e[g] + 1 /\ \A m \in T : m # g => e2[m] = e[m]
  BY <1>1, <1>2, <1>7
<1>9. u.colour[g] = R!Red /\ u.colour[p] = R!Black /\ u.colour[q] = R!Black
  BY <1>2, <1>3
<1>10. EvenAt(u, g, Null, Null, e2, g)
  <2>1. EvenAt(s, n, Null, Null, e, g)  BY <1>1, <1>2
  <2>2. Null \notin Kids(u, g)  BY <1>1, <1>2, <1>3 DEF Painted, Kids
  <2>3. s.parent[g] # Null => s.parent[g] \in T /\ s.parent[g] # g
    BY <1>1, <1>2, <1>3 DEF Linked
  <2>4. s.parent[g] # Null => e2[s.parent[g]] = e2[g] + 0
    BY <1>2, <1>5, <1>6, <1>8, <2>1, <2>3 DEF EvenAt
  <2>5. u.parent[g] # Null => e2[u.parent[g]] = e2[g] + Weight(u, g, Null, Null)
    BY <1>2, <1>5, <1>6, <1>9, <2>4 DEF Painted
  <2>. QED  BY <2>2, <2>5 DEF EvenAt
<1>11. ASSUME NEW m \in T, s.parent[m] = g
       PROVE  EvenAt(u, g, Null, Null, e2, m)
  <2>1. EvenAt(s, n, Null, Null, e, m) /\ m \in {p, q} /\ s.colour[m] = R!Red
          /\ u.colour[m] = R!Black /\ m # g
    BY <1>1, <1>2, <1>3, <1>4, <1>9, <1>11
  <2>2. Null \in Kids(u, m) => e2[m] = 0  BY <1>8, <2>1 DEF EvenAt, Painted, Kids
  <2>3. e[g] = e[m] + 0  BY <1>1, <1>2, <1>5, <1>6, <1>11, <2>1 DEF EvenAt
  <2>4. e2[g] = e2[m] + Weight(u, m, Null, Null)  BY <1>6, <1>8, <2>1, <2>3
  <2>. QED  BY <1>5, <1>11, <2>1, <2>2, <2>4 DEF EvenAt, Painted
<1>12. Even(u, T, g, Null, Null, e2)
  <2>1. ASSUME NEW m \in T, m # g, s.parent[m] # g
        PROVE  /\ u.colour[m] = s.colour[m]
               /\ m = n => s.parent[m] # Null /\ u.colour[s.parent[m]] = R!Black
               /\ s.parent[m] # Null /\ u.colour[m] = R!Red /\ s.colour[s.parent[m]] = R!Black =>
                    u.colour[s.parent[m]] = R!Black
    <3>1. m \notin {p, q, g}  BY <1>2, <1>3, <2>1
    <3>2. s.parent[m] # Null => s.parent[m] \in T  BY <1>1 DEF Linked
    <3>. QED  BY <1>1, <1>2, <1>9, <2>1, <3>1, <3>2
  <2>. QED  BY <1>1, <1>2, <1>8, <1>10, <1>11, <2>1, EvenPainted
<1>. QED  BY <1>12

LEMMA TriangleEven ==
  ASSUME NEW s, NEW T, NEW top, NEW pos, NEW n, NEW e, Clash(s, T, top, pos, n, e)
  PROVE  /\ Shaped(Raised(s, n), T, top, pos)
         /\ Even(Raised(s, n), T, s.parent[n], Null, Null, e)
<1> DEFINE p == s.parent[n]
           g == s.parent[s.parent[n]]
           a == Inner(s, n)
           b == Outer(s, n)
           c == SiblingOf(s, n)
<1>1. /\ Linked(s, T) /\ s \in Tree /\ T \subseteq Node /\ Null \notin T /\ Even(s, T, n, Null, Null, e)
      /\ e \in [Node -> Nat] /\ \A m \in T : EvenAt(s, n, Null, Null, e, m)
      /\ n \in T /\ s.colour[p] = R!Red /\ s.colour[n] = R!Red /\ p # Null /\ Shaped(s, T, top, pos)
  BY KeysAreRight DEF Clash, Shaped, Linked, Even
<1>2. /\ p \in T /\ g \in T /\ p # n /\ g # p /\ g # n /\ s.colour[g] = R!Black
      /\ e[g] = e[p] /\ e[p] = e[n]
      /\ \A m \in T : s.parent[m] = n \/ (s.parent[m] = p /\ m # n) =>
           s.colour[m] = R!Black /\ e[p] = e[m] + 1
  BY AroundClash
<1>3. PICK u : u = Raised(s, n)  OBVIOUS
<1>4. Family(s, T, n)  BY <1>1, Around
<1>5. Shaped(u, T, top, pos) /\ Turned(s, u, T, p, n, a, b, c)  BY <1>1, <1>3, RaisedIs
<1> HIDE DEF a, b, c
<1>6. /\ c \in T \cup {Null} /\ c \notin {n, p} /\ (c # Null => s.parent[c] = p) /\ Kids(s, p) = {n, c}
      /\ a \in T \cup {Null} /\ b \in T \cup {Null} /\ Kids(s, n) = {a, b}
      /\ (a # Null => s.parent[a] = n /\ a \notin {n, p, c, b})
           /\ (b # Null => s.parent[b] = n /\ b \notin {n, p, c, a})
  BY <1>4 DEF Family, a, b, c
<1>7. R!Red # R!Black  BY DEF R!Red, R!Black
<1>8. \A m \in T : m # Null /\ e[m] \in Nat  BY <1>1
<1>9. /\ u.colour = s.colour /\ Kids(u, n) = {p, b} /\ Kids(u, p) = {a, c}
      /\ u.parent[p] = n /\ u.parent[n] = g
      /\ \A m \in T \ {n, p, a} : u.parent[m] = s.parent[m]
      /\ a # Null => u.parent[a] = p
  BY <1>5 DEF Turned
<1>10. \A m \in T : Weight(u, m, Null, Null) = IF s.colour[m] = R!Black THEN 1 ELSE 0
  BY <1>8, <1>9 DEF Weight
<1>11. /\ Null \in Kids(s, p) => e[p] = 0
       /\ Null \in Kids(s, n) => e[n] = 0
       /\ \A m \in T : Null \in Kids(s, m) => e[m] = 0
  BY <1>1, <1>2 DEF EvenAt
<1>12. EvenAt(u, p, Null, Null, e, p)
  <2>1. Null \in Kids(u, p) => e[p] = 0  BY <1>2, <1>6, <1>9, <1>11
  <2>2. e[u.parent[p]] = e[p] + Weight(u, p, Null, Null)
    BY <1>1, <1>2, <1>7, <1>8, <1>9, <1>10
  <2>. QED  BY <2>1, <2>2 DEF EvenAt
<1>13. EvenAt(u, p, Null, Null, e, n)
  <2>1. Null \in Kids(u, n) => e[n] = 0  BY <1>1, <1>2, <1>6, <1>8, <1>9, <1>11
  <2>2. e[u.parent[n]] = e[n] + Weight(u, n, Null, Null)
    BY <1>1, <1>2, <1>7, <1>8, <1>9, <1>10
  <2>. QED  BY <1>2, <1>8, <1>9, <2>1, <2>2 DEF EvenAt
<1>14. ASSUME NEW m \in {a, b, c}, m # Null
       PROVE  EvenAt(u, p, Null, Null, e, m)
  <2>1. /\ m \in T /\ m \notin {n, p} /\ s.colour[m] = R!Black /\ e[p] = e[m] + 1 /\ e[n] = e[m] + 1
        /\ u.parent[m] \in {n, p}
    BY <1>1, <1>2, <1>6, <1>9, <1>14
  <2>3. Null \in Kids(u, m) => e[m] = 0  BY <1>5, <1>11, <2>1 DEF Turned
  <2>4. e[u.parent[m]] = e[m] + Weight(u, m, Null, Null)  BY <1>10, <2>1
  <2>. QED  BY <1>7, <1>9, <2>1, <2>3, <2>4 DEF EvenAt
<1>15. Painted(s, s)  BY <1>1 DEF Painted
<1>17. \A m \in {p, n, a, b, c} : m # Null => EvenAt(u, p, Null, Null, e, m)
  BY <1>12, <1>13, <1>14
<1>18. Even(u, T, p, Null, Null, e)  BY <1>1, <1>2, <1>5, <1>6, <1>15, <1>17, EvenTurned
<1>. QED  BY <1>3, <1>5, <1>18

LEMMA LineEven ==
  ASSUME NEW s, NEW T, NEW top, NEW pos, NEW n, NEW e, Clash(s, T, top, pos, n, e), NEW v, Painted(s, v),
         n = Outer(s, s.parent[n]),
         SiblingOf(s, s.parent[n]) # Null => s.colour[SiblingOf(s, s.parent[n])] = R!Black,
         \A m \in T : v.colour[m] = IF m = s.parent[s.parent[n]] THEN R!Red
                                    ELSE IF m = s.parent[n] THEN R!Black ELSE s.colour[m]
  PROVE  /\ Shaped(Raised(v, s.parent[n]), T, top, pos)
         /\ Even(Raised(v, s.parent[n]), T, Null, Null, Null, e)
<1> DEFINE p == s.parent[n]
           g == s.parent[s.parent[n]]
           a == Inner(s, p)
           c == SiblingOf(s, p)
<1>1. /\ Linked(s, T) /\ s \in Tree /\ T \subseteq Node /\ Null \notin T /\ Even(s, T, n, Null, Null, e)
      /\ e \in [Node -> Nat] /\ \A m \in T : EvenAt(s, n, Null, Null, e, m)
      /\ n \in T /\ s.colour[p] = R!Red /\ s.colour[n] = R!Red /\ p # Null /\ Shaped(s, T, top, pos)
  BY KeysAreRight DEF Clash, Shaped, Linked, Even
<1>2. /\ p \in T /\ g \in T /\ p # n /\ g # p /\ g # n /\ s.colour[g] = R!Black
      /\ e[g] = e[p] /\ e[p] = e[n]
      /\ \A m \in T : s.parent[m] = n \/ (s.parent[m] = p /\ m # n) =>
           s.colour[m] = R!Black /\ e[p] = e[m] + 1
  BY AroundClash
<1>3. PICK u : u = Raised(v, p)  OBVIOUS
<1>4. Family(s, T, p) /\ Shaped(v, T, top, pos)  BY <1>1, <1>2, Around, PaintedShape
<1>5. Shaped(u, T, top, pos) /\ Turned(v, u, T, g, p, a, n, c)
  <2>1. /\ v.parent[p] = g /\ Inner(v, p) = a /\ Outer(v, p) = n /\ SiblingOf(v, p) = c
    BY DEF Painted, Inner, Outer, SiblingOf
  <2>2. v.parent[p] # Null  BY <1>1, <1>2, <2>1
  <2>3. /\ Shaped(u, T, top, pos)
        /\ Turned(v, u, T, v.parent[p], p, Inner(v, p), Outer(v, p), SiblingOf(v, p))
    <3> HIDE DEF p
    <3>. QED  BY <1>2, <1>3, <1>4, <2>2, RaisedIs
  <2>. QED  BY <2>1, <2>3
<1>6. /\ c \in T \cup {Null} /\ c \notin {p, g} /\ (c # Null => s.parent[c] = g) /\ Kids(s, g) = {p, c}
      /\ a \in T \cup {Null} /\ Kids(s, p) = {a, n} /\ s.parent[g] # p /\ s.parent[g] # g
      /\ (a # Null => s.parent[a] = p /\ a \notin {n, p, c, g}) /\ n \notin {p, g, c, a}
  BY <1>1, <1>4 DEF Family
<1>7. c # Null => s.colour[c] = R!Black  OBVIOUS
<1>8. v.colour[g] = R!Red /\ v.colour[p] = R!Black /\ \A m \in T : m \notin {g, p}
        => v.colour[m] = s.colour[m]
  BY <1>2
<1> HIDE DEF a, c
<1>9. R!Red # R!Black  BY DEF R!Red, R!Black
<1>10. \A m \in T : m # Null /\ e[m] \in Nat  BY <1>1
<1>11. /\ u.colour = v.colour /\ Kids(u, p) = {g, n} /\ Kids(u, g) = {a, c}
       /\ u.parent[g] = p /\ u.parent[p] = s.parent[g]
       /\ \A m \in T \ {g, p, a} : u.parent[m] = s.parent[m]
       /\ a # Null => u.parent[a] = g
       /\ \A m \in T \ {g, p} : Null \in Kids(u, m) <=> Null \in Kids(s, m)
  BY <1>5 DEF Turned, Painted, Kids
<1>12. \A m \in T : /\ Weight(u, m, Null, Null) = IF v.colour[m] = R!Black THEN 1 ELSE 0
                    /\ Weight(s, m, Null, Null) = IF s.colour[m] = R!Black THEN 1 ELSE 0
                    /\ Null \in Kids(s, m) => e[m] = 0
                    /\ s.parent[m] # Null => e[s.parent[m]] = e[m] + Weight(s, m, Null, Null)
                    /\ s.colour[m] = R!Red /\ m # n => s.parent[m] # Null
                         /\ s.colour[s.parent[m]] = R!Black
  BY <1>1, <1>10, <1>11 DEF Weight, EvenAt
<1>13. EvenAt(u, Null, Null, Null, e, g)
  <2>1. Null \in Kids(u, g) => e[g] = 0  BY <1>1, <1>2, <1>6, <1>11, <1>12
  <2>2. e[u.parent[g]] = e[g] + Weight(u, g, Null, Null)
    BY <1>1, <1>2, <1>8, <1>9, <1>10, <1>11, <1>12
  <2>. QED  BY <1>2, <1>8, <1>10, <1>11, <2>1, <2>2 DEF EvenAt
<1>14. EvenAt(u, Null, Null, Null, e, p)
  <2>1. Null \notin Kids(u, p)  BY <1>1, <1>2, <1>11
  <2>2. s.parent[g] # Null => e[s.parent[g]] = e[p] + Weight(u, p, Null, Null)
    BY <1>1, <1>2, <1>8, <1>9, <1>10, <1>11, <1>12
  <2>. QED  BY <1>8, <1>9, <1>11, <2>1, <2>2 DEF EvenAt
<1>15. EvenAt(u, Null, Null, Null, e, n)
  <2>1. Null \in Kids(u, n) => e[n] = 0  BY <1>1, <1>2, <1>6, <1>11, <1>12
  <2>2. u.parent[n] = p /\ e[p] = e[n] + Weight(u, n, Null, Null)
    BY <1>1, <1>2, <1>6, <1>8, <1>9, <1>10, <1>11, <1>12
  <2>. QED  BY <1>8, <1>11, <2>1, <2>2, <1>2, <1>10 DEF EvenAt
<1>16. ASSUME NEW m \in {a, c}, m # Null
       PROVE  EvenAt(u, Null, Null, Null, e, m)
  <2>1. /\ m \in T /\ m \notin {n, p, g} /\ s.colour[m] = R!Black /\ v.colour[m] = R!Black
             /\ u.parent[m] = g
    BY <1>1, <1>2, <1>6, <1>7, <1>8, <1>11, <1>16
  <2>2. e[g] = e[m] + 1  BY <1>2, <1>6, <1>10, <1>12, <1>16, <2>1
  <2>3. Null \in Kids(u, m) => e[m] = 0  BY <1>11, <1>12, <2>1
  <2>4. e[u.parent[m]] = e[m] + Weight(u, m, Null, Null)  BY <1>12, <2>1, <2>2
  <2>. QED  BY <1>9, <1>11, <2>1, <2>3, <2>4 DEF EvenAt
<1>17. \A m \in {g, p, a, n, c} : m # Null => EvenAt(u, Null, Null, Null, e, m)
  BY <1>13, <1>14, <1>15, <1>16
<1>18. ASSUME NEW m \in T, m \notin {g, p, a, n, c}
       PROVE  /\ v.colour[m] = s.colour[m] /\ m # n
              /\ s.parent[m] # Null /\ v.colour[m] = R!Red /\ s.colour[s.parent[m]] = R!Black =>
                   v.colour[s.parent[m]] = R!Black
  <2>1. s.parent[m] # g /\ s.parent[m] # p  BY <1>2, <1>6, <1>18, <1>1 DEF Linked, Kids
  <2>2. s.parent[m] # Null => s.parent[m] \in T  BY <1>1 DEF Linked
  <2>. QED  BY <1>8, <1>18, <2>1, <2>2
<1> HIDE DEF p, g
<1>19. Even(u, T, Null, Null, Null, e)
  <2>1. g \in T /\ p \in T /\ a \in T \cup {Null} /\ n \in T \cup {Null} /\ c \in T \cup {Null} /\ g # p
        /\ Kids(s, g) = {p, c} /\ Kids(s, p) = {a, n}
    BY <1>1, <1>2, <1>6
  <2>. QED  BY <1>1, <1>5, <1>17, <1>18, <2>1, EvenTurned
<1>. QED  BY <1>3, <1>5, <1>19 DEF p

-----------------------------------------------------------------------------
(* The red-black tree: the cases of rbt_delete_fix *)

\* The loop of a deletion is at n, below which a black node is missing once d has left.
Lacking(s, T, top, pos, n, d, e) ==
  /\ Shaped(s, T, top, pos) /\ Even(s, T, Null, d, n, e)
  /\ n \in T /\ d \in T /\ s.colour[n] = R!Black /\ s.colour[d] = R!Black /\ Kids(s, d) = {Null}

\* Around such a node: it has a sibling, and below a red one there are black nodes.
Lack(s, T, n, d, e, p, q, a, b) ==
  /\ Linked(s, T) /\ s \in Tree /\ T \subseteq Node /\ Null \notin T
  /\ e \in [Node -> Nat] /\ n \in T /\ d \in T
  /\ p \in T /\ q \in T /\ p # n /\ q \notin {n, p} /\ d \notin {p, q}
  /\ a \in T \cup {Null} /\ b \in T \cup {Null}
  /\ s.parent[n] = p /\ s.parent[q] = p /\ s.parent[p] \notin {n, p, q}
  /\ Kids(s, p) = {q, n} /\ Kids(s, q) = {a, b} /\ SiblingOf(s, q) = n
  /\ a # Null => s.parent[a] = q /\ a \notin {n, p, q, b}
  /\ b # Null => s.parent[b] = q /\ b \notin {n, p, q, a}
  /\ e[p] = e[n] + Weight(s, n, d, n) /\ e[p] >= 1
  /\ e[p] = e[q] + Weight(s, q, d, n)
  /\ \A m \in T : /\ Weight(s, m, d, n) = (IF s.colour[m] = R!Black /\ m # d THEN 1 ELSE 0) + (IF m = n THEN 1 ELSE 0)
                  /\ s.colour[m] \in {R!Red, R!Black} /\ e[m] \in Nat
                  /\ EvenAt(s, Null, d, n, e, m)
  /\ s.colour[q] = R!Red =>
       /\ s.colour[p] = R!Black /\ a # Null /\ b # Null
       /\ s.colour[a] = R!Black /\ s.colour[b] = R!Black

LEMMA AroundLack ==
  ASSUME NEW s, NEW T, NEW top, NEW pos, NEW n, NEW d, NEW e, Lacking(s, T, top, pos, n, d, e),
      s.parent[n] # Null
  PROVE  LET q == SiblingOf(s, n) IN Lack(s, T, n, d, e, s.parent[n], q, Inner(s, q), Outer(s, q))
<1>1. PICK p, q : p = s.parent[n] /\ q = SiblingOf(s, n)  OBVIOUS
<1>2. /\ Linked(s, T) /\ s \in Tree /\ T \subseteq Node /\ Null \notin T /\ Shaped(s, T, top, pos)
      /\ e \in [Node -> Nat] /\ \A m \in T : EvenAt(s, Null, d, n, e, m)
      /\ n \in T /\ d \in T /\ s.colour[n] = R!Black /\ Kids(s, d) = {Null}
  BY KeysAreRight DEF Lacking, Shaped, Linked, Even
<1>3. Family(s, T, n)  BY <1>2, Around
<1>4. /\ p \in T /\ p # n /\ s.parent[p] \notin {n, p} /\ q \in T \cup {Null} /\ q \notin {n, p}
      /\ q # Null => s.parent[q] = p
      /\ Kids(s, p) = {n, q}
  BY <1>1, <1>3 DEF Family
<1>5. \A m \in T : /\ Weight(s, m, d, n) = (IF s.colour[m] = R!Black /\ m # d THEN 1 ELSE 0) + (IF m = n THEN 1 ELSE 0)
                   /\ s.colour[m] \in {R!Red, R!Black} /\ e[m] \in Nat
  BY <1>2 DEF Weight, Tree
<1>6. e[p] = e[n] + Weight(s, n, d, n) /\ e[p] >= 1
  BY <1>1, <1>2, <1>4, <1>5 DEF EvenAt
<1>7. q \in T
  <2>1. Null \notin Kids(s, p)  BY <1>2, <1>4, <1>6 DEF EvenAt
  <2>. QED  BY <1>4, <2>1
<1>8. e[p] = e[q] + Weight(s, q, d, n)  BY <1>2, <1>4, <1>7 DEF EvenAt
<1>9. p # d  BY <1>2, <1>4
<1>10. q # d
  <2>1. ASSUME q = d PROVE FALSE
    <3>1. e[q] = 0  BY <1>2, <2>1 DEF EvenAt
    <3>2. Weight(s, q, d, n) = 0  BY <1>4, <1>5, <1>7, <2>1
    <3>. QED  BY <1>6, <1>8, <3>1, <3>2
  <2>. QED  BY <2>1
<1>11. Family(s, T, q)  BY <1>2, <1>4, <1>7, Around
<1>12. PICK a, b : a = Inner(s, q) /\ b = Outer(s, q)  OBVIOUS
<1>13. SiblingOf(s, q) = n  BY <1>1, <1>2, <1>4, <1>7 DEF SiblingOf, Linked, Kids
<1>14. /\ a \in T \cup {Null} /\ b \in T \cup {Null} /\ Kids(s, q) = {a, b}
       /\ a # Null => s.parent[a] = q /\ a \notin {n, p, q, b}
       /\ b # Null => s.parent[b] = q /\ b \notin {n, p, q, a}
       /\ s.parent[p] # q
  BY <1>4, <1>7, <1>11, <1>12, <1>13, <1>2 DEF Family
<1>15. ASSUME s.colour[q] = R!Red
       PROVE  /\ s.colour[p] = R!Black /\ a # Null /\ b # Null
              /\ s.colour[a] = R!Black /\ s.colour[b] = R!Black
  <2>1. R!Red # R!Black  BY DEF R!Red, R!Black
  <2>2. s.colour[p] = R!Black  BY <1>2, <1>4, <1>7, <1>15 DEF EvenAt
  <2>3. e[q] >= 1  BY <1>4, <1>5, <1>6, <1>7, <1>8, <1>15, <2>1
  <2>4. a # Null /\ b # Null  BY <1>2, <1>7, <1>14, <2>3 DEF EvenAt
  <2>. QED  BY <1>2, <1>5, <1>14, <1>15, <2>1, <2>2, <2>4 DEF EvenAt
<1>16. Lack(s, T, n, d, e, p, q, a, b)
  BY <1>1, <1>2, <1>4, <1>5, <1>6, <1>7, <1>8, <1>9, <1>10, <1>13, <1>14, <1>15 DEF Lack
<1>. QED  BY <1>1, <1>12, <1>16

\* The node that leaves keeps its place in a rotation.
LEMMA LeavingTurned ==
  ASSUME NEW s, NEW v, NEW u, NEW T, NEW old, NEW new, NEW inner, NEW outer, NEW other,
         Turned(v, u, T, old, new, inner, outer, other), Painted(s, v), NEW d \in T,
         Kids(s, d) = {Null}, d \notin {old, new}, old # Null
  PROVE  Kids(u, d) = {Null}
BY DEF Turned, Painted, Kids

LEMMA RedSiblingEven ==
  ASSUME NEW s, NEW T, NEW top, NEW pos, NEW n, NEW d, NEW e, Lacking(s, T, top, pos, n, d, e),
      s.parent[n] # Null,
         NEW q, q = SiblingOf(s, n), s.colour[q] = R!Red, NEW v, Painted(s, v),
         \A m \in T : v.colour[m] = IF m = s.parent[n] THEN R!Red ELSE IF m = q THEN R!Black
           ELSE s.colour[m]
  PROVE  Lacking(Raised(v, q), T, top, pos, n, d, e)
<1>1. PICK p, a, b : p = s.parent[n] /\ a = Inner(s, q) /\ b = Outer(s, q)  OBVIOUS
<1>2. Lack(s, T, n, d, e, p, q, a, b)  BY <1>1, AroundLack
<1>3. PICK u : u = Raised(v, q)  OBVIOUS
<1>4. Shaped(s, T, top, pos) /\ Shaped(v, T, top, pos) /\ Even(s, T, Null, d, n, e)
      /\ s.colour[n] = R!Black /\ s.colour[d] = R!Black /\ Kids(s, d) = {Null}
  BY PaintedShape DEF Lacking
<1>5. /\ Linked(s, T) /\ s \in Tree /\ T \subseteq Node /\ Null \notin T
      /\ e \in [Node -> Nat] /\ n \in T /\ d \in T
      /\ p \in T /\ q \in T /\ p # n /\ q \notin {n, p} /\ d \notin {p, q}
      /\ a \in T /\ b \in T
      /\ s.parent[n] = p /\ s.parent[q] = p /\ s.parent[p] \notin {n, p, q}
      /\ Kids(s, p) = {q, n} /\ Kids(s, q) = {a, b} /\ SiblingOf(s, q) = n
      /\ s.parent[a] = q /\ a \notin {n, p, q, b} /\ s.parent[b] = q /\ b \notin {n, p, q, a}
      /\ s.colour[p] = R!Black /\ s.colour[a] = R!Black /\ s.colour[b] = R!Black
      /\ e[p] = e[n] + Weight(s, n, d, n) /\ e[p] = e[q] + Weight(s, q, d, n) /\ e[p] >= 1
  BY <1>2 DEF Lack
<1>6. Shaped(u, T, top, pos) /\ Turned(v, u, T, p, q, a, b, n)
  <2>1. /\ v.parent[q] = p /\ Inner(v, q) = a /\ Outer(v, q) = b /\ SiblingOf(v, q) = n
    <3>1. v.left = s.left /\ v.right = s.right /\ v.parent = s.parent  BY DEF Painted
    <3>. QED  BY <1>1, <1>5, <3>1 DEF Inner, Outer, SiblingOf
  <2>. QED  BY <1>3, <1>4, <1>5, <2>1, RaisedIs
<1>7. R!Red # R!Black  BY DEF R!Red, R!Black
<1>8. /\ u.colour = v.colour /\ Kids(u, q) = {p, b} /\ Kids(u, p) = {a, n}
      /\ u.parent[p] = q /\ u.parent[q] = s.parent[p]
      /\ \A m \in T \ {p, q, a} : u.parent[m] = s.parent[m]
      /\ u.parent[a] = p
      /\ \A m \in T \ {p, q} : Null \in Kids(u, m) <=> Null \in Kids(s, m)
  <2>1. v.left = s.left /\ v.right = s.right /\ v.parent = s.parent  BY DEF Painted
  <2>2. a # Null  BY <1>5
  <2>. QED  BY <1>5, <1>6, <2>1, <2>2 DEF Turned, Kids
<1>9. v.colour[p] = R!Red /\ v.colour[q] = R!Black /\ \A m \in T : m \notin {p, q}
        => v.colour[m] = s.colour[m]
  BY <1>1, <1>5
<1>10. \A m \in T : /\ Weight(u, m, d, n) = (IF v.colour[m] = R!Black /\ m # d THEN 1 ELSE 0) + (IF m = n THEN 1 ELSE 0)
                    /\ Weight(s, m, d, n) = (IF s.colour[m] = R!Black /\ m # d THEN 1
                         ELSE 0) + (IF m = n THEN 1 ELSE 0)
                    /\ Null \in Kids(s, m) => e[m] = 0
                    /\ s.parent[m] # Null => e[s.parent[m]] = e[m] + Weight(s, m, d, n)
                    /\ s.colour[m] = R!Red => s.parent[m] # Null /\ s.colour[s.parent[m]] = R!Black
                    /\ e[m] \in Nat /\ m # Null
  BY <1>2, <1>5, <1>8 DEF Lack, Weight, EvenAt
<1>11. e[p] = e[q]  BY <1>5, <1>7, <1>10
<1>12. EvenAt(u, Null, d, n, e, p)
  <2>1. Null \notin Kids(u, p)  BY <1>5, <1>8
  <2>2. e[u.parent[p]] = e[p] + Weight(u, p, d, n)
    BY <1>5, <1>7, <1>8, <1>9, <1>10, <1>11
  <2>. QED  BY <1>5, <1>8, <1>9, <2>1, <2>2 DEF EvenAt
<1>13. EvenAt(u, Null, d, n, e, q)
  <2>1. Null \notin Kids(u, q)  BY <1>5, <1>8
  <2>2. s.parent[p] # Null => e[s.parent[p]] = e[q] + Weight(u, q, d, n)
    BY <1>5, <1>7, <1>9, <1>10, <1>11
  <2>. QED  BY <1>5, <1>7, <1>8, <1>9, <2>1, <2>2 DEF EvenAt
<1>14. ASSUME NEW m \in {a, b, n}
       PROVE  EvenAt(u, Null, d, n, e, m)
  <2>1. m \in T /\ m \notin {p, q} /\ v.colour[m] = R!Black /\ s.colour[m] = R!Black
    BY <1>4, <1>5, <1>9, <1>14
  <2>2. u.parent[m] \in {p, q} /\ s.parent[m] \in {p, q}  BY <1>5, <1>8, <1>14
  <2>3. Null \in Kids(u, m) => e[m] = 0  BY <1>8, <1>10, <2>1
  <2>4. Weight(u, m, d, n) = Weight(s, m, d, n)  BY <1>10, <2>1
  <2>5. e[u.parent[m]] = e[m] + Weight(u, m, d, n)
    BY <1>5, <1>10, <1>11, <2>1, <2>2, <2>4
  <2>. QED  BY <1>7, <1>8, <2>1, <2>3, <2>5 DEF EvenAt
<1>15. ASSUME NEW m \in T, m \notin {p, q, a, b, n}
       PROVE  /\ v.colour[m] = s.colour[m] /\ (m = Null => FALSE)
              /\ s.parent[m] # Null /\ v.colour[m] = R!Red /\ s.colour[s.parent[m]] = R!Black =>
                   v.colour[s.parent[m]] = R!Black
  <2>1. s.parent[m] # p /\ s.parent[m] # q  BY <1>5, <1>15 DEF Linked, Kids
  <2>2. s.parent[m] # Null => s.parent[m] \in T  BY <1>5 DEF Linked
  <2>. QED  BY <1>5, <1>9, <1>15, <2>1, <2>2
<1>16. Even(u, T, Null, d, n, e)
  <2>1. \A m \in {p, q, a, b, n} : m # Null => EvenAt(u, Null, d, n, e, m)
    BY <1>12, <1>13, <1>14
  <2>. QED  BY <1>4, <1>5, <1>6, <1>15, <2>1, EvenTurned
<1>17. Kids(u, d) = {Null} /\ u.colour[d] = R!Black /\ u.colour[n] = R!Black
  <2>1. Kids(u, d) = {Null}  BY <1>4, <1>5, <1>6, LeavingTurned
  <2>. QED  BY <1>4, <1>5, <1>8, <1>9, <2>1
<1>. QED  BY <1>3, <1>5, <1>6, <1>16, <1>17 DEF Lacking

\* The facts of a node m that the cases need.
Facts(s, T, n, d, e) ==
  \A m \in T : /\ Weight(s, m, d, n) = (IF s.colour[m] = R!Black /\ m # d THEN 1 ELSE 0) + (IF m = n THEN 1 ELSE 0)
               /\ Null \in Kids(s, m) => e[m] = 0
               /\ s.parent[m] # Null => e[s.parent[m]] = e[m] + Weight(s, m, d, n)
               /\ s.colour[m] = R!Red => s.parent[m] # Null /\ s.colour[s.parent[m]] = R!Black
               /\ e[m] \in Nat /\ m # Null /\ s.colour[m] \in {R!Red, R!Black}

LEMMA LackFacts ==
  ASSUME NEW s, NEW T, NEW n, NEW d, NEW e, NEW p, NEW q, NEW a, NEW b, Lack(s, T, n, d, e, p, q, a, b)
  PROVE  Facts(s, T, n, d, e)
BY DEF Lack, EvenAt, Facts

\* Painting the sibling red takes a black node from the paths on both sides.
LEMMA BlackFamilyEven ==
  ASSUME NEW s, NEW T, NEW top, NEW pos, NEW n, NEW d, NEW e, Lacking(s, T, top, pos, n, d, e),
      s.parent[n] # Null,
         NEW q, q = SiblingOf(s, n), s.colour[q] = R!Black,
         Inner(s, q) # Null => s.colour[Inner(s, q)] = R!Black,
         Outer(s, q) # Null => s.colour[Outer(s, q)] = R!Black,
         NEW u, Painted(s, u),
         \A m \in T : u.colour[m] = IF m = q THEN R!Red ELSE IF m = s.parent[n] THEN R!Black
           ELSE s.colour[m]
  PROVE  /\ Shaped(u, T, top, pos)
         /\ u.colour[d] = R!Black /\ Kids(u, d) = {Null}
         /\ s.colour[s.parent[n]] = R!Black => \E e2 : Even(u, T, Null, d, s.parent[n], e2)
         /\ s.colour[s.parent[n]] = R!Red => \E e2 : Even(u, T, Null, d, Null, e2)
<1>1. PICK p, a, b : p = s.parent[n] /\ a = Inner(s, q) /\ b = Outer(s, q)  OBVIOUS
<1>2. Lack(s, T, n, d, e, p, q, a, b)  BY <1>1, AroundLack
<1>3. Facts(s, T, n, d, e)  BY <1>2, LackFacts
<1>4. Shaped(s, T, top, pos) /\ Shaped(u, T, top, pos) /\ Even(s, T, Null, d, n, e)
      /\ s.colour[n] = R!Black /\ s.colour[d] = R!Black /\ Kids(s, d) = {Null}
  BY PaintedShape DEF Lacking
<1>5. /\ Linked(s, T) /\ s \in Tree /\ T \subseteq Node /\ Null \notin T
      /\ e \in [Node -> Nat] /\ n \in T /\ d \in T
      /\ p \in T /\ q \in T /\ p # n /\ q \notin {n, p} /\ d \notin {p, q}
      /\ s.parent[n] = p /\ s.parent[q] = p /\ s.parent[p] \notin {n, p, q}
      /\ Kids(s, p) = {q, n} /\ Kids(s, q) = {a, b}
      /\ e[p] = e[n] + Weight(s, n, d, n) /\ e[p] = e[q] + Weight(s, q, d, n) /\ e[p] >= 1
  BY <1>2 DEF Lack
<1>6. R!Red # R!Black  BY DEF R!Red, R!Black
<1>7. u.left = s.left /\ u.right = s.right /\ u.parent = s.parent /\ \A m : Kids(u, m) = Kids(s, m)
  BY DEF Painted, Kids
<1>8. \A m \in T : s.parent[m] = p => m \in {q, n}  BY <1>5 DEF Linked, Kids
<1>9. \A m \in T : s.parent[m] = q => s.colour[m] = R!Black
  BY <1>1, <1>5 DEF Linked, Kids
<1>10. PICK e2 : e2 = [e EXCEPT ![p] = e[p] - 1]  OBVIOUS
<1>11. e2 \in [Node -> Nat] /\ e2[p] = e[p] - 1 /\ \A m \in T : m # p => e2[m] = e[m]
  <2>1. e[p] - 1 \in Nat  BY <1>3, <1>5 DEF Facts
  <2>. QED  BY <1>5, <1>10, <2>1
<1>12. u.colour[q] = R!Red /\ u.colour[p] = R!Black /\ \A m \in T : m \notin {p, q}
         => u.colour[m] = s.colour[m]
  BY <1>1, <1>5
<1>13. ASSUME NEW short2, short2 = IF s.colour[p] = R!Black THEN p ELSE Null
       PROVE  Even(u, T, Null, d, short2, e2)
  <2>1. \A m \in T : Weight(u, m, d, short2) = (IF u.colour[m] = R!Black /\ m # d THEN 1
          ELSE 0) + (IF m = short2 THEN 1 ELSE 0)
    BY <1>3 DEF Weight, Facts
  <2>2. short2 # n /\ short2 # q  BY <1>5, <1>13
  <2>3. EvenAt(u, Null, d, short2, e2, p)
    <3>1. Null \notin Kids(u, p)  BY <1>5, <1>7
    <3>2. s.parent[p] # Null => e2[s.parent[p]] = e[s.parent[p]]
      BY <1>5, <1>11 DEF Linked
    <3>3. s.parent[p] # Null => e[s.parent[p]] = e[p] + (IF s.colour[p] = R!Black THEN 1 ELSE 0)
      BY <1>3, <1>5 DEF Facts
    <3>4. Weight(u, p, d, short2) = 1 + (IF s.colour[p] = R!Black THEN 1 ELSE 0)
      BY <1>3, <1>5, <1>12, <1>13, <2>1 DEF Facts
    <3>5. e[p] \in Nat  BY <1>3, <1>5 DEF Facts
    <3>6. u.parent[p] # Null => e2[u.parent[p]] = e2[p] + Weight(u, p, d, short2)
      BY <1>7, <1>11, <3>2, <3>3, <3>4, <3>5
    <3>. QED  BY <1>6, <1>12, <3>1, <3>6 DEF EvenAt
  <2>4. EvenAt(u, Null, d, short2, e2, q)
    <3>1. Null \in Kids(u, q) => e2[q] = 0  BY <1>3, <1>5, <1>7, <1>11 DEF Facts
    <3>2. e[p] = e[q] + 1 /\ e[q] \in Nat  BY <1>3, <1>5 DEF Facts
    <3>3. Weight(u, q, d, short2) = 0  BY <1>5, <1>6, <1>12, <2>1, <2>2
    <3>4. e2[u.parent[q]] = e2[q] + Weight(u, q, d, short2)
      BY <1>5, <1>7, <1>11, <3>2, <3>3
    <3>. QED  BY <1>5, <1>7, <1>12, <3>1, <3>4 DEF EvenAt
  <2>5. EvenAt(u, Null, d, short2, e2, n)
    <3>1. Null \in Kids(u, n) => e2[n] = 0  BY <1>3, <1>5, <1>7, <1>11 DEF Facts
    <3>2. /\ e[p] = e[n] + (IF n # d THEN 1 ELSE 0) + 1 /\ e[n] \in Nat
          /\ Weight(u, n, d, short2) = (IF n # d THEN 1 ELSE 0)
      BY <1>3, <1>4, <1>5, <1>12, <2>1, <2>2 DEF Facts
    <3>3. e2[p] = e2[n] + Weight(u, n, d, short2)
      <4>1. CASE n = d  BY <1>5, <1>11, <3>2, <4>1
      <4>2. CASE n # d  BY <1>5, <1>11, <3>2, <4>2
      <4>. QED  BY <4>1, <4>2
    <3>4. u.parent[n] = p /\ u.colour[n] = R!Black  BY <1>4, <1>5, <1>7, <1>12
    <3>. QED  BY <1>6, <3>1, <3>3, <3>4 DEF EvenAt
  <2>6. ASSUME NEW m \in T, m # p, s.parent[m] # p
        PROVE  /\ u.colour[m] = s.colour[m] /\ (m = n <=> m = short2)
               /\ s.parent[m] # Null /\ u.colour[m] = R!Red /\ s.colour[s.parent[m]] = R!Black =>
                    u.colour[s.parent[m]] = R!Black
    <3>1. m \notin {p, q, n, Null}  BY <1>5, <2>6
    <3>2. s.parent[m] # Null => s.parent[m] \in T  BY <1>5 DEF Linked
    <3>3. m # short2  BY <1>13, <3>1
    <3>. QED  BY <1>5, <1>6, <1>9, <1>12, <3>1, <3>2, <3>3
  <2>7. \A m \in T : s.parent[m] = p => EvenAt(u, Null, d, short2, e2, m)
    BY <1>8, <2>4, <2>5
  <2>8. \A m \in T : m # Null  BY <1>5
  <2>. QED  BY <1>4, <1>5, <1>11, <2>3, <2>6, <2>7, <2>8, EvenPainted
<1>14. u.colour[d] = R!Black /\ Kids(u, d) = {Null}  BY <1>4, <1>5, <1>7, <1>12
<1>15. s.colour[p] = R!Black => Even(u, T, Null, d, p, e2)  BY <1>13
<1>16. s.colour[p] = R!Red => Even(u, T, Null, d, Null, e2)  BY <1>6, <1>13
<1>. QED  BY <1>1, <1>4, <1>14, <1>15, <1>16

LEMMA InnerRedEven ==
  ASSUME NEW s, NEW T, NEW top, NEW pos, NEW n, NEW d, NEW e, Lacking(s, T, top, pos, n, d, e),
      s.parent[n] # Null,
         NEW q, q = SiblingOf(s, n), NEW a, a = Inner(s, q), s.colour[q] = R!Black,
         a # Null, s.colour[a] = R!Red, Outer(s, q) # Null => s.colour[Outer(s, q)] = R!Black,
         NEW v, Painted(s, v),
         \A m \in T : v.colour[m] = IF m = q THEN R!Red ELSE IF m = a THEN R!Black ELSE s.colour[m]
  PROVE  Lacking(Raised(v, a), T, top, pos, n, d, e)
<1>1. PICK p, b, x, y : p = s.parent[n] /\ b = Outer(s, q) /\ x = Inner(s, a) /\ y = Outer(s, a)
  OBVIOUS
<1>2. Lack(s, T, n, d, e, p, q, a, b)  BY <1>1, AroundLack
<1>3. Facts(s, T, n, d, e)  BY <1>2, LackFacts
<1>4. Shaped(s, T, top, pos) /\ Shaped(v, T, top, pos) /\ Even(s, T, Null, d, n, e)
      /\ s.colour[n] = R!Black /\ s.colour[d] = R!Black /\ Kids(s, d) = {Null}
  BY PaintedShape DEF Lacking
<1>5. /\ Linked(s, T) /\ s \in Tree /\ T \subseteq Node /\ Null \notin T
      /\ e \in [Node -> Nat] /\ n \in T /\ d \in T
      /\ p \in T /\ q \in T /\ p # n /\ q \notin {n, p} /\ d \notin {p, q}
      /\ a \in T /\ b \in T \cup {Null}
      /\ s.parent[n] = p /\ s.parent[q] = p
      /\ Kids(s, p) = {q, n} /\ Kids(s, q) = {a, b}
      /\ s.parent[a] = q /\ a \notin {n, p, q, b}
  BY <1>2 DEF Lack
<1>6. R!Red # R!Black  BY DEF R!Red, R!Black
<1>7. a # d  BY <1>4, <1>6
<1>8. Family(s, T, a)  BY <1>4, <1>5, Around
<1>9. SiblingOf(s, a) = b  BY <1>5 DEF SiblingOf, Linked, Kids
<1>10. /\ b \notin {a, q} /\ (b # Null => s.parent[b] = q)
       /\ x \in T \cup {Null} /\ y \in T \cup {Null} /\ Kids(s, a) = {x, y}
       /\ (x # Null => s.parent[x] = a /\ x \notin {a, q, b, y})
            /\ (y # Null => s.parent[y] = a /\ y \notin {a, q, b, x})
  BY <1>1, <1>5, <1>8, <1>9 DEF Family
<1>11. PICK u : u = Raised(v, a)  OBVIOUS
<1>12. Shaped(u, T, top, pos) /\ Turned(v, u, T, q, a, x, y, b)
  <2>1. v.left = s.left /\ v.right = s.right /\ v.parent = s.parent  BY DEF Painted
  <2>2. v.parent[a] = q /\ Inner(v, a) = x /\ Outer(v, a) = y /\ SiblingOf(v, a) = b
    BY <1>1, <1>5, <1>9, <2>1 DEF Inner, Outer, SiblingOf
  <2>3. q # Null  BY <1>5
  <2>. QED  BY <1>4, <1>5, <1>11, <2>2, <2>3, RaisedIs
<1>13. /\ u.colour = v.colour /\ Kids(u, a) = {q, y} /\ Kids(u, q) = {x, b}
       /\ u.parent[q] = a /\ u.parent[a] = p
       /\ \A m \in T \ {q, a, x} : u.parent[m] = s.parent[m]
       /\ x # Null => u.parent[x] = q
       /\ \A m \in T \ {q, a} : Null \in Kids(u, m) <=> Null \in Kids(s, m)
  <2>1. v.left = s.left /\ v.right = s.right /\ v.parent = s.parent  BY DEF Painted
  <2>. QED  BY <1>5, <1>12, <2>1 DEF Turned, Kids
<1>14. v.colour[q] = R!Red /\ v.colour[a] = R!Black /\ \A m \in T : m \notin {q, a}
         => v.colour[m] = s.colour[m]
  BY <1>5
<1>15. \A m \in T : Weight(u, m, d, n) = (IF v.colour[m] = R!Black /\ m # d THEN 1
         ELSE 0) + (IF m = n THEN 1 ELSE 0)
  BY <1>13 DEF Weight
<1>16. e[p] = e[q] + 1 /\ e[q] = e[a] /\ e[q] \in Nat /\ e[p] \in Nat
  BY <1>3, <1>5, <1>6 DEF Facts
<1>17. (x # Null => s.colour[x] = R!Black) /\ (y # Null => s.colour[y] = R!Black)
  BY <1>3, <1>5, <1>6, <1>10 DEF Facts
<1>18. EvenAt(u, Null, d, n, e, q)
  <2>1. Null \in Kids(u, q) => e[q] = 0  BY <1>3, <1>5, <1>10, <1>13, <1>16 DEF Facts
  <2>2. e[u.parent[q]] = e[q] + Weight(u, q, d, n)
    BY <1>5, <1>6, <1>13, <1>14, <1>15, <1>16
  <2>. QED  BY <1>5, <1>13, <1>14, <2>1, <2>2 DEF EvenAt
<1>19. EvenAt(u, Null, d, n, e, a)
  <2>1. Null \in Kids(u, a) => e[a] = 0  BY <1>3, <1>5, <1>10, <1>13 DEF Facts
  <2>2. e[u.parent[a]] = e[a] + Weight(u, a, d, n)
    BY <1>5, <1>7, <1>13, <1>14, <1>15, <1>16
  <2>. QED  BY <1>6, <1>13, <1>14, <2>1, <2>2 DEF EvenAt
<1>20. ASSUME NEW m \in {x, y, b}, m # Null
       PROVE  EvenAt(u, Null, d, n, e, m)
  <2>1. m \in T /\ m \notin {q, a} /\ v.colour[m] = R!Black /\ s.colour[m] = R!Black
    BY <1>1, <1>5, <1>10, <1>14, <1>17, <1>20
  <2>2. u.parent[m] \in {q, a} /\ s.parent[m] \in {q, a}
    BY <1>5, <1>10, <1>13, <1>20, <2>1
  <2>3. Null \in Kids(u, m) => e[m] = 0  BY <1>3, <1>13, <2>1 DEF Facts
  <2>4. Weight(u, m, d, n) = Weight(s, m, d, n)  BY <1>3, <1>15, <2>1 DEF Facts
  <2>5. e[s.parent[m]] = e[m] + Weight(s, m, d, n)  BY <1>3, <1>5, <2>1, <2>2 DEF Facts
  <2>6. e[u.parent[m]] = e[m] + Weight(u, m, d, n)  BY <1>16, <2>2, <2>4, <2>5
  <2>. QED  BY <1>6, <1>13, <2>1, <2>3, <2>6 DEF EvenAt
<1>21. ASSUME NEW m \in T, m \notin {q, a, x, y, b}
       PROVE  /\ v.colour[m] = s.colour[m] /\ m # Null
              /\ s.parent[m] # Null /\ v.colour[m] = R!Red /\ s.colour[s.parent[m]] = R!Black =>
                   v.colour[s.parent[m]] = R!Black
  <2>1. s.parent[m] # q /\ s.parent[m] # a  BY <1>5, <1>10, <1>21 DEF Linked, Kids
  <2>2. s.parent[m] # Null => s.parent[m] \in T  BY <1>5 DEF Linked
  <2>. QED  BY <1>5, <1>14, <1>21, <2>1, <2>2
<1>22. Even(u, T, Null, d, n, e)
  <2>1. \A m \in {q, a, x, y, b} : m # Null => EvenAt(u, Null, d, n, e, m)
    BY <1>18, <1>19, <1>20
  <2>. QED  BY <1>4, <1>5, <1>10, <1>12, <1>21, <2>1, EvenTurned
<1>23. Kids(u, d) = {Null} /\ u.colour[d] = R!Black /\ u.colour[n] = R!Black
  <2>1. Kids(u, d) = {Null}  BY <1>4, <1>5, <1>7, <1>12, LeavingTurned
  <2>. QED  BY <1>4, <1>5, <1>7, <1>13, <1>14, <2>1
<1>. QED  BY <1>5, <1>11, <1>12, <1>22, <1>23 DEF Lacking

LEMMA OuterRedEven ==
  ASSUME NEW s, NEW T, NEW top, NEW pos, NEW n, NEW d, NEW e, Lacking(s, T, top, pos, n, d, e),
      s.parent[n] # Null,
         NEW q, q = SiblingOf(s, n), NEW b, b = Outer(s, q), s.colour[q] = R!Black,
         b # Null, s.colour[b] = R!Red,
         NEW v, Painted(s, v),
         \A m \in T : v.colour[m] = IF m = q THEN s.colour[s.parent[n]]
                                    ELSE IF m = s.parent[n] \/ m = b THEN R!Black ELSE s.colour[m]
  PROVE  /\ Shaped(Raised(v, q), T, top, pos) /\ Kids(Raised(v, q), d) = {Null}
         /\ \E e2 : Even(Raised(v, q), T, Null, d, Null, e2)
<1>1. PICK p, a : p = s.parent[n] /\ a = Inner(s, q)  OBVIOUS
<1>2. Lack(s, T, n, d, e, p, q, a, b)  BY <1>1, AroundLack
<1>3. Facts(s, T, n, d, e)  BY <1>2, LackFacts
<1>4. Shaped(s, T, top, pos) /\ Shaped(v, T, top, pos) /\ Even(s, T, Null, d, n, e)
      /\ s.colour[n] = R!Black /\ s.colour[d] = R!Black /\ Kids(s, d) = {Null}
  BY PaintedShape DEF Lacking
<1>5. /\ Linked(s, T) /\ s \in Tree /\ T \subseteq Node /\ Null \notin T
      /\ e \in [Node -> Nat] /\ n \in T /\ d \in T
      /\ p \in T /\ q \in T /\ p # n /\ q \notin {n, p} /\ d \notin {p, q}
      /\ a \in T \cup {Null} /\ b \in T
      /\ s.parent[n] = p /\ s.parent[q] = p /\ s.parent[p] \notin {n, p, q}
      /\ Kids(s, p) = {q, n} /\ Kids(s, q) = {a, b} /\ SiblingOf(s, q) = n
      /\ s.parent[b] = q /\ b \notin {n, p, q, a}
           /\ (a # Null => s.parent[a] = q /\ a \notin {n, p, q, b})
      /\ e[p] >= 1
  BY <1>2 DEF Lack
<1>6. R!Red # R!Black  BY DEF R!Red, R!Black
<1>7. b # d  BY <1>4, <1>6
<1>8. PICK u : u = Raised(v, q)  OBVIOUS
<1>9. v.left = s.left /\ v.right = s.right /\ v.parent = s.parent  BY DEF Painted
<1>10. Shaped(u, T, top, pos) /\ Turned(v, u, T, p, q, a, b, n)
  <2>1. v.parent[q] = p /\ Inner(v, q) = a /\ Outer(v, q) = b /\ SiblingOf(v, q) = n
    BY <1>1, <1>5, <1>9 DEF Inner, Outer, SiblingOf
  <2>2. p # Null  BY <1>5
  <2>. QED  BY <1>4, <1>5, <1>8, <2>1, <2>2, RaisedIs
<1>11. /\ u.colour = v.colour /\ Kids(u, q) = {p, b} /\ Kids(u, p) = {a, n}
       /\ u.parent[p] = q /\ u.parent[q] = s.parent[p]
       /\ \A m \in T \ {p, q, a} : u.parent[m] = s.parent[m]
       /\ a # Null => u.parent[a] = p
       /\ \A m \in T \ {p, q} : Null \in Kids(u, m) <=> Null \in Kids(s, m)
  BY <1>5, <1>9, <1>10 DEF Turned, Kids
<1>12. /\ v.colour[q] = s.colour[p] /\ v.colour[p] = R!Black /\ v.colour[b] = R!Black
       /\ \A m \in T : m \notin {p, q, b} => v.colour[m] = s.colour[m]
  BY <1>1, <1>5
<1>13. \A m \in T : Weight(u, m, d, Null) = IF v.colour[m] = R!Black /\ m # d THEN 1 ELSE 0
  BY <1>5, <1>11 DEF Weight
<1>14. /\ e[p] = e[q] + 1 /\ e[q] = e[b] /\ e[q] \in Nat /\ e[p] \in Nat /\ e[n] \in Nat
       /\ e[p] = e[n] + (IF n # d THEN 1 ELSE 0) + 1
  BY <1>3, <1>4, <1>5, <1>6 DEF Facts
<1>15. PICK e2 : e2 = [e EXCEPT ![p] = e[p] - 1, ![q] = e[q] + 1]  OBVIOUS
<1>16. e2 \in [Node -> Nat] /\ e2[p] = e[p] - 1 /\ e2[q] = e[q] + 1
         /\ \A m \in T : m \notin {p, q} => e2[m] = e[m]
  <2>1. e[p] - 1 \in Nat  BY <1>14
  <2>. QED  BY <1>5, <1>14, <1>15, <2>1
<1>17. EvenAt(u, Null, d, Null, e2, p)
  <2>1. Null \in Kids(u, p) => e2[p] = 0  BY <1>3, <1>5, <1>11, <1>14, <1>16 DEF Facts
  <2>2. e2[u.parent[p]] = e2[p] + Weight(u, p, d, Null)
    BY <1>5, <1>11, <1>12, <1>13, <1>14, <1>16
  <2>. QED  BY <1>6, <1>11, <1>12, <2>1, <2>2 DEF EvenAt
<1>18. EvenAt(u, Null, d, Null, e2, q)
  <2>1. Null \notin Kids(u, q)  BY <1>5, <1>11
  <2>2. ASSUME s.parent[p] # Null
        PROVE  e2[s.parent[p]] = e2[q] + Weight(u, q, d, Null)
    <3>1. s.parent[p] \in T /\ e2[s.parent[p]] = e[s.parent[p]]
      BY <1>5, <1>16, <2>2 DEF Linked
    <3>2. e[s.parent[p]] = e[p] + (IF s.colour[p] = R!Black THEN 1 ELSE 0)
      BY <1>3, <1>5, <2>2 DEF Facts
    <3>. QED  BY <1>5, <1>12, <1>13, <1>14, <1>16, <3>1, <3>2
  <2>3. s.colour[p] = R!Red => s.parent[p] # Null /\ v.colour[s.parent[p]] = R!Black
    <3>1. ASSUME s.colour[p] = R!Red
          PROVE  s.parent[p] # Null /\ s.colour[s.parent[p]] = R!Black /\ s.parent[p] \in T
      BY <1>3, <1>5, <3>1 DEF Facts, Linked
    <3>. QED  BY <1>5, <1>6, <1>12, <3>1
  <2>. QED  BY <1>11, <1>12, <2>1, <2>2, <2>3 DEF EvenAt
<1>19. EvenAt(u, Null, d, Null, e2, b)
  <2>1. Null \in Kids(u, b) => e2[b] = 0  BY <1>3, <1>5, <1>11, <1>16 DEF Facts
  <2>2. e2[u.parent[b]] = e2[b] + Weight(u, b, d, Null)
    BY <1>5, <1>7, <1>11, <1>12, <1>13, <1>14, <1>16
  <2>. QED  BY <1>6, <1>11, <1>12, <2>1, <2>2 DEF EvenAt
<1>20. EvenAt(u, Null, d, Null, e2, n)
  <2>1. Null \in Kids(u, n) => e2[n] = 0  BY <1>3, <1>5, <1>11, <1>16 DEF Facts
  <2>2. Weight(u, n, d, Null) = IF n # d THEN 1 ELSE 0  BY <1>4, <1>5, <1>12, <1>13
  <2>3. e2[u.parent[n]] = e2[n] + Weight(u, n, d, Null)
    <3>1. CASE n = d  BY <1>5, <1>11, <1>14, <1>16, <2>2, <3>1
    <3>2. CASE n # d  BY <1>5, <1>11, <1>14, <1>16, <2>2, <3>2
    <3>. QED  BY <3>1, <3>2
  <2>. QED  BY <1>4, <1>5, <1>6, <1>11, <1>12, <2>1, <2>3 DEF EvenAt
<1>21. ASSUME a # Null
       PROVE  EvenAt(u, Null, d, Null, e2, a)
  <2>1. a \in T /\ a \notin {p, q, b, n} /\ v.colour[a] = s.colour[a] /\ u.parent[a] = p
          /\ s.parent[a] = q
    BY <1>5, <1>11, <1>12, <1>21
  <2>2. Null \in Kids(u, a) => e2[a] = 0  BY <1>3, <1>11, <1>16, <2>1 DEF Facts
  <2>3. e[q] = e[a] + Weight(u, a, d, Null) /\ e[a] \in Nat
    BY <1>3, <1>5, <1>13, <2>1 DEF Facts
  <2>4. e2[u.parent[a]] = e2[a] + Weight(u, a, d, Null)
    <3>1. e2[p] = e[q]  BY <1>14, <1>16
    <3>. QED  BY <1>16, <2>1, <2>3, <3>1
  <2>. QED  BY <1>5, <1>11, <1>12, <2>1, <2>2, <2>4 DEF EvenAt
<1>22. ASSUME NEW m \in T, m \notin {p, q, a, b, n}
       PROVE  /\ v.colour[m] = s.colour[m] /\ m # Null
              /\ s.parent[m] # Null /\ v.colour[m] = R!Red /\ s.colour[s.parent[m]] = R!Black =>
                   v.colour[s.parent[m]] = R!Black
  <2>1. s.parent[m] # p /\ s.parent[m] # q  BY <1>5, <1>22 DEF Linked, Kids
  <2>2. s.parent[m] # Null => s.parent[m] \in T  BY <1>5 DEF Linked
  <2>. QED  BY <1>5, <1>6, <1>12, <1>22, <2>1, <2>2
<1>23. Even(u, T, Null, d, Null, e2)
  <2>1. \A m \in {p, q, a, b, n} : m # Null => EvenAt(u, Null, d, Null, e2, m)
    BY <1>17, <1>18, <1>19, <1>20, <1>21
  <2>. QED  BY <1>4, <1>5, <1>10, <1>16, <1>22, <2>1, EvenTurned
<1>24. Kids(u, d) = {Null}  BY <1>4, <1>5, <1>10, LeavingTurned
<1>. QED  BY <1>8, <1>10, <1>23, <1>24

-----------------------------------------------------------------------------
(* The red-black tree: nodes that come, go and are swapped *)

\* Node d leaves, and c, which is black then, takes its place.
LEMMA RemovedEven ==
  ASSUME NEW s, NEW T, NEW top, NEW pos, Shaped(s, T, top, pos), NEW d \in T, NEW c \in T \cup {Null},
         Kids(s, d) = {c, Null}, NEW e \in [Node -> Nat],
         \A n \in T \ {d, c} : EvenAt(s, Null, d, Null, e, n),
         c = Null /\ s.parent[d] # Null => e[s.parent[d]] = 0,
         c # Null => /\ s.colour[c] = R!Black /\ (Null \in Kids(s, c) => e[c] = 0)
                     /\ s.parent[d] # Null => e[s.parent[d]] = e[c] + 1
  PROVE  /\ Shaped(R!RemoveNode(s, d, c), T \ {d}, top, pos)
         /\ Even(R!RemoveNode(s, d, c), T \ {d}, Null, Null, Null, e)
<1>1. Linked(s, T) /\ s \in Tree /\ T \subseteq Node /\ Null \notin T /\ InOrderBy(s, T, top, pos)
      /\ \A m \in Node \ T : s.left[m] = Null /\ s.right[m] = Null
  BY KeysAreRight DEF Shaped, Linked
<1>2. s.parent[d] # d  BY <1>1, ParentsDiffer
<1>3. c # d /\ (c # Null => s.parent[c] = d)
  <2>1. c # Null => c = s.left[d] \/ c = s.right[d]  BY DEF Kids
  <2>2. c # Null => s.parent[c] = d  BY <1>1, <2>1 DEF Linked
  <2>. QED  BY <1>1, <1>2, <2>2
<1>4. PICK u : u = R!RemoveNode(s, d, c)  OBVIOUS
<1>5. Removed(s, u, T, d, c)  BY <1>1, <1>2, <1>3, <1>4, RemoveNodeIs
<1>6. InOrderBy(u, T \ {d}, top, pos)  BY <1>1, <1>3, <1>5, OrderRemoved
<1>7. Shaped(u, T \ {d}, top, pos)  BY <1>1, <1>5, <1>6 DEF Removed, Shaped
<1>8. R!Red # R!Black  BY DEF R!Red, R!Black
<1>9. ASSUME NEW n \in T \ {d}, n # c
      PROVE  EvenAt(u, Null, Null, Null, e, n)
  <2>1. EvenAt(s, Null, d, Null, e, n)  BY <1>9
  <2>2. u.colour[n] = s.colour[n] /\ u.parent[n] = s.parent[n]
    BY <1>5, <1>9 DEF Removed
  <2>3. s.parent[n] # d  BY <1>1, <1>9 DEF Linked, Kids
  <2>4. s.parent[n] # Null => s.parent[n] \in T \ {d} /\ u.colour[s.parent[n]] = s.colour[s.parent[n]]
    BY <1>1, <1>5, <2>3 DEF Linked, Removed
  <2>5. Weight(u, n, Null, Null) = Weight(s, n, d, Null)  BY <1>1, <1>9, <2>2 DEF Weight
  <2>6. Null \in Kids(u, n) => e[n] = 0  BY <1>1, <1>5, <2>1 DEF Removed, EvenAt
  <2>. QED  BY <2>1, <2>2, <2>4, <2>5, <2>6 DEF EvenAt
<1>10. ASSUME c # Null
       PROVE  EvenAt(u, Null, Null, Null, e, c)
  <2>1. c \in T \ {d} /\ u.colour[c] = R!Black /\ u.parent[c] = s.parent[d]
    BY <1>3, <1>5, <1>10 DEF Removed
  <2>2. Weight(u, c, Null, Null) = 1  BY <1>10, <2>1 DEF Weight
  <2>3. Null \in Kids(u, c) => e[c] = 0  BY <1>5, <1>10, <2>1 DEF Removed
  <2>. QED  BY <1>8, <1>10, <2>1, <2>2, <2>3 DEF EvenAt
<1>11. Even(u, T \ {d}, Null, Null, Null, e)  BY <1>1, <1>9, <1>10 DEF Even
<1>. QED  BY <1>4, <1>7, <1>11

\* The same when d leaves that counts for nothing, after the loop of a deletion.
LEMMA LeavingEven ==
  ASSUME NEW s, NEW T, NEW top, NEW pos, Shaped(s, T, top, pos), NEW d \in T, Kids(s, d) = {Null},
         NEW e, Even(s, T, Null, d, Null, e)
  PROVE  /\ Shaped(R!RemoveNode(s, d, Null), T \ {d}, top, pos)
         /\ Even(R!RemoveNode(s, d, Null), T \ {d}, Null, Null, Null, e)
<1>1. e \in [Node -> Nat] /\ \A n \in T : EvenAt(s, Null, d, Null, e, n)  BY DEF Even
<1>2. Weight(s, d, d, Null) = 0  BY KeysAreRight DEF Weight, Shaped, Linked
<1>3. s.parent[d] # Null => e[s.parent[d]] = 0  BY <1>1, <1>2 DEF EvenAt
<1>4. Kids(s, d) = {Null, Null} /\ Null \in T \cup {Null}  OBVIOUS
<1>. QED  BY <1>1, <1>3, <1>4, RemovedEven

LEMMA AddedEven ==
  ASSUME NEW s, NEW T, NEW n \in Node, n \notin T, NEW p \in T \cup {Null}, NEW left \in BOOLEAN,
      NEW u, NEW e,
         Linked(s, T), Even(s, T, Null, Null, Null, e), Added(s, u, T, n, p, left),
         p # Null => Null \in Kids(s, p)
  PROVE  \E e2 : Even(u, T \cup {n}, n, Null, Null, e2)
<1>1. T \subseteq Node /\ Null \notin T /\ n # Null /\ e \in [Node -> Nat]
      /\ \A m \in T : EvenAt(s, Null, Null, Null, e, m)
  BY KeysAreRight DEF Linked, Even
<1>2. PICK e2 : e2 = [e EXCEPT ![n] = 0]  OBVIOUS
<1>3. e2 \in [Node -> Nat] /\ e2[n] = 0 /\ \A m \in T : e2[m] = e[m]  BY <1>1, <1>2
<1>4. R!Red # R!Black  BY DEF R!Red, R!Black
<1>5. EvenAt(u, n, Null, Null, e2, n)
  <2>1. u.parent[n] = p /\ u.colour[n] = R!Red  BY DEF Added
  <2>2. Weight(u, n, Null, Null) = 0  BY <1>1, <1>4, <2>1 DEF Weight
  <2>3. p # Null => e2[p] = 0  BY <1>1, <1>3 DEF EvenAt
  <2>. QED  BY <1>3, <2>1, <2>2, <2>3 DEF EvenAt
<1>6. ASSUME NEW m \in T
      PROVE  EvenAt(u, n, Null, Null, e2, m)
  <2>1. EvenAt(s, Null, Null, Null, e, m)  BY <1>1
  <2>2. u.colour[m] = s.colour[m] /\ u.parent[m] = s.parent[m]
          /\ (Null \in Kids(u, m) => Null \in Kids(s, m))
    BY DEF Added
  <2>3. s.parent[m] # Null => s.parent[m] \in T /\ u.colour[s.parent[m]] = s.colour[s.parent[m]]
          /\ e2[s.parent[m]] = e[s.parent[m]]
    BY <1>3 DEF Linked, Added
  <2>4. Weight(u, m, Null, Null) = Weight(s, m, Null, Null)  BY <2>2 DEF Weight
  <2>5. Null \in Kids(u, m) => e2[m] = 0  BY <1>3, <2>1, <2>2 DEF EvenAt
  <2>6. u.parent[m] # Null => e2[u.parent[m]] = e2[m] + Weight(u, m, Null, Null)
    BY <1>3, <2>1, <2>2, <2>3, <2>4 DEF EvenAt
  <2>. QED  BY <1>1, <2>1, <2>2, <2>3, <2>5, <2>6 DEF EvenAt
<1>. QED  BY <1>3, <1>5, <1>6 DEF Even

LEMMA SwappedEven ==
  ASSUME NEW s, NEW T, NEW x \in T, NEW y \in T, NEW u, NEW e, Linked(s, T), Swapped(s, u, T, x, y),
         Even(s, T, Null, Null, Null, e)
  PROVE  \E e2 : Even(u, T, Null, Null, Null, e2)
<1>1. T \subseteq Node /\ Null \notin T /\ e \in [Node -> Nat] /\ x # Null /\ y # Null
      /\ \A m \in T : EvenAt(s, Null, Null, Null, e, m)
  BY KeysAreRight DEF Linked, Even
<1>2. PICK e2 : e2 = [m \in Node |-> e[Ex(x, y, m)]]  OBVIOUS
<1>3. /\ \A m : Ex(x, y, Ex(x, y, m)) = m
      /\ \A m \in T : Ex(x, y, m) \in T
      /\ \A m : m = Null <=> Ex(x, y, m) = Null
  BY <1>1 DEF Ex
<1>4. \A m \in Node : Ex(x, y, m) \in Node  BY <1>1 DEF Ex
<1>5. e2 \in [Node -> Nat] /\ \A m \in T : e2[m] = e[Ex(x, y, m)]  BY <1>1, <1>2, <1>4
<1>6. ASSUME NEW m \in T
      PROVE  EvenAt(u, Null, Null, Null, e2, m)
  <2>1. PICK z \in T : z = Ex(x, y, m)  BY <1>3
  <2>2. EvenAt(s, Null, Null, Null, e, z) /\ e2[m] = e[z]  BY <1>1, <1>5, <2>1
  <2>3. /\ u.left[m] = Ex(x, y, s.left[z]) /\ u.right[m] = Ex(x, y, s.right[z])
        /\ u.parent[m] = Ex(x, y, s.parent[z]) /\ u.colour[m] = s.colour[z]
    BY <2>1 DEF Swapped
  <2>4. Null \in Kids(u, m) => Null \in Kids(s, z)  BY <1>3, <2>3 DEF Kids
  <2>5. ASSUME u.parent[m] # Null
        PROVE  /\ s.parent[z] # Null /\ e2[u.parent[m]] = e[s.parent[z]]
               /\ u.colour[u.parent[m]] = s.colour[s.parent[z]]
    <3>1. s.parent[z] # Null /\ s.parent[z] \in T /\ u.parent[m] \in T
            /\ Ex(x, y, u.parent[m]) = s.parent[z]
      BY <1>3, <2>3, <2>5 DEF Linked
    <3>. QED  BY <1>5, <3>1 DEF Swapped
  <2>6. s.parent[z] # Null => u.parent[m] # Null  BY <1>3, <2>3
  <2>7. Weight(u, m, Null, Null) = Weight(s, z, Null, Null)  BY <1>1, <2>3 DEF Weight
  <2>8. u.parent[m] # Null => e2[u.parent[m]] = e2[m] + Weight(u, m, Null, Null)
    BY <2>2, <2>5, <2>7 DEF EvenAt
  <2>9. Null \in Kids(u, m) => e2[m] = 0  BY <2>2, <2>4 DEF EvenAt
  <2>10. u.colour[m] = R!Red => u.parent[m] # Null /\ u.colour[u.parent[m]] = R!Black
    BY <1>1, <2>2, <2>3, <2>5, <2>6 DEF EvenAt
  <2>. QED  BY <2>8, <2>9, <2>10 DEF EvenAt
<1>. QED  BY <1>5, <1>6 DEF Even

-----------------------------------------------------------------------------
(* The red-black tree: the invariant *)

\* Between calls: a search tree in balance.
Rests(s, T) ==
  \E top, pos, e : Shaped(s, T, top, pos) /\ InKeyOrder(T, pos) /\ Even(s, T, Null, Null, Null, e)

\* In an insertion: out of balance at the red node n at most.
Inserts(s, T, n) ==
  /\ n \in T /\ s.colour[n] = R!Red
  /\ \E top, pos, e : Shaped(s, T, top, pos) /\ InKeyOrder(T, pos) /\ Even(s, T, n, Null, Null, e)

\* In a deletion: node d is still in the tree, among the others by place and not by key,
\* and a black node is missing below n.
Deletes(s, T, n, d) ==
  /\ d \in Node \ T
  /\ \E top, pos, e : Lacking(s, T \cup {d}, top, pos, n, d, e) /\ InKeyOrder(T, pos)

TreeInv ==
  /\ R!TypeOK
  /\ pc = "idle" => Rests(tree, members)
  /\ pc = "insert" => Inserts(tree, members, node)
  /\ pc = "delete" => Deletes(tree, members, node, deletee) /\ child = Null

TreeTypes == /\ tree \in Tree /\ pc \in {"idle", "insert", "delete"}
             /\ node \in Node \cup {Null} /\ (pc # "idle" => node # Null)
             /\ deletee \in Node \cup {Null} /\ child \in Node \cup {Null} /\ members \subseteq Node

LEMMA TypesAre == R!TypeOK <=> TreeTypes
BY DEF R!TypeOK, TreeTypes, Tree

LEMMA TypesAreLater == R!TypeOK' <=> TreeTypes'
BY DEF R!TypeOK, TreeTypes, Tree

LEMMA ColoursDiffer == R!Red # R!Black
BY DEF R!Red, R!Black

LEMMA TreeInit == R!Init => TreeInv
<1> SUFFICES ASSUME R!Init PROVE TreeInv
  OBVIOUS
<1>1. TreeTypes /\ members = {} /\ pc = "idle"
  BY KeysAreRight DEF R!Init, TreeTypes, Tree
<1>2. /\ tree.root = Null /\ \A n \in Node : tree.left[n] = Null /\ tree.right[n] = Null
  BY DEF R!Init
<1>3. Linked(tree, {})  BY <1>1, <1>2 DEF Linked, TreeTypes
<1>4. PICK z \in [Node -> 0 .. 0] : z = [n \in Node |-> 0]
  <2>1. [n \in Node |-> 0] \in [Node -> 0 .. 0]  OBVIOUS
  <2>. QED  BY <2>1
<1>5. Ordered(tree, {}, 0, z, z, z)  BY DEF Ordered
<1>6. InOrderBy(tree, {}, 0, z)  BY <1>5 DEF InOrderBy
<1>7. Shaped(tree, {}, 0, z) /\ InKeyOrder({}, z) /\ Even(tree, {}, Null, Null, Null, z)
  BY <1>2, <1>3, <1>6 DEF Shaped, InKeyOrder, Even
<1>8. Rests(tree, {})  BY <1>7 DEF Rests
<1>. QED  BY <1>1, <1>8, TypesAre DEF TreeInv

-----------------------------------------------------------------------------
(* The red-black tree: insertion *)

LEMMA EmptyTree ==
  ASSUME NEW s, NEW T, NEW top, NEW pos, Shaped(s, T, top, pos), s.root = Null
  PROVE  T = {}
<1>1. Linked(s, T) /\ Null \notin T  BY KeysAreRight DEF Shaped, Linked
<1>2. PICK lo, hi \in [Node -> 0 .. top] : Ordered(s, T, top, pos, lo, hi)
  BY DEF Shaped, InOrderBy
<1>3. \A b \in T : b # s.root => s.root \in T  BY <1>1, <1>2, AllInsideRoot
<1>. QED  BY <1>1, <1>3

LEMMA InsertKeeps ==
  ASSUME TreeInv, NEW n \in Node, R!Insert(n)
  PROVE  TreeInv'
<1>1. PICK p, left : /\ p = R!InsertionPoint(KeyOf[n]) /\ left = (p # Null /\ KeyOf[p] >= KeyOf[n])
                     /\ R!InsertBelow(n, p, left)
  BY DEF R!Insert
<1>2. /\ pc = "idle" /\ n \notin members /\ tree' = LeafUnder(tree, n, p, left)
      /\ pc' = "insert" /\ node' = n /\ members' = members \cup {n} /\ UNCHANGED <<deletee, child>>
  BY <1>1 DEF R!InsertBelow, LeafUnder
<1>3. PICK top, pos, e : Shaped(tree, members, top, pos) /\ InKeyOrder(members, pos)
          /\ Even(tree, members, Null, Null, Null, e)
  BY <1>2 DEF TreeInv, Rests
<1>4. /\ TreeTypes /\ Linked(tree, members) /\ InOrderBy(tree, members, top, pos)
           /\ Null \notin Node /\ members \subseteq Node
      /\ \A m \in Node \ members : tree.left[m] = Null /\ tree.right[m] = Null
      /\ \A m \in Node : KeyOf[m] \in Int
  BY <1>3, TypesAre, KeysAreRight DEF TreeInv, Shaped, Linked
<1>5. tree.root = Null => p = Null /\ members = {}
  <2>1. tree.root = Null => R!InsertionPoint(KeyOf[n]) = Null
    BY Zenon DEF R!InsertionPoint
  <2>. QED  BY <1>1, <1>3, <2>1, EmptyTree
<1>6. tree.root # Null => Room(members, pos, KeyOf[n], p)
        /\ \A b \in members : Splits(pos, KeyOf[n], p, b)
  BY <1>1, <1>3, <1>4, InsertionPointFits
<1>7. p \in members \cup {Null} /\ (p = Null <=> tree.root = Null)
  BY <1>4, <1>5, <1>6 DEF Room
<1>8. p # Null => IF left THEN tree.left[p] = Null ELSE tree.right[p] = Null
  BY <1>1, <1>6, <1>7 DEF Room
<1>9. left \in BOOLEAN  BY <1>1
<1>10. Added(tree, tree', members, n, p, left)  BY <1>2, <1>4, <1>7, <1>8, <1>9, LeafIs
<1>11. PICK top2, pos2 : InOrderBy(tree', members \cup {n}, top2, pos2)
           /\ Doubled(pos, members, n, p, left, pos2)
  <2>1. p = Null => members = {}  BY <1>5, <1>7
  <2>2. MovesApart(tree', members, pos, n, p, left)
    BY <1>2, <1>4, <1>7, <1>8, <1>9, <1>10, <2>1, OrderAdded
  <2>. QED  BY <2>2 DEF MovesApart
<1>12. pos2[n] \in Int  BY <1>11 DEF InOrderBy, Ordered
<1>13. Shaped(tree', members \cup {n}, top2, pos2)
  BY <1>4, <1>10, <1>11 DEF Added, Shaped
<1>14. InKeyOrder(members \cup {n}, pos2)
  <2>1. PICK lo, hi \in [Node -> 0 .. top] : Ordered(tree, members, top, pos, lo, hi)
    BY <1>4 DEF InOrderBy
  <2>2. \A m \in members : pos[m] \in Nat /\ pos2[m] = 2 * pos[m]
    BY <1>4, <1>11, <2>1 DEF Ordered, Doubled
  <2>3. CASE p = Null  BY <1>4, <1>5, <1>7, <2>3 DEF InKeyOrder
  <2>4. CASE p # Null
    <3>1. /\ p \in members /\ pos2[n] = IF left THEN 2 * pos[p] - 1 ELSE 2 * pos[p] + 1
          /\ \A b \in members : Splits(pos, KeyOf[n], p, b)
      BY <1>6, <1>7, <1>11, <2>4 DEF Doubled
    <3>2. ASSUME NEW b \in members
          PROVE  /\ pos2[b] < pos2[n] => KeyOf[b] <= KeyOf[n]
                 /\ pos2[n] < pos2[b] => KeyOf[n] <= KeyOf[b]
      <4>1. pos[b] = pos[p] => b = p  BY <1>3, <3>1, PositionsDiffer
      <4>2. /\ pos[b] < pos[p] => KeyOf[b] <= KeyOf[n]
            /\ pos[p] < pos[b] => KeyOf[b] >= KeyOf[n]
        BY <3>1 DEF Splits
      <4>3. pos[p] \in Nat /\ pos[b] \in Nat /\ pos2[b] = 2 * pos[b] /\ KeyOf[b] \in Int
              /\ KeyOf[n] \in Int /\ KeyOf[p] \in Int
        BY <1>4, <2>2, <3>1
      <4>4. CASE left
        <5>1. KeyOf[p] >= KeyOf[n] /\ pos2[n] = 2 * pos[p] - 1  BY <1>1, <3>1, <4>4
        <5>. QED  BY <4>1, <4>2, <4>3, <5>1
      <4>5. CASE ~left
        <5>1. KeyOf[p] < KeyOf[n] /\ pos2[n] = 2 * pos[p] + 1
          <6>1. ~(KeyOf[p] >= KeyOf[n])  BY Zenon, <1>1, <2>4, <4>5
          <6>2. pos2[n] = 2 * pos[p] + 1  BY Zenon, <3>1, <4>5
          <6>. QED  BY <4>3, <6>1, <6>2
        <5>. QED  BY <4>1, <4>2, <4>3, <5>1
      <4>. QED  BY <1>9, <4>4, <4>5
    <3>3. ASSUME NEW a \in members, NEW b \in members, pos2[a] < pos2[b]
          PROVE  KeyOf[a] <= KeyOf[b]
      <4>1. pos[a] < pos[b]  BY <2>2, <3>3
      <4>. QED  BY <1>3, <4>1 DEF InKeyOrder
    <3>4. pos2[n] \in Int  BY <1>12
    <3>. QED  BY <3>2, <3>3, <3>4 DEF InKeyOrder
  <2>. QED  BY <2>3, <2>4
<1>15. PICK e2 : Even(tree', members \cup {n}, n, Null, Null, e2)
  <2>1. p # Null => Null \in Kids(tree, p)  BY <1>8 DEF Kids
  <2>. QED  BY <1>2, <1>3, <1>4, <1>7, <1>9, <1>10, <2>1, AddedEven
<1>16. tree'.colour[n] = R!Red /\ tree' \in Tree  BY <1>10 DEF Added, Linked
<1>17. Inserts(tree', members', node')  BY <1>2, <1>13, <1>14, <1>15, <1>16 DEF Inserts
<1>18. TreeTypes'  BY <1>2, <1>4, <1>16 DEF TreeTypes
<1>. QED  BY <1>2, <1>17, <1>18, TypesAreLater DEF TreeInv

\* A step of the loop of an insertion: it ends, or it goes on at another node.
LEMMA InsertEnds ==
  ASSUME TreeInv, NEW u, R!InsertDone(u), UNCHANGED <<deletee, child, members>>, Rests(u, members)
  PROVE  TreeInv'
<1>1. tree' = u /\ pc' = "idle" /\ node' = Null /\ members' = members
  BY DEF R!InsertDone
<1>2. u \in Tree  BY DEF Rests, Shaped, Linked
<1>3. TreeTypes'  BY <1>1, <1>2, TypesAre DEF TreeInv, TreeTypes
<1>. QED  BY <1>1, <1>3, TypesAreLater DEF TreeInv

LEMMA InsertGoesOn ==
  ASSUME TreeInv, pc = "insert", UNCHANGED <<pc, deletee, child, members>>,
      Inserts(tree', members, node')
  PROVE  TreeInv'
<1>1. tree' \in Tree /\ node' \in Node /\ node' # Null
  BY TypesAre, KeysAreRight DEF Inserts, Shaped, Linked, TreeInv, TreeTypes
<1>2. TreeTypes'  BY <1>1, TypesAre DEF TreeInv, TreeTypes
<1>. QED  BY <1>2, TypesAreLater DEF TreeInv

LEMMA SiblingIs == \A n : R!Sibling(n) = SiblingOf(tree, n)
BY DEF R!Sibling, SiblingOf

LEMMA ClashIs ==
  ASSUME TreeInv, R!UnderRed
  PROVE  /\ members \subseteq Node /\ tree \in Tree
         /\ \E top, pos, e : Clash(tree, members, top, pos, node, e) /\ InKeyOrder(members, pos)
<1>1. pc = "insert" /\ tree.parent[node] # Null /\ tree.colour[tree.parent[node]] = R!Red
  BY DEF R!UnderRed, R!Colour
<1>2. PICK top, pos, e : Shaped(tree, members, top, pos) /\ InKeyOrder(members, pos)
          /\ Even(tree, members, node, Null, Null, e)
  BY <1>1 DEF TreeInv, Inserts
<1>3. node \in members /\ tree.colour[node] = R!Red  BY <1>1 DEF TreeInv, Inserts
<1>. QED  BY <1>1, <1>2, <1>3, TypesAre DEF Clash, TreeInv, TreeTypes

LEMMA InsertAtRootKeeps ==
  ASSUME TreeInv, R!InsertAtRoot
  PROVE  TreeInv'
<1>1. /\ pc = "insert" /\ tree.parent[node] = Null
           /\ R!InsertDone([tree EXCEPT !.colour[node] = R!Black])
      /\ UNCHANGED <<deletee, child, members>>
  BY DEF R!InsertAtRoot
<1>2. PICK top, pos, e : Shaped(tree, members, top, pos) /\ InKeyOrder(members, pos)
          /\ Even(tree, members, node, Null, Null, e)
  BY <1>1 DEF TreeInv, Inserts
<1>3. /\ node \in members /\ node \in Node /\ tree \in Tree /\ Null \notin members
           /\ Linked(tree, members)
      /\ members \subseteq Node
  BY <1>1, <1>2, TypesAre, KeysAreRight DEF TreeInv, Inserts, TreeTypes, Shaped
<1>4. PICK u : u = [tree EXCEPT !.colour[node] = R!Black]  OBVIOUS
<1>5. Painted(tree, u) /\ u.colour[node] = R!Black /\ \A m \in members : m # node
        => u.colour[m] = tree.colour[m]
  BY <1>3, <1>4 DEF Painted, Tree
<1>6. /\ e \in [Node -> Nat] /\ \A m \in members : EvenAt(tree, node, Null, Null, e, m)
  BY <1>2 DEF Even
<1>7. u.left = tree.left /\ u.right = tree.right /\ u.parent = tree.parent
        /\ \A m : Kids(u, m) = Kids(tree, m)
  BY <1>5 DEF Painted, Kids
<1>8. EvenAt(u, Null, Null, Null, e, node)
  BY <1>1, <1>3, <1>5, <1>6, <1>7, ColoursDiffer DEF EvenAt
<1>9. ASSUME NEW m \in members, m # node
      PROVE  EvenAt(u, Null, Null, Null, e, m)
  <2>1. EvenAt(tree, node, Null, Null, e, m) /\ u.colour[m] = tree.colour[m]
    BY <1>5, <1>6, <1>9
  <2>2. Weight(u, m, Null, Null) = Weight(tree, m, Null, Null)  BY <2>1 DEF Weight
  <2>3. tree.parent[m] # Null => tree.parent[m] \in members  BY <1>3 DEF Linked
  <2>4. tree.parent[m] # Null /\ tree.colour[tree.parent[m]] = R!Black
          => u.colour[tree.parent[m]] = R!Black
    BY <1>5, <2>3
  <2>. QED  BY <1>7, <1>9, <2>1, <2>2, <2>4 DEF EvenAt
<1>10. Even(u, members, Null, Null, Null, e) /\ Shaped(u, members, top, pos)
  BY <1>2, <1>5, <1>6, <1>8, <1>9, PaintedShape DEF Even
<1>11. Rests(u, members)  BY <1>2, <1>10 DEF Rests
<1>. QED  BY <1>1, <1>4, <1>11, InsertEnds

LEMMA InsertUnderBlackKeeps ==
  ASSUME TreeInv, R!InsertUnderBlack
  PROVE  TreeInv'
<1>1. /\ pc = "insert" /\ tree.parent[node] # Null /\ tree.colour[tree.parent[node]] = R!Black
      /\ R!InsertDone(tree) /\ UNCHANGED <<deletee, child, members>>
  BY DEF R!InsertUnderBlack, R!Colour
<1>2. PICK top, pos, e : Shaped(tree, members, top, pos) /\ InKeyOrder(members, pos)
          /\ Even(tree, members, node, Null, Null, e)
  BY <1>1 DEF TreeInv, Inserts
<1>3. Even(tree, members, Null, Null, Null, e)  BY <1>1, <1>2 DEF Even, EvenAt
<1>4. Rests(tree, members)  BY <1>2, <1>3 DEF Rests
<1>. QED  BY <1>1, <1>4, InsertEnds

LEMMA InsertRedUncleKeeps ==
  ASSUME TreeInv, R!InsertRedUncle
  PROVE  TreeInv'
<1>1. PICK p, g, q : p = tree.parent[node] /\ g = tree.parent[p] /\ q = SiblingOf(tree, p)
  OBVIOUS
<1>2. /\ R!UnderRed /\ q # Null /\ tree.colour[q] = R!Red
      /\ tree' = [tree EXCEPT !.colour[p] = R!Black, !.colour[q] = R!Black, !.colour[g] = R!Red]
      /\ node' = g /\ UNCHANGED <<pc, deletee, child, members>> /\ pc = "insert"
  BY <1>1, SiblingIs, ColoursDiffer
     DEF R!InsertRedUncle, R!Uncle, R!Parent, R!Grandparent, R!Colour, R!UnderRed
<1>3. PICK top, pos, e : Clash(tree, members, top, pos, node, e) /\ InKeyOrder(members, pos)
  BY <1>2, ClashIs
<1>4. members \subseteq Node /\ tree \in Tree  BY <1>2, ClashIs
<1>5. Shaped(tree, members, top, pos) /\ node \in members  BY <1>3 DEF Clash
<1>6. p \in members /\ g \in members /\ g # p  BY <1>1, <1>3, AroundClash
<1>7. q \in members /\ q \notin {p, g}
  <2>1. Family(tree, members, p)  BY <1>1, <1>4, <1>5, <1>6, Around, KeysAreRight
  <2>. QED  BY <1>1, <1>2, <2>1 DEF Family
<1>8. Painted(tree, tree')  BY <1>2, <1>4, <1>6, <1>7 DEF Painted, Tree
<1>9. ASSUME NEW m \in members
      PROVE  tree'.colour[m] = IF m = g THEN R!Red ELSE IF m = q \/ m = p THEN R!Black
          ELSE tree.colour[m]
  BY <1>2, <1>4, <1>6, <1>7 DEF Tree
<1>10. PICK e2 : Even(tree', members, g, Null, Null, e2)
  <2>1. /\ SiblingOf(tree, tree.parent[node]) # Null
        /\ tree.colour[SiblingOf(tree, tree.parent[node])] = R!Red
        /\ \A m \in members : tree'.colour[m] = IF m = tree.parent[tree.parent[node]] THEN R!Red
             ELSE IF m = SiblingOf(tree, tree.parent[node]) \/ m = tree.parent[node] THEN R!Black
             ELSE tree.colour[m]
    BY <1>1, <1>2, <1>9
  <2>2. \E e2 : Even(tree', members, tree.parent[tree.parent[node]], Null, Null, e2)
    BY Zenon, <1>3, <1>8, <2>1, UncleEven
  <2>. QED  BY <1>1, <2>2
<1>11. Shaped(tree', members, top, pos)  BY <1>5, <1>8, PaintedShape
<1>12. Inserts(tree', members, node')
  BY <1>2, <1>3, <1>6, <1>9, <1>10, <1>11 DEF Inserts
<1>. QED  BY <1>2, <1>12, InsertGoesOn

LEMMA InsertTriangleKeeps ==
  ASSUME TreeInv, R!InsertTriangle
  PROVE  TreeInv'
<1>1. PICK p : p = tree.parent[node]  OBVIOUS
<1>2. /\ R!UnderRed /\ pc = "insert" /\ node' = p /\ UNCHANGED <<pc, deletee, child, members>>
      /\ \/ node = tree.right[p] /\ tree' = R!RotateLeft(tree, p)
         \/ node = tree.left[p] /\ tree' = R!RotateRight(tree, p)
  BY <1>1 DEF R!InsertTriangle, R!Parent, R!UnderRed
<1>3. PICK top, pos, e : Clash(tree, members, top, pos, node, e) /\ InKeyOrder(members, pos)
  BY <1>2, ClashIs
<1>4. Shaped(tree, members, top, pos) /\ node \in members /\ p # Null /\ tree.colour[p] = R!Red
  BY <1>1, <1>3 DEF Clash
<1>5. p \in members  BY <1>1, <1>3, AroundClash
<1>6. node = tree.left[p] => node # tree.right[p]
  BY <1>4, <1>5, KeysAreRight DEF Shaped, Linked
<1>7. tree' = Raised(tree, node)  BY <1>1, <1>2, <1>6 DEF Raised
<1>8. Shaped(tree', members, top, pos) /\ Even(tree', members, p, Null, Null, e)
  BY <1>1, <1>3, <1>7, TriangleEven
<1>9. tree'.colour[p] = R!Red
  <2>1. Turned(tree, tree', members, p, node, Inner(tree, node), Outer(tree, node),
          SiblingOf(tree, node))
    BY <1>1, <1>4, <1>7, RaisedIs
  <2>. QED  BY <1>4, <2>1 DEF Turned
<1>10. Inserts(tree', members, node')  BY <1>2, <1>3, <1>5, <1>8, <1>9 DEF Inserts
<1>. QED  BY <1>2, <1>10, InsertGoesOn

LEMMA InsertLineKeeps ==
  ASSUME TreeInv, R!InsertLine
  PROVE  TreeInv'
<1>1. PICK p, g, q : p = tree.parent[node] /\ g = tree.parent[p] /\ q = SiblingOf(tree, p)
  OBVIOUS
<1>2. PICK v : v = [tree EXCEPT !.colour[p] = R!Black, !.colour[g] = R!Red]  OBVIOUS
<1>3. /\ R!UnderRed /\ (q # Null => tree.colour[q] = R!Black)
      /\ \/ node = tree.left[p] /\ p = tree.left[g] /\ R!InsertDone(R!RotateRight(v, g))
         \/ node = tree.right[p] /\ p = tree.right[g] /\ R!InsertDone(R!RotateLeft(v, g))
      /\ UNCHANGED <<deletee, child, members>>
  BY <1>1, <1>2, SiblingIs, ColoursDiffer DEF R!InsertLine, R!Uncle, R!Parent, R!Grandparent, R!Colour
<1>4. PICK top, pos, e : Clash(tree, members, top, pos, node, e) /\ InKeyOrder(members, pos)
  BY <1>3, ClashIs
<1>5. members \subseteq Node /\ tree \in Tree  BY <1>3, ClashIs
<1>6. Shaped(tree, members, top, pos) /\ node \in members  BY <1>4 DEF Clash
<1>7. p \in members /\ g \in members /\ g # p  BY <1>1, <1>4, AroundClash
<1>8. Painted(tree, v)  BY <1>2, <1>5, <1>7 DEF Painted, Tree
<1>9. \A m \in members : v.colour[m] = IF m = g THEN R!Red ELSE IF m = p THEN R!Black ELSE tree.colour[m]
  BY <1>2, <1>5, <1>7 DEF Tree
<1>10. v.left = tree.left /\ v.right = tree.right /\ v.parent = tree.parent
  BY <1>8 DEF Painted
<1>11. /\ p = tree.left[g] => p # tree.right[g]
       /\ node = Outer(tree, p)
       /\ R!InsertDone(Raised(v, p))
  <2>1. p = tree.left[g] => p # tree.right[g]
    BY <1>5, <1>6, <1>7, KeysAreRight DEF Shaped, Linked
  <2>. QED  BY <1>1, <1>3, <1>10, <2>1 DEF Outer, Raised
<1>12. Shaped(Raised(v, p), members, top, pos) /\ Even(Raised(v, p), members, Null, Null, Null, e)
  BY <1>1, <1>3, <1>4, <1>8, <1>9, <1>11, LineEven
<1>13. Rests(Raised(v, p), members)  BY <1>4, <1>12 DEF Rests
<1>. QED  BY <1>3, <1>11, <1>13, InsertEnds

-----------------------------------------------------------------------------
(* The red-black tree: deletion *)

\* Node n has at most one child, and the others are in the order of their keys.
OneChild(s, T, n, top, pos, e) ==
  /\ Shaped(s, T, top, pos) /\ InKeyOrder(T \ {n}, pos) /\ Even(s, T, Null, Null, Null, e)
  /\ Null \in Kids(s, n)

LEMMA WithOneChildIs ==
  ASSUME TreeInv, pc = "idle", NEW n \in members
  PROVE  \E top, pos, e : OneChild(R!WithOneChild(n), members, n, top, pos, e)
<1>1. PICK top, pos, e : Shaped(tree, members, top, pos) /\ InKeyOrder(members, pos)
          /\ Even(tree, members, Null, Null, Null, e)
  BY DEF TreeInv, Rests
<1>2. Linked(tree, members) /\ members \subseteq Node /\ Null \notin members /\ tree \in Tree
      /\ InOrderBy(tree, members, top, pos) /\ n \in Node
      /\ \A m \in Node \ members : tree.left[m] = Null /\ tree.right[m] = Null
  BY <1>1, KeysAreRight DEF Shaped, Linked
<1>3. CASE ~(tree.left[n] # Null /\ tree.right[n] # Null)
  <2>1. R!WithOneChild(n) = tree  BY <1>3 DEF R!WithOneChild
  <2>2. InKeyOrder(members \ {n}, pos)  BY <1>1 DEF InKeyOrder
  <2>3. Null \in Kids(tree, n)  BY <1>3 DEF Kids
  <2>. QED  BY <1>1, <2>1, <2>2, <2>3 DEF OneChild
<1>4. CASE tree.left[n] # Null /\ tree.right[n] # Null
  <2>1. PICK y, s : y = R!Predecessor(n) /\ s = R!SwapNodes(tree, n, y)  OBVIOUS
  <2>2. R!WithOneChild(n) = s  BY <1>4, <2>1 DEF R!WithOneChild
  <2>3. Before(members, pos, n, y)  BY <1>1, <1>4, <2>1, PredecessorComesBefore
  <2>4. /\ y \in members /\ y # n /\ tree.right[y] = Null /\ pos[y] < pos[n]
        /\ \A b \in members : ~(pos[y] < pos[b] /\ pos[b] < pos[n])
        /\ tree.parent[y] \in members \ {y} /\ tree.parent[n] \notin {n, y}
        /\ tree.parent[y] = n \/ tree.parent[y] # tree.parent[n]
    BY <2>3 DEF Before
  <2>5. Swapped(tree, s, members, n, y)  BY <1>2, <2>1, <2>4, SwapIs
  <2>6. Linked(s, members)  BY <1>2, <2>4, <2>5, SwapLinked
  <2>7. PICK pos2 : InOrderBy(s, members, top, pos2) /\ \A m \in members : pos2[m] = pos[Ex(n, y, m)]
    <3>1. PlacesSwapped(s, members, top, pos, n, y)  BY <1>2, <2>4, <2>5, OrderSwapped
    <3>. QED  BY <3>1 DEF PlacesSwapped
  <2>8. PICK e2 : Even(s, members, Null, Null, Null, e2)
    BY <1>1, <1>2, <2>4, <2>5, SwappedEven
  <2>9. Shaped(s, members, top, pos2)  BY <1>2, <2>5, <2>6, <2>7 DEF Swapped, Shaped
  <2>10. Null \in Kids(s, n)
    <3>1. s.right[n] = Ex(n, y, tree.right[y])  BY <2>5 DEF Swapped, Ex
    <3>. QED  BY <1>2, <2>4, <3>1 DEF Ex, Kids
  <2>11. InKeyOrder(members \ {n}, pos2)
    <3> SUFFICES ASSUME NEW a \in members \ {n}, NEW b \in members \ {n}, pos2[a] < pos2[b]
                 PROVE  KeyOf[a] <= KeyOf[b]
      BY DEF InKeyOrder
    <3>0. \A m \in members : pos[m] \in Int  BY <1>2 DEF InOrderBy, Ordered
    <3>1. \A m \in members \ {n} : pos2[m] = IF m = y THEN pos[n] ELSE pos[m]
      BY <2>4, <2>7 DEF Ex
    <3>2. pos[a] < pos[b]
      <4>1. CASE a = y  BY <2>4, <3>0, <3>1, <4>1
      <4>2. CASE b = y
        <5>1. a # y /\ pos[a] < pos[n]  BY <2>4, <3>0, <3>1, <4>2
        <5>2. pos[a] <= pos[y]  BY <2>4, <3>0, <5>1
        <5>3. pos[a] # pos[y]  BY <1>1, <2>4, <5>1, PositionsDiffer
        <5>. QED  BY <2>4, <3>0, <4>2, <5>2, <5>3
      <4>3. CASE a # y /\ b # y  BY <3>1, <4>3
      <4>. QED  BY <4>1, <4>2, <4>3
    <3>. QED  BY <1>1, <3>2 DEF InKeyOrder
  <2>. QED  BY <2>2, <2>8, <2>9, <2>10, <2>11 DEF OneChild
<1>. QED  BY <1>3, <1>4

\* A deletion that ends: the node has left.
LEMMA DeleteEnds ==
  ASSUME TreeInv, NEW T, NEW s, NEW d \in Node, NEW c, R!DeleteDone(s, d, c), members' = T,
         Rests(R!RemoveNode(s, d, c), T), T \subseteq Node
  PROVE  TreeInv'
<1>1. /\ tree' = R!RemoveNode(s, d, c) /\ pc' = "idle" /\ node' = Null /\ deletee' = Null
           /\ child' = Null
  BY DEF R!DeleteDone
<1>2. R!RemoveNode(s, d, c) \in Tree  BY DEF Rests, Shaped, Linked
<1>3. TreeTypes'  BY <1>1, <1>2 DEF TreeTypes
<1>. QED  BY <1>1, <1>3, TypesAreLater DEF TreeInv

\* What is known of node n, which has at most the child c.
Deletee(s, T, n, top, pos, e, c) ==
  /\ T \subseteq Node /\ Null \notin T /\ s \in Tree /\ Linked(s, T) /\ Shaped(s, T, top, pos)
  /\ c \in T \cup {Null} /\ Kids(s, n) = {c, Null} /\ c # n /\ s.parent[n] # n
  /\ e \in [Node -> Nat] /\ e[n] = 0
  /\ \A m \in T : EvenAt(s, Null, Null, Null, e, m) /\ s.colour[m] \in {R!Red, R!Black}
  /\ c # Null => /\ s.parent[c] = n /\ s.colour[c] = R!Red /\ s.colour[n] = R!Black /\ e[c] = 0
                 /\ s.parent[n] # Null => e[s.parent[n]] = 1
  /\ s.colour[n] = R!Red /\ s.parent[n] # Null => e[s.parent[n]] = 0

LEMMA DeleteeIs ==
  ASSUME NEW s, NEW T, NEW n \in T, NEW top, NEW pos, NEW e, OneChild(s, T, n, top, pos, e), NEW c,
         c = (IF s.right[n] # Null THEN s.right[n] ELSE s.left[n])
  PROVE  Deletee(s, T, n, top, pos, e, c)
<1>1. T \subseteq Node /\ Null \notin T /\ s \in Tree /\ Linked(s, T) /\ Shaped(s, T, top, pos)
        /\ n \in Node
  BY KeysAreRight DEF OneChild, Shaped, Linked
<1>2. c \in T \cup {Null} /\ Kids(s, n) = {c, Null} /\ (c # Null => s.parent[c] = n)
  BY <1>1 DEF OneChild, Linked, Kids
<1>3. s.parent[n] # n  BY <1>1, ParentsDiffer
<1>4. e \in [Node -> Nat] /\ \A m \in T : EvenAt(s, Null, Null, Null, e, m)
  BY DEF OneChild, Even
<1>5. \A m \in T : s.colour[m] \in {R!Red, R!Black} /\ e[m] \in Nat
  BY <1>1, <1>4 DEF Tree
<1>6. \A m \in T : Weight(s, m, Null, Null) = IF s.colour[m] = R!Black THEN 1 ELSE 0
  BY <1>1 DEF Weight
<1>7. e[n] = 0  BY <1>4 DEF OneChild, EvenAt
<1>8. ASSUME c # Null
      PROVE  /\ s.colour[c] = R!Red /\ s.colour[n] = R!Black /\ e[c] = 0
             /\ s.parent[n] # Null => e[s.parent[n]] = 1
  <2>1. c \in T /\ s.parent[c] = n /\ n # Null  BY <1>1, <1>2, <1>8
  <2>2. e[n] = e[c] + Weight(s, c, Null, Null)  BY <1>4, <2>1 DEF EvenAt
  <2>3. s.colour[c] = R!Red /\ e[c] = 0  BY <1>5, <1>6, <1>7, <2>1, <2>2
  <2>4. s.colour[n] = R!Black  BY <1>1, <1>4, <2>1, <2>3 DEF EvenAt
  <2>5. s.parent[n] # Null => e[s.parent[n]] = 1  BY <1>4, <1>6, <1>7, <2>4 DEF EvenAt
  <2>. QED  BY <2>3, <2>4, <2>5
<1>9. s.colour[n] = R!Red /\ s.parent[n] # Null => e[s.parent[n]] = 0
  BY <1>4, <1>6, <1>7, ColoursDiffer DEF EvenAt
<1>. QED  BY <1>1, <1>2, <1>3, <1>4, <1>5, <1>7, <1>8, <1>9 DEF Deletee

LEMMA DeleteKeeps ==
  ASSUME TreeInv, NEW n \in Node, R!Delete(n)
  PROVE  TreeInv'
<1>1. PICK s, c : s = R!WithOneChild(n) /\ c = IF s.right[n] # Null THEN s.right[n] ELSE s.left[n]
  OBVIOUS
<1>0. PICK T : T = members  OBVIOUS
<1>2. /\ pc = "idle" /\ T = members /\ n \in T /\ n \in members /\ members' = T \ {n}
      /\ \/ s.colour[n] = R!Red /\ R!DeleteDone(s, n, c)
         \/ /\ s.colour[n] = R!Black /\ c # Null /\ s.colour[c] = R!Red
            /\ R!DeleteDone([s EXCEPT !.colour[c] = R!Black], n, c)
         \/ /\ s.colour[n] = R!Black /\ ~(c # Null /\ s.colour[c] = R!Red)
            /\ tree' = s /\ pc' = "delete" /\ node' = n /\ deletee' = n /\ child' = c
  BY <1>0, <1>1 DEF R!Delete, R!DeleteColoured
<1>3. PICK top, pos, e : OneChild(s, members, n, top, pos, e)
  BY <1>1, <1>2, WithOneChildIs
<1>4. /\ T \subseteq Node /\ Null \notin T /\ s \in Tree /\ Linked(s, T) /\ Shaped(s, T, top, pos)
      /\ c \in T \cup {Null} /\ Kids(s, n) = {c, Null} /\ c # n /\ s.parent[n] # n
      /\ e \in [Node -> Nat] /\ e[n] = 0
      /\ \A m \in T : EvenAt(s, Null, Null, Null, e, m) /\ s.colour[m] \in {R!Red, R!Black}
      /\ c # Null => /\ s.parent[c] = n /\ s.colour[c] = R!Red /\ s.colour[n] = R!Black /\ e[c] = 0
                     /\ s.parent[n] # Null => e[s.parent[n]] = 1
      /\ s.colour[n] = R!Red /\ s.parent[n] # Null => e[s.parent[n]] = 0
  <2>1. n \in T /\ OneChild(s, T, n, top, pos, e)  BY <1>2, <1>3
  <2>2. Deletee(s, T, n, top, pos, e, c)  BY Zenon, <1>1, <2>1, DeleteeIs
  <2>. QED  BY <2>2 DEF Deletee
<1>5. InKeyOrder(T \ {n}, pos)  BY <1>2, <1>3 DEF OneChild
<1>6. CASE s.colour[n] = R!Red /\ R!DeleteDone(s, n, c)
  <2>1. c = Null  BY <1>4, <1>6, ColoursDiffer
  <2>2. ASSUME NEW m \in T \ {n, c}
        PROVE  EvenAt(s, Null, n, Null, e, m)
    <3>1. Weight(s, m, n, Null) = Weight(s, m, Null, Null)  BY <1>4 DEF Weight
    <3>. QED  BY <1>4, <3>1 DEF EvenAt
  <2>3. /\ Shaped(R!RemoveNode(s, n, c), T \ {n}, top, pos)
        /\ Even(R!RemoveNode(s, n, c), T \ {n}, Null, Null, Null, e)
    <3>1. c = Null /\ s.parent[n] # Null => e[s.parent[n]] = 0  BY <1>4, <1>6
    <3>. QED  BY <1>2, <1>4, <2>1, <2>2, <3>1, RemovedEven
  <2>4. Rests(R!RemoveNode(s, n, c), T \ {n})  BY <1>5, <2>3 DEF Rests
  <2>. QED  BY <1>2, <1>4, <1>6, <2>4, DeleteEnds
<1>7. CASE s.colour[n] = R!Black /\ c # Null /\ s.colour[c] = R!Red
        /\ R!DeleteDone([s EXCEPT !.colour[c] = R!Black], n, c)
  <2>1. PICK v : v = [s EXCEPT !.colour[c] = R!Black]  OBVIOUS
  <2>2. Painted(s, v) /\ v.colour[c] = R!Black /\ \A m \in T : m # c => v.colour[m] = s.colour[m]
    BY <1>4, <1>7, <2>1 DEF Painted, Tree
  <2>3. Shaped(v, T, top, pos)  BY <1>4, <2>2, PaintedShape
  <2>4. v.left = s.left /\ v.right = s.right /\ v.parent = s.parent /\ \A m : Kids(v, m) = Kids(s, m)
    BY <2>2 DEF Painted, Kids
  <2>5. ASSUME NEW m \in T \ {n, c}
        PROVE  EvenAt(v, Null, n, Null, e, m)
    <3>1. Weight(v, m, n, Null) = Weight(s, m, Null, Null)  BY <1>4, <2>2 DEF Weight
    <3>2. s.parent[m] # Null => s.parent[m] \in T  BY <1>4 DEF Linked
    <3>3. s.parent[m] # Null /\ s.colour[s.parent[m]] = R!Black => v.colour[s.parent[m]] = R!Black
      BY <2>2, <3>2
    <3>4. EvenAt(s, Null, Null, Null, e, m) /\ v.colour[m] = s.colour[m]  BY <1>4, <2>2
    <3>. QED  BY <2>4, <3>1, <3>3, <3>4 DEF EvenAt
  <2>6. /\ Shaped(R!RemoveNode(v, n, c), T \ {n}, top, pos)
        /\ Even(R!RemoveNode(v, n, c), T \ {n}, Null, Null, Null, e)
    <3>1. /\ c = Null /\ v.parent[n] # Null => e[v.parent[n]] = 0
          /\ c # Null => /\ v.colour[c] = R!Black /\ (Null \in Kids(v, c) => e[c] = 0)
                         /\ v.parent[n] # Null => e[v.parent[n]] = e[c] + 1
          /\ Kids(v, n) = {c, Null}
      BY <1>4, <1>7, <2>2, <2>4
    <3>. QED  BY <1>2, <1>4, <2>3, <2>5, <3>1, RemovedEven
  <2>7. Rests(R!RemoveNode(v, n, c), T \ {n})  BY <1>5, <2>6 DEF Rests
  <2>. QED  BY <1>2, <1>4, <1>7, <2>1, <2>7, DeleteEnds
<1>8. CASE /\ s.colour[n] = R!Black /\ ~(c # Null /\ s.colour[c] = R!Red)
           /\ tree' = s /\ pc' = "delete" /\ node' = n /\ deletee' = n /\ child' = c
  <2>1. c = Null  BY <1>4, <1>8
  <2>2. ASSUME NEW m \in T
        PROVE  EvenAt(s, Null, n, n, e, m)
    <3>1. Weight(s, m, n, n) = Weight(s, m, Null, Null)  BY <1>4, <1>8 DEF Weight
    <3>. QED  BY <1>4, <3>1 DEF EvenAt
  <2>3. (T \ {n}) \cup {n} = T  BY <1>2
  <2>4. Lacking(tree', members' \cup {deletee'}, top, pos, node', deletee', e)
    <3>1. Lacking(s, T, top, pos, n, n, e)
      BY <1>2, <1>4, <1>8, <2>1, <2>2 DEF Lacking, Even
    <3>. QED  BY <1>2, <1>8, <2>3, <3>1
  <2>5. Deletes(tree', members', node', deletee')
    BY <1>2, <1>4, <1>5, <1>8, <2>4 DEF Deletes
  <2>6. TreeTypes'  BY <1>2, <1>4, <1>8, <2>1 DEF TreeTypes
  <2>. QED  BY <1>8, <2>1, <2>5, <2>6, TypesAreLater DEF TreeInv
<1>. QED  BY <1>2, <1>6, <1>7, <1>8

-----------------------------------------------------------------------------
(* The red-black tree: the loop of a deletion *)

\* A step of the loop of a deletion that goes on.
LEMMA DeleteGoesOn ==
  ASSUME TreeInv, pc = "delete", UNCHANGED <<pc, deletee, child, members>>,
         Deletes(tree', members, node', deletee)
  PROVE  TreeInv'
<1>1. tree' \in Tree /\ node' \in Node /\ node' # Null
  BY KeysAreRight DEF Deletes, Lacking, Shaped, Linked
<1>2. TreeTypes'  BY <1>1, TypesAre DEF TreeInv, TreeTypes
<1>3. child' = Null /\ pc' = "delete"  BY DEF TreeInv
<1>4. Deletes(tree', members', node', deletee')  OBVIOUS
<1>. QED  BY <1>2, <1>3, <1>4, TypesAreLater DEF TreeInv

\* The tree in which the loop of a deletion works: with the node d that leaves.
Leaving(T, top, pos, e) ==
  /\ T = members \cup {deletee} /\ deletee \in Node \ members /\ T \ {deletee} = members
  /\ T \subseteq Node /\ tree \in Tree /\ Null \notin T /\ child = Null
  /\ Lacking(tree, T, top, pos, node, deletee, e) /\ InKeyOrder(members, pos)

LEMMA LeavingIs ==
  ASSUME TreeInv, pc = "delete"
  PROVE  \E T, top, pos, e : Leaving(T, top, pos, e)
<1>1. PICK top, pos, e : Lacking(tree, members \cup {deletee}, top, pos, node, deletee, e)
          /\ InKeyOrder(members, pos)
  BY DEF TreeInv, Deletes
<1>2. deletee \in Node \ members /\ child = Null /\ members \subseteq Node /\ tree \in Tree
  BY TypesAre DEF TreeInv, Deletes, TreeTypes
<1>3. Leaving(members \cup {deletee}, top, pos, e)
  BY <1>1, <1>2, KeysAreRight DEF Leaving
<1>. QED  BY <1>3

\* The step after which node d leaves the tree v.
LEMMA LeavingEnds ==
  ASSUME TreeInv, NEW T, NEW top, NEW pos, NEW e, Leaving(T, top, pos, e),
         NEW v, NEW e2, Shaped(v, T, top, pos), Kids(v, deletee) = {Null},
         Even(v, T, Null, deletee, Null, e2), R!DeleteDone(v, deletee, child), UNCHANGED members
  PROVE  TreeInv'
<1>1. /\ deletee \in T /\ deletee \in Node /\ child = Null /\ T \ {deletee} = members
           /\ members \subseteq Node
      /\ InKeyOrder(members, pos)
  BY DEF Leaving
<1>2. /\ Shaped(R!RemoveNode(v, deletee, Null), T \ {deletee}, top, pos)
      /\ Even(R!RemoveNode(v, deletee, Null), T \ {deletee}, Null, Null, Null, e2)
  BY <1>1, LeavingEven
<1>3. Rests(R!RemoveNode(v, deletee, child), members)  BY <1>1, <1>2 DEF Rests
<1>. QED  BY <1>1, <1>3, DeleteEnds

LEMMA DeleteAtRootKeeps ==
  ASSUME TreeInv, R!DeleteAtRoot
  PROVE  TreeInv'
<1>1. pc = "delete" /\ tree.parent[node] = Null /\ R!DeleteDone(tree, deletee, child)
        /\ UNCHANGED members
  BY DEF R!DeleteAtRoot, R!Parent
<1>2. PICK T, top, pos, e : Leaving(T, top, pos, e)  BY <1>1, LeavingIs
<1>3. /\ Shaped(tree, T, top, pos) /\ Kids(tree, deletee) = {Null}
           /\ Even(tree, T, Null, deletee, node, e)
  BY <1>2 DEF Leaving, Lacking
<1>4. Even(tree, T, Null, deletee, Null, e)
  <2> SUFFICES ASSUME NEW m \in T
               PROVE  EvenAt(tree, Null, deletee, Null, e, m)
    BY <1>3 DEF Even
  <2>1. EvenAt(tree, Null, deletee, node, e, m) /\ m # Null
    BY <1>2, <1>3 DEF Even, Leaving
  <2>2. m # node => Weight(tree, m, deletee, Null) = Weight(tree, m, deletee, node)
    BY <2>1 DEF Weight
  <2>. QED  BY <1>1, <2>1, <2>2 DEF EvenAt
<1>. QED  BY <1>1, <1>2, <1>3, <1>4, LeavingEnds

\* What the cases with a sibling q of node have in common.
Missing(T, top, pos, e, p, q, near, far) ==
  /\ Leaving(T, top, pos, e) /\ Lacking(tree, T, top, pos, node, deletee, e)
  /\ Shaped(tree, T, top, pos)
  /\ p = tree.parent[node] /\ q = SiblingOf(tree, node) /\ p # Null
  /\ near = Inner(tree, q) /\ far = Outer(tree, q)
  /\ p \in T /\ q \in T /\ p # q /\ q # Null
  /\ near \in T \cup {Null} /\ far \in T \cup {Null} /\ near # q /\ far # q
  /\ near # Null => near # far /\ near # p /\ tree.parent[near] = q
  /\ far # Null => far # p /\ tree.parent[far] = q
  /\ tree.parent[q] = p
  /\ R!Parent = p /\ R!Sibling(node) = q /\ R!Near = near /\ R!Far = far
  /\ \A m \in T : R!Colour(m) = tree.colour[m] /\ tree.colour[m] \in {R!Red, R!Black}
  /\ R!Colour(Null) = R!Black
  /\ node = tree.left[p] <=> q = tree.right[p]
  /\ near = (IF q = tree.right[p] THEN tree.left[q] ELSE tree.right[q])
  /\ q \in T /\ T \subseteq Node /\ tree \in Tree /\ Null \notin T

LEMMA MissingIs ==
  ASSUME TreeInv, pc = "delete", R!Parent # Null
  PROVE  \E T, top, pos, e, p, q, near, far : Missing(T, top, pos, e, p, q, near, far)
<1>1. PICK T, top, pos, e : Leaving(T, top, pos, e)  BY LeavingIs
<1>2. PICK p, q, near, far : p = tree.parent[node] /\ q = SiblingOf(tree, node)
          /\ near = Inner(tree, q) /\ far = Outer(tree, q)
  OBVIOUS
<1>3. R!Parent = p /\ p # Null /\ R!Sibling(node) = q  BY <1>2, SiblingIs DEF R!Parent
<1>4. Lacking(tree, T, top, pos, node, deletee, e)  BY <1>1 DEF Leaving
<1>5. Lack(tree, T, node, deletee, e, p, q, near, far)  BY <1>2, <1>3, <1>4, AroundLack
<1>6. /\ p \in T /\ q \in T /\ p # q /\ q # Null /\ tree.parent[q] = p
      /\ near \in T \cup {Null} /\ far \in T \cup {Null} /\ near # q /\ far # q
      /\ near # Null => near # far /\ near # p /\ tree.parent[near] = q
      /\ far # Null => far # p /\ tree.parent[far] = q
  BY <1>5 DEF Lack
<1>7. T \subseteq Node /\ tree \in Tree /\ Null \notin T /\ Linked(tree, T)
        /\ Shaped(tree, T, top, pos) /\ node \in T
  BY <1>4, KeysAreRight DEF Lacking, Shaped, Linked
<1>8. node = tree.left[p] <=> q = tree.right[p]
  <2>1. q = (IF tree.left[p] = node THEN tree.right[p] ELSE tree.left[p])
    BY <1>2 DEF SiblingOf
  <2>2. tree.left[p] # Null => tree.left[p] # tree.right[p]  BY <1>6, <1>7 DEF Linked
  <2>. QED  BY <1>6, <2>1, <2>2
<1>9. R!Near = near /\ R!Far = far
  BY <1>2, <1>3, <1>6, <1>8 DEF R!Near, R!Far, Inner, Outer
<1>10. /\ \A m \in T : R!Colour(m) = tree.colour[m] /\ tree.colour[m] \in {R!Red, R!Black}
       /\ R!Colour(Null) = R!Black
  BY <1>7 DEF R!Colour, Tree
<1>11. near = (IF q = tree.right[p] THEN tree.left[q] ELSE tree.right[q])
  BY <1>2, <1>6 DEF Inner
<1>12. Missing(T, top, pos, e, p, q, near, far)
  BY <1>1, <1>2, <1>3, <1>4, <1>6, <1>7, <1>8, <1>9, <1>10, <1>11 DEF Missing
<1>. QED  BY <1>12

LEMMA DeleteRedSiblingKeeps ==
  ASSUME TreeInv, R!DeleteRedSibling
  PROVE  TreeInv'
<1>1. pc = "delete" /\ R!Parent # Null /\ R!Colour(R!Sibling(node)) = R!Red
  BY DEF R!DeleteRedSibling
<1>2. PICK T, top, pos, e, p, q, near, far : Missing(T, top, pos, e, p, q, near, far)
  BY <1>1, MissingIs
<1>3. PICK v : v = [tree EXCEPT !.colour[q] = R!Black, !.colour[p] = R!Red]  OBVIOUS
<1>4. /\ tree' = R!RotateToNode(v, p) /\ UNCHANGED <<pc, node, deletee, child, members>>
      /\ tree.colour[q] = R!Red
  BY <1>1, <1>2, <1>3 DEF R!DeleteRedSibling, Missing
<1>5. Painted(tree, v) /\ v.left = tree.left /\ v.right = tree.right /\ v.parent = tree.parent
  BY <1>2, <1>3 DEF Missing, Painted, Tree
<1>6. \A m \in T : v.colour[m] = IF m = p THEN R!Red ELSE IF m = q THEN R!Black ELSE tree.colour[m]
  BY <1>2, <1>3 DEF Missing, Tree
<1>7. tree' = Raised(v, q)  BY <1>2, <1>4, <1>5 DEF Missing, Raised, R!RotateToNode
<1>8. Lacking(tree', T, top, pos, node, deletee, e)
  <2>1. /\ Lacking(tree, T, top, pos, node, deletee, e) /\ tree.parent[node] # Null
        /\ q = SiblingOf(tree, node) /\ p = tree.parent[node]
    BY <1>2 DEF Missing
  <2>. QED  BY <1>4, <1>5, <1>6, <1>7, <2>1, RedSiblingEven
<1>9. Deletes(tree', members, node', deletee)
  BY <1>2, <1>4, <1>8 DEF Missing, Leaving, Deletes
<1>. QED  BY <1>1, <1>4, <1>9, DeleteGoesOn

LEMMA DeleteBlackFamilyKeeps ==
  ASSUME TreeInv, R!DeleteBlackFamily
  PROVE  TreeInv'
<1>1. /\ pc = "delete" /\ R!Parent # Null /\ R!Colour(R!Sibling(node)) = R!Black
      /\ R!Colour(R!Near) = R!Black /\ R!Colour(R!Far) = R!Black /\ R!Colour(R!Parent) = R!Black
  BY DEF R!DeleteBlackFamily, R!UnderBlackSibling
<1>2. PICK T, top, pos, e, p, q, near, far : Missing(T, top, pos, e, p, q, near, far)
  BY <1>1, MissingIs
<1>3. /\ tree' = [tree EXCEPT !.colour[q] = R!Red] /\ node' = p
           /\ UNCHANGED <<pc, deletee, child, members>>
      /\ tree.colour[q] = R!Black /\ tree.colour[p] = R!Black
      /\ near # Null => tree.colour[near] = R!Black
      /\ far # Null => tree.colour[far] = R!Black
  BY <1>1, <1>2 DEF R!DeleteBlackFamily, Missing
<1>4. Painted(tree, tree')  BY <1>2, <1>3 DEF Missing, Painted, Tree
<1>5. \A m \in T : tree'.colour[m] = IF m = q THEN R!Red ELSE IF m = p THEN R!Black ELSE tree.colour[m]
  BY <1>2, <1>3 DEF Missing, Tree
<1>6. /\ Lacking(tree, T, top, pos, node, deletee, e) /\ tree.parent[node] # Null
      /\ q = SiblingOf(tree, node) /\ p = tree.parent[node] /\ near = Inner(tree, q)
           /\ far = Outer(tree, q)
  BY <1>2 DEF Missing
<1>7. /\ Shaped(tree', T, top, pos) /\ tree'.colour[deletee] = R!Black /\ Kids(tree', deletee) = {Null}
      /\ \E e2 : Even(tree', T, Null, deletee, p, e2)
  <2>1. PICK u : u = tree'  OBVIOUS
  <2>2. /\ Painted(tree, u)
        /\ \A m \in T : u.colour[m] = IF m = q THEN R!Red ELSE IF m = p THEN R!Black ELSE tree.colour[m]
    BY <1>4, <1>5, <2>1
  <2>3. /\ Shaped(u, T, top, pos) /\ u.colour[deletee] = R!Black /\ Kids(u, deletee) = {Null}
        /\ \E e2 : Even(u, T, Null, deletee, p, e2)
    BY <1>3, <1>6, <2>2, BlackFamilyEven
  <2>. QED  BY <2>1, <2>3
<1>8. PICK e2 : Lacking(tree', T, top, pos, p, deletee, e2)
  BY <1>2, <1>3, <1>5, <1>6, <1>7 DEF Lacking, Missing
<1>9. Deletes(tree', members, node', deletee)
  BY <1>2, <1>3, <1>8 DEF Missing, Leaving, Deletes
<1>. QED  BY <1>1, <1>3, <1>9, DeleteGoesOn

LEMMA DeleteUnderRedKeeps ==
  ASSUME TreeInv, R!DeleteUnderRed
  PROVE  TreeInv'
<1>1. /\ pc = "delete" /\ R!Parent # Null /\ R!Colour(R!Sibling(node)) = R!Black
      /\ R!Colour(R!Near) = R!Black /\ R!Colour(R!Far) = R!Black /\ R!Colour(R!Parent) = R!Red
  BY DEF R!DeleteUnderRed, R!UnderBlackSibling
<1>2. PICK T, top, pos, e, p, q, near, far : Missing(T, top, pos, e, p, q, near, far)
  BY <1>1, MissingIs
<1>3. PICK v : v = [tree EXCEPT !.colour[q] = R!Red, !.colour[p] = R!Black]  OBVIOUS
<1>4. /\ R!DeleteDone(v, deletee, child) /\ UNCHANGED members
      /\ tree.colour[q] = R!Black /\ tree.colour[p] = R!Red
      /\ near # Null => tree.colour[near] = R!Black
      /\ far # Null => tree.colour[far] = R!Black
  BY <1>1, <1>2, <1>3 DEF R!DeleteUnderRed, Missing
<1>5. Painted(tree, v)  BY <1>2, <1>3 DEF Missing, Painted, Tree
<1>6. \A m \in T : v.colour[m] = IF m = q THEN R!Red ELSE IF m = p THEN R!Black ELSE tree.colour[m]
  BY <1>2, <1>3 DEF Missing, Tree
<1>7. /\ Lacking(tree, T, top, pos, node, deletee, e) /\ tree.parent[node] # Null
      /\ q = SiblingOf(tree, node) /\ p = tree.parent[node] /\ near = Inner(tree, q)
           /\ far = Outer(tree, q)
  BY <1>2 DEF Missing
<1>8. PICK e2 : Shaped(v, T, top, pos) /\ Kids(v, deletee) = {Null}
          /\ Even(v, T, Null, deletee, Null, e2)
  BY <1>4, <1>5, <1>6, <1>7, BlackFamilyEven
<1>9. Leaving(T, top, pos, e)  BY <1>2 DEF Missing
<1>. QED  BY <1>4, <1>8, <1>9, LeavingEnds

LEMMA DeleteInnerRedKeeps ==
  ASSUME TreeInv, R!DeleteInnerRed
  PROVE  TreeInv'
<1>1. /\ pc = "delete" /\ R!Parent # Null /\ R!Colour(R!Sibling(node)) = R!Black
      /\ R!Colour(R!Near) = R!Red /\ R!Colour(R!Far) = R!Black
  BY DEF R!DeleteInnerRed, R!UnderBlackSibling
<1>2. PICK T, top, pos, e, p, q, near, far : Missing(T, top, pos, e, p, q, near, far)
  BY <1>1, MissingIs
<1>3. PICK v : v = [tree EXCEPT !.colour[q] = R!Red, !.colour[near] = R!Black]  OBVIOUS
<1>4. /\ tree' = R!RotateFromNode(v, q) /\ UNCHANGED <<pc, node, deletee, child, members>>
      /\ tree.colour[q] = R!Black /\ near # Null /\ near \in T /\ tree.colour[near] = R!Red
      /\ far # Null => tree.colour[far] = R!Black
  BY <1>1, <1>2, <1>3, ColoursDiffer DEF R!DeleteInnerRed, Missing
<1>5. Painted(tree, v) /\ v.left = tree.left /\ v.right = tree.right /\ v.parent = tree.parent
  BY <1>2, <1>3, <1>4 DEF Missing, Painted, Tree
<1>6. \A m \in T : v.colour[m] = IF m = q THEN R!Red ELSE IF m = near THEN R!Black ELSE tree.colour[m]
  BY <1>2, <1>3, <1>4 DEF Missing, Tree
<1>7. tree' = Raised(v, near)
  <2>1. tree.left[q] # Null => tree.left[q] # tree.right[q]
    BY <1>2 DEF Missing, Shaped, Linked
  <2>2. /\ tree.parent[near] = q /\ (node = tree.left[p] <=> q = tree.right[p]) /\ p = R!Parent
        /\ near = (IF q = tree.right[p] THEN tree.left[q] ELSE tree.right[q])
    BY <1>2, <1>4 DEF Missing
  <2>. QED  BY <1>4, <1>5, <2>1, <2>2 DEF Raised, R!RotateFromNode
<1>8. Lacking(tree', T, top, pos, node, deletee, e)
  <2>1. /\ Lacking(tree, T, top, pos, node, deletee, e) /\ tree.parent[node] # Null
        /\ q = SiblingOf(tree, node) /\ near = Inner(tree, q) /\ far = Outer(tree, q)
    BY <1>2 DEF Missing
  <2>. QED  BY <1>4, <1>5, <1>6, <1>7, <2>1, InnerRedEven
<1>9. Deletes(tree', members, node', deletee)
  BY <1>2, <1>4, <1>8 DEF Missing, Leaving, Deletes
<1>. QED  BY <1>1, <1>4, <1>9, DeleteGoesOn

LEMMA DeleteOuterRedKeeps ==
  ASSUME TreeInv, R!DeleteOuterRed
  PROVE  TreeInv'
<1>1. /\ pc = "delete" /\ R!Parent # Null /\ R!Colour(R!Sibling(node)) = R!Black
      /\ R!Colour(R!Far) = R!Red
  BY DEF R!DeleteOuterRed, R!UnderBlackSibling
<1>2. PICK T, top, pos, e, p, q, near, far : Missing(T, top, pos, e, p, q, near, far)
  BY <1>1, MissingIs
<1>3. PICK v : v = [tree EXCEPT !.colour[q] = tree.colour[p], !.colour[p] = R!Black,
          !.colour[far] = R!Black]
  OBVIOUS
<1>4. /\ R!DeleteDone(R!RotateToNode(v, p), deletee, child) /\ UNCHANGED members
      /\ tree.colour[q] = R!Black /\ far # Null /\ far \in T /\ tree.colour[far] = R!Red
  BY <1>1, <1>2, <1>3, ColoursDiffer DEF R!DeleteOuterRed, Missing
<1>5. Painted(tree, v) /\ v.left = tree.left /\ v.right = tree.right /\ v.parent = tree.parent
  BY <1>2, <1>3, <1>4 DEF Missing, Painted, Tree
<1>6. \A m \in T : v.colour[m] = IF m = q THEN tree.colour[p] ELSE IF m = p \/ m = far
        THEN R!Black ELSE tree.colour[m]
  BY <1>2, <1>3, <1>4 DEF Missing, Tree
<1>7. R!RotateToNode(v, p) = Raised(v, q)
  BY <1>2, <1>5 DEF Missing, Raised, R!RotateToNode
<1>8. PICK e2 : /\ Shaped(Raised(v, q), T, top, pos) /\ Kids(Raised(v, q), deletee) = {Null}
                /\ Even(Raised(v, q), T, Null, deletee, Null, e2)
  <2>1. /\ Lacking(tree, T, top, pos, node, deletee, e) /\ tree.parent[node] # Null
        /\ q = SiblingOf(tree, node) /\ far = Outer(tree, q) /\ p = tree.parent[node]
    BY <1>2 DEF Missing
  <2>. QED  BY <1>4, <1>5, <1>6, <2>1, OuterRedEven
<1>9. Leaving(T, top, pos, e)  BY <1>2 DEF Missing
<1>. QED  BY <1>4, <1>7, <1>8, <1>9, LeavingEnds

\* Every step keeps the invariant.
LEMMA TreeNext ==
  ASSUME TreeInv, [R!Next]_R!vars
  PROVE  TreeInv'
<1>1. CASE \E n \in Node : R!Insert(n) \/ R!Delete(n)  BY <1>1, InsertKeeps, DeleteKeeps
<1>2. CASE R!InsertFix
  BY <1>2, InsertAtRootKeeps, InsertUnderBlackKeeps, InsertRedUncleKeeps, InsertTriangleKeeps,
      InsertLineKeeps
     DEF R!InsertFix
<1>3. CASE R!DeleteFix
  BY <1>3, DeleteAtRootKeeps, DeleteRedSiblingKeeps, DeleteBlackFamilyKeeps, DeleteUnderRedKeeps,
     DeleteInnerRedKeeps, DeleteOuterRedKeeps DEF R!DeleteFix
<1>4. CASE UNCHANGED R!vars
  <2>1. tree' = tree /\ pc' = pc /\ node' = node /\ deletee' = deletee /\ child' = child
          /\ members' = members
    BY <1>4 DEF R!vars
  <2>2. TreeTypes /\ TreeTypes'  BY <2>1, TypesAre DEF TreeInv, TreeTypes
  <2>. QED  BY <2>1, <2>2, TypesAreLater DEF TreeInv
<1>. QED  BY <1>1, <1>2, <1>3, <1>4 DEF R!Next

-----------------------------------------------------------------------------
(* The red-black tree: what the invariant implies *)

\* The nodes between calls, or those with the one that leaves, have their places.
LEMMA HasShape ==
  ASSUME TreeInv
  PROVE  \E T, top, pos : Shaped(tree, T, top, pos)
      /\ (pc = "idle" => T = members /\ InKeyOrder(members, pos))
<1>1. CASE pc = "idle"  BY <1>1 DEF TreeInv, Rests
<1>2. CASE pc = "insert"  BY <1>2 DEF TreeInv, Inserts
<1>3. CASE pc = "delete"  BY <1>3 DEF TreeInv, Deletes, Lacking
<1>. QED  BY <1>1, <1>2, <1>3, TypesAre DEF TreeInv, TreeTypes

LEMMA InvHoldsMembers ==
  ASSUME TreeInv
  PROVE  R!HoldsMembers
<1>1. PICK T, top, pos : Shaped(tree, T, top, pos)
          /\ (pc = "idle" => T = members /\ InKeyOrder(members, pos))
  BY HasShape
<1>2. PICK q : q = R!InOrder[tree.root]  OBVIOUS
<1>3. /\ q \in Seq(Node) /\ \A i \in 1 .. Len(q) : q[i] \in T
      /\ \A i, j \in 1 .. Len(q) : i < j => pos[q[i]] < pos[q[j]]
      /\ \A b \in T : \E i \in 1 .. Len(q) : q[i] = b
  BY <1>1, <1>2, InOrderLists
<1>4. R!Range(q) = T  BY <1>3 DEF R!Range
<1>5. Linked(tree, T)  BY <1>1 DEF Shaped
<1>6. tree.root # Null => tree.parent[tree.root] = Null  BY <1>5 DEF Linked
<1>7. \A n \in T : \A c \in {tree.left[n], tree.right[n]} \ {Null} : tree.parent[c] = n
  BY <1>5 DEF Linked
<1>8. ASSUME pc = "idle"
      PROVE  R!Sorted(q)
  <2> SUFFICES ASSUME NEW i \in 1 .. Len(q), NEW j \in 1 .. Len(q), i < j
               PROVE  q[i] # q[j] /\ KeyOf[q[i]] <= KeyOf[q[j]]
    BY DEF R!Sorted
  <2>1. q[i] \in T /\ q[j] \in T /\ pos[q[i]] < pos[q[j]]  BY <1>3
  <2>2. pos \in [Node -> 0 .. top] /\ T \subseteq Node /\ top \in Nat
    BY <1>1 DEF Shaped, InOrderBy, Ordered, Linked
  <2>3. q[i] # q[j]  BY <2>1, <2>2
  <2>4. InKeyOrder(T, pos)  BY <1>1, <1>8
  <2>. QED  BY <2>1, <2>3, <2>4 DEF InKeyOrder
<1>. QED  BY <1>1, <1>2, <1>4, <1>6, <1>7, <1>8 DEF R!HoldsMembers, TreeInv

LEMMA InvAssertionsHold ==
  ASSUME TreeInv
  PROVE  R!AssertionsHold
<1>1. ASSUME R!UnderRed
      PROVE  R!Grandparent # Null
  <2>1. PICK top, pos, e : Clash(tree, members, top, pos, node, e)  BY <1>1, ClashIs
  <2>2. tree.parent[tree.parent[node]] \in members /\ Null \notin members
    BY <1>1, <2>1, AroundClash, ClashIs, KeysAreRight
  <2>. QED  BY <2>2 DEF R!Grandparent, R!Parent
<1>2. ASSUME pc = "delete", R!Parent # Null
      PROVE  /\ R!Sibling(node) # Null
             /\ R!Colour(R!Sibling(node)) = R!Red =>
                  /\ R!Colour(R!Parent) = R!Black
                  /\ R!Near # Null /\ R!Colour(R!Near) = R!Black
  <2>1. PICK T, top, pos, e, p, q, near, far : Missing(T, top, pos, e, p, q, near, far)
    BY <1>2, MissingIs
  <2>2. Lack(tree, T, node, deletee, e, p, q, near, far)
    <3>1. /\ Lacking(tree, T, top, pos, node, deletee, e) /\ p = tree.parent[node] /\ p # Null
          /\ q = SiblingOf(tree, node) /\ near = Inner(tree, q) /\ far = Outer(tree, q)
      BY <2>1 DEF Missing
    <3>. QED  BY <3>1, AroundLack
  <2>3. tree.colour[q] = R!Red => tree.colour[p] = R!Black /\ near # Null /\ tree.colour[near] = R!Black
    BY <2>2 DEF Lack
  <2>. QED  BY <2>1, <2>3 DEF Missing
<1>. QED  BY <1>1, <1>2 DEF R!AssertionsHold

\* In balance, the black nodes below n are those that BlackHeight counts.
LEMMA BlackHeightCounts ==
  ASSUME NEW T, NEW top, NEW pos, NEW e, Shaped(tree, T, top, pos), Even(tree, T, Null, Null, Null, e)
  PROVE  \A n \in T : R!BlackHeight[n] = e[n] + (IF tree.colour[n] = R!Black THEN 1 ELSE 0)
<1> DEFINE Q == {n \in T : R!BlackHeight[n] # e[n] + (IF tree.colour[n] = R!Black THEN 1 ELSE 0)}
<1> SUFFICES ASSUME Q # {}
             PROVE  FALSE
  OBVIOUS
<1>1. Linked(tree, T) /\ T \subseteq Node /\ Null \notin T
  BY KeysAreRight DEF Shaped, Linked
<1>2. PICK W, rank : Ranked(tree, W, rank)  BY RankExists
<1>3. PICK n \in Q : \A m \in Q : rank[n] <= rank[m]
  <2>1. Q \subseteq Node  BY <1>1
  <2> HIDE DEF Q
  <2>. QED  BY <1>2, <2>1, RankIsGiven
<1>4. /\ R!BlackHeight[Null] = 0
      /\ R!BlackHeight[n] = R!BlackHeight[tree.left[n]] + (IF tree.colour[n] = R!Black THEN 1 ELSE 0)
  BY <1>1, <1>2, BlackHeightIs
<1>5. e \in [Node -> Nat] /\ \A m \in T : EvenAt(tree, Null, Null, Null, e, m)
  BY DEF Even
<1>6. R!BlackHeight[tree.left[n]] = e[n]
  <2>1. CASE tree.left[n] = Null  BY <1>4, <1>5, <2>1 DEF EvenAt, Kids
  <2>2. CASE tree.left[n] # Null
    <3>1. PICK m : m = tree.left[n]  OBVIOUS
    <3>2. m \in T /\ tree.parent[m] = n /\ n # Null /\ m # Null /\ n \in Node /\ m \in Node
      BY <1>1, <2>2, <3>1 DEF Linked
    <3>3. rank[m] < rank[n]  BY <1>2, <3>1, <3>2 DEF Ranked
    <3>4. m \notin Q
      <4>1. ~(rank[n] <= rank[m])  BY <1>2, <3>2, <3>3 DEF Ranked
      <4>. QED  BY <1>3, <4>1
    <3>5. R!BlackHeight[m] = e[m] + (IF tree.colour[m] = R!Black THEN 1 ELSE 0)
      BY <3>2, <3>4
    <3>6. e[n] = e[m] + Weight(tree, m, Null, Null)  BY <1>5, <3>2 DEF EvenAt
    <3>7. Weight(tree, m, Null, Null) = IF tree.colour[m] = R!Black THEN 1 ELSE 0
      BY <3>2 DEF Weight
    <3>. QED  BY <3>1, <3>5, <3>6, <3>7
  <2>. QED  BY <2>1, <2>2
<1>. QED  BY <1>3, <1>4, <1>6

LEMMA InvBalanced ==
  ASSUME TreeInv
  PROVE  R!Balanced
<1>1. SUFFICES ASSUME pc = "idle"
               PROVE  /\ R!Colour(tree.root) = R!Black
                      /\ \A n \in R!Range(R!InOrder[tree.root]) :
                           /\ tree.colour[n] = R!Red =>
                                R!Colour(tree.left[n]) = R!Black /\ R!Colour(tree.right[n]) = R!Black
                           /\ R!BlackHeight[tree.left[n]] = R!BlackHeight[tree.right[n]]
  BY InvAssertionsHold DEF R!Balanced
<1>2. PICK top, pos, e : Shaped(tree, members, top, pos) /\ Even(tree, members, Null, Null, Null, e)
  BY <1>1 DEF TreeInv, Rests
<1>3. Linked(tree, members) /\ members \subseteq Node /\ Null \notin members /\ tree \in Tree
  BY <1>2, KeysAreRight DEF Shaped, Linked
<1>4. e \in [Node -> Nat] /\ \A m \in members : EvenAt(tree, Null, Null, Null, e, m)
  BY <1>2 DEF Even
<1>5. \A m \in members : tree.colour[m] \in {R!Red, R!Black}  BY <1>3 DEF Tree
<1>6. R!Colour(tree.root) = R!Black  BY <1>3, <1>4, <1>5 DEF Linked, EvenAt, R!Colour
<1>7. R!Range(R!InOrder[tree.root]) = members
  BY <1>1, InvHoldsMembers DEF R!HoldsMembers
<1>8. \A m \in members : R!BlackHeight[m] = e[m] + (IF tree.colour[m] = R!Black THEN 1 ELSE 0)
  BY <1>2, BlackHeightCounts
<1>9. R!BlackHeight[Null] = 0  BY <1>2, RankExists, BlackHeightIs
<1>10. ASSUME NEW n \in members, NEW m \in Kids(tree, n)
       PROVE  /\ tree.colour[n] = R!Red => R!Colour(m) = R!Black
              /\ R!BlackHeight[m] = e[n]
  <2>1. CASE m = Null
    <3>1. e[n] = 0  BY <1>4, <2>1 DEF EvenAt
    <3>. QED  BY <1>9, <2>1, <3>1 DEF R!Colour
  <2>2. CASE m # Null
    <3>1. m \in members /\ tree.parent[m] = n /\ n # Null
      BY <1>3, <2>2 DEF Linked, Kids
    <3>2. Weight(tree, m, Null, Null) = IF tree.colour[m] = R!Black THEN 1 ELSE 0
      BY <2>2 DEF Weight
    <3>3. e[n] = e[m] + Weight(tree, m, Null, Null)  BY <1>4, <3>1 DEF EvenAt
    <3>4. tree.colour[m] = R!Red => tree.colour[n] = R!Black
      BY <1>4, <2>2, <3>1 DEF EvenAt
    <3>. QED  BY <1>5, <1>8, <2>2, <3>1, <3>2, <3>3, <3>4, ColoursDiffer DEF R!Colour
  <2>. QED  BY <2>1, <2>2
<1>. QED  BY <1>6, <1>7, <1>10 DEF Kids

-----------------------------------------------------------------------------
(* The red-black tree: the loops of the searches *)

\* The loops of the searches, as the functions that they are.
LEMMA LeftLoopIs ==
  ASSUME NEW k, tree \in Tree
  PROVE  \A n \in Node : R!LeftWhileAbove(k)[n] =
           IF KeyOf[n] > k /\ tree.left[n] # Null THEN R!LeftWhileAbove(k)[tree.left[n]] ELSE n
<1> DEFINE g == [n \in Node |-> IF tree.left[n] # Null THEN tree.left[n] ELSE n]
           E == {n \in Node : ~(KeyOf[n] > k /\ tree.left[n] # Null)}
           v == [n \in Node |-> n]
<1>1. g \in [Node -> Node]  BY DEF Tree
<1>2. PICK f : Loops(f, Node, E, v, g)
  <2> HIDE DEF g, E, v
  <2>. QED  BY Zenon, <1>1, LoopExists
<1>3. f = [n \in Node |-> IF KeyOf[n] > k /\ tree.left[n] # Null THEN f[tree.left[n]] ELSE n]
  <2>1. ASSUME NEW n \in Node
        PROVE  f[n] = IF KeyOf[n] > k /\ tree.left[n] # Null THEN f[tree.left[n]] ELSE n
    BY <1>2 DEF Loops
  <2>. QED  BY Zenon, <1>2, <2>1 DEF Loops
<1>4. R!LeftWhileAbove(k) = [n \in Node |->
        IF KeyOf[n] > k /\ tree.left[n] # Null THEN R!LeftWhileAbove(k)[tree.left[n]] ELSE n]
  BY Zenon, <1>3 DEF R!LeftWhileAbove
<1>. QED  BY Zenon, <1>4

\* The others of these loops.
LEMMA RightLoopIs ==
  ASSUME NEW k, tree \in Tree
  PROVE  \A n \in Node :
           R!RightWhileBelow(k)[n] =
              IF KeyOf[n] < k /\ tree.right[n] # Null THEN R!RightWhileBelow(k)[tree.right[n]] ELSE n
<1> DEFINE g == [n \in Node |-> IF tree.right[n] # Null THEN tree.right[n] ELSE n]
           E == {n \in Node : ~(KeyOf[n] < k /\ tree.right[n] # Null)}
           v == [n \in Node |-> n]
<1>1. g \in [Node -> Node]  BY DEF Tree
<1>2. PICK f : Loops(f, Node, E, v, g)
  <2> HIDE DEF g, E, v
  <2>. QED  BY Zenon, <1>1, LoopExists
<1>3. f = [n \in Node |-> IF KeyOf[n] < k /\ tree.right[n] # Null THEN f[tree.right[n]] ELSE n]
  <2>1. ASSUME NEW n \in Node
        PROVE  f[n] = IF KeyOf[n] < k /\ tree.right[n] # Null THEN f[tree.right[n]] ELSE n
    BY <1>2 DEF Loops
  <2>. QED  BY Zenon, <1>2, <2>1 DEF Loops
<1>4. R!RightWhileBelow(k) = [n \in Node |->
        IF KeyOf[n] < k /\ tree.right[n] # Null THEN R!RightWhileBelow(k)[tree.right[n]] ELSE n]
  BY Zenon, <1>3 DEF R!RightWhileBelow
<1>. QED  BY Zenon, <1>4

LEMMA UpAboveLoopIs ==
  ASSUME NEW k, tree \in Tree
  PROVE  \A n \in Node :
           R!UpWhileAbove(k)[n] =
              IF KeyOf[n] > k /\ tree.parent[n] # Null THEN R!UpWhileAbove(k)[tree.parent[n]] ELSE n
<1> DEFINE g == [n \in Node |-> IF tree.parent[n] # Null THEN tree.parent[n] ELSE n]
           E == {n \in Node : ~(KeyOf[n] > k /\ tree.parent[n] # Null)}
           v == [n \in Node |-> n]
<1>1. g \in [Node -> Node]  BY DEF Tree
<1>2. PICK f : Loops(f, Node, E, v, g)
  <2> HIDE DEF g, E, v
  <2>. QED  BY Zenon, <1>1, LoopExists
<1>3. f = [n \in Node |-> IF KeyOf[n] > k /\ tree.parent[n] # Null THEN f[tree.parent[n]] ELSE n]
  <2>1. ASSUME NEW n \in Node
        PROVE  f[n] = IF KeyOf[n] > k /\ tree.parent[n] # Null THEN f[tree.parent[n]] ELSE n
    BY <1>2 DEF Loops
  <2>. QED  BY Zenon, <1>2, <2>1 DEF Loops
<1>4. R!UpWhileAbove(k) = [n \in Node |->
        IF KeyOf[n] > k /\ tree.parent[n] # Null THEN R!UpWhileAbove(k)[tree.parent[n]] ELSE n]
  BY Zenon, <1>3 DEF R!UpWhileAbove
<1>. QED  BY Zenon, <1>4

LEMMA UpBelowLoopIs ==
  ASSUME NEW k, tree \in Tree
  PROVE  \A n \in Node \cup {Null} :
           R!UpWhileBelow(k)[n] =
              IF n # Null /\ KeyOf[n] < k THEN R!UpWhileBelow(k)[tree.parent[n]] ELSE n
<1> DEFINE g == [n \in Node \cup {Null} |-> IF n # Null THEN tree.parent[n] ELSE n]
           E == {n \in Node \cup {Null} : ~(n # Null /\ KeyOf[n] < k)}
           v == [n \in Node \cup {Null} |-> n]
<1>1. g \in [Node \cup {Null} -> Node \cup {Null}]  BY DEF Tree
<1>2. PICK f : Loops(f, Node \cup {Null}, E, v, g)
  <2> HIDE DEF g, E, v
  <2>. QED  BY Zenon, <1>1, LoopExists
<1>3. f = [n \in Node \cup {Null} |-> IF n # Null /\ KeyOf[n] < k THEN f[tree.parent[n]] ELSE n]
  <2>1. ASSUME NEW n \in Node \cup {Null}
        PROVE  f[n] = IF n # Null /\ KeyOf[n] < k THEN f[tree.parent[n]] ELSE n
    BY <1>2 DEF Loops
  <2>. QED  BY Zenon, <1>2, <2>1 DEF Loops
<1>4. R!UpWhileBelow(k) = [n \in Node \cup {Null} |->
        IF n # Null /\ KeyOf[n] < k THEN R!UpWhileBelow(k)[tree.parent[n]] ELSE n]
  BY Zenon, <1>3 DEF R!UpWhileBelow
<1>. QED  BY Zenon, <1>4

\* rbtree_search_min and rbtree_search_max go on from n by the loops to m, where they may end.
MinBody(f, k, n) ==
  LET m == R!RightWhileBelow(k)[R!LeftWhileAbove(k)[n]]
  IN  IF KeyOf[m] = k THEN m
      ELSE IF KeyOf[m] < k /\ tree.right[m] = Null THEN R!UpWhileBelow(k)[m]
      ELSE IF KeyOf[m] > k /\ tree.left[m] = Null THEN m
      ELSE f[m]

MinLoop(f, k) == \A n \in Node : f[n] = MinBody(f, k, n)

MaxBody(f, k, n) ==
  LET m == R!LeftWhileAbove(k)[R!RightWhileBelow(k)[n]]
  IN  IF KeyOf[m] = k THEN m
      ELSE IF KeyOf[m] > k /\ tree.left[m] = Null THEN R!UpWhileAbove(k)[m]
      ELSE IF KeyOf[m] < k /\ tree.right[m] = Null THEN m
      ELSE f[m]

MaxLoop(f, k) == \A n \in Node : f[n] = MaxBody(f, k, n)

\* The loop of rbtree_search_min.
LEMMA MinLoopIs ==
  ASSUME NEW k, tree.root # Null,
         \A n \in Node : R!LeftWhileAbove(k)[n] \in Node /\ R!RightWhileBelow(k)[n] \in Node
  PROVE  \E f : MinLoop(f, k) /\ R!SearchMin(k) = f[tree.root]
<1> DEFINE to(n) == R!RightWhileBelow(k)[R!LeftWhileAbove(k)[n]]
           g == [n \in Node |-> to(n)]
           Ends(m) == \/ KeyOf[m] = k
                      \/ KeyOf[m] < k /\ tree.right[m] = Null
                      \/ KeyOf[m] > k /\ tree.left[m] = Null
           End(m) == IF KeyOf[m] = k THEN m
                     ELSE IF KeyOf[m] < k /\ tree.right[m] = Null THEN R!UpWhileBelow(k)[m]
                     ELSE m
           E == {n \in Node : Ends(to(n))}
           v == [n \in Node |-> End(to(n))]
<1>1. g \in [Node -> Node]
  <2>1. \A n \in Node : to(n) \in Node  BY Zenon
  <2>. QED  BY <2>1
<1>2. PICK f : Loops(f, Node, E, v, g)
  <2> HIDE DEF g, E, v
  <2>. QED  BY Zenon, <1>1, LoopExists
<1>3. f = [n \in Node |-> MinBody(f, k, n)]
  <2>1. ASSUME NEW n \in Node
        PROVE  f[n] = MinBody(f, k, n)
    <3>1. f[n] = IF n \in E THEN v[n] ELSE f[g[n]]  BY Zenon, <1>2 DEF Loops
    <3>2. (n \in E <=> Ends(to(n))) /\ v[n] = End(to(n)) /\ g[n] = to(n)  OBVIOUS
    <3> HIDE DEF g, E, v
    <3>. QED  BY Zenon, <3>1, <3>2 DEF MinBody
  <2>. QED  BY Zenon, <1>2, <2>1 DEF Loops
<1>4. PICK h : /\ h = [n \in Node |-> MinBody(h, k, n)]
               /\ R!SearchMin(k) = h[tree.root]
  BY Zenon, <1>3 DEF R!SearchMin, MinBody
<1>5. MinLoop(h, k)  BY Zenon, <1>4 DEF MinLoop
<1>. QED  BY Zenon, <1>4, <1>5

\* The loop of rbtree_search_max.
LEMMA MaxLoopIs ==
  ASSUME NEW k, tree.root # Null,
         \A n \in Node : R!LeftWhileAbove(k)[n] \in Node /\ R!RightWhileBelow(k)[n] \in Node
  PROVE  \E f : /\ MaxLoop(f, k)
               /\ R!SearchMax(k) = IF KeyOf[f[tree.root]] > k THEN Null ELSE f[tree.root]
<1> DEFINE to(n) == R!LeftWhileAbove(k)[R!RightWhileBelow(k)[n]]
           g == [n \in Node |-> to(n)]
           Ends(m) == \/ KeyOf[m] = k
                      \/ KeyOf[m] > k /\ tree.left[m] = Null
                      \/ KeyOf[m] < k /\ tree.right[m] = Null
           End(m) == IF KeyOf[m] = k THEN m
                     ELSE IF KeyOf[m] > k /\ tree.left[m] = Null THEN R!UpWhileAbove(k)[m]
                     ELSE m
           E == {n \in Node : Ends(to(n))}
           v == [n \in Node |-> End(to(n))]
<1>1. g \in [Node -> Node]
  <2>1. \A n \in Node : to(n) \in Node  BY Zenon
  <2>. QED  BY <2>1
<1>2. PICK f : Loops(f, Node, E, v, g)
  <2> HIDE DEF g, E, v
  <2>. QED  BY Zenon, <1>1, LoopExists
<1>3. f = [n \in Node |-> MaxBody(f, k, n)]
  <2>1. ASSUME NEW n \in Node
        PROVE  f[n] = MaxBody(f, k, n)
    <3>1. f[n] = IF n \in E THEN v[n] ELSE f[g[n]]  BY Zenon, <1>2 DEF Loops
    <3>2. (n \in E <=> Ends(to(n))) /\ v[n] = End(to(n)) /\ g[n] = to(n)  OBVIOUS
    <3> HIDE DEF g, E, v
    <3>. QED  BY Zenon, <3>1, <3>2 DEF MaxBody
  <2>. QED  BY Zenon, <1>2, <2>1 DEF Loops
<1>4. PICK h : /\ h = [n \in Node |-> MaxBody(h, k, n)]
               /\ R!SearchMax(k) = IF KeyOf[h[tree.root]] > k THEN Null ELSE h[tree.root]
  BY Zenon, <1>3 DEF R!SearchMax, MaxBody
<1>5. MaxLoop(h, k)  BY Zenon, <1>4 DEF MaxLoop
<1>. QED  BY Zenon, <1>4, <1>5

\* rbtree_search
SearchLoop(f, k) ==
  \A n \in Node \cup {Null} :
    f[n] = IF n = Null THEN Null
           ELSE IF KeyOf[n] = k THEN n
           ELSE IF KeyOf[n] > k THEN f[tree.left[n]] ELSE f[tree.right[n]]

\* The loop of rbtree_search.
LEMMA SearchLoopIs ==
  ASSUME NEW k, tree \in Tree
  PROVE  \E f : SearchLoop(f, k) /\ R!Search(k) = f[tree.root]
<1> DEFINE D == Node \cup {Null}
           g == [n \in D |-> IF n = Null THEN n
                             ELSE IF KeyOf[n] > k THEN tree.left[n] ELSE tree.right[n]]
           E == {n \in D : n = Null \/ KeyOf[n] = k}
           v == [n \in D |-> n]
<1>1. g \in [D -> D]  BY DEF Tree
<1>2. PICK f : Loops(f, D, E, v, g)
  <2> HIDE DEF g, E, v
  <2>. QED  BY Zenon, <1>1, LoopExists
<1>3. f = [n \in D |-> IF n = Null THEN Null
                       ELSE IF KeyOf[n] = k THEN n
                       ELSE IF KeyOf[n] > k THEN f[tree.left[n]] ELSE f[tree.right[n]]]
  <2>1. ASSUME NEW n \in D
        PROVE  f[n] = IF n = Null THEN Null
                      ELSE IF KeyOf[n] = k THEN n
                      ELSE IF KeyOf[n] > k THEN f[tree.left[n]] ELSE f[tree.right[n]]
    BY <1>2 DEF Loops
  <2>. QED  BY Zenon, <1>2, <2>1 DEF Loops
<1>4. PICK h : /\ h = [n \in D |-> IF n = Null THEN Null
                                   ELSE IF KeyOf[n] = k THEN n
                                   ELSE IF KeyOf[n] > k THEN h[tree.left[n]] ELSE h[tree.right[n]]]
               /\ R!Search(k) = h[tree.root]
  BY Zenon, <1>3 DEF R!Search
<1>5. SearchLoop(h, k)  BY Zenon, <1>4 DEF SearchLoop
<1>. QED  BY Zenon, <1>4, <1>5

\* The nodes before the subtree of n have keys below k, those behind it have keys above k.
Framed(T, pos, lo, hi, n, k) ==
  /\ \A x \in T : pos[x] <= lo[n] => KeyOf[x] < k
  /\ \A x \in T : hi[n] <= pos[x] => k < KeyOf[x]

\* Where a loop downwards ends.
Downwards(T, lo, hi, pos, n, m, k) ==
  /\ m \in T /\ lo[n] <= lo[m] /\ hi[m] <= hi[n]
  /\ m = n \/ hi[m] - lo[m] < hi[n] - lo[n]
  /\ Framed(T, pos, lo, hi, n, k) => Framed(T, pos, lo, hi, m, k)

\* A step to the left, from a key above the limit, leaves nothing within the limit behind.
LEMMA LeftStep ==
  ASSUME NEW T, NEW top, NEW pos, NEW lo, NEW hi, Placed(T, top, pos, lo, hi),
         Ranged(T, pos, lo, hi), NEW k \in Int, NEW n \in T, KeyOf[n] > k, tree.left[n] # Null
  PROVE  /\ tree.left[n] \in T /\ Downwards(T, lo, hi, pos, n, tree.left[n], k)
         /\ hi[tree.left[n]] - lo[tree.left[n]] < hi[n] - lo[n]
<1>1. PICK c \in T : c = tree.left[n] /\ c \in Kids(tree, n)  BY DEF Placed, Kids
<1>2. \A x \in T : lo[x] \in Int /\ hi[x] \in Int /\ pos[x] \in Int /\ KeyOf[x] \in Int
  BY DEF Placed
<1>3. \A x \in T : pos[n] <= pos[x] => KeyOf[n] <= KeyOf[x]  BY Zenon, KeysRise
<1>4. /\ lo[n] <= lo[c] /\ hi[c] <= hi[n] /\ hi[c] - lo[c] < hi[n] - lo[n]
      /\ \A x \in T : /\ lo[c] < pos[x] <=> lo[n] < pos[x]
                      /\ hi[c] <= pos[x] <=> pos[n] <= pos[x]
  BY <1>1, KidBounds
<1>. QED  BY <1>1, <1>2, <1>3, <1>4 DEF Downwards, Framed

\* The inner loop of the searches that goes to the left.
LEMMA LeftEnds ==
  ASSUME NEW T, NEW top, NEW pos, NEW lo, NEW hi, Placed(T, top, pos, lo, hi),
         Ranged(T, pos, lo, hi), tree \in Tree, NEW k \in Int, NEW n \in T
  PROVE  LET m == R!LeftWhileAbove(k)[n]
         IN  /\ Downwards(T, lo, hi, pos, n, m, k)
             /\ KeyOf[m] <= k \/ tree.left[m] = Null
<1> DEFINE To(x) == R!LeftWhileAbove(k)[x]
           Good(x) == /\ Downwards(T, lo, hi, pos, x, To(x), k)
                      /\ KeyOf[To(x)] <= k \/ tree.left[To(x)] = Null
           Bad == {x \in T : ~Good(x)}
<1>1. \A x \in T : x \in Node /\ lo[x] \in Int /\ hi[x] \in Int /\ KeyOf[x] \in Int
  BY DEF Placed
<1>2. ASSUME NEW x \in T, ~(KeyOf[x] > k /\ tree.left[x] # Null)
      PROVE  Good(x)
  <2>1. To(x) = x  BY <1>1, <1>2, LeftLoopIs
  <2>2. Downwards(T, lo, hi, pos, x, x, k)  BY <1>1 DEF Downwards
  <2>3. KeyOf[x] <= k \/ tree.left[x] = Null  BY <1>1, <1>2
  <2> HIDE DEF To
  <2>. QED  BY Zenon, <2>1, <2>2, <2>3
<1>3. ASSUME NEW x \in Bad
      PROVE  \E y \in Bad : hi[y] - lo[y] < hi[x] - lo[x]
  <2>1. x \in T /\ ~Good(x)  BY Zenon, <1>3
  <2>2. KeyOf[x] > k /\ tree.left[x] # Null  BY Zenon, <1>2, <2>1
  <2>3. PICK y \in T : y = tree.left[x]  BY <2>1, <2>2 DEF Placed
  <2>4. To(x) = To(y)  BY <1>1, <2>1, <2>2, <2>3, LeftLoopIs
  <2>5. Downwards(T, lo, hi, pos, x, y, k) /\ hi[y] - lo[y] < hi[x] - lo[x]
    BY Zenon, <2>1, <2>2, <2>3, LeftStep
  <2> HIDE DEF To
  <2>6. ASSUME Good(y)
        PROVE  Good(x)
    BY <1>1, <2>1, <2>3, <2>4, <2>5, <2>6 DEF Downwards
  <2> HIDE DEF Good
  <2>. QED  BY <2>1, <2>3, <2>5, <2>6
<1>4. Bad = {}
  <2> HIDE DEF Good
  <2>1. Bad \subseteq T  OBVIOUS
  <2> HIDE DEF Bad
  <2>2. Narrows(lo, hi, Bad)  BY Zenon, <1>3 DEF Narrows
  <2>. QED  BY Zenon, <2>1, <2>2, NoEndlessPath
<1>5. Good(n)
  <2> HIDE DEF Good
  <2>. QED  BY <1>4
<1>. QED  BY Zenon, <1>5

\* The same to the right.
LEMMA RightStep ==
  ASSUME NEW T, NEW top, NEW pos, NEW lo, NEW hi, Placed(T, top, pos, lo, hi),
         Ranged(T, pos, lo, hi), NEW k \in Int, NEW n \in T, KeyOf[n] < k, tree.right[n] # Null
  PROVE  /\ tree.right[n] \in T /\ Downwards(T, lo, hi, pos, n, tree.right[n], k)
         /\ hi[tree.right[n]] - lo[tree.right[n]] < hi[n] - lo[n]
<1>1. PICK c \in T : c = tree.right[n] /\ c \in Kids(tree, n)  BY DEF Placed, Kids
<1>2. \A x \in T : lo[x] \in Int /\ hi[x] \in Int /\ pos[x] \in Int /\ KeyOf[x] \in Int
  BY DEF Placed
<1>3. \A x \in T : pos[x] <= pos[n] => KeyOf[x] <= KeyOf[n]  BY Zenon, KeysRise
<1>4. /\ lo[n] <= lo[c] /\ hi[c] <= hi[n] /\ hi[c] - lo[c] < hi[n] - lo[n]
      /\ \A x \in T : /\ lo[c] < pos[x] <=> pos[n] < pos[x]
                      /\ hi[c] <= pos[x] <=> hi[n] <= pos[x]
  BY <1>1, KidBounds
<1>. QED  BY <1>1, <1>2, <1>3, <1>4 DEF Downwards, Framed

\* The inner loop of the searches that goes to the right.
LEMMA RightEnds ==
  ASSUME NEW T, NEW top, NEW pos, NEW lo, NEW hi, Placed(T, top, pos, lo, hi),
         Ranged(T, pos, lo, hi), tree \in Tree, NEW k \in Int, NEW n \in T
  PROVE  LET m == R!RightWhileBelow(k)[n]
         IN  /\ Downwards(T, lo, hi, pos, n, m, k)
             /\ KeyOf[m] >= k \/ tree.right[m] = Null
<1> DEFINE To(x) == R!RightWhileBelow(k)[x]
           Good(x) == /\ Downwards(T, lo, hi, pos, x, To(x), k)
                      /\ KeyOf[To(x)] >= k \/ tree.right[To(x)] = Null
           Bad == {x \in T : ~Good(x)}
<1>1. \A x \in T : x \in Node /\ lo[x] \in Int /\ hi[x] \in Int /\ KeyOf[x] \in Int
  BY DEF Placed
<1>2. ASSUME NEW x \in T, ~(KeyOf[x] < k /\ tree.right[x] # Null)
      PROVE  Good(x)
  <2>1. To(x) = x  BY <1>1, <1>2, RightLoopIs
  <2>2. Downwards(T, lo, hi, pos, x, x, k)  BY <1>1 DEF Downwards
  <2>3. KeyOf[x] >= k \/ tree.right[x] = Null  BY <1>1, <1>2
  <2> HIDE DEF To
  <2>. QED  BY Zenon, <2>1, <2>2, <2>3
<1>3. ASSUME NEW x \in Bad
      PROVE  \E y \in Bad : hi[y] - lo[y] < hi[x] - lo[x]
  <2>1. x \in T /\ ~Good(x)  BY Zenon, <1>3
  <2>2. KeyOf[x] < k /\ tree.right[x] # Null  BY Zenon, <1>2, <2>1
  <2>3. PICK y \in T : y = tree.right[x]  BY <2>1, <2>2 DEF Placed
  <2>4. To(x) = To(y)  BY <1>1, <2>1, <2>2, <2>3, RightLoopIs
  <2>5. Downwards(T, lo, hi, pos, x, y, k) /\ hi[y] - lo[y] < hi[x] - lo[x]
    BY Zenon, <2>1, <2>2, <2>3, RightStep
  <2> HIDE DEF To
  <2>6. ASSUME Good(y)
        PROVE  Good(x)
    BY <1>1, <2>1, <2>3, <2>4, <2>5, <2>6 DEF Downwards
  <2> HIDE DEF Good
  <2>. QED  BY <2>1, <2>3, <2>5, <2>6
<1>4. Bad = {}
  <2> HIDE DEF Good
  <2>1. Bad \subseteq T  OBVIOUS
  <2> HIDE DEF Bad
  <2>2. Narrows(lo, hi, Bad)  BY Zenon, <1>3 DEF Narrows
  <2>. QED  BY Zenon, <2>1, <2>2, NoEndlessPath
<1>5. Good(n)
  <2> HIDE DEF Good
  <2>. QED  BY <1>4
<1>. QED  BY Zenon, <1>5

\* What rbtree_search_min is to find: the limit, or else the first node above it.
FirstFrom(T, pos, k, r) ==
  /\ r \in T /\ KeyOf[r] >= k
  /\ KeyOf[r] = k \/ \A x \in T : pos[x] < pos[r] => KeyOf[x] < k

\* All nodes up to the end of the subtree of n are below the limit, all others above.
CutBehind(T, pos, hi, n, k) ==
  \A x \in T : IF pos[x] < hi[n] THEN KeyOf[x] < k ELSE k < KeyOf[x]

\* A step up from there.
LEMMA UpBelowStep ==
  ASSUME NEW T, NEW top, NEW pos, NEW lo, NEW hi, Placed(T, top, pos, lo, hi),
         Ranged(T, pos, lo, hi), NEW k \in Int, NEW n \in T, CutBehind(T, pos, hi, n, k),
         NEW p \in T, p = tree.parent[n]
  PROVE  /\ KeyOf[p] < k => CutBehind(T, pos, hi, p, k)
         /\ KeyOf[p] >= k => FirstFrom(T, pos, k, p)
         /\ hi[n] - lo[n] < hi[p] - lo[p]
<1>1. /\ n \in Kids(tree, p)
      /\ \A x \in T : /\ lo[x] \in Int /\ hi[x] \in Int /\ pos[x] \in Int /\ KeyOf[x] \in Int
                      /\ lo[x] < pos[x] /\ pos[x] < hi[x]
  BY DEF Placed
<1>2. /\ hi[n] - lo[n] < hi[p] - lo[p]
      /\ n = tree.left[p] => \A x \in T : hi[n] <= pos[x] <=> pos[p] <= pos[x]
      /\ n = tree.right[p] => /\ pos[p] <= lo[n]
                              /\ \A x \in T : hi[n] <= pos[x] <=> hi[p] <= pos[x]
  BY <1>1, KidBounds
<1>. QED  BY <1>1, <1>2 DEF CutBehind, FirstFrom, Kids

\* The last loop of rbtree_search_min comes to the first node above the limit.
LEMMA UpBelowEnds ==
  ASSUME NEW T, NEW top, NEW pos, NEW lo, NEW hi, Placed(T, top, pos, lo, hi),
         Ranged(T, pos, lo, hi), tree \in Tree, NEW k \in Int,
         NEW above \in T, KeyOf[above] >= k, NEW n \in T, CutBehind(T, pos, hi, n, k)
  PROVE  FirstFrom(T, pos, k, R!UpWhileBelow(k)[n])
<1> DEFINE To(x) == R!UpWhileBelow(k)[x]
           Good(x) == CutBehind(T, pos, hi, x, k) => FirstFrom(T, pos, k, To(x))
           Bad == {x \in T : ~Good(x)}
<1>1. /\ Null \notin T /\ top \in Nat
      /\ \A x \in T : /\ x \in Node /\ lo[x] \in Int /\ hi[x] \in Int /\ pos[x] \in Int
                      /\ lo[x] < pos[x] /\ pos[x] < hi[x] /\ KeyOf[x] \in Int
  BY DEF Placed
<1>2. ASSUME NEW x \in Bad
      PROVE  \E y \in Bad : hi[x] - lo[x] < hi[y] - lo[y]
  <2>1. x \in T /\ CutBehind(T, pos, hi, x, k) /\ ~FirstFrom(T, pos, k, To(x))
    BY Zenon, <1>2
  <2>2. KeyOf[x] < k  BY <1>1, <2>1 DEF CutBehind
  <2>3. tree.parent[x] # Null
    <3>1. SUFFICES ASSUME tree.parent[x] = Null PROVE FALSE  OBVIOUS
    <3>2. x = tree.root  BY <2>1, <3>1 DEF Placed
    <3>3. pos[above] < hi[x]  BY <3>2 DEF Ranged
    <3>. QED  BY <1>1, <2>1, <3>3 DEF CutBehind
  <2>4. PICK y \in T : y = tree.parent[x]  BY <2>1, <2>3 DEF Placed
  <2>5. To(x) = To(y)  BY <1>1, <2>1, <2>2, <2>4, UpBelowLoopIs
  <2>6. /\ KeyOf[y] < k => CutBehind(T, pos, hi, y, k)
        /\ KeyOf[y] >= k => FirstFrom(T, pos, k, y)
        /\ hi[x] - lo[x] < hi[y] - lo[y]
    BY Zenon, <2>1, <2>4, UpBelowStep
  <2>7. ASSUME KeyOf[y] >= k
        PROVE  FALSE
    <3>1. To(y) = y  BY <1>1, <2>7, UpBelowLoopIs
    <3> HIDE DEF To
    <3>. QED  BY Zenon, <2>1, <2>5, <2>6, <2>7, <3>1
  <2>8. KeyOf[y] < k  BY <1>1, <2>7
  <2>9. y \in Bad
    <3> HIDE DEF To
    <3>. QED  BY <2>1, <2>4, <2>5, <2>6, <2>8
  <2> HIDE DEF Bad
  <2>. QED  BY <1>1, <2>1, <2>4, <2>6, <2>9
<1>3. Bad = {}
  <2> HIDE DEF Good
  <2>1. Bad \subseteq T  OBVIOUS
  <2> HIDE DEF Bad
  <2>2. Widens(lo, hi, Bad)  BY Zenon, <1>2 DEF Widens
  <2>. QED  BY Zenon, <2>1, <2>2, NoEndlessPath
<1>4. Good(n)
  <2> HIDE DEF Good
  <2>. QED  BY <1>3
<1>. QED  BY Zenon, <1>4

\* What rbtree_search_max is to find, if there is a node up to the limit.
LastUpTo(T, k, r) ==
  r \in T /\ \A x \in T : KeyOf[x] <= k => KeyOf[r] <= k /\ KeyOf[x] <= KeyOf[r]

\* All nodes from the start of the subtree of n are above the limit, all others below.
CutBefore(T, pos, lo, n, k) ==
  \A x \in T : IF lo[n] < pos[x] THEN k < KeyOf[x] ELSE KeyOf[x] < k

\* A step up from there.
LEMMA UpAboveStep ==
  ASSUME NEW T, NEW top, NEW pos, NEW lo, NEW hi, Placed(T, top, pos, lo, hi),
         Ranged(T, pos, lo, hi), NEW k \in Int, NEW n \in T, CutBefore(T, pos, lo, n, k),
         NEW p \in T, p = tree.parent[n]
  PROVE  /\ KeyOf[p] > k => CutBefore(T, pos, lo, p, k)
         /\ KeyOf[p] <= k => LastUpTo(T, k, p)
         /\ hi[n] - lo[n] < hi[p] - lo[p]
<1>1. /\ n \in Kids(tree, p)
      /\ \A x \in T : /\ lo[x] \in Int /\ hi[x] \in Int /\ pos[x] \in Int /\ KeyOf[x] \in Int
                      /\ lo[x] < pos[x] /\ pos[x] < hi[x]
  BY DEF Placed
<1>2. /\ hi[n] - lo[n] < hi[p] - lo[p]
      /\ n = tree.left[p] => /\ hi[n] <= pos[p]
                             /\ \A x \in T : lo[n] < pos[x] <=> lo[p] < pos[x]
      /\ n = tree.right[p] => \A x \in T : lo[n] < pos[x] <=> pos[p] < pos[x]
  BY <1>1, KidBounds
<1>3. \A x \in T : pos[x] <= pos[p] => KeyOf[x] <= KeyOf[p]  BY Zenon, KeysRise
<1>. QED  BY <1>1, <1>2, <1>3 DEF CutBefore, LastUpTo, Kids

\* The last loop of rbtree_search_max comes to the last node up to the limit, if there is one.
LEMMA UpAboveEnds ==
  ASSUME NEW T, NEW top, NEW pos, NEW lo, NEW hi, Placed(T, top, pos, lo, hi),
         Ranged(T, pos, lo, hi), tree \in Tree, NEW k \in Int,
         NEW n \in T, CutBefore(T, pos, lo, n, k)
  PROVE  LastUpTo(T, k, R!UpWhileAbove(k)[n])
<1> DEFINE To(x) == R!UpWhileAbove(k)[x]
           Good(x) == CutBefore(T, pos, lo, x, k) => LastUpTo(T, k, To(x))
           Bad == {x \in T : ~Good(x)}
<1>1. /\ Null \notin T /\ top \in Nat
      /\ \A x \in T : /\ x \in Node /\ lo[x] \in Int /\ hi[x] \in Int /\ pos[x] \in Int
                      /\ lo[x] < pos[x] /\ pos[x] < hi[x] /\ KeyOf[x] \in Int
  BY DEF Placed
<1>2. ASSUME NEW x \in Bad
      PROVE  \E y \in Bad : hi[x] - lo[x] < hi[y] - lo[y]
  <2>1. x \in T /\ CutBefore(T, pos, lo, x, k) /\ ~LastUpTo(T, k, To(x))  BY Zenon, <1>2
  <2>2. KeyOf[x] > k  BY <1>1, <2>1 DEF CutBefore
  <2>3. tree.parent[x] # Null
    <3>1. SUFFICES ASSUME tree.parent[x] = Null PROVE FALSE  OBVIOUS
    <3>2. x = tree.root  BY <2>1, <3>1 DEF Placed
    <3>3. \A y \in T : KeyOf[y] > k  BY <1>1, <2>1, <3>2 DEF CutBefore, Ranged
    <3>4. To(x) = x  BY <1>1, <2>1, <3>1, UpAboveLoopIs
    <3>5. LastUpTo(T, k, x)  BY <1>1, <2>1, <3>3 DEF LastUpTo
    <3> HIDE DEF To
    <3>. QED  BY Zenon, <2>1, <3>4, <3>5
  <2>4. PICK y \in T : y = tree.parent[x]  BY <2>1, <2>3 DEF Placed
  <2>5. To(x) = To(y)  BY <1>1, <2>1, <2>2, <2>3, <2>4, UpAboveLoopIs
  <2>6. /\ KeyOf[y] > k => CutBefore(T, pos, lo, y, k)
        /\ KeyOf[y] <= k => LastUpTo(T, k, y)
        /\ hi[x] - lo[x] < hi[y] - lo[y]
    BY Zenon, <2>1, <2>4, UpAboveStep
  <2>7. ASSUME KeyOf[y] <= k
        PROVE  FALSE
    <3>1. To(y) = y  BY <1>1, <2>7, UpAboveLoopIs
    <3> HIDE DEF To
    <3>. QED  BY Zenon, <2>1, <2>5, <2>6, <2>7, <3>1
  <2>8. KeyOf[y] > k  BY <1>1, <2>7
  <2>9. y \in Bad
    <3> HIDE DEF To
    <3>. QED  BY <2>1, <2>4, <2>5, <2>6, <2>8
  <2> HIDE DEF Bad
  <2>. QED  BY <1>1, <2>1, <2>4, <2>6, <2>9
<1>3. Bad = {}
  <2> HIDE DEF Good
  <2>1. Bad \subseteq T  OBVIOUS
  <2> HIDE DEF Bad
  <2>2. Widens(lo, hi, Bad)  BY Zenon, <1>2 DEF Widens
  <2>. QED  BY Zenon, <2>1, <2>2, NoEndlessPath
<1>4. Good(n)
  <2> HIDE DEF Good
  <2>. QED  BY <1>3
<1>. QED  BY Zenon, <1>4

\* The loops stay among the nodes.
LEMMA LoopsStay ==
  ASSUME NEW T, NEW top, NEW pos, NEW lo, NEW hi, Placed(T, top, pos, lo, hi),
         Ranged(T, pos, lo, hi), tree \in Tree, NEW k \in Int, NEW n \in Node
  PROVE  R!LeftWhileAbove(k)[n] \in Node /\ R!RightWhileBelow(k)[n] \in Node
<1>1. CASE n \in T
  <2>1. R!LeftWhileAbove(k)[n] \in T  BY <1>1, LeftEnds DEF Downwards
  <2>2. R!RightWhileBelow(k)[n] \in T  BY <1>1, RightEnds DEF Downwards
  <2>. QED  BY <2>1, <2>2 DEF Placed
<1>2. CASE n \notin T
  <2>1. tree.left[n] = Null /\ tree.right[n] = Null  BY <1>2 DEF Placed
  <2>. QED  BY <2>1, LeftLoopIs, RightLoopIs
<1>. QED  BY <1>1, <1>2

\* Two loops after each other, from n to m, come further down or are at an end.
Descends(T, lo, hi, pos, n, m, k) ==
  /\ m \in T /\ (Framed(T, pos, lo, hi, n, k) => Framed(T, pos, lo, hi, m, k))
  /\ \/ KeyOf[m] = k
     \/ KeyOf[m] < k /\ tree.right[m] = Null
     \/ KeyOf[m] > k /\ tree.left[m] = Null
     \/ hi[m] - lo[m] < hi[n] - lo[n]

\* What the two inner loops do together, in either order.
LEMMA MovesDown ==
  ASSUME NEW T, NEW top, NEW pos, NEW lo, NEW hi, Placed(T, top, pos, lo, hi),
         Ranged(T, pos, lo, hi), tree \in Tree, NEW k \in Int, NEW n \in T
  PROVE  /\ Descends(T, lo, hi, pos, n, R!RightWhileBelow(k)[R!LeftWhileAbove(k)[n]], k)
         /\ Descends(T, lo, hi, pos, n, R!LeftWhileAbove(k)[R!RightWhileBelow(k)[n]], k)
<1>1. \A x \in T : lo[x] \in Int /\ hi[x] \in Int /\ KeyOf[x] \in Int  BY DEF Placed
<1>2. \A x \in T : LET m == R!LeftWhileAbove(k)[x]
                   IN  Downwards(T, lo, hi, pos, x, m, k) /\ (KeyOf[m] <= k \/ tree.left[m] = Null)
  BY Zenon, LeftEnds
<1>3. \A x \in T : LET m == R!RightWhileBelow(k)[x]
                   IN  Downwards(T, lo, hi, pos, x, m, k) /\ (KeyOf[m] >= k \/ tree.right[m] = Null)
  BY Zenon, RightEnds
<1>4. Descends(T, lo, hi, pos, n, R!RightWhileBelow(k)[R!LeftWhileAbove(k)[n]], k)
  <2>1. PICK a : a = R!LeftWhileAbove(k)[n]  OBVIOUS
  <2>2. PICK m : m = R!RightWhileBelow(k)[a]  OBVIOUS
  <2>3. Downwards(T, lo, hi, pos, n, a, k) /\ (KeyOf[a] <= k \/ tree.left[a] = Null) /\ a \in T
    BY Zenon, <1>2, <2>1 DEF Downwards
  <2>4. Downwards(T, lo, hi, pos, a, m, k) /\ (KeyOf[m] >= k \/ tree.right[m] = Null) /\ m \in T
    BY Zenon, <1>3, <2>2, <2>3 DEF Downwards
  <2>5. Descends(T, lo, hi, pos, n, m, k)  BY <1>1, <2>3, <2>4 DEF Downwards, Descends
  <2>. QED  BY Zenon, <2>1, <2>2, <2>5
<1>5. Descends(T, lo, hi, pos, n, R!LeftWhileAbove(k)[R!RightWhileBelow(k)[n]], k)
  <2>1. PICK a : a = R!RightWhileBelow(k)[n]  OBVIOUS
  <2>2. PICK m : m = R!LeftWhileAbove(k)[a]  OBVIOUS
  <2>3. Downwards(T, lo, hi, pos, n, a, k) /\ (KeyOf[a] >= k \/ tree.right[a] = Null) /\ a \in T
    BY Zenon, <1>3, <2>1 DEF Downwards
  <2>4. Downwards(T, lo, hi, pos, a, m, k) /\ (KeyOf[m] <= k \/ tree.left[m] = Null) /\ m \in T
    BY Zenon, <1>2, <2>2, <2>3 DEF Downwards
  <2>5. Descends(T, lo, hi, pos, n, m, k)  BY <1>1, <2>3, <2>4 DEF Downwards, Descends
  <2>. QED  BY Zenon, <2>1, <2>2, <2>5
<1>. QED  BY Zenon, <1>4, <1>5

\* rbtree_search_min, from a node that has the whole range of the limit below it.
LEMMA MinFinds ==
  ASSUME NEW T, NEW top, NEW pos, NEW lo, NEW hi, Placed(T, top, pos, lo, hi),
         Ranged(T, pos, lo, hi), tree \in Tree, NEW k \in Int,
         NEW above \in T, KeyOf[above] >= k, NEW f, MinLoop(f, k),
         NEW n \in T, Framed(T, pos, lo, hi, n, k)
  PROVE  FirstFrom(T, pos, k, f[n])
<1> DEFINE Good(x) == Framed(T, pos, lo, hi, x, k) => FirstFrom(T, pos, k, f[x])
           Bad == {x \in T : ~Good(x)}
<1>1. /\ Null \notin T /\ top \in Nat
      /\ \A x \in T : /\ x \in Node /\ lo[x] \in Int /\ hi[x] \in Int /\ pos[x] \in Int
                      /\ lo[x] < pos[x] /\ pos[x] < hi[x] /\ KeyOf[x] \in Int
  BY DEF Placed
<1>2. ASSUME NEW x \in Bad
      PROVE  \E y \in Bad : hi[y] - lo[y] < hi[x] - lo[x]
  <2>1. x \in T /\ Framed(T, pos, lo, hi, x, k) /\ ~FirstFrom(T, pos, k, f[x])
    BY Zenon, <1>2
  <2>2. PICK m : m = R!RightWhileBelow(k)[R!LeftWhileAbove(k)[x]]  OBVIOUS
  <2>3. f[x] = IF KeyOf[m] = k THEN m
               ELSE IF KeyOf[m] < k /\ tree.right[m] = Null THEN R!UpWhileBelow(k)[m]
               ELSE IF KeyOf[m] > k /\ tree.left[m] = Null THEN m
               ELSE f[m]
    BY Zenon, <1>1, <2>1, <2>2 DEF MinLoop, MinBody
  <2>4. Descends(T, lo, hi, pos, x, m, k)  BY Zenon, <2>1, <2>2, MovesDown
  <2>5. /\ m \in T /\ Framed(T, pos, lo, hi, m, k)
        /\ \/ KeyOf[m] = k
           \/ KeyOf[m] < k /\ tree.right[m] = Null
           \/ KeyOf[m] > k /\ tree.left[m] = Null
           \/ hi[m] - lo[m] < hi[x] - lo[x]
    BY Zenon, <2>1, <2>4 DEF Descends
  <2>6. ASSUME KeyOf[m] = k
        PROVE  FALSE
    <3>1. f[x] = m /\ FirstFrom(T, pos, k, m)  BY <1>1, <2>3, <2>5, <2>6 DEF FirstFrom
    <3>. QED  BY Zenon, <2>1, <3>1
  <2>7. ASSUME KeyOf[m] < k, tree.right[m] = Null
        PROVE  FALSE
    <3>1. f[x] = R!UpWhileBelow(k)[m]  BY <1>1, <2>3, <2>5, <2>7
    <3>2. ASSUME NEW y \in T
          PROVE  IF pos[y] < hi[m] THEN KeyOf[y] < k ELSE k < KeyOf[y]
      <4>1. CASE pos[m] < pos[y]
        <5>1. hi[m] <= pos[y]  BY <2>5, <2>7, <4>1, NothingLeft
        <5>. QED  BY <1>1, <2>5, <5>1 DEF Framed
      <4>2. CASE pos[y] <= pos[m]
        <5>1. y = m \/ pos[y] < pos[m]  BY <1>1, <2>5, <4>2 DEF Ranged
        <5>2. KeyOf[y] <= KeyOf[m] /\ pos[y] < hi[m]
          BY <1>1, <2>5, <4>2, <5>1 DEF Ranged
        <5>. QED  BY <1>1, <2>5, <2>7, <5>2
      <4>. QED  BY <1>1, <2>5, <4>1, <4>2
    <3>3. CutBehind(T, pos, hi, m, k)  BY Zenon, <3>2 DEF CutBehind
    <3>4. FirstFrom(T, pos, k, R!UpWhileBelow(k)[m])  BY Zenon, <2>5, <3>3, UpBelowEnds
    <3>. QED  BY Zenon, <2>1, <3>1, <3>4
  <2>8. ASSUME KeyOf[m] > k, tree.left[m] = Null
        PROVE  FALSE
    <3>1. f[x] = m  BY <1>1, <2>3, <2>5, <2>8
    <3>2. ASSUME NEW y \in T, pos[y] < pos[m]
          PROVE  KeyOf[y] < k
      <4>1. pos[y] <= lo[m]  BY <2>5, <2>8, <3>2, NothingLeft
      <4>. QED  BY <2>5, <4>1 DEF Framed
    <3>3. FirstFrom(T, pos, k, m)  BY <1>1, <2>5, <2>8, <3>2 DEF FirstFrom
    <3>. QED  BY Zenon, <2>1, <3>1, <3>3
  <2>9. hi[m] - lo[m] < hi[x] - lo[x] /\ f[x] = f[m]  BY <2>3, <2>5, <2>6, <2>7, <2>8
  <2>10. m \in Bad  BY <2>1, <2>5, <2>9
  <2> HIDE DEF Bad
  <2>. QED  BY <2>1, <2>5, <2>9, <2>10
<1>3. Bad = {}
  <2> HIDE DEF Good
  <2>1. Bad \subseteq T  OBVIOUS
  <2> HIDE DEF Bad
  <2>2. Narrows(lo, hi, Bad)  BY Zenon, <1>2 DEF Narrows
  <2>. QED  BY Zenon, <2>1, <2>2, NoEndlessPath
<1>4. Good(n)
  <2> HIDE DEF Good
  <2>. QED  BY <1>3
<1>. QED  BY Zenon, <1>4

\* rbtree_search_max, from a node that has the whole range of the limit below it.
LEMMA MaxFinds ==
  ASSUME NEW T, NEW top, NEW pos, NEW lo, NEW hi, Placed(T, top, pos, lo, hi),
         Ranged(T, pos, lo, hi), tree \in Tree, NEW k \in Int, NEW f, MaxLoop(f, k),
         NEW n \in T, Framed(T, pos, lo, hi, n, k)
  PROVE  LastUpTo(T, k, f[n])
<1> DEFINE Good(x) == Framed(T, pos, lo, hi, x, k) => LastUpTo(T, k, f[x])
           Bad == {x \in T : ~Good(x)}
<1>1. /\ Null \notin T /\ top \in Nat
      /\ \A x \in T : /\ x \in Node /\ lo[x] \in Int /\ hi[x] \in Int /\ pos[x] \in Int
                      /\ lo[x] < pos[x] /\ pos[x] < hi[x] /\ KeyOf[x] \in Int
  BY DEF Placed
<1>2. ASSUME NEW x \in Bad
      PROVE  \E y \in Bad : hi[y] - lo[y] < hi[x] - lo[x]
  <2>1. x \in T /\ Framed(T, pos, lo, hi, x, k) /\ ~LastUpTo(T, k, f[x])  BY Zenon, <1>2
  <2>2. PICK m : m = R!LeftWhileAbove(k)[R!RightWhileBelow(k)[x]]  OBVIOUS
  <2>3. f[x] = IF KeyOf[m] = k THEN m
               ELSE IF KeyOf[m] > k /\ tree.left[m] = Null THEN R!UpWhileAbove(k)[m]
               ELSE IF KeyOf[m] < k /\ tree.right[m] = Null THEN m
               ELSE f[m]
    BY Zenon, <1>1, <2>1, <2>2 DEF MaxLoop, MaxBody
  <2>4. Descends(T, lo, hi, pos, x, m, k)  BY Zenon, <2>1, <2>2, MovesDown
  <2>5. /\ m \in T /\ Framed(T, pos, lo, hi, m, k)
        /\ \/ KeyOf[m] = k
           \/ KeyOf[m] < k /\ tree.right[m] = Null
           \/ KeyOf[m] > k /\ tree.left[m] = Null
           \/ hi[m] - lo[m] < hi[x] - lo[x]
    BY Zenon, <2>1, <2>4 DEF Descends
  <2>6. ASSUME KeyOf[m] = k
        PROVE  FALSE
    <3>1. f[x] = m /\ LastUpTo(T, k, m)  BY <1>1, <2>3, <2>5, <2>6 DEF LastUpTo
    <3>. QED  BY Zenon, <2>1, <3>1
  <2>7. ASSUME KeyOf[m] > k, tree.left[m] = Null
        PROVE  FALSE
    <3>1. f[x] = R!UpWhileAbove(k)[m]  BY <1>1, <2>3, <2>5, <2>7
    <3>2. ASSUME NEW y \in T
          PROVE  IF lo[m] < pos[y] THEN k < KeyOf[y] ELSE KeyOf[y] < k
      <4>1. CASE pos[y] < pos[m]
        <5>1. pos[y] <= lo[m]  BY <2>5, <2>7, <4>1, NothingLeft
        <5>. QED  BY <1>1, <2>5, <5>1 DEF Framed
      <4>2. CASE pos[m] <= pos[y]
        <5>1. y = m \/ pos[m] < pos[y]  BY <1>1, <2>5, <4>2 DEF Ranged
        <5>2. KeyOf[m] <= KeyOf[y] /\ lo[m] < pos[y]
          BY <1>1, <2>5, <4>2, <5>1 DEF Ranged
        <5>. QED  BY <1>1, <2>5, <2>7, <5>2
      <4>. QED  BY <1>1, <2>5, <4>1, <4>2
    <3>3. CutBefore(T, pos, lo, m, k)  BY Zenon, <3>2 DEF CutBefore
    <3>4. LastUpTo(T, k, R!UpWhileAbove(k)[m])  BY Zenon, <2>5, <3>3, UpAboveEnds
    <3>. QED  BY Zenon, <2>1, <3>1, <3>4
  <2>8. ASSUME KeyOf[m] < k, tree.right[m] = Null
        PROVE  FALSE
    <3>1. f[x] = m  BY <1>1, <2>3, <2>5, <2>8
    <3>2. ASSUME NEW y \in T, KeyOf[y] <= k
          PROVE  KeyOf[y] <= KeyOf[m]
      <4>1. CASE pos[m] < pos[y]
        <5>1. hi[m] <= pos[y]  BY <2>5, <2>8, <4>1, NothingLeft
        <5>. QED  BY <1>1, <2>5, <3>2, <5>1 DEF Framed
      <4>2. CASE pos[y] <= pos[m]
        <5>1. y = m \/ pos[y] < pos[m]  BY <1>1, <2>5, <4>2 DEF Ranged
        <5>. QED  BY <1>1, <2>5, <5>1 DEF Ranged
      <4>. QED  BY <1>1, <2>5, <4>1, <4>2
    <3>3. LastUpTo(T, k, m)  BY <1>1, <2>5, <2>8, <3>2 DEF LastUpTo
    <3>. QED  BY Zenon, <2>1, <3>1, <3>3
  <2>9. hi[m] - lo[m] < hi[x] - lo[x] /\ f[x] = f[m]  BY <2>3, <2>5, <2>6, <2>7, <2>8
  <2>10. m \in Bad  BY <2>1, <2>5, <2>9
  <2> HIDE DEF Bad
  <2>. QED  BY <2>1, <2>5, <2>9, <2>10
<1>3. Bad = {}
  <2> HIDE DEF Good
  <2>1. Bad \subseteq T  OBVIOUS
  <2> HIDE DEF Bad
  <2>2. Narrows(lo, hi, Bad)  BY Zenon, <1>2 DEF Narrows
  <2>. QED  BY Zenon, <2>1, <2>2, NoEndlessPath
<1>4. Good(n)
  <2> HIDE DEF Good
  <2>. QED  BY <1>3
<1>. QED  BY Zenon, <1>4

\* No node of the subtree of n has the key k.
NoneBelow(T, pos, lo, hi, n, k) ==
  \A x \in T : lo[n] < pos[x] /\ pos[x] < hi[n] => KeyOf[x] # k

\* A search that comes to n ends with r.
Decided(T, pos, lo, hi, n, k, r) ==
  IF r = Null THEN NoneBelow(T, pos, lo, hi, n, k) ELSE r \in T /\ KeyOf[r] = k

\* rbtree_search, from any node.
LEMMA SearchFinds ==
  ASSUME NEW T, NEW top, NEW pos, NEW lo, NEW hi, Placed(T, top, pos, lo, hi),
         Ranged(T, pos, lo, hi), NEW k \in Int, NEW f, SearchLoop(f, k), NEW n \in T
  PROVE  Decided(T, pos, lo, hi, n, k, f[n])
<1> DEFINE Good(x) == IF f[x] = Null THEN NoneBelow(T, pos, lo, hi, x, k)
                      ELSE f[x] \in T /\ KeyOf[f[x]] = k
           Bad == {x \in T : ~Good(x)}
<1>1. /\ Null \notin T /\ top \in Nat
      /\ \A x \in T : /\ x \in Node /\ lo[x] \in Int /\ hi[x] \in Int /\ pos[x] \in Int
                      /\ lo[x] < pos[x] /\ pos[x] < hi[x] /\ KeyOf[x] \in Int
                      /\ tree.left[x] \in T \cup {Null} /\ tree.right[x] \in T \cup {Null}
  BY DEF Placed
<1>2. f[Null] = Null  BY DEF SearchLoop
<1>3. ASSUME NEW x \in T, KeyOf[x] > k
      PROVE  (tree.left[x] \in T /\ Good(tree.left[x])) \/ tree.left[x] = Null => Good(x)
  <2>1. f[x] = f[tree.left[x]]  BY <1>1, <1>3 DEF SearchLoop
  <2>2. ASSUME NEW y \in T, lo[x] < pos[y], pos[y] < hi[x], KeyOf[y] = k
        PROVE  tree.left[x] \in T /\ lo[tree.left[x]] < pos[y] /\ pos[y] < hi[tree.left[x]]
    <3>1. Between(tree, T, pos, lo, hi, y, x)  BY <2>2 DEF Ranged
    <3>2. ~(pos[x] < pos[y]) /\ x # y  BY <1>1, <1>3, <2>2 DEF Ranged
    <3>. QED  BY Zenon, <3>1, <3>2 DEF Between
  <2>3. ASSUME tree.left[x] = Null
        PROVE  Good(x)
    <3>1. NoneBelow(T, pos, lo, hi, x, k)  BY <1>1, <2>2, <2>3 DEF NoneBelow
    <3>. QED  BY <1>2, <2>1, <2>3, <3>1
  <2>4. ASSUME tree.left[x] \in T, Good(tree.left[x])
        PROVE  Good(x)
    <3>1. NoneBelow(T, pos, lo, hi, tree.left[x], k) => NoneBelow(T, pos, lo, hi, x, k)
      BY <2>2 DEF NoneBelow
    <3>. QED  BY <2>1, <2>4, <3>1
  <2>. QED  BY Zenon, <2>3, <2>4
<1>4. ASSUME NEW x \in T, KeyOf[x] < k
      PROVE  (tree.right[x] \in T /\ Good(tree.right[x])) \/ tree.right[x] = Null => Good(x)
  <2>1. f[x] = f[tree.right[x]]  BY <1>1, <1>4 DEF SearchLoop
  <2>2. ASSUME NEW y \in T, lo[x] < pos[y], pos[y] < hi[x], KeyOf[y] = k
        PROVE  tree.right[x] \in T /\ lo[tree.right[x]] < pos[y] /\ pos[y] < hi[tree.right[x]]
    <3>1. Between(tree, T, pos, lo, hi, y, x)  BY <2>2 DEF Ranged
    <3>2. ~(pos[y] < pos[x]) /\ x # y  BY <1>1, <1>4, <2>2 DEF Ranged
    <3>. QED  BY Zenon, <3>1, <3>2 DEF Between
  <2>3. ASSUME tree.right[x] = Null
        PROVE  Good(x)
    <3>1. NoneBelow(T, pos, lo, hi, x, k)  BY <1>1, <2>2, <2>3 DEF NoneBelow
    <3>. QED  BY <1>2, <2>1, <2>3, <3>1
  <2>4. ASSUME tree.right[x] \in T, Good(tree.right[x])
        PROVE  Good(x)
    <3>1. NoneBelow(T, pos, lo, hi, tree.right[x], k) => NoneBelow(T, pos, lo, hi, x, k)
      BY <2>2 DEF NoneBelow
    <3>. QED  BY <2>1, <2>4, <3>1
  <2>. QED  BY Zenon, <2>3, <2>4
<1>5. ASSUME NEW x \in T, KeyOf[x] = k
      PROVE  Good(x)
  <2>1. f[x] = x  BY <1>1, <1>5 DEF SearchLoop
  <2>. QED  BY <1>1, <1>5, <2>1
<1>6. ASSUME NEW x \in T
      PROVE  \/ tree.left[x] \in T /\ hi[tree.left[x]] - lo[tree.left[x]] < hi[x] - lo[x]
             \/ tree.left[x] = Null
  BY <1>1 DEF Placed
<1>7. ASSUME NEW x \in T
      PROVE  \/ tree.right[x] \in T /\ hi[tree.right[x]] - lo[tree.right[x]] < hi[x] - lo[x]
             \/ tree.right[x] = Null
  BY <1>1 DEF Placed
<1> HIDE DEF Good
<1>8. ASSUME NEW x \in Bad
      PROVE  \E y \in Bad : hi[y] - lo[y] < hi[x] - lo[x]
  <2>1. x \in T /\ ~Good(x) /\ KeyOf[x] \in Int  BY <1>1, <1>8
  <2>2. CASE KeyOf[x] > k  BY <1>3, <1>6, <2>1, <2>2
  <2>3. CASE KeyOf[x] < k  BY <1>4, <1>7, <2>1, <2>3
  <2>. QED  BY <1>5, <2>1, <2>2, <2>3
<1>9. Bad = {}
  <2>1. Bad \subseteq T  OBVIOUS
  <2> HIDE DEF Bad
  <2>2. Narrows(lo, hi, Bad)  BY Zenon, <1>8 DEF Narrows
  <2>. QED  BY Zenon, <2>1, <2>2, NoEndlessPath
<1>10. Good(n)  BY <1>9
<1>. QED  BY Zenon, <1>10 DEF Good, Decided

\* The whole tree is below the root.
LEMMA RootFramed ==
  ASSUME NEW T, NEW top, NEW pos, NEW lo, NEW hi, Placed(T, top, pos, lo, hi),
         Ranged(T, pos, lo, hi), NEW k, tree.root # Null
  PROVE  tree.root \in T /\ Framed(T, pos, lo, hi, tree.root, k)
BY DEF Placed, Ranged, Framed

\* The three searches together.
LEMMA NearestAreFound ==
  ASSUME NEW T, NEW top, NEW pos, NEW lo, NEW hi, Placed(T, top, pos, lo, hi),
         Ranged(T, pos, lo, hi), tree \in Tree, NEW k \in Int
  PROVE  LET below == {n \in T : KeyOf[n] <= k}
             above == {n \in T : KeyOf[n] >= k}
             found == R!SearchMax(k)
         IN  /\ IF below = {} THEN found = Null
                ELSE found \in below /\ \A n \in below : KeyOf[n] <= KeyOf[found]
             /\ above # {} => FirstFrom(T, pos, k, R!SearchMin(k))
             /\ IF below \cap above = {} THEN R!Search(k) = Null
                ELSE R!Search(k) \in below \cap above
<1> DEFINE below == {n \in T : KeyOf[n] <= k}
           above == {n \in T : KeyOf[n] >= k}
<1>1. /\ Null \notin T /\ tree.root \in T \cup {Null} /\ (tree.root = Null => T = {})
      /\ \A x \in T : KeyOf[x] \in Int /\ pos[x] \in Int
  BY DEF Placed, Ranged
<1>2. PICK f : SearchLoop(f, k) /\ R!Search(k) = f[tree.root]  BY Zenon, SearchLoopIs
<1>3. CASE tree.root = Null
  <2>1. T = {} /\ R!Search(k) = Null  BY <1>1, <1>2, <1>3 DEF SearchLoop
  <2>2. R!SearchMax(k) = Null  BY Zenon, <1>3 DEF R!SearchMax
  <2>. QED  BY <2>1, <2>2
<1>4. CASE tree.root # Null
  <2>1. tree.root \in T /\ Framed(T, pos, lo, hi, tree.root, k)
    BY Zenon, <1>4, RootFramed
  <2>2. \A n \in Node : R!LeftWhileAbove(k)[n] \in Node /\ R!RightWhileBelow(k)[n] \in Node
    BY Zenon, LoopsStay
  <2>3. IF below \cap above = {} THEN R!Search(k) = Null ELSE R!Search(k) \in below \cap above
    <3>1. IF f[tree.root] = Null THEN NoneBelow(T, pos, lo, hi, tree.root, k)
          ELSE f[tree.root] \in T /\ KeyOf[f[tree.root]] = k
      <4>1. Decided(T, pos, lo, hi, tree.root, k, f[tree.root])
        BY Zenon, <1>2, <2>1, SearchFinds
      <4>. QED  BY Zenon, <4>1 DEF Decided
    <3>2. NoneBelow(T, pos, lo, hi, tree.root, k) => \A x \in T : KeyOf[x] # k
      BY DEF NoneBelow, Ranged
    <3>3. \A x \in T : x \in below \cap above <=> KeyOf[x] = k  BY <1>1
    <3>. QED  BY <1>1, <1>2, <3>1, <3>2, <3>3
  <2>4. above # {} => FirstFrom(T, pos, k, R!SearchMin(k))
    <3>1. SUFFICES ASSUME NEW a \in T, KeyOf[a] >= k
                   PROVE  FirstFrom(T, pos, k, R!SearchMin(k))
      OBVIOUS
    <3>2. PICK g : MinLoop(g, k) /\ R!SearchMin(k) = g[tree.root]
      BY Zenon, <1>4, <2>2, MinLoopIs
    <3>3. FirstFrom(T, pos, k, g[tree.root])  BY Zenon, <2>1, <3>1, <3>2, MinFinds
    <3>. QED  BY Zenon, <3>2, <3>3
  <2>5. PICK g : /\ MaxLoop(g, k)
                 /\ R!SearchMax(k) = IF KeyOf[g[tree.root]] > k THEN Null ELSE g[tree.root]
    BY Zenon, <1>4, <2>2, MaxLoopIs
  <2>6. LastUpTo(T, k, g[tree.root])  BY Zenon, <2>1, <2>5, MaxFinds
  <2>7. IF below = {} THEN R!SearchMax(k) = Null
        ELSE R!SearchMax(k) \in below /\ \A n \in below : KeyOf[n] <= KeyOf[R!SearchMax(k)]
    <3>1. PICK r \in T : r = g[tree.root]  BY <2>6 DEF LastUpTo
    <3>2. KeyOf[r] \in Int /\ \A x \in T : KeyOf[x] <= k => KeyOf[r] <= k /\ KeyOf[x] <= KeyOf[r]
      BY <1>1, <2>6, <3>1 DEF LastUpTo
    <3>3. R!SearchMax(k) = IF KeyOf[r] > k THEN Null ELSE r  BY Zenon, <2>5, <3>1
    <3>4. CASE KeyOf[r] > k  BY <1>1, <3>2, <3>3, <3>4
    <3>5. CASE ~(KeyOf[r] > k)
      <4>1. R!SearchMax(k) = r /\ r \in below  BY <3>2, <3>3, <3>5
      <4>. QED  BY <3>2, <4>1
    <3>. QED  BY <3>4, <3>5
  <2>. QED  BY Zenon, <2>3, <2>4, <2>7
<1>. QED  BY <1>3, <1>4

-----------------------------------------------------------------------------
(* The red-black tree: the iteration *)

\* The nodes that an iteration at n has before it when it comes from prev; where in the
\* order it is; how many steps it may take there, at most.
Ahead(pos, lo, hi, n, prev, x) ==
  IF prev = tree.left[n] THEN pos[n] <= pos[x]
  ELSE IF prev = tree.right[n] THEN hi[n] <= pos[x] ELSE lo[n] < pos[x]

Front(pos, lo, hi, n, prev) ==
  IF prev = tree.left[n] THEN pos[n] ELSE IF prev = tree.right[n] THEN hi[n] ELSE lo[n]

Patience(top, lo, hi, n, prev) ==
  IF prev = tree.left[n] THEN top + 1
  ELSE IF prev = tree.right[n] THEN top + 2 + (top - (hi[n] - lo[n])) ELSE hi[n] - lo[n]

\* From n, come from prev, the iteration goes on to m, come from q.
Advances(top, pos, lo, hi, n, prev, m, q) ==
  \/ Front(pos, lo, hi, n, prev) < Front(pos, lo, hi, m, q)
  \/ /\ Front(pos, lo, hi, n, prev) = Front(pos, lo, hi, m, q)
     /\ Patience(top, lo, hi, m, q) < Patience(top, lo, hi, n, prev)

\* A step to the parent, with the subtree of n behind.
LEMMA UpStep ==
  ASSUME NEW T, NEW top, NEW pos, NEW lo, NEW hi, Placed(T, top, pos, lo, hi),
         Ranged(T, pos, lo, hi), NEW n \in T, NEW p \in T, p = tree.parent[n]
  PROVE  /\ \A x \in T : Ahead(pos, lo, hi, p, n, x) <=> hi[n] <= pos[x]
         /\ hi[n] <= Front(pos, lo, hi, p, n)
         /\ Patience(top, lo, hi, p, n) < top + 2 + (top - (hi[n] - lo[n]))
<1>1. /\ n \in Kids(tree, p) /\ Null \notin T /\ top \in Nat
      /\ \A x \in T : /\ lo[x] \in 0 .. top /\ hi[x] \in 0 .. top /\ pos[x] \in 0 .. top
                      /\ lo[x] < pos[x] /\ pos[x] < hi[x]
  BY DEF Placed
<1>2. /\ hi[n] <= hi[p] /\ hi[n] - lo[n] < hi[p] - lo[p]
      /\ n = tree.left[p] => /\ hi[n] <= pos[p]
                             /\ \A x \in T : hi[n] <= pos[x] <=> pos[p] <= pos[x]
      /\ n = tree.right[p] => \A x \in T : hi[n] <= pos[x] <=> hi[p] <= pos[x]
  BY <1>1, KidBounds
<1>3. CASE n = tree.left[p]
  <2>1. \A x \in T : Ahead(pos, lo, hi, p, n, x) <=> hi[n] <= pos[x]
    BY Zenon, <1>2, <1>3 DEF Ahead
  <2>2. Front(pos, lo, hi, p, n) = pos[p] /\ Patience(top, lo, hi, p, n) = top + 1
    BY <1>3 DEF Front, Patience
  <2>3. hi[n] - lo[n] <= top  BY <1>1
  <2>4. top + 1 < top + 2 + (top - (hi[n] - lo[n]))  BY <1>1, <2>3
  <2>5. hi[n] <= pos[p]  BY <1>2, <1>3
  <2>. QED  BY <2>1, <2>2, <2>4, <2>5
<1>4. CASE n = tree.right[p] /\ n # tree.left[p]
  <2>1. \A x \in T : Ahead(pos, lo, hi, p, n, x) <=> hi[n] <= pos[x]
    BY Zenon, <1>2, <1>4 DEF Ahead
  <2>2. /\ Front(pos, lo, hi, p, n) = hi[p]
        /\ Patience(top, lo, hi, p, n) = top + 2 + (top - (hi[p] - lo[p]))
    BY <1>4 DEF Front, Patience
  <2>. QED  BY <1>1, <1>2, <2>1, <2>2
<1>. QED  BY <1>1, <1>3, <1>4 DEF Kids

\* A step to a child.
LEMMA DownSteps ==
  ASSUME NEW T, NEW top, NEW pos, NEW lo, NEW hi, Placed(T, top, pos, lo, hi),
         Ranged(T, pos, lo, hi), NEW n \in T, NEW c \in T, c \in Kids(tree, n)
  PROVE  /\ c = tree.left[n] =>
              /\ \A x \in T : Ahead(pos, lo, hi, c, n, x) <=> lo[n] < pos[x]
              /\ lo[n] <= Front(pos, lo, hi, c, n)
              /\ Patience(top, lo, hi, c, n) < hi[n] - lo[n]
         /\ c = tree.right[n] =>
              /\ \A x \in T : Ahead(pos, lo, hi, c, n, x) <=> pos[n] < pos[x]
              /\ pos[n] <= Front(pos, lo, hi, c, n)
              /\ Patience(top, lo, hi, c, n) < top + 1
<1>1. /\ Null \notin T /\ top \in Nat
      /\ \A x \in T : lo[x] \in 0 .. top /\ hi[x] \in 0 .. top /\ lo[x] < hi[x]
  BY DEF Placed
<1>2. n \notin Kids(tree, c)  BY <1>1, KidBounds
<1>3. /\ lo[n] <= lo[c] /\ hi[c] - lo[c] < hi[n] - lo[n]
      /\ c = tree.left[n] => \A x \in T : lo[c] < pos[x] <=> lo[n] < pos[x]
      /\ c = tree.right[n] => pos[n] <= lo[c] /\ \A x \in T : lo[c] < pos[x] <=> pos[n] < pos[x]
  BY Zenon, KidBounds
<1>4. /\ Front(pos, lo, hi, c, n) = lo[c] /\ Patience(top, lo, hi, c, n) = hi[c] - lo[c]
      /\ \A x \in T : Ahead(pos, lo, hi, c, n, x) <=> lo[c] < pos[x]
  BY <1>2 DEF Front, Patience, Ahead, Kids
<1>. QED  BY <1>1, <1>3, <1>4

\* Where the iteration goes on.
NextNode(n, prev) ==
  IF prev = tree.left[n] THEN IF tree.right[n] # Null THEN tree.right[n] ELSE tree.parent[n]
  ELSE IF prev = tree.right[n] THEN tree.parent[n]
  ELSE IF tree.left[n] # Null THEN tree.left[n] ELSE n

NextPrev(n, prev) ==
  IF prev # tree.left[n] /\ prev # tree.right[n] /\ tree.left[n] = Null THEN Null ELSE n

\* A step of the iteration: it has the same nodes before it as before, but for one that it
\* visits, and it is further in the order or has less patience.
LEMMA GoesOn ==
  ASSUME NEW T, NEW top, NEW pos, NEW lo, NEW hi, Placed(T, top, pos, lo, hi),
         Ranged(T, pos, lo, hi), NEW n \in T, NEW prev,
         NEW m, m = NextNode(n, prev), NEW q, q = NextPrev(n, prev)
  PROVE  /\ m \in T \cup {Null} /\ q \in T \cup {Null}
         /\ m # Null => Advances(top, pos, lo, hi, n, prev, m, q)
         /\ \A x \in T :
              LET onwards == m # Null /\ Ahead(pos, lo, hi, m, q, x)
              IN  IF prev = tree.left[n]
                  THEN /\ Ahead(pos, lo, hi, n, prev, x) <=> x = n \/ onwards
                       /\ onwards => pos[n] < pos[x]
                  ELSE Ahead(pos, lo, hi, n, prev, x) <=> onwards
<1>1. /\ Null \notin T /\ top \in Nat
      /\ \A x \in T : /\ lo[x] \in 0 .. top /\ hi[x] \in 0 .. top /\ pos[x] \in 0 .. top
                      /\ lo[x] < pos[x] /\ pos[x] < hi[x]
      /\ tree.left[n] \in T \cup {Null} /\ tree.right[n] \in T \cup {Null}
      /\ tree.parent[n] \in T \cup {Null} /\ (tree.parent[n] = Null <=> n = tree.root)
  BY DEF Placed
<1>2. m \in T \cup {Null} /\ q \in T \cup {Null}  BY <1>1 DEF NextNode, NextPrev
<1>3. ASSUME tree.parent[n] # Null
      PROVE  /\ \A x \in T : Ahead(pos, lo, hi, tree.parent[n], n, x) <=> hi[n] <= pos[x]
             /\ hi[n] <= Front(pos, lo, hi, tree.parent[n], n)
             /\ Patience(top, lo, hi, tree.parent[n], n) < top + 2 + (top - (hi[n] - lo[n]))
  <2>1. tree.parent[n] \in T  BY <1>1, <1>3
  <2>. QED  BY Zenon, <2>1, UpStep
<1>4. ASSUME tree.parent[n] = Null, NEW x \in T
      PROVE  ~(hi[n] <= pos[x])
  BY <1>1, <1>4 DEF Ranged
<1>5. \A x \in T : tree.right[n] = Null => (pos[n] < pos[x] <=> hi[n] <= pos[x])
  <2>1. \A x \in T : tree.right[n] = Null /\ pos[n] < pos[x] => hi[n] <= pos[x]
    BY Zenon, NothingLeft
  <2>. QED  BY <1>1, <2>1
<1>6. \A x \in T : tree.left[n] = Null => (lo[n] < pos[x] <=> pos[n] <= pos[x])
  <2>1. \A x \in T : tree.left[n] = Null /\ pos[x] < pos[n] => pos[x] <= lo[n]
    BY Zenon, NothingLeft
  <2>. QED  BY <1>1, <2>1
<1>7. \A x \in T : pos[n] <= pos[x] <=> x = n \/ pos[n] < pos[x]  BY <1>1 DEF Ranged
<1>8. CASE prev = tree.left[n] /\ tree.right[n] # Null
  <2>1. m = tree.right[n] /\ q = n /\ m \in T /\ m \in Kids(tree, n)
    BY <1>1, <1>8 DEF NextNode, NextPrev, Kids
  <2>2. /\ \A x \in T : Ahead(pos, lo, hi, m, q, x) <=> pos[n] < pos[x]
        /\ pos[n] <= Front(pos, lo, hi, m, q) /\ Patience(top, lo, hi, m, q) < top + 1
    BY Zenon, <2>1, DownSteps
  <2>3. /\ Front(pos, lo, hi, n, prev) = pos[n] /\ Patience(top, lo, hi, n, prev) = top + 1
        /\ \A x \in T : Ahead(pos, lo, hi, n, prev, x) <=> pos[n] <= pos[x]
    BY <1>8 DEF Front, Patience, Ahead
  <2>4. Front(pos, lo, hi, m, q) \in Int  BY <1>1, <2>1 DEF Front
  <2>. QED  BY <1>1, <1>2, <1>7, <1>8, <2>1, <2>2, <2>3, <2>4 DEF Advances
<1>9. CASE prev = tree.left[n] /\ tree.right[n] = Null
  <2>1. m = tree.parent[n] /\ q = n  BY <1>1, <1>9 DEF NextNode, NextPrev
  <2>2. \A x \in T : (m # Null /\ Ahead(pos, lo, hi, m, q, x)) <=> pos[n] < pos[x]
    BY <1>3, <1>4, <1>5, <1>9, <2>1
  <2>3. /\ Front(pos, lo, hi, n, prev) = pos[n]
        /\ \A x \in T : Ahead(pos, lo, hi, n, prev, x) <=> pos[n] <= pos[x]
    BY <1>9 DEF Front, Ahead
  <2>4. m # Null => Front(pos, lo, hi, m, q) \in Int  BY <1>1, <2>1 DEF Front
  <2>5. m # Null => Advances(top, pos, lo, hi, n, prev, m, q)
    BY <1>1, <1>3, <2>1, <2>3, <2>4 DEF Advances
  <2>. QED  BY <1>1, <1>2, <1>7, <1>9, <2>2, <2>3, <2>5
<1>10. CASE prev # tree.left[n] /\ prev = tree.right[n]
  <2>1. m = tree.parent[n] /\ q = n  BY <1>1, <1>10 DEF NextNode, NextPrev
  <2>2. \A x \in T : (m # Null /\ Ahead(pos, lo, hi, m, q, x)) <=> hi[n] <= pos[x]
    BY <1>3, <1>4, <2>1
  <2>3. /\ Front(pos, lo, hi, n, prev) = hi[n]
        /\ Patience(top, lo, hi, n, prev) = top + 2 + (top - (hi[n] - lo[n]))
        /\ \A x \in T : Ahead(pos, lo, hi, n, prev, x) <=> hi[n] <= pos[x]
    BY <1>10 DEF Front, Patience, Ahead
  <2>4. m # Null => Front(pos, lo, hi, m, q) \in Int  BY <1>1, <2>1 DEF Front
  <2>5. m # Null => Advances(top, pos, lo, hi, n, prev, m, q)
    BY <1>1, <1>3, <2>1, <2>3, <2>4 DEF Advances
  <2>. QED  BY <1>1, <1>2, <1>10, <2>2, <2>3, <2>5
<1>11. CASE prev # tree.left[n] /\ prev # tree.right[n] /\ tree.left[n] # Null
  <2>1. m = tree.left[n] /\ q = n /\ m \in T /\ m \in Kids(tree, n)
    BY <1>1, <1>11 DEF NextNode, NextPrev, Kids
  <2>2. /\ \A x \in T : Ahead(pos, lo, hi, m, q, x) <=> lo[n] < pos[x]
        /\ lo[n] <= Front(pos, lo, hi, m, q) /\ Patience(top, lo, hi, m, q) < hi[n] - lo[n]
    BY Zenon, <2>1, DownSteps
  <2>3. /\ Front(pos, lo, hi, n, prev) = lo[n] /\ Patience(top, lo, hi, n, prev) = hi[n] - lo[n]
        /\ \A x \in T : Ahead(pos, lo, hi, n, prev, x) <=> lo[n] < pos[x]
    BY <1>11 DEF Front, Patience, Ahead
  <2>4. Front(pos, lo, hi, m, q) \in Int  BY <1>1, <2>1 DEF Front
  <2>. QED  BY <1>1, <1>2, <1>11, <2>1, <2>2, <2>3, <2>4 DEF Advances
<1>12. CASE prev # tree.left[n] /\ prev # tree.right[n] /\ tree.left[n] = Null
  <2>1. m = n /\ q = Null /\ q = tree.left[n]  BY <1>1, <1>12 DEF NextNode, NextPrev
  <2>2. /\ \A x \in T : Ahead(pos, lo, hi, m, q, x) <=> pos[n] <= pos[x]
        /\ Front(pos, lo, hi, m, q) = pos[n]
    BY <2>1 DEF Ahead, Front
  <2>3. /\ Front(pos, lo, hi, n, prev) = lo[n]
        /\ \A x \in T : Ahead(pos, lo, hi, n, prev, x) <=> lo[n] < pos[x]
    BY <1>12 DEF Front, Ahead
  <2>. QED  BY <1>1, <1>2, <1>6, <1>12, <2>1, <2>2, <2>3 DEF Advances
<1>. QED  BY Zenon, <1>8, <1>9, <1>10, <1>11, <1>12

\* Two numbers as one, the first of which weighs more.
LEMMA Lexical ==
  ASSUME NEW top \in Nat, NEW a \in 0 .. top, NEW b \in 0 .. top,
         NEW r \in 0 .. 2 * top + 2, NEW s \in 0 .. 2 * top + 2
  PROVE  /\ (2 * top + 3) * (top - a) + r \in 0 .. (2 * top + 3) * (top + 1)
         /\ a < b => (2 * top + 3) * (top - b) + s < (2 * top + 3) * (top - a) + r
<1> DEFINE Span == 2 * top + 3
<1>1. Span \in Nat /\ r < Span /\ s < Span  OBVIOUS
<1>2. \A i, j \in Nat : i <= j => Span * i <= Span * j  OBVIOUS
<1>3. \A i \in Nat : Span * (i + 1) = Span * i + Span /\ Span * i \in Nat  OBVIOUS
<1> HIDE DEF Span
<1>4. Span * (top - a) + r \in 0 .. Span * (top + 1)
  <2>1. top - a \in Nat /\ top - a <= top  OBVIOUS
  <2>2. /\ Span * (top - a) <= Span * top /\ Span * (top + 1) = Span * top + Span
        /\ Span * top \in Nat /\ Span * (top - a) \in Nat
    BY <1>2, <1>3, <2>1
  <2>. QED  BY <1>1, <2>2
<1>5. ASSUME a < b
      PROVE  Span * (top - b) + s < Span * (top - a) + r
  <2>1. top - b \in Nat /\ top - a \in Nat /\ (top - b) + 1 \in Nat /\ (top - b) + 1 <= top - a
    BY <1>5
  <2>2. /\ Span * ((top - b) + 1) <= Span * (top - a)
        /\ Span * ((top - b) + 1) = Span * (top - b) + Span
        /\ Span * (top - b) \in Nat /\ Span * (top - a) \in Nat
    BY <1>2, <1>3, <2>1
  <2>. QED  BY <1>1, <2>2
<1>. QED  BY <1>4, <1>5 DEF Span

\* Every step of the iteration lowers a number that the place has.
LEMMA IterationEnds ==
  ASSUME NEW T, NEW top, NEW pos, NEW lo, NEW hi, Placed(T, top, pos, lo, hi),
         Ranged(T, pos, lo, hi)
  PROVE  \E W \in Nat : \E rank \in [(T \cup {Null}) \X (T \cup {Null}) -> 0 .. W] :
           \A n \in T, prev \in T \cup {Null} :
             rank[<<NextNode(n, prev), NextPrev(n, prev)>>] < rank[<<n, prev>>]
<1> DEFINE D == (T \cup {Null}) \X (T \cup {Null})
           Number(n, prev) == IF n = Null THEN 0
                             ELSE (2 * top + 3) * (top - Front(pos, lo, hi, n, prev))
                                  + Patience(top, lo, hi, n, prev)
           W == (2 * top + 3) * (top + 1)
<1>1. PICK rank : rank = [at \in D |-> Number(at[1], at[2])]  OBVIOUS
<1>2. /\ Null \notin T /\ top \in Nat
      /\ \A x \in T : /\ lo[x] \in 0 .. top /\ hi[x] \in 0 .. top /\ pos[x] \in 0 .. top
                      /\ lo[x] < pos[x] /\ pos[x] < hi[x]
  BY DEF Placed
<1>3. \A n, prev \in T \cup {Null} : rank[<<n, prev>>] = Number(n, prev)  BY <1>1
<1>4. ASSUME NEW n \in T, NEW prev
      PROVE  /\ Front(pos, lo, hi, n, prev) \in 0 .. top
             /\ Patience(top, lo, hi, n, prev) \in 0 .. 2 * top + 2
             /\ Patience(top, lo, hi, n, prev) > 0
  <2>1. hi[n] - lo[n] \in 1 .. top  BY <1>2
  <2>2. Front(pos, lo, hi, n, prev) \in 0 .. top  BY <1>2 DEF Front
  <2>. QED  BY <1>2, <2>1, <2>2 DEF Patience
<1>5. W \in Nat  BY <1>2
<1>6. \A n, prev \in T \cup {Null} : Number(n, prev) \in 0 .. W
  <2>1. ASSUME NEW n \in T, NEW prev \in T \cup {Null}
        PROVE  (2 * top + 3) * (top - Front(pos, lo, hi, n, prev))
                 + Patience(top, lo, hi, n, prev) \in 0 .. W
    BY <1>2, <1>4, <2>1, Lexical
  <2> HIDE DEF W
  <2>. QED  BY <1>2, <1>5, <2>1
<1>7. rank \in [D -> 0 .. W]
  <2>1. \A at \in D : at[1] \in T \cup {Null} /\ at[2] \in T \cup {Null}  OBVIOUS
  <2>2. \A at \in D : Number(at[1], at[2]) \in 0 .. W  BY Zenon, <1>6, <2>1
  <2> HIDE DEF D, Number, W
  <2>. QED  BY <1>1, <2>2
<1>8. ASSUME NEW n \in T, NEW prev \in T \cup {Null}
      PROVE  rank[<<NextNode(n, prev), NextPrev(n, prev)>>] < rank[<<n, prev>>]
  <2>1. PICK m, q : m = NextNode(n, prev) /\ q = NextPrev(n, prev)  OBVIOUS
  <2>2. /\ m \in T \cup {Null} /\ q \in T \cup {Null}
        /\ m # Null => Advances(top, pos, lo, hi, n, prev, m, q)
    BY <2>1, GoesOn
  <2>3. rank[<<m, q>>] = Number(m, q) /\ rank[<<n, prev>>] = Number(n, prev)
    BY <1>3, <2>2
  <2>4. Number(m, q) < Number(n, prev)
    <3>1. CASE m = Null
      <4>1. Number(m, q) = 0  BY <3>1
      <4>2. Number(n, prev) = (2 * top + 3) * (top - Front(pos, lo, hi, n, prev))
                             + Patience(top, lo, hi, n, prev)
        BY <1>2
      <4>3. (2 * top + 3) * (top - Front(pos, lo, hi, n, prev)) \in Nat  BY <1>2, <1>4
      <4>. QED  BY <1>4, <4>1, <4>2, <4>3
    <3>2. CASE m # Null
      <4>1. PICK a, b \in 0 .. top : /\ a = Front(pos, lo, hi, n, prev)
                                     /\ b = Front(pos, lo, hi, m, q)
        BY <1>4, <2>2, <3>2
      <4>2. PICK r, s \in 0 .. 2 * top + 2 : /\ r = Patience(top, lo, hi, n, prev)
                                             /\ s = Patience(top, lo, hi, m, q)
        BY <1>4, <2>2, <3>2
      <4>3. a < b \/ (a = b /\ s < r)  BY <2>2, <3>2, <4>1, <4>2 DEF Advances
      <4>4. /\ Number(n, prev) = (2 * top + 3) * (top - a) + r
            /\ Number(m, q) = (2 * top + 3) * (top - b) + s
        BY <1>2, <3>2, <4>1, <4>2
      <4>5. CASE a < b  BY <1>2, <4>4, <4>5, Lexical
      <4>6. CASE a = b /\ s < r
        <5>1. (2 * top + 3) * (top - a) \in Nat  BY <1>2
        <5> HIDE DEF Number
        <5>2. /\ Number(n, prev) = (2 * top + 3) * (top - a) + r
              /\ Number(m, q) = (2 * top + 3) * (top - a) + s
          BY <4>4, <4>6
        <5>. QED  BY <4>6, <5>1, <5>2
      <4>. QED  BY <4>3, <4>5, <4>6
    <3>. QED  BY <3>1, <3>2
  <2>. QED  BY <2>1, <2>3, <2>4
<1>. QED
  <2> HIDE DEF W
  <2>. QED  BY <1>5, <1>7, <1>8

\* What rbtree_iter_range visits from a place on, when rest is for the places behind.
Visits(n, prev, to, rest) ==
  IF prev # tree.left[n] THEN rest ELSE IF KeyOf[n] > to THEN <<>> ELSE <<n>> \o rest

IterLoop(f, T, to) ==
  /\ f \in [(T \cup {Null}) \X (T \cup {Null}) -> Seq(T)]
  /\ \A prev \in T \cup {Null} : f[<<Null, prev>>] = <<>>
  /\ \A n \in T, prev \in T \cup {Null} :
       f[<<n, prev>>] = Visits(n, prev, to, f[<<NextNode(n, prev), NextPrev(n, prev)>>])

\* The iteration stays in the tree.
LEMMA NextPlaces ==
  ASSUME NEW T, NEW top, NEW pos, NEW lo, NEW hi, Placed(T, top, pos, lo, hi),
         Ranged(T, pos, lo, hi), NEW n \in T, NEW prev
  PROVE  NextNode(n, prev) \in T \cup {Null} /\ NextPrev(n, prev) \in T \cup {Null}
BY DEF NextNode, NextPrev, Placed

\* The function of IterFrom exists, and is this loop.
LEMMA IterLoopIs ==
  ASSUME NEW top, NEW pos, NEW lo, NEW hi, Placed(members, top, pos, lo, hi),
         Ranged(members, pos, lo, hi), NEW to, NEW start, NEW before
  PROVE  \E f : IterLoop(f, members, to) /\ R!IterFrom(start, before, to) = f[<<start, before>>]
<1> DEFINE Spots == members \cup {Null}
           D == Spots \X Spots
           V == Seq(members)
           Body(n, prev, f) ==
             IF n = Null THEN <<>>
             ELSE IF prev = tree.left[n]
             THEN IF KeyOf[n] > to THEN <<>>
                  ELSE <<n>> \o f[<<IF tree.right[n] # Null THEN tree.right[n]
                                    ELSE tree.parent[n], n>>]
             ELSE IF prev = tree.right[n] THEN f[<<tree.parent[n], n>>]
             ELSE IF tree.left[n] # Null THEN f[<<tree.left[n], n>>] ELSE f[<<n, tree.left[n]>>]
           G == [v \in D \X [D -> V] |-> Body(v[1][1], v[1][2], v[2])]
<1>1. /\ Null \notin members
      /\ \A n \in members, prev \in Spots :
           <<NextNode(n, prev), NextPrev(n, prev)>> \in D
  <2>1. Null \notin members  BY DEF Placed
  <2>2. \A n \in members, prev \in Spots :
          NextNode(n, prev) \in Spots /\ NextPrev(n, prev) \in Spots
    BY Zenon, NextPlaces
  <2>. QED  BY <2>1, <2>2
<1>2. ASSUME NEW f, NEW n \in members, NEW prev \in Spots,
             NEW rest, rest = f[<<NextNode(n, prev), NextPrev(n, prev)>>]
      PROVE  Body(n, prev, f) = Visits(n, prev, to, rest)
  <2>1. n # Null  BY <1>1
  <2>2. CASE prev = tree.left[n]
    <3>1. NextPrev(n, prev) = n  BY <2>2 DEF NextPrev
    <3>. QED  BY <1>2, <2>1, <2>2, <3>1 DEF NextNode, Visits
  <2>3. CASE prev # tree.left[n] /\ prev = tree.right[n]
    BY <1>2, <2>1, <2>3 DEF NextNode, NextPrev, Visits
  <2>4. CASE prev # tree.left[n] /\ prev # tree.right[n] /\ tree.left[n] # Null
    BY <1>2, <2>1, <2>4 DEF NextNode, NextPrev, Visits
  <2>5. CASE prev # tree.left[n] /\ prev # tree.right[n] /\ tree.left[n] = Null
    BY <1>2, <2>1, <2>5 DEF NextNode, NextPrev, Visits
  <2> HIDE DEF Body
  <2>. QED  BY Zenon, <2>2, <2>3, <2>4, <2>5
<1>3. \A prev, f : Body(Null, prev, f) = <<>>  OBVIOUS
<1>4. \A n, prev \in Spots : \A f \in [D -> V] : Body(n, prev, f) \in V
  <2> HIDE DEF Body
  <2>1. ASSUME NEW n \in members, NEW prev \in Spots, NEW f \in [D -> V]
        PROVE  Body(n, prev, f) \in V
    <3>1. PICK rest : rest = f[<<NextNode(n, prev), NextPrev(n, prev)>>]  OBVIOUS
    <3>2. rest \in V
      <4> HIDE DEF D, V
      <4>. QED  BY <1>1, <3>1
    <3>3. Body(n, prev, f) = Visits(n, prev, to, rest)  BY Zenon, <1>2, <3>1
    <3>. QED  BY <3>2, <3>3 DEF Visits
  <2>2. \A n \in Spots : n = Null \/ n \in members  OBVIOUS
  <2>3. <<>> \in V  OBVIOUS
  <2> HIDE DEF D, V, Spots
  <2>. QED  BY Zenon, <1>3, <2>1, <2>2, <2>3
<1> HIDE DEF Body
<1>5. \A n, prev \in Spots : \A f \in [D -> V] : G[<<<<n, prev>>, f>>] = Body(n, prev, f)
  <2> HIDE DEF V
  <2>. QED  OBVIOUS
<1>6. G \in [D \X [D -> V] -> V]
  <2>1. \A v \in D \X [D -> V] : Body(v[1][1], v[1][2], v[2]) \in V
    <3> HIDE DEF V
    <3>. QED  BY <1>4
  <2> HIDE DEF V, D
  <2>. QED  BY <2>1
<1>7. V # {}
  <2>1. <<>> \in V  OBVIOUS
  <2>. QED  BY <2>1
<1>8. PICK W \in Nat : \E rank \in [D -> 0 .. W] :
        \A n \in members, prev \in Spots :
          rank[<<NextNode(n, prev), NextPrev(n, prev)>>] < rank[<<n, prev>>]
  BY Zenon, IterationEnds
<1>9. PICK rank \in [D -> 0 .. W] :
        \A n \in members, prev \in Spots :
          rank[<<NextNode(n, prev), NextPrev(n, prev)>>] < rank[<<n, prev>>]
  BY Zenon, <1>8
<1>10. ASSUME NEW at \in D, NEW f \in [D -> V], NEW g \in [D -> V],
              \A m \in D : rank[m] < rank[at] => f[m] = g[m]
       PROVE  G[<<at, f>>] = G[<<at, g>>]
  <2>1. PICK n, prev \in Spots : at = <<n, prev>>  OBVIOUS
  <2>2. G[<<at, f>>] = Body(n, prev, f) /\ G[<<at, g>>] = Body(n, prev, g)
    <3> HIDE DEF G, D, V, Spots
    <3>. QED  BY Zenon, <1>5, <1>10, <2>1
  <2>3. CASE n = Null
    <3> HIDE DEF G, D, V, Spots
    <3>. QED  BY Zenon, <1>3, <2>1, <2>2, <2>3
  <2>4. CASE n \in members
    <3>1. f[<<NextNode(n, prev), NextPrev(n, prev)>>] = g[<<NextNode(n, prev), NextPrev(n, prev)>>]
      <4> HIDE DEF G, D, V, Spots
      <4>. QED  BY Zenon, <1>1, <1>9, <1>10, <2>1, <2>4
    <3>2. Body(n, prev, f) = Body(n, prev, g)
      <4>1. PICK rest : rest = f[<<NextNode(n, prev), NextPrev(n, prev)>>]  OBVIOUS
      <4> HIDE DEF G, D, V, Spots
      <4>2. rest = g[<<NextNode(n, prev), NextPrev(n, prev)>>]  BY Zenon, <3>1, <4>1
      <4>3. Body(n, prev, f) = Visits(n, prev, to, rest)  BY Zenon, <1>2, <2>4, <4>1
      <4>4. Body(n, prev, g) = Visits(n, prev, to, rest)  BY Zenon, <1>2, <2>4, <4>2
      <4>. QED  BY Zenon, <4>3, <4>4
    <3>. QED  BY Zenon, <2>2, <3>2
  <2>. QED  BY <2>1, <2>3, <2>4
<1>11. CallsBelow(G, D, V, W, rank)
  <2> HIDE DEF G, D, V
  <2>. QED  BY Zenon, <1>6, <1>7, <1>8, <1>9, <1>10 DEF CallsBelow
<1>12. PICK f : Calls(G, D, V, f)
  <2> HIDE DEF G, D, V
  <2>. QED  BY Zenon, <1>11, RecursionExists
<1>13. f \in [D -> V] /\ \A at \in D : f[at] = Body(at[1], at[2], f)
  <2>1. f \in [D -> V] /\ \A at \in D : f[at] = G[<<at, f>>]
    <3> HIDE DEF G, D, V
    <3>. QED  BY Zenon, <1>12 DEF Calls
  <2>2. ASSUME NEW at \in D
        PROVE  f[at] = Body(at[1], at[2], f)
    <3>1. PICK n, prev \in Spots : at = <<n, prev>>  OBVIOUS
    <3>2. at[1] = n /\ at[2] = prev  BY <3>1
    <3> HIDE DEF G, D, V, Spots
    <3>. QED  BY Zenon, <1>5, <2>1, <3>1, <3>2
  <2>. QED  BY Zenon, <2>1, <2>2
<1>14. f = [at \in D |-> Body(at[1], at[2], f)]
  <2> HIDE DEF D, V
  <2>. QED  BY Zenon, <1>13
<1>15. PICK h : /\ h = [at \in D |-> Body(at[1], at[2], h)]
                /\ R!IterFrom(start, before, to) = h[<<start, before>>]
  BY Zenon, <1>14 DEF R!IterFrom, Body, D, Spots
<1>16. \A at \in D : h[at] = Body(at[1], at[2], h)
  <2> HIDE DEF D
  <2>. QED  BY <1>15
<1> DEFINE Bad == {at \in D : h[at] # f[at]}
<1>17. ASSUME NEW at \in Bad
       PROVE  \E m \in Bad : rank[m] < rank[at]
  <2>1. at \in D /\ h[at] # f[at]  OBVIOUS
  <2>2. PICK n, prev \in Spots : at = <<n, prev>>
    <3> HIDE DEF Spots
    <3>. QED  BY <2>1
  <2>3. at[1] = n /\ at[2] = prev  BY <2>2
  <2>4. h[at] = Body(n, prev, h) /\ f[at] = Body(n, prev, f)
    <3> HIDE DEF D, V, Spots
    <3>. QED  BY Zenon, <1>13, <1>16, <2>1, <2>3
  <2>5. n \in members
    <3>1. n = Null \/ n \in members  OBVIOUS
    <3> HIDE DEF D, V, Spots
    <3>. QED  BY Zenon, <1>3, <2>1, <2>4, <3>1
  <2>6. PICK m \in D : m = <<NextNode(n, prev), NextPrev(n, prev)>>
    <3> HIDE DEF D, Spots
    <3>. QED  BY Zenon, <1>1, <2>5
  <2>7. h[m] # f[m]
    <3> HIDE DEF D, V, Spots
    <3>1. SUFFICES ASSUME h[m] = f[m] PROVE FALSE  OBVIOUS
    <3>2. PICK rest : rest = f[m]  OBVIOUS
    <3>3. /\ rest = f[<<NextNode(n, prev), NextPrev(n, prev)>>]
          /\ rest = h[<<NextNode(n, prev), NextPrev(n, prev)>>]
      BY Zenon, <2>6, <3>1, <3>2
    <3>4. Body(n, prev, f) = Visits(n, prev, to, rest)  BY Zenon, <1>2, <2>5, <3>3
    <3>5. Body(n, prev, h) = Visits(n, prev, to, rest)  BY Zenon, <1>2, <2>5, <3>3
    <3>. QED  BY Zenon, <2>1, <2>4, <3>4, <3>5
  <2>8. rank[m] < rank[at]
    <3> HIDE DEF D, Spots
    <3>. QED  BY Zenon, <1>9, <2>2, <2>5, <2>6
  <2>. QED
    <3> HIDE DEF D
    <3>. QED  BY <2>6, <2>7, <2>8
<1>18. Bad = {}
  <2>1. Bad \subseteq D  OBVIOUS
  <2> HIDE DEF Bad, D
  <2>2. Sinks(rank, Bad)  BY Zenon, <1>17 DEF Sinks
  <2>. QED  BY Zenon, <1>8, <1>9, <2>1, <2>2, NoLowest
<1>19. \A at \in D : h[at] = f[at]
  <2> HIDE DEF D
  <2>. QED  BY <1>18
<1>20. h \in [D -> V]
  <2>1. \A at \in D : h[at] \in V
    <3> HIDE DEF D, V
    <3>. QED  BY <1>13, <1>19
  <2> HIDE DEF D, V
  <2>. QED  BY <1>15, <2>1
<1>21. \A prev \in Spots : h[<<Null, prev>>] = <<>>
  <2>1. SUFFICES ASSUME NEW prev \in Spots PROVE h[<<Null, prev>>] = <<>>  OBVIOUS
  <2>2. PICK at : at = <<Null, prev>>  OBVIOUS
  <2>3. at \in D /\ at[1] = Null /\ at[2] = prev  BY <2>2
  <2> HIDE DEF D, Spots
  <2>. QED  BY Zenon, <1>3, <1>16, <2>2, <2>3
<1>22. ASSUME NEW n \in members, NEW prev \in Spots,
              NEW rest, rest = h[<<NextNode(n, prev), NextPrev(n, prev)>>]
       PROVE  h[<<n, prev>>] = Visits(n, prev, to, rest)
  <2>1. PICK at : at = <<n, prev>>  OBVIOUS
  <2>2. at \in D /\ at[1] = n /\ at[2] = prev  BY <2>1
  <2>3. h[<<n, prev>>] = Body(n, prev, h)
    <3> HIDE DEF D, Spots
    <3>. QED  BY Zenon, <1>16, <2>1, <2>2
  <2>. QED  BY Zenon, <1>2, <1>22, <2>3
<1>23. IterLoop(h, members, to)  BY Zenon, <1>20, <1>21, <1>22 DEF IterLoop
<1>. QED  BY Zenon, <1>15, <1>23

\* A sequence has the nodes of W, each once, from left to right.
Covers(pos, W, s) ==
  /\ s \in Seq(W)
  /\ \A i, j \in 1 .. Len(s) : i < j => pos[s[i]] < pos[s[j]]
  /\ \A x \in W : \E i \in 1 .. Len(s) : s[i] = x

\* A node before all others.
LEMMA CoversMore ==
  ASSUME NEW pos, NEW W, NEW s, Covers(pos, W, s), NEW n, \A x \in W : pos[n] < pos[x]
  PROVE  Covers(pos, W \cup {n}, <<n>> \o s)
<1>1. s \in Seq(W) /\ Len(s) \in Nat /\ \A i \in 1 .. Len(s) : s[i] \in W  BY DEF Covers
<1>2. PICK z : z = <<n>> \o s  OBVIOUS
<1>3. /\ z \in Seq(W \cup {n}) /\ Len(z) = Len(s) + 1
      /\ \A i \in 1 .. Len(z) : z[i] = IF i = 1 THEN n ELSE s[i - 1]
  BY <1>1, <1>2
<1>4. ASSUME NEW i \in 1 .. Len(z), NEW j \in 1 .. Len(z), i < j
      PROVE  pos[z[i]] < pos[z[j]]
  <2>1. j - 1 \in 1 .. Len(s) /\ z[j] = s[j - 1]  BY <1>1, <1>3, <1>4
  <2>2. CASE i = 1  BY <1>1, <1>3, <2>1, <2>2
  <2>3. CASE i # 1
    <3>1. i - 1 \in 1 .. Len(s) /\ z[i] = s[i - 1] /\ i - 1 < j - 1
      BY <1>1, <1>3, <1>4, <2>3
    <3>. QED  BY <2>1, <3>1 DEF Covers
  <2>. QED  BY <2>2, <2>3
<1>5. ASSUME NEW x \in W \cup {n}
      PROVE  \E i \in 1 .. Len(z) : z[i] = x
  <2>1. CASE x = n
    <3>1. 1 \in 1 .. Len(z) /\ z[1] = x  BY <1>1, <1>3, <2>1
    <3>. QED  BY <3>1
  <2>2. CASE x \in W
    <3>1. PICK i \in 1 .. Len(s) : s[i] = x  BY <2>2 DEF Covers
    <3>2. i + 1 \in 1 .. Len(z) /\ z[i + 1] = x  BY <1>1, <1>3, <3>1
    <3>. QED  BY <3>2
  <2>. QED  BY <2>1, <2>2
<1>. QED  BY Zenon, <1>2, <1>3, <1>4, <1>5 DEF Covers

\* The nodes that an iteration has still to visit.
Awaited(T, pos, lo, hi, n, prev, to) ==
  IF n = Null THEN {} ELSE {x \in T : Ahead(pos, lo, hi, n, prev, x) /\ KeyOf[x] <= to}

\* A step of the iteration, from its end.
LEMMA VisitsCover ==
  ASSUME NEW T, NEW top, NEW pos, NEW lo, NEW hi, Placed(T, top, pos, lo, hi),
         Ranged(T, pos, lo, hi), NEW to \in Int, NEW n \in T, NEW prev,
         NEW m, m = NextNode(n, prev), NEW q, q = NextPrev(n, prev),
         NEW rest, Covers(pos, Awaited(T, pos, lo, hi, m, q, to), rest)
  PROVE  Covers(pos, Awaited(T, pos, lo, hi, n, prev, to), Visits(n, prev, to, rest))
<1>1. /\ Null \notin T
      /\ \A x \in T : pos[x] \in Int /\ KeyOf[x] \in Int
  BY DEF Placed
<1>2. \A x \in T :
        LET onwards == m # Null /\ Ahead(pos, lo, hi, m, q, x)
        IN  IF prev = tree.left[n]
            THEN /\ Ahead(pos, lo, hi, n, prev, x) <=> x = n \/ onwards
                 /\ onwards => pos[n] < pos[x]
            ELSE Ahead(pos, lo, hi, n, prev, x) <=> onwards
  BY GoesOn
<1>3. PICK W, U : W = Awaited(T, pos, lo, hi, n, prev, to) /\ U = Awaited(T, pos, lo, hi, m, q, to)
  OBVIOUS
<1>4. /\ \A x : x \in W <=> x \in T /\ Ahead(pos, lo, hi, n, prev, x) /\ KeyOf[x] <= to
      /\ \A x : x \in U <=> x \in T /\ m # Null /\ Ahead(pos, lo, hi, m, q, x) /\ KeyOf[x] <= to
  BY <1>1, <1>3 DEF Awaited
<1>5. CASE prev # tree.left[n]
  <2>1. W = U  BY <1>2, <1>4, <1>5
  <2>2. Visits(n, prev, to, rest) = rest  BY <1>5 DEF Visits
  <2>. QED  BY Zenon, <1>3, <2>1, <2>2
<1>6. CASE prev = tree.left[n] /\ KeyOf[n] > to
  <2>1. ASSUME NEW x \in T, Ahead(pos, lo, hi, n, prev, x)
        PROVE  KeyOf[x] > to
    <3>1. x = n \/ pos[n] < pos[x]  BY <1>2, <1>6, <2>1
    <3>2. KeyOf[n] <= KeyOf[x]  BY <1>1, <3>1 DEF Ranged
    <3>. QED  BY <1>1, <1>6, <3>2
  <2>2. W = {}  BY <1>1, <1>4, <2>1
  <2>3. Visits(n, prev, to, rest) = <<>>  BY <1>6 DEF Visits
  <2>4. Covers(pos, {}, <<>>)  BY DEF Covers
  <2>. QED  BY Zenon, <1>3, <2>2, <2>3, <2>4
<1>7. CASE prev = tree.left[n] /\ ~(KeyOf[n] > to)
  <2>1. W = U \cup {n}  BY <1>1, <1>2, <1>4, <1>7
  <2>2. Visits(n, prev, to, rest) = <<n>> \o rest  BY <1>7 DEF Visits
  <2>3. \A x \in U : pos[n] < pos[x]  BY <1>2, <1>4, <1>7
  <2>4. Covers(pos, U \cup {n}, <<n>> \o rest)  BY Zenon, <1>3, <2>3, CoversMore
  <2>. QED  BY Zenon, <1>3, <2>1, <2>2, <2>4
<1>. QED  BY Zenon, <1>5, <1>6, <1>7

\* The iteration visits what it has before it, up to the limit.
LEMMA IterationCovers ==
  ASSUME NEW T, NEW top, NEW pos, NEW lo, NEW hi, Placed(T, top, pos, lo, hi),
         Ranged(T, pos, lo, hi), NEW to \in Int, NEW f, IterLoop(f, T, to),
         NEW n \in T, NEW prev \in T \cup {Null}
  PROVE  Covers(pos, Awaited(T, pos, lo, hi, n, prev, to), f[<<n, prev>>])
<1> DEFINE D == (T \cup {Null}) \X (T \cup {Null})
           Good(at) == Covers(pos, Awaited(T, pos, lo, hi, at[1], at[2], to), f[at])
           Bad == {at \in D : ~Good(at)}
<1>1. PICK W \in Nat : \E rank \in [D -> 0 .. W] :
        \A x \in T, y \in T \cup {Null} : rank[<<NextNode(x, y), NextPrev(x, y)>>] < rank[<<x, y>>]
  BY Zenon, IterationEnds
<1>2. PICK rank \in [D -> 0 .. W] :
        \A x \in T, y \in T \cup {Null} : rank[<<NextNode(x, y), NextPrev(x, y)>>] < rank[<<x, y>>]
  BY Zenon, <1>1
<1>3. ASSUME NEW at \in Bad
      PROVE  \E b \in Bad : rank[b] < rank[at]
  <2>1. at \in D /\ ~Good(at)  BY Zenon, <1>3
  <2>2. PICK x, y \in T \cup {Null} : at = <<x, y>>  BY <2>1
  <2>3. at[1] = x /\ at[2] = y  BY <2>2
  <2>4. x \in T
    <3>1. SUFFICES ASSUME x = Null PROVE FALSE  OBVIOUS
    <3>2. f[at] = <<>>  BY <2>2, <3>1 DEF IterLoop
    <3>3. Awaited(T, pos, lo, hi, at[1], at[2], to) = {}  BY <2>3, <3>1 DEF Awaited
    <3>4. Covers(pos, {}, <<>>)  BY DEF Covers
    <3>. QED  BY Zenon, <2>1, <3>2, <3>3, <3>4
  <2>5. PICK m, q : m = NextNode(x, y) /\ q = NextPrev(x, y)  OBVIOUS
  <2>6. m \in T \cup {Null} /\ q \in T \cup {Null}  BY Zenon, <2>4, <2>5, NextPlaces
  <2>7. PICK b : b = <<m, q>>  OBVIOUS
  <2>8. b \in D /\ b[1] = m /\ b[2] = q  BY <2>6, <2>7
  <2>9. ~Good(b)
    <3>1. SUFFICES ASSUME Good(b) PROVE FALSE  BY Zenon
    <3>2. Covers(pos, Awaited(T, pos, lo, hi, m, q, to), f[b])  BY Zenon, <2>8, <3>1
    <3>3. Covers(pos, Awaited(T, pos, lo, hi, x, y, to), Visits(x, y, to, f[b]))
      BY Zenon, <2>4, <2>5, <3>2, VisitsCover
    <3>4. f[<<x, y>>] = Visits(x, y, to, f[<<m, q>>])  BY Zenon, <2>4, <2>5 DEF IterLoop
    <3>. QED  BY Zenon, <2>1, <2>2, <2>3, <2>7, <3>3, <3>4
  <2>10. rank[b] < rank[at]  BY Zenon, <1>2, <2>2, <2>4, <2>5, <2>7
  <2> HIDE DEF Good, D
  <2>. QED  BY <2>8, <2>9, <2>10
<1>4. Bad = {}
  <2>1. Bad \subseteq D  OBVIOUS
  <2> HIDE DEF Bad, D
  <2>2. Sinks(rank, Bad)  BY Zenon, <1>3 DEF Sinks
  <2>. QED  BY Zenon, <1>1, <1>2, <2>1, <2>2, NoLowest
<1>5. PICK at : at = <<n, prev>>  OBVIOUS
<1>6. at \in D /\ at[1] = n /\ at[2] = prev  BY <1>5
<1>7. Good(at)
  <2> HIDE DEF Good, D
  <2>. QED  BY <1>4, <1>6
<1>. QED  BY Zenon, <1>5, <1>6, <1>7

\* The iteration starts where rbtree_search_min says.
LEMMA RangeIsCovered ==
  ASSUME NEW top, NEW pos, NEW lo, NEW hi, Placed(members, top, pos, lo, hi),
         Ranged(members, pos, lo, hi), tree \in Tree, NEW from \in Int, NEW to \in Int,
         NEW above \in members, KeyOf[above] >= from
  PROVE  LET s == R!IterRange(from, to)
         IN  /\ R!Sorted(s)
             /\ R!Range(s) \subseteq {n \in members : KeyOf[n] \in from .. to}
             /\ {n \in members : KeyOf[n] \in from + 1 .. to} \subseteq R!Range(s)
<1>1. /\ Null \notin members
      /\ \A x \in members : /\ pos[x] \in Int /\ KeyOf[x] \in Int
                            /\ tree.left[x] \in members \cup {Null}
  BY DEF Placed
<1>2. PICK c \in members : c = R!SearchMin(from) /\ FirstFrom(members, pos, from, c)
  <2>1. {n \in members : KeyOf[n] >= from} # {}  OBVIOUS
  <2>2. FirstFrom(members, pos, from, R!SearchMin(from))  BY <2>1, NearestAreFound
  <2>. QED  BY <2>2 DEF FirstFrom
<1>3. PICK prev \in members \cup {Null} : prev = tree.left[c]  BY <1>1
<1>4. PICK s : s = R!IterRange(from, to)  OBVIOUS
<1>5. s = R!IterFrom(c, prev, to)  BY Zenon, <1>2, <1>3, <1>4 DEF R!IterRange
<1>6. PICK f : IterLoop(f, members, to) /\ s = f[<<c, prev>>]
  BY Zenon, <1>5, IterLoopIs
<1>7. Covers(pos, Awaited(members, pos, lo, hi, c, prev, to), s)
  BY Zenon, <1>6, IterationCovers
<1>8. PICK W : W = Awaited(members, pos, lo, hi, c, prev, to)  OBVIOUS
<1>9. \A x : x \in W <=> x \in members /\ pos[c] <= pos[x] /\ KeyOf[x] <= to
  BY <1>1, <1>3, <1>8 DEF Awaited, Ahead
<1>10. /\ Len(s) \in Nat /\ \A i \in 1 .. Len(s) : s[i] \in W
       /\ \A i, j \in 1 .. Len(s) : i < j => pos[s[i]] < pos[s[j]]
       /\ \A x \in W : \E i \in 1 .. Len(s) : s[i] = x
       /\ DOMAIN s = 1 .. Len(s)
  BY <1>7, <1>8 DEF Covers
<1>11. R!Range(s) = W  BY <1>10 DEF R!Range
<1>12. ASSUME NEW x \in W
       PROVE  x \in members /\ KeyOf[x] \in from .. to
  <2>1. x = c \/ pos[c] < pos[x]  BY <1>1, <1>9 DEF Ranged
  <2>2. KeyOf[c] <= KeyOf[x] /\ from <= KeyOf[c]
    BY <1>1, <1>2, <1>9, <2>1 DEF Ranged, FirstFrom
  <2>. QED  BY <1>1, <1>9, <2>2
<1>13. ASSUME NEW x \in members, KeyOf[x] \in from + 1 .. to
       PROVE  x \in W
  <2>1. ASSUME pos[x] < pos[c]
        PROVE  FALSE
    <3>1. KeyOf[x] <= KeyOf[c] /\ KeyOf[x] > from  BY <1>1, <1>13, <2>1 DEF Ranged
    <3>. QED  BY <1>1, <1>2, <2>1, <3>1 DEF FirstFrom
  <2>. QED  BY <1>1, <1>9, <1>13, <2>1
<1>14. R!Sorted(s)
  <2> SUFFICES ASSUME NEW i \in 1 .. Len(s), NEW j \in 1 .. Len(s), i < j
               PROVE  s[i] # s[j] /\ KeyOf[s[i]] <= KeyOf[s[j]]
    BY DEF R!Sorted
  <2>1. s[i] \in members /\ s[j] \in members /\ pos[s[i]] < pos[s[j]]  BY <1>9, <1>10
  <2>2. s[i] # s[j]  BY <1>1, <2>1
  <2>. QED  BY <2>1, <2>2 DEF Ranged
<1>. QED  BY <1>4, <1>11, <1>12, <1>13, <1>14

\* Between calls the invariant makes the searches right.
LEMMA InvSearchesAreRight ==
  ASSUME TreeInv
  PROVE  R!SearchesAreRight
<1>1. SUFFICES ASSUME pc = "idle"
               PROVE  R!SearchesAreRight
  BY DEF R!SearchesAreRight, R!SearchesFindNearest, R!IterationCoversRange
<1>2. PICK top, pos : Shaped(tree, members, top, pos) /\ InKeyOrder(members, pos)
  BY <1>1, HasShape
<1>3. PICK lo, hi : Placed(members, top, pos, lo, hi) /\ Ranged(members, pos, lo, hi)
  BY Zenon, <1>2, PlacesExist
<1>4. tree \in Tree /\ members \subseteq Node  BY TypesAre DEF TreeInv, TreeTypes
<1>5. \A k \in R!Limits : k \in Int  BY KeysAreRight DEF R!Limits
<1>6. ASSUME NEW k \in R!Limits
      PROVE  LET below == {n \in members : KeyOf[n] <= k}
                 above == {n \in members : KeyOf[n] >= k}
                 found == R!SearchMax(k)
             IN  /\ IF below = {} THEN found = Null
                    ELSE found \in below /\ \A n \in below : KeyOf[n] <= KeyOf[found]
                 /\ above # {} =>
                      /\ R!SearchMin(k) \in above
                      /\ \A n \in above : KeyOf[R!SearchMin(k)] <= KeyOf[n]
                 /\ IF below \cap above = {} THEN R!Search(k) = Null
                    ELSE R!Search(k) \in below \cap above
  <2> DEFINE below == {n \in members : KeyOf[n] <= k}
             above == {n \in members : KeyOf[n] >= k}
  <2>1. k \in Int /\ \A x \in members : KeyOf[x] \in Int /\ pos[x] \in Int
    BY <1>3, <1>5 DEF Placed
  <2>2. /\ IF below = {} THEN R!SearchMax(k) = Null
           ELSE R!SearchMax(k) \in below /\ \A n \in below : KeyOf[n] <= KeyOf[R!SearchMax(k)]
        /\ above # {} => FirstFrom(members, pos, k, R!SearchMin(k))
        /\ IF below \cap above = {} THEN R!Search(k) = Null ELSE R!Search(k) \in below \cap above
    BY <1>3, <1>4, <2>1, NearestAreFound
  <2>3. ASSUME NEW r, FirstFrom(members, pos, k, r)
        PROVE  r \in above /\ \A n \in above : KeyOf[r] <= KeyOf[n]
    <3>1. r \in above  BY <2>3 DEF FirstFrom
    <3>2. ASSUME NEW n \in above
          PROVE  KeyOf[r] <= KeyOf[n]
      <4>1. CASE KeyOf[r] = k  BY <2>1, <4>1
      <4>2. CASE KeyOf[r] # k
        <5>1. ~(pos[n] < pos[r])  BY <2>1, <2>3, <4>2 DEF FirstFrom
        <5>2. n = r \/ pos[r] < pos[n]  BY <1>3, <2>1, <3>1, <5>1 DEF Ranged
        <5>. QED  BY <1>3, <2>1, <3>1, <5>2 DEF Ranged
      <4>. QED  BY <4>1, <4>2
    <3>. QED  BY <3>1, <3>2
  <2>4. above # {} =>
          /\ R!SearchMin(k) \in above
          /\ \A n \in above : KeyOf[R!SearchMin(k)] <= KeyOf[n]
    BY Zenon, <2>2, <2>3
  <2>. QED  BY Zenon, <2>2, <2>4
<1>7. R!SearchesFindNearest  BY Zenon, <1>6 DEF R!SearchesFindNearest
<1>8. ASSUME NEW from \in R!Limits, NEW to \in R!Limits, NEW a \in members, KeyOf[a] >= from
      PROVE  LET s == R!IterRange(from, to)
             IN  /\ R!Sorted(s)
                 /\ R!Range(s) \subseteq {n \in members : KeyOf[n] \in from .. to}
                 /\ {n \in members : KeyOf[n] \in from + 1 .. to} \subseteq R!Range(s)
  BY Zenon, <1>3, <1>4, <1>5, <1>8, RangeIsCovered
<1>9. R!IterationCoversRange  BY Zenon, <1>8 DEF R!IterationCoversRange
<1>. QED  BY Zenon, <1>7, <1>9 DEF R!SearchesAreRight

-----------------------------------------------------------------------------
(* The red-black tree: theorems *)

LEMMA TreeStep ==
  ASSUME TreeInv, [Next]_vars
  PROVE  TreeInv'
<1>1. [R!Next]_R!vars
  BY DEF Next, vars, treeVars, R!vars, UsePages, UseStore, UseBuffer, UseLinear, UsePool,
    UseMalloc, UseInterrupts, UseTree
<1>. QED  BY <1>1, TreeNext

\* Between calls the tree holds the nodes that were inserted and not deleted, in the order of
\* their keys, and parents and children agree at all times (rbtree_insert, rbtree_delete).
THEOREM TreeHoldsItsMembers == Spec => []HoldsMembers
<1>1. Init => TreeInv  BY TreeInit DEF Init
<1>2. TreeInv /\ [Next]_vars => TreeInv'  BY TreeStep
<1>3. TreeInv => HoldsMembers  BY InvHoldsMembers DEF HoldsMembers
<1>. QED  BY <1>1, <1>2, <1>3, PTL DEF Spec

\* The assertions of the loops hold, and between calls the tree is a red-black tree
\* (rbt_insert_fix, rbt_delete_fix).
THEOREM TreeIsBalanced == Spec => []Balanced
<1>1. Init => TreeInv  BY TreeInit DEF Init
<1>2. TreeInv /\ [Next]_vars => TreeInv'  BY TreeStep
<1>3. TreeInv => Balanced  BY InvBalanced DEF Balanced
<1>. QED  BY <1>1, <1>2, <1>3, PTL DEF Spec

\* Between calls the searches find the nearest node within their limit, and an iteration
\* visits the nodes of its range (rbtree_search, rbtree_search_min, rbtree_search_max,
\* rbtree_iter_range).
THEOREM SearchesAreFound == Spec => []SearchesAreRight
<1>1. Init => TreeInv  BY TreeInit DEF Init
<1>2. TreeInv /\ [Next]_vars => TreeInv'  BY TreeStep
<1>3. TreeInv => SearchesAreRight  BY InvSearchesAreRight DEF SearchesAreRight
<1>. QED  BY <1>1, <1>2, <1>3, PTL DEF Spec

=============================================================================
