------------------------------ MODULE KHeapProofs ------------------------------
(***************************************************************************)
(* The heap is safe for every chunk, zone, page table size and caller: its *)
(* pages are accounted for, nobody shares one, and no frame is lost.       *)
(***************************************************************************)
EXTENDS KHeap, FiniteSetTheorems, WellFoundedInduction, TLAPS

\* The page whose first access is under way.
Current(p) ==
  \/ fresh = p
  \/ /\ ~Ready /\ p \in 0 .. Meta - 1 /\ map[p] = None
     /\ \A r \in 0 .. p - 1 : map[r] # None

\* A caller holds a page that callers may have, and nobody else holds it.
HeldPages ==
  /\ \A c \in Caller : page[c] # None => page[c] \notin 0 .. Meta - 1 \cup Invalid
  /\ \A c, d \in Caller : page[c] = page[d] /\ page[c] # None => c = d

\* The stage belongs to an access that is under way; every other page in use is mapped.
AccessInProgress ==
  /\ fresh # None => Ready /\ \E c \in Caller : page[c] = fresh
  /\ fresh = None /\ Ready => stage = "frame"
  /\ fresh # None /\ map[fresh] # None => stage = "frame"
  /\ \A c \in Caller : page[c] # None /\ page[c] # fresh => map[page[c]] # None
  /\ stage = "map" => \A p \in Page : Current(p) => held[<<"page", p>>] # None

\* A frame of a page is in its entry, or it is about to be put there.
FramesInEntries ==
  memFault = "none" =>
    \A p \in Page : held[<<"page", p>>] # None =>
      p \in reg /\ (map[p] = held[<<"page", p>>] \/ (stage = "map" /\ Current(p)))

FramesOfTables == \A t \in Table : held[<<"table", t>>] \in {tables[t], None}

Inv ==
  /\ SpaceAccounted
  /\ HeldPages
  /\ AccessInProgress
  /\ FramesInEntries
  /\ FramesOfTables

-----------------------------------------------------------------------------
(* Numbers *)

LEMMA LeastExists ==
  ASSUME NEW T, T \subseteq Nat, T # {}
  PROVE  \E x \in T : \A y \in T : x <= y
<1>1. PICK x \in T : \A y \in T : <<y, x>> \notin OpToRel(<, Nat)
  BY WFMin, NatLessThanWellFounded
<1>2. \A y \in T : ~(y < x)
  BY <1>1 DEF OpToRel
<1>. QED
  BY <1>2

LEMMA PageNumbers ==
  /\ Page \subseteq Nat
  /\ 0 .. Meta - 1 \subseteq Page
  /\ Invalid \subseteq Page
  /\ IsFiniteSet(Page) /\ Cardinality(Page) = ChunkPages
<1>1. ChunkPages - 1 \in Int /\ ChunkPages > 0
  BY SizeAssumption
<1>2. IsFiniteSet(0 .. ChunkPages - 1) /\ Cardinality(0 .. ChunkPages - 1) = ChunkPages
  BY <1>1, FS_Interval, SizeAssumption
<1>. QED
  BY <1>2, SizeAssumption DEF Page

\* A set of pages and its size.
LEMMA PageCount ==
  ASSUME NEW S \in SUBSET Page
  PROVE  /\ IsFiniteSet(S)
         /\ Cardinality(S) \in 0 .. ChunkPages
         /\ \A p \in S : Cardinality(S \ {p}) = Cardinality(S) - 1
         /\ \A p \in Page \ S : Cardinality(S \cup {p}) = Cardinality(S) + 1
<1>1. IsFiniteSet(S) /\ Cardinality(S) <= ChunkPages
  BY PageNumbers, FS_Subset
<1>2. Cardinality(S) \in Nat
  BY <1>1, FS_CardinalityType
<1>3. \A p \in S : Cardinality(S \ {p}) = Cardinality(S) - 1
  BY <1>1, FS_RemoveElement
<1>4. \A p \in Page \ S : Cardinality(S \cup {p}) = Cardinality(S) + 1
  BY <1>1, FS_AddElement
<1>. QED
  BY <1>1, <1>2, <1>3, <1>4, SizeAssumption

LEMMA Users ==
  /\ \A p \in Page : <<"page", p>> \in FrameUser /\ TableOf(p) \in Table
  /\ \A t \in Table : <<"table", t>> \in FrameUser
  /\ \A p, t : <<"page", p>> # <<"table", t>>
BY DEF FrameUser, Table, TableOf

-----------------------------------------------------------------------------
(* The zone *)

LEMMA ZoneLayout ==
  /\ Mem!Index("zone") = 0 .. ZonePages - 1
  /\ Mem!Entry("zone") = 0 .. ZonePages - 2
  /\ Mem!PagesCount("zone") = ZonePages - 1 - ZoneInfo
  /\ Mem!Frame = {"zone"} \X (0 .. ZonePages - 1)
BY ZoneAssumption DEF Mem!Index, Mem!Entry, Mem!PagesCount, Mem!Frame

LEMMA MemAlloc ==
  ASSUME Mem!TypeOK, NEW u \in FrameUser, NEW st \in {"occupied", "fixed"}, Mem!AllocPage(u, st)
  PROVE  /\ Mem!TypeOK'
         /\ held[u] = None /\ held'[u] \in Mem!Address
         /\ \A v \in FrameUser : v # u => held'[v] = held[v]
         /\ memFault' = memFault
<1>1. PICK p \in 0 .. ZonePages - 1, a \in Mem!Address :
        /\ busyFrames' = [busyFrames EXCEPT !["zone"] = @ \cup {p}]
        /\ held' = [held EXCEPT ![u] = a]
        /\ \/ p \in 0 .. ZonePages - 2 /\ state' = [state EXCEPT !["zone"][p] = st] /\ ret' = "page"
           \/ ret' = "past the pages array" /\ UNCHANGED state
  <2>1. Mem!Registered \subseteq {"zone"}
    <3>1. zones \in Seq({"zone"})
      BY DEF Mem!TypeOK
    <3>2. \A i \in DOMAIN zones : zones[i] \in {"zone"}
      BY <3>1
    <3>. QED
      BY <3>2 DEF Mem!Registered
  <2>2. PICK z \in Mem!Registered : \E p \in Mem!Index(z) :
          /\ busyFrames' = [busyFrames EXCEPT ![z] = @ \cup {p}]
          /\ \/ /\ p \in Mem!Entry(z)
                /\ held' = [held EXCEPT ![u] = <<z, p>>]
                /\ state' = [state EXCEPT ![z][p] = st]
                /\ ret' = "page"
             \/ /\ p \notin Mem!Entry(z)
                /\ \E a \in Mem!Address : held' = [held EXCEPT ![u] = a]
                /\ ret' = "past the pages array"
                /\ UNCHANGED state
    BY DEF Mem!AllocPage
  <2>3. z = "zone"
    BY <2>1, <2>2
  <2>4. PICK p \in 0 .. ZonePages - 1 :
          /\ busyFrames' = [busyFrames EXCEPT !["zone"] = @ \cup {p}]
          /\ \/ /\ p \in 0 .. ZonePages - 2
                /\ held' = [held EXCEPT ![u] = <<"zone", p>>]
                /\ state' = [state EXCEPT !["zone"][p] = st]
                /\ ret' = "page"
             \/ /\ \E a \in Mem!Address : held' = [held EXCEPT ![u] = a]
                /\ ret' = "past the pages array"
                /\ UNCHANGED state
    BY <2>2, <2>3, ZoneLayout
  <2>5. <<"zone", p>> \in Mem!Address
    BY ZoneLayout DEF Mem!Address
  <2>. QED
    BY <2>4, <2>5
<1>3. held[u] = None /\ memFault' = memFault /\ zones' = zones
  BY DEF Mem!AllocPage
<1>4. held \in [FrameUser -> Mem!Address \cup {None}]
  BY DEF Mem!TypeOK
<1>5. held' \in [FrameUser -> Mem!Address \cup {None}]
  BY <1>1, <1>4
<1>6. /\ busyFrames' \in [{"zone"} -> SUBSET Nat]
      /\ \A z \in {"zone"} : busyFrames'[z] \subseteq Mem!Index(z)
  <2>1. busyFrames'["zone"] = busyFrames["zone"] \cup {p}
    BY <1>1 DEF Mem!TypeOK
  <2>2. busyFrames["zone"] \subseteq 0 .. ZonePages - 1
    BY ZoneLayout DEF Mem!TypeOK
  <2>3. DOMAIN busyFrames' = {"zone"} /\ busyFrames' = [z \in {"zone"} |-> busyFrames'[z]]
    BY <1>1 DEF Mem!TypeOK
  <2>4. busyFrames'["zone"] \subseteq 0 .. ZonePages - 1 /\ p \in Nat
    BY <2>1, <2>2, ZoneAssumption
  <2>. QED
    BY <2>3, <2>4, ZoneLayout, ZoneAssumption
<1>7. /\ DOMAIN state' = {"zone"}
      /\ \A z \in {"zone"} : state'[z] \in [Mem!Entry(z) -> {"free", "occupied", "fixed"}]
  BY ZenonT(60), <1>1, ZoneLayout DEF Mem!TypeOK
<1>8. ret' \in {"page", "past the pages array", "NULL"} /\ zones' \in Seq({"zone"})
  BY <1>1, <1>3 DEF Mem!TypeOK
<1>9. Mem!TypeOK'
  BY <1>5, <1>6, <1>7, <1>8 DEF Mem!TypeOK, Mem!Index, Mem!Entry, Mem!Frame, Mem!Address
<1>. QED
  BY <1>1, <1>3, <1>4, <1>9

LEMMA MemFree ==
  ASSUME Mem!TypeOK, NEW f \in Mem!Address, Mem!FreePage(f), Forget(f)
  PROVE  /\ Mem!TypeOK'
         /\ memFault' = "none" =>
              \A v \in FrameUser : held'[v] = IF held[v] = f THEN None ELSE held[v]
         /\ memFault' # "none" => held' = held
<1>1. held \in [FrameUser -> Mem!Address \cup {None}]
  BY DEF Mem!TypeOK
<1>2. /\ zones' = zones /\ ret' = ret
      /\ held' \in [FrameUser -> Mem!Address \cup {None}]
  BY <1>1 DEF Mem!FreePage, Forget
<1>3. CASE memFault' = "none"
  <2>1. /\ f \in Mem!Frame
        /\ busyFrames' = [busyFrames EXCEPT ![f[1]] = @ \ {f[2]}]
        /\ state' = [state EXCEPT ![f[1]][f[2]] = "free"]
    BY <1>3 DEF Mem!FreePage, Mem!Address
  <2>2. PICK p \in 0 .. ZonePages - 1 : f = <<"zone", p>>
    BY <2>1, ZoneLayout
  <2>3. /\ busyFrames' = [busyFrames EXCEPT !["zone"] = @ \ {p}]
        /\ state' = [state EXCEPT !["zone"][p] = "free"]
    BY <2>1, <2>2
  <2>4. /\ busyFrames' \in [{"zone"} -> SUBSET Nat]
        /\ \A z \in {"zone"} : busyFrames'[z] \subseteq Mem!Index(z)
    BY <2>3, ZoneLayout, ZoneAssumption DEF Mem!TypeOK
  <2>5. /\ DOMAIN state' = {"zone"}
        /\ \A z \in {"zone"} : state'[z] \in [Mem!Entry(z) -> {"free", "occupied", "fixed"}]
    BY <2>3, ZoneLayout DEF Mem!TypeOK
  <2>6. Mem!TypeOK'
    BY <1>2, <2>4, <2>5 DEF Mem!TypeOK, Mem!Index, Mem!Entry, Mem!Frame, Mem!Address
  <2>. QED
    BY <1>3, <2>6 DEF Forget
<1>4. CASE memFault' # "none"
  <2>1. UNCHANGED <<busyFrames, state>> /\ held' = held
    BY <1>1, <1>4 DEF Mem!FreePage, Forget
  <2>. QED
    BY <1>2, <1>4, <2>1 DEF Mem!TypeOK, Mem!Index, Mem!Entry, Mem!Frame, Mem!Address
<1>. QED
  BY <1>3, <1>4

LEMMA MemAllocNone ==
  ASSUME Mem!TypeOK, Mem!AllocNone
  PROVE  Mem!TypeOK' /\ held' = held /\ memFault' = memFault
BY DEF Mem!AllocNone, Mem!TypeOK, Mem!Index, Mem!Entry, Mem!Frame, Mem!Address

LEMMA MemUnchanged ==
  ASSUME Mem!TypeOK, UNCHANGED memVars
  PROVE  Mem!TypeOK' /\ held' = held /\ memFault' = memFault
BY DEF memVars, Mem!TypeOK, Mem!Index, Mem!Entry, Mem!Frame, Mem!Address

-----------------------------------------------------------------------------
(* The page that is accessed *)

LEMMA BootPage ==
  ASSUME ~Ready
  PROVE  LET q == CHOOSE q \in Page : map[q] = None /\ \A r \in 0 .. q - 1 : map[r] # None
         IN  Current(q)
<1>. DEFINE T == {r \in 0 .. Meta - 1 : map[r] = None}
            First(q) == map[q] = None /\ \A r \in 0 .. q - 1 : map[r] # None
<1>1. T # {} /\ T \subseteq Nat
  BY SizeAssumption DEF Ready
<1>2. PICK x \in T : \A y \in T : x <= y
  BY <1>1, LeastExists
<1>3. x \in Page /\ First(x) /\ x \in 0 .. Meta - 1
  BY <1>2, PageNumbers, SizeAssumption
<1>4. \A q \in Page : First(q) => q = x
  <2>. SUFFICES ASSUME NEW q \in Page, First(q) PROVE q = x
    OBVIOUS
  <2>1. ~(q < x)
    BY <1>3, PageNumbers, SizeAssumption
  <2>2. ~(x < q)
    BY <1>3, PageNumbers, SizeAssumption
  <2>. QED
    BY <2>1, <2>2, <1>3, PageNumbers
<1>5. (CHOOSE q \in Page : First(q)) = x
  BY <1>3, <1>4
<1>. QED
  BY <1>3, <1>5 DEF Current

LEMMA AccessedIsCurrent ==
  ASSUME NEW p \in Page, Accessed(p)
  PROVE  Running /\ Current(p)
BY BootPage DEF Accessed, Current

LEMMA CurrentUnique ==
  ASSUME Inv, NEW p \in Page, NEW q \in Page, Current(p), Current(q), fresh \in Page \cup {None}
  PROVE  p = q
<1>1. CASE fresh = None
  BY <1>1, NoneAssumption, PageNumbers DEF Current
<1>2. CASE fresh # None
  BY <1>2 DEF Current, Inv, AccessInProgress
<1>. QED
  BY <1>1, <1>2

LEMMA CurrentInUse ==
  ASSUME Inv, NEW p \in Page, Current(p)
  PROVE  p \in reg
BY NoneAssumption DEF Current, Inv, AccessInProgress, SpaceAccounted


-----------------------------------------------------------------------------
LEMMA InvInit == Init => Inv
<1>. SUFFICES ASSUME Init PROVE Inv
  OBVIOUS
<1>1. Mem!TypeOK
  <2>1. zones \in Seq({"zone"})
    BY DEF Init
  <2>2. /\ busyFrames \in [{"zone"} -> SUBSET Nat]
        /\ \A z \in {"zone"} : busyFrames[z] \subseteq Mem!Index(z)
    BY ZoneAssumption, ZoneLayout DEF Init
  <2>3. /\ DOMAIN state = {"zone"}
        /\ \A z \in {"zone"} : state[z] \in [Mem!Entry(z) -> {"free", "occupied", "fixed"}]
    BY ZoneLayout DEF Init
  <2>. QED
    BY <2>1, <2>2, <2>3 DEF Init, Mem!TypeOK
<1>2. TypeOK
  BY <1>1, PageNumbers, SizeAssumption DEF Init, TypeOK
<1>3. Cardinality(0 .. Meta - 1 \cup Invalid) = Meta + Cardinality(Invalid)
  <2>1. IsFiniteSet(0 .. Meta - 1) /\ Cardinality(0 .. Meta - 1) = Meta
    BY SizeAssumption, FS_Interval
  <2>2. IsFiniteSet(Invalid) /\ Cardinality(Invalid) \in Nat
    BY PageNumbers, PageCount
  <2>3. (0 .. Meta - 1) \cap Invalid = {}
    BY SizeAssumption
  <2>4. Cardinality({}) = 0
    BY FS_EmptySet
  <2>. DEFINE Fixed == 0 .. Meta - 1
  <2>. HIDE DEF Fixed
  <2>5. Cardinality(Fixed \cup Invalid)
          = Cardinality(Fixed) + Cardinality(Invalid) - Cardinality(Fixed \cap Invalid)
    BY <2>1, <2>2, FS_Union DEF Fixed
  <2>. QED
    <3>1. Cardinality(Fixed) = Meta /\ Fixed \cap Invalid = {}
      BY <2>1, <2>3 DEF Fixed
    <3>2. Cardinality(Fixed \cap Invalid) = 0
      BY <2>4, <3>1, Zenon
    <3>3. Cardinality(Fixed \cup Invalid) = Meta + Cardinality(Invalid)
      BY <2>2, <2>5, <3>1, <3>2, SizeAssumption
    <3>. QED
      BY <3>3 DEF Fixed
<1>4. SpaceAccounted
  <2>1. Cardinality(Invalid) \in Nat
    BY PageNumbers, PageCount
  <2>. QED
    BY <1>2, <1>3, <2>1, SizeAssumption DEF Init, SpaceAccounted
<1>5. ~Ready
  BY PageNumbers, SizeAssumption DEF Init, Ready
<1>. QED
  BY <1>4, <1>5, Users DEF Init, Inv, HeldPages, AccessInProgress, FramesInEntries, FramesOfTables

-----------------------------------------------------------------------------
(* A step of the first access *)

\* A step that leaves the pages in use alone keeps the account of them.
LEMMA SpaceFrame ==
  ASSUME SpaceAccounted, HeldPages, UNCHANGED <<reg, freeSpace, page>>, TypeOK'
  PROVE  SpaceAccounted' /\ HeldPages'
BY DEF SpaceAccounted, HeldPages

LEMMA AccessKeepsInv ==
  ASSUME Inv, Access
  PROVE  Inv'
<1>. USE DEF Access
<1>1. TypeOK'
  BY MemUnchanged DEF Inv, SpaceAccounted, TypeOK, Mem!Address, Mem!Frame, Mem!Index
<1>2. held' = held /\ memFault' = memFault /\ Ready' = Ready
  BY DEF memVars, Ready
<1>3. stage = "frame" /\ stage' = "frame"
  BY DEF Inv, AccessInProgress
<1>4. AccessInProgress'
  BY <1>3 DEF Inv, AccessInProgress
<1>5. FramesInEntries'
  BY <1>2, <1>3 DEF Inv, FramesInEntries
<1>6. FramesOfTables'
  BY <1>2 DEF Inv, FramesOfTables
<1>. QED
  BY <1>1, <1>4, <1>5, <1>6, SpaceFrame DEF Inv

LEMMA TrimmedKeepsInv ==
  ASSUME Inv, Trimmed
  PROVE  Inv'
<1>. USE DEF Trimmed
<1>1. TypeOK'
  BY MemUnchanged DEF Inv, SpaceAccounted, TypeOK, Mem!Address, Mem!Frame, Mem!Index
<1>2. held' = held /\ memFault' = memFault /\ Ready' = Ready
  BY DEF memVars, Ready
<1>3. AccessInProgress'
  BY <1>2 DEF Inv, AccessInProgress
<1>4. FramesInEntries'
  BY <1>2 DEF Inv, FramesInEntries
<1>5. FramesOfTables'
  BY <1>2 DEF Inv, FramesOfTables
<1>. QED
  BY <1>1, <1>3, <1>4, <1>5, SpaceFrame DEF Inv

LEMMA NoFrameKeepsInv ==
  ASSUME Inv, NoFrame
  PROVE  Inv'
<1>. USE DEF NoFrame
<1>0. held' = held /\ memFault' = memFault /\ Mem!TypeOK'
  BY MemAllocNone DEF Inv, SpaceAccounted, TypeOK
<1>1. TypeOK'
  BY <1>0 DEF Inv, SpaceAccounted, TypeOK, Mem!Address, Mem!Frame, Mem!Index
<1>2. Ready' = Ready
  BY DEF Ready
<1>3. stage' # "map" /\ stage # "map"
  OBVIOUS
<1>4. AccessInProgress'
  BY <1>2, <1>3 DEF Inv, AccessInProgress
<1>5. FramesInEntries'
  BY <1>0, <1>3 DEF Inv, FramesInEntries
<1>6. FramesOfTables'
  BY <1>0 DEF Inv, FramesOfTables
<1>. QED
  BY <1>1, <1>4, <1>5, <1>6, SpaceFrame DEF Inv

LEMMA GetFrameKeepsInv ==
  ASSUME Inv, NEW p \in Page, GetFrame(p)
  PROVE  Inv'
<1>1. /\ Current(p) /\ Running /\ map[p] = None /\ stage' = "map"
      /\ stage \in {"frame", "retry"}
      /\ UNCHANGED <<reg, freeSpace, tables, map, page, fresh, heapFault>>
  BY AccessedIsCurrent DEF GetFrame
<1>2. /\ Mem!TypeOK' /\ held'[<<"page", p>>] \in Mem!Address
      /\ \A v \in FrameUser : v # <<"page", p>> => held'[v] = held[v]
      /\ memFault' = memFault
  BY MemAlloc, Users DEF GetFrame, Inv, SpaceAccounted, TypeOK
<1>3. TypeOK'
  BY <1>1, <1>2 DEF Inv, SpaceAccounted, TypeOK, Mem!Address, Mem!Frame, Mem!Index
<1>4. Ready' = Ready /\ \A q : Current(q)' <=> Current(q)
  BY <1>1 DEF Ready, Current
<1>5. fresh \in Page \cup {None}
  BY DEF Inv, SpaceAccounted, TypeOK
<1>6. \A q \in Page : Current(q) => q = p
  BY <1>1, <1>5, CurrentUnique
<1>7. AccessInProgress'
  <2>1. fresh # None => fresh = p
    BY <1>5, <1>6 DEF Current
  <2>2. ~(fresh = None /\ Ready)
    BY <1>1, PageNumbers, NoneAssumption DEF Current
  <2>3. held'[<<"page", p>>] # None
    BY <1>2, NoneAssumption
  <2>. QED
    BY <1>1, <1>4, <1>6, <2>1, <2>2, <2>3 DEF Inv, AccessInProgress
<1>8. FramesInEntries'
  <2>1. p \in reg
    BY <1>1, CurrentInUse
  <2>. QED
    BY <1>1, <1>2, <1>4, <2>1, Users DEF Inv, FramesInEntries, Running
<1>9. FramesOfTables'
  BY <1>1, <1>2, Users DEF Inv, FramesOfTables
<1>. QED
  BY <1>1, <1>3, <1>7, <1>8, <1>9, SpaceFrame DEF Inv

LEMMA MapTableKeepsInv ==
  ASSUME Inv, NEW p \in Page, MapTable(p)
  PROVE  Inv'
<1>1. /\ Current(p) /\ Running /\ stage = "map" /\ tables[TableOf(p)] = None
      /\ UNCHANGED <<reg, freeSpace, map, page, fresh, stage>>
  BY AccessedIsCurrent DEF MapTable
<1>2. Ready' = Ready /\ \A q : Current(q)' <=> Current(q)
  BY <1>1 DEF Ready, Current
<1>3. /\ Mem!TypeOK' /\ memFault' = memFault
      /\ \A q \in Page : held'[<<"page", q>>] = held[<<"page", q>>]
      /\ tables' \in [Table -> Mem!Address \cup {None}]
      /\ FramesOfTables'
  <2>1. CASE Mem!AllocPage(<<"table", TableOf(p)>>, "occupied")
             /\ tables' = [tables EXCEPT ![TableOf(p)] = held'[<<"table", TableOf(p)>>]]
    <3>1. /\ Mem!TypeOK' /\ held'[<<"table", TableOf(p)>>] \in Mem!Address
          /\ \A v \in FrameUser : v # <<"table", TableOf(p)>> => held'[v] = held[v]
          /\ memFault' = memFault
      BY <2>1, MemAlloc, Users DEF Inv, SpaceAccounted, TypeOK
    <3>2. tables' \in [Table -> Mem!Address \cup {None}]
      BY <2>1, <3>1 DEF Inv, SpaceAccounted, TypeOK
    <3>3. \A q \in Page : held'[<<"page", q>>] = held[<<"page", q>>]
      BY <3>1, Users
    <3>4. \A t \in Table : t # TableOf(p) =>
            held'[<<"table", t>>] = held[<<"table", t>>] /\ tables'[t] = tables[t]
      BY <2>1, <3>1, Users DEF Inv, SpaceAccounted, TypeOK
    <3>5. tables'[TableOf(p)] = held'[<<"table", TableOf(p)>>]
      BY <2>1, Users DEF Inv, SpaceAccounted, TypeOK
    <3>. QED
      BY <3>1, <3>2, <3>3, <3>4, <3>5 DEF Inv, FramesOfTables
  <2>2. CASE Mem!AllocNone /\ UNCHANGED tables
    BY <2>2, MemAllocNone DEF Inv, SpaceAccounted, TypeOK, FramesOfTables
  <2>. QED
    BY <2>1, <2>2 DEF MapTable
<1>4. TypeOK'
  BY <1>1, <1>3 DEF Inv, SpaceAccounted, TypeOK, Mem!Address, Mem!Frame, Mem!Index
<1>5. AccessInProgress'
  BY <1>1, <1>2, <1>3 DEF Inv, AccessInProgress
<1>6. FramesInEntries'
  BY <1>1, <1>2, <1>3 DEF Inv, FramesInEntries, Running
<1>. QED
  BY <1>1, <1>3, <1>4, <1>5, <1>6, SpaceFrame DEF Inv

LEMMA MapPageKeepsInv ==
  ASSUME Inv, NEW p \in Page, MapPage(p)
  PROVE  Inv'
<1>1. /\ Current(p) /\ Running /\ stage = "map" /\ fresh' = None /\ stage' = "frame"
      /\ map' = [map EXCEPT ![p] = held[<<"page", p>>]]
      /\ UNCHANGED <<reg, freeSpace, tables, page>> /\ UNCHANGED memVars
  BY AccessedIsCurrent DEF MapPage
<1>2. held' = held /\ memFault' = memFault /\ Mem!TypeOK'
  BY <1>1, MemUnchanged DEF Inv, SpaceAccounted, TypeOK
<1>3. map \in [Page -> Mem!Address \cup {None}] /\ fresh \in Page \cup {None}
  BY DEF Inv, SpaceAccounted, TypeOK
<1>4. held[<<"page", p>>] \in Mem!Address /\ held[<<"page", p>>] # None
  BY <1>1, Users DEF Inv, SpaceAccounted, TypeOK, Mem!TypeOK, AccessInProgress
<1>5. TypeOK'
  BY <1>1, <1>2, <1>3, <1>4 DEF Inv, SpaceAccounted, TypeOK, Mem!Address, Mem!Frame, Mem!Index
<1>6. \A q \in Page : map'[q] = IF q = p THEN held[<<"page", p>>] ELSE map[q]
  BY <1>1, <1>3
<1>7. \A q \in Page : Current(q) => q = p
  BY <1>1, <1>3, CurrentUnique
<1>8. AccessInProgress'
  <2>1. fresh # None => fresh = p
    BY <1>3, <1>7 DEF Current
  <2>2. \A c \in Caller : page[c] \in Page \cup {None}
    BY DEF Inv, SpaceAccounted, TypeOK
  <2>. QED
    BY <1>1, <1>4, <1>6, <2>1, <2>2 DEF Inv, AccessInProgress
<1>9. FramesInEntries'
  BY <1>1, <1>2, <1>6, <1>7 DEF Inv, FramesInEntries
<1>10. FramesOfTables'
  BY <1>1, <1>2 DEF Inv, FramesOfTables
<1>. QED
  BY <1>1, <1>5, <1>8, <1>9, <1>10, SpaceFrame DEF Inv

-----------------------------------------------------------------------------
(* kheap_alloc_page and kheap_free_page *)

LEMMA AllocPageKeepsInv ==
  ASSUME Inv, NEW c \in Caller, AllocPage(c)
  PROVE  /\ Inv'
         /\ Abs!Next
<1>1. PICK p \in Page \ reg : /\ reg' = reg \cup {p}
                              /\ page' = [page EXCEPT ![c] = p]
                              /\ fresh' = p
  BY DEF AllocPage
<1>2. /\ Running /\ Ready /\ fresh = None /\ page[c] = None /\ freeSpace > 0
      /\ freeSpace' = freeSpace - 1
      /\ UNCHANGED <<tables, map, stage>> /\ UNCHANGED memVars
  BY DEF AllocPage
<1>3. held' = held /\ memFault' = memFault /\ Mem!TypeOK'
  BY <1>2, MemUnchanged DEF Inv, SpaceAccounted, TypeOK
<1>4. /\ page \in [Caller -> Page \cup {None}] /\ freeSpace \in Nat /\ reg \subseteq Page
      /\ map \in [Page -> Mem!Address \cup {None}]
  BY DEF Inv, SpaceAccounted, TypeOK
<1>5. TypeOK'
  BY <1>1, <1>2, <1>3, <1>4 DEF Inv, SpaceAccounted, TypeOK, Mem!Address, Mem!Frame, Mem!Index
<1>6. \A d \in Caller : page'[d] = IF d = c THEN p ELSE page[d]
  BY <1>1, <1>4
<1>7. /\ reg = 0 .. Meta - 1 \cup Invalid \cup ({page[d] : d \in Caller} \ {None})
      /\ freeSpace = ChunkPages - Cardinality(reg) + Cardinality(Invalid)
  BY DEF Inv, SpaceAccounted
<1>8. p # None /\ p \notin 0 .. Meta - 1 \cup Invalid /\ \A d \in Caller : page[d] # p
  BY <1>7, NoneAssumption
<1>9. SpaceAccounted'
  <2>1. {page'[d] : d \in Caller} \ {None} = ({page[d] : d \in Caller} \ {None}) \cup {p}
    BY <1>2, <1>6, <1>8
  <2>2. reg' = 0 .. Meta - 1 \cup Invalid \cup ({page'[d] : d \in Caller} \ {None})
    BY <1>1, <1>7, <2>1
  <2>3. Cardinality(reg') = Cardinality(reg) + 1 /\ Cardinality(reg) \in Nat
    BY <1>1, <1>4, PageCount
  <2>4. Cardinality(Invalid) \in Nat
    BY PageNumbers, PageCount
  <2>5. freeSpace' = ChunkPages - Cardinality(reg') + Cardinality(Invalid)
    BY <1>2, <1>7, <2>3, <2>4, SizeAssumption
  <2>. QED
    BY <1>5, <2>2, <2>5 DEF SpaceAccounted
<1>10. HeldPages'
  BY <1>6, <1>8 DEF Inv, HeldPages
<1>11. stage = "frame" /\ stage' = "frame" /\ Ready'
  BY <1>2 DEF Inv, AccessInProgress, Ready
<1>12. AccessInProgress'
  BY <1>1, <1>2, <1>6, <1>11 DEF Inv, AccessInProgress
<1>13. FramesInEntries'
  BY <1>1, <1>2, <1>3, <1>11 DEF Inv, FramesInEntries
<1>14. FramesOfTables'
  BY <1>2, <1>3 DEF Inv, FramesOfTables
<1>15. Abs!Acquire(c, p) /\ p \in Page \ (0 .. Meta - 1 \cup Invalid)
  BY <1>1, <1>2, <1>8 DEF Abs!Acquire
<1>. QED
  BY <1>9, <1>10, <1>12, <1>13, <1>14, <1>15 DEF Inv, Abs!Next

LEMMA FreePageKeepsInv ==
  ASSUME Inv, NEW c \in Caller, FreePage(c)
  PROVE  /\ Inv'
         /\ Abs!Next
<1>. DEFINE p == page[c]
<1>1. /\ Running /\ Ready /\ (fresh = None \/ stage = "trim")
      /\ p # None /\ p # fresh
      /\ freeSpace' = freeSpace + 1
      /\ reg' = reg \ {p}
      /\ Mem!FreePage(map[p]) /\ Forget(map[p])
      /\ page' = [page EXCEPT ![c] = None]
      /\ UNCHANGED <<tables, map, fresh, stage>>
  BY DEF FreePage
<1>2. /\ page \in [Caller -> Page \cup {None}] /\ freeSpace \in Nat /\ reg \subseteq Page
      /\ map \in [Page -> Mem!Address \cup {None}]
      /\ p \in Page
  BY <1>1 DEF Inv, SpaceAccounted, TypeOK
<1>3. map[p] \in Mem!Address
  BY <1>1, <1>2 DEF Inv, AccessInProgress
<1>4. /\ Mem!TypeOK'
      /\ memFault' = "none" =>
           \A v \in FrameUser : held'[v] = IF held[v] = map[p] THEN None ELSE held[v]
      /\ memFault' # "none" => held' = held
  BY <1>1, <1>3, MemFree DEF Inv, SpaceAccounted, TypeOK
<1>5. TypeOK'
  BY <1>1, <1>2, <1>4 DEF Inv, SpaceAccounted, TypeOK, Mem!Address, Mem!Frame, Mem!Index
<1>6. \A d \in Caller : page'[d] = IF d = c THEN None ELSE page[d]
  BY <1>1, <1>2
<1>7. /\ reg = 0 .. Meta - 1 \cup Invalid \cup ({page[d] : d \in Caller} \ {None})
      /\ freeSpace = ChunkPages - Cardinality(reg) + Cardinality(Invalid)
  BY DEF Inv, SpaceAccounted
<1>8. p \notin 0 .. Meta - 1 \cup Invalid /\ \A d \in Caller : page[d] = p => d = c
  BY <1>1 DEF Inv, HeldPages
<1>9. SpaceAccounted'
  <2>1. {page'[d] : d \in Caller} \ {None} = ({page[d] : d \in Caller} \ {None}) \ {p}
    BY <1>6, <1>8
  <2>2. reg' = 0 .. Meta - 1 \cup Invalid \cup ({page'[d] : d \in Caller} \ {None})
    BY <1>1, <1>7, <1>8, <2>1
  <2>3. p \in reg
    BY <1>1, <1>7
  <2>4. Cardinality(reg') = Cardinality(reg) - 1 /\ Cardinality(reg) \in Nat
    BY <1>1, <1>2, <2>3, PageCount
  <2>5. Cardinality(Invalid) \in Nat
    BY PageNumbers, PageCount
  <2>6. freeSpace' = ChunkPages - Cardinality(reg') + Cardinality(Invalid)
    BY <1>1, <1>7, <2>4, <2>5, SizeAssumption
  <2>. QED
    BY <1>5, <2>2, <2>6 DEF SpaceAccounted
<1>10. HeldPages'
  BY <1>6 DEF Inv, HeldPages
<1>11. Ready' = Ready /\ stage # "map" /\ stage' # "map"
  BY <1>1 DEF Inv, AccessInProgress, Ready
<1>12. AccessInProgress'
  BY <1>1, <1>6, <1>11 DEF Inv, AccessInProgress
<1>13. FramesInEntries'
  <2>. SUFFICES ASSUME memFault' = "none", NEW q \in Page, held'[<<"page", q>>] # None
                PROVE  q \in reg' /\ map'[q] = held'[<<"page", q>>]
    BY DEF FramesInEntries
  <2>1. held[<<"page", q>>] # map[p] /\ held'[<<"page", q>>] = held[<<"page", q>>]
    BY <1>4, Users
  <2>2. q \in reg /\ map[q] = held[<<"page", q>>]
    BY <1>1, <1>11, <2>1 DEF Inv, FramesInEntries, Running
  <2>. QED
    BY <1>1, <2>1, <2>2
<1>14. FramesOfTables'
  BY <1>1, <1>4, Users DEF Inv, FramesOfTables
<1>15. Abs!Release(c)
  BY <1>1 DEF Abs!Release
<1>. QED
  BY <1>9, <1>10, <1>12, <1>13, <1>14, <1>15 DEF Inv, Abs!Next

LEMMA AllocNullKeepsInv ==
  ASSUME Inv, AllocNull
  PROVE  Inv'
<1>. USE DEF AllocNull
<1>1. TypeOK'
  BY MemUnchanged DEF Inv, SpaceAccounted, TypeOK, Mem!Address, Mem!Frame, Mem!Index
<1>2. held' = held /\ memFault' = memFault /\ Ready' = Ready /\ \A q : Current(q)' <=> Current(q)
  BY DEF memVars, Ready, Current
<1>3. AccessInProgress'
  BY <1>2 DEF Inv, AccessInProgress
<1>4. FramesInEntries'
  BY <1>2 DEF Inv, FramesInEntries
<1>5. FramesOfTables'
  BY <1>2 DEF Inv, FramesOfTables
<1>. QED
  BY <1>1, <1>3, <1>4, <1>5, SpaceFrame DEF Inv

LEMMA StutterKeepsInv ==
  ASSUME Inv, UNCHANGED vars
  PROVE  Inv'
<1>. USE DEF vars
<1>1. TypeOK'
  BY MemUnchanged DEF Inv, SpaceAccounted, TypeOK, Mem!Address, Mem!Frame, Mem!Index
<1>2. held' = held /\ memFault' = memFault /\ Ready' = Ready /\ \A q : Current(q)' <=> Current(q)
  BY DEF memVars, Ready, Current
<1>3. AccessInProgress'
  BY <1>2 DEF Inv, AccessInProgress
<1>4. FramesInEntries'
  BY <1>2 DEF Inv, FramesInEntries
<1>5. FramesOfTables'
  BY <1>2 DEF Inv, FramesOfTables
<1>. QED
  BY <1>1, <1>3, <1>4, <1>5, SpaceFrame DEF Inv

-----------------------------------------------------------------------------
LEMMA InvNext ==
  ASSUME Inv, [Next]_vars
  PROVE  /\ Inv'
         /\ [Abs!Next]_page
<1>1. CASE Access
  BY <1>1, AccessKeepsInv DEF Access
<1>2. CASE NoFrame
  BY <1>2, NoFrameKeepsInv DEF NoFrame
<1>3. CASE Trimmed
  BY <1>3, TrimmedKeepsInv DEF Trimmed
<1>4. CASE AllocNull
  BY <1>4, AllocNullKeepsInv DEF AllocNull
<1>5. ASSUME NEW p \in Page, GetFrame(p)
      PROVE  Inv' /\ page' = page
  BY <1>5, GetFrameKeepsInv DEF GetFrame
<1>6. ASSUME NEW p \in Page, MapTable(p)
      PROVE  Inv' /\ page' = page
  BY <1>6, MapTableKeepsInv DEF MapTable
<1>7. ASSUME NEW p \in Page, MapPage(p)
      PROVE  Inv' /\ page' = page
  BY <1>7, MapPageKeepsInv DEF MapPage
<1>8. ASSUME NEW c \in Caller, AllocPage(c)
      PROVE  Inv' /\ Abs!Next
  BY <1>8, AllocPageKeepsInv
<1>9. ASSUME NEW c \in Caller, FreePage(c)
      PROVE  Inv' /\ Abs!Next
  BY <1>9, FreePageKeepsInv
<1>10. CASE UNCHANGED vars
  BY <1>10, StutterKeepsInv DEF vars
<1>. QED
  BY <1>1, <1>2, <1>3, <1>4, <1>5, <1>6, <1>7, <1>8, <1>9, <1>10 DEF Next

LEMMA InvHolds == Spec => []Inv
<1>1. Inv /\ [Next]_vars => Inv'
  BY InvNext
<1>. QED
  BY InvInit, <1>1, PTL DEF Spec

\* kheap.c, kheap_alloc_page and kheap_free_page: the buddy allocator of the chunk has given
\* out just the pages in use and those nobody may have, and free_space counts the others.
THEOREM PagesAccounted == Spec => []SpaceAccounted
<1>1. Inv => SpaceAccounted
  BY DEF Inv
<1>. QED
  BY InvHolds, <1>1, PTL

\* chunk_pgfault_handler and vm_arch_pt_map: the frame that was got for a page is in its
\* entry when the access is over, and that of a page table in the directory.
THEOREM FramesAccounted == Spec => []NoFrameLost
<1>1. Inv => NoFrameLost
  BY DEF Inv, FramesInEntries, FramesOfTables, NoFrameLost
<1>. QED
  BY InvHolds, <1>1, PTL

\* The heap implements Allocator: while a page is in use, kheap_alloc_page yields it to nobody.
THEOREM KHeapImplementsAllocator == Spec => ImplementsAllocator
<1>1. Init => Abs!Init
  BY DEF Init, Abs!Init
<1>2. Inv /\ [Next]_vars => [Abs!Next]_page
  BY InvNext
<1>. QED
  BY <1>1, <1>2, InvHolds, PTL DEF Spec, ImplementsAllocator, Abs!Spec

=============================================================================
