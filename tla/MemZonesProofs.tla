--------------------------- MODULE MemZonesProofs ---------------------------
(***************************************************************************)
(* Physical memory is safe for any zones of any size and any order of      *)
(* their creation, until a zone gives out its last frame: no frame is      *)
(* handed out twice or lost, and of the checks in mm_free_page only the    *)
(* one on the page's index can fail.  The types, and the agreement of the  *)
(* pages array with the buddy allocator, outlast that call.                *)
(***************************************************************************)
EXTENDS MemZones, TLAPS

\* Apart from the tables, exactly the frames that somebody holds are busy.
FramesAccounted ==
  \A z \in Registered : \A p \in Index(z) :
    p \in busy[z] <=> p < Info[z] \/ \E h \in Holder : held[h] = <<z, p>>

\* Whoever holds an address holds that of a frame of a zone that exists, behind its tables.
HeldFramesExist ==
  \A h \in Holder : held[h] # None =>
    held[h] \in Frame /\ held[h][1] \in Registered /\ held[h][2] >= Info[held[h][1]]

HeldOnce == \A g, h \in Holder : g # h /\ held[g] # None => held[g] # held[h]

\* mm_free_page asserts four things of a page.  That it is in a zone and in use, for the
\* buddy allocator and in the page's own state, is never what fails.
OnlyIndexCheckFails == fault \in {"none", "kassert p < pages_count"}

Safe == FramesAccounted /\ HeldFramesExist /\ HeldOnce /\ OnlyIndexCheckFails

Inv ==
  /\ TypeOK
  /\ StateMatchesBuddy
  /\ WithinArrays => Safe

-----------------------------------------------------------------------------
\* Frames are pairs of a zone and an index.
LEMMA FramePairs ==
  \A f : f \in Frame <=> \E z \in Zone : \E p \in Index(z) : f = <<z, p>>
BY DEF Frame

LEMMA FrameNotNone ==
  ASSUME NEW z \in Zone, NEW p \in Index(z)
  PROVE  <<z, p>> \in Frame /\ <<z, p>> # None
<1>1. <<z, p>> \in Frame
  BY FramePairs
<1>. QED
  BY <1>1, NoneAssumption DEF Address

\* The tables of a zone fit in front of the last frame, and every index is a number.
LEMMA ZoneLayout ==
  ASSUME NEW z \in Zone
  PROVE  /\ Pages[z] \in Nat /\ Info[z] \in Nat
         /\ 0 < Info[z] /\ Info[z] <= Pages[z] - 2
         /\ Index(z) = 0 .. Pages[z] - 1
         /\ Entry(z) = 0 .. Pages[z] - 2
BY PagesAssumption, InfoAssumption DEF Index, Entry

\* mm_zone_register adds a zone and loses none.
LEMMA RegisteredGrows ==
  ASSUME NEW z \in Zone, zones \in Seq(Zone), zones' = <<z>> \o zones
  PROVE  /\ zones' \in Seq(Zone)
         /\ Registered' = Registered \cup {z}
<1>1. /\ zones' \in Seq(Zone)
      /\ Len(zones') = 1 + Len(zones)
      /\ zones'[1] = z
      /\ \A i \in 1 .. Len(zones) : zones'[i + 1] = zones[i]
  OBVIOUS
<1>2. DOMAIN zones = 1 .. Len(zones) /\ DOMAIN zones' = 1 .. Len(zones) + 1
  BY <1>1
<1>3. Len(zones) \in Nat
  OBVIOUS
<1>4. ASSUME NEW y, y \in Registered'
      PROVE  y \in Registered \cup {z}
  <2>1. PICK i \in 1 .. Len(zones) + 1 : y = zones'[i]
    BY <1>2, <1>4 DEF Registered
  <2>2. CASE i = 1
    BY <1>1, <2>1, <2>2
  <2>3. CASE i # 1
    <3>1. i - 1 \in 1 .. Len(zones) /\ (i - 1) + 1 = i
      BY <2>3, <1>3
    <3>2. y = zones[i - 1]
      BY <1>1, <2>1, <3>1
    <3>. QED
      BY <3>1, <3>2, <1>2 DEF Registered
  <2>. QED
    BY <2>2, <2>3
<1>5. ASSUME NEW y, y \in Registered \cup {z}
      PROVE  y \in Registered'
  <2>1. CASE y = z
    <3>1. 1 \in 1 .. Len(zones) + 1
      BY <1>3
    <3>. QED
      BY <2>1, <3>1, <1>1, <1>2 DEF Registered
  <2>2. CASE y \in Registered
    <3>1. PICK i \in 1 .. Len(zones) : y = zones[i]
      BY <1>2, <2>2 DEF Registered
    <3>2. i + 1 \in 1 .. Len(zones) + 1 /\ y = zones'[i + 1]
      BY <1>1, <1>3, <3>1
    <3>. QED
      BY <3>2, <1>2 DEF Registered
  <2>. QED
    BY <1>5, <2>1, <2>2
<1>. QED
  BY <1>1, <1>4, <1>5

LEMMA RegisteredZones ==
  ASSUME zones \in Seq(Zone)
  PROVE  Registered \subseteq Zone
BY DEF Registered

-----------------------------------------------------------------------------
LEMMA InvInit == Init => Inv
<1>. SUFFICES ASSUME Init PROVE Inv
  OBVIOUS
<1>1. Registered = {}
  BY DEF Init, Registered
<1>2. TypeOK
  BY DEF Init, TypeOK
<1>. QED
  BY <1>1, <1>2 DEF Init, Inv, Safe, StateMatchesBuddy, FramesAccounted, HeldFramesExist, HeldOnce,
                    OnlyIndexCheckFails

\* mm_zone_create: nobody holds a frame of a zone that does not exist.
LEMMA ZoneCreateKeepsInv ==
  ASSUME Inv, NEW z \in Zone, ZoneCreate(z)
  PROVE  Inv'
<1>1. zones' \in Seq(Zone) /\ Registered' = Registered \cup {z} /\ z \notin Registered
  BY RegisteredGrows DEF Inv, TypeOK, ZoneCreate
<1>2. Registered \subseteq Zone
  BY RegisteredZones DEF Inv, TypeOK
<1>3. /\ \A y \in Zone \ {z} : busy'[y] = busy[y] /\ state'[y] = state[y]
      /\ busy'[z] = 0 .. Info[z] - 1
      /\ state'[z] = [p \in Entry(z) |-> IF p < Info[z] THEN "fixed" ELSE "free"]
      /\ UNCHANGED <<held, ret, fault>>
  BY DEF Inv, TypeOK, ZoneCreate
<1>4. TypeOK'
  <2>1. 0 .. Info[z] - 1 \subseteq Nat /\ 0 .. Info[z] - 1 \subseteq Index(z)
    BY ZoneLayout
  <2>2. busy' \in [Zone -> SUBSET Nat]
    BY <2>1 DEF Inv, TypeOK, ZoneCreate
  <2>3. \A y \in Zone : busy'[y] \subseteq Index(y)
    BY <1>3, <2>1 DEF Inv, TypeOK
  <2>4. DOMAIN state' = Zone
    BY DEF Inv, TypeOK, ZoneCreate
  <2>5. \A y \in Zone : state'[y] \in [Entry(y) -> {"free", "occupied", "fixed"}]
    BY ZenonT(40), <1>3 DEF Inv, TypeOK
  <2>. QED
    BY <1>1, <1>3, <2>2, <2>3, <2>4, <2>5 DEF Inv, TypeOK
<1>5. StateMatchesBuddy'
  <2>1. \A p \in Entry(z) : /\ p \in busy'[z] <=> state'[z][p] # "free"
                            /\ p < Info[z] <=> state'[z][p] = "fixed"
    BY <1>3, ZoneLayout
  <2>2. ASSUME NEW y \in Registered', NEW p \in Entry(y)
        PROVE  /\ p \in busy'[y] <=> state'[y][p] # "free"
               /\ p < Info[y] <=> state'[y][p] = "fixed"
    <3>1. CASE y = z
      BY <2>1, <3>1
    <3>2. CASE y # z
      BY <1>1, <1>2, <1>3, <3>2 DEF Inv, StateMatchesBuddy
    <3>. QED
      BY <3>1, <3>2
  <2>. QED
    BY <2>2 DEF StateMatchesBuddy
<1>6. WithinArrays' => WithinArrays
  BY <1>1, <1>2, <1>3 DEF WithinArrays
<1>7. ASSUME WithinArrays'
      PROVE  Safe'
  <2>1. Safe
    BY <1>6, <1>7 DEF Inv
  <2>2. FramesAccounted'
    <3>1. ASSUME NEW h \in Holder, NEW p \in Index(z), held[h] = <<z, p>>
          PROVE  FALSE
      <4>1. held[h] # None /\ held[h][1] = z
        BY <3>1, FrameNotNone
      <4>. QED
        BY <1>1, <2>1, <4>1 DEF Safe, HeldFramesExist
    <3>2. \A p \in Index(z) : p \in busy'[z] <=> p < Info[z]
      BY <1>3, ZoneLayout
    <3>3. ASSUME NEW y \in Registered', NEW p \in Index(y)
          PROVE  p \in busy'[y] <=> p < Info[y] \/ \E h \in Holder : held'[h] = <<y, p>>
      <4>1. CASE y = z
        BY <1>3, <3>1, <3>2, <4>1
      <4>2. CASE y # z
        BY <1>1, <1>2, <1>3, <2>1, <4>2 DEF Safe, FramesAccounted
      <4>. QED
        BY <4>1, <4>2
    <3>. QED
      BY <3>3 DEF FramesAccounted
  <2>3. HeldFramesExist' /\ HeldOnce' /\ OnlyIndexCheckFails'
    BY <1>1, <1>3, <2>1 DEF Safe, HeldFramesExist, HeldOnce, OnlyIndexCheckFails
  <2>. QED
    BY <2>2, <2>3 DEF Safe
<1>. QED
  BY <1>4, <1>5, <1>7 DEF Inv

\* What mm_alloc_page does: it takes a frame that is not in use, and returns its page if the
\* frame has one.
LEMMA AllocPageIs ==
  ASSUME Inv, NEW h \in Holder, AllocPage(h, "occupied")
  PROVE  \E z \in Registered, p \in Nat :
           /\ p \in Index(z) \ busy[z] /\ z \in Zone
           /\ busy' = [busy EXCEPT ![z] = @ \cup {p}]
           /\ \/ /\ p \in Entry(z)
                 /\ held' = [held EXCEPT ![h] = <<z, p>>]
                 /\ state' = [state EXCEPT ![z][p] = "occupied"] /\ ret' = "page"
              \/ /\ p = Pages[z] - 1
                 /\ \E a \in Address : held' = [held EXCEPT ![h] = a]
                 /\ ret' = "past the pages array" /\ UNCHANGED state
<1>1. PICK z \in Registered :
        \E p \in Index(z) \ busy[z] :
          /\ busy' = [busy EXCEPT ![z] = @ \cup {p}]
          /\ \/ /\ p \in Entry(z)
                /\ held' = [held EXCEPT ![h] = <<z, p>>]
                /\ state' = [state EXCEPT ![z][p] = "occupied"] /\ ret' = "page"
             \/ /\ p \notin Entry(z)
                /\ \E a \in Address : held' = [held EXCEPT ![h] = a]
                /\ ret' = "past the pages array" /\ UNCHANGED state
  BY DEF AllocPage, FirstFree
<1>2. z \in Zone
  BY RegisteredZones DEF Inv, TypeOK
<1>3. \A p \in Index(z) : p \in Nat /\ (p \notin Entry(z) => p = Pages[z] - 1)
  BY <1>2, ZoneLayout
<1>. QED
  BY <1>1, <1>2, <1>3

\* mm_alloc_page changes no list of zones, and has no kassert.
LEMMA AllocPageFrame ==
  ASSUME Inv, NEW h \in Holder, AllocPage(h, "occupied")
  PROVE  /\ zones' = zones /\ Registered' = Registered /\ fault' = fault
         /\ Registered \subseteq Zone /\ held[h] = None
<1>1. zones' = zones /\ fault' = fault /\ held[h] = None
  BY DEF AllocPage
<1>. QED
  BY <1>1, RegisteredZones DEF Registered, Inv, TypeOK

\* As long as no zone has given out its last frame, what is handed out is a frame that is
\* not held, and not one of the tables.
LEMMA NewFrame ==
  ASSUME Inv, NEW h \in Holder, AllocPage(h, "occupied"), WithinArrays'
  PROVE  /\ WithinArrays /\ Safe
         /\ \E z \in Registered, p \in Nat :
              /\ p \in Index(z) \ busy[z] /\ z \in Zone /\ p \in Entry(z)
              /\ <<z, p>> \in Frame /\ <<z, p>> # None /\ p >= Info[z]
              /\ \A g \in Holder : held[g] # <<z, p>>
              /\ busy' = [busy EXCEPT ![z] = @ \cup {p}]
              /\ held' = [held EXCEPT ![h] = <<z, p>>]
<1>1. PICK z \in Registered, p \in Nat :
        /\ p \in Index(z) \ busy[z] /\ z \in Zone
        /\ busy' = [busy EXCEPT ![z] = @ \cup {p}]
        /\ \/ /\ p \in Entry(z)
              /\ held' = [held EXCEPT ![h] = <<z, p>>]
              /\ state' = [state EXCEPT ![z][p] = "occupied"] /\ ret' = "page"
           \/ /\ p = Pages[z] - 1
              /\ \E a \in Address : held' = [held EXCEPT ![h] = a]
              /\ ret' = "past the pages array" /\ UNCHANGED state
  BY AllocPageIs
<1>2. Registered' = Registered /\ Registered \subseteq Zone
  BY AllocPageFrame
<1>3. \A y \in Zone : busy[y] \subseteq busy'[y]
  BY <1>1 DEF Inv, TypeOK
<1>4. WithinArrays /\ p # Pages[z] - 1
  <2>1. WithinArrays
    BY <1>2, <1>3 DEF WithinArrays
  <2>2. p \in busy'[z]
    BY <1>1 DEF Inv, TypeOK
  <2>. QED
    BY <1>2, <2>1, <2>2 DEF WithinArrays
<1>5. Safe
  BY <1>4 DEF Inv
<1>6. ~(p < Info[z]) /\ \A g \in Holder : held[g] # <<z, p>>
  BY <1>1, <1>5 DEF Safe, FramesAccounted
<1>7. p >= Info[z]
  <2>1. z \in Zone /\ p \in Nat /\ ~(p < Info[z])
    BY <1>1, <1>6
  <2>. QED
    BY <2>1, ZoneLayout
<1>8. <<z, p>> \in Frame /\ <<z, p>> # None
  BY <1>1, FrameNotNone
<1>. QED
  BY <1>1, <1>4, <1>5, <1>6, <1>7, <1>8

LEMMA FreshFrame ==
  ASSUME Inv, NEW h \in Holder, AllocPage(h, "occupied"), WithinArrays'
  PROVE  \E f \in Frame : (\A g \in Holder : held[g] # f) /\ held' = [held EXCEPT ![h] = f]
BY NewFrame

LEMMA AllocPageKeepsInv ==
  ASSUME Inv, NEW h \in Holder, AllocPage(h, "occupied")
  PROVE  Inv'
<1>1. PICK z \in Registered, p \in Nat :
        /\ p \in Index(z) \ busy[z] /\ z \in Zone
        /\ busy' = [busy EXCEPT ![z] = @ \cup {p}]
        /\ \/ /\ p \in Entry(z)
              /\ held' = [held EXCEPT ![h] = <<z, p>>]
              /\ state' = [state EXCEPT ![z][p] = "occupied"] /\ ret' = "page"
           \/ /\ p = Pages[z] - 1
              /\ \E a \in Address : held' = [held EXCEPT ![h] = a]
              /\ ret' = "past the pages array" /\ UNCHANGED state
  BY AllocPageIs
<1>2. zones' = zones /\ Registered' = Registered /\ fault' = fault /\ Registered \subseteq Zone
  BY AllocPageFrame
<1>0. p \notin Entry(z) <=> p = Pages[z] - 1
  <2>1. z \in Zone /\ p \in Index(z)
    BY <1>1
  <2>. QED
    BY <2>1, ZoneLayout
<1>3. /\ busy'[z] = busy[z] \cup {p}
      /\ \A y \in Zone \ {z} : busy'[y] = busy[y] /\ state'[y] = state[y]
      /\ \A q \in Entry(z) : state'[z][q] = IF q = p THEN "occupied" ELSE state[z][q]
  <2>1. busy'[z] = busy[z] \cup {p} /\ \A y \in Zone \ {z} : busy'[y] = busy[y]
    BY <1>1 DEF Inv, TypeOK
  <2>2. CASE p \in Entry(z)
    BY ZenonT(40), <1>0, <1>1, <2>1, <2>2 DEF Inv, TypeOK
  <2>3. CASE p \notin Entry(z)
    BY <1>0, <1>1, <2>1, <2>3
  <2>. QED
    BY <2>2, <2>3
<1>4. TypeOK'
  <2>1. busy' \in [Zone -> SUBSET Nat] /\ \A y \in Zone : busy'[y] \subseteq Index(y)
    BY <1>1, <1>3 DEF Inv, TypeOK
  <2>2. DOMAIN state' = Zone
    BY <1>1 DEF Inv, TypeOK
  <2>3. ASSUME NEW y \in Zone
        PROVE  state'[y] \in [Entry(y) -> {"free", "occupied", "fixed"}]
    <3>1. state[y] \in [Entry(y) -> {"free", "occupied", "fixed"}]
      BY DEF Inv, TypeOK
    <3>2. CASE y = z /\ p \in Entry(z)
      <4>1. state'[y] = [state[y] EXCEPT ![p] = "occupied"]
        BY <1>0, <1>1, <3>2 DEF Inv, TypeOK
      <4>. QED
        BY <3>1, <4>1
    <3>3. CASE y # z \/ p \notin Entry(z)
      <4>1. state'[y] = state[y]
        BY <1>0, <1>1, <1>3, <3>3 DEF Inv, TypeOK
      <4>. QED
        BY <3>1, <4>1
    <3>. QED
      BY <3>2, <3>3
  <2>4. held' \in [Holder -> Address \cup {None}]
    <3>1. p \in Index(z) => <<z, p>> \in Address
      BY <1>1, FrameNotNone DEF Address
    <3>. QED
      BY <1>1, <3>1 DEF Inv, TypeOK
  <2>. QED
    BY <1>1, <1>2, <2>1, <2>2, <2>3, <2>4 DEF Inv, TypeOK
<1>5. StateMatchesBuddy'
  <2>0. p >= Info[z]
    <3>1. z \in Zone /\ p \in Index(z) /\ p \notin busy[z]
      BY <1>1
    <3>2. ASSUME p \in Entry(z)
          PROVE  ~(p < Info[z])
      BY <3>1, <3>2 DEF Inv, StateMatchesBuddy
    <3>3. p \notin Entry(z) => ~(p < Info[z])
      BY <1>0, <3>1, ZoneLayout
    <3>. QED
      BY <3>1, <3>2, <3>3, ZoneLayout
  <2>1. \A q \in Entry(z) : /\ q \in busy'[z] <=> state'[z][q] # "free"
                            /\ q < Info[z] <=> state'[z][q] = "fixed"
    BY <1>1, <1>3, <2>0, ZoneLayout DEF Inv, StateMatchesBuddy
  <2>. QED
    BY <1>2, <1>3, <2>1 DEF Inv, StateMatchesBuddy
<1>6. ASSUME WithinArrays'
      PROVE  Safe'
  <2>. PICK y \in Registered, q \in Nat :
         /\ q \in Index(y) \ busy[y] /\ y \in Zone /\ q \in Entry(y)
         /\ <<y, q>> \in Frame /\ <<y, q>> # None /\ q >= Info[y]
         /\ \A g \in Holder : held[g] # <<y, q>>
         /\ busy' = [busy EXCEPT ![y] = @ \cup {q}]
         /\ held' = [held EXCEPT ![h] = <<y, q>>]
    BY <1>6, NewFrame
  <2>1. Safe
    BY <1>6, NewFrame
  <2>2. /\ held'[h] = <<y, q>> /\ held[h] = None
        /\ \A g \in Holder \ {h} : held'[g] = held[g]
    BY AllocPageFrame DEF Inv, TypeOK
  <2>3. /\ busy'[y] = busy[y] \cup {q}
        /\ \A x \in Zone \ {y} : busy'[x] = busy[x]
    BY DEF Inv, TypeOK
  <2>4. FramesAccounted'
    <3>1. ASSUME NEW x \in Registered, NEW i \in Index(x)
          PROVE  i \in busy'[x] <=> i < Info[x] \/ \E g \in Holder : held'[g] = <<x, i>>
      <4>1. i \in busy[x] <=> i < Info[x] \/ \E g \in Holder : held[g] = <<x, i>>
        BY <2>1 DEF Safe, FramesAccounted
      <4>2. <<x, i>> # None
        BY <1>2, FrameNotNone
      <4>3. CASE x = y /\ i = q
        BY <2>2, <2>3, <4>3
      <4>4. CASE ~(x = y /\ i = q)
        <5>1. i \in busy'[x] <=> i \in busy[x]
          BY <1>2, <2>3, <4>4
        <5>2. \A g \in Holder : held'[g] = <<x, i>> <=> held[g] = <<x, i>>
          BY <2>2, <4>2, <4>4
        <5>. QED
          BY <4>1, <5>1, <5>2
      <4>. QED
        BY <4>3, <4>4
    <3>. QED
      BY <1>2, <3>1 DEF FramesAccounted
  <2>5. HeldFramesExist' /\ HeldOnce'
    <3>1. ASSUME NEW g \in Holder, held'[g] # None
          PROVE  held'[g] \in Frame /\ held'[g][1] \in Registered /\ held'[g][2] >= Info[held'[g][1]]
      <4>1. CASE g = h
        <5>1. held'[g][1] = y /\ held'[g][2] = q /\ held'[g] \in Frame
          BY <2>2, <4>1
        <5>. QED
          BY <5>1
      <4>2. CASE g # h
        BY <2>1, <2>2, <3>1, <4>2 DEF Safe, HeldFramesExist
      <4>. QED
        BY <4>1, <4>2
    <3>2. ASSUME NEW g \in Holder, NEW i \in Holder, g # i, held'[g] # None
          PROVE  held'[g] # held'[i]
      BY <2>1, <2>2, <3>2 DEF Safe, HeldOnce
    <3>. QED
      BY <1>2, <3>1, <3>2 DEF HeldFramesExist, HeldOnce
  <2>6. OnlyIndexCheckFails'
    BY <1>2, <2>1 DEF Safe, OnlyIndexCheckFails
  <2>. QED
    BY <2>4, <2>5, <2>6 DEF Safe
<1>. QED
  BY <1>4, <1>5, <1>6 DEF Inv

-----------------------------------------------------------------------------
\* mm_free_page accepts a page or changes nothing.
LEMMA FreePageIs ==
  ASSUME Inv, NEW f \in Address, FreePage(f)
  PROVE  \/ fault' # "none" /\ UNCHANGED <<zones, busy, state, ret>>
         \/ /\ fault' = "none" /\ UNCHANGED <<zones, ret>>
            /\ \E z \in Registered, p \in Nat :
                 /\ z \in Zone /\ f = <<z, p>> /\ p \in Entry(z)
                 /\ p < Pages[z] - 1 /\ p \in busy[z] /\ p >= Info[z]
                 /\ busy' = [busy EXCEPT ![z] = @ \ {p}]
                 /\ state' = [state EXCEPT ![z][p] = "free"]
<1>1. CASE fault' # "none"
  BY <1>1 DEF FreePage
<1>2. CASE fault' = "none"
  <2>1. /\ f \in Frame /\ f[1] \in Registered
        /\ ~(f[2] >= PagesCount(f[1]))
        /\ f[2] \in busy[f[1]] /\ state[f[1]][f[2]] = "occupied"
        /\ busy' = [busy EXCEPT ![f[1]] = @ \ {f[2]}]
        /\ state' = [state EXCEPT ![f[1]][f[2]] = "free"]
        /\ UNCHANGED <<zones, ret>>
    BY <1>2 DEF FreePage, Address
  <2>2. PICK z \in Zone : \E p \in Index(z) : f = <<z, p>>
    BY <2>1, FramePairs
  <2>3. PICK p \in Index(z) : f = <<z, p>>
    BY <2>2
  <2>4. f[1] = z /\ f[2] = p
    BY <2>3
  <2>5. p \in Nat /\ p < Pages[z] - 1 /\ p \in Entry(z)
    BY <2>1, <2>4, ZoneLayout DEF PagesCount
  <2>6. z \in Registered /\ state[z][p] = "occupied"
    BY <2>1, <2>4
  <2>7. ~(p < Info[z])
    BY <2>5, <2>6 DEF Inv, StateMatchesBuddy
  <2>8. p >= Info[z]
    BY <2>5, <2>7, ZoneLayout
  <2>. QED
    BY <1>2, <2>1, <2>3, <2>4, <2>5, <2>6, <2>8
<1>. QED
  BY <1>1, <1>2

\* An address that is held, while no zone has given out its last frame, passes all checks
\* but that of the index.
LEMMA HeldFrame ==
  ASSUME Inv, WithinArrays, NEW h \in Holder, held[h] # None, FreePage(held[h])
  PROVE  fault' \in {"none", "kassert p < pages_count"}
<1>1. held[h] \in Frame /\ Safe
  BY DEF Inv, Safe, HeldFramesExist
<1>2. PICK z \in Zone : \E p \in Index(z) : held[h] = <<z, p>>
  BY <1>1, FramePairs
<1>3. PICK p \in Index(z) : held[h] = <<z, p>>
  BY <1>2
<1>4. held[h][1] = z /\ held[h][2] = p /\ held[h] # Foreign
  BY <1>1, <1>3, NoneAssumption
<1>5. z \in Registered /\ p >= Info[z] /\ p \in busy[z]
  BY <1>1, <1>3, <1>4 DEF Safe, HeldFramesExist, FramesAccounted
<1>6. ASSUME ~(p >= PagesCount(z))
      PROVE  state[z][p] = "occupied"
  <2>1. p \in Entry(z)
    BY <1>3, <1>6, ZoneLayout DEF PagesCount
  <2>2. state[z][p] # "free" /\ state[z][p] # "fixed"
    BY <1>3, <1>5, <2>1, ZoneLayout DEF Inv, StateMatchesBuddy
  <2>. QED
    BY <2>1, <2>2 DEF Inv, TypeOK
<1>. QED
  BY <1>4, <1>5, <1>6 DEF FreePage

LEMMA GiveBackKeepsInv ==
  ASSUME Inv, NEW h \in Holder, GiveBack(h)
  PROVE  Inv'
<1>1. held[h] \in Address /\ held[h] # None /\ FreePage(held[h])
  BY DEF GiveBack, Inv, TypeOK
<1>2. zones' = zones /\ ret' = ret /\ Registered' = Registered /\ Registered \subseteq Zone
  <2>1. zones' = zones /\ ret' = ret
    BY <1>1 DEF FreePage
  <2>. QED
    BY <2>1, RegisteredZones DEF Registered, Inv, TypeOK
<1>3. CASE fault' # "none"
  <2>1. UNCHANGED <<busy, state, held>>
    BY <1>1, <1>3, FreePageIs DEF GiveBack
  <2>2. TypeOK' /\ StateMatchesBuddy'
    BY ZenonT(40), <1>2, <2>1 DEF Inv, TypeOK, StateMatchesBuddy
  <2>3. ASSUME WithinArrays'
        PROVE  Safe'
    <3>1. WithinArrays /\ Safe
      BY <1>2, <2>1, <2>3 DEF WithinArrays, Inv
    <3>2. OnlyIndexCheckFails'
      BY <1>1, <3>1, HeldFrame DEF OnlyIndexCheckFails
    <3>. QED
      BY <1>2, <2>1, <3>1, <3>2 DEF Safe, FramesAccounted, HeldFramesExist, HeldOnce
  <2>. QED
    BY <2>2, <2>3 DEF Inv
<1>4. CASE fault' = "none"
  <2>1. PICK z \in Registered, p \in Nat :
          /\ z \in Zone /\ held[h] = <<z, p>> /\ p \in Entry(z)
          /\ p < Pages[z] - 1 /\ p \in busy[z] /\ p >= Info[z]
          /\ busy' = [busy EXCEPT ![z] = @ \ {p}]
          /\ state' = [state EXCEPT ![z][p] = "free"]
    BY <1>1, <1>4, FreePageIs
  <2>2. held' = [held EXCEPT ![h] = None]
    BY <1>4 DEF GiveBack
  <2>3. /\ busy'[z] = busy[z] \ {p}
        /\ \A y \in Zone \ {z} : busy'[y] = busy[y] /\ state'[y] = state[y]
        /\ \A q \in Entry(z) : state'[z][q] = IF q = p THEN "free" ELSE state[z][q]
    BY <2>1 DEF Inv, TypeOK
  <2>4. TypeOK'
    <3>1. busy' \in [Zone -> SUBSET Nat] /\ \A y \in Zone : busy'[y] \subseteq Index(y)
      BY <2>1, <2>3 DEF Inv, TypeOK
    <3>2. DOMAIN state' = Zone
      BY <2>1 DEF Inv, TypeOK
    <3>3. ASSUME NEW y \in Zone
          PROVE  state'[y] \in [Entry(y) -> {"free", "occupied", "fixed"}]
      <4>1. state[y] \in [Entry(y) -> {"free", "occupied", "fixed"}]
        BY DEF Inv, TypeOK
      <4>2. state'[y] = IF y = z THEN [state[y] EXCEPT ![p] = "free"] ELSE state[y]
        BY <2>1 DEF Inv, TypeOK
      <4>. QED
        BY <4>1, <4>2
    <3>4. held' \in [Holder -> Address \cup {None}]
      BY <2>2 DEF Inv, TypeOK
    <3>. QED
      BY <1>2, <3>1, <3>2, <3>3, <3>4 DEF Inv, TypeOK
  <2>5. StateMatchesBuddy'
    <3>1. \A q \in Entry(z) : /\ q \in busy'[z] <=> state'[z][q] # "free"
                              /\ q < Info[z] <=> state'[z][q] = "fixed"
      BY <2>1, <2>3, ZoneLayout DEF Inv, StateMatchesBuddy
    <3>. QED
      BY <1>2, <2>3, <3>1 DEF Inv, StateMatchesBuddy
  <2>6. ASSUME WithinArrays'
        PROVE  Safe'
    <3>1. WithinArrays /\ Safe
      <4>1. Pages[z] - 1 \notin busy'[z] => Pages[z] - 1 \notin busy[z]
        BY <2>1, <2>3, ZoneLayout
      <4>. QED
        BY <1>2, <2>3, <2>6, <4>1 DEF WithinArrays, Inv
    <3>2. <<z, p>> # None /\ \A g \in Holder \ {h} : held[g] # <<z, p>>
      BY <1>1, <2>1, <3>1 DEF Safe, HeldOnce
    <3>3. held'[h] = None /\ \A g \in Holder \ {h} : held'[g] = held[g]
      BY <2>2 DEF Inv, TypeOK
    <3>4. FramesAccounted'
      <4>. SUFFICES ASSUME NEW y \in Registered, NEW q \in Index(y)
                    PROVE  q \in busy'[y] <=> q < Info[y] \/ \E g \in Holder : held'[g] = <<y, q>>
        BY <1>2 DEF FramesAccounted
      <4>1. q \in busy[y] <=> q < Info[y] \/ \E g \in Holder : held[g] = <<y, q>>
        BY <3>1 DEF Safe, FramesAccounted
      <4>2. <<y, q>> # None
        BY <1>2, FrameNotNone
      <4>3. CASE y = z /\ q = p
        <5>1. q \notin busy'[y] /\ ~(q < Info[y])
          BY <2>1, <2>3, <4>3, ZoneLayout
        <5>2. \A g \in Holder : held'[g] # <<y, q>>
          BY <3>2, <3>3, <4>3
        <5>. QED
          BY <5>1, <5>2
      <4>4. CASE ~(y = z /\ q = p)
        <5>1. q \in busy'[y] <=> q \in busy[y]
          BY <1>2, <2>3, <4>4
        <5>2. <<y, q>> # <<z, p>>
          BY <4>4
        <5>3. \A g \in Holder : held'[g] = <<y, q>> <=> held[g] = <<y, q>>
          BY <2>1, <3>3, <4>2, <5>2
        <5>. QED
          BY <4>1, <5>1, <5>3
      <4>. QED
        BY <4>3, <4>4
    <3>5. HeldFramesExist' /\ HeldOnce'
      BY <1>2, <3>1, <3>3 DEF Safe, HeldFramesExist, HeldOnce
    <3>. QED
      BY <1>4, <3>4, <3>5 DEF Safe, OnlyIndexCheckFails
  <2>. QED
    BY <2>4, <2>5, <2>6 DEF Inv
<1>. QED
  BY <1>3, <1>4

LEMMA InvNext == Inv /\ [Next]_vars => Inv'
<1>. SUFFICES ASSUME Inv, [Next]_vars PROVE Inv'
  OBVIOUS
<1>1. ASSUME NEW z \in Zone, ZoneCreate(z)
      PROVE  Inv'
  BY <1>1, ZoneCreateKeepsInv
<1>2. ASSUME NEW h \in Holder, AllocPage(h, "occupied")
      PROVE  Inv'
  BY <1>2, AllocPageKeepsInv
<1>3. ASSUME NEW h \in Holder, GiveBack(h)
      PROVE  Inv'
  BY <1>3, GiveBackKeepsInv
<1>4. CASE AllocNone \/ UNCHANGED vars
  <2>1. /\ UNCHANGED <<zones, busy, state, held, fault>>
        /\ ret' \in {ret, "NULL"} /\ Registered' = Registered
    BY <1>4 DEF AllocNone, vars, Registered
  <2>2. TypeOK'
    BY <2>1 DEF Inv, TypeOK
  <2>3. StateMatchesBuddy'
    BY <2>1 DEF Inv, StateMatchesBuddy
  <2>4. WithinArrays' => Safe'
    BY ZenonT(40), <2>1 DEF Inv, Safe, WithinArrays, FramesAccounted, HeldFramesExist, HeldOnce,
                            OnlyIndexCheckFails
  <2>. QED
    BY <2>2, <2>3, <2>4 DEF Inv
<1>. QED
  BY <1>1, <1>2, <1>3, <1>4 DEF Next

LEMMA InvHolds == Spec => []Inv
BY InvInit, InvNext, PTL DEF Spec

\* mm.c, type correctness: no frame and no index is outside of its zone.
THEOREM TypeCorrect == Spec => []TypeOK
<1>1. Inv => TypeOK
  BY DEF Inv
<1>. QED
  BY InvHolds, <1>1, PTL

\* The buddy allocator of a zone and the states in its pages array agree.
THEOREM StatesAgree == Spec => []StateMatchesBuddy
<1>1. Inv => StateMatchesBuddy
  BY DEF Inv
<1>. QED
  BY InvHolds, <1>1, PTL

\* Until a zone gives out its last frame, mm_alloc_page and mm_free_page lose no frame, and
\* never hand out the tables of a zone.
THEOREM NoFrameLost == Spec => []EveryFrameAccounted
<1>1. Inv => EveryFrameAccounted
  BY DEF Inv, Safe, FramesAccounted, EveryFrameAccounted
<1>. QED
  BY InvHolds, <1>1, PTL

\* Until a zone gives out its last frame, a frame that is given back was in use: of the
\* checks of mm_free_page only the one of the index, which is wrong near the end of a zone,
\* can fail.
THEOREM FreedFramesWereUsed == Spec => [](WithinArrays => OnlyIndexCheckFails)
<1>1. Inv => (WithinArrays => OnlyIndexCheckFails)
  BY DEF Inv, Safe
<1>. QED
  BY InvHolds, <1>1, PTL

-----------------------------------------------------------------------------
(* Refinement *)

LEMMA StepRefines ==
  ASSUME Inv, [Next]_vars
  PROVE  [WithinArrays' => Abs!Next]_held
<1>1. ASSUME NEW h \in Holder, AllocPage(h, "occupied"), WithinArrays'
      PROVE  Abs!Next
  <2>1. PICK f \in Frame : /\ \A g \in Holder : held[g] # f
                           /\ held' = [held EXCEPT ![h] = f]
    BY <1>1, FreshFrame
  <2>2. Abs!Acquire(h, f)
    BY <1>1, <2>1 DEF AllocPage, Abs!Acquire
  <2>. QED
    BY <2>2 DEF Abs!Next
<1>2. ASSUME NEW h \in Holder, GiveBack(h)
      PROVE  [Abs!Next]_held
  BY <1>2 DEF GiveBack, Abs!Release, Abs!Next
<1>. QED
  BY <1>1, <1>2 DEF Next, vars, ZoneCreate, AllocNone

\* Until a zone gives out its last frame, the zones together are an Allocator of the frames.
THEOREM MemZonesImplementsAllocator == Spec => ImplementsAllocator
<1>1. Init => Abs!Init
  BY DEF Init, Abs!Init
<1>. QED
  BY <1>1, InvHolds, StepRefines, PTL DEF Spec, ImplementsAllocator

=============================================================================
