------------------------------- MODULE MemZones -------------------------------
(***************************************************************************)
(* Physical memory, kernel/kernel/mm/mm.c: zones of page frames, each with *)
(* a buddy allocator and an array of struct mm_page.  A zone keeps its own *)
(* tables in its first frames.  A frame is a pair <<zone, index>>.         *)
(*                                                                         *)
(* All requests are for one page, so a zone's buddy allocator is level 0   *)
(* of Buddy: the set of busy frames, of which the lowest free one is       *)
(* handed out (LibraryProofs shows that this is what it does).             *)
(***************************************************************************)
EXTENDS Integers, Sequences

CONSTANTS
  Zone,     \* the chunks of memory that the boot loader reports
  Pages,    \* Pages[z]: the number of frames of zone z
  Info,     \* Info[z]: how many of them the tables of the zone occupy
  Holder,   \* the variables that hold the address of a page
  Foreign,  \* an address outside of all zones
  None      \* the value of a Holder that holds nothing

Index(z) == 0 .. Pages[z] - 1
Frame == UNION {{z} \X Index(z) : z \in Zone}

\* What a phys_addr_t can be.
Address == Frame \cup {Foreign}

ASSUME PagesAssumption == Pages \in [Zone -> Nat]
ASSUME InfoAssumption == Info \in [Zone -> Nat] /\ \A z \in Zone : Info[z] \in 1 .. Pages[z] - 2
ASSUME NoneAssumption == None \notin Address /\ Foreign \notin Frame

VARIABLES
  zones,    \* MM_ZONES, the zone registered last first
  busy,     \* busy[z]: the frames that the buddy allocator of z has given out
  state,    \* state[z]: the states in the pages array of z
  held,     \* held[h]: the address of the page that h got from mm_alloc_page, or None
  ret,      \* what the last mm_alloc_page returned
  fault     \* the kassert that has failed

vars == <<zones, busy, state, held, ret, fault>>

\* The array has as many entries as buddy_init says: the highest index, one less than
\* there are frames.
Entry(z) == 0 .. Pages[z] - 2

\* zone->pages_count
PagesCount(z) == Pages[z] - 1 - Info[z]

Registered == {zones[i] : i \in DOMAIN zones}

Init ==
  /\ zones = <<>>
  /\ busy = [z \in Zone |-> {}]
  /\ state = [z \in Zone |-> [p \in Entry(z) |-> "free"]]
  /\ held = [h \in Holder |-> None]
  /\ ret = "page" /\ fault = "none"

-----------------------------------------------------------------------------
\* Mutant of ZoneCreate: one frame of the tables is not reserved.
ZoneCreateShort(z) ==
  /\ fault = "none" /\ z \notin Registered
  /\ zones' = <<z>> \o zones
  /\ busy' = [busy EXCEPT ![z] = 0 .. Info[z] - 2]
  /\ state' = [state EXCEPT ![z] = [p \in Entry(z) |-> IF p < Info[z] THEN "fixed" ELSE "free"]]
  /\ UNCHANGED <<held, ret, fault>>

\* mm_zone_create: the frames of the tables are reserved.
ZoneCreate(z) ==
  /\ fault = "none" /\ z \notin Registered
  /\ zones' = <<z>> \o zones
  /\ busy' = [busy EXCEPT ![z] = 0 .. Info[z] - 1]
  /\ state' = [state EXCEPT ![z] = [p \in Entry(z) |-> IF p < Info[z] THEN "fixed" ELSE "free"]]
  /\ UNCHANGED <<held, ret, fault>>

\* mm_alloc_page takes the lowest free frame p of the first zone that has one.
FirstFree(z, p) ==
  /\ p \in Index(z) \ busy[z]
  /\ \A q \in Index(z) \ busy[z] : p <= q
  /\ \E i \in DOMAIN zones : zones[i] = z /\ \A j \in 1 .. i - 1 : Index(zones[j]) = busy[zones[j]]

\* mm_alloc_page, and the state st that the caller gives the page.  The last frame of a
\* zone has no entry in the array: the struct mm_page returned is what lies behind it, so
\* its address can be any, and its state is written over bytes that no array has.
AllocPage(h, st) ==
  /\ fault = "none" /\ held[h] = None
  /\ \E z \in Registered : \E p \in Index(z) :
       /\ FirstFree(z, p)
       /\ busy' = [busy EXCEPT ![z] = @ \cup {p}]
       /\ \/ /\ p \in Entry(z)
             /\ held' = [held EXCEPT ![h] = <<z, p>>]
             /\ state' = [state EXCEPT ![z][p] = st]
             /\ ret' = "page"
          \/ /\ p \notin Entry(z)
             /\ \E a \in Address : held' = [held EXCEPT ![h] = a]
             /\ ret' = "past the pages array"
             /\ UNCHANGED state
  /\ UNCHANGED <<zones, fault>>

\* mm_alloc_page when every zone is exhausted
AllocNone ==
  /\ fault = "none"
  /\ \A z \in Registered : Index(z) = busy[z]
  /\ ret' = "NULL"
  /\ UNCHANGED <<zones, busy, state, held, fault>>

\* Mutants of FreePage: the state is not reset; the first zone is taken for the page's zone.
FreePageState(f) ==
  /\ fault = "none" /\ f # Foreign /\ f[1] \in Registered
  /\ f[2] < PagesCount(f[1]) /\ f[2] \in busy[f[1]]
  /\ busy' = [busy EXCEPT ![f[1]] = @ \ {f[2]}]
  /\ UNCHANGED <<zones, state, ret, fault>>
FreePageOfFirst(f) ==
  /\ fault = "none" /\ f # Foreign /\ f[1] \in Registered
  /\ f[2] < PagesCount(zones[1]) /\ state[zones[1]][f[2]] = "occupied"
  /\ busy' = [busy EXCEPT ![zones[1]] = @ \ {f[2]}]
  /\ state' = [state EXCEPT ![zones[1]][f[2]] = "free"]
  /\ UNCHANGED <<zones, ret, fault>>

\* mm_free_page of the page at address f
FreePage(f) ==
  /\ fault = "none"
  /\ fault' = IF f = Foreign \/ f[1] \notin Registered THEN "rkassert zone != NULL"
              ELSE IF f[2] >= PagesCount(f[1]) THEN "kassert p < pages_count"
              ELSE IF f[2] \notin busy[f[1]] THEN "kassert !buddy_is_free"
              ELSE IF state[f[1]][f[2]] # "occupied" THEN "kassert PAGESTATE_OCCUPIED" ELSE "none"
  /\ IF fault' = "none"
     THEN /\ busy' = [busy EXCEPT ![f[1]] = @ \ {f[2]}]
          /\ state' = [state EXCEPT ![f[1]][f[2]] = "free"]
     ELSE UNCHANGED <<busy, state>>
  /\ UNCHANGED <<zones, ret>>

\* A holder gives its page back.
GiveBack(h) ==
  /\ held[h] # None
  /\ FreePage(held[h])
  /\ held' = IF fault' = "none" THEN [held EXCEPT ![h] = None] ELSE held

Next ==
  \/ \E z \in Zone : ZoneCreate(z)
  \/ \E h \in Holder : AllocPage(h, "occupied") \/ GiveBack(h)
  \/ AllocNone

Spec == Init /\ [][Next]_vars

-----------------------------------------------------------------------------
(* Properties *)

\* The variables have the types of the fields of struct mm_zone and struct mm_page.
TypeOK ==
  /\ zones \in Seq(Zone)
  /\ busy \in [Zone -> SUBSET Nat] /\ \A z \in Zone : busy[z] \subseteq Index(z)
  /\ DOMAIN state = Zone
  /\ \A z \in Zone : state[z] \in [Entry(z) -> {"free", "occupied", "fixed"}]
  /\ held \in [Holder -> Address \cup {None}]
  /\ ret \in {"page", "past the pages array", "NULL"}

\* The state of a page and the bit of the buddy allocator, which are kept apart, agree, and
\* the tables of a zone stay where they are.
StateMatchesBuddy ==
  \A z \in Registered : \A p \in Entry(z) :
    /\ p \in busy[z] <=> state[z][p] # "free"
    /\ p < Info[z] <=> state[z][p] = "fixed"

\* No zone has given out its last frame, which has no entry in the pages array.  A zone that
\* has never gets it back: get_page_ndx does not accept its index.
WithinArrays == \A z \in Registered : Pages[z] - 1 \notin busy[z]

\* Apart from the tables, exactly the frames that somebody holds are busy: no order of calls
\* on several zones loses a frame, or gives one out that a zone needs for itself, until a
\* zone gives out its last frame.  From then on callers have addresses of pages that are not
\* theirs, and a frame that nobody knows of is lost.
EveryFrameAccounted ==
  WithinArrays =>
    \A z \in Registered : \A p \in Index(z) :
      p \in busy[z] <=> p < Info[z] \/ \E h \in Holder : held[h] = <<z, p>>

\* mm_free_page accepts every page that mm_alloc_page has handed out, and every frame that
\* the buddy allocator finds has its entry in the array.
NoFault == fault = "none" /\ ret # "past the pages array"

\* The zones together implement Allocator, up to the call in which one of them gives out its
\* last frame: until then every call takes a frame that nobody has, or gives one back.
Abs == INSTANCE Allocator WITH Unit <- Frame, own <- held
ImplementsAllocator == Abs!Init /\ [][WithinArrays' => Abs!Next]_held

=============================================================================
