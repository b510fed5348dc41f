------------------------------- MODULE VmSpace -------------------------------
(***************************************************************************)
(* An address space, kernel/kernel/mm/vm_space.c, with the operations that *)
(* fill it: vm.c, mm_zone_create and the start of the heap.  The areas of  *)
(* a space are kept twice, in a red-black tree and in a list sorted by     *)
(* base; the tree is modelled as the set of its areas (RbTree is about     *)
(* what is inside).  Addresses are numbers modulo Word, as in the code.    *)
(***************************************************************************)
EXTENDS Integers, Sequences, SequencesExt

CONSTANTS
  Area,       \* the objects that a struct vm_area is kept in
  Word,       \* 2^32: the number of addresses
  PageSize,   \* PLATFORM_PAGE_SIZE
  Offset,     \* offset of the space
  LastAvail,  \* CONF_VM_AVAILABLE_PAGES * PLATFORM_PAGE_SIZE
  Segments,   \* the segments of the kernel image, <<base, length>>
  Zones,      \* the physical zones at their addresses, <<base, length, length of the tables>>
  Requests,   \* the sizes asked of vm_new_area_within_space, <<min_size, max_size>>
  HeapMax,    \* CONF_HEAP_MAX_CHUNK_SIZE
  None

Address == 0 .. Word - 1
Aligned(n) == n % PageSize = 0
Smaller(m, n) == IF m < n THEN m ELSE n

ASSUME AddressAssumption ==
  /\ Word \in Nat \ {0} /\ PageSize \in Nat \ {0} /\ Aligned(Word)
  /\ Offset \in Address \ {0} /\ Aligned(Offset)
  /\ LastAvail \in 0 .. Offset - 2 /\ Aligned(LastAvail)

\* What vm_space_insert_area is asked for at the start.
Fixed == {<<s[1], s[2]>> : s \in Segments} \cup {<<z[1], z[2]>> : z \in Zones}

\* Segments and zones are apart, as Startup shows of the zones, and end before the
\* addresses of the page tables at the end of the space.
ASSUME FixedAssumption ==
  /\ Segments \subseteq Address \X Address
  /\ Zones \subseteq Address \X Address \X Address
  /\ \A x \in Fixed : /\ Offset <= x[1] /\ x[1] + x[2] < Word /\ 0 < x[2]
                      /\ Aligned(x[1]) /\ Aligned(x[2])
  /\ \A x, y \in Fixed : x # y => x[1] + x[2] <= y[1] \/ y[1] + y[2] <= x[1]
  /\ \A z \in Zones : z[3] \in 1 .. z[2] /\ Aligned(z[3])
ASSUME RequestsAssumption ==
  /\ Requests \subseteq Address \X Address
  /\ \A r \in Requests : 0 < r[1] /\ r[1] <= r[2] /\ Aligned(r[1]) /\ Aligned(r[2])
  /\ HeapMax \in Address \ {0}
ASSUME NoneAssumption == None \notin Area

VARIABLES
  tree,     \* rb_areas
  list,     \* sorted_areas
  base,     \* base of an area
  len,      \* length of an area
  dynamic,  \* the areas that vm_new_area_within_space has made
  heap,     \* the area of the first chunk of the heap, or None
  refused,  \* the min_size for which no gap was found, or 0
  fault     \* the kassert that has stopped the kernel

vars == <<tree, list, base, len, dynamic, heap, refused, fault>>

Init ==
  /\ tree = {} /\ list = <<>>
  /\ base = [a \in Area |-> 0] /\ len = [a \in Area |-> 0]
  /\ dynamic = {} /\ heap = None /\ refused = 0
  /\ fault = "none"

-----------------------------------------------------------------------------
(* vm_space_find_gap: gap i is the one behind area i of the list. *)

Gap == 0 .. Len(list)

\* next_after_last_area
GapBase(i) == IF i = 0 THEN Offset ELSE (base[list[i]] + len[list[i]]) % Word

\* The length of the last gap is computed from LAST_AVAILABLE_ADDR.
GapLength(i) ==
  IF i = Len(list) THEN (LastAvail - GapBase(i) + 1) % Word
                   ELSE (base[list[i + 1]] - GapBase(i)) % Word

\* Mutant of Fits: a gap of just the right size is refused.
FitsLoosely(i, min) == GapBase(i) >= Offset /\ GapLength(i) > min

\* find_with_len_and_offset
Fits(i, min) == GapBase(i) >= Offset /\ GapLength(i) >= min

FirstFit(i, min) == i \in Gap /\ Fits(i, min) /\ \A j \in 0 .. i - 1 : ~Fits(j, min)

\* find_largest takes a gap only when it is longer than the ones before.
Largest(i) ==
  /\ i \in Gap
  /\ \A j \in Gap : GapLength(j) <= GapLength(i)
  /\ \A j \in 0 .. i - 1 : GapLength(j) < GapLength(i)

-----------------------------------------------------------------------------
(* vm_space_insert_area and vm_space_remove_area *)

\* Mutant of Neighbour: the last area.
NeighbourLast(b) == Len(list)

\* rbtree_search_max: the position in the list of the left neighbour of base b, or 0.
Neighbour(b) ==
  LET left == {i \in 1 .. Len(list) : list[i] \in tree /\ base[list[i]] <= b}
  IN  IF left = {} THEN 0
      ELSE CHOOSE i \in left : \A j \in left : base[list[j]] <= base[list[i]]

\* vm_area_rbtcmpfn on two areas x, y, given as <<base, length>>, of which x comes
\* first: it asserts that x ends before y begins.
EndsBefore(x, y) == (x[1] + x[2] - 1) % Word < y[1]

\* The tree compares the new area with its neighbours on both sides at least.
NoOverlap(b, l) ==
  \A a \in tree : /\ base[a] < b => EndsBefore(<<base[a], len[a]>>, <<b, l>>)
                  /\ base[a] > b => EndsBefore(<<b, l>>, <<base[a], len[a]>>)

\* Mutant of Insert: the area gets a page more than the gap has.
InsertLonger(a, b, l, keep) ==
  /\ fault' = IF ~Aligned(l) THEN "check_align"
              ELSE IF b < Offset THEN "offset <= base"
              ELSE IF ~NoOverlap(b, l) THEN "vm_area_rbtcmpfn" ELSE "none"
  /\ IF fault' = "none"
     THEN /\ tree' = tree \cup {a}
          /\ list' = InsertAt(list, Neighbour(b) + 1, a)
          /\ base' = [base EXCEPT ![a] = b]
          /\ len' = [len EXCEPT ![a] = keep + PageSize]
     ELSE UNCHANGED <<tree, list, base, len>>

\* vm_area_init and vm_space_insert_area for area a at b with length l, of which keep
\* remain in the end.
Insert(a, b, l, keep) ==
  /\ fault' = IF ~Aligned(l) THEN "check_align"
              ELSE IF b < Offset THEN "offset <= base"
              ELSE IF ~NoOverlap(b, l) THEN "vm_area_rbtcmpfn" ELSE "none"
  /\ IF fault' = "none"
     THEN /\ tree' = tree \cup {a}
          /\ list' = InsertAt(list, Neighbour(b) + 1, a)
          /\ base' = [base EXCEPT ![a] = b]
          /\ len' = [len EXCEPT ![a] = keep]
     ELSE UNCHANGED <<tree, list, base, len>>

RemoveArea(a) ==
  /\ tree' = tree \ {a}
  /\ \E i \in DOMAIN list : list[i] = a /\ list' = RemoveAt(list, i)

-----------------------------------------------------------------------------
\* The areas of the start: an area of length l at a fixed base b, that keeps length keep.
InsertFixed(a, b, l, keep) ==
  /\ fault = "none" /\ heap = None
  /\ a \notin tree
  /\ \A g \in tree : base[g] # b
  /\ Insert(a, b, l, keep)
  /\ UNCHANGED <<dynamic, heap, refused>>

\* init_kernel_vmspace
InsertSegment(a, s) == InsertFixed(a, s[1], s[2], s[2])

\* mm_zone_create puts a temporary area over the whole zone, moves it into the zone, and
\* shrinks it to the tables there.
ZoneCreate(a, z) == InsertFixed(a, z[1], z[2], z[3])

\* init_first_chunk
InsertHeap(a) ==
  /\ fault = "none" /\ heap = None
  /\ a \notin tree
  /\ \E i \in Gap :
       LET l == Smaller(GapLength(i), HeapMax)
       IN  Largest(i) /\ Insert(a, GapBase(i), l, l)
  /\ heap' = IF fault' = "none" THEN a ELSE None
  /\ UNCHANGED <<dynamic, refused>>

\* vm_new_area_within_space when there is a gap and kmm_cache_alloc returns a.
NewArea(a, r) ==
  /\ fault = "none" /\ heap # None
  /\ a \notin tree
  /\ \E i \in Gap :
       LET l == Smaller(GapLength(i), r[2])
       IN  FirstFit(i, r[1]) /\ Insert(a, GapBase(i), l, l)
  /\ dynamic' = IF fault' = "none" THEN dynamic \cup {a} ELSE dynamic
  /\ UNCHANGED <<heap, refused>>

\* vm_new_area_within_space when there is no gap: it goes on with an area at NULL.
NewAreaNoGap(a, r) ==
  /\ fault = "none" /\ heap # None
  /\ a \notin tree
  /\ \A i \in Gap : ~Fits(i, r[1])
  /\ Insert(a, 0, 0, 0)
  /\ refused' = r[1]
  /\ UNCHANGED <<dynamic, heap>>

\* vm_free_area.  The fields of an area that was given back mean nothing.
FreeArea(a) ==
  /\ fault = "none"
  /\ a \in dynamic
  /\ RemoveArea(a)
  /\ dynamic' = dynamic \ {a}
  /\ base' = [base EXCEPT ![a] = 0] /\ len' = [len EXCEPT ![a] = 0]
  /\ UNCHANGED <<heap, refused, fault>>

Next ==
  \E a \in Area :
    \/ \E s \in Segments : InsertSegment(a, s)
    \/ \E z \in Zones : ZoneCreate(a, z)
    \/ InsertHeap(a) \/ FreeArea(a)
    \/ \E r \in Requests : NewArea(a, r) \/ NewAreaNoGap(a, r)

Spec == Init /\ [][Next]_vars

-----------------------------------------------------------------------------
(* Properties *)

\* The addresses of an area.
Span(a) == {(base[a] + n) % Word : n \in 0 .. len[a] - 1}

\* Type invariant.
TypeOK ==
  /\ tree \subseteq Area /\ list \in Seq(Area)
  /\ base \in [Area -> Address] /\ len \in [Area -> Address]
  /\ dynamic \subseteq tree /\ heap \in tree \cup {None}
  /\ refused \in Address
  /\ fault \in {"none", "check_align", "offset <= base", "vm_area_rbtcmpfn"}

\* The sorted list, which the search for a gap goes through, holds the areas of the tree,
\* each once, from low to high addresses, though the place of an insertion comes from the
\* tree and areas are removed in any order.
ListMatchesTree ==
  /\ TypeOK
  /\ ToSet(list) = tree
  /\ \A i, j \in 1 .. Len(list) : i < j => base[list[i]] < base[list[j]]

\* A page-aligned run of l free addresses in the space.
FreeRun(l) ==
  \E b \in Offset .. Word - l :
    /\ Aligned(b)
    /\ \A a \in tree : (b .. b + l - 1) \cap Span(a) = {}

\* vm_new_area_within_space runs into the kassert on offset only if the space has no room
\* for the request, however the areas before it came and went; and
\* no gap that a search yields overlaps an area, as vm_area_rbtcmpfn asserts.
NoGapMeansFull ==
  /\ fault # "vm_area_rbtcmpfn"
  /\ fault = "offset <= base" => ~FreeRun(refused)

\* vm_space.c and its callers implement Regions: no address is ever in two areas, not even
\* where the length of the last gap wraps around.
R == INSTANCE Regions WITH regions <- {Span(a) : a \in tree}
ImplementsRegions == R!Spec

=============================================================================
