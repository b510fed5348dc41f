---------------------------------- MODULE KDev ---------------------------------
(***************************************************************************)
(* Device memory, kernel/kernel/mm/dev.c: a virtual area that is cut into  *)
(* regions, each free or given to the buffer of a device and mapped to it. *)
(* Virtual addresses are pages of the area, physical ones bytes.           *)
(*                                                                         *)
(* A region that was given back to REGIONS_CACHE may still be on the list  *)
(* (line 111): it keeps its contents until the cache hands it out again,   *)
(* and then is linked into the list anew, where it still is.  The list may *)
(* lose regions so, or run in a circle, on which SLIST_FOREACH never ends. *)
(***************************************************************************)
EXTENDS Naturals

CONSTANTS
  Region,     \* the objects of REGIONS_CACHE
  AreaPages,  \* the length of the area
  MaxPages,   \* bound: regions that overlap are not joined beyond this page
  PageSize,   \* PLATFORM_PAGE_SIZE
  Buffer,     \* the buffers of devices: struct resource of type RESOURCE_TYPE_DEV_BUFFER
  BufferBase, \* data.dev_buffer.base of a buffer
  BufferLen,  \* data.dev_buffer.len
  Free,       \* REGION_RES_STATE_FREE
  None        \* no region, no frame

VARIABLES
  head,   \* area->data, the first region
  next,   \* list.next of a region: a region or None
  vaddr,  \* page_vaddr of a region
  len,    \* length of a region
  res,    \* resource of a region: Free or a buffer
  live,   \* the regions that REGIONS_CACHE has handed out
  twice,  \* whether a region was given back that the cache had already
  reused, \* whether the cache has handed out a region that was still on the list
  pages,  \* the frame at a page of the area, or None
  fault   \* what has stopped the kernel

cacheVars == <<live, twice, reused>>
devVars == <<head, next, vaddr, len, res, cacheVars, pages>>

Page == 0 .. MaxPages - 1
Down(n) == n \div PageSize
Up(n) == (n + PageSize - 1) \div PageSize

\* The number of pages of a buffer: from the start to the last byte, rounded up.
Pages(b) == Up(BufferBase[b] + BufferLen[b] - 1) - Down(BufferBase[b])

\* dev_area_new, kdev_init: a single free region.
Init ==
  /\ head \in Region /\ live = {head}
  /\ next = [q \in Region |-> None]
  /\ vaddr = [q \in Region |-> 0]
  /\ len = [q \in Region |-> IF q = head THEN AreaPages ELSE 0]
  /\ res = [q \in Region |-> Free]
  /\ twice = FALSE /\ reused = FALSE
  /\ pages = [p \in Page |-> None]

-----------------------------------------------------------------------------
(* SLIST_FOREACH from the head of the list, until it meets a region of set T *)

\* The regions that the loop comes to: those in every set that it cannot leave.
Visited(T) ==
  {r \in Region : \A S \in SUBSET Region :
     head \in S /\ (\A q \in S \ T : next[q] \in S \cup {None}) => r \in S}

Listed == Visited({})
Found(T) == Visited(T) \cap T
Before(T) == {q \in Visited(T) \ T : next[q] \in T}
AtEnd(T) == \E q \in Visited(T) \ T : next[q] = None

Fits(n) == {r \in Region : res[r] = Free /\ len[r] >= n}
Holds(b) == {r \in Region : res[r] = b}

\* The loop goes round in a circle and never returns.
Endless(T) ==
  /\ Found(T) = {} /\ ~AtEnd(T)
  /\ fault' = "endless list"
  /\ UNCHANGED devVars

\* Regions of a broken list may grow without end.
Bounded == reused' => \A r \in Region : vaddr'[r] + len'[r] <= MaxPages

-----------------------------------------------------------------------------
\* Mutant of MapPages: all pages are mapped to the first frame.
MapPagesOnce(first, b) ==
  LET at == first .. first + Pages(b) - 1
      done == {p \in at : \A q \in first .. p : pages[q] = None}
  IN  /\ pages' = [p \in Page |-> IF p \in done THEN Down(BufferBase[b]) ELSE pages[p]]
      /\ fault' = IF done = at THEN fault ELSE "vm_arch_pt_map"

\* The loop of register_resource.  vm_arch_pt_map asserts that nothing is mapped there.
MapPages(first, b) ==
  LET at == first .. first + Pages(b) - 1
      done == {p \in at : \A q \in first .. p : pages[q] = None}
  IN  /\ pages' = [p \in Page |-> IF p \in done THEN Down(BufferBase[b]) + p - first ELSE pages[p]]
      /\ fault' = IF done = at THEN fault ELSE "vm_arch_pt_map"

\* kdev_map_resource where the region found has the right length.
MapWhole(b) ==
  \E r \in Found(Fits(Pages(b))) :
    /\ len[r] = Pages(b)
    /\ res' = [res EXCEPT ![r] = b]
    /\ MapPages(vaddr[r], b)
    /\ UNCHANGED <<head, next, vaddr, len, cacheVars>>

\* Mutant of MapSplit: the rest starts where the region does.
MapSplitInPlace(b, new) ==
  LET n == Pages(b)
  IN  \E r \in Found(Fits(n)) :
        /\ len[r] > n
        /\ new \notin live \/ twice
        /\ live' = live \cup {new}
        /\ reused' = (reused \/ new \in Listed)
        /\ vaddr' = [vaddr EXCEPT ![new] = vaddr[r]]
        /\ len' = [len EXCEPT ![new] = len[r] - n, ![r] = n]
        /\ next' = [next EXCEPT ![new] = next[r], ![r] = new]
        /\ res' = [res EXCEPT ![new] = Free, ![r] = b]
        /\ UNCHANGED <<head, twice>>
        /\ Bounded
        /\ MapPages(vaddr'[r], b)

\* kdev_map_resource where the region found is longer: a new one takes the rest.  The cache
\* hands out any region that it has, which may be on the list and even be r itself.
MapSplit(b, new) ==
  LET n == Pages(b)
  IN  \E r \in Found(Fits(n)) :
        /\ len[r] > n
        /\ new \notin live \/ twice
        /\ live' = live \cup {new}
        /\ reused' = (reused \/ new \in Listed)
        /\ vaddr' = [vaddr EXCEPT ![new] = vaddr[r] + n]
        /\ len' = [len EXCEPT ![new] = len[r] - n, ![r] = n]
        /\ next' = [next EXCEPT ![new] = next[r], ![r] = new]
        /\ res' = [res EXCEPT ![new] = Free, ![r] = b]
        /\ UNCHANGED <<head, twice>>
        /\ Bounded
        /\ MapPages(vaddr'[r], b)

\* kdev_map_resource where new_region returns NULL, for want of room or of a new
\* region: the resource is stored through it.
MapFails(b) ==
  /\ \/ AtEnd(Fits(Pages(b)))
     \/ \E r \in Found(Fits(Pages(b))) : len[r] > Pages(b) /\ (live = Region \/ twice)
  /\ fault' = "region is NULL"
  /\ UNCHANGED devVars

Map(b) ==
  \/ MapWhole(b) \/ MapFails(b) \/ Endless(Fits(Pages(b)))
  \/ \E new \in Region : MapSplit(b, new)

-----------------------------------------------------------------------------
\* The loop of unregister_resource.  vm_arch_pt_unmap asserts that a page is mapped.
UnmapPages(first, n) ==
  LET at == first .. first + n - 1
      done == {p \in at : \A q \in first .. p : pages[q] # None}
  IN  /\ pages' = [p \in Page |-> IF p \in done THEN None ELSE pages[p]]
      /\ fault' = IF done = at THEN fault ELSE "vm_arch_pt_unmap"

\* Mutant of FreeAt: the next region is taken in whether it is free or not.
FreeAtAlways(r, nx, ln, given) ==
  LET s == nx[r]
      joins == s # None
      gone == given \cup (IF joins THEN {r} ELSE {})
  IN  /\ next' = IF joins THEN [nx EXCEPT ![r] = nx[s]] ELSE nx
      /\ len' = IF joins THEN [ln EXCEPT ![r] = ln[r] + ln[s]] ELSE ln
      /\ live' = live \ gone
      /\ twice' = (twice \/ ~(gone \subseteq live))
      /\ UNCHANGED <<head, vaddr, reused>>
      /\ Bounded
      /\ UnmapPages(vaddr[r], ln[r])

\* The end of free_region_for, and the loop of unregister_resource: region r is free,
\* nx and ln being the pointers and lengths so far, and its pages are unmapped.  The region
\* takes in the next one if that is free; the next one leaves the list, but it is region r
\* that is given back to the cache, after those in given.
FreeAt(r, nx, ln, given) ==
  LET s == nx[r]
      joins == s # None /\ res'[s] = Free
      gone == given \cup (IF joins THEN {r} ELSE {})
  IN  /\ next' = IF joins THEN [nx EXCEPT ![r] = nx[s]] ELSE nx
      /\ len' = IF joins THEN [ln EXCEPT ![r] = ln[r] + ln[s]] ELSE ln
      /\ live' = live \ gone
      /\ twice' = (twice \/ ~(gone \subseteq live))
      /\ UNCHANGED <<head, vaddr, reused>>
      /\ Bounded
      /\ UnmapPages(vaddr[r], ln[r])

\* unregister_resource of a buffer whose region comes after one in use.
UnregisterAlone(b) ==
  \E r \in Found(Holds(b)), q \in Before(Holds(b)) :
    /\ res[q] # Free
    /\ res' = [res EXCEPT ![r] = Free]
    /\ FreeAt(r, next, len, {})

\* unregister_resource of a buffer whose region comes after a free one, which takes it in.
\* The pages of both are to be unmapped.
UnregisterJoined(b) ==
  \E r \in Found(Holds(b)), q \in Before(Holds(b)) :
    /\ res[q] = Free
    /\ res' = [res EXCEPT ![r] = Free]
    /\ FreeAt(q, [next EXCEPT ![q] = next[r]], [len EXCEPT ![q] = len[q] + len[r]], {r})

\* unregister_resource of the buffer in the first region, which is marked as free before
\* last, which is NULL, is read.
UnregisterFirst(b) ==
  /\ head \in Holds(b)
  /\ res' = [res EXCEPT ![head] = Free]
  /\ fault' = "last is NULL"
  /\ UNCHANGED <<head, next, vaddr, len, cacheVars, pages>>

\* No region has the resource: a panic.
NotMapped(T) ==
  /\ AtEnd(T)
  /\ fault' = "not mapped"
  /\ UNCHANGED devVars

Unregister(b) ==
  \/ UnregisterAlone(b) \/ UnregisterJoined(b) \/ UnregisterFirst(b)
  \/ NotMapped(Holds(b)) \/ Endless(Holds(b))

\* kdev_unmap_resource passes the address of a page where free_region_for compares
\* resources: no region has it.
Unmap == NotMapped({}) \/ Endless({})

=============================================================================
