-------------------------------- MODULE KHeap --------------------------------
(***************************************************************************)
(* The page heap of the kernel, kernel/kernel/kheap.c, with the page       *)
(* tables of i686, arch/i686/vm.c, over the frames of MemZones.  A page of *)
(* the heap gets its frame at the first access, in the page fault.  The    *)
(* caller is the slab allocator: it writes to a page as soon as it has it, *)
(* and it gives pages back, also when the page fault asks for a trim.      *)
(*                                                                         *)
(* The contents of frames are not modelled: neither is what the users of   *)
(* one frame do to each other.                                             *)
(*                                                                         *)
(* The heap is its first chunk.  heap_free_space never changes after the   *)
(* chunk was added, so kheap_alloc_page does not come to                   *)
(* create_new_chunk (ASSUME ChunkAssumption).                              *)
(***************************************************************************)
EXTENDS Integers, Sequences, FiniteSets

CONSTANTS
  ChunkPages,   \* the number of pages of the chunk
  Meta,         \* the number of its pages that hold its buddy allocator
  Invalid,      \* its pages that vm_arch_iter_reserved_vaddresses reports
  TablePages,   \* the number of pages that one page table maps
  ZonePages,    \* the number of frames of the only zone
  ZoneInfo,     \* how many of them its tables occupy
  Caller,       \* the variables that hold a page of the heap
  Foreign,      \* an address outside of the zone
  None

Page == 0 .. ChunkPages - 1
Table == {p \div TablePages : p \in Page}

ASSUME SizeAssumption ==
  /\ ChunkPages \in Nat /\ TablePages \in Nat \ {0}
  /\ Meta \in 1 .. ChunkPages - 1
  /\ Invalid \subseteq Meta .. ChunkPages - 1
ASSUME ChunkAssumption == ChunkPages - Meta > 1
ASSUME ZoneAssumption == ZonePages \in Nat /\ ZoneInfo \in 1 .. ZonePages - 2

VARIABLES
  zones, busyFrames, state, held, ret, memFault,   \* of MemZones
  reg,        \* the pages that the buddy allocator of the chunk has given out
  freeSpace,  \* free_space of the chunk, in pages
  tables,     \* the page tables that are present: tables[t] is the frame, or None
  map,        \* map[p]: the frame in the page table entry of p, or None
  page,       \* page[c]: the page that caller c holds, or None
  fresh,      \* the page that is being accessed for the first time, or None
  stage,      \* how far the access has come
  heapFault   \* what has stopped the kernel

memVars == <<zones, busyFrames, state, held, ret, memFault>>
vars == <<memVars, reg, freeSpace, tables, map, page, fresh, stage, heapFault>>

\* A frame is allocated for a page of the heap or for a page table.
FrameUser == ({"page"} \X Page) \cup ({"table"} \X Table)

Mem == INSTANCE MemZones WITH
         Zone <- {"zone"}, Pages <- [z \in {"zone"} |-> ZonePages],
         Info <- [z \in {"zone"} |-> ZoneInfo], Holder <- FrameUser,
         busy <- busyFrames, fault <- memFault

ASSUME NoneAssumption == None \notin Page /\ None \notin Mem!Address /\ Foreign \notin Mem!Frame

Running == heapFault = "none" /\ memFault = "none"
TableOf(p) == p \div TablePages

\* kheap_init is under way until the pages of the buddy allocator are mapped.
Ready == \A p \in 0 .. Meta - 1 : map[p] # None

\* init_first_chunk, after the only zone was created.  The pages of the buddy allocator
\* and the invalid ones are registered; free_space does not count the former.
Init ==
  /\ zones = <<"zone">>
  /\ busyFrames = [z \in {"zone"} |-> 0 .. ZoneInfo - 1]
  /\ state = [z \in {"zone"} |-> [f \in 0 .. ZonePages - 2 |-> IF f < ZoneInfo THEN "fixed" ELSE "free"]]
  /\ held = [u \in FrameUser |-> None]
  /\ ret = "page" /\ memFault = "none"
  /\ reg = 0 .. Meta - 1 \cup Invalid
  /\ freeSpace = ChunkPages - Meta
  /\ tables = [t \in Table |-> None]
  /\ map = [p \in Page |-> None]
  /\ page = [c \in Caller |-> None]
  /\ fresh = None /\ stage = "frame" /\ heapFault = "none"

-----------------------------------------------------------------------------
(* The first access to a page *)

\* The access to a page of the buddy allocator during kheap_init, or to a new page.
Accessed(p) ==
  /\ Running
  /\ \/ fresh = p
     \/ ~Ready /\ p = CHOOSE q \in Page : map[q] = None /\ \A r \in 0 .. q - 1 : map[r] # None

\* There is an entry for the page: no fault.
Access ==
  /\ Running /\ fresh # None /\ map[fresh] # None
  /\ fresh' = None
  /\ UNCHANGED <<memVars, reg, freeSpace, tables, map, page, stage, heapFault>>

\* mm_alloc_page in chunk_pgfault_handler, or in init_first_chunk
GetFrame(p) ==
  /\ Accessed(p) /\ map[p] = None /\ stage \in {"frame", "retry"}
  /\ Mem!AllocPage(<<"page", p>>, IF Ready THEN "occupied" ELSE "fixed")
  /\ stage' = "map"
  /\ UNCHANGED <<reg, freeSpace, tables, map, page, fresh, heapFault>>

\* There is no frame: the handler trims the caches, and gives up the second time.
NoFrame ==
  /\ fresh # None /\ Accessed(fresh) /\ map[fresh] = None /\ stage \in {"frame", "retry"}
  /\ Mem!AllocNone
  /\ IF stage = "frame"
     THEN stage' = "trim" /\ UNCHANGED heapFault
     ELSE heapFault' = "Couldn't trim enough space" /\ UNCHANGED stage
  /\ UNCHANGED <<reg, freeSpace, tables, map, page, fresh>>

\* The end of kmm_cache_trim_all
Trimmed ==
  /\ Running /\ stage = "trim"
  /\ stage' = "retry"
  /\ UNCHANGED <<memVars, reg, freeSpace, tables, map, page, fresh, heapFault>>

\* create_new_dir in vm_arch_pt_map, when the page table is missing
MapTable(p) ==
  /\ Accessed(p) /\ stage = "map" /\ tables[TableOf(p)] = None
  /\ \/ /\ Mem!AllocPage(<<"table", TableOf(p)>>, "occupied")
        /\ tables' = [tables EXCEPT ![TableOf(p)] = held'[<<"table", TableOf(p)>>]]
        /\ UNCHANGED heapFault
     \/ /\ Mem!AllocNone
        /\ heapFault' = "Couldn't allocate new frame for PD"
        /\ UNCHANGED tables
  /\ UNCHANGED <<reg, freeSpace, map, page, fresh, stage>>

\* vm_arch_pt_map sets the entry, and the access succeeds.
MapPage(p) ==
  /\ Accessed(p) /\ stage = "map" /\ tables[TableOf(p)] # None
  /\ map' = [map EXCEPT ![p] = held[<<"page", p>>]]
  /\ fresh' = None /\ stage' = "frame"
  /\ UNCHANGED <<memVars, reg, freeSpace, tables, page, heapFault>>

-----------------------------------------------------------------------------
(* kheap_alloc_page and kheap_free_page *)

\* Mutant of AllocPage: free_space is not adjusted.
AllocPageUncounted(c) ==
  /\ Running /\ Ready /\ fresh = None /\ page[c] = None
  /\ freeSpace > 0
  /\ \E p \in Page \ reg :
       /\ \A q \in Page \ reg : p <= q
       /\ reg' = reg \cup {p}
       /\ page' = [page EXCEPT ![c] = p]
       /\ fresh' = p
  /\ UNCHANGED <<memVars, freeSpace, tables, map, stage, heapFault>>

\* kheap_alloc_page asserts that a chunk has free space, and registers its lowest free
\* page.  The caller accesses it next.
AllocPage(c) ==
  /\ Running /\ Ready /\ fresh = None /\ page[c] = None
  /\ freeSpace > 0
  /\ \E p \in Page \ reg :
       /\ \A q \in Page \ reg : p <= q
       /\ reg' = reg \cup {p}
       /\ page' = [page EXCEPT ![c] = p]
       /\ fresh' = p
  /\ freeSpace' = freeSpace - 1
  /\ UNCHANGED <<memVars, tables, map, stage, heapFault>>

\* kheap_alloc_page returns NULL when the buddy allocator has no page, but the chunk has
\* free space: invalid pages are counted as free.  Without free space no chunk is found.
AllocNull ==
  /\ Running /\ Ready /\ fresh = None
  /\ reg = Page
  /\ heapFault' = IF freeSpace > 0 THEN "none" ELSE "kassert chunk != NULL"
  /\ UNCHANGED <<memVars, reg, freeSpace, tables, map, page, fresh, stage>>

\* Whoever has got this frame from mm_alloc_page has lost it, if mm_free_page accepts it.
Forget(f) == held' = [u \in FrameUser |-> IF memFault' = "none" /\ held[u] = f THEN None ELSE held[u]]

\* Mutants of FreePage: the frame is kept; two pages are given back.
FreePageOnly(c) ==
  /\ Running /\ Ready /\ fresh = None
  /\ page[c] # None
  /\ freeSpace' = freeSpace + 1
  /\ reg' = reg \ {page[c]}
  /\ page' = [page EXCEPT ![c] = None]
  /\ UNCHANGED <<memVars, tables, map, fresh, stage, heapFault>>
FreePagePair(c) ==
  /\ Running /\ Ready /\ fresh = None
  /\ page[c] # None
  /\ freeSpace' = freeSpace + 1
  /\ reg' = reg \ {p \in Page : p \div 2 = page[c] \div 2}
  /\ Mem!FreePage(map[page[c]])
  /\ Forget(map[page[c]])
  /\ page' = [page EXCEPT ![c] = None]
  /\ UNCHANGED <<tables, map, fresh, stage, heapFault>>

\* kheap_free_page: the frame in the page table entry is freed, the entry stays.
FreePage(c) ==
  /\ Running /\ Ready
  /\ fresh = None \/ stage = "trim"
  /\ page[c] # None /\ page[c] # fresh
  /\ freeSpace' = freeSpace + 1
  /\ reg' = reg \ {page[c]}
  /\ Mem!FreePage(map[page[c]])
  /\ Forget(map[page[c]])
  /\ page' = [page EXCEPT ![c] = None]
  /\ UNCHANGED <<tables, map, fresh, stage, heapFault>>

Next ==
  \/ Access \/ NoFrame \/ Trimmed \/ AllocNull
  \/ \E p \in Page : GetFrame(p) \/ MapTable(p) \/ MapPage(p)
  \/ \E c \in Caller : AllocPage(c) \/ FreePage(c)

Spec == Init /\ [][Next]_vars

-----------------------------------------------------------------------------
(* Properties *)

\* The heap's variables have the types of the fields of struct chunk_data and of the page
\* table entries, and the zone is well typed.
TypeOK ==
  /\ Mem!TypeOK
  /\ reg \subseteq Page /\ freeSpace \in Nat
  /\ tables \in [Table -> Mem!Address \cup {None}]
  /\ map \in [Page -> Mem!Address \cup {None}]
  /\ page \in [Caller -> Page \cup {None}]
  /\ fresh \in Page \cup {None}
  /\ stage \in {"frame", "trim", "retry", "map"}

\* The pages that callers hold, and those that nobody may have, are exactly the ones
\* that the buddy allocator has given out, and free_space is right but for the invalid pages.
\* The heap is well typed.
SpaceAccounted ==
  /\ TypeOK
  /\ reg = 0 .. Meta - 1 \cup Invalid \cup ({page[c] : c \in Caller} \ {None})
  /\ freeSpace = ChunkPages - Cardinality(reg) + Cardinality(Invalid)

\* No frame is lost: what mm_alloc_page has returned for a page or a page table, and that has
\* not been freed, is in the page table entry of a page in use, or in the page directory.
\* (For the last frame of the zone it returns another address: see WithinArrays of MemZones.)
NoFrameLost ==
  /\ memFault = "none" =>
       \A p \in Page : held[<<"page", p>>] # None =>
         p \in reg /\ (map[p] = held[<<"page", p>>] \/ stage = "map")
  /\ \A t \in Table : held[<<"table", t>>] \in {tables[t], None}

\* The heap gives every page to one caller at a time.
Abs == INSTANCE Allocator WITH Holder <- Caller, Unit <- Page \ (0 .. Meta - 1 \cup Invalid), own <- page
ImplementsAllocator == Abs!Spec

\* Two pages in use, or a page in use and a page table, do not share a frame, whatever
\* pages were given back and handed out again before, as long as mm_alloc_page returns the
\* frames of the zone.
NoAliasing ==
  Mem!WithinArrays =>
    \A p \in reg : map[p] # None =>
      /\ \A q \in reg \ {p} : map[q] # map[p]
      /\ \A t \in Table : tables[t] # map[p]

=============================================================================
