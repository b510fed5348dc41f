# A formal model of the yaeos kernel

yaeos is a small single-processor kernel for i686, written in C.  Almost all of its own logic is
memory management: four allocators stacked on each other, and a page fault handler through which
the lowest calls back into the highest.  This directory models that stack in TLA+, with the start
of the kernel, the interrupts and the structures that the rest is built on, checks it with TLC on
small instances, and proves the stack of allocators (pages of a range, objects of a cache, caches
that use each other, frames of all zones, pages of the heap), the page tables, the address spaces,
the start with resources and device memory, and the red-black tree, containers, small allocators
and interrupt lines underneath for instances of every size with TLAPS.

The source is the reference.  Paths below are relative to `src/kernel/`; `PROJECT.json` lists, for
every definition that models code, the file and the lines it stands for.

## 1. The system

### How the parts interact

```
   kmalloc      dev areas     vm areas         drivers, tests
      \             |            |             /
       +------------+-----+------+------------+
                          |  kmm_cache_alloc / kmm_cache_free
                slab allocator (kmm.c)  <----------------------------+
                          |  kheap_alloc_page / kheap_free_page      | kmm_cache_trim_all
                  kernel heap (kheap.c)  -- first access: page fault +
                          |  buddy allocator of a chunk   \
                          |                                \ vm_arch_pt_map
                          |  mm_alloc_page / mm_free_page   page tables (arch/i686/vm.c)
              physical zones (mm.c)  <-----------------------/
                          |  buddy_alloc / buddy_free
               buddy allocator (buddy.c) over bitmaps (bitmap.c)
```

At the start the memory map of the boot loader becomes resources, memory resources become zones,
and modules claim device buffers and have them mapped:

```
   platform_resources.c -> resources.c -> kernel_init: zones (mm.c)
                                       -> modules (video.c) -> dev.c -> page tables
```

There is one processor, no scheduler and no locks, and the interrupt handlers that exist do not
allocate.  What makes the code hard is not parallelism but re-entrance: the first write to a page
that the heap has just handed out raises a page fault *inside* `kmm_cache_alloc`.  When there is
no frame, the fault handler calls `kmm_cache_trim_all`, which destroys slabs, possibly of the very
cache whose call is in progress, and which gives pages and metadata objects back to the heap and
to other caches.

### Inventory

| Component (source) | State | Operations | What is hard | What makes it correct | Module |
|---|---|---|---|---|---|
| Buddy allocator, bitmaps (`lib/mm/buddy.c`, `lib/ds/bitmap.c`) | one bitmap for each level | init, alloc, try_alloc, free, is_free | bits of several levels change together; lengths that are no power of two | no page twice, none lost, no access past a bitmap | `Buddy` in `Library`, `LibraryProofs` |
| Slab cache (`kernel/mm/kmm.c`) | three lists of slabs; for each slab a counter and a list of free buffers | cache init, alloc, free, trim, destroy | list moves depend on counters read early; trims in the middle of calls | lists agree with counters, no object twice, none lost, trims spare objects in use | `SlabCache`, `SlabCacheProofs` |
| Slab allocator as a whole (`kernel/mm/kmm.c`) | the list of all caches, the static caches | init, create, alloc, free, trim_all | a large cache allocates its metadata from two other caches; each of the nested calls may fault or fail | metadata is balanced, trims are complete, calls end | `Kmm`, `KmmProofs` |
| Physical memory zones (`kernel/mm/mm.c`) | list of zones; in each a buddy allocator, an array of page states, a linear allocator | init, zone_create, alloc_page, free_page, get_page_by_paddr | two records of the same fact; the tables lie in the zone that they describe | page states agree with the buddy allocator; no frame lost | `MemZones`, `MemZonesProofs` |
| Kernel heap (`kernel/kheap.c`) | chunks, each a vm area with a buddy allocator and a count of free pages | init, alloc_page, free_page, page fault | lazy mapping; trims while a fault is handled; creating a chunk allocates | a page has one owner and one frame; counts are right | `KHeap`, `KHeapProofs` |
| Page tables (`arch/i686/vm.c`, `vm.asm`, `early_paging.c`) | page directory, page tables, one emergency entry, the processor's TLB | map, unmap, resolve, fault dispatch | one emergency entry for all tables; what the processor remembers of it | the entry shows the table in hand; no stale translation; an entry is set once | `PageTables`, `PageTablesProofs` |
| Address spaces and areas (`kernel/mm/vm.c`, `vm_area.c`, `vm_space.c`, `addr.c`) | areas in a tree and in a sorted list | insert, remove, find_gap, new_area, free_area | two structures kept in step; gap arithmetic without a sign | areas are disjoint and sorted; a gap found is free | `VmSpace`, `VmSpaceProofs` |
| Red-black tree (`lib/ds/rbtree.c`) | nodes with colour and parent in one word | insert, delete, search, search_min, search_max, iter_range | rebalancing, swap of neighbours | search order, colours, black height; searches find the nearest node | `RbTree` in `Library`, `LibraryProofs` |
| kmalloc (`kernel/mm/kmalloc.c`) | seven caches, a byte in front of each piece of memory | kmalloc, kfree | sizes plus header at a power of two; no check of NULL | pieces are disjoint; kfree finds the cache that kmalloc used | `KMalloc` in `Library`, `LibraryProofs` |
| Device memory (`kernel/mm/dev.c`) | list of regions of the device area | map, unmap a resource | coalescing with both neighbours; the wrong region is given back | regions tile the area; page table entries match regions | `KDev` in `Startup`, `StartupProofs` |
| Resources (`kernel/resources.c`) | fixed array; lists of free and claimed resources | register, claim by id or type | claims of two kinds on one list | a resource is on the list that its owner says | `Resources` in `Startup`, `StartupProofs` |
| Memory map (`arch/i686/platform_resources.c`, `kernel/kernel.c`) | the entries not visited yet | register memory, create zones | six cases of overlap with the kernel image, 32-bit arithmetic, rounding | zones are the free memory, without the kernel | `MemoryMap` in `Startup`, `StartupProofs` |
| Linear allocator (`lib/mm/linear.c`) | base, position, limit | alloc, alloc_aligned, free, forbid | exact fit, alignment | allocations are disjoint and inside | `Linear` in `Library`, `LibraryProofs` |
| Pool allocator (`lib/mm/pool.c`) | list of free nodes | init, alloc, free | stride, limit and alignment | elements are disjoint and inside | `Pool` in `Library`, `LibraryProofs` |
| Interrupts (`arch/i686/intr.c`, `intr.asm`, `exceptions.c`, `descriptors.c`) | table of handlers, default handler; two interrupt controllers outside | register, dispatch, acknowledge | numbering of lines in two places; spurious interrupts; exceptions in handlers | a line reaches its handler, and no line stays in service | `Interrupts` in `Library`, `LibraryProofs` |
| Key-value store (`lib/ds/kvstore.c`) | arrays of keys and values with holes | append, find, remove, change, iter | holes are NULL keys | implements a partial function | `KVStore` in `Library` and `Interrupts`, `LibraryProofs` |
| Single-linked list (`lib/ds/slist.c`) | links | insert, remove, remove_next | removal asserts membership | - | as sets in `SlabCache`, link by link in `KDev`, as sequences elsewhere |
| Circular buffer (`include/lib/ds/cbuffer.h`) | two indices and a count | push, pop | wrap-around | implements a bounded queue | `CBuffer` in `Library`, `LibraryProofs` |
| Screen (`modules/i686/video.c`, `kernel/console.c`) | character buffer, cursor | write, clear | line feeds, full rows and ends of messages that coincide; scrolling | the screen shows the last lines of what was written | `Screen` in `Console` |
| Printing (`lib/cstd/stdio/vfprintf.c`) | the conversion in hand | kfprintf | length predicted here and printed there; flags | printed fields are what C says | `Printf` in `Console` |
| Modules, consoles (`kernel/modules.c`, `kernel/console.c`) | lists | load, register | order of loading | a console is registered after its buffer is mapped | in `Startup`, `StartupProofs` |
| Timer (`kernel/timer.c`, `arch/i686/pit.c`) | the timer in use | init | none: `timer_call_after` is empty | - | its registration of line 0, in `Interrupts` |
| Log, panic, ownership flag, AArch64 port, scripts | - | - | none: output, stubs, unused | - | not modelled |

The hazards, each at the line where it bites and with the properties that watch it, are in
`PROJECT.json` under `hazards`.  Where the code goes wrong at such a line, no property can hold of what
follows: the model does what the code does, the hazard has no property but a note, and the
properties nearby say up to where they are claimed.

## 2. The modules

`Allocator` is the abstract specification that every allocator of the kernel shares: a unit goes
to at most one holder at a time, and only its holder gives it back.  `Buddy`, `SlabCache`,
`MemZones` and `KHeap` are each shown to implement it, by a refinement mapping that forgets
everything but who holds what.

```
Allocator   <-- Buddy (in Library)
            <-- SlabCache   <-- SlabCacheProofs
                    ^-- Kmm  (three instances: U, B, S)  <-- KmmProofs (with SlabCacheProofs)
            <-- MemZones    <-- MemZonesProofs
                    ^-- KHeap (one instance: Mem)        <-- KHeapProofs
Regions     <-- VmSpace     <-- VmSpaceProofs
AddressMap  <-- PageTables  <-- PageTablesProofs
Startup = Resources + KDev (implements Regions) + MemoryMap  <-- StartupProofs
Library = Buddy (Allocator) + KVStore (Dictionary) + CBuffer (BoundedQueue)
          + Linear, Pool, KMalloc (Regions) + RbTree
          + Interrupts (which has a KVStore for its register report)  <-- LibraryProofs
Console = Screen + Printf
```

`Regions` and `AddressMap` are the abstract specifications of address spaces and of page tables,
`Dictionary` and `BoundedQueue` those of the two containers.

The `MC...` modules add the symmetry sets, and values that a `.cfg` cannot write.

### Buddy

`bits[l]` is the set of the true bits of level `l`; level 0 has a bit for each page. `Alloc`,
`AllocFull` and `AllocTooLarge` are the three ways in which `buddy_alloc` ends, `TryAlloc` is
`buddy_try_alloc`, `Free` is `buddy_free`.  `OccupyBuddy`, `ClearBlock` and `FreeAncestors` are
the loops over the levels; a loop becomes a function on the levels.  Two things of the code are
kept because they matter: `occupy_buddy` shifts by the level and not by the difference of levels,
and `free_buddys_ancestors` reads the right sibling without a test of the length.  A bitmap access
out of bounds fails a `kassert` (`assert_bounds`); the model records it in `fault` and stops.
`held` belongs to the environment: what the callers have been given.  The words of a bitmap are
abstracted to a set of bits; `bitmap_search_false` still finds the lowest false bit.  The module is
one of the parts of `Library`, where `held` is the variable `owned`.

### SlabCache

A slab is on `empty`, `partial` or `full`; `inuse` is `objects_inuse`, `free` the list
`free_buffers`, `made` the objects on which the constructor has run.  The lists are sets: the code
takes the head, the model any member.  The order of a list does not influence anything that the
properties talk about.

A call that needs a page is split where the page fault can happen: `GrowBegin` / `GrowEnd` /
`GrowFail` for an allocation that needs a new slab (`get_new_slab`), `Free` / `FreeEnd` for a
large object, whose free buffer needs a `bufctl` from another cache.  `Trim` may come in between.
A failed `kassert`, or a write to a slab that was destroyed, sets `fault`.

### Kmm

Three caches: `U`, a cache of large objects, `B` (`CACHES.large_bufctls`) and `S`
(`CACHES.slabs`), each an INSTANCE of `SlabCache`.  `Kmm` adds what happens between them. `stage`
is the place in the call on `U` in progress: getting a slab object from `S` (`GetSlabObject`), a
page (`PageAlloc`, `PageWritten`, `PageFault`), one bufctl after the other from `B`
(`GetNewBufctl`), or the one bufctl of a free (`GetFreeBufctl`).  `trimming` is the place in
`kmm_cache_trim_all`, which visits `U`, `B`, `S` in the order of registration reversed. When `B`
or `S` needs a page itself, its own `grow` says so, and the same `Page...` actions serve it.

Frames are shared with the rest of the kernel, so whether a page fault finds one is left open. The
second attempt after a trim is not: it succeeds exactly when the trim gave a page back
(`FrameMayLack`, `FrameMayBeLeft`), since nobody else runs in between.

### MemZones

Zones are created at any time (`ZoneCreate`) and searched last-registered first.  A zone's buddy
allocator is abstracted to the set of its busy frames, of which the lowest free one is handed out.
That is level 0 of `Buddy` with single pages, which is all that the kernel asks for; `LibraryProofs`
shows that level 0 is exactly the set of pages held (`LeavesAreHeld`) and that the upper levels do
not influence it.  `buddy_init` returns the highest index of a page and `mm_zone_create` takes it
for their number: the array of pages has one entry less than the buddy allocator hands out
(`Entry`), and `pages_count` is smaller still by the frames of the tables (`PagesCount`).  Both
are modelled as they are.  The `struct mm_page` of the last frame lies behind the array, so its
address may be that of any frame of any zone, or of nothing that `mm.c` knows (`Foreign`): that is
what the caller of `AllocPage` then holds, and what `GiveBack` hands to `mm_free_page`.
`WithinArrays` says that no zone has come so far.

### KHeap

One chunk of the heap over one zone of `MemZones`.  `reg` is the set of pages that the chunk's
buddy allocator has given out, `freeSpace` the field `free_space` in pages, `map` the page table
entries and `tables` the page tables present.  `GetFrame`, `NoFrame`, `Trimmed`, `MapTable` and
`MapPage` are the steps of `chunk_pgfault_handler` and of `vm_arch_pt_map` under it; the same
steps map the first pages in `init_first_chunk`.  Between `NoFrame` and `Trimmed` callers give
pages back, which is all that the heap sees of a trim.  `FreePage` frees the page and the frame in
its page table entry, and leaves the entry: that is what `chunk_unregister_page` does.  When
`mm_free_page` accepts the frame, whoever had it from `mm_alloc_page` has lost it (`Forget`).

`create_new_chunk` is not modelled: `heap_free_space` is set when the first chunk is added and
never decremented, so the condition under which `kheap_alloc_page` would create another chunk does
not come true if the first chunk has more than one page to give (`ChunkAssumption`).

### VmSpace

`tree` is the set of areas in the tree, `list` the sorted list; `base` and `len` are the fields of
an area. Addresses are integers modulo `Word`, so that the subtractions of `vm_space_find_gap`
wrap around as the code's do.  `GapBase` and `GapLength` are the gaps that it yields; `Neighbour`
is the `rbtree_search_max` that yields the predecessor in the list; `Insert` is `vm_area_init`
with `vm_space_insert_area` and all of its `kassert`s.  `InsertSegment` and `ZoneCreate` place the
areas of the kernel image and of the zones (which shrink to their tables), `InsertHeap` puts the
heap into the largest gap; `NewArea`, `NewAreaNoGap` and `FreeArea` are `vm_new_area_within_space`
and `vm_free_area`.  Here the tree is a set with a search for the nearest address; that the real
tree finds it is what `RbTree` shows.

### RbTree

`t` is the tree: root, links, parents and colours as functions on the nodes.  The loops of
`rbt_insert_fix` and `rbt_delete_fix` are the actions: each case of a loop's body is an action,
`pc` says which loop runs, `node` is its variable.  `Insert` and `Delete` are the parts before the
loop.  The helpers (`RotateLeft`, `SwapNodes`, `ReplaceSubtree`) keep the order of the code's
assignments, because later ones read what earlier ones wrote.  Keys may be equal.  The searches
and the iteration do not change the tree: they are recursive functions on it, checked in every
state.  The iteration is a function of where the loop is and where it comes from, both in the
tree; outside of it the function has no value, so a loop that left the tree would be an error.

### PageTables

`pd` is the page directory, `content` the tables, `emergency` the emergency entry.  An operation
is the sequence of its accesses: `NewTable`, `ClearTable`, `SetTable` are `create_new_dir`,
`Enter` is `get_pge_for_vaddr`, `Leave` is `free_emergency_entry`, `MapPage`, `UnmapPage` with
`Flush`, and `ResolvePage` are what `vm_arch_pt_map`, `_unmap` and `_resolve_phys_page` do between
them.  Between any two steps the processor may keep a present translation (`Fill`, `FillTable`) or
drop one (`Evict`, `EvictTable`); an access to `EMERGENCY_DIR` goes where the processor's
translation leads (`Reached`).  The operations do not nest: `kheap.c` resolves and maps from its
own code and its fault handler, never from inside of `arch/i686/vm.c`, whose only callee,
`mm_alloc_page`, touches no more than the tables of registered zones, which `mm_zone_create` has
written, and so mapped, before.  Callers map pages without a mapping, unmap and resolve pages with
one; a frame for a new table may hold anything.

### Startup, with MemoryMap, Resources and KDev

`MemoryMap` has no state: `Available` is `iter_without_unavail`, test by test in the order of the
code, `LongEnough` and `Cut` are `register_mem_region`, `ZoneFor` is `register_zone_for_mem`; all
arithmetic is modulo `Word`.  `Resources` has the array and the two lists; `Claim` takes the first
free resource of a wanted set, which is a name or a type.

`KDev` keeps the list of regions link by link (`head`, `next`) with their addresses, lengths and
resources, the regions that `REGIONS_CACHE` has handed out (`live`), and the page table entries of the
area (`pages`).  `Visited`, `Found`, `Before` and `AtEnd` are what a `SLIST_FOREACH` comes to, the
last region before, and its end; on a circle it has none (`Endless`).  `MapWhole`, `MapSplit` and
`MapFails` are `new_region`, `MapPages` is the loop of `register_resource`; `UnregisterAlone`,
`UnregisterJoined`, `UnregisterFirst` and `NotMapped` are `free_region_for`, `UnmapPages` is the loop of
`unregister_resource`.  A region that was freed while it is still on the list (line 111) is
modelled as it is: it keeps its contents until the cache hands it out once more, then `MapSplit`
links it in where it still is, the list loses regions or closes to a circle, and the kernel goes
on with that; `reused` records that it has happened.  The same region may be freed twice (`twice`);
from then on the cache may hand out any region, or none.  `UnregisterFirst` stops where `last`, which is NULL, is
read; the region has been marked as free by then and its pages are still mapped.  A failed
`kassert` of `vm_arch_pt_map` or `vm_arch_pt_unmap` leaves the pages before it done.

`Startup` composes them in the order of the code, `stage` being the place: entries of the memory
map one after the other (`NextEntry`, `RegisterMemory`, `RegisterDevice`), `register_mem_zones`
(`RegisterZone`, `ZonesDone`), the modules (`LoadModule`, `LoadVideo`, `LoadVideoMap`).  After
that drivers use what `resources.h` and `dev.h` offer (`DriverClaim`, `DriverMap`,
`DriverUnregister`, `DriverUnmap`).  At this commit the video driver is the only one in the tree;
these stand for its successors.

### Library

These parts share no state and each is small, so one module checks them: `part` is chosen from
`Parts` at the start and says which one a behaviour uses.  A step of a part is a step of its
module; the others stand still.

- `Buddy`: see above.
- `KVStore`: slots with holes; `Reached` are the slots that `kvstore_remove` and `kvstore_change`
  come to before they hand a NULL key to the comparison.
- `CBuffer`: the fields and the three ways in which the two macros end.
- `Linear`, `Pool`: addresses are numbers; the alignment and the limits are the code's.  Users
  give back to a linear allocator last first.
- `KMalloc`: `CacheIndex` and `HeaderOf` are the arithmetic, `memory` the bytes with the headers
  in them; `Fill` is a user that writes to all that it asked for.  `kmm_cache_alloc` yields any
  place that is free, or NULL.  Like a linear allocator, `kmalloc` answers a request for no bytes
  with an address at which nothing is held; no run asks for that, the proofs cover it.
- `Interrupts`: `Install` with `HandlerPic` numbers a line when it is registered, `EnterLine` when
  it is served.  The controllers are external: lines requested (`irr`) and in service (`isr`),
  with the priorities of a cascade (`HeldBack`), spurious interrupts, and EOI commands that end
  the line of highest priority.  A handler may cause an exception (`Trap`).  `DefaultHandler`
  fills a `KVStore` with the registers, one after the other.
- `RbTree`: see above.

### Console

The output side is composed in the same way: `part` says whether a behaviour writes to the screen
or prints a field.

- `Screen`: a step is a round of the loop of `video_write`; `LastRun` is the round with which a
  message ends.
- `Printf`: `Parse`, `Fetch`, `Length`, `Body`, `Prefix`, `Sign` and `PrintConvSpec` are the
  functions of `vfprintf.c`.  `Text` writes the conversion that is then parsed; numbers wrap at
  the width of their length modifier.  `Words` are the widths of `size_t`: where it is no wider
  than the enum, the mark of an absent width fails the `kassert` on line 609.

## 3. What is checked

| Run | Instance | States | Shows |
|---|---|---|---|
| `buddy` | the part of `Library`: 6 pages, 7 holders, orders 0 and 5 | 136 096 | no page twice, none lost, no access out of bounds, upper levels never free too early; implements `Allocator` |
| `slab` | 3 slabs of 3 buffers, 6 holders, large | 26 206 | lists agree with use, no buffer lost, trims spare objects in use, no assertion fails, objects are constructed and destructed once; implements `Allocator` |
| `kmm` | 2 slabs, 4 heap pages, 4 holders | 242 480 | the three caches stay sound, metadata is balanced, a trim of all is complete, every call returns or stops the kernel |
| `kmm_shortage` | 2 slabs, 5 heap pages, 4 holders, frames may lack in a free | violation | a slab is written to after the trim destroyed it |
| `zones` | zones of 5 and 7 frames, 6 holders | 6 473 | page states agree with the buddy allocators; no frame lost, and implements `Allocator`, until a zone gives out its last frame |
| `kheap` | 6 pages, 2 page tables, 7 frames, 4 callers | 3 295 | counts are right, no frame lost; implements `Allocator` |
| `kheap_reuse` | the same | violation | a page that is handed out again shares its frame |
| `vm_space` | 32 addresses, pages of 2, 6 areas | 3 801 | tree and list agree, gaps do not overlap areas, a request fails only for want of room; implements `Regions` |
| `page_tables` | 2 tables of 2 entries, 2 target frames | 25 192 | the emergency entry shows the table in hand, translations are current, no assertion fails; implements `AddressMap` |
| `startup` | 118 memory maps over 64 addresses, 3 buffers, 4 regions in an area of 5 pages | 142 351 | zones are the free memory, resources agree with their owners; regions agree with the page table, and device memory implements `Regions`, until a region that is on the list is handed out again |
| `library` | the other parts, see `MCLibrary.cfg`; a tree of 8 nodes, two with the same key | 105 844 | containers keep order, small allocators implement `Regions`, lines reach their handlers and leave service; the tree keeps order, balance and links, its assertions hold, searches and iterations are right, calls return |
| `console` | a screen of 2 by 2; conversions of 5 numbers, see `MCConsole.tla` | 34 100 | the screen shows the text, fields are standard |

No property restates another one.  Type invariants are not checked by themselves: where one is
needed, it is a conjunct of an invariant that a run checks (`ListMatchesTree`, `HoldsMembers`,
`Balanced`, `CachesSound`), and every module that section 4 is about has its own proved there.
`SearchesAreRight` is the conjunction of `SearchesFindNearest` and `IterationCoversRange`;
`AllocatorsImplementRegions` and `ContainersKeepOrder` are conjunctions over the parts of
`Library`.

### Why the bounds are enough

- `buddy`: 6 is even and not a power of two, with levels of 6, 3 and 1 blocks, so one level has an
  odd length and a bit without a right sibling.  7 holders exceed the pages: memory runs out.
  Order 5 is a request that is refused (there are 3 levels).
- `slab`: with 3 buffers a slab can be partial with one and with two objects in use, and so the
  moves full to partial, partial to empty, empty to partial and partial to full are separate
  steps; 6 holders fill two slabs while a third is empty or being created.
- `kmm`: two slabs of three buffers compete for four pages with the pages of their bufctls and
  slab objects, so that every one of the nested allocations fails in some behaviour, and so does
  every second attempt.  4 holders need both slabs.  The run has no symmetry, which is unsound for
  liveness.
- `zones`: two zones of different sizes, one and two frames of tables, one holder less than there
  are free frames while both zones exist (9), but more than the smaller zone has; either order of
  creation.  Exhaustion is reached before the second zone is created, and with it the last frame of
  a zone.  Its holder gets every address there is, and frees it: states behind that point are
  explored too, although two of the properties are not claimed of them.
- `kheap`: one page of metadata, one invalid page in the middle, two page tables; 7 frames with
  one of tables leave 6, for one page of metadata, four others and two tables: the last access
  finds no frame.

- `vm_space`: the word is small enough that the length of the last gap, which reaches past the end
  of the addresses, wraps around into the areas at the start, and six areas fill the space.
  Interchangeable areas are symmetric.
- `page_tables`: two tables, so that an operation follows one on another table; two entries, so
  that a table holds a page besides the one in hand; one lazy page and one device page in each
  table.

- `startup`: the maps have entries before, around, at and behind the kernel, beyond the last
  address, unusable, and so short that they have no page.  Buffers have two pages and one, and the device
  area has a page more than all of them need, so that a free region at its end is joined and cut
  again.  With four regions the cache runs out, gets a region twice, and hands regions out again
  that are still on the list.  Such a list may have regions that overlap and grow without end when
  they are joined: `MaxPages`, the end of the area here, cuts this off (`Bounded`), and does so
  only when `reused` is set.
- `library`: capacities of 2 and 3, so that indices wrap and stores fill; requests around the
  sizes of the classes of kmalloc; lines of both controllers, and exceptions with and without an
  error code.  With 8 nodes every case of both loops of the tree is reached, and those that go on
  are followed by another round; trees are up to four nodes high, so that the searches turn more
  than once.
- `console`: a screen of 2 by 2 with messages of up to 3 characters, longer than a row; widths below
  and above the length of the numbers, all sets of flags.

Runs with `CHECK_DEADLOCK FALSE` are those whose system really stops: a panic or a failed
`kassert` stops the kernel, and a destroyed cache has no operations.  The buddy allocator and the
others that go on for ever are checked for deadlock.  A loop of the tree that got stuck would
violate `CallsReturn`.

### Fairness

Two modules need it.  `Kmm` has `WF_vars(Work)`: `Work` is every step of a call in progress.  The
kernel has one processor and nothing preempts a call but its own page fault, so the processor goes
on with the call; that is all that weak fairness of `Work` says.  Starting a call (`Call`) is up
to the callers and is not fair.  `CallsReturn` then says that no call is caught in a cycle of page
faults and trims.  `Library` has weak fairness of the loops' bodies of the tree, `InsertFix \/ DeleteFix`,
for the same reason; the tree's `CallsReturn` says that no case of a loop leads back to itself.

### Disagreements found

Two runs end in a counterexample, each against a comment or an assertion of the source that
`PROJECT.json` quotes under `findings`:

1. `kmm_shortage`, `kernel/mm/kmm.c:342`: a slab is on the list of empty slabs while the free of
   its last object still allocates, and a trim in that moment destroys it.
2. `kheap_reuse`, `kernel/kheap.c:140`: pages given back stay mapped.

TLC also shows the following, for which no run is kept; a reader gets them by changing the
constants named here.

- `lib/mm/buddy.c:84`: blocks larger than a page mark the wrong blocks at the other levels, so
  that a block of two pages overlaps another one (`MCLibraryPages.cfg` with 4 pages and orders 0
  and 1: `Y!NoDoubleAllocation`, and with it `PagesImplementAllocator`). The kernel does not ask for such blocks; the unit tests do.
- `lib/mm/buddy.c:96`: the right sibling of the last page is read, though with an odd number of
  pages it does not exist (`MCLibraryPages.cfg` with 5 pages, `BitsInBounds`).
- `kernel/mm/kmm.c:513`: a slab of one buffer goes from empty to partial, and a later call fails a
  `kassert` (`SlabCache` with `Capacity = 1`, `NoFault`).  kmalloc's cache for 2048 bytes has such
  slabs.
- `kernel/mm/mm.c:173`: `pages_count` leaves out the frames of the tables (line 100) and is
  compared with an index that counts them, so that the last pages of a zone, properly allocated,
  cannot be freed (`MCMemZones` with `NoFault` as an invariant).  That this is the only `kassert`
  of `mm.c` that can fail, until a zone gives out its last frame, is proved (`FreedFramesWereUsed`).
- `kernel/mm/mm.c:75`: the array of pages has an entry less than the buddy allocator has pages, and line
  123 returns the entry behind it.  Whoever gets it has an address that belongs to somebody else
  or to nobody, and the frame itself is lost (`MCMemZones` with `TRUE` for `WithinArrays`:
  `EveryFrameAccounted`, and also `ImplementsAllocator`).
- `kernel/mm/dev.c:111`: a join with the next region frees the region that stays on the list.  When the
  cache hands it out again, regions are lost or buffers overlap (`MCStartup` without the
  conditions on `reused`: `RegionsMatchPages`, and also `ImplementsRegions`).
- An order equal to the number of levels reads past `lvl_bitmaps` (`lib/mm/buddy.c:139`).
- The bits of the upper levels stay set after everything was freed (`lib/mm/buddy.c:97`), so that
  larger blocks are not found again.
- `kmm_cache_destroy` does not destruct objects in use; `page_alloc` does not reclaim although its
  comment says so (`kernel/mm/kmm.c:118`).
- `rbtree_search_min` with a limit above all keys follows a NULL pointer (`lib/ds/rbtree.c:540`;
  only the tests call it), which `SearchesFindNearest` leaves out; `rbtree_iter_range` visits only
  some of the nodes whose key is the lower limit (`lib/ds/rbtree.c:616`), which
  `IterationCoversRange` says.
- The invalidation at the end of `create_new_dir` (`arch/i686/vm.c:241`) is not needed by
  `vm_arch_pt_map`, which goes on with the same table: without it every property of `PageTables`
  still holds.


Some more are plain from the code.  The models of the parts have them as faults or as the code's
arithmetic, and the properties are about what remains:

- `kernel/mm/dev.c`: `kdev_unmap_resource` passes the address of a page where `free_region_for`
  compares resources, so that it always panics (line 221); the first region of the area has no
  `last`, which is noticed, if a read through NULL is, after the region was marked as free (94); a
  joined free region is unmapped with its neighbour, though it was never mapped (101); a missing
  region is stored through (143); a buffer whose last byte is the first of a page gets a page too
  few (137).
- `arch/i686/platform_resources.c`: an entry inside of the kernel is taken for one whose start the
  kernel covers, and gets a length modulo the word (79, the case meant for it on line 91 is not
  reached); an entry whose end the kernel covers yields a part that begins where it ends (86).
  `ZonesAreFreeMemory` therefore holds for maps in which the kernel does not reach the end of an
  entry, and in which entries do not overlap; a region up to the last address of the word would
  wrap around when its start is rounded up. A region of more than a page need not contain a whole page, and the zone made of it has
  none (`kernel/kernel.c:61`).
- `arch/i686/intr.c:95`: lines 8 to 15 are registered at 40 to 47 and served at 48 to 55, so that
  their handlers never run; `LinesHandled` therefore speaks of the handlers of lines 0 to 7, and of
  the acknowledgement of all lines. `arch/i686/intr.asm:10`: exceptions without an error code jump to
  `isr_handler` with no frame. Vector 9 has no gate. `arch/i686/exceptions.c:49` appends "ESP" a
  second time, so that the `kassert` of `kvstore_append` stops the kernel before `kernel_panic`.
  Interrupts are never enabled at this commit.
- `lib/ds/kvstore.c:123` and `136`: unless the store is full, the comparison is called with NULL.
- `kernel/mm/kmalloc.c:78`: the header is written through NULL when there is no memory.
- `lib/mm/linear.c:43`: an aligned request that fits exactly is refused.
- `lib/cstd/stdio/vfprintf.c`: with a 32-bit `size_t` a conversion without a width fails the
  `kassert` on line 609; `*` is parsed but no argument is fetched for it; the sign and the prefix
  are lost with `0` and no width (642), zeros are added in place of blanks with `0` and a
  precision, zeros precede the field with `0` and `-`; a precision is ignored for hexadecimal
  digits (438); `#` does nothing for octal digits and adds a prefix to zero; `+` signs unsigned
  numbers; `%n` fails the `kassert` of `fetch_arg`.  `AsInC` names what is left.
- `modules/i686/video.c:94`: clearing the screen leaves the cursor where it was.
- `modules/i686/video.c:145`: `video_load` does not clear the buffer, so what the firmware left there
  stays until it is overwritten or scrolled away.  `Screen` starts with a blank buffer.

## 4. What is proved

Every module of proofs is named after the module it is about; TLAPS checks every step of them.
They hold for every value of the constants that satisfies the assumptions of the modules and the
condition named here.

| Module | Theorem | Property of a run |
|---|---|---|
| `LibraryProofs` | `NoPageTwice` | - |
| | `NoMissingMemory`, `UpperLevelsAreSafe`, `BuddyStaysInBounds`, `BuddyImplementsAllocator` | `FullMeansExhausted`, `FreeBlocksAreUnused`, `BitsInBounds`, `PagesImplementAllocator` |
| | `ContainersAreRight`, `AllocatorsAreRight`, `LinesAreHandled` | `ContainersKeepOrder`, `AllocatorsImplementRegions`, `LinesHandled` |
| | `TreeHoldsItsMembers`, `TreeIsBalanced` | `HoldsMembers`, `Balanced` |
| | `SearchesAreFound` | `SearchesAreRight` |
| `SlabCacheProofs` | `TypeCorrect`, `NoObjectTwice` | - |
| | `ListsAreRight`, `NoBufferLost`, `TrimIsSafe`, `ConstructorsMatch`, `AssertionsHold`, `SlabCacheImplementsAllocator` | `ListsMatchUse`, `BuffersAccountedFor`, `HeldObjectsStay`, `ConstructedExactly`, `NoFault`, `ImplementsAllocator` |
| `KmmProofs` | `CachesAreSound`, `TrimAllIsComplete` | `CachesSound`, `TrimAllComplete` |
| `MemZonesProofs` | `TypeCorrect`, `FreedFramesWereUsed` | - |
| | `StatesAgree`, `NoFrameLost`, `MemZonesImplementsAllocator` | `StateMatchesBuddy`, `EveryFrameAccounted`, `ImplementsAllocator` |
| `KHeapProofs` | `PagesAccounted`, `FramesAccounted`, `KHeapImplementsAllocator` | `SpaceAccounted`, `NoFrameLost`, `ImplementsAllocator` |
| `PageTablesProofs` | `TypeCorrect` | - |
| | `EmergencyEntryIsRight`, `NoStaleTranslation`, `AssertionsHold`, `PageTablesImplementAddressMap` | `EmergencyReachesTable`, `TranslationsAreCurrent`, `NoFault`, `ImplementsAddressMap` |
| `VmSpaceProofs` | `ListIsRight`, `SearchFindsRoom`, `VmSpaceImplementsRegions` | `ListMatchesTree`, `NoGapMeansFull`, `ImplementsRegions` |
| `StartupProofs` | `ResourcesAreAccounted`, `RegionsAreMapped`, `DevImplementsRegions`, `UnregisterIsSafe`, `ZonesAreRight` | `ResourcesAccounted`, `RegionsMatchPages`, `ImplementsRegions`, `UnregisterBetweenOthers`, `ZonesAreFreeMemory` |

**Buddy.**  Condition `SinglePageUse`: requests are for single pages (or for orders that are
properly refused), and the number of pages is even.  The counterexamples for orders and for odd
lengths of section 3 show that each part is necessary.  Theorems: `NoPageTwice`,
`NoMissingMemory`, `UpperLevelsAreSafe`, `BuddyStaysInBounds`, `BuddyImplementsAllocator`.

The inductive invariant `BuddyInv` needs two strengthenings.  `LeavesAreHeld`: level 0 is exactly
the set of pages held, which is what ties the bitmaps to the callers, so that a false bit found is
a page nobody has, and no false bit means that all pages are held. `AncestorsAreMarked`: at every
level the block that contains a held page is marked.  A free keeps it because the parent's bit is
cleared only when both children are marked, and one of them was cleared the moment before
(`ReleasePage`); this is also why upper bits stay set.  The lemmas of the geometry (`LevelZero`,
`PairInBounds`, `OccupyPage`, `FreePage`) reduce the loops to what they do for one page.
`PagesInv` carries the invariant over the steps of the other parts of `Library`.

**The other parts of Library.**  No condition beyond the assumptions of the module: capacities and
alignments are not zero, keys are not NULL, lines are those of two controllers.  Theorems:
`ContainersAreRight`, `AllocatorsAreRight`, `LinesAreHandled`.  Each part has an invariant of its
own, and a step of another part leaves its variables alone:

- `StoreInv`: no key is in two slots, so that the function that `K!Contents` reads from the slots
  is one, and that removing a key leaves no second value.
- `BufferInv`: the indices lie in the array, and the write index is `count` after the read index,
  modulo the size.  `Wrapped` is the arithmetic of an index that wraps, `Appended` and `Shortened`
  what the queue that the refinement mapping reads becomes.
- `LinearInv`: what is given lies between the start and the position, one behind the other.
- `PoolInv`: free nodes and elements in use are places of the grid, and no place is both.  `Fitting`
  are the places that end before the limit.
- `MallocInv`: objects of the caches are apart, in the size of their class, and the byte in front
  of each says which class; the size of the class that `CacheIndex` chooses is enough for request
  and header (`LeastExists`).
- `IntrInv`: only the first of the running contexts is for a line (`ContextsRight`), the lines in
  service are those of this context (`ServiceRight`), and lines 0 to 7 have their own handler or
  none (`TableRight`).

**The red-black tree.**  No condition beyond the assumptions of `Library`: keys are numbers, and
NULL is no node.  Theorems: `TreeHoldsItsMembers`, `TreeIsBalanced` and `SearchesAreFound`.

Order and heights are defined by recursion over the tree, about which the provers know nothing.
The invariant therefore says both with labels on the nodes, which exist in every state:

- `Shaped`: links and parent pointers agree (`Linked`), and nodes have positions `pos` and
  intervals `lo` to `hi` such that the interval of a child lies in the half of its parent's interval
  on its side (`Ordered`).  A rotation keeps all positions and changes two intervals; an
  insertion doubles them all to make room for one more (`OrderAdded`); an exchange of two nodes
  exchanges their labels.  `InKeyOrder` says that the positions follow the keys.
- `Even`: there are numbers `e` such that every path from a node `n` downwards has `e[n]` black nodes
  below it, and a red node has a black parent; in the middle of an insertion with the exception
  of the node the loop is at (`ex`), in a deletion with one black node missing below that node
  (`short`) and without counting the node that is leaving (`gone`).

`TreeInv` is what holds of them where: `Rests` between calls, `Inserts` and `Deletes` in the two
loops.  Each case of a loop has a lemma about its rotations and colours, which gives the new `e`, and
one about its action (`...Keeps`); the mirror images are separate lemmas.  The exchange of a node with
the one that takes its place (`SwapNodes`), of which the pointers are written one by one, is
`SwapIs` with the lemmas that use it.

From the invariant to the properties: a function that calls itself only with arguments of a lower
rank exists (`RecursionExists`, by the least rank at which it would not), the length of a node's
interval is such a rank, and so `InOrder` and `BlackHeight` have the values that their definitions
say (`InOrderIs`, `BlackHeightIs`); with that `InOrder` lists the nodes by position, and `BlackHeight`
is `e`, plus the node itself.  In the loop of a deletion the number that is missing gives that the
sibling exists (`AssertionsHold`).

The searches need no further invariant: what `TreeInv` says of a tree at rest gives `Placed`, the
links and the intervals, and `Ranged`, which nodes are in an interval.  A loop that only goes on
from node to node has a value whether it ends or not (`LoopExists`); that it ends, and where, is
shown by the size of the interval, which falls on the way down and grows on the way up
(`NoEndlessPath`, from `NoLowest`: a set in which every member has a lower one is empty); what a
child's interval is to the other nodes is `KidBounds`.  The loops of `rbtree_insert` and
`rbt_find_successor` are shown in the same way (`InsertionPointFits`, `PredecessorComesBefore`).  On
the way down nothing within the limit is left behind (`Framed`), at a leaf the limit cuts the order
in two at one end of its interval (`CutBehind`, `CutBefore`), and the way up keeps the cut until it
meets the node next to it: the first from the limit on (`FirstFrom`) for `rbtree_search_min`, the
last up to it (`LastUpTo`) for `rbtree_search_max`.  The loop of `rbtree_iter_range` calls for the
rest of the list, so its existence is again a matter of rank: every step goes on in the order
(`Front`), or stays and loses patience (`Patience`), and the two make one number (`Lexical`).  From
a place on, the iteration lists exactly the nodes it has before it, up to its limit (`Awaited`,
`Covers`).

**Startup: the zones.**  Condition: the one that is part of `ZonesAreFreeMemory`, entries that do
not overlap and are placed to the kernel as `AllWellPlaced` says.  Theorem: `ZonesAreRight`.  It
goes in layers.  `Available` yields the memory of an entry without the kernel, by the six
cases of the code modulo `Word`; `Cut` shortens this to what fits the word and is long enough;
`ZoneFor` rounds it to whole pages.  On top of them is the invariant `ZInv` over the entries in
their order: `MemoryRegistered`, the resources of memory are the parts of the entries visited and
not the parts still to be registered, and `ZonesClaimed`, each zone comes from one such resource,
and each such resource that was claimed has its zone.  A buffer named "memory" would be
taken for one, hence `BufferAssumption`.

**SlabCache.**  Condition `AllowedUse`: slabs have at least two buffers, and for large caches
memory does not run out while an object is being freed.  The counterexample for `Capacity = 1` of
section 3 and the run `kmm_shortage` show that both are necessary.  Theorems: `TypeCorrect`,
`ListsAreRight`, `NoBufferLost`, `NoObjectTwice`, `TrimIsSafe`, `ConstructorsMatch`,
`AssertionsHold`, `SlabCacheImplementsAllocator`.

Here `Inv` is the conjunction of all invariants of the run, and none of them is inductive alone:
that a list move is right needs the counter, that the counter is right needs the accounting of
buffers, and the accounting needs that nobody holds an object twice.  To them come
`FreeInProgress` (the slab of an object being freed still exists and nobody holds the object) and
`GrowInProgress` (the holder that waits for a slab holds nothing).  Counting is by
`FiniteSetTheorems` (`FreeCount`, `FreeBufferExists`); a step lemma for each action, and under it
a step for each conjunct that the action disturbs.

**Kmm.**  Condition `AllowedUse`: the one of `SlabCache` for each of the three caches, so
capacities of at least two, and frames that do not run out while an object is being freed.
Theorems: `CachesAreSound` and `TrimAllIsComplete`.

The proof is a composition.  `SlabCacheProofs` is instantiated three times, and its step lemmas
give that a step of a cache keeps the invariant of that cache (`CacheInv`); what is left is what
the caches owe each other in the middle of a call.  `CallState` says what each stage of the call
has come to, and `PageState` when a page is new, when a fault has trimmed and when a trim may run:
never while an object is being freed, which is where the condition is used. `BufctlsMatch` and
`SlabObjectsMatch` are the balance of metadata: a bufctl for each free buffer and a slab object
for each slab, with exactly those missing that the call or the trim in progress is about to get
or give back.  `PagesApart`: a page of the heap belongs to one slab of one cache, so that the
metadata of one slab never lies in another one.  `TrimOrder` carries what a trim has done past the
caches that it has visited; that giving back the bufctls and slab objects of `U` comes before `B`
and `S` are visited is what makes the trim complete.

**MemZones.**  Condition: `TypeCorrect` and `StatesAgree` need none; `NoFrameLost`,
`FreedFramesWereUsed` and `MemZonesImplementsAllocator` are about the time until a zone gives out
its last frame (`WithinArrays`), a condition that is part of the properties.  It is necessary (section
3).  `Inv` holds the states of pages without it, and under it adds to the invariants of the run
that holders hold existing frames (`HeldFramesExist`), each at most one (`HeldOnce`), and that the
only `kassert` that can fail is the one of `kernel/mm/mm.c:173` (`OnlyIndexCheckFails`), which
`FreedFramesWereUsed` is about.  A zone that has given out its last frame never gets it back, since
`get_page_ndx` does not accept the index; so the condition, once false, stays false, and a step
that ends within the arrays has begun within them.  That the state of a page stays
right on a free needs that the page was held, and hence busy in its zone's buddy allocator; that
an allocation takes a frame nobody holds needs the accounting the other way round.

**KHeap.**  No condition beyond the assumptions of the module: a zone has a frame for its
tables and two others, and a chunk has more than one page besides those of its buddy allocator.
Theorems: `PagesAccounted`, `FramesAccounted`, `KHeapImplementsAllocator`.

No conjunct of `Inv` can do without the others.  `HeldPages`: each page that is in use has one
caller. `AccessInProgress` follows a first access through the steps of the fault handler: `fresh`
is the page of a caller, at most one page in use has no entry yet, and in the stage in which it is
mapped its frame is there.  `FramesInEntries` and `FramesOfTables` tie the frames that `MemZones`
has given out to the page table entries that they are for; at the free of a page they give that
the address in the entry is the one that `mm_alloc_page` returned for the page.  They are about
whatever address that is, so that they need no `WithinArrays`, as `MemZones` does. While
the first chunk is initialised the same steps map the pages of the buddy allocator one after the
other; `Current` is the page of that access.  A failed `kassert` of `mm.c` stops the heap
(section 3), hence `memFault = "none"` in two of the conjuncts.

**PageTables.**  No condition beyond the assumptions of the module; what the callers see to
(section 2) is in the guards of the calls.  Theorems: `TypeCorrect`, `EmergencyEntryIsRight`,
`NoStaleTranslation`, `AssertionsHold`, `PageTablesImplementAddressMap`.  The invariant `Inv`
follows an operation through its places: what the emergency entry holds at each, and that the
processor keeps nothing else of it (`EmergencyFollows`); what the caller has made sure of and is
still true (`OperationAllowed`); that the new table is clear before it goes into the directory
(`NewTableIsClear`).  `TablesAreApart`, no table in two entries of the directory, is what makes a
write through the emergency entry change one translation only: the lemmas `WriteEntry` and
`WriteOutside`.

**VmSpace.**  No condition beyond the assumptions of the module: everything is aligned, the
areas of the image and of the zones are apart, lie behind the offset and end before the page
tables at the end of the space, and requests have a size.  Theorems: `ListIsRight`,
`SearchFindsRoom`, `VmSpaceImplementsRegions`.

`Inv` adds to the two invariants of the run that the areas of the list follow one another
(`Apart`), where they may lie (`AreasInSpace`: only the last one may wrap around, to addresses in
front of the offset), and that before there is a heap there are only areas of the start
(`StartFirst`), which is why their insertion finds its place empty.  The heart of the proof is the
arithmetic modulo `Word` of `GapBase` and `GapLength` (`ModWord` and the lemmas after it): a gap
that is found is `Clear`, whatever wraps around.  `Apart` gives the place of a new area in the
list, the neighbour found in the tree, and so that the list stays sorted.  `SearchFindsRoom` is
the other direction: if there were room for the request, some gap would have been long enough.

**Startup.**  Condition: `ResourcesAreAccounted` has none beyond the assumptions of the module:
buffers are finitely many and have a length, and the area has a page; there may be any memory map,
any modules in any order, and the same module twice.  The other three are about the time until
the cache hands out a region that is still on the list (`reused`), and `RegionsAreMapped` about what
is between the steps: a kernel that stops in the middle of an unmap, or of the loops over pages,
leaves its work half done.  These conditions are part of the properties, and the first is
necessary (section 3).  Theorems: `ResourcesAreAccounted`, `RegionsAreMapped`,
`DevImplementsRegions`, `UnregisterIsSafe`.

`Inv` is about three parts and their connection.  `ResourceLists`: the two lists together hold
each resource once, the one that its owner says; the lengths add up, and hence no claim meets a
resource that is owned. `Sources` and `DevicesOnce`: no device is registered twice, so that a name
means one resource.  `Device` is the types of the region's fields and, as long as they are
`Intact`, `DeviceArea`: there is a sequence of regions along which the links lead from the head of
the list to its end (`Chain`), and along which the regions tile the area, the page table is right
at each of them, and no buffer has two (`AreaState`).  The sequence is not a variable of the
program; it is what the prover reasons with.  `VisitedIs`, `FoundIs` and `ListedIs` say what a
`SLIST_FOREACH` comes to on a chain, `SplitChain` and `JoinChain` what the assignments to `next` make of it.
There are four ways in which an area changes, and each has a lemma that it keeps `AreaState`: a
free region is given to a buffer (`Gives`), or is cut in two (`Splits`), the region of a buffer
becomes free (`Takes`), and two free regions become one (`Joins`).  The operations of `KDev` are one
to three of these, one after the other.  A region that was given back but is still on the list
needs nothing of its own: the chain does not ask whether a region is live, and a new region that
is not `Listed` is not on the chain.  `MapIs` and `UnregisterIs` say what an operation does to the
buffers that are mapped, from which `DevImplementsRegions` follows (`StepOfRegions`).

`MappedWhenClaimed` and `ScreenFirst` connect the parts: a mapped buffer has an owner, and the screen
that consoles write to is in the first region.  An unmap of the first region stops the kernel,
hence nothing is written to a screen that is not mapped.  The lemmas on sequences that come first
(`InsertAtProperties`, `RemoveOnce`, `ElementsOf`) are about the operators with which lists are
modelled.

**Assumptions.**  The proofs made some of them explicit, and TLC evaluates each.  They are what
the code sees to before it gets there, or what a value is: the frames and sizes of zones are those
for which `mm_zone_create` does not fail; the areas of `FixedAssumption` come from the linker
script and from the zones, which lie in free memory without the kernel (`ZonesAreFreeMemory`);
`HeapMax` is the constant of `kheap_init`; `PageSize` and `Word` are powers of two, of which only
that one divides the other is used. `None`, `Free` and the like are values that are nothing else.
That powers of two are natural numbers is an assumption of `Library`, because the provers know no
law of `^`.

**Only model-checked:**

- `CallsReturn` of `Kmm` and of `RbTree`: liveness, and the ENABLED in fairness, are outside of
  what the prover can do.
- `ScreenShowsText` and `FieldsAreStandard` of `Console` compare with texts that are computed by
  recursion over what was written.
- The two runs that end in a counterexample, which the conditions above leave out.

No module that is proved about uses RECURSIVE operators.

## 5. What is not modelled, and why

- Addresses, alignment and colouring inside a slab (`slab_capacity`, padding): the capacity is a
  constant.  The plan names a module for the
  arithmetic.
- `kmm_cache_create`'s cache of caches, `kmm_cache_destroy` in `Kmm`: the one needs no
  step that `S` and `B` do not have, the other is an action of `SlabCache` alone.
- The words of bitmaps; `bitmap_resize` has no caller.
- Contents of pages other than page tables, processor caches, assembly, port I/O: beyond a model
  of the control.
- The flags of page table entries; the tables set up by assembly at boot.
- `VmSpace` has no reserved directory entries: the last gap reaches past them and past the end of
  the address space (`kernel/mm/vm_space.c:40`).  Its length need not be aligned; the `kassert`
  that an area of such a length meets is modelled. `kernel/mm/vm.c:60` does not look for a missing
  gap; `NewAreaNoGap` is the `kassert` that it runs into.
- Of `vfprintf.c`, the text between conversions and the errors of the output function, which the
  kernel's output functions do not report; the string and character functions of the C library.
- Descriptor tables, the remapping of the interrupt controllers, the serial port and the timer's
  divisor: constant data and port I/O.  `timer_call_after` is empty.
- The log, `kernel_panic`'s output, the ownership flag (no caller), early assembly, the AArch64
  stubs, scripts: no state or no control worth a model.
- `Startup` has one user of resources at a time, as the kernel does; `dev.c`'s other callers are
  the tests.
- The caches `AREAS_CACHE`, `CHUNK_DATA_CACHE` and `REGIONS_CACHE` are initialised but never
  registered, so `kmm_cache_trim_all` does not visit them.

## 6. Plan

Done: the allocators with their composition, address spaces, the tree, page tables, the start of
the kernel, device memory, the structures underneath; and the proofs of all of these but the
screen and printing.  What a reader may add, in this order:

1. `SlabLayout`: capacity and padding of a slab, arithmetic checked against a reference
   definition.
2. More than one chunk in `KHeap`, once the source counts `heap_free_space` down.
