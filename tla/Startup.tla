-------------------------------- MODULE Startup --------------------------------
(***************************************************************************)
(* The start of the kernel as a composition: i686_register_resources turns *)
(* the memory map into resources, kernel_init (kernel/kernel/kernel.c)     *)
(* turns memory resources into zones and loads the modules, a module       *)
(* claims its device buffer and has it mapped, and drivers go on so.       *)
(***************************************************************************)
EXTENDS Integers, Sequences, SequencesExt, FiniteSets

CONSTANTS
  Word, PageSize, KernelStart, KernelEnd,                    \* of MemoryMap
  MaxResources, None,                                        \* of Resources
  Region, AreaPages, MaxPages, Buffer, BufferBase, BufferLen, Free,  \* of KDev
  Maps,    \* the memory maps that the boot loader may pass, sequences of entries
  Module   \* the modules in the kernel's binary, in order; "video" is one of them

ASSUME BufferAssumption ==
  /\ PageSize \in Nat \ {0} /\ AreaPages \in Nat \ {0}
  /\ MaxPages \in Nat /\ AreaPages <= MaxPages
  /\ IsFiniteSet(Buffer) /\ Free \notin Buffer /\ "memory" \notin Buffer
  /\ \A b \in Buffer : BufferBase[b] \in Nat /\ BufferLen[b] \in Nat \ {0}
ASSUME KernelAssumption ==
  /\ KernelStart \in Nat /\ KernelEnd \in Nat /\ Word \in Nat
  /\ KernelStart < KernelEnd /\ KernelEnd < Word
ASSUME MapsAssumption == Maps \subseteq Seq([addr : Nat, len : Nat, avail : BOOLEAN])
ASSUME ModuleAssumption == Module \in Seq(STRING)
ASSUME NoneAssumption == None \notin Nat \cup Region \cup {"kernel", "driver"}

VARIABLES
  mmap,      \* the memory map
  entry,     \* the number of entries that were visited
  parts,     \* the parts of the last one that were not registered yet
  devices,   \* the buffers that the platform has still to register
  storage, free, claimed,               \* of Resources
  zones,     \* the zones created, <<start, length>>
  inactive,  \* INACTIVE_MODULES from the one that is loaded next on
  consoles,  \* ACTIVE_CONSOLES
  head, next, vaddr, len, res, live, twice, reused, pages,   \* of KDev
  stage,     \* where kernel_init is
  fault      \* what has stopped the kernel

bootVars == <<mmap, entry, parts, devices>>
resVars == <<storage, free, claimed>>
devVars == <<head, next, vaddr, len, res, live, twice, reused, pages>>
modVars == <<inactive, consoles>>
vars == <<bootVars, resVars, devVars, modVars, zones, stage, fault>>

M == INSTANCE MemoryMap
R == INSTANCE Resources
D == INSTANCE KDev

Kernel == "kernel"   \* RES_OWNER_KERNEL

\* modules_init puts every module at the head of the list.
Init ==
  /\ mmap \in Maps /\ entry = 0 /\ parts = <<>> /\ devices = SetToSeq(Buffer)
  /\ R!Init /\ D!Init
  /\ zones = {} /\ inactive = Reverse(Module) /\ consoles = <<>>
  /\ stage = "resources" /\ fault = "none"

-----------------------------------------------------------------------------
(* i686_register_resources *)

\* iter_available_regions, one entry of the map
NextEntry ==
  /\ stage = "resources" /\ parts = <<>> /\ entry < Len(mmap)
  /\ entry' = entry + 1
  /\ parts' = M!Available(mmap[entry'])
  /\ UNCHANGED <<mmap, devices, resVars, devVars, modVars, zones, stage, fault>>

\* register_mem_region
RegisterMemory ==
  /\ stage = "resources" /\ parts # <<>>
  /\ IF M!LongEnough(Head(parts))
     THEN R!Register("memory", "memory", Head(parts)[1], M!Cut(Head(parts)))
     ELSE UNCHANGED <<resVars, fault>>
  /\ parts' = Tail(parts)
  /\ UNCHANGED <<mmap, entry, devices, devVars, modVars, zones, stage>>

\* register_bios_vga, and the like for other devices
RegisterDevice ==
  /\ stage = "resources" /\ parts = <<>> /\ entry = Len(mmap) /\ devices # <<>>
  /\ R!Register(Head(devices), "buffer", BufferBase[Head(devices)], BufferLen[Head(devices)])
  /\ devices' = Tail(devices)
  /\ stage' = IF devices' = <<>> THEN "zones" ELSE stage
  /\ UNCHANGED <<mmap, entry, parts, devVars, modVars, zones>>

-----------------------------------------------------------------------------
(* kernel_init *)

\* register_mem_zones, one round.  mm_zone_create needs a page for its tables.
RegisterZone(r) ==
  LET zone == M!ZoneFor(storage[r].base, storage[r].len)
  IN  /\ stage = "zones"
      /\ R!Claim(R!Named("memory"), Kernel, r)
      /\ zones' = zones \cup {zone}
      /\ fault' = IF zone[2] = 0 THEN "zone without a page" ELSE R!ClaimFault(r)
      /\ UNCHANGED <<bootVars, devVars, modVars, stage>>

\* The last round of register_mem_zones
ZonesDone ==
  /\ stage = "zones"
  /\ R!NotFound(R!Named("memory"))
  /\ stage' = "modules"
  /\ UNCHANGED <<bootVars, resVars, devVars, modVars, zones, fault>>

\* modules_load_available, for a module that only registers a console (com1_load)
LoadModule ==
  /\ stage = "modules" /\ inactive # <<>> /\ Head(inactive) # "video"
  /\ consoles' = <<Head(inactive)>> \o consoles
  /\ inactive' = Tail(inactive)
  /\ UNCHANGED <<bootVars, resVars, devVars, zones, stage, fault>>

\* video_load claims the buffer ...
LoadVideo(r) ==
  /\ stage = "modules" /\ inactive # <<>> /\ Head(inactive) = "video"
  /\ R!Claim(R!Named("video"), Kernel, r)
  /\ fault' = R!ClaimFault(r)
  /\ stage' = "video claimed"
  /\ UNCHANGED <<bootVars, devVars, modVars, zones>>

\* ... has it mapped and registers the console.
LoadVideoMap ==
  /\ stage = "video claimed"
  /\ D!Map("video")
  /\ consoles' = IF fault' = "none" THEN <<"video">> \o consoles ELSE consoles
  /\ inactive' = Tail(inactive)
  /\ stage' = "modules"
  /\ UNCHANGED <<bootVars, resVars, zones>>

ModulesLoaded ==
  /\ stage = "modules" /\ inactive = <<>>
  /\ stage' = "running"
  /\ UNCHANGED <<bootVars, resVars, devVars, modVars, zones, fault>>

-----------------------------------------------------------------------------
(* Drivers: no more of them exist in the kernel; they use what dev.h and resources.h offer. *)

Claimed(b, owner) == \E r \in R!Resource : storage[r].name = b /\ storage[r].owner = owner
Mapped(b) == \E r \in Region : res[r] = b

\* resources_claim_by_id, resources_claim_by_type
DriverClaim(r) ==
  /\ stage = "running"
  /\ \/ \E b \in Buffer : R!Claim(R!Named(b), "driver", r)
     \/ R!Claim(R!Typed("buffer"), "driver", r)
  /\ fault' = R!ClaimFault(r)
  /\ UNCHANGED <<bootVars, devVars, modVars, zones, stage>>

\* kdev_map_resource
DriverMap(b) ==
  /\ stage = "running" /\ Claimed(b, "driver") /\ ~Mapped(b)
  /\ D!Map(b)
  /\ UNCHANGED <<bootVars, resVars, modVars, zones, stage>>

\* vm_area_unregister_map with the resource, as its comment asks for
DriverUnregister(b) ==
  /\ stage = "running" /\ \E owner \in {Kernel, "driver"} : Claimed(b, owner)
  /\ D!Unregister(b)
  /\ UNCHANGED <<bootVars, resVars, modVars, zones, stage>>

\* kdev_unmap_resource, video_unload
DriverUnmap(b) ==
  /\ stage = "running" /\ \E owner \in {Kernel, "driver"} : Claimed(b, owner)
  /\ D!Unmap
  /\ UNCHANGED <<bootVars, resVars, modVars, zones, stage>>

Next ==
  /\ fault = "none"
  /\ \/ NextEntry \/ RegisterMemory \/ RegisterDevice
     \/ ZonesDone \/ LoadModule \/ LoadVideoMap \/ ModulesLoaded
     \/ \E r \in R!Resource : RegisterZone(r) \/ LoadVideo(r) \/ DriverClaim(r)
     \/ \E b \in Buffer : DriverMap(b) \/ DriverUnregister(b) \/ DriverUnmap(b)

Spec == Init /\ [][Next]_vars

-----------------------------------------------------------------------------
(* Memory *)

Kernelspace == KernelStart .. KernelEnd - 1
Span(start, length) == start .. start + length - 1

\* The bytes that entry e of the map offers for use.
Usable(e) == IF e.avail THEN (Span(e.addr, e.len) \cap 0 .. Word - 1) \ Kernelspace ELSE {}

\* Runs of usable bytes, <<start, end>>, as long as they can be; the last address is never used.
Runs(e) ==
  {run \in (0 .. Word) \X (0 .. Word) :
     /\ run[1] < run[2] /\ run[1] .. run[2] - 1 \subseteq Usable(e)
     /\ run[1] - 1 \notin Usable(e) /\ run[2] \notin Usable(e)
     /\ run[2] - run[1] > PageSize}

\* The bytes of the whole pages of a run.
PagesOf(run) ==
  UNION {Span(PageSize * p, PageSize) : p \in
    {q \in 0 .. Word \div PageSize : /\ run[1] <= PageSize * q
                                     /\ PageSize * q + PageSize <= run[2]
                                     /\ PageSize * q + PageSize < Word}}

\* The kernel does not reach to the end of the entry, and the entry not over the last address.
WellPlaced(e) ==
  \/ ~e.avail \/ e.addr >= Word
  \/ KernelEnd <= e.addr /\ e.addr + e.len <= Word
  \/ KernelStart >= e.addr + e.len
  \/ KernelEnd < e.addr + e.len /\ e.addr + e.len < Word

Entries == {mmap[i] : i \in DOMAIN mmap}
AllWellPlaced == \A e \in Entries : WellPlaced(e)
EntriesApart == \A i, j \in DOMAIN mmap : i # j => Usable(mmap[i]) \cap Usable(mmap[j]) = {}

\* The zones are disjoint and are the whole pages of all usable runs longer than a page,
\* whatever the kernel and the regions of the map have in common, as long as the kernel does
\* not cover the end of a region, none goes over the last address and no byte is offered
\* twice; and a zone has no page only if its run has none.
ZonesAreFreeMemory ==
  AllWellPlaced /\ EntriesApart =>
    /\ \A y, z \in zones : y # z => Span(y[1], y[2]) \cap Span(z[1], z[2]) = {}
    /\ stage = "modules" =>
         UNION {Span(z[1], z[2]) : z \in zones} = UNION {PagesOf(r) : r \in UNION {Runs(e) : e \in Entries}}
    /\ fault = "zone without a page" => \E e \in Entries : \E r \in Runs(e) : PagesOf(r) = {}

-----------------------------------------------------------------------------
(* Devices *)

\* Every resource is on one list, the one that its owner says; a buffer is mapped only
\* while somebody owns it; and no claim meets a resource that is owned.
ResourcesAccounted ==
  /\ \A r \in R!Resource :
       /\ (storage[r].owner = None) <=> r \in ToSet(free)
       /\ (storage[r].owner # None) <=> r \in ToSet(claimed)
  /\ Len(free) + Len(claimed) = Len(storage)
  /\ \A b \in Buffer : Mapped(b) => \E r \in ToSet(claimed) : storage[r].name = b
  /\ fault # "owner"

\* The regions on the list tile the device area, in order, whatever was split and joined
\* before, also while one of them was given back to the cache, as long as it has not handed
\* out a region that is still on the list; the page table has the frames of each buffer at its
\* region and nothing elsewhere; and the screen that console_write writes to stays mapped.
\* Between the kernel's steps, that is: a stop in the middle of one leaves its work half done.
RegionsMatchPages ==
  ~reused /\ fault \in {"none", "not mapped", "region is NULL"} =>
    /\ vaddr[head] = 0
    /\ \E r \in D!Listed : next[r] = None
    /\ \A r \in D!Listed :
         vaddr[r] + len[r] = IF next[r] = None THEN AreaPages ELSE vaddr[next[r]]
    /\ \A r \in D!Listed : \A n \in 0 .. len[r] - 1 :
         pages[vaddr[r] + n] = IF res[r] = Free THEN None ELSE D!Down(BufferBase[res[r]]) + n
    /\ "video" \in ToSet(consoles) => Mapped("video")

\* Device memory implements Regions: mapping and unmapping a buffer adds and removes its pages
\* and moves nobody else's, until a region that is still on the list is handed out again.
MappedRegions == {{vaddr[r] + n : n \in 0 .. len[r] - 1} : r \in {q \in D!Listed : res[q] # Free}} \ {{}}
DevRegions == INSTANCE Regions WITH regions <- MappedRegions, Address <- D!Page
ImplementsRegions == DevRegions!Init /\ [][~reused' => DevRegions!Next]_MappedRegions

\* A driver that unmaps a buffer between two others in use, as unregister_resource expects it,
\* does not stop the kernel, and the pages of the buffer are free to be mapped again.
UnregisterBetweenOthers ==
  [][\A b \in Buffer, r \in D!Listed :
       /\ ~reused /\ res[r] = b /\ DriverUnregister(b)
       /\ r # head /\ \A q \in D!Listed : next[q] = r => res[q] # Free
       /\ next[r] # None /\ res[next[r]] # Free
       => fault' = "none" /\ live' = live]_vars

================================================================================
