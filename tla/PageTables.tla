----------------------------- MODULE PageTables ------------------------------
(***************************************************************************)
(* The page tables of i686, kernel/arch/i686/vm.c.  The kernel reaches a   *)
(* page table through one entry of the page directory, the emergency       *)
(* entry, which it points at the table and takes back at every operation.  *)
(* The processor may at any time keep a present translation in its TLB,    *)
(* and drops it only at will or by invlpg; so what the kernel reads and    *)
(* writes depends on where it invalidates.                                 *)
(***************************************************************************)
EXTENDS Integers

CONSTANTS
  Dir,     \* the entries of the page directory that are not set up at boot
  Entry,   \* the entries of a page table
  Frame,   \* the frames that mm_alloc_page has for page tables
  Target,  \* the frames that pages are mapped to
  Lazy,    \* the pages whose area maps them at a page fault: the heap, the tables of zones
  None

Page == Dir \X Entry

ASSUME LazyAssumption == Lazy \subseteq Page
ASSUME NoneAssumption == None \notin Page \cup Frame \cup Target

VARIABLES
  pd,          \* the page directory: the table of an entry, or None if it is not present
  content,     \* the content of the frames, as page tables
  emergency,   \* the emergency entry
  tlb,         \* the translation that the processor keeps for a page, or None
  tlbTable,    \* the one that it keeps for EMERGENCY_DIR, or None
  pc,          \* where the operation in progress is
  op, page, target, new,  \* the operation, its arguments, and the new table
  resolved,    \* <<page, what vm_arch_resolve_phys_page returned for it>>, or None
  fault        \* the kassert, or the panic, that has stopped the kernel

cpu == <<tlb, tlbTable>>
args == <<op, page, target>>
vars == <<pd, content, emergency, cpu, pc, args, new, resolved, fault>>

Init ==
  /\ pd = [d \in Dir |-> None]
  /\ content = [f \in Frame |-> [e \in Entry |-> None]]
  /\ emergency = None
  /\ tlb = [p \in Page |-> None] /\ tlbTable = None
  /\ pc = "idle" /\ op = "none" /\ page = None /\ target = None /\ new = None
  /\ resolved = None /\ fault = "none"

-----------------------------------------------------------------------------
(* The processor *)

\* The translation of a page by the tables.
Walk(p) == IF pd[p[1]] = None THEN None ELSE content[pd[p[1]]][p[2]]

Fill(p) ==
  /\ Walk(p) # None /\ tlb' = [tlb EXCEPT ![p] = Walk(p)]
  /\ UNCHANGED <<pd, content, emergency, tlbTable, pc, args, new, resolved, fault>>

Evict(p) ==
  /\ tlb[p] # None /\ tlb' = [tlb EXCEPT ![p] = None]
  /\ UNCHANGED <<pd, content, emergency, tlbTable, pc, args, new, resolved, fault>>

FillTable ==
  /\ emergency # None /\ tlbTable' = emergency
  /\ UNCHANGED <<pd, content, emergency, tlb, pc, args, new, resolved, fault>>

EvictTable ==
  /\ tlbTable # None /\ tlbTable' = None
  /\ UNCHANGED <<pd, content, emergency, tlb, pc, args, new, resolved, fault>>

\* The frame that an access to EMERGENCY_DIR reaches.
Reached == IF tlbTable # None THEN tlbTable ELSE emergency

-----------------------------------------------------------------------------
(* Steps of the operations *)

Running == fault = "none"

\* A kassert ends the kernel.
Kassert(cond, name) == fault' = IF cond THEN "none" ELSE name

\* An operation starts.  A page of the heap or of a zone is mapped when it is accessed for
\* the first time, one of a device by kdev_map_resource.
Begin(o, p, f) ==
  /\ Running /\ pc = "idle"
  /\ op' = o /\ page' = p /\ target' = f
  /\ pc' = IF o = "map" /\ pd[p[1]] = None THEN "new table" ELSE "enter"
  /\ UNCHANGED <<pd, content, emergency, cpu, new, resolved, fault>>

\* i686_vm_pg_fault_handler for a page without a translation.
PageFault(p, f) ==
  /\ p \in Lazy /\ Walk(p) = None /\ tlb[p] = None
  /\ Begin("map", p, f)

\* A fault in an area that has no handler but a panic.
PageFaultPanics(p) ==
  /\ p \notin Lazy /\ Walk(p) = None /\ tlb[p] = None
  /\ Running /\ pc = "idle"
  /\ fault' = "panic"
  /\ UNCHANGED <<pd, content, emergency, cpu, pc, args, new, resolved>>

MapResource(p, f) ==
  /\ p \notin Lazy /\ Walk(p) = None
  /\ Begin("map", p, f)

UnmapResource(p) ==
  /\ p \notin Lazy /\ Walk(p) # None
  /\ Begin("unmap", p, None)

\* chunk_unregister_page resolves a page that has been mapped.
Resolve(p) ==
  /\ p \in Lazy /\ Walk(p) # None
  /\ Begin("resolve", p, None)

\* create_new_dir up to its access: a frame, that holds what its last user left there, is
\* put into the emergency entry.
NewTable(f, left) ==
  /\ Running /\ pc = "new table"
  /\ \A d \in Dir : pd[d] # f
  /\ content' = [content EXCEPT ![f] = left]
  /\ Kassert(emergency = None, "emergency in use")
  /\ emergency' = f /\ new' = f
  /\ pc' = "clear"
  /\ UNCHANGED <<pd, cpu, args, resolved>>

\* The frames are shared with the heap, so that there may be none at any time.
NoNewTable ==
  /\ Running /\ pc = "new table"
  /\ fault' = "panic"
  /\ UNCHANGED <<pd, content, emergency, cpu, pc, args, new, resolved>>

\* Mutant of ClearTable: the table keeps what was in the frame.
ClearNothing ==
  /\ Running /\ pc = "clear"
  /\ pc' = "set"
  /\ UNCHANGED <<pd, content, emergency, cpu, args, new, resolved, fault>>

ClearTable ==
  /\ Running /\ pc = "clear"
  /\ content' = [content EXCEPT ![Reached] = [e \in Entry |-> None]]
  /\ pc' = "set"
  /\ UNCHANGED <<pd, emergency, cpu, args, new, resolved, fault>>

\* The end of create_new_dir, and vm_arch_pt_map with its result.
SetTable ==
  /\ Running /\ pc = "set"
  /\ emergency' = None /\ tlbTable' = None
  /\ pd' = [pd EXCEPT ![page[1]] = new] /\ new' = None
  /\ pc' = "enter"
  /\ UNCHANGED <<content, tlb, args, resolved, fault>>

\* get_pge_for_vaddr
Enter ==
  /\ Running /\ pc = "enter"
  /\ Kassert(emergency = None /\ pd[page[1]] # None, "get_pge_for_vaddr")
  /\ emergency' = pd[page[1]]
  /\ pc' = op
  /\ UNCHANGED <<pd, content, cpu, args, new, resolved>>

\* vm_arch_pt_map has the entry and writes it.
MapPage ==
  /\ Running /\ pc = "map"
  /\ Kassert(content[Reached][page[2]] = None, "already mapped")
  /\ content' = [content EXCEPT ![Reached][page[2]] = target]
  /\ pc' = "leave"
  /\ UNCHANGED <<pd, emergency, cpu, args, new, resolved>>

\* vm_arch_pt_unmap clears the entry ...
UnmapPage ==
  /\ Running /\ pc = "unmap"
  /\ Kassert(content[Reached][page[2]] # None, "not mapped")
  /\ content' = [content EXCEPT ![Reached][page[2]] = None]
  /\ pc' = "flush"
  /\ UNCHANGED <<pd, emergency, cpu, args, new, resolved>>

\* Mutant of Flush: invlpg is for EMERGENCY_DIR.
FlushTable ==
  /\ Running /\ pc = "flush"
  /\ tlbTable' = None
  /\ pc' = "leave"
  /\ UNCHANGED <<pd, content, emergency, tlb, args, new, resolved, fault>>

\* ... and invalidates its translation.
Flush ==
  /\ Running /\ pc = "flush"
  /\ tlb' = [tlb EXCEPT ![page] = None]
  /\ pc' = "leave"
  /\ UNCHANGED <<pd, content, emergency, tlbTable, args, new, resolved, fault>>

\* vm_arch_resolve_phys_page reads the entry.
ResolvePage ==
  /\ Running /\ pc = "resolve"
  /\ Kassert(content[Reached][page[2]] # None, "not mapped")
  /\ resolved' = <<page, content[Reached][page[2]]>>
  /\ pc' = "leave"
  /\ UNCHANGED <<pd, content, emergency, cpu, args, new>>

\* Mutants of Leave: the entry stays; its translation stays.
LeaveEntry ==
  /\ Running /\ pc = "leave"
  /\ Kassert(emergency # None, "free_emergency_entry")
  /\ tlbTable' = None
  /\ pc' = "idle" /\ op' = "none" /\ page' = None /\ target' = None
  /\ UNCHANGED <<pd, content, emergency, tlb, new, resolved>>
LeaveNoFlush ==
  /\ Running /\ pc = "leave"
  /\ Kassert(emergency # None, "free_emergency_entry")
  /\ emergency' = None
  /\ pc' = "idle" /\ op' = "none" /\ page' = None /\ target' = None
  /\ UNCHANGED <<pd, content, cpu, new, resolved>>

\* free_emergency_entry, and the end of the operation.
Leave ==
  /\ Running /\ pc = "leave"
  /\ Kassert(emergency # None, "free_emergency_entry")
  /\ emergency' = None /\ tlbTable' = None
  /\ pc' = "idle" /\ op' = "none" /\ page' = None /\ target' = None
  /\ UNCHANGED <<pd, content, tlb, new, resolved>>

-----------------------------------------------------------------------------
Call ==
  \E p \in Page :
    \/ PageFaultPanics(p) \/ UnmapResource(p) \/ Resolve(p)
    \/ \E f \in Target : PageFault(p, f) \/ MapResource(p, f)

Step ==
  \/ \E f \in Frame, left \in [Entry -> Target \cup {None}] : NewTable(f, left)
  \/ NoNewTable \/ ClearTable \/ SetTable \/ Enter
  \/ MapPage \/ UnmapPage \/ Flush \/ ResolvePage \/ Leave

Processor == (\E p \in Page : Fill(p) \/ Evict(p)) \/ FillTable \/ EvictTable

Next == Call \/ Step \/ Processor

Spec == Init /\ [][Next]_vars

-----------------------------------------------------------------------------
(* Properties *)

\* Type invariant.
TypeOK ==
  /\ pd \in [Dir -> Frame \cup {None}]
  /\ content \in [Frame -> [Entry -> Target \cup {None}]]
  /\ emergency \in Frame \cup {None} /\ tlbTable \in Frame \cup {None}
  /\ tlb \in [Page -> Target \cup {None}]
  /\ pc \in {"idle", "new table", "clear", "set", "enter", "map", "unmap", "resolve",
             "flush", "leave"}
  /\ op \in {"none", "map", "unmap", "resolve"}
  /\ page \in Page \cup {None} /\ (pc # "idle" => page # None)
  /\ target \in Target \cup {None} /\ new \in Frame \cup {None}
  /\ resolved \in (Page \X Target) \cup {None}

\* Between get_pge_for_vaddr and free_emergency_entry EMERGENCY_DIR is the table of the
\* page in hand, and in create_new_dir the new table, whatever the processor has kept from
\* the operation before.
EmergencyReachesTable ==
  /\ pc = "clear" => Reached = new
  /\ pc \in {"map", "unmap", "resolve"} => Reached = pd[page[1]]

\* The processor never uses a translation that is not in the tables, but for the page that
\* vm_arch_pt_unmap is about to invalidate.
TranslationsAreCurrent ==
  \A p \in Page : tlb[p] # None => tlb[p] = Walk(p) \/ (pc = "flush" /\ page = p)

\* Callers that map pages without a mapping and unmap and resolve pages with one meet no
\* kassert: the emergency entry is free when an operation needs it, and entries are as the
\* tables had them.
NoFault == fault \in {"none", "panic"}

\* Translations change for one page at a time: a table that becomes part of the directory
\* brings none along.
AM == INSTANCE AddressMap WITH map <- [p \in Page |-> Walk(p)]
ImplementsAddressMap == AM!Spec

=============================================================================
