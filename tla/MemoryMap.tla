------------------------------- MODULE MemoryMap -------------------------------
(***************************************************************************)
(* How the memory map of the boot loader becomes resources and zones:      *)
(* arch/i686/platform_resources.c and kernel/kernel.c.  All arithmetic is  *)
(* modulo Word.  An entry of the map is a record of addr, len and avail.   *)
(***************************************************************************)
EXTENDS Integers, Sequences

CONSTANTS
  Word,         \* 2^32
  PageSize,     \* PLATFORM_PAGE_SIZE
  KernelStart,  \* addr_to_low(kernel_start)
  KernelEnd     \* addr_to_low(kernel_end)

MaxAddr == Word - 1

\* Mutant of Available: the kernel at the start of a region is not cut off.
AvailableWithKernel(e) ==
  LET start == e.addr
      end == (start + e.len) % Word
  IN  IF ~e.avail \/ e.addr > MaxAddr THEN <<>>
      ELSE IF KernelEnd < start \/ KernelStart >= end \/ KernelStart = start THEN << <<start, end>> >>
      ELSE IF KernelStart <= start THEN << <<KernelEnd, end>> >>
      ELSE IF KernelEnd >= end THEN << <<end, KernelStart>> >>
      ELSE << <<start, KernelStart>>, <<KernelEnd, end>> >>

\* iter_without_unavail: the parts <<start, end>> of entry e that fn is called with.  The
\* third test also holds for an entry inside of the kernel, and the part of the fourth
\* begins where the entry ends.
Available(e) ==
  LET start == e.addr
      end == (start + e.len) % Word
  IN  IF ~e.avail \/ e.addr > MaxAddr THEN <<>>
      ELSE IF KernelEnd <= start \/ KernelStart >= end THEN << <<start, end>> >>
      ELSE IF KernelStart <= start THEN << <<KernelEnd, end>> >>
      ELSE IF KernelEnd >= end THEN << <<end, KernelStart>> >>
      ELSE << <<start, KernelStart>>, <<KernelEnd, end>> >>

\* register_mem_region
Length(part) == (part[2] - part[1]) % Word
LongEnough(part) == Length(part) > PageSize
Cut(part) == IF Length(part) < MaxAddr - part[1] THEN Length(part) ELSE MaxAddr - part[1]

RoundUp(n) == (((n + PageSize - 1) % Word) \div PageSize) * PageSize
RoundDown(n) == (n \div PageSize) * PageSize

\* register_zone_for_mem: the zone <<start, length>> for the memory at base.
ZoneFor(base, len) ==
  <<RoundUp(base), (RoundDown((base + len) % Word) - RoundUp(base)) % Word>>

================================================================================
