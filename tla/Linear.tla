--------------------------------- MODULE Linear --------------------------------
(***************************************************************************)
(* The linear allocator, kernel/lib/mm/linear.c: a position that moves     *)
(* from the base to the limit.  Its users give back what they got last     *)
(* first.  The memory does not end at the last address, so that the        *)
(* additions stay below 2^32.                                              *)
(***************************************************************************)
EXTENDS Naturals, Sequences

CONSTANTS
  Start, Size,  \* mem and len of linear_alloc_init
  Requests,    \* the lengths asked for
  Aligns       \* the alignments asked for

VARIABLES
  position, limit,  \* the fields
  given             \* what the users hold, <<address, length>>, the oldest first

Init == position = Start /\ limit = Start + Size /\ given = <<>>

RoundUp(n, align) == ((n + align - 1) \div align) * align

\* linear_alloc_alloc; it returns NULL and changes nothing when there is no room.
Alloc(n) ==
  /\ position + n <= limit
  /\ position' = position + n
  /\ given' = Append(given, <<position, n>>)
  /\ UNCHANGED limit

\* linear_alloc_alloc_aligned; it does not use the last byte.
AllocAligned(n, align) ==
  LET pos == RoundUp(position, align)
  IN  /\ pos + n < limit
      /\ position' = pos + n
      /\ given' = Append(given, <<pos, n>>)
      /\ UNCHANGED limit

\* linear_alloc_free.  What an alignment has skipped stays lost.
Free ==
  /\ given # <<>>
  /\ position' = position - given[Len(given)][2]
  /\ given' = SubSeq(given, 1, Len(given) - 1)
  /\ UNCHANGED limit

\* linear_forbid_further_alloc
Forbid == limit' = position /\ UNCHANGED <<position, given>>

Next ==
  \/ Free \/ Forbid
  \/ \E n \in Requests : Alloc(n) \/ \E a \in Aligns : AllocAligned(n, a)

\* The addresses that users hold; a request for no bytes yields none.
Held == {given[i][1] .. given[i][1] + given[i][2] - 1 : i \in DOMAIN given} \ {{}}

================================================================================
