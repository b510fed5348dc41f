---------------------------------- MODULE Pool ---------------------------------
(***************************************************************************)
(* The pool allocator, kernel/lib/mm/pool.c: elements of one size in a     *)
(* given memory, on a list through the elements themselves.                *)
(***************************************************************************)
EXTENDS Naturals, Sequences, FiniteSets

CONSTANTS
  Mem, MemSize,          \* mem, mem_size
  ElemSize, ElemAlign,   \* elem_size, elem_align
  NodeSize               \* sizeof(union node)

VARIABLES
  nodes,  \* pool->nodes
  held    \* the elements that users hold

RoundUp(n, align) == ((n + align - 1) \div align) * align

Elem == IF ElemSize < NodeSize THEN NodeSize ELSE ElemSize
First == RoundUp(Mem, ElemAlign)
Stride == RoundUp(Elem, ElemAlign)
Limit == Mem + MemSize

\* mem_pool_init: each element is put behind the one before, while it fits.
Init ==
  /\ nodes = [i \in 1 .. Cardinality({j \in 0 .. MemSize : First + j * Stride + Elem <= Limit}) |->
                First + (i - 1) * Stride]
  /\ held = {}

\* mem_pool_alloc; it returns NULL when there is no element.
Alloc ==
  /\ nodes # <<>>
  /\ nodes' = Tail(nodes)
  /\ held' = held \cup {Head(nodes)}

\* mem_pool_free
Free(m) ==
  /\ m \in held
  /\ nodes' = <<m>> \o nodes
  /\ held' = held \ {m}

Next == Alloc \/ \E m \in held : Free(m)

\* The addresses that users hold.
Held == {m .. m + Elem - 1 : m \in held}

\* The memory, of which no element of the users may lie outside.
Memory == Mem .. Limit - 1

================================================================================
