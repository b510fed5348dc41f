------------------------------- MODULE MCStartup -------------------------------
(* A small instance of Startup for TLC: pages of four bytes, the kernel in bytes 9 to 17. *)
EXTENDS Startup, TLC

Entry(addr, end, avail) == [addr |-> addr, len |-> end - addr, avail |-> avail]

\* Regions around the kernel, a region at the end of the addresses or behind it, and reserved memory.
MCMaps ==
  {<<Entry(p[1], p[2], TRUE), Entry(52, t, a)>> :
     p \in {q \in {0, 3, 9, 12, 18, 25} \X {7, 9, 15, 18, 23, 30, 48} : q[1] < q[2]},
     t \in {60, 64}, a \in BOOLEAN} \cup
  {<<Entry(0, 20, TRUE), Entry(66, 70, TRUE)>>, <<>>}

MCBuffer == {"video", "disk", "net"}
MCBase == [b \in MCBuffer |-> CASE b = "video" -> 40 [] b = "disk" -> 5 [] b = "net" -> 80]
MCLen == [b \in MCBuffer |-> CASE b = "video" -> 8 [] b = "disk" -> 2 [] b = "net" -> 4]
Symmetry == Permutations(Region)
MCModule == <<"video", "com1">>

================================================================================
