------------------------------ MODULE BoundedQueue -----------------------------
(***************************************************************************)
(* What a buffer between a producer and a consumer promises: at most Size  *)
(* items, which come out in the order in which they went in.               *)
(*                                                                         *)
(* The module models no code of its own; CBuffer is shown to implement it. *)
(***************************************************************************)
EXTENDS Naturals, Sequences

CONSTANTS Item, Size, Nothing

VARIABLES queue, out   \* the items inside, and the one that came out last

Init == queue = <<>> /\ out = Nothing

Put(v) == Len(queue) < Size /\ queue' = Append(queue, v) /\ UNCHANGED out
Take == queue # <<>> /\ out' = Head(queue) /\ queue' = Tail(queue)
TakeNothing == queue = <<>> /\ out' = Nothing /\ UNCHANGED queue

Next == Take \/ TakeNothing \/ \E v \in Item : Put(v)

Spec == Init /\ [][Next]_<<queue, out>>

================================================================================
