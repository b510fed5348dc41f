-------------------------------- MODULE CBuffer --------------------------------
(* The circular buffer, kernel/include/lib/ds/cbuffer.h. *)
EXTENDS Naturals

CONSTANTS
  Item,      \* what is pushed
  Slots,    \* CBUFFER_LENGTH
  Nothing    \* the default value of CBUFFER_POP, and the initial elements

VARIABLES
  r_idx, w_idx, count, array,  \* the fields
  got                          \* dest of the last CBUFFER_POP

\* CBUFFER_INIT
Init ==
  /\ r_idx = 0 /\ w_idx = 0 /\ count = 0
  /\ array = [i \in 0 .. Slots - 1 |-> Nothing]
  /\ got = Nothing

\* CBUFFER_PUSH fails and changes nothing when the buffer is full.
Push(v) ==
  /\ count < Slots
  /\ array' = [array EXCEPT ![w_idx] = v]
  /\ w_idx' = (w_idx + 1) % Slots
  /\ count' = count + 1
  /\ UNCHANGED <<r_idx, got>>

\* Mutant of Pop: the index runs to the end of the buffer only.
PopNoWrap ==
  /\ count # 0
  /\ got' = array[r_idx]
  /\ r_idx' = IF r_idx + 1 < Slots THEN r_idx + 1 ELSE r_idx
  /\ count' = count - 1
  /\ UNCHANGED <<w_idx, array>>

\* CBUFFER_POP
Pop ==
  /\ count # 0
  /\ got' = array[r_idx]
  /\ r_idx' = (r_idx + 1) % Slots
  /\ count' = count - 1
  /\ UNCHANGED <<w_idx, array>>

PopEmpty ==
  /\ count = 0
  /\ got' = Nothing
  /\ UNCHANGED <<r_idx, w_idx, count, array>>

Next == Pop \/ PopEmpty \/ \E v \in Item : Push(v)

\* The items in the order in which they will be popped.
Queued == [i \in 1 .. count |-> array[(r_idx + i - 1) % Slots]]

================================================================================
