------------------------------- MODULE Dictionary ------------------------------
(***************************************************************************)
(* What a store of pairs promises: it is a partial function from keys to   *)
(* values, and a call changes the value of one key.                        *)
(*                                                                         *)
(* The module models no code of its own; KVStore is shown to implement it. *)
(***************************************************************************)
CONSTANTS Key, Value, None

VARIABLE dict   \* the value of each key, None without one

Init == dict = [k \in Key |-> None]

Set(k, v) == dict' = [dict EXCEPT ![k] = v]

Next == \E k \in Key : \E v \in Value \cup {None} : Set(k, v)

Spec == Init /\ [][Next]_dict

================================================================================
