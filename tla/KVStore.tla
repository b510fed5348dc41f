-------------------------------- MODULE KVStore --------------------------------
(***************************************************************************)
(* The key-value store, kernel/lib/ds/kvstore.c: Capacity slots in which   *)
(* a NULL key marks a hole.  The function that compares keys (kstrcmp for  *)
(* all users) must not be given NULL.                                      *)
(***************************************************************************)
EXTENDS Naturals, FiniteSets

CONSTANTS
  Key,       \* what keys point to; two pointers to equal strings are one key
  Value,     \* the values, not NULL
  Capacity,  \* cap
  None       \* NULL

VARIABLES
  keys,   \* keys
  vals,   \* values
  fault   \* what has stopped the kernel

Slot == 1 .. Capacity

\* kvstore_create
Init ==
  /\ keys = [s \in Slot |-> None]
  /\ vals = [s \in Slot |-> None]

Holes == {s \in Slot : keys[s] = None}
Has(k) == \E s \in Slot : keys[s] = k

\* kvstore_append; all of its assertions but the ones on NULL arguments can fail.
Append(k, v) ==
  IF Has(k) THEN fault' = "duplicate key" /\ UNCHANGED <<keys, vals>>
  ELSE IF Holes = {} THEN fault' = "no slot" /\ UNCHANGED <<keys, vals>>
  ELSE LET s == CHOOSE s \in Holes : \A t \in Holes : s <= t
       IN  /\ keys' = [keys EXCEPT ![s] = k]
           /\ vals' = [vals EXCEPT ![s] = v]
           /\ fault' = IF vals[s] # None THEN "value without a key" ELSE fault

\* The slots that a loop with cmpfn reaches before it meets a hole.
Reached == {s \in Slot : \A t \in 1 .. s : keys[t] # None}

\* kvstore_remove: a hole, also the one behind the last pair, is handed to cmpfn.
Remove(k) ==
  /\ keys' = [s \in Slot |-> IF s \in Reached /\ keys[s] = k THEN None ELSE keys[s]]
  /\ vals' = [s \in Slot |-> IF s \in Reached /\ keys[s] = k THEN None ELSE vals[s]]
  /\ fault' = IF Holes # {} THEN "cmpfn of NULL" ELSE fault

\* kvstore_change
Change(k, v) ==
  /\ vals' = [s \in Slot |-> IF s \in Reached /\ keys[s] = k THEN v ELSE vals[s]]
  /\ fault' = IF Holes # {} THEN "cmpfn of NULL" ELSE fault
  /\ UNCHANGED keys

Next ==
  /\ fault = "none"
  /\ \E k \in Key : Remove(k) \/ \E v \in Value : Append(k, v) \/ Change(k, v)

\* What kvstore_find yields for each key, and what kvstore_iter visits.
Contents == [k \in Key |-> IF Has(k) THEN vals[CHOOSE s \in Slot : keys[s] = k] ELSE None]

\* kvstore_length
Length == Cardinality(Slot \ Holes)

================================================================================
