------------------------------- MODULE MCLibrary -------------------------------
(* A small instance of Library for TLC. *)
EXTENDS Library

\* Two nodes have the same key.
MCKeyOf == [n \in Node |-> IF n < 4 THEN 2 * n ELSE 2 * (n - 1)]

================================================================================
