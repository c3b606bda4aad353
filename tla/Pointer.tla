------------------------------ MODULE Pointer ------------------------------
(* The address that stands for no structure, in the tables of pointers. *)
EXTENDS Integers, Sequences

CONSTANT NULL   \* the address 0
=============================================================================
