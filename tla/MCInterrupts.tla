---------------------------- MODULE MCInterrupts ----------------------------
(* Two processes loaded one after the other; two keys; three user contexts. *)
EXTENDS Interrupts

CONSTANTS p1, p2

TwoLoads == <<p1, p2>>
=============================================================================
