-------------------------- MODULE MCKeyboardBuffer --------------------------
(* A ring of three slots whose counters wrap after two rounds. *)
EXTENDS KeyboardBuffer
=============================================================================
