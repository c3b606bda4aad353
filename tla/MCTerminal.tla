----------------------------- MODULE MCTerminal -----------------------------
(***************************************************************************)
(* A screen of two rows of three columns whose counters wrap at 10: ten    *)
(* characters fill it, run over its end, and take the row to its wrap.     *)
(***************************************************************************)
EXTENDS Terminal
=============================================================================
