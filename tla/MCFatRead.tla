----------------------------- MODULE MCFatRead -----------------------------
(***************************************************************************)
(* Clusters of two sectors of two bytes; up to three items of up to nine   *)
(* bytes, so that items start and end inside sectors, with them and with   *)
(* clusters; every content of three entries.                               *)
(***************************************************************************)
EXTENDS FatRead

SmallReads == [size : 1 .. 9, nmemb : 1 .. 3]
=============================================================================
