------------------------------- MODULE MCFiles -------------------------------
(***************************************************************************)
(* Three descriptors, and one piece of private data more, so that an fopen *)
(* can find them all in use; a directory of one file (a descriptor leads   *)
(* to it or to no item); paths to the file, below it, to a missing file,   *)
(* without a name, and to a drive that is not there.                       *)
(***************************************************************************)
EXTENDS Files, TLC

CONSTANTS f1, missing

\* addresses are only compared
AddressSymmetry == Permutations(Privates)

OneFile == {f1}
Path(drive, parts) == [drive |-> drive, parts |-> parts]
ClientPaths ==
  {Path(0, <<f1>>), Path(0, <<f1, missing>>), Path(0, <<missing>>), Path(0, <<>>),
   Path(1, <<f1>>)}
=============================================================================
