--------------------------- MODULE MCLoadProcess ---------------------------
(***************************************************************************)
(* Two process slots, three task addresses, two descriptors; a directory   *)
(* with a file of each content, and a path that names none of them.        *)
(***************************************************************************)
EXTENDS LoadProcess, TLC

CONSTANTS elf, odd, raw, broken, missing

\* addresses are only compared
AddressSymmetry == Permutations(Tasks) \cup Permutations(Privates)

Files4 == {elf, odd, raw, broken}
ContentOf == elf :> "elf" @@ odd :> "odd" @@ raw :> "raw" @@ broken :> "broken"
RootPaths == {[drive |-> 0, parts |-> <<f>>] : f \in Files4 \cup {missing}}
=============================================================================
