----------------------------- MODULE MCFatOpen -----------------------------
(***************************************************************************)
(* A root directory of three entries, with names of two characters and     *)
(* extensions of one; behind it an end, a file, or a listing.  Every such  *)
(* directory of eight items with seven paths, and one directory with all   *)
(* paths of up to five characters behind the drive.                        *)
(***************************************************************************)
EXTENDS FatOpen, TLC

Item(name, ext, attribute, cluster) ==
  [name |-> name, ext |-> ext, attribute |-> attribute, rest |-> <<>>,
   cluster |-> cluster]

End == Item(<<>>, <<>>, PLAIN, 0)
A == Item(<<"A">>, <<>>, PLAIN, 5)
EightItems ==
  {End, A,
   Item(<<DELETED>>, <<>>, PLAIN, 5),
   Item(<<"A">>, <<"B">>, PLAIN, 5),
   [Item(<<"A">>, <<"B">>, READ_ONLY, 5) EXCEPT !.rest = <<"A", "A">>],
   Item(<<"A", "B">>, <<"A">>, PLAIN, 5),
   Item(<<"A", "B">>, <<>>, PLAIN, 5),
   Item(<<"B">>, <<>>, SUBDIRECTORY, 4)}

Disks ==
  {d \o b : d \in [1 .. 3 -> EightItems], b \in {<<End>>, <<A, End>>, <<A, A>>}}

In(drive, rest) == <<drive, ":", "/">> \o rest
SevenPaths ==
  {In("0", <<"a">>), In("0", <<"A", ".", "b">>), In("0", <<"b">>),
   In("0", <<"a", "b", ".", "a">>), In("0", <<"a", "b">>),
   In("0", <<"b", "/", "a">>), In("1", <<"a">>)}

Strings(n) == UNION {[1 .. k -> {"a", "/", ":"}] : k \in 0 .. n}
AllPaths == {In("0", s) : s \in Strings(5)} \cup {<<d>> \o s : d \in {"0", "a"}, s \in Strings(3)}

OpensTried ==
  [disk : Disks, text : SevenPaths]
    \cup [disk : {<<A, End, End, End>>}, text : AllPaths]

CharsUsed ==
  {"A", "a", "B", "b", "/", ":", ".", "0", "1", DELETED,
   PLAIN, READ_ONLY, SUBDIRECTORY}

LowerLetters == "A" :> "a" @@ "B" :> "b"
=============================================================================
