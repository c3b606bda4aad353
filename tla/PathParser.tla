----------------------------- MODULE PathParser -----------------------------
(***************************************************************************)
(* Taking a path apart (path_parser.c): one step for the root and one for  *)
(* each part.  Neither checks what it allocated: without memory for a part *)
(* or its name the null pointer ends the list like an empty part does.     *)
(***************************************************************************)
EXTENDS Integers, Sequences, FiniteSetsExt, SequencesExt

CONSTANTS
  Chars,      \* what a char holds
  MaxPath,    \* VARGOOS_MAX_PATH
  Digits,     \* the characters isdigit accepts
  SLASH, COLON,
  NULL

VARIABLES
  text,       \* the path, as the client wrote it
  at,         \* how many of its characters are consumed
  root,       \* NULL, or the drive of the path_root_t
  parts,      \* its parts
  cut         \* there was no memory for the next part

pathvars == <<text, at, root, parts, cut>>

PathInit(t) ==
  /\ text = t
  /\ at = 0 /\ root = NULL /\ parts = <<>> /\ cut = FALSE

-----------------------------------------------------------------------------
pathparser_valid_format ==
  Len(text) >= 3 /\ text[1] \in Digits /\ text[2] = COLON /\ text[3] = SLASH

PathRefused == Len(text) > MaxPath \/ ~ pathparser_valid_format

pathparser_create_root ==
  /\ ~ PathRefused
  /\ root' = text[1] /\ at' = 3
  /\ UNCHANGED <<text, parts, cut>>

(* Mutant: the search for the end of a part begins behind its first        *)
(* character.                                                              *)
PartEndSkipsFirst ==
  Min({i \in at + 2 .. Len(text) : text[i] = SLASH} \cup {Len(text) + 1})

(* The slash behind the next part, or the end of the text.                 *)
PartEnd == Min({i \in at + 1 .. Len(text) : text[i] = SLASH} \cup {Len(text) + 1})

pathparser_get_path_part == SubSeq(text, at + 1, PartEnd - 1)

(* An empty part, between two slashes or at the end, ends the list.        *)
LastPart == pathparser_get_path_part = <<>>

(* Nothing is read behind a part that was cut off.                         *)
ListEnds == cut \/ LastPart

pathparser_parse_path_part ==
  /\ ~ ListEnds
  /\ \/ /\ parts' = Append(parts, pathparser_get_path_part)
        /\ at' = Min({PartEnd, Len(text)})
        /\ UNCHANGED cut
     \/ /\ cut' = TRUE
        /\ UNCHANGED <<parts, at>>
  /\ UNCHANGED <<text, root>>

-----------------------------------------------------------------------------
(* The parts written one behind the other, as a client would.              *)
Joined(ps) ==
  LET upto[n \in 0 .. Len(ps)] ==
        IF n = 0 THEN <<>> ELSE upto[n - 1] \o <<SLASH>> \o ps[n]
  IN upto[Len(ps)]

(***************************************************************************)
(* The parts found are the components of the path, in its order, none of   *)
(* them empty or with a slash in it, up to the first empty one: what is    *)
(* dropped is nothing, a slash, or what begins with two slashes; without   *)
(* memory for a part, all components from it on.  Said of the finished     *)
(* list, whatever the path.                                                *)
(***************************************************************************)
SplitUpToEmptyPart ==
  LET whole == <<text[1], COLON>> \o Joined(parts)
      rest == SubSeq(text, Len(whole) + 1, Len(text)) IN
  /\ root = text[1]
  /\ \A i \in 1 .. Len(parts) : parts[i] # <<>> /\ SLASH \notin Range(parts[i])
  /\ IsPrefix(whole, text)
  /\ IF cut THEN Len(rest) > 1 /\ rest[1] = SLASH /\ rest[2] # SLASH
     ELSE \/ rest \in {<<>>, <<SLASH>>}
          \/ Len(rest) > 1 /\ rest[1] = SLASH /\ rest[2] = SLASH
=============================================================================
