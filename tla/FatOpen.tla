------------------------------- MODULE FatOpen -------------------------------
(***************************************************************************)
(* Opening one file (fopen, fat16_open and what they call in fat16.c): the *)
(* root directory is counted when the disk is resolved, then the path is   *)
(* taken apart and its first part searched for.  The disk is a row of      *)
(* directory items, the root directory first and the clusters behind it.   *)
(***************************************************************************)
EXTENDS PathParser

CONSTANTS
  RootEntries,            \* primary_header.root_dir_entries
  NameWidth, ExtWidth,    \* the fields of a fat_directory_item, 8 and 3
  DOT, DELETED,           \* "." and 0xE5
  LowerOf,                \* what tolower makes of the capitals
  Drive,                  \* the digit of the only disk
  PLAIN, READ_ONLY, SUBDIRECTORY,   \* attributes; PLAIN is 0, or the 0x20 of
                          \* an archived file: as a character, a blank
  Items,                  \* [name, ext, attribute, rest, cluster], without the
                          \* "." and ".." of a subdirectory, which is only
                          \* counted; the name of an item that ends a directory
                          \* is empty, and rest is what is behind the attribute
                          \* up to a blank or a zero
  Opens                   \* the opens tried, [disk, text]

ASSUME FatOpenAssumption ==
  /\ {RootEntries, NameWidth, ExtWidth} \subseteq Nat \ {0}
  /\ \A o \in Opens :
       /\ o.disk \in Seq(Items) /\ Len(o.disk) >= RootEntries
       /\ o.text \in Seq(Chars)
  /\ Drive \in Digits
  /\ NULL \notin Digits \cup [at : Nat, item : Items \cup {NULL}]
  /\ {SLASH, COLON, DOT} \subseteq Chars
  /\ \A item \in Items :
       /\ {item.name, item.ext} \subseteq Seq(Chars \ {DOT})
       /\ Len(item.name) <= NameWidth /\ Len(item.ext) <= ExtWidth
       /\ item.attribute \in Chars /\ item.rest \in Seq(Chars)
  /\ \A c \in DOMAIN LowerOf : {c, LowerOf[c]} \cap {DOT, DELETED} = {}

VARIABLES
  disk,       \* what is on it from the root directory on
  pc,         \* "count" the root directory, "parse" the path, "open", "search",
              \* count the "listing" of a subdirectory, "clone", "done"
  i,          \* the item looked at, or how many were
  listed,     \* the item looked at while a listing is counted
  total,      \* root_directory.total
  seen,       \* the item that was just found to have the name
  found,      \* fat_item: NULL, or [at, item]; its item may be NULL
  memory,     \* what was allocated and not freed
  refused,    \* history: a kzalloc was refused
  response    \* what fopen returns: 0, or 1 for a file

vars == <<pathvars, disk, pc, i, listed, total, seen, found, memory, refused, response>>

Init ==
  /\ \E o \in Opens : disk = o.disk /\ PathInit(o.text)
  /\ pc = "count" /\ i = 1 /\ total = 0
  /\ listed = 0 /\ seen = NULL /\ found = NULL
  /\ memory = {} /\ refused = FALSE /\ response = 0

-----------------------------------------------------------------------------
Ends(item) == item.name = <<>>
Deleted(item) == item.name # <<>> /\ item.name[1] = DELETED
(* Mutant: another bit of the attribute is tested. *)
WritableItem(item) == item.attribute # READ_ONLY

Directory(item) == item.attribute = SUBDIRECTORY

(***************************************************************************)
(* fat16_to_proper_string stops at a blank or a zero and not at the end of *)
(* the field: a name without a blank goes on into the extension, and that  *)
(* into the attribute and what is behind it, unless that is a blank too.   *)
(***************************************************************************)
FromExt(item) ==
  item.ext \o IF Len(item.ext) = ExtWidth /\ item.attribute # PLAIN
              THEN <<item.attribute>> \o item.rest ELSE <<>>
FromName(item) ==
  item.name \o IF Len(item.name) = NameWidth THEN FromExt(item) ELSE <<>>
fat16_get_full_relative_filename(item) ==
  FromName(item) \o IF item.ext # <<>> THEN <<DOT>> \o FromExt(item) ELSE <<>>

tolower(c) == IF c \in DOMAIN LowerOf THEN LowerOf[c] ELSE c
(* Mutant: strncmp in place of istrncmp. *)
SameCase(s, t) == s = t

(* istrncmp of two names; none is as long as its bound. *)
SameName(s, t) ==
  Len(s) = Len(t) /\ \A k \in 1 .. Len(s) : tolower(s[k]) = tolower(t[k])

(* directory->item[k]: behind the array is memory of the heap.             *)
ItemAt(k) == IF k <= RootEntries THEN {disk[k]} ELSE Items

-----------------------------------------------------------------------------
Looking == UNCHANGED <<disk, text, at, root, parts, cut>>

(* Mutant: the end of a listing behind the root directory is overlooked. *)
EndsInRoot(k) == k <= RootEntries /\ Ends(disk[k])

(* The item that ends a count. A sector behind the disk never arrives, so  *)
(* there is no step without an item.                                       *)
CountEnds(k) == Ends(disk[k])

(* fat16_get_total_items_for_directory of the root, by fat16_resolve.      *)
CountRoot ==
  /\ pc = "count" /\ i <= Len(disk)
  /\ \/ /\ CountEnds(i)
        /\ pc' = "parse" /\ i' = 1
        /\ UNCHANGED total
     \/ /\ ~ CountEnds(i)
        /\ i' = i + 1
        /\ total' = IF Deleted(disk[i]) THEN total ELSE total + 1
        /\ UNCHANGED pc
  /\ Looking
  /\ UNCHANGED <<listed, seen, found, memory, refused, response>>

Finish(r) == pc' = "done" /\ response' = r

(* pathparser_parse and the checks fopen makes of its result.              *)
Parse ==
  /\ pc = "parse"
  /\ \/ /\ root = NULL
        /\ IF PathRefused THEN UNCHANGED refused ELSE refused' = TRUE
        /\ Finish(0)
        /\ UNCHANGED <<pathvars, memory>>
     \/ /\ root = NULL /\ pathparser_create_root
        /\ memory' = memory \cup {<<"root", 0>>}
        /\ UNCHANGED <<pc, refused, response>>
     \/ /\ root # NULL /\ pathparser_parse_path_part
        /\ memory' \in {memory \cup {<<"part", Len(parts) + 1>>}}
                        \cup IF cut' THEN {memory} ELSE {}
        /\ refused' = (refused \/ cut')
        /\ UNCHANGED <<pc, response>>
     \/ /\ root # NULL /\ ListEnds
        /\ IF parts = <<>> \/ root # Drive THEN Finish(0)
           ELSE pc' = "open" /\ UNCHANGED response
        /\ UNCHANGED <<pathvars, memory, refused>>
  /\ UNCHANGED <<disk, i, listed, total, seen, found>>

(* fat16_open allocates its descriptor before it looks for the file.       *)
Open ==
  /\ pc = "open"
  /\ \/ /\ memory' = memory \cup {<<"descriptor", 0>>}
        /\ pc' = "search"
        /\ UNCHANGED <<refused, response>>
     \/ /\ refused' = TRUE
        /\ Finish(0)
        /\ UNCHANGED memory
  /\ Looking
  /\ UNCHANGED <<i, listed, total, seen, found>>

NotFound == found = NULL \/ Len(parts) > 1

(***************************************************************************)
(* fat16_find_item_in_directory does not stop at a match, so the last one  *)
(* counts.  Every item it returns is typed as a file: a path of more than  *)
(* one part finds nothing (fat16_get_directory_entry).                     *)
(***************************************************************************)
Search ==
  /\ pc = "search"
  /\ \/ /\ i > total
        /\ Finish(IF NotFound THEN 0 ELSE 1)
        /\ UNCHANGED <<i, listed, seen, found, memory, refused>>
     \/ /\ i <= total
        /\ \E item \in ItemAt(i) :
             ~ SameName(fat16_get_full_relative_filename(item), parts[1])
        /\ i' = i + 1
        /\ UNCHANGED <<pc, listed, seen, found, memory, refused, response>>
     \/ /\ i <= total
        /\ \E item \in ItemAt(i) :
             /\ SameName(fat16_get_full_relative_filename(item), parts[1])
             /\ seen' = item
             /\ listed' = item.cluster
             /\ pc' \in {"clone"} \cup IF Directory(item) THEN {"listing"} ELSE {}
        /\ memory' = memory \cup {<<"item", i>>}
        /\ UNCHANGED <<i, found, refused, response>>
     \/ /\ i <= total
        /\ \E item \in ItemAt(i) :
             SameName(fat16_get_full_relative_filename(item), parts[1])
        /\ found' = NULL /\ refused' = TRUE
        /\ i' = i + 1
        /\ UNCHANGED <<pc, listed, seen, memory, response>>
  /\ Looking
  /\ UNCHANGED total

(* fat16_load_fat_directory: what it loads, if it does not fail, is        *)
(* overwritten by the clone.                                               *)
LoadDirectory ==
  /\ pc = "listing" /\ listed <= Len(disk)
  /\ \/ /\ CountEnds(listed)
        /\ pc' = "clone"
        /\ memory' \in {memory, memory \cup {<<"directory", i>>}}
        /\ UNCHANGED listed
     \/ /\ ~ CountEnds(listed)
        /\ listed' = listed + 1
        /\ UNCHANGED <<pc, memory>>
  /\ Looking
  /\ UNCHANGED <<i, total, seen, found, refused, response>>

(* fat16_clone_directory_item; whether it succeeds is not checked.         *)
Clone ==
  /\ pc = "clone"
  /\ \/ /\ found' = [at |-> i, item |-> seen]
        /\ memory' = memory \cup {<<"clone", i>>}
        /\ UNCHANGED refused
     \/ /\ found' = [at |-> i, item |-> NULL]
        /\ refused' = TRUE
        /\ UNCHANGED memory
  /\ pc' = "search" /\ i' = i + 1
  /\ Looking
  /\ UNCHANGED <<listed, total, seen, response>>

Next == CountRoot \/ Parse \/ Open \/ Search \/ LoadDirectory \/ Clone

(* An open runs to its end inside one step of the boot or of a load.       *)
Spec == Init /\ [][Next]_vars /\ WF_vars(Next)

-----------------------------------------------------------------------------
(* The parts of a path, when it was taken apart (PathParser).              *)
ParsedAsSplit ==
  /\ pc \in {"open", "search", "listing", "clone"} => SplitUpToEmptyPart
  /\ PathRefused => root = NULL

(* Two names a user takes for the same. *)
Lower(s) == [k \in 1 .. Len(s) |-> IF s[k] \in DOMAIN LowerOf THEN LowerOf[s[k]] ELSE s[k]]
Alike(s, t) == Lower(s) = Lower(t)

(* The name a directory item has, and whether a path can spell it.         *)
NameOf(item) == item.name \o IF item.ext = <<>> THEN <<>> ELSE <<DOT>> \o item.ext
Spellable(name) ==
  \E item \in Items :
    item.name # <<>> /\ ~ Deleted(item) /\ Alike(NameOf(item), name)

(* The files a user sees in the root directory: up to the item that ends   *)
(* it, without the deleted ones.                                           *)
Visible ==
  {k \in 1 .. RootEntries :
     (\A j \in 1 .. k : ~ Ends(disk[j])) /\ ~ Deleted(disk[k])}
Namesakes(name) == {k \in Visible : Alike(NameOf(disk[k]), name)}

(* No deleted item, an end where it can be found, and no name that runs on *)
(* into another field.                                                     *)
Orderly ==
  /\ \E k \in 1 .. RootEntries + 1 : k <= Len(disk) /\ Ends(disk[k])
  /\ \A k \in 1 .. RootEntries : ~ Deleted(disk[k])
  /\ \A k \in Visible :
       Alike(fat16_get_full_relative_filename(disk[k]), NameOf(disk[k]))

(***************************************************************************)
(* A path never opens a file of another name, whatever the directory holds:*)
(* neither a deleted file, nor one whose name runs on, is taken for it.  In*)
(* an orderly directory a file is found exactly if it is there, in capitals*)
(* or not, unless memory runs out.  Deleted items before it, a directory   *)
(* without an end and full name fields are what hides a file.              *)
(***************************************************************************)
FindsNamedFile ==
  pc = "done" =>
    /\ response = 1 /\ total <= RootEntries /\ Spellable(parts[1]) =>
         found.at \in Namesakes(parts[1])
    /\ Orderly /\ ~ refused /\ root = Drive =>
         LET names == Namesakes(parts[1]) IN
         IF Len(parts) = 1 /\ names # {}
         THEN response = 1 /\ found = [at |-> Max(names), item |-> disk[Max(names)]]
         ELSE response = 0

(***************************************************************************)
(* An open that succeeds leaves behind, besides what the descriptor needs, *)
(* the parsed path, the earlier namesakes of the file it opened, and the   *)
(* listing of a directory opened as a file; nothing of any other item.     *)
(***************************************************************************)
Needed == {<<"descriptor", 0>>, <<"item", found.at>>, <<"clone", found.at>>}
PathMemory ==
  {<<"root", 0>>} \cup {<<"part", k>> : k \in 1 .. Len(parts)}
    \cup IF cut THEN {<<"part", Len(parts) + 1>>} ELSE {}

LosesPathAndNamesakes ==
  pc = "done" /\ response = 1 /\ total <= RootEntries =>
    \A m \in memory \ (Needed \cup PathMemory) :
      /\ Alike(fat16_get_full_relative_filename(disk[m[2]]), parts[1])
      /\ m[1] \in {"item", "clone"} => m[2] < found.at
      /\ m[1] = "directory" => disk[m[2]].attribute = SUBDIRECTORY

(***************************************************************************)
(* Every open ends if the directories end somewhere on the disk: in them or*)
(* not, the count goes on until it meets an item that says so.             *)
(***************************************************************************)
EndsFrom(k) == \E j \in k .. Len(disk) : Ends(disk[j])

OpenEnds ==
  (EndsFrom(1) /\ \A item \in Items : item.attribute = SUBDIRECTORY => EndsFrom(item.cluster))
    => <>(pc = "done")
=============================================================================
