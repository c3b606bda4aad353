------------------------------- MODULE Files -------------------------------
(***************************************************************************)
(* The descriptor table (file.c) over the one filesystem of the kernel     *)
(* (fat16.c), as far as opening and closing go.  A descriptor is the index *)
(* fopen returned; the private data behind it is the fat_file_descriptor   *)
(* of the open file.  disk_search_init has its call of fs_resolve in a     *)
(* comment; until somebody makes it, every fopen is refused.               *)
(***************************************************************************)
EXTENDS Pointer

CONSTANTS
  MaxDescriptors,  \* VARGOOS_MAX_FILE_DESCRIPTORS
  Privates,        \* the addresses kzalloc may return for private data
  Root,            \* the names in the root directory
  Paths            \* what clients open: a drive and a sequence of names

ASSUME FilesAssumption ==
  /\ MaxDescriptors \in Nat \ {0}
  /\ NULL \notin Privates \cup Root

VARIABLES
  filesystem,        \* disk.filesystem is set
  fs_private,        \* disk.fs_private is set
  file_descriptors,  \* the private data of each descriptor in use
  allocated,         \* the private data allocated and not freed
  item,              \* the directory item each private data refers to
  response,          \* what the last fopen returned
  held,              \* history: the descriptors returned and not yet given
                     \* to fclose, with what each was when it was returned
  pulled             \* history: a descriptor in use was closed by the holder
                     \* of one that was never created

fvars == <<filesystem, fs_private, file_descriptors, allocated, item, response,
           held, pulled>>

(***************************************************************************)
(* A holder has a descriptor fd, for private data and the directory item   *)
(* it refers to (NULL if its copy had no memory); made says whether there  *)
(* was memory for the descriptor itself.                                   *)
(***************************************************************************)
Holder == [fd : 1 .. MaxDescriptors, private : Privates, file : Root \cup {NULL},
           made : BOOLEAN]

Ids == 1 .. MaxDescriptors
READ == "r"
Modes == {READ, "w", "a", "invalid"}

(* fs_init and disk_search_init. *)
FilesInit ==
  /\ filesystem = FALSE
  /\ fs_private = FALSE
  /\ file_descriptors = [id \in Ids |-> NULL]
  /\ allocated = {}
  /\ item = [p \in Privates |-> NULL]
  /\ response = 0
  /\ held = {}
  /\ pulled = FALSE

-----------------------------------------------------------------------------
(* fat16_resolve sets disk->filesystem before it knows the disk is its own *)
(* and takes back only fs_private when it is not.                          *)
fs_resolve ==
  /\ ~ filesystem
  /\ filesystem' = TRUE
  /\ fs_private' \in BOOLEAN
  /\ UNCHANGED <<file_descriptors, allocated, item, response, held, pulled>>

(* The last identifier is refused, and so is 0. *)
file_get_descriptor(id) ==
  IF id <= 0 \/ id >= MaxDescriptors THEN NULL ELSE file_descriptors[id]

Free(id) == file_descriptors[id] = NULL
(* Mutant: the search takes a descriptor in use. *)
AnyOne(id) == TRUE

Lowest(id) == Free(id) /\ \A j \in Ids : Free(j) => id <= j

(***************************************************************************)
(* fat16_get_directory_entry: every item is typed as a file, so a path of  *)
(* more than one name finds nothing, unless the parser had no memory for   *)
(* the second.  Without fs_private the directory is read from address 0,   *)
(* where anything may be found.                                            *)
(***************************************************************************)
Found(path, name) ==
  /\ path.parts # <<>>
  /\ name \in Root
  /\ fs_private => name = path.parts[1]

(* Mutant: the error code is returned. *)
ErrorKept == -1

(* fopen returns 0 for every error. *)
Refusal == 0

(* No such drive, an empty path, no filesystem, a mode that is not read, or*)
(* no memory for the private data: fopen returns 0 and nothing changes.    *)
OpenRefused ==
  /\ response' = Refusal
  /\ UNCHANGED <<filesystem, fs_private, file_descriptors, allocated, item, held,
                 pulled>>

(***************************************************************************)
(* The private data p stays allocated when its file is not found, which is *)
(* also what a fat_item without memory looks like, or when no descriptor   *)
(* is free.                                                                *)
(***************************************************************************)
OpenLeaks(path, p) ==
  /\ \E file \in Root \cup {NULL} :
       /\ file # NULL => Found(path, file) /\ \A id \in Ids : ~ Free(id)
       /\ item' = [item EXCEPT ![p] = file]
  /\ allocated' = allocated \cup {p}
  /\ response' = Refusal
  /\ UNCHANGED <<filesystem, fs_private, file_descriptors, held, pulled>>

(***************************************************************************)
(* The lowest free descriptor.  Without memory for the copy of the         *)
(* directory item the descriptor leads to none; without memory for the     *)
(* descriptor itself its slot stays 0 and its index is returned all the    *)
(* same.                                                                   *)
(***************************************************************************)
OpenReturns(path, p, id) ==
  \E name \in Root, file \in Root \cup {NULL}, made \in BOOLEAN :
    /\ Found(path, name)
    /\ file \in {name, NULL}
    /\ Lowest(id)
    /\ file_descriptors' =
         IF made THEN [file_descriptors EXCEPT ![id] = p] ELSE file_descriptors
    /\ allocated' = allocated \cup {p}
    /\ item' = [item EXCEPT ![p] = file]
    /\ response' = id
    /\ held' = held \cup {[fd |-> id, private |-> p, file |-> file, made |-> made]}
    /\ UNCHANGED <<filesystem, fs_private, pulled>>

Openable(path, mode) ==
  path.drive = 0 /\ path.parts # <<>> /\ filesystem /\ mode = READ

fopen(path, mode) ==
  \/ OpenRefused
  \/ /\ Openable(path, mode)
     /\ \E p \in Privates \ allocated :
          \/ OpenLeaks(path, p)
          \/ \E id \in Ids : OpenReturns(path, p, id)

(* Mutant: the private data stays allocated. *)
NothingFreed(id) == allocated

(* What is allocated when the file of a descriptor was closed. *)
Closed(id) == allocated \ {file_descriptors[id]}

(* Mutant: the descriptor is taken for the index of its slot. *)
ClearsNext(id) == [file_descriptors EXCEPT ![id + 1] = NULL]

(* file_free_descriptor *)
Cleared(id) == [file_descriptors EXCEPT ![id] = NULL]

(* A holder gives back its descriptor; an identifier that leads to none is *)
(* refused.                                                                *)
fclose(h) ==
  /\ held' = held \ {h}
  /\ \/ /\ file_get_descriptor(h.fd) = NULL
        /\ UNCHANGED <<file_descriptors, allocated, item, pulled>>
     \/ /\ file_get_descriptor(h.fd) # NULL
        /\ allocated' = Closed(h.fd)
        /\ item' = [item EXCEPT ![file_get_descriptor(h.fd)] = NULL]
        /\ file_descriptors' = Cleared(h.fd)
        /\ pulled' = (pulled \/ ~ h.made)
  /\ UNCHANGED <<filesystem, fs_private, response>>

(***************************************************************************)
(* fread and fstat reach the private data of file_get_descriptor(fd) and   *)
(* fseek that of file_get_descriptor(0), which is never any; fat16_read    *)
(* leaves the position it read from as it is.  None of them changes what   *)
(* is modelled here.                                                       *)
(***************************************************************************)
FilesNext ==
  \/ fs_resolve
  \/ \E path \in Paths, mode \in Modes : fopen(path, mode)
  \/ \E h \in held : fclose(h)

FilesSpec == FilesInit /\ [][FilesNext]_fvars

-----------------------------------------------------------------------------
FilesTypeOK ==
  /\ filesystem \in BOOLEAN
  /\ fs_private \in BOOLEAN
  /\ file_descriptors \in [Ids -> Privates \cup {NULL}]
  /\ allocated \subseteq Privates
  /\ item \in [Privates -> Root \cup {NULL}]
  /\ response \in 0 .. MaxDescriptors
  /\ held \subseteq Holder
  /\ pulled \in BOOLEAN

(***************************************************************************)
(* No descriptor leads to private data that was freed, and no two lead to  *)
(* the same: closing one file never pulls another from under its reader,   *)
(* in whatever order files are opened and closed.                          *)
(***************************************************************************)
PrivatesExclusive ==
  /\ \A id \in Ids : ~ Free(id) => file_descriptors[id] \in allocated
  /\ \A i, j \in Ids :
       ~ Free(i) /\ file_descriptors[i] = file_descriptors[j] => i = j

(***************************************************************************)
(* From fopen to fclose a descriptor stays with the client that got it and *)
(* refers to the directory item it was opened with, although slots,        *)
(* identifiers and heap addresses are used again.  A descriptor that was   *)
(* never created (file.c:69 without memory) has the identifier of one that *)
(* is created later, and closing it closes that one; until a holder does   *)
(* so no other client notices.                                             *)
(***************************************************************************)
HolderKeepsFile ==
  ~ pulled =>
    \A h \in held : h.made =>
      /\ file_descriptors[h.fd] = h.private
      /\ item[h.private] = h.file

(***************************************************************************)
(* Private data nobody can free any more: no holder has a descriptor that  *)
(* leads to it.  Only an fopen loses any, and only what it has allocated   *)
(* itself: when it fails afterwards, when it returns a descriptor it did   *)
(* not create, and when it hands out the last one, which fclose refuses    *)
(* (file.c:82).  Closing a file never loses another's.                     *)
(***************************************************************************)
Lost ==
  {p \in allocated : \A h \in held : file_get_descriptor(h.fd) # p}
LostByOpen ==
  \A p \in Lost' \ Lost :
    /\ p \notin allocated
    /\ \/ response' = 0
       \/ \E h \in held' :
            h.private = p /\ (~ h.made \/ h.fd = MaxDescriptors)
LostOnlyByOpen == [][LostByOpen]_fvars

(***************************************************************************)
(* Every holder of a created descriptor but the last reaches the item it   *)
(* was opened with: the last identifier is handed out                      *)
(* (file_new_descriptor counts them from 1) and then refused by whatever   *)
(* takes it.                                                               *)
(***************************************************************************)
HolderReachesFile ==
  /\ HolderKeepsFile
  /\ ~ pulled =>
       \A h \in held : h.made /\ h.fd # MaxDescriptors =>
         file_get_descriptor(h.fd) = h.private
=============================================================================
