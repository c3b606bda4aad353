------------------------------ MODULE FatRead ------------------------------
(***************************************************************************)
(* Reading a file (fat16_read and the functions under it in fat16.c): nmemb*)
(* items of size bytes from its start, each split into chunks of at most a *)
(* cluster and each chunk into sectors.  A file is never read from another *)
(* position: fat16_open sets pos to 0, fat16_read leaves it, and fseek     *)
(* looks descriptor 0 up, which is none, so fat16_seek is not reached.     *)
(***************************************************************************)
EXTENDS DiskStreamer

CONSTANTS
  SectorsPerCluster,
  EndingSector,   \* root_directory.ending_sector_pos
  Clusters,       \* the entries taken for the number of a cluster
  First,          \* the first cluster of the file
  REFUSED,        \* the entries that end the walk: 0xFF8, 0xFFF, 0xFF7, 0xFF0,
                  \* 0xFF6 and 0
  Requests        \* the reads tried, [size, nmemb]

ClusterSize == SectorsPerCluster * SectorSize

ASSUME FatReadAssumption ==
  /\ SectorsPerCluster \in Nat \ {0}
  /\ EndingSector \in Nat /\ EndingSector >= SectorsPerCluster
  /\ Clusters \subseteq Nat \ {0}
  /\ First \in Clusters
  /\ REFUSED \notin Clusters
  /\ Requests \subseteq [size : Nat \ {0}, nmemb : Nat \ {0}]

VARIABLES
  words,    \* the entry fat16_get_fat_entry finds for each cluster
  pc,       \* "locate" a chunk, read its "sector"s, "advance", or "done"
  cluster,  \* cluster_to_use
  ahead,    \* how many entries of the chain are still to be followed
  request,
  item,     \* how many items are read
  offset,   \* offset and total of fat16_read_internal_from_stream
  total,
  chunk,    \* its total_to_read
  response

vars == <<stream_pos, left, out, words, pc, cluster, ahead, request, item,
          offset, total, chunk, response>>

(***************************************************************************)
(* fat16_get_fat_entry multiplies the position of the table by the offset  *)
(* of the entry instead of adding it, so what it reads lies among the data *)
(* or in another entry: it is some word of the disk, the same at each read.*)
(***************************************************************************)
Init ==
  /\ words \in [Clusters -> Clusters \cup {REFUSED}]
  /\ request \in Requests
  /\ pc = "locate" /\ cluster = First /\ ahead = 0
  /\ item = 0 /\ offset = 0 /\ total = request.size
  /\ chunk = 0 /\ response = 0
  /\ stream_pos = 0 /\ left = 0 /\ out = <<>>

-----------------------------------------------------------------------------
(* One round of fat16_get_cluster_for_offset: an entry of the chain.       *)
FollowEntry ==
  /\ pc = "locate" /\ ahead > 0
  /\ \/ /\ words[cluster] = REFUSED
        /\ response' = -1
        /\ pc' = "done"
        /\ UNCHANGED <<cluster, ahead>>
     \/ /\ words[cluster] # REFUSED
        /\ cluster' = words[cluster]
        /\ ahead' = ahead - 1
        /\ UNCHANGED <<pc, response>>
  /\ UNCHANGED <<stream_pos, left, out, words, request, item, offset, total, chunk>>

fat16_cluster_to_sector(c) == EndingSector + (c - 2) * SectorsPerCluster

(* The byte of the disk that is byte o of the file, if it is in cluster c. *)
PositionIn(c, o) ==
  fat16_cluster_to_sector(c) * SectorSize + (o % ClusterSize)

(* Mutant: a chunk is as long as the request. *)
FirstOf(a, b) == a

Smaller(a, b) == IF a < b THEN a ELSE b

(* fat16_read_internal_from_stream, when the cluster is known, up to its   *)
(* call of diskstreamer_read.                                              *)
Locate ==
  /\ pc = "locate" /\ ahead = 0
  /\ diskstreamer_seek(PositionIn(cluster, offset))
  /\ chunk' = Smaller(total, ClusterSize)
  /\ left' = chunk'
  /\ pc' = "sector"
  /\ UNCHANGED <<out, words, cluster, ahead, request, item, offset, total, response>>

Sector ==
  /\ pc = "sector"
  /\ ReadSector
  /\ pc' = IF Overflow THEN "sector" ELSE "advance"
  /\ UNCHANGED <<words, cluster, ahead, request, item, offset, total, chunk,
                 response>>

(* The next chunk starts at offset o: its cluster is looked up from the    *)
(* first one on again.                                                     *)
Start(o) ==
  /\ pc' = "locate"
  /\ offset' = o
  /\ cluster' = First
  /\ ahead' = o \div ClusterSize

(* Mutant: an item ends with its first chunk. *)
NeverMore == FALSE

MoreLeft == total > chunk

(***************************************************************************)
(* More of the item is left; or it is complete and another follows, which  *)
(* starts where this one should have ended; or all are.  desc->pos is left *)
(* as it is.                                                               *)
(***************************************************************************)
Advance ==
  /\ pc = "advance"
  /\ \/ /\ MoreLeft
        /\ total' = total - chunk
        /\ Start(offset + chunk)
        /\ UNCHANGED <<item, response>>
     \/ /\ ~ MoreLeft /\ item + 1 < request.nmemb
        /\ item' = item + 1
        /\ total' = request.size
        /\ Start(item' * request.size)
        /\ UNCHANGED response
     \/ /\ ~ MoreLeft /\ item + 1 = request.nmemb
        /\ item' = item + 1
        /\ response' = request.nmemb
        /\ pc' = "done"
        /\ UNCHANGED <<cluster, ahead, offset, total>>
  /\ UNCHANGED <<stream_pos, left, out, words, request, chunk>>

Next == FollowEntry \/ Locate \/ Sector \/ Advance

(* A read runs to its end inside one system call or one step of the boot.  *)
Spec == Init /\ [][Next]_vars /\ WF_vars(Next)

-----------------------------------------------------------------------------
(***************************************************************************)
(* Splitting a request into items, chunks and sectors neither drops nor    *)
(* repeats a byte: the buffer of the reader holds what is behind the       *)
(* current item, chunk and sector at every moment, never more than was     *)
(* asked for, and all of it when fat16_read reports success.               *)
(***************************************************************************)
Behind ==
  CASE pc = "locate"  -> item * request.size + (request.size - total)
    [] pc = "sector"  -> item * request.size + (request.size - total) + (chunk - left)
    [] pc = "advance" -> item * request.size + (request.size - total) + chunk
    [] pc = "done"    -> Len(out)

BufferIsFilled ==
  /\ Len(out) = Behind
  /\ Len(out) <= request.nmemb * request.size
  /\ response > 0 => Len(out) = request.nmemb * request.size

(* The cluster n entries down the chain of the file; REFUSED stays.        *)
Chain(n) ==
  LET after[i \in 0 .. n] ==
        IF i = 0 THEN First
        ELSE IF after[i - 1] = REFUSED THEN REFUSED ELSE words[after[i - 1]]
  IN after[n]

(***************************************************************************)
(* Every byte in the buffer is the one the chain of entries leads to, as   *)
(* long as no item starts inside a cluster and runs over its end: a chunk  *)
(* is a cluster long wherever it starts, so such an item would be read on  *)
(* into the neighbouring cluster.                                          *)
(***************************************************************************)
Splits(o) == (o % ClusterSize) # 0 /\ (o % ClusterSize) + request.size > ClusterSize

BytesFromChain ==
  (\A k \in 0 .. request.nmemb - 1 : ~ Splits(k * request.size))
    => \A i \in 1 .. Len(out) :
         LET c == Chain((i - 1) \div ClusterSize) IN
         c # REFUSED /\ out[i] = PositionIn(c, i - 1)

(***************************************************************************)
(* Every read ends, on chains of any shape, loops and refused entries among*)
(* them, and also when it ends with a sector and diskstreamer_read calls   *)
(* itself for zero bytes more.                                             *)
(***************************************************************************)
ReadEnds == <>(pc = "done")
=============================================================================
