---------------------------- MODULE DiskStreamer ----------------------------
(***************************************************************************)
(* Reading bytes from a disk that is read by sectors (disk_streamer.c).  A *)
(* byte of the disk stands for itself: it is known by its position, so the *)
(* buffer a reader fills is the sequence of the positions copied.          *)
(* disk_read_block only fails for another disk than the stream's.          *)
(***************************************************************************)
EXTENDS Integers, Sequences

CONSTANT SectorSize   \* VARGOOS_SECTOR_SIZE

ASSUME SectorSizeAssumption == SectorSize \in Nat \ {0}

VARIABLES
  stream_pos,   \* stream->pos
  left,         \* total, of the call of diskstreamer_read in progress
  out           \* what was copied to the reader's buffer so far

diskstreamer_seek(pos) == stream_pos' = pos

(* What one sector contributes: the rest of it, or what is left to read.   *)
(* A read that ends with the sector is taken to overflow it.               *)
Overflow == (stream_pos % SectorSize) + left >= SectorSize

(* Mutant: what is left of a sector, taken modulo its size: nothing of a   *)
(* whole one.                                                              *)
NothingOfWhole ==
  IF Overflow THEN (SectorSize - (stream_pos % SectorSize)) % SectorSize ELSE left

FromSector == IF Overflow THEN SectorSize - (stream_pos % SectorSize) ELSE left
Copied(n) == [i \in 1 .. n |-> stream_pos + i - 1]

(* One sector: one call of the recursive diskstreamer_read. *)
ReadSector ==
  /\ out' = out \o Copied(FromSector)
  /\ stream_pos' = stream_pos + FromSector
  /\ left' = left - FromSector
=============================================================================
