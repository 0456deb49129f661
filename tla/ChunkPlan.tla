------------------------------ MODULE ChunkPlan ------------------------------
(***************************************************************************)
(* How a file is divided between the master task and its chunk tasks        *)
(* (download/chunk.rs).  A plan is a set of areas; the one at offset 0 is   *)
(* the master's, and the tasks of the others are listed in the order of     *)
(* their offsets.  filesize is how much of an area is on disk already.      *)
(***************************************************************************)
EXTENDS Integers, FiniteSets

CONSTANTS ChunkSize,      \* PGET_CHUNK_SIZE, 1 MiB
          OndemandSize,   \* ONDEMAND_CHUNK_SIZE, a quarter of it
          MergeThreshold, \* CHUNK_MERGE_THRESHOLD, an eighth of it
          MinFileSize     \* MIN_FILE_SIZE_FOR_CHUNKING, three times it

ASSUME ChunkPlanAssumption ==
  /\ ChunkSize \in Nat /\ ChunkSize >= 4
  /\ OndemandSize \in 1..ChunkSize
  /\ MergeThreshold \in 0..ChunkSize
  /\ MinFileSize \in Nat \ {0}

Area == [offset : Nat, size : Nat, filesize : Nat]
NewArea(offset, end) == [offset |-> offset, size |-> end - offset, filesize |-> 0]

EndOf(a) == a.offset + a.size
Least(x, y) == IF x <= y THEN x ELSE y

(* Multiples of a unit: the first not below, and the first above.            *)
RoundUp(x, unit) == x + ((unit - (x % unit)) % unit)
BoundaryAfter(x, unit) == x + (unit - (x % unit))

(* The areas of at most unit that [first, end) is cut into.                  *)
Slices(first, end, unit) ==
  {NewArea(first + i * unit, Least(first + (i + 1) * unit, end)) :
     i \in {j \in 0..(end - first) : first + j * unit < end}}

--------------------------------------------------------------------------------
(* Faulty: nothing follows the last full chunk. *)
BeforehandNoTail(first, end) ==
  {a \in Slices(first, end, ChunkSize) : a.size = ChunkSize}

(* split_remaining_into_chunk_sizes: a short remainder is part of the last    *)
(* full chunk, if there is one.                                               *)
Beforehand(first, end) ==
  LET tail == (end - first) % ChunkSize
      last == end - tail - ChunkSize
  IN IF 0 < tail /\ tail < MergeThreshold /\ first <= last
     THEN Slices(first, last, ChunkSize) \cup {NewArea(last, end)}
     ELSE Slices(first, end, ChunkSize)

(* create_chunk_tasks, when resumed bytes are in the .part file: one area, no  *)
(* chunk tasks, if the file is small or little of it is left.                  *)
CreatePlan(fileSize, resumed) ==
  LET boundary == BoundaryAfter(resumed, ChunkSize)
      master == IF fileSize < resumed + MinFileSize \/ fileSize <= boundary
                THEN fileSize ELSE boundary
  IN {[offset |-> 0, size |-> master, filesize |-> resumed]} \cup Beforehand(master, fileSize)

--------------------------------------------------------------------------------
(* Faulty: measures the whole area, as if nothing of it was there. *)
SplitAll(a) ==
  LET quarter == ChunkSize \div 4
      first == RoundUp(a.offset + quarter, ChunkSize)
  IN IF a.size <= ChunkSize \/ a.size - quarter < ChunkSize
     THEN {a}
     ELSE {[a EXCEPT !.size = first - a.offset]} \cup Slices(first, EndOf(a), ChunkSize)

(* split_download_areas, for one area: what is left to download is cut down to *)
(* a chunk, of which the area keeps at least a quarter.                        *)
SplitArea(a) ==
  LET quarter == ChunkSize \div 4
      start == a.offset + a.filesize
      left == EndOf(a) - start
      first == RoundUp(start + quarter, ChunkSize)
  IN IF left <= ChunkSize \/ left - quarter < ChunkSize
     THEN {a}
     ELSE {[a EXCEPT !.size = first - a.offset]} \cup Slices(first, EndOf(a), ChunkSize)

(* Chunk files are the lengths of the files at their offsets; those that begin  *)
(* within the .part file are passed over.                                       *)
Beyond(files, part) == {o \in DOMAIN files : o >= part}

(* validate_chunks: the others do not overlap, and end within the file.         *)
Valid(files, part, fileSize) ==
  \A o \in Beyond(files, part) :
    /\ o + files[o] <= fileSize
    /\ \A p \in Beyond(files, part) : o < p => o + files[o] <= p

(* adjust_and_create_chunks: the master's area reaches to the first chunk file, *)
(* and that of each file to the next.                                           *)
Adjusted(files, part, fileSize) ==
  LET starts == Beyond(files, part)
      Following(o) == CHOOSE e \in starts \cup {fileSize} :
                   e > o /\ \A f \in starts \cup {fileSize} : f > o => e <= f
      first == CHOOSE e \in starts : \A f \in starts : e <= f
  IN {[offset |-> 0, size |-> first, filesize |-> part]}
       \cup {[offset |-> o, size |-> Following(o) - o, filesize |-> files[o]] : o \in starts}

RecoveredPlan(files, part, fileSize) ==
  UNION {SplitArea(a) : a \in Adjusted(files, part, fileSize)}

--------------------------------------------------------------------------------
(* create_ondemand_chunks, while the area is downloaded: its task keeps what is *)
(* left up to the next boundary, and the rest is cut up.  The size it keeps is  *)
(* limited by what is left, though it counts from the start of the area.        *)
OndemandAreas(a) ==
  LET append == a.offset + a.filesize
      left == a.size - a.filesize
      boundary == BoundaryAfter(append, OndemandSize)
  IN {[a EXCEPT !.size = Least(boundary - a.offset, left)]}
       \cup Slices(boundary, EndOf(a), OndemandSize)

(* may_ondemand_chunking, of an area whose task has no chunks yet               *)
MayOndemand(a) == a.size - a.filesize >= 2 * OndemandSize

(* That limit bites: the task stops short of the boundary, or has already got    *)
(* more than its size.                                                           *)
Miscut(a) ==
  BoundaryAfter(a.offset + a.filesize, OndemandSize) - a.offset > a.size - a.filesize

--------------------------------------------------------------------------------
(* The areas cover from first to end, each byte once.                            *)
Tile(plan, first, end) ==
  /\ \A a \in plan : first <= a.offset /\ a.size > 0 /\ EndOf(a) <= end
  /\ \A p \in first..(end - 1) : \E a \in plan : a.offset <= p /\ p < EndOf(a)
  /\ \A a \in plan, b \in plan : a # b => EndOf(a) <= b.offset \/ EndOf(b) <= a.offset
=============================================================================
