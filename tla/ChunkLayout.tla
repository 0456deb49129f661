----------------------------- MODULE ChunkLayout -----------------------------
(***************************************************************************)
(* The life of one chunked download on disk, from run to run of the program *)
(* (download/chunk.rs, file_ops.rs, orchestration.rs): a plan is made, or   *)
(* recovered from the files a crash left; the areas' files grow side by     *)
(* side; an area may be cut up while it is downloaded; the files are        *)
(* appended to the .part file in the order of their offsets.  Only offsets  *)
(* and lengths are kept: a file holds what belongs at its offset.  The      *)
(* threads, and what they do to each other, are ChunkedDownload's matter.   *)
(***************************************************************************)
EXTENDS ChunkPlan

CONSTANTS Sizes,     \* file sizes
          Lengths,   \* lengths at which the downloading of an area may be stopped
          MaxFaults  \* bound of crashes, failed attempts and on-demand cuts

ASSUME ChunkLayoutAssumption ==
  Sizes \subseteq Nat \ {0} /\ Lengths \subseteq Nat \ {0} /\ MaxFaults \in Nat

VARIABLES phase,    \* "idle": no process; "running"; "done": file finalized
          fileSize,
          part,     \* length of the .part file, 0 if there is none
          files,    \* length of each chunk file, by its offset
          plan,     \* the areas, with what was on disk when they were planned
          whole,    \* offsets of the areas that have no chunks of their own
          miscut,   \* history variable: an on-demand cut of this plan left a gap
          stale,    \* history variable: chunk files merged, or of an earlier plan
          faults

vars == <<phase, fileSize, part, files, plan, whole, miscut, stale, faults>>

Without(o) == [p \in DOMAIN files \ {o} |-> files[p]]
None == [o \in {} |-> 0]
Len(a) == IF a.offset = 0 THEN part
          ELSE IF a.offset \in DOMAIN files THEN files[a.offset] ELSE 0
SetLen(a, n) ==
  IF a.offset = 0
  THEN part' = n /\ UNCHANGED files
  ELSE /\ files' = [o \in DOMAIN files \cup {a.offset} |-> IF o = a.offset THEN n ELSE files[o]]
       /\ UNCHANGED part

TypeOK ==
  /\ phase \in {"idle", "running", "done"}
  /\ fileSize \in Sizes
  /\ part \in 0..fileSize
  /\ \A o \in DOMAIN files : o \in 1..(fileSize - 1) /\ files[o] \in Nat
  /\ plan \subseteq Area
  /\ whole \subseteq {a.offset : a \in plan}
  /\ miscut \in BOOLEAN
  /\ stale \subseteq 1..(fileSize - 1)
  /\ faults \in 0..MaxFaults

Init ==
  /\ phase = "idle"
  /\ fileSize \in Sizes
  /\ part = 0 /\ files = None /\ plan = {} /\ whole = {}
  /\ miscut = FALSE /\ stale = {} /\ faults = 0

Plan(p) ==
  /\ plan' = p
  /\ whole' = {a.offset : a \in p} \ (IF Cardinality(p) = 1 THEN {} ELSE {0})
  /\ miscut' = FALSE

--------------------------------------------------------------------------------
(* recover_parto_files and create_chunk_tasks.  Files that overlap are removed, *)
(* with the .part file; if none begins beyond it, a new plan is made.           *)
Start ==
  /\ phase = "idle" /\ phase' = "running"
  /\ IF Valid(files, part, fileSize)
     THEN /\ Plan(IF Beyond(files, part) = {} THEN CreatePlan(fileSize, part)
                  ELSE RecoveredPlan(files, part, fileSize))
          /\ UNCHANGED <<part, files, stale>>
     ELSE /\ part' = 0 /\ files' = None /\ stale' = {}
          /\ Plan(CreatePlan(fileSize, 0))
  /\ UNCHANGED <<fileSize, faults>>

(* Faulty: writes a whole buffer, across the end of the area. *)
GrowBeyond(a) ==
  /\ phase = "running" /\ a \in plan
  /\ a.offset = 0 \/ a.offset >= part
  /\ \E n \in Lengths \cup {a.size, a.size + 1} :
       Len(a) < n /\ a.offset + n <= fileSize /\ SetLen(a, n)
  /\ UNCHANGED <<phase, fileSize, plan, whole, miscut, stale, faults>>

(* process_chunk_download_stream, of the master's own area or of a chunk that is *)
(* not merged yet.  What lies beyond the area is never written.                  *)
Grow(a) ==
  /\ phase = "running" /\ a \in plan
  /\ a.offset = 0 \/ a.offset >= part
  /\ \E n \in Lengths \cup {a.size} : Len(a) < n /\ n <= a.size /\ SetLen(a, n)
  /\ UNCHANGED <<phase, fileSize, plan, whole, miscut, stale, faults>>

(* check_chunk_completion: a file longer than its area is removed.              *)
Discard(a) ==
  /\ phase = "running" /\ a \in plan
  /\ a.offset \in DOMAIN files /\ files[a.offset] > a.size
  /\ files' = Without(a.offset)
  /\ UNCHANGED <<phase, fileSize, part, plan, whole, miscut, stale, faults>>

(* Faulty: leaves the chunk file behind. *)
MergeKeeping(a) ==
  /\ phase = "running" /\ a \in plan
  /\ a.offset > 0 /\ a.offset = part /\ Len(a) = a.size
  /\ part' = part + a.size
  /\ UNCHANGED <<phase, fileSize, files, stale, plan, whole, miscut, faults>>

(* merge_completed_chunk and validate_chunk_merge_integrity                     *)
Merge(a) ==
  /\ phase = "running" /\ a \in plan
  /\ a.offset > 0 /\ a.offset = part /\ Len(a) = a.size
  /\ part' = part + a.size
  /\ files' = Without(a.offset)
  /\ stale' = stale \ {a.offset}
  /\ UNCHANGED <<phase, fileSize, plan, whole, miscut, faults>>

(* check_ondemand_chunking, in the thread that downloads the area               *)
Ondemand(a) ==
  LET now == [a EXCEPT !.filesize = Len(a)] IN
  /\ phase = "running" /\ a \in plan
  /\ a.offset \in whole /\ 0 < Len(a) /\ Len(a) < a.size
  /\ MayOndemand(now)
  /\ plan' = (plan \ {a}) \cup OndemandAreas(now)
  /\ whole' = (whole \cup {b.offset : b \in OndemandAreas(now)}) \ {a.offset}
  /\ miscut' = (miscut \/ Miscut(now))
  /\ faults < MaxFaults /\ faults' = faults + 1
  /\ UNCHANGED <<phase, fileSize, part, files, stale>>

(* An attempt that fails is begun again from nothing, *)
Retry ==
  /\ phase = "running"
  /\ part' = 0 /\ files' = None /\ stale' = {}
  /\ Plan(CreatePlan(fileSize, 0))
  /\ UNCHANGED <<phase, fileSize>>

Fail == faults < MaxFaults /\ faults' = faults + 1 /\ Retry

(* and one with a gap in its plan always fails: the bytes are nobody's.          *)
FailOnGap == miscut /\ UNCHANGED faults /\ Retry

(* ContentIncomplete, of the master's own area: the files stay, but the new plan  *)
(* is made from the .part file alone.                                             *)
FailIncomplete ==
  /\ phase = "running"
  /\ \E a \in plan : a.offset = 0 /\ part < a.size
  /\ Plan(CreatePlan(fileSize, part))
  /\ stale' = stale \cup DOMAIN files
  /\ faults < MaxFaults /\ faults' = faults + 1
  /\ UNCHANGED <<phase, fileSize, part, files>>

Crash ==
  /\ phase = "running" /\ phase' = "idle"
  /\ faults < MaxFaults /\ faults' = faults + 1
  /\ UNCHANGED <<fileSize, part, files, plan, whole, miscut, stale>>

(* In the middle of append_file_to_file, or before the chunk file is removed.     *)
CrashMerging(a) ==
  /\ phase = "running" /\ phase' = "idle"
  /\ a \in plan /\ a.offset > 0 /\ a.offset = part /\ Len(a) = a.size
  /\ \E n \in Lengths \cup {a.size} : n <= a.size /\ part' = part + n
  /\ stale' = stale \cup {a.offset}
  /\ faults < MaxFaults /\ faults' = faults + 1
  /\ UNCHANGED <<fileSize, files, plan, whole, miscut>>

(* finalize_file, when every area is merged                                       *)
Finalize ==
  /\ phase = "running" /\ part = fileSize
  /\ phase' = "done"
  /\ UNCHANGED <<fileSize, part, files, plan, whole, miscut, stale, faults>>

Progress == \/ Start \/ Finalize \/ FailOnGap
            \/ \E a \in plan : Grow(a) \/ Discard(a) \/ Merge(a)

Next == \/ Progress \/ Fail \/ FailIncomplete \/ Crash
        \/ \E a \in plan : Ondemand(a) \/ CrashMerging(a)

(* The program is started again after a crash, and its threads run.               *)
Spec == Init /\ [][Next]_vars /\ WF_vars(Progress)

--------------------------------------------------------------------------------
(* Whatever files a crash, or several, have left, the areas that the next run      *)
(* plans cover the file, do not overlap, and have room for what was there, unless  *)
(* an on-demand cut left a gap.                                                    *)
Tiles ==
  phase = "running" /\ ~miscut =>
    Tile(plan, 0, fileSize) /\ \A a \in plan : a.filesize <= a.size

(* Nothing that was downloaded is thrown away on recovery: the files of a crash    *)
(* never overlap, except those of an earlier plan of the same run.                 *)
RecoveryAccepts ==
  phase = "idle" /\ ~Valid(files, part, fileSize) => stale \cap Beyond(files, part) # {}

(* A finished download leaves no chunk file that a later version of the file could *)
(* take for its own, except those it had stopped counting on.                      *)
OnlyStaleLeft == phase = "done" => DOMAIN files \subseteq stale

(* When the faults are over, every area is downloaded and merged: the plan that    *)
(* recovery, retries and on-demand cuts end up with has no gap for the merge to     *)
(* stop at.                                                                         *)
EventuallyWhole == <>(phase = "done")
=============================================================================
