--------------------------- MODULE ChunkedDownload ---------------------------
(***************************************************************************)
(* The threads of one chunked download (download/chunk.rs, manager.rs,      *)
(* orchestration.rs): the master's thread downloads its own range, then     *)
(* waits for the chunks in order and merges them; the manager's loop starts *)
(* threads for pending chunks, and so does the waiting master; each thread  *)
(* writes one chunk file.  An attempt that fails is followed by another,    *)
(* with new task objects that use the same paths, and nobody stops the      *)
(* threads of the attempt before.                                           *)
(*                                                                          *)
(* The plan of ChunkPlan is fixed here: the master's own range is one unit  *)
(* long, each chunk two or more, and there are no on-demand chunks.  Files   *)
(* are sequences of units, TRUE where the content of the file is, FALSE for  *)
(* the zeros of a hole.                                                      *)
(***************************************************************************)
EXTENDS Naturals, Sequences, FiniteSets

CONSTANTS NrChunks,
          Units,      \* length of a chunk
          MaxRetries, \* max_retries, of attempts and of the tries of a chunk
          Slots,      \* of chunk threads: a bound on those that run at a time
          MayBeLeft,  \* chunks that may have a file from before
          MaxFaults   \* bound of network failures and failed writes

ASSUME ChunkedDownloadAssumption ==
  /\ NrChunks \in Nat \ {0} /\ Units \in Nat \ {0}
  /\ MaxRetries \in Nat /\ MaxFaults \in Nat
  /\ IsFiniteSet(Slots) /\ Slots \subseteq Nat
  /\ MayBeLeft \subseteq 1..NrChunks

Chunks == 1..NrChunks
Attempts == 1..(MaxRetries + 1)
Tasks == Attempts \X Chunks  \* a task object: its attempt, and its place

VARIABLES master,   \* "own", "wait", "done" or "failed"
          attempt,
          part,     \* the .part file
          files,    \* the chunk files that are there
          taskStatus, \* of each task
          tries,    \* attempt_number of the chunks of this attempt
          head,     \* the first chunk of the master's list
          read,     \* the status of it that the master has read, or "none"
          anyFail,  \* any_fail
          held,     \* tasks the manager's loop has collected as pending
          checked,  \* the one it has found to be still pending, if any
          threads,  \* chunk threads by slot
          faults,
          holed,    \* history variable: a thread opened a shorter file than it measured
          overwritten \* history variable: a chunk was made pending while it was not failed

sched == <<taskStatus, tries, head, read, anyFail>>
manager == <<held, checked>>
disk == <<part, files>>
marks == <<holed, overwritten>>
chunksVars == <<master, attempt, disk, sched, manager, threads, faults, marks>>

None == <<>>
Idle == [task |-> None]
Thread == [task : Tasks, pc : {"measure", "open", "write"}, at : 0..Units, live : BOOLEAN]
Running == {i \in Slots : threads[i] # Idle}
Path(i) == threads[i].task[2]

LenOf(k) == IF k \in DOMAIN files THEN Len(files[k]) ELSE 0
SetFile(k, f) == files' = [l \in DOMAIN files \cup {k} |-> IF l = k THEN f ELSE files[l]]
OffsetOf(k) == 1 + (k - 1) * Units

(* Chunk files that a crash may have left are whole up to their ends.        *)
Leftovers == {[i \in 1..n |-> TRUE] : n \in 1..Units}

ChunksInit ==
  /\ master = "own" /\ attempt = 1
  /\ part = <<>> /\ files \in UNION {[ks -> Leftovers] : ks \in SUBSET MayBeLeft}
  /\ taskStatus = [t \in Tasks |-> IF t[1] = 1 THEN "pending" ELSE "none"]
  /\ tries = [k \in Chunks |-> 0]
  /\ head = 1 /\ read = "none" /\ anyFail = FALSE
  /\ held = {} /\ checked = None
  /\ threads = [i \in Slots |-> Idle]
  /\ faults = 0 /\ holed = FALSE /\ overwritten = FALSE

Fault == faults < MaxFaults /\ faults' = faults + 1

--------------------------------------------------------------------------------
(* Threads.                                                                  *)

Free == {i \in Slots : threads[i] = Idle}

(* The status is Downloading by now. *)
SpawnChunk(t) ==
  /\ Free # {}
  /\ LET i == CHOOSE j \in Free : \A l \in Free : j <= l
     IN threads' = [threads EXCEPT ![i] = [task |-> t, pc |-> "measure", at |-> 0, live |-> TRUE]]

End(i, s) ==
  /\ taskStatus' = [taskStatus EXCEPT ![threads[i].task] = s]
  /\ threads' = [threads EXCEPT ![i] = Idle]

(* check_existing_partfile, and the request from there on *)
Measure(i) ==
  /\ i \in Running /\ threads[i].pc = "measure"
  /\ IF LenOf(Path(i)) = Units
     THEN End(i, "completed")
     ELSE /\ threads' = [threads EXCEPT ![i].at = LenOf(Path(i)), ![i].pc = "open"]
          /\ UNCHANGED taskStatus
  /\ UNCHANGED <<master, attempt, disk, tries, head, read, anyFail, manager, faults, marks>>

(* Faulty: the file is truncated, and then written from the place measured. *)
OpenTruncating(i) ==
  /\ i \in Running /\ threads[i].pc = "open"
  /\ threads' = [threads EXCEPT ![i].pc = "write", ![i].live = TRUE]
  /\ SetFile(Path(i), <<>>)
  /\ holed' = (holed \/ LenOf(Path(i)) < threads[i].at)
  /\ UNCHANGED <<master, attempt, part, sched, manager, faults, overwritten>>

(* setup_download_file, when the response has come: the file is made anew if  *)
(* it is gone, and is not cut or filled.                                      *)
Open(i) ==
  /\ i \in Running /\ threads[i].pc = "open"
  /\ threads' = [threads EXCEPT ![i].pc = "write", ![i].live = TRUE]
  /\ IF Path(i) \in DOMAIN files THEN UNCHANGED files ELSE SetFile(Path(i), <<>>)
  /\ holed' = (holed \/ LenOf(Path(i)) < threads[i].at)
  /\ UNCHANGED <<master, attempt, part, sched, manager, faults, overwritten>>

Padded(f, n) == f \o [j \in 1..(n - Len(f)) |-> FALSE]
(* Faulty: the file is opened with O_APPEND. *)
WrittenAtEnd(f, n) == Append(f, Len(f) = n)

Written(f, n) == IF Len(f) > n THEN [f EXCEPT ![n + 1] = TRUE] ELSE Append(Padded(f, n), TRUE)

(* write_chunk_data, which compares the length of the file with what should    *)
(* be there by now; and the file of a path that was removed is anybody's guess. *)
Write(i) ==
  LET t == threads[i]
      f == Written(files[Path(i)], t.at)  \* if the thread's file is still there
  IN /\ i \in Running /\ t.pc = "write" /\ t.at < Units
     /\ IF t.live
        THEN /\ SetFile(Path(i), f)
             /\ IF Len(f) = t.at + 1
                THEN threads' = [threads EXCEPT ![i].at = @ + 1] /\ UNCHANGED taskStatus
                ELSE End(i, "failed")
        ELSE /\ threads' = [threads EXCEPT ![i].at = @ + 1]
             /\ UNCHANGED <<files, taskStatus>>
     /\ UNCHANGED <<master, attempt, part, tries, head, read, anyFail, manager, faults, marks>>

(* Faulty: an end that leaves the status as it is. *)
FinishSilently(i) ==
  /\ i \in Running /\ threads[i].pc = "write" /\ threads[i].at = Units
  /\ threads' = [threads EXCEPT ![i] = Idle]
  /\ UNCHANGED <<master, attempt, disk, sched, manager, faults, marks>>

(* validate_chunk_file_boundaries looks at the path, whoever wrote there.      *)
FinishChunk(i) ==
  /\ i \in Running /\ threads[i].pc = "write" /\ threads[i].at = Units
  /\ End(i, IF LenOf(Path(i)) = Units THEN "completed" ELSE "failed")
  /\ UNCHANGED <<master, attempt, disk, tries, head, read, anyFail, manager, faults, marks>>

(* The request or the connection fails. *)
Break(i) ==
  /\ i \in Running /\ threads[i].pc \in {"open", "write"}
  /\ Fault
  /\ End(i, "failed")
  /\ UNCHANGED <<master, attempt, disk, tries, head, read, anyFail, manager, marks>>

--------------------------------------------------------------------------------
(* The manager's loop, start_chunks_processing.                               *)

Collect ==
  /\ held = {} /\ checked = None
  /\ held' = {t \in Tasks : t[1] = attempt /\ taskStatus[t] = "pending"}
  /\ held' # {}
  /\ UNCHANGED <<master, attempt, disk, sched, checked, threads, faults, marks>>

(* spawn_chunk_threads goes by offset and asks again, *)
Check(t) ==
  /\ checked = None
  /\ t \in held /\ \A u \in held : t[2] <= u[2]
  /\ held' = held \ {t}
  /\ checked' = IF taskStatus[t] = "pending" THEN t ELSE None
  /\ UNCHANGED <<master, attempt, disk, sched, threads, faults, marks>>

(* Faulty: sets the status without looking at it. *)
StartBlindly ==
  /\ checked # None
  /\ checked' = None
  /\ taskStatus' = [taskStatus EXCEPT ![checked] = "downloading"]
  /\ SpawnChunk(checked)
  /\ UNCHANGED <<master, attempt, disk, tries, head, read, anyFail, held, faults, marks>>

(* and update_download_status then refuses only what is downloading.           *)
Start ==
  /\ checked # None
  /\ checked' = None
  /\ IF taskStatus[checked] = "downloading"
     THEN UNCHANGED <<taskStatus, threads>>
     ELSE /\ taskStatus' = [taskStatus EXCEPT ![checked] = "downloading"]
          /\ SpawnChunk(checked)
  /\ UNCHANGED <<master, attempt, disk, tries, head, read, anyFail, held, faults, marks>>

--------------------------------------------------------------------------------
(* The master's thread.                                                        *)

(* download_chunk_task for its own range; what is there is kept.                *)
OwnDone ==
  /\ master = "own"
  /\ master' = "wait" /\ part' = <<TRUE>>
  /\ UNCHANGED <<attempt, files, sched, manager, threads, faults, marks>>

(* download_file_with_retries: the files are removed, unless the content was     *)
(* just incomplete, and new tasks are made; chunk threads go on, with files that *)
(* have no name any more.                                                        *)
Retry(keep) ==
  /\ IF attempt > MaxRetries
     THEN /\ master' = "failed"
          /\ UNCHANGED <<attempt, disk, sched, threads>>
     ELSE /\ master' = "own" /\ attempt' = attempt + 1
          /\ taskStatus' = [t \in Tasks |-> IF t[1] = attempt + 1 THEN "pending" ELSE taskStatus[t]]
          /\ tries' = [k \in Chunks |-> 0]
          /\ head' = 1 /\ read' = "none" /\ anyFail' = FALSE
          /\ IF keep THEN UNCHANGED <<disk, threads>>
             ELSE /\ part' = <<>> /\ files' = [k \in {} |-> <<>>]
                  /\ threads' = [i \in Slots |-> IF i \in Running THEN [threads[i] EXCEPT !.live = FALSE]
                                                 ELSE Idle]
  /\ UNCHANGED manager

OwnFails ==
  /\ master = "own"
  /\ Fault
  /\ \E keep \in BOOLEAN : Retry(keep)
  /\ UNCHANGED marks

(* process_chunks_at_level reads the status of the first chunk of its list, and   *)
(* sleeps while it is downloading;                                                *)
Read ==
  /\ master = "wait" /\ head \in Chunks /\ read = "none"
  /\ taskStatus[<<attempt, head>>] # "downloading"
  /\ read' = taskStatus[<<attempt, head>>]
  /\ UNCHANGED <<master, attempt, disk, taskStatus, tries, head, anyFail, manager, threads, faults, marks>>

Pass == head' = head + 1 /\ read' = "none"

(* a pending one it starts itself, and if the manager has just done so, gives up  *)
(* the chunk;                                                                     *)
OnPending ==
  LET t == <<attempt, head>> IN
  /\ master = "wait" /\ read = "pending"
  /\ IF taskStatus[t] = "downloading"
     THEN /\ anyFail' = TRUE /\ Pass
          /\ UNCHANGED <<taskStatus, threads>>
     ELSE /\ taskStatus' = [taskStatus EXCEPT ![t] = "downloading"]
          /\ SpawnChunk(t)
          /\ read' = "none" /\ UNCHANGED <<head, anyFail>>
  /\ UNCHANGED <<master, attempt, disk, tries, manager, faults, holed, overwritten>>

(* one that failed is pending again, whatever it is by now, or is given up;        *)
OnFailed ==
  LET t == <<attempt, head>> IN
  /\ master = "wait" /\ read = "failed"
  /\ IF tries[head] < MaxRetries
     THEN /\ tries' = [tries EXCEPT ![head] = @ + 1]
          /\ taskStatus' = [taskStatus EXCEPT ![t] = "pending"]
          /\ overwritten' = (overwritten \/ taskStatus[t] # "failed")
          /\ read' = "none" /\ UNCHANGED <<head, anyFail>>
     ELSE /\ anyFail' = TRUE /\ Pass
          /\ UNCHANGED <<tries, taskStatus, overwritten>>
  /\ UNCHANGED <<master, attempt, disk, manager, threads, faults, holed>>

(* and one that is complete is merged, unless another has failed.                  *)
OnCompleted ==
  /\ master = "wait" /\ read = "completed" /\ anyFail
  /\ Pass
  /\ UNCHANGED <<master, attempt, disk, taskStatus, tries, anyFail, manager, threads, faults, marks>>

Remove(k) ==
  /\ files' = [l \in DOMAIN files \ {k} |-> files[l]]
  /\ threads' = [i \in Slots |-> IF i \in Running /\ Path(i) = k
                                 THEN [threads[i] EXCEPT !.live = FALSE] ELSE threads[i]]

(* merge_completed_chunk, when file and offset are as they should be              *)
Merge ==
  /\ master = "wait" /\ read = "completed" /\ ~anyFail
  /\ LenOf(head) = Units /\ Len(part) = OffsetOf(head)
  /\ part' = part \o files[head]
  /\ Remove(head)
  /\ Pass
  /\ UNCHANGED <<master, attempt, taskStatus, tries, anyFail, manager, faults, marks>>

(* If the file is gone, or cannot be appended, validate_chunk_merge_integrity      *)
(* fails; if it is short, validate_chunk_file_boundaries.                          *)
MergeFails ==
  /\ master = "wait" /\ read = "completed" /\ ~anyFail
  /\ IF LenOf(head) = Units
     THEN Fault /\ Retry(FALSE)
     ELSE UNCHANGED faults /\ Retry(head \in DOMAIN files)
  /\ UNCHANGED marks

(* The list is empty: finalize_file, or another attempt.                           *)
Finalize ==
  /\ master = "wait" /\ head > NrChunks /\ ~anyFail
  /\ Len(part) = 1 + NrChunks * Units
  /\ master' = "done"
  /\ UNCHANGED <<attempt, disk, sched, manager, threads, faults, marks>>

GiveUp ==
  /\ master = "wait" /\ head > NrChunks
  /\ anyFail \/ Len(part) # 1 + NrChunks * Units
  /\ Retry(FALSE)
  /\ UNCHANGED <<faults, marks>>

--------------------------------------------------------------------------------
MasterStep == \/ OwnDone \/ Read \/ OnPending \/ OnFailed \/ OnCompleted
              \/ Merge \/ MergeFails \/ Finalize \/ GiveUp
ThreadStep(i) == Measure(i) \/ Open(i) \/ Write(i) \/ FinishChunk(i)

Others == \/ Collect \/ (\E t \in Tasks : Check(t)) \/ Start
          \/ \E i \in Slots : ThreadStep(i) \/ Break(i)

(* What the others do when the master has ended is left out.                       *)
ChunksNext == \/ MasterStep \/ OwnFails
              \/ master \in {"own", "wait"} /\ Others

(* Threads run; the manager's loop need not.                                       *)
ChunksSpec == /\ ChunksInit /\ [][ChunksNext]_chunksVars
              /\ WF_chunksVars(MasterStep)
              /\ \A i \in Slots : WF_chunksVars(master \in {"own", "wait"} /\ ThreadStep(i))

--------------------------------------------------------------------------------
ChunksTypeOK ==
  /\ master \in {"own", "wait", "done", "failed"} /\ attempt \in Attempts
  /\ part \in Seq(BOOLEAN)
  /\ DOMAIN files \subseteq Chunks /\ \A k \in DOMAIN files : files[k] \in Seq(BOOLEAN)
  /\ taskStatus \in [Tasks -> {"none", "pending", "downloading", "completed", "failed"}]
  /\ tries \in [Chunks -> 0..MaxRetries] /\ head \in 1..(NrChunks + 1)
  /\ read \in {"none", "pending", "completed", "failed"} /\ anyFail \in BOOLEAN
  /\ held \subseteq Tasks /\ checked \in Tasks \cup {None}
  /\ threads \in [Slots -> Thread \cup {Idle}]
  /\ faults \in 0..MaxFaults /\ {holed, overwritten} \subseteq BOOLEAN

(* Two threads download one chunk of one attempt only after handle_failed_chunk has *)
(* made a chunk pending that somebody had started since it was seen to have failed: *)
(* the two tests of the status by the manager and the one by the waiting master are *)
(* apart from their assignments of it, but update_download_status is one test and    *)
(* set.                                                                              *)
OneFetcher ==
  \A i, j \in Running : threads[i].task = threads[j].task => i = j \/ overwritten

(* The part file is the first bytes of the content, in order and without a hole,     *)
(* with threads of earlier attempts writing chunk files of the same names; unless    *)
(* one of them opened a file that had been removed since it measured it: it then     *)
(* seeks past the end, and no size tells the hole from data (file_ops.rs:843).       *)
PartIsRight == holed \/ \A n \in DOMAIN part : part[n]

(* While the master waits, a chunk not yet merged that counts as completed has its    *)
(* whole file: no thread of an earlier attempt removes or cuts it, and merging does    *)
(* not meet the missing or short file that it is ready to meet (chunk.rs:1469).        *)
CompletedIsThere ==
  master = "wait" =>
    \A k \in Chunks : k >= head /\ taskStatus[<<attempt, k>>] = "completed" => LenOf(k) = Units

(* wait_for_chunks_and_merge does not wait for ever, and attempts run out.             *)
Terminates == <>(master \in {"done", "failed"})
=============================================================================
