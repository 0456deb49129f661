--------------------------- MODULE DownloadManager ---------------------------
(***************************************************************************)
(* The scheduler of downloads (download/manager.rs): one map of tasks, one  *)
(* flag that says whether a processing loop runs, the loops, a thread per   *)
(* download, and the threads of the program that submit downloads and wait. *)
(*                                                                          *)
(* A caller is a thread of one of three kinds: "stream" reads a repository  *)
(* index as it arrives (download_and_process_item, repo.rs) until its data  *)
(* channel is closed; "all" waits for each of its URLs (download_urls); and *)
(* "any" takes packages as they complete and gives up at the first that     *)
(* failed (wait_downloads_and_unpack, install.rs).  Each calls              *)
(* start_processing once, so a loop is named after the caller that spawned  *)
(* it.  What a download does is ResumableDownload's and ChunkedDownload's   *)
(* matter; here it ends well or badly.  Ctrl-C cancels and exits: as the    *)
(* process is gone, cancel() is left out.                                   *)
(***************************************************************************)
EXTENDS Naturals, FiniteSets

CONSTANTS Urls,
          Callers,
          Want,       \* the URLs each caller submits
          Kind,       \* "stream", "all" or "any"
          Size,       \* file_size of each URL, 0 if unknown
          NrParallel  \* nr_parallel_download

ASSUME DownloadManagerAssumption ==
  /\ IsFiniteSet(Urls)
  /\ Want \in [Callers -> (SUBSET Urls) \ {{}}]
  /\ Kind \in [Callers -> {"stream", "all", "any"}]
  /\ Size \in [Urls -> Nat]
  /\ NrParallel \in Nat \ {0}

VARIABLES status,     \* of each task; "none" if the URL is not in tasks
          channels,   \* data_channels of each task, named by their receivers
          processing, \* is_processing
          handles,    \* task_handles, named by their URLs
          thread,     \* of each task: "none", "running", "closing", "finished"
          loop,       \* main processing loops: "none", "clean", "look", "stop", "ended"
          caller,     \* "submit", "load", "store", "spawn", "wait", "done"
          toSubmit,   \* URLs the caller has yet to submit
          result,     \* what a caller that waits was told
          unseen,     \* history variable: callers whose tasks no loop will look at
          late        \* history variable: channels added after the task's were closed

vars == <<status, channels, processing, handles, thread, loop, caller, toSubmit,
          result, unseen, late>>
tasks == <<status, channels, handles, thread>>
history == <<unseen, late>>

Ends == {"completed", "failed"}

TypeOK ==
  /\ status \in [Urls -> {"none", "pending", "downloading"} \cup Ends]
  /\ channels \in [Urls -> SUBSET Callers]
  /\ processing \in BOOLEAN
  /\ handles \subseteq Urls
  /\ thread \in [Urls -> {"none", "running", "closing", "finished"}]
  /\ loop \in [Callers -> {"none", "clean", "look", "stop", "ended"}]
  /\ caller \in [Callers -> {"submit", "load", "store", "spawn", "wait", "done"}]
  /\ toSubmit \in [Callers -> SUBSET Urls]
  /\ result \in [Callers -> {"none", "ok", "failed"}]
  /\ unseen \subseteq Callers /\ late \subseteq Callers

Init ==
  /\ status = [u \in Urls |-> "none"]
  /\ channels = [u \in Urls |-> {}]
  /\ processing = FALSE
  /\ handles = {}
  /\ thread = [u \in Urls |-> "none"]
  /\ loop = [c \in Callers |-> "none"]
  /\ caller = [c \in Callers |-> "submit"]
  /\ toSubmit = Want
  /\ result = [c \in Callers |-> "none"]
  /\ unseen = {} /\ late = {}

--------------------------------------------------------------------------------
(* The callers.                                                              *)

Goto(c, step) == caller' = [caller EXCEPT ![c] = step]

Channel(c) == IF Kind[c] = "stream" THEN {c} ELSE {}

(* Faulty: the task replaces one that is there. *)
SubmitAnew(c, u) ==
  /\ caller[c] = "submit" /\ u \in toSubmit[c]
  /\ status' = [status EXCEPT ![u] = "pending"]
  /\ channels' = [channels EXCEPT ![u] = Channel(c)]
  /\ toSubmit' = [toSubmit EXCEPT ![c] = @ \ {u}]
  /\ IF toSubmit'[c] = {} THEN Goto(c, "load") ELSE UNCHANGED caller
  /\ UNCHANGED <<handles, thread, processing, loop, result, history>>

(* submit_task, under the lock of tasks.  A URL that is there, even one done *)
(* long ago, keeps its task, which is given the channel of the new one.      *)
Submit(c, u) ==
  /\ caller[c] = "submit" /\ u \in toSubmit[c]
  /\ status' = [status EXCEPT ![u] = IF @ = "none" THEN "pending" ELSE @]
  /\ channels' = [channels EXCEPT ![u] = @ \cup Channel(c)]
  /\ toSubmit' = [toSubmit EXCEPT ![c] = @ \ {u}]
  /\ late' = IF thread[u] = "finished" THEN late \cup Channel(c) ELSE late
  /\ IF toSubmit'[c] = {} THEN Goto(c, "load") ELSE UNCHANGED caller
  /\ UNCHANGED <<handles, thread, processing, loop, result, unseen>>

(* Somebody will look at the tasks that are pending now.                     *)
Attended == \/ \E d \in Callers : loop[d] \in {"clean", "look"}
            \/ \E d \in Callers : caller[d] \in {"store", "spawn"}

(* start_processing reads the flag, and then sets it and spawns a loop: no    *)
(* lock is held, and the flag of a loop that has found nothing left to do is  *)
(* still set when it is read.                                                 *)
Load(c) ==
  /\ caller[c] = "load"
  /\ Goto(c, IF processing THEN "wait" ELSE "store")
  /\ unseen' = IF processing /\ ~Attended THEN unseen \cup {c} ELSE unseen
  /\ UNCHANGED <<tasks, processing, loop, toSubmit, result, late>>

Store(c) ==
  /\ caller[c] = "store"
  /\ processing' = TRUE
  /\ Goto(c, "spawn")
  /\ UNCHANGED <<tasks, loop, toSubmit, result, history>>

Spawn(c) ==
  /\ caller[c] = "spawn"
  /\ loop' = [loop EXCEPT ![c] = "clean"]
  /\ Goto(c, "wait")
  /\ UNCHANGED <<tasks, processing, toSubmit, result, history>>

(* The receiver has had the last of its senders dropped.                     *)
Closed(c) ==
  /\ caller[c] = "wait" /\ Kind[c] = "stream"
  /\ \A u \in Want[c] : c \notin channels[u]
  /\ Goto(c, "done")
  /\ UNCHANGED <<tasks, processing, loop, toSubmit, result, history>>

(* download_urls waits for one URL after another and ends with the last.      *)
ToldAll(c) ==
  /\ caller[c] = "wait" /\ Kind[c] = "all"
  /\ \A u \in Want[c] : status[u] \in Ends
  /\ result' = [result EXCEPT ![c] =
                  IF \A u \in Want[c] : status[u] = "completed" THEN "ok" ELSE "failed"]
  /\ Goto(c, "done")
  /\ UNCHANGED <<tasks, processing, loop, toSubmit, history>>

(* wait_for_any_task is called until no URL is pending; it may find a failed   *)
(* one before or after those that completed.                                   *)
ToldAny(c) ==
  /\ caller[c] = "wait" /\ Kind[c] = "any"
  /\ \/ /\ \A u \in Want[c] : status[u] = "completed"
        /\ result' = [result EXCEPT ![c] = "ok"]
     \/ /\ \E u \in Want[c] : status[u] = "failed"
        /\ result' = [result EXCEPT ![c] = "failed"]
  /\ Goto(c, "done")
  /\ UNCHANGED <<tasks, processing, loop, toSubmit, history>>

--------------------------------------------------------------------------------
(* The loops.  More than one may run: two callers may both find the flag      *)
(* false.                                                                      *)

(* cleanup_finished_handles *)
Clean(l) ==
  /\ loop[l] = "clean"
  /\ handles' = {u \in handles : thread[u] # "finished"}
  /\ loop' = [loop EXCEPT ![l] = "look"]
  /\ UNCHANGED <<status, channels, thread, processing, caller, toSubmit, result, history>>

Pending == {u \in Urls : status[u] = "pending"}

(* collect_and_prioritize_pending_tasks and the capacity of                   *)
(* spawn_task_threads: the largest first, as many as there is room for.       *)
Chosen(us) ==
  /\ us \subseteq Pending
  /\ \A u \in us, v \in Pending \ us : Size[u] >= Size[v]
  /\ us # Pending => Cardinality(handles) + Cardinality(us) >= NrParallel
  /\ us # {} => Cardinality(handles) + Cardinality(us) <= NrParallel

(* spawn_single_task_thread, for each *)
Begin(us) ==
  /\ status' = [u \in Urls |-> IF u \in us THEN "downloading" ELSE status[u]]
  /\ thread' = [u \in Urls |-> IF u \in us THEN "running" ELSE thread[u]]
  /\ handles' = handles \cup us

(* process_pending_master_tasks, under the lock of tasks *)
Look(l) ==
  /\ loop[l] = "look"
  /\ Pending # {}
  /\ \E us \in SUBSET Pending : Chosen(us) /\ Begin(us)
  /\ loop' = [loop EXCEPT ![l] = "clean"]
  /\ UNCHANGED <<channels, processing, caller, toSubmit, result, history>>

LookNonePending(l) ==
  /\ loop[l] = "look"
  /\ Pending = {}
  /\ loop' = [loop EXCEPT ![l] = IF \A u \in Urls : status[u] # "downloading"
                                 THEN "stop" ELSE "clean"]
  /\ UNCHANGED <<tasks, processing, caller, toSubmit, result, history>>

(* Faulty: forgets the flag. *)
StopOnly(l) ==
  /\ loop[l] = "stop"
  /\ loop' = [loop EXCEPT ![l] = "ended"]
  /\ UNCHANGED <<tasks, processing, caller, toSubmit, result, history>>

(* AllCompleted, when the lock is released *)
Stop(l) ==
  /\ loop[l] = "stop"
  /\ processing' = FALSE
  /\ loop' = [loop EXCEPT ![l] = "ended"]
  /\ UNCHANGED <<tasks, caller, toSubmit, result, history>>

--------------------------------------------------------------------------------
(* The thread of a task: download_task has returned, and then the channels    *)
(* are taken and dropped.                                                      *)

Finish(u) ==
  /\ thread[u] = "running"
  /\ \E e \in Ends : status' = [status EXCEPT ![u] = e]
  /\ thread' = [thread EXCEPT ![u] = "closing"]
  /\ UNCHANGED <<channels, handles, processing, loop, caller, toSubmit, result, history>>

(* Faulty: keeps the channels of a download that failed. *)
CloseSuccess(u) ==
  /\ thread[u] = "closing"
  /\ channels' = [channels EXCEPT ![u] = IF status[u] = "completed" THEN {} ELSE @]
  /\ thread' = [thread EXCEPT ![u] = "finished"]
  /\ UNCHANGED <<status, handles, processing, loop, caller, toSubmit, result, history>>

Close(u) ==
  /\ thread[u] = "closing"
  /\ channels' = [channels EXCEPT ![u] = {}]
  /\ thread' = [thread EXCEPT ![u] = "finished"]
  /\ UNCHANGED <<status, handles, processing, loop, caller, toSubmit, result, history>>

--------------------------------------------------------------------------------
CallerStep(c) == \/ \E u \in Urls : Submit(c, u)
                 \/ Load(c) \/ Store(c) \/ Spawn(c)
                 \/ Closed(c) \/ ToldAll(c) \/ ToldAny(c)
LoopStep(l) == Clean(l) \/ Look(l) \/ LookNonePending(l) \/ Stop(l)
TaskStep(u) == Finish(u) \/ Close(u)

Next ==
  \/ \E c \in Callers : CallerStep(c) \/ LoopStep(c)
  \/ \E u \in Urls : TaskStep(u)

Fairness ==
  /\ \A c \in Callers : WF_vars(CallerStep(c)) /\ WF_vars(LoopStep(c))
  /\ \A u \in Urls : WF_vars(TaskStep(u))

(* Each caller, loop and task has a thread of the system, and a download      *)
(* ends: its network calls time out and its retries are counted.              *)
Spec == Init /\ [][Next]_vars /\ Fairness

--------------------------------------------------------------------------------
(* No more downloads run than nr_parallel allows, though two loops may count   *)
(* and spawn, each cleaning up the handles the other has pushed.               *)
ParallelLimit ==
  Cardinality({u \in Urls : thread[u] \in {"running", "closing"}}) <= NrParallel

(* is_processing is never left set with nobody to clear it: a loop runs that    *)
(* will, or a caller is about to spawn one.  Otherwise no download submitted    *)
(* later would ever begin.                                                      *)
FlagIsCleared ==
  processing => \/ \E l \in Callers : loop[l] \in {"clean", "look", "stop"}
                \/ \E c \in Callers : caller[c] = "spawn"

(* Whatever the loops and callers do, the manager is the simple service: a URL  *)
(* is downloaded once, its end is never taken back, and a caller that waits is  *)
(* told what is true of its URLs.                                               *)
Service == INSTANCE DownloadService WITH Waiters <- {c \in Callers : Kind[c] # "stream"}
ServiceSpec == Service!Spec

(* A caller that has submitted its downloads gets its answer or the end of its  *)
(* stream, unless it read the flag when every loop had already decided to stop, *)
(* or gave its channel to a task whose channels were closed: both happen, and   *)
(* the caller then waits for ever.                                              *)
EveryoneIsAnswered ==
  \A c \in Callers :
    caller[c] = "wait" ~> caller[c] = "done" \/ c \in unseen \cup late
=============================================================================
