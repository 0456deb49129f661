--------------------------- MODULE ResumableDownload ---------------------------
(***************************************************************************)
(* The download of one URL to one file of the download cache, by one        *)
(* process after another (download/orchestration.rs, chunk.rs, http.rs,     *)
(* file_ops.rs, validation.rs).  A run validates what is there, then makes  *)
(* attempts until one succeeds or the retries are used up: an attempt reads *)
(* the .part file, sends a request, streams the body into the .part file    *)
(* and to the receiver of the task's data channel, checks it and renames it *)
(* to the final file.                                                       *)
(*                                                                          *)
(* The environment publishes versions on mirrors that are not in step,      *)
(* refuses connections, breaks them in the middle of a body, fills the disk *)
(* and kills the process; the user then starts it again.                    *)
(*                                                                          *)
(* The file is too small to be split into chunks.  Content is a sequence of *)
(* pieces, each the i-th of a version; versions are ordered by the          *)
(* Last-Modified time (more than the tolerated ten minutes apart) and each  *)
(* has its ETag.  A .part file that is empty is treated like none           *)
(* everywhere, so <<>> stands for both; a final file is never empty.        *)
(***************************************************************************)
EXTENDS Naturals, Sequences

CONSTANTS Versions,   \* positive, ordered as their times are
          Size,       \* pieces of each
          Wanted,     \* the version of an immutable file
          Mirrors,
          Ranged,     \* mirrors that answer Range requests with 206
          Kinds,      \* a subset of FileKinds
          MaxRetries, \* task.max_retries
          MaxFaults   \* bound on failures of network, disk and process

(* "mutable": repository metadata, neither size nor checksum known before;  *)
(* "checked" and "unchecked": an immutable package file, of known size,     *)
(* with or without a checksum in the index.                                 *)
FileKinds == {"mutable", "checked", "unchecked"}

ASSUME ResumableDownloadAssumption ==
  /\ Versions \subseteq Nat \ {0}
  /\ Size \in [Versions -> Nat \ {0}]
  /\ Wanted \in Versions
  /\ Ranged \subseteq Mirrors
  /\ Kinds \subseteq FileKinds
  /\ MaxRetries \in Nat
  /\ MaxFaults \in Nat

VARIABLES kind,      \* of the file
          mirror,    \* the version each mirror serves
          part,      \* the .part file
          final,     \* the final file, <<>> if there is none
          finalTime, \* its modification time: that of a version, or 0
          etag,      \* the version .etag.json describes, 0 if none is readable
          pc,        \* where the process is
          task,      \* the DownloadTask in its memory
          got,       \* what the receiver of the data channel has got
          faults,    \* failures so far
          broken,    \* history variable: a run or attempt ended after its
                     \* response was accepted, without its file in place
          leftover   \* history variable: a run has started over a .part file

vars == <<kind, mirror, part, final, finalTime, etag, pc, task, got, faults, broken, leftover>>
disk == <<part, final, finalTime, etag>>
history == <<broken, leftover>>

Ended == {"idle", "done", "failed"}
Working == {"attempt", "request", "stream", "check", "rename"}

Piece == Versions \X (Nat \ {0})
Content(v) == [i \in 1..Size[v] |-> <<v, i>>]

Task == [ranged : BOOLEAN,              \* range_request is Resume, not None
         resumed : Nat,                 \* resumed_bytes
         size : Nat,                    \* file_size, 0 if unknown
         next : Nat \ {0},              \* the piece of the body to come
         serving : Versions \cup {0},   \* serving_metadata, 0 if none
         mirrors : SUBSET Mirrors,      \* those resolve_mirror may choose
         retries : 0..MaxRetries,
         hasSent : BOOLEAN]             \* has_sent_existing

NewTask(k) == [ranged |-> FALSE, resumed |-> 0,
               size |-> IF k = "mutable" THEN 0 ELSE Size[Wanted],
               next |-> 1, serving |-> 0, mirrors |-> Mirrors, retries |-> 0, hasSent |-> FALSE]

TypeOK ==
  /\ kind \in Kinds
  /\ mirror \in [Mirrors -> Versions]
  /\ part \in Seq(Piece)
  /\ final \in Seq(Piece)
  /\ finalTime \in Versions \cup {0} /\ etag \in Versions \cup {0}
  /\ pc \in Ended \cup Working
  /\ task \in Task
  /\ got \in Seq(Piece)
  /\ faults \in 0..MaxFaults
  /\ broken \in BOOLEAN /\ leftover \in BOOLEAN

(* "Content never changes for the same filename" of an immutable file.      *)
Init ==
  /\ kind \in Kinds
  /\ mirror \in [Mirrors -> Versions]
  /\ kind # "mutable" => \A m \in Mirrors : mirror[m] = Wanted
  /\ part = <<>> /\ final = <<>> /\ finalTime = 0 /\ etag = 0
  /\ pc = "idle"
  /\ task = NewTask(kind)
  /\ got = <<>>
  /\ faults = 0 /\ broken = FALSE /\ leftover = FALSE

--------------------------------------------------------------------------------
(* A mirror gets a newer version of a mutable file.                          *)
Publish(m) ==
  /\ kind = "mutable"
  /\ \E v \in Versions : v > mirror[m] /\ mirror' = [mirror EXCEPT ![m] = v]
  /\ UNCHANGED <<kind, disk, pc, task, got, faults, history>>

Fault == faults < MaxFaults /\ faults' = faults + 1

(* Faulty: never cleans up. *)
FailKeeps(keep) ==
  \/ /\ task.retries >= MaxRetries
     /\ pc' = "failed"
     /\ UNCHANGED <<part, task>>
  \/ /\ task.retries < MaxRetries
     /\ pc' = "attempt"
     /\ task' = [task EXCEPT !.retries = @ + 1]
     /\ part' = part

(* An attempt has failed.  The retries are counted before the .part file is  *)
(* cleaned up, and resumed_bytes is not reset.                               *)
Fail(keep) ==
  \/ /\ task.retries >= MaxRetries
     /\ pc' = "failed"
     /\ UNCHANGED <<part, task>>
  \/ /\ task.retries < MaxRetries
     /\ pc' = "attempt"
     /\ task' = [task EXCEPT !.retries = @ + 1]
     /\ part' = IF keep THEN part ELSE <<>>

--------------------------------------------------------------------------------
(* A new process: an immutable file that is there with the right size (and   *)
(* it never gets another) is sent to the receiver as it is.                  *)
Start ==
  /\ pc \in Ended
  /\ leftover' = (leftover \/ part # <<>>)
  /\ \/ /\ kind # "mutable" /\ final # <<>>
        /\ pc' = "done"
        /\ got' = final
        /\ task' = [NewTask(kind) EXCEPT !.hasSent = TRUE]
     \/ /\ kind = "mutable" \/ final = <<>>
        /\ pc' = "attempt"
        /\ got' = <<>>
        /\ task' = NewTask(kind)
  /\ UNCHANGED <<kind, mirror, disk, faults, broken>>

(* The .part file of a mutable file is not resumed without its metadata.     *)
Unverifiable == kind = "mutable" /\ etag = 0

(* The kind of request is decided before the .part file is looked at.  That  *)
(* file never gets larger than file_size, which would be an error.           *)
AttemptAfresh ==
  /\ pc = "attempt"
  /\ part = <<>> \/ Unverifiable
  /\ part' = <<>>
  /\ task' = [task EXCEPT !.ranged = task.resumed > 0]
  /\ pc' = "request"
  /\ UNCHANGED <<kind, mirror, final, finalTime, etag, got, faults, history>>

(* Faulty: the receiver is not sent what was there. *)
AttemptResumeUnsent ==
  /\ pc = "attempt"
  /\ part # <<>> /\ ~Unverifiable
  /\ task' = [task EXCEPT !.ranged = task.resumed > 0, !.resumed = Len(part), !.hasSent = TRUE]
  /\ pc' = IF Len(part) = task.size THEN "check" ELSE "request"
  /\ UNCHANGED <<kind, mirror, disk, got, faults, history>>

AttemptResume ==
  /\ pc = "attempt"
  /\ part # <<>> /\ ~Unverifiable
  /\ task' = [task EXCEPT !.ranged = task.resumed > 0, !.resumed = Len(part), !.hasSent = TRUE]
  /\ got' = IF task.hasSent THEN got ELSE got \o part
  /\ pc' = IF Len(part) = task.size THEN "check" ELSE "request"
  /\ UNCHANGED <<kind, mirror, disk, faults, history>>

--------------------------------------------------------------------------------
(* The answer of a mirror m, which serves version v, to the request.         *)

(* Nothing is left to ask for, or the mirror answers 416.                    *)
BeyondEnd(m, v) ==
  /\ task.ranged
  /\ \/ task.size > 0 /\ task.resumed >= task.size
     \/ m \in Ranged /\ task.resumed >= Size[v]

(* 206; any other answer with a body is 200 with all of it.                  *)
Partial(m) == task.ranged /\ m \in Ranged

(* An If-None-Match header is sent when metadata was saved and there is a    *)
(* final file or a .part file.                                               *)
NotModified(v) ==
  /\ kind = "mutable" /\ ~task.ranged
  /\ final # <<>> \/ part # <<>>
  /\ v = etag

(* Without a Content-Range the size is taken to be that of the body and of   *)
(* what was there before.                                                    *)
RemoteSize(m, v) == IF Partial(m) THEN Size[v] ELSE task.resumed + Size[v]

(* Faulty: takes files of the same size for the same. *)
UsesCacheBySize(m, v) ==
  /\ kind = "mutable" /\ final # <<>>
  /\ finalTime > v \/ v < etag \/ Len(final) = RemoteSize(m, v)

(* should_redownload: the local file is newer, what was saved is newer, or   *)
(* size and time are the same.                                               *)
UsesCache(m, v) ==
  /\ kind = "mutable" /\ final # <<>>
  /\ \/ finalTime > v
     \/ v < etag
     \/ finalTime = v /\ Len(final) = RemoteSize(m, v)

Current(m, v) == NotModified(v) \/ UsesCache(m, v)

(* A whole body is no answer to a Range request, and another version is none *)
(* to what an earlier attempt has been served.                               *)
Conflicting(m, v) ==
  \/ task.ranged /\ m \notin Ranged
  \/ task.serving \notin {0, v}

Asking(m) == pc = "request" /\ m \in task.mirrors

(* The final file, if any, is sent unless something has been sent before.    *)
AlreadyComplete(m) ==
  /\ Asking(m)
  /\ ~BeyondEnd(m, mirror[m]) /\ Current(m, mirror[m])
  /\ pc' = "done"
  /\ task' = [task EXCEPT !.hasSent = TRUE]
  /\ got' = IF task.hasSent THEN got ELSE got \o final
  /\ UNCHANGED <<kind, mirror, disk, faults, history>>

Reject(m) ==
  /\ Asking(m)
  /\ \/ BeyondEnd(m, mirror[m])
     \/ ~Current(m, mirror[m]) /\ Conflicting(m, mirror[m])
  /\ Fail(FALSE)
  /\ UNCHANGED <<kind, mirror, final, finalTime, etag, got, faults, history>>

Acceptable(m, v) == ~BeyondEnd(m, v) /\ ~Current(m, v) /\ ~Conflicting(m, v)

(* The metadata is saved before the body is read.  Later attempts use the    *)
(* same mirror.                                                              *)
Accept(m) ==
  LET v == mirror[m] IN
    /\ Asking(m) /\ Acceptable(m, v)
    /\ task' = [task EXCEPT !.serving = v, !.mirrors = {m},
                            !.size = IF @ = 0 THEN RemoteSize(m, v) ELSE @,
                            !.next = IF task.ranged THEN task.resumed + 1 ELSE 1]
    /\ etag' = IF kind = "mutable" THEN v ELSE etag
    /\ pc' = "stream"
    /\ UNCHANGED <<kind, mirror, part, final, finalTime, got, faults, history>>

(* The process is killed while it writes .etag.json, which is then torn.     *)
DieSaving(m) ==
  /\ Asking(m) /\ Acceptable(m, mirror[m])
  /\ kind = "mutable"
  /\ Fault
  /\ etag' = 0
  /\ pc' = "idle"
  /\ broken' = TRUE
  /\ UNCHANGED <<kind, mirror, part, final, finalTime, task, got, leftover>>

(* No connection, or an error status.                                        *)
Refuse ==
  /\ pc = "request"
  /\ Fault
  /\ Fail(FALSE)
  /\ UNCHANGED <<kind, mirror, final, finalTime, etag, got, history>>

--------------------------------------------------------------------------------
(* The body is written at the end of the .part file, up to file_size.        *)
Receive ==
  /\ pc = "stream"
  /\ task.next <= Size[task.serving] /\ Len(part) < task.size
  /\ part' = Append(part, <<task.serving, task.next>>)
  /\ got' = Append(got, <<task.serving, task.next>>)
  /\ task' = [task EXCEPT !.next = @ + 1]
  /\ UNCHANGED <<kind, mirror, final, finalTime, etag, pc, faults, history>>

EndOfBody == task.next > Size[task.serving] \/ Len(part) >= task.size

BodyRead ==
  /\ pc = "stream"
  /\ EndOfBody /\ Len(part) = task.size
  /\ pc' = "check"
  /\ UNCHANGED <<kind, mirror, disk, task, got, faults, history>>

(* ContentIncomplete: the .part file is kept to be resumed.                  *)
BodyShort ==
  /\ pc = "stream"
  /\ EndOfBody /\ Len(part) # task.size
  /\ Fail(TRUE)
  /\ UNCHANGED <<kind, mirror, final, finalTime, etag, got, faults, history>>

Disconnect ==
  /\ pc = "stream"
  /\ Fault
  /\ Fail(FALSE)
  /\ broken' = TRUE
  /\ UNCHANGED <<kind, mirror, final, finalTime, etag, got, leftover>>

(* A disk error is not retried.                                              *)
DiskError ==
  /\ pc = "stream"
  /\ Fault
  /\ pc' = "failed"
  /\ broken' = TRUE
  /\ UNCHANGED <<kind, mirror, disk, task, got, leftover>>

--------------------------------------------------------------------------------
(* finalize_file.  The size is right whenever it is reached.                 *)
Verified == kind = "checked" => part = Content(Wanted)

(* Faulty: keeps the .part file for the next attempt. *)
MismatchKeeps ==
  /\ pc = "check"
  /\ ~Verified
  /\ Fail(TRUE)
  /\ UNCHANGED <<kind, mirror, final, finalTime, etag, got, faults, history>>

Mismatch ==
  /\ pc = "check"
  /\ ~Verified
  /\ Fail(FALSE)
  /\ UNCHANGED <<kind, mirror, final, finalTime, etag, got, faults, history>>

RemoveFinal ==
  /\ pc = "check"
  /\ Verified
  /\ final' = <<>> /\ finalTime' = 0
  /\ pc' = "rename"
  /\ UNCHANGED <<kind, mirror, part, etag, task, got, faults, history>>

(* The time is that of the response; without one it is left alone, which    *)
(* only happens to immutable files.                                          *)
Rename ==
  /\ pc = "rename"
  /\ final' = part /\ finalTime' = task.serving
  /\ part' = <<>>
  /\ pc' = "done"
  /\ UNCHANGED <<kind, mirror, etag, task, got, faults, history>>

Kill ==
  /\ pc \in Working
  /\ Fault
  /\ pc' = "idle"
  /\ broken' = (broken \/ pc \in {"stream", "check", "rename"})
  /\ UNCHANGED <<kind, mirror, disk, task, got, leftover>>

--------------------------------------------------------------------------------
Work ==
  \/ AttemptAfresh \/ AttemptResume
  \/ \E m \in Mirrors : AlreadyComplete(m) \/ Reject(m) \/ Accept(m)
  \/ Receive \/ BodyRead \/ BodyShort
  \/ Mismatch \/ RemoveFinal \/ Rename

Next ==
  \/ Start \/ Work
  \/ \E m \in Mirrors : Publish(m) \/ DieSaving(m)
  \/ Refuse \/ Disconnect \/ DiskError \/ Kill

Spec == Init /\ [][Next]_vars

(* The process waits for nothing but the network, whose failures are steps   *)
(* of their own; and the user runs it again until the file is there.         *)
FairSpec == Spec /\ WF_vars(Work) /\ WF_vars(Start)

--------------------------------------------------------------------------------
(* Whatever is killed, refused or cut, and over whatever .part file it is    *)
(* resumed: a file with a known checksum (file_ops.rs:36-66) is there        *)
(* exactly or not at all.                                                    *)
CheckedExact == kind = "checked" => final \in {<<>>, Content(Wanted)}

(* As long as no run starts over a .part file (chunk.rs:838 decides the kind *)
(* of request before looking at it), the final file is one version, whole,   *)
(* and its time tells which: retries after failures in the middle of a body  *)
(* (orchestration.rs:501-508), perhaps of a mirror that has changed          *)
(* meanwhile (validation.rs:101-122), never mix two bodies.                  *)
WholeUnlessLeftover ==
  ~leftover => \/ final = <<>>
               \/ /\ kind = "mutable" => finalTime \in Versions
                  /\ final = Content(IF kind = "mutable" THEN finalTime ELSE Wanted)

(* The receiver of the data channel, which parses repository metadata while  *)
(* it is downloaded (utils.rs:153, http.rs:394), has got exactly the file    *)
(* when a run succeeds at its first attempt, be it from the network, resumed *)
(* or from the cache, unless it leaves a .part file behind.                  *)
ReceiverGotFile == pc = "done" /\ task.retries = 0 /\ part = <<>> => got = final

(* "prevent timestamp going backwards" (file_ops.rs:735): a mutable file is  *)
(* never replaced by an older version from a mirror that lags behind,        *)
(* however many failures lie between the request and the replacement.        *)
TimeForward ==
  [][kind = "mutable" /\ pc = "check" /\ pc' = "rename" => finalTime <= task.serving]_vars

(* A mutable file is said to be unchanged (http.rs:684-695) only if it is at *)
(* least as new as what some mirror serves, as long as every response that   *)
(* was accepted led to its file: the metadata saved at progress.rs:344       *)
(* describes the body to come, not the file that is there.                   *)
UnchangedIsCurrent ==
  [][~broken /\ pc = "request" /\ pc' = "done" => \E m \in Mirrors : mirror[m] <= finalTime]_vars

(* Once the faults are over, running the download again gets a checked file, *)
(* though a run over a .part file fails: it uses up its retries on bodies    *)
(* put in the wrong place (orchestration.rs:505 leaves resumed_bytes).  With *)
(* an odd number of retries it never does: each run then ends with half of   *)
(* such a file, which the next one starts from.                              *)
EventuallyExact == kind = "checked" ~> final = Content(Wanted)
================================================================================
