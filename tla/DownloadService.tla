--------------------------- MODULE DownloadService ---------------------------
(***************************************************************************)
(* What the download manager promises to the threads that use it: a URL is  *)
(* fetched once, however many callers ask for it and whenever they ask, and *)
(* a caller is told what became of its URLs when that is settled.           *)
(***************************************************************************)
CONSTANTS Urls,
          Callers,
          Want,     \* the URLs of each caller
          Waiters   \* callers that are told; the others watch their channels

VARIABLES status,   \* "none", "pending", "downloading", "completed", "failed"
          result    \* "none", "ok" or "failed", of each caller

Ends == {"completed", "failed"}

Init ==
  /\ status = [u \in Urls |-> "none"]
  /\ result = [c \in Callers |-> "none"]

Ask(u) ==
  /\ status[u] = "none"
  /\ status' = [status EXCEPT ![u] = "pending"]
  /\ UNCHANGED result

(* Several URLs may be begun at a time. *)
Fetch(us) ==
  /\ us # {}
  /\ \A u \in us : status[u] = "pending"
  /\ status' = [u \in Urls |-> IF u \in us THEN "downloading" ELSE status[u]]
  /\ UNCHANGED result

End(u) ==
  /\ status[u] = "downloading"
  /\ \E e \in Ends : status' = [status EXCEPT ![u] = e]
  /\ UNCHANGED result

(* A caller is told of success when all its URLs are there, and of failure   *)
(* when one of them is not.                                                  *)
Tell(c) ==
  /\ result[c] = "none"
  /\ \/ /\ \A u \in Want[c] : status[u] = "completed"
        /\ result' = [result EXCEPT ![c] = "ok"]
     \/ /\ \E u \in Want[c] : status[u] = "failed"
        /\ result' = [result EXCEPT ![c] = "failed"]
  /\ UNCHANGED status

Next ==
  \/ \E u \in Urls : Ask(u) \/ End(u)
  \/ \E us \in SUBSET Urls : Fetch(us)
  \/ \E c \in Waiters : Tell(c)

Spec == Init /\ [][Next]_<<status, result>>
=============================================================================
