------------------------ MODULE ResumableDownloadProofs ------------------------
(***************************************************************************)
(* Type correctness, and that no failure leaves a wrong file with a known   *)
(* checksum, an older version of a mutable file in place of a newer one, or *)
(* a mixture of two bodies unless a run starts over a .part file; what the  *)
(* receiver of the data channel gets, when a file counts as unchanged, and  *)
(* that every run ends.                                                     *)
(***************************************************************************)
EXTENDS ResumableDownload, TLAPS

USE ResumableDownloadAssumption DEF FileKinds

(* What the steps need of one another to be of the right types.              *)
Served ==
  /\ pc = "stream" => task.serving # 0
  /\ pc = "stream" => task.size # 0

TypeInv == TypeOK /\ Served

LEMMA NewTaskTyped == ASSUME NEW k \in Kinds PROVE NewTask(k) \in Task
BY DEF NewTask, Task

(* The updates of a task that the steps make.                                *)
LEMMA Ranging == ASSUME NEW t \in Task, NEW b \in BOOLEAN
                 PROVE  [t EXCEPT !.ranged = b] \in Task
BY DEF Task

LEMMA Resuming == ASSUME NEW t \in Task, NEW b \in BOOLEAN, NEW n \in Nat
                  PROVE  [t EXCEPT !.ranged = b, !.resumed = n, !.hasSent = TRUE] \in Task
<1>1. [t EXCEPT !.resumed = n] \in Task
  BY DEF Task
<1>2. [[t EXCEPT !.resumed = n] EXCEPT !.hasSent = TRUE] \in Task
  BY <1>1 DEF Task
<1>3. [[[t EXCEPT !.resumed = n] EXCEPT !.hasSent = TRUE] EXCEPT !.ranged = b] \in Task
  BY <1>2, Ranging
<1> QED
  BY <1>3 DEF Task

LEMMA Accepting == ASSUME NEW t \in Task, NEW v \in Versions, NEW m \in Mirrors,
                          NEW n \in Nat, NEW i \in Nat \ {0}
                   PROVE  [t EXCEPT !.serving = v, !.mirrors = {m}, !.size = n, !.next = i] \in Task
<1>1. [t EXCEPT !.serving = v] \in Task /\ {m} \in SUBSET Mirrors
  BY DEF Task
<1>2. [[t EXCEPT !.serving = v] EXCEPT !.mirrors = {m}] \in Task
  BY <1>1 DEF Task
<1>3. [[[t EXCEPT !.serving = v] EXCEPT !.mirrors = {m}] EXCEPT !.size = n] \in Task
  BY <1>2 DEF Task
<1>4. [[[[t EXCEPT !.serving = v] EXCEPT !.mirrors = {m}] EXCEPT !.size = n] EXCEPT !.next = i] \in Task
  BY <1>3 DEF Task
<1> QED
  BY <1>4 DEF Task

LEMMA EmptyTyped == <<>> \in Seq(Piece)
OBVIOUS

LEMMA FailTyped ==
  ASSUME TypeOK, NEW keep \in BOOLEAN, Fail(keep)
  PROVE  /\ part' \in Seq(Piece) /\ task' \in Task /\ pc' \in {"failed", "attempt"}
<1>1. CASE task.retries >= MaxRetries
  BY <1>1 DEF TypeOK, Fail, Task
<1>2. CASE task.retries < MaxRetries
  <2>1. task.retries + 1 \in 0..MaxRetries
    BY <1>2 DEF TypeOK, Task
  <2>2. task' = [task EXCEPT !.retries = @ + 1] /\ pc' = "attempt" /\ (part' = part \/ part' = <<>>)
    BY <1>2 DEF Fail, TypeOK, Task
  <2>3. task' \in Task
    BY <2>1, <2>2 DEF TypeOK, Task
  <2>4. part' \in Seq(Piece)
    BY <2>2, EmptyTyped, Zenon DEF TypeOK
  <2> QED
    BY <2>2, <2>3, <2>4
<1> QED
  BY <1>1, <1>2 DEF TypeOK, Task

LEMMA TypeStep == TypeInv /\ [Next]_vars => TypeInv'
<1> SUFFICES ASSUME TypeInv, [Next]_vars PROVE TypeInv'
  OBVIOUS
<1> USE DEF TypeInv, TypeOK, Served
<1>1. ASSUME NEW m \in Mirrors, Publish(m) PROVE TypeInv'
  BY <1>1 DEF Publish, disk, history
<1>2. CASE Start
  <2>1. NewTask(kind) \in Task /\ [NewTask(kind) EXCEPT !.hasSent = TRUE] \in Task
    BY NewTaskTyped DEF Task
  <2>2. (leftover \/ part # <<>>) \in BOOLEAN
    OBVIOUS
  <2>3. task' \in Task
    BY <1>2, <2>1 DEF Start
  <2>4. got' = final \/ got' = <<>>
    BY <1>2 DEF Start
  <2>6. got' \in Seq(Piece)
    BY <2>4, EmptyTyped, Zenon
  <2>7. pc' \in {"done", "attempt"}
    BY <1>2 DEF Start
  <2>5. leftover' \in BOOLEAN
    BY <1>2, <2>2 DEF Start
  <2> QED
    BY <1>2, <2>3, <2>5, <2>6, <2>7 DEF Start, disk, Ended, Working
<1>3. CASE AttemptAfresh
  <2>1. (task.resumed > 0) \in BOOLEAN
    OBVIOUS
  <2>2. task' \in Task
    BY <1>3, <2>1, Ranging DEF AttemptAfresh
  <2> QED
    BY <1>3, <2>2 DEF AttemptAfresh, history, Working
<1>4. CASE AttemptResume
  <2>1. (task.resumed > 0) \in BOOLEAN /\ Len(part) \in Nat
    OBVIOUS
  <2>2. task' \in Task
    BY <1>4, <2>1, Resuming DEF AttemptResume
  <2>3. got' \in Seq(Piece) /\ pc' \in {"check", "request"}
    BY <1>4 DEF AttemptResume
  <2> QED
    BY <1>4, <2>2, <2>3 DEF AttemptResume, disk, history, Working
<1>5. ASSUME NEW m \in Mirrors, AlreadyComplete(m) PROVE TypeInv'
  <2>1. task' \in Task
    BY <1>5 DEF AlreadyComplete, Task
  <2>2. got' \in Seq(Piece)
    BY <1>5 DEF AlreadyComplete
  <2> QED
    BY <1>5, <2>1, <2>2 DEF AlreadyComplete, disk, history, Ended
<1>6. ASSUME NEW m \in Mirrors, Reject(m) PROVE TypeInv'
  BY <1>6, FailTyped DEF Reject, history, Ended, Working
<1>7. ASSUME NEW m \in Mirrors, Accept(m) PROVE TypeInv'
  <2> DEFINE v == mirror[m]
  <2>1. v \in Versions /\ Size[v] \in Nat \ {0} /\ v # 0
    OBVIOUS
  <2>2. RemoteSize(m, v) \in Nat \ {0}
    <3>1. task.resumed \in Nat
      BY DEF Task
    <3>2. task.resumed + Size[v] \in Nat \ {0}
      BY <2>1, <3>1
    <3> QED BY <2>1, <3>2 DEF RemoteSize
  <2> DEFINE n == IF task.size = 0 THEN RemoteSize(m, v) ELSE task.size
             i == IF task.ranged THEN task.resumed + 1 ELSE 1
  <2>3. n \in Nat \ {0} /\ i \in Nat \ {0}
    BY <2>2 DEF Task
  <2>4. task' = [task EXCEPT !.serving = v, !.mirrors = {m}, !.size = n, !.next = i]
    BY <1>7 DEF Accept
  <2>5. task' \in Task
    BY <2>1, <2>3, <2>4, Accepting
  <2>6. task'.serving = v /\ task'.size = n
    BY <2>4 DEF Task
  <2>7. etag' \in Versions \cup {0}
    BY <1>7, <2>1 DEF Accept
  <2> HIDE DEF n, i
  <2> QED
    BY <1>7, <2>1, <2>3, <2>5, <2>6, <2>7 DEF Accept, history, Working
<1>8. ASSUME NEW m \in Mirrors, DieSaving(m) PROVE TypeInv'
  BY <1>8 DEF DieSaving, Fault, Ended
<1>9. CASE Refuse
  <2>1. Fail(FALSE)
    BY <1>9 DEF Refuse
  <2>2. faults' \in 0..MaxFaults
    BY <1>9 DEF Refuse, Fault
  <2> QED
    BY <1>9, <2>1, <2>2, FailTyped DEF Refuse, history, Ended, Working
<1>10. CASE Receive
  <2>1. <<task.serving, task.next>> \in Piece
    BY <1>10 DEF Receive, Piece, Task
  <2>2. task' \in Task /\ task'.serving = task.serving /\ task'.size = task.size
    <3>1. task.next + 1 \in Nat \ {0}
      BY DEF Task
    <3>2. task' = [task EXCEPT !.next = task.next + 1]
      BY <1>10 DEF Receive
    <3> QED
      BY <3>1, <3>2 DEF Task
  <2> QED
    BY <1>10, <2>1, <2>2 DEF Receive, history
<1>11. CASE BodyRead
  BY <1>11 DEF BodyRead, disk, history, Working
<1>12. CASE BodyShort
  BY <1>12, FailTyped DEF BodyShort, history, Ended, Working
<1>13. CASE Disconnect
  <2>1. Fail(FALSE)
    BY <1>13 DEF Disconnect
  <2>2. faults' \in 0..MaxFaults
    BY <1>13 DEF Disconnect, Fault
  <2> QED
    BY <1>13, <2>1, <2>2, FailTyped DEF Disconnect, Ended, Working
<1>14. CASE DiskError
  BY <1>14 DEF DiskError, Fault, disk, Ended
<1>15. CASE Mismatch
  BY <1>15, FailTyped DEF Mismatch, history, Ended, Working
<1>16. CASE RemoveFinal
  BY <1>16 DEF RemoveFinal, history, Working
<1>17. CASE Rename
  BY <1>17 DEF Rename, history, Ended, Task
<1>18. CASE Kill
  <2>1. (broken \/ pc \in {"stream", "check", "rename"}) \in BOOLEAN
    OBVIOUS
  <2> QED
    BY <1>18, <2>1 DEF Kill, Fault, disk, Ended
<1>19. CASE UNCHANGED vars
  BY <1>19 DEF vars
<1> QED
  BY <1>1, <1>2, <1>3, <1>4, <1>5, <1>6, <1>7, <1>8, <1>9, <1>10, <1>11, <1>12, <1>13,
     <1>14, <1>15, <1>16, <1>17, <1>18, <1>19 DEF Next, Work

LEMMA TypeInit == Init => TypeInv
<1> SUFFICES ASSUME Init PROVE TypeInv
  OBVIOUS
<1>1. NewTask(kind) \in Task
  BY NewTaskTyped DEF Init
<1>2. part \in Seq(Piece) /\ final \in Seq(Piece) /\ got \in Seq(Piece)
  BY DEF Init
<1>3. finalTime \in Versions \cup {0} /\ etag \in Versions \cup {0} /\ faults \in 0..MaxFaults
  BY DEF Init
<1>4. kind \in Kinds /\ mirror \in [Mirrors -> Versions] /\ pc = "idle" /\ task \in Task
  BY <1>1 DEF Init
<1>5. broken \in BOOLEAN /\ leftover \in BOOLEAN
  BY DEF Init
<1> QED
  BY <1>2, <1>3, <1>4, <1>5 DEF TypeInv, TypeOK, Served, Ended

LEMMA TypeInvariant == Spec => []TypeInv
BY TypeInit, TypeStep, PTL DEF Spec

(* Every variable has its type, in every run of any number of processes.     *)
THEOREM TypeCorrect == Spec => []TypeOK
<1>1. TypeInv => TypeOK
  BY DEF TypeInv
<1> QED
  BY <1>1, TypeInvariant, PTL

--------------------------------------------------------------------------------
(* CheckedExact: the checksum was compared before the file was renamed.      *)
CheckedInv ==
  kind = "checked" => /\ final \in {<<>>, Content(Wanted)}
                      /\ pc = "rename" => part = Content(Wanted)

LEMMA CheckedStep == CheckedInv /\ [Next]_vars => CheckedInv'
<1> SUFFICES ASSUME CheckedInv, [Next]_vars PROVE CheckedInv'
  OBVIOUS
<1> USE DEF CheckedInv
<1>2. ASSUME NEW m \in Mirrors, Publish(m) PROVE CheckedInv'
  BY <1>2 DEF Publish, disk
<1>3. ASSUME NEW keep, Fail(keep) PROVE pc' # "rename"
  BY <1>3 DEF Fail
<1>4. CASE Start
  BY <1>4 DEF Start, disk
<1>5. CASE AttemptAfresh
  BY <1>5 DEF AttemptAfresh
<1>6. CASE AttemptResume
  <2>1. pc' # "rename"
    BY <1>6 DEF AttemptResume
  <2> QED
    BY <1>6, <2>1 DEF AttemptResume, disk
<1>7. ASSUME NEW m \in Mirrors, AlreadyComplete(m) \/ Reject(m) \/ Accept(m) \/ DieSaving(m)
      PROVE  CheckedInv'
  BY <1>7, <1>3 DEF AlreadyComplete, Reject, Accept, DieSaving, disk
<1>8. CASE Refuse \/ Receive \/ BodyRead \/ BodyShort \/ Disconnect \/ DiskError \/ Mismatch \/ Kill
  <2>1. kind' = kind /\ final' = final
    BY <1>8 DEF Refuse, Receive, BodyRead, BodyShort, Disconnect, DiskError, Mismatch, Kill, disk
  <2>2. pc' # "rename"
    BY <1>8, <1>3 DEF Refuse, Receive, BodyRead, BodyShort, Disconnect, DiskError, Mismatch, Kill
  <2> QED
    BY <2>1, <2>2
<1>9. CASE RemoveFinal
  BY <1>9 DEF RemoveFinal, Verified
<1>10. CASE Rename
  BY <1>10 DEF Rename
<1>11. CASE UNCHANGED vars
  BY <1>11 DEF vars
<1> QED
  BY <1>2, <1>4, <1>5, <1>6, <1>7, <1>8, <1>9, <1>10, <1>11 DEF Next, Work

(* However a run ends, and over whatever .part file it started, a file with  *)
(* a known checksum is there exactly or not at all.                          *)
THEOREM ChecksumHolds == Spec => []CheckedExact
<1>1. Init => CheckedInv
  BY DEF Init, CheckedInv
<1>2. CheckedInv => CheckedExact
  BY DEF CheckedInv, CheckedExact
<1> QED
  BY <1>1, <1>2, CheckedStep, PTL DEF Spec

--------------------------------------------------------------------------------
(* What a failure leaves as it is.                                           *)
LEMMA FailFrame ==
  ASSUME TypeOK, NEW keep \in BOOLEAN, Fail(keep)
  PROVE  /\ pc' \in {"failed", "attempt"}
         /\ task'.size = task.size /\ task'.serving = task.serving
         /\ task'.resumed = task.resumed
         /\ pc' = "attempt" /\ ~keep => part' = <<>>
BY DEF TypeOK, Fail, Task

(* TimeForward: what a run has been served is not older than the file it     *)
(* finds, and stays so until it replaces the file.                           *)
TimeInv ==
  /\ final = <<>> => finalTime = 0
  /\ pc \in {"check", "rename"} => part # <<>>
  /\ kind = "mutable" /\ pc \in Working =>
       /\ task.size # 0 => task.serving # 0
       /\ pc \in {"check", "rename"} => task.serving # 0
       /\ task.serving # 0 => finalTime <= task.serving

LEMMA TimeStep == TypeInv /\ TimeInv /\ [Next]_vars => TimeInv'
<1> SUFFICES ASSUME TypeInv, TimeInv, [Next]_vars PROVE TimeInv'
  OBVIOUS
<1> USE DEF TimeInv
<1>0. TypeOK /\ Served
  BY DEF TypeInv
<1>1. ASSUME NEW m \in Mirrors, Publish(m) PROVE TimeInv'
  BY <1>1 DEF Publish, disk
<1>2. ASSUME NEW keep \in BOOLEAN, Fail(keep), kind' = kind, final' = final,
             finalTime' = finalTime, pc \in Working
      PROVE  TimeInv'
  BY <1>2, <1>0, FailFrame DEF Working
<1>3. CASE Start
  <2>1. final' = final /\ finalTime' = finalTime /\ kind' = kind /\ pc' \in {"done", "attempt"}
    BY <1>3 DEF Start, disk
  <2>2. kind = "mutable" => task'.size = 0 /\ task'.serving = 0
    BY <1>3 DEF Start, NewTask
  <2> QED
    BY <2>1, <2>2
<1>4. CASE AttemptAfresh
  <2>1. task'.size = task.size /\ task'.serving = task.serving
    BY <1>4, <1>0 DEF AttemptAfresh, TypeOK, Task
  <2> QED
    BY <1>4, <2>1 DEF AttemptAfresh, Working
<1>5. CASE AttemptResume
  <2>1. task'.size = task.size /\ task'.serving = task.serving
    BY <1>5, <1>0 DEF AttemptResume, TypeOK, Task
  <2>2. pc' = "check" => task.size # 0
    <3>1. Len(part) # 0
      BY <1>5, <1>0 DEF AttemptResume, TypeOK
    <3> QED
      BY <1>5, <3>1 DEF AttemptResume
  <2>3. pc' \in {"check", "request"}
    BY <1>5 DEF AttemptResume
  <2> QED
    BY <1>5, <2>1, <2>2, <2>3 DEF AttemptResume, disk, Working
<1>6. ASSUME NEW m \in Mirrors, AlreadyComplete(m) PROVE TimeInv'
  BY <1>6 DEF AlreadyComplete, disk, Working
<1>7. ASSUME NEW m \in Mirrors, Reject(m) PROVE TimeInv'
  BY <1>7, <1>2 DEF Reject, Asking, Working
<1>8. ASSUME NEW m \in Mirrors, Accept(m) PROVE TimeInv'
  <2> DEFINE v == mirror[m]
  <2>1. v \in Versions /\ v \in Nat /\ v # 0
    BY <1>0 DEF TypeOK
  <2>2. kind = "mutable" => finalTime <= v
    <3>1. ~UsesCache(m, v)
      BY <1>8 DEF Accept, Acceptable, Current
    <3>2. finalTime \in Nat
      BY <1>0 DEF TypeOK
    <3>3. kind = "mutable" /\ final # <<>> => ~(finalTime > v)
      BY <3>1 DEF UsesCache
    <3> HIDE DEF v
    <3> QED
      BY <2>1, <3>2, <3>3
  <2>3. task'.serving = v
    BY <1>8, <1>0 DEF Accept, TypeOK, Task
  <2>4. pc' = "stream" /\ kind' = kind /\ final' = final /\ finalTime' = finalTime
    BY <1>8 DEF Accept
  <2> HIDE DEF v
  <2> QED
    BY <2>1, <2>2, <2>3, <2>4
<1>9. ASSUME NEW m \in Mirrors, DieSaving(m) PROVE TimeInv'
  BY <1>9 DEF DieSaving, Working
<1>10. CASE Refuse
  BY <1>10, <1>2 DEF Refuse, Working
<1>11. CASE Receive
  <2>1. task'.size = task.size /\ task'.serving = task.serving
    BY <1>11, <1>0 DEF Receive, TypeOK, Task
  <2> QED
    BY <1>11, <2>1 DEF Receive, Working
<1>12. CASE BodyRead
  <2>1. part # <<>>
    BY <1>12, <1>0 DEF BodyRead, Served
  <2> QED
    BY <1>12, <1>0, <2>1 DEF BodyRead, Served, disk, Working
<1>13. CASE BodyShort
  BY <1>13, <1>2 DEF BodyShort, Working
<1>14. CASE Disconnect
  BY <1>14, <1>2 DEF Disconnect, Working
<1>15. CASE DiskError \/ Kill
  BY <1>15 DEF DiskError, Kill, disk, Working
<1>16. CASE Mismatch
  BY <1>16, <1>2 DEF Mismatch, Working
<1>17. CASE RemoveFinal
  <2>1. task.serving \in Versions \cup {0}
    BY <1>0 DEF TypeOK, Task
  <2>2. task.serving \in Nat
    <3>1. \A v \in Versions \cup {0} : v \in Nat
      OBVIOUS
    <3> QED
      BY <2>1, <3>1
  <2>3. task'.serving = task.serving /\ finalTime' = 0
    BY <1>17 DEF RemoveFinal
  <2>4. 0 <= task.serving
    BY <2>2
  <2> QED
    BY <1>17, <2>3, <2>4 DEF RemoveFinal, Working
<1>18. CASE Rename
  BY <1>18 DEF Rename, Working
<1>19. CASE UNCHANGED vars
  BY <1>19 DEF vars
<1> QED
  BY <1>1, <1>3, <1>4, <1>5, <1>6, <1>7, <1>8, <1>9, <1>10, <1>11, <1>12, <1>13,
     <1>14, <1>15, <1>16, <1>17, <1>18, <1>19 DEF Next, Work

(* A mutable file is never replaced by an older version, through any number  *)
(* of failures and whatever the mirrors serve.                               *)
THEOREM NeverOlder == Spec => TimeForward
<1>1. Init => TimeInv
  BY DEF Init, TimeInv, Working
<1>2. TimeInv /\ [Next]_vars =>
        [kind = "mutable" /\ pc = "check" /\ pc' = "rename" => finalTime <= task.serving]_vars
  BY DEF TimeInv, Working
<1> QED
  BY <1>1, <1>2, TimeStep, TypeInvariant, PTL DEF Spec, TimeForward

--------------------------------------------------------------------------------
(* WholeUnlessLeftover: as long as no run starts over a .part file, every     *)
(* attempt starts without one and asks for the whole body, so the .part file  *)
(* is a prefix of the version being served, and is the whole of it at the end *)
(* of the body.                                                               *)
KnownSize(t) == IF t.serving # 0 THEN Size[t.serving] ELSE NewTask(kind).size

Immutable ==
  kind # "mutable" =>
    (\A m \in Mirrors : mirror[m] = Wanted) /\ task.serving \in {0, Wanted}

(* The .part file is what has been received of the version being served. *)
Prefix ==
  /\ task.serving \in Versions
  /\ task.next = Len(part) + 1 /\ Len(part) <= Size[task.serving]
  /\ \A i \in 1..Len(part) : part[i] = <<task.serving, i>>

Clean ==
  /\ pc \in Working => task.resumed = 0 /\ task.size = KnownSize(task)
  /\ pc \in {"attempt", "request"} => part = <<>>
  /\ pc = "request" => ~task.ranged
  /\ pc = "stream" => Prefix
  /\ pc \in {"check", "rename"} => task.serving \in Versions /\ part = Content(task.serving)

WholeInv == Immutable /\ (~leftover => Clean)

LEMMA WholeContent ==
  ASSUME NEW v \in Versions, NEW s \in Seq(Piece), Len(s) = Size[v],
         \A i \in 1..Len(s) : s[i] = <<v, i>>
  PROVE  s = Content(v)
<1>1. Size[v] \in Nat
  OBVIOUS
<1>2. s = [i \in 1..Len(s) |-> s[i]]
  OBVIOUS
<1>3. [i \in 1..Len(s) |-> s[i]] = [i \in 1..Size[v] |-> <<v, i>>]
  OBVIOUS
<1> QED
  BY <1>2, <1>3 DEF Content

LEMMA PrefixGrows ==
  ASSUME TypeOK, Prefix, NEW s, s = Append(part, <<task.serving, task.next>>),
         task.next <= Size[task.serving]
  PROVE  /\ Len(s) = Len(part) + 1 /\ Len(s) <= Size[task.serving]
         /\ \A i \in 1..Len(s) : s[i] = <<task.serving, i>>
<1>1. part \in Seq(Piece) /\ task.serving \in Versions /\ task.next = Len(part) + 1
  BY DEF TypeOK, Prefix
<1>2. Len(part) \in Nat
  BY <1>1
<1>3. Len(s) = Len(part) + 1
  BY <1>1
<1>4. \A i \in 1..Len(part) : s[i] = part[i]
  BY <1>1
<1>5. s[Len(part) + 1] = <<task.serving, task.next>>
  BY <1>1
<1>6. ASSUME NEW i \in 1..Len(s) PROVE s[i] = <<task.serving, i>>
  <2>1. CASE i = Len(part) + 1
    BY <2>1, <1>5, <1>1
  <2>2. CASE i # Len(part) + 1
    <3>1. i \in 1..Len(part)
      BY <2>2, <1>3, <1>2
    <3> QED
      BY <3>1, <1>4 DEF Prefix
  <2> QED
    BY <2>1, <2>2
<1> QED
  BY <1>1, <1>2, <1>3, <1>6

LEMMA ImmutableStep == TypeInv /\ Immutable /\ [Next]_vars => Immutable'
<1> SUFFICES ASSUME TypeInv, Immutable, [Next]_vars PROVE Immutable'
  OBVIOUS
<1>0. TypeOK
  BY DEF TypeInv
<1>1. ASSUME kind' = kind, mirror' = mirror, task'.serving = task.serving PROVE Immutable'
  BY <1>1 DEF Immutable
<1>2. ASSUME NEW keep \in BOOLEAN, Fail(keep), kind' = kind, mirror' = mirror PROVE Immutable'
  BY <1>0, <1>1, <1>2, FailFrame
<1>3. ASSUME NEW m \in Mirrors, Publish(m) PROVE Immutable'
  BY <1>3 DEF Publish, Immutable
<1>4. CASE Start
  <2>1. task'.serving = 0
    BY <1>4 DEF Start, NewTask
  <2> QED
    BY <1>4, <2>1 DEF Start, Immutable
<1>5. CASE AttemptAfresh \/ AttemptResume \/ Receive
  <2>1. task'.serving = task.serving
    BY <1>5, <1>0 DEF AttemptAfresh, AttemptResume, Receive, TypeOK, Task
  <2> QED
    BY <1>5, <2>1, <1>1 DEF AttemptAfresh, AttemptResume, Receive
<1>6. ASSUME NEW m \in Mirrors, AlreadyComplete(m) \/ DieSaving(m) PROVE Immutable'
  <2>1. task'.serving = task.serving
    BY <1>6, <1>0 DEF AlreadyComplete, DieSaving, TypeOK, Task
  <2> QED
    BY <1>6, <2>1, <1>1 DEF AlreadyComplete, DieSaving
<1>7. ASSUME NEW m \in Mirrors, Reject(m) PROVE Immutable'
  BY <1>7, <1>2 DEF Reject
<1>8. ASSUME NEW m \in Mirrors, Accept(m) PROVE Immutable'
  <2>1. task'.serving = mirror[m] /\ kind' = kind /\ mirror' = mirror
    BY <1>8, <1>0 DEF Accept, TypeOK, Task
  <2> QED
    BY <2>1 DEF Immutable
<1>9. CASE Refuse \/ BodyShort \/ Disconnect \/ Mismatch
  BY <1>9, <1>2 DEF Refuse, BodyShort, Disconnect, Mismatch
<1>10. CASE BodyRead \/ DiskError \/ RemoveFinal \/ Rename \/ Kill \/ UNCHANGED vars
  BY <1>10, <1>1 DEF BodyRead, DiskError, RemoveFinal, Rename, Kill, vars
<1> QED
  BY <1>3, <1>4, <1>5, <1>6, <1>7, <1>8, <1>9, <1>10 DEF Next, Work

LEMMA CleanStep ==
  TypeInv /\ WholeInv /\ [Next]_vars => (~leftover => Clean)'
<1> SUFFICES ASSUME TypeInv, Immutable, ~leftover => Clean, [Next]_vars, ~leftover' PROVE Clean'
  BY DEF WholeInv
<1>0. TypeOK
  BY DEF TypeInv
<1>1. ~leftover
  BY DEF Next, Work, Start, AttemptAfresh, AttemptResume, AlreadyComplete, Reject, Accept, Receive,
     BodyRead, BodyShort, Mismatch, RemoveFinal, Rename, Publish, DieSaving, Refuse, Disconnect,
     DiskError, Kill, history, vars
<1>2. Clean
  BY <1>1
<1>3. ASSUME Fail(FALSE), kind' = kind, pc \in Working PROVE Clean'
  <2>1. /\ pc' \in {"failed", "attempt"}
        /\ task'.size = task.size /\ task'.serving = task.serving /\ task'.resumed = task.resumed
        /\ pc' = "attempt" => part' = <<>>
    BY <1>3, <1>0, FailFrame
  <2>2. task.resumed = 0 /\ task.size = KnownSize(task)
    BY <1>3, <1>2 DEF Clean
  <2> QED
    BY <1>3, <2>1, <2>2 DEF Clean, Working, KnownSize
<1>4. ASSUME kind' = kind, part' = part, task' = task, pc' = pc PROVE Clean'
  BY <1>4, <1>2 DEF Clean, KnownSize, Prefix
<1>5. ASSUME pc' \in Ended PROVE Clean'
  BY <1>5 DEF Clean, Ended, Working
<1>6. ASSUME NEW m \in Mirrors, Publish(m) PROVE Clean'
  BY <1>6, <1>4 DEF Publish, disk
<1>7. CASE Start
  <2>1. CASE pc' = "attempt"
    <3>1. task' = NewTask(kind) /\ kind' = kind /\ part' = part /\ part = <<>>
      BY <1>7, <2>1, <1>1 DEF Start, disk
    <3>2. task'.resumed = 0 /\ task'.serving = 0
      BY <3>1 DEF NewTask
    <3> QED
      BY <2>1, <3>1, <3>2 DEF Clean, KnownSize
  <2>2. CASE pc' = "done"
    BY <2>2, <1>5 DEF Ended
  <2> QED
    BY <1>7, <2>1, <2>2 DEF Start
<1>8. CASE AttemptAfresh
  <2>1. task.resumed = 0 /\ task.size = KnownSize(task)
    BY <1>8, <1>2 DEF AttemptAfresh, Clean, Working
  <2>2. task'.size = task.size /\ task'.serving = task.serving /\ task'.resumed = task.resumed
    BY <1>8, <1>0 DEF AttemptAfresh, TypeOK, Task
  <2>4. ~task'.ranged
    <3>1. (task.resumed > 0) = FALSE
      BY <2>1
    <3>2. task' = [task EXCEPT !.ranged = FALSE]
      BY <1>8, <3>1, Zenon DEF AttemptAfresh
    <3> QED
      BY <3>2, <1>0 DEF TypeOK, Task
  <2>3. pc' = "request" /\ part' = <<>> /\ kind' = kind
    BY <1>8 DEF AttemptAfresh
  <2> QED
    BY <2>1, <2>2, <2>3, <2>4 DEF Clean, KnownSize
<1>9. CASE AttemptResume
  BY <1>9, <1>2 DEF AttemptResume, Clean
<1>10. ASSUME NEW m \in Mirrors, AlreadyComplete(m) \/ DieSaving(m) PROVE Clean'
  BY <1>10, <1>5 DEF AlreadyComplete, DieSaving, Ended
<1>11. ASSUME NEW m \in Mirrors, Reject(m) PROVE Clean'
  BY <1>11, <1>3 DEF Reject, Asking, Working
<1>12. ASSUME NEW m \in Mirrors, Accept(m) PROVE Clean'
  <2> DEFINE v == mirror[m]
  <2>1. v \in Versions /\ v # 0 /\ Size[v] \in Nat
    BY <1>0 DEF TypeOK
  <2>2. part = <<>> /\ ~task.ranged /\ task.resumed = 0 /\ task.size = KnownSize(task)
    BY <1>12, <1>2 DEF Accept, Asking, Clean, Working
  <2>3. task.serving \in {0, v}
    BY <1>12 DEF Accept, Acceptable, Conflicting
  <2>4. RemoteSize(m, v) = Size[v]
    BY <2>1, <2>2 DEF RemoteSize, Partial
  <2>5. Size[v] # 0
    BY <2>1
  <2>6. (IF task.size = 0 THEN RemoteSize(m, v) ELSE task.size) = Size[v]
    <3>1. CASE task.serving = v
      BY <3>1, <2>1, <2>2, <2>5 DEF KnownSize
    <3>2. CASE task.serving = 0
      BY <3>2, <2>2, <2>4 DEF KnownSize, NewTask, Immutable
    <3> QED
      BY <2>3, <3>1, <3>2
  <2>7. task'.serving = v /\ task'.size = Size[v] /\ task'.next = 1 /\ task'.resumed = 0
    BY <1>12, <1>0, <2>2, <2>6 DEF Accept, TypeOK, Task
  <2>8. pc' = "stream" /\ part' = <<>> /\ kind' = kind
    BY <1>12, <2>2 DEF Accept
  <2>9. Prefix'
    BY <2>1, <2>7, <2>8 DEF Prefix
  <2> HIDE DEF v
  <2> QED
    BY <2>1, <2>7, <2>8, <2>9 DEF Clean, KnownSize
<1>13. CASE Refuse \/ Disconnect \/ Mismatch
  BY <1>13, <1>3 DEF Refuse, Disconnect, Mismatch, Working
<1>14. CASE Receive
  <2>1. Prefix /\ task.resumed = 0 /\ task.size = KnownSize(task)
    BY <1>14, <1>2 DEF Receive, Clean, Working
  <2>2. /\ part' = Append(part, <<task.serving, task.next>>)
        /\ task.next <= Size[task.serving]
        /\ pc' = "stream" /\ kind' = kind
    BY <1>14 DEF Receive
  <2>3. /\ task'.serving = task.serving /\ task'.next = task.next + 1
        /\ task'.size = task.size /\ task'.resumed = task.resumed
    BY <1>14, <1>0 DEF Receive, TypeOK, Task
  <2>4. /\ Len(part') = Len(part) + 1 /\ Len(part') <= Size[task.serving]
        /\ \A i \in 1..Len(part') : part'[i] = <<task.serving, i>>
    BY <1>0, <2>1, <2>2, PrefixGrows
  <2>5. Prefix'
    BY <2>1, <2>3, <2>4 DEF Prefix
  <2> QED
    BY <2>1, <2>2, <2>3, <2>5 DEF Clean, KnownSize
<1>15. CASE BodyRead \/ BodyShort
  <2>1. Prefix /\ task.size = Size[task.serving] /\ EndOfBody
    BY <1>15, <1>2 DEF BodyRead, BodyShort, Clean, Working, KnownSize, Prefix
  <2>2. part \in Seq(Piece) /\ task.serving \in Versions /\ Size[task.serving] \in Nat
    BY <1>0, <2>1 DEF TypeOK, Prefix
  <2>3. Len(part) \in Nat
    BY <2>2
  <2>4. Len(part) = Size[task.serving]
    BY <2>1, <2>2, <2>3 DEF EndOfBody, Prefix
  <2>5. part = Content(task.serving)
    BY <2>1, <2>2, <2>4, WholeContent DEF Prefix
  <2>6. BodyRead
    BY <1>15, <2>1, <2>4 DEF BodyShort
  <2>7. kind' = kind /\ part' = part /\ task' = task /\ pc' = "check"
    BY <2>6 DEF BodyRead, disk
  <2>8. task.resumed = 0 /\ task.size = KnownSize(task)
    BY <2>6, <1>2 DEF BodyRead, Clean, Working
  <2> QED
    BY <2>2, <2>5, <2>7, <2>8 DEF Clean, KnownSize
<1>16. CASE RemoveFinal
  BY <1>16, <1>2 DEF RemoveFinal, Clean, KnownSize, Working
<1>17. CASE DiskError \/ Rename \/ Kill
  <2>1. pc' \in {"failed", "done", "idle"}
    BY <1>17 DEF DiskError, Rename, Kill
  <2> QED
    BY <2>1, <1>5 DEF Ended
<1>18. CASE UNCHANGED vars
  BY <1>18, <1>4 DEF vars
<1> QED
  BY <1>6, <1>7, <1>8, <1>9, <1>10, <1>11, <1>12, <1>13, <1>14, <1>15, <1>16, <1>17, <1>18
     DEF Next, Work

LEMMA WholeStep ==
  TypeInv /\ WholeInv /\ WholeUnlessLeftover /\ [Next]_vars => WholeUnlessLeftover'
<1> SUFFICES ASSUME TypeInv, Immutable, ~leftover => Clean, WholeUnlessLeftover, [Next]_vars,
                    ~leftover'
             PROVE  WholeUnlessLeftover'
  BY DEF WholeInv, WholeUnlessLeftover
<1>1. ~leftover
  BY DEF Next, Work, Start, AttemptAfresh, AttemptResume, AlreadyComplete, Reject, Accept, Receive,
     BodyRead, BodyShort, Mismatch, RemoveFinal, Rename, Publish, DieSaving, Refuse, Disconnect,
     DiskError, Kill, history, vars
<1>2. CASE kind' = kind /\ final' = final /\ finalTime' = finalTime
  BY <1>1, <1>2 DEF WholeUnlessLeftover
<1>3. CASE RemoveFinal
  BY <1>3 DEF RemoveFinal, WholeUnlessLeftover
<1>4. CASE Rename
  <2>1. task.serving \in Versions /\ part = Content(task.serving)
    BY <1>1, <1>4 DEF Rename, Clean
  <2>2. final' = Content(task.serving) /\ finalTime' = task.serving /\ kind' = kind
    BY <1>4, <2>1 DEF Rename
  <2>3. kind # "mutable" => task.serving = Wanted
    BY <2>1 DEF Immutable
  <2> QED
    BY <2>1, <2>2, <2>3 DEF WholeUnlessLeftover
<1> QED
  BY <1>2, <1>3, <1>4
     DEF Next, Work, Start, AttemptAfresh, AttemptResume, AlreadyComplete, Reject, Accept, Receive,
         BodyRead, BodyShort, Mismatch, Publish, DieSaving, Refuse, Disconnect, DiskError, Kill,
         disk, vars

LEMMA WholeInitially == Init => WholeInv /\ WholeUnlessLeftover
<1> SUFFICES ASSUME Init PROVE WholeInv /\ WholeUnlessLeftover
  OBVIOUS
<1>1. task.serving = 0
  BY DEF Init, NewTask
<1> QED
  BY <1>1 DEF Init, WholeInv, Immutable, Clean, WholeUnlessLeftover, Working

(* Two bodies are never mixed, and the modification time is that of the body, *)
(* as long as no run starts over a .part file.                                *)
THEOREM NeverMixed == Spec => []WholeUnlessLeftover
<1>1. Init => WholeInv /\ WholeUnlessLeftover
  BY WholeInitially
<1>2. TypeInv /\ WholeInv /\ [Next]_vars => WholeInv'
  BY ImmutableStep, CleanStep DEF WholeInv
<1> QED
  BY <1>1, <1>2, WholeStep, TypeInvariant, PTL DEF Spec

--------------------------------------------------------------------------------
(* ReceiverGotFile: in its first attempt the receiver has got what is in the  *)
(* .part file, the part that was there before included.                       *)
Accepted == {"stream", "check", "rename"}

GotInv ==
  task.retries = 0 =>
    /\ pc = "attempt" => got = <<>> /\ ~task.hasSent
    /\ pc \in {"request"} \cup Accepted => got = part
    /\ pc = "request" => (task.hasSent <=> part # <<>>)
    /\ pc = "done" /\ part = <<>> => got = final

LEMMA EmptyFirst == ASSUME NEW s \in Seq(Piece) PROVE <<>> \o s = s
OBVIOUS

(* Whatever attempt comes next is not the first. *)
LEMMA FailRetries ==
  ASSUME TypeOK, NEW keep \in BOOLEAN, Fail(keep)
  PROVE  pc' = "failed" \/ (pc' = "attempt" /\ task'.retries # 0)
<1>1. CASE task.retries < MaxRetries
  <2>1. task.retries \in Nat /\ task' = [task EXCEPT !.retries = task.retries + 1] /\ pc' = "attempt"
    BY <1>1 DEF TypeOK, Task, Fail
  <2>2. task'.retries = task.retries + 1
    BY <2>1 DEF TypeOK, Task
  <2> QED
    BY <2>1, <2>2
<1>2. CASE ~(task.retries < MaxRetries)
  BY <1>2 DEF Fail
<1> QED
  BY <1>1, <1>2

LEMMA GotStep == TypeInv /\ GotInv /\ [Next]_vars => GotInv'
<1> SUFFICES ASSUME TypeInv, GotInv, [Next]_vars PROVE GotInv'
  OBVIOUS
<1> USE DEF GotInv, Accepted
<1>0. /\ TypeOK /\ task \in Task /\ got \in Seq(Piece) /\ part \in Seq(Piece) /\ final \in Seq(Piece)
      /\ task.hasSent \in BOOLEAN
  BY DEF TypeInv, TypeOK, Task
<1>1. ASSUME NEW m \in Mirrors, Publish(m) PROVE GotInv'
  BY <1>1 DEF Publish, disk
<1>2. ASSUME NEW keep \in BOOLEAN, Fail(keep) PROVE GotInv'
  BY <1>0, <1>2, FailRetries
<1>3. CASE Start
  <2>1. CASE pc' = "done"
    BY <1>3, <2>1 DEF Start, disk
  <2>2. CASE pc' = "attempt"
    <3>1. task' = NewTask(kind) /\ got' = <<>>
      BY <1>3, <2>2 DEF Start
    <3>2. ~task'.hasSent
      BY <3>1 DEF NewTask
    <3> QED
      BY <2>2, <3>1, <3>2
  <2> QED
    BY <1>3, <2>1, <2>2 DEF Start
<1>4. CASE AttemptAfresh
  <2>1. task'.retries = task.retries /\ task'.hasSent = task.hasSent
    BY <1>4, <1>0 DEF AttemptAfresh, Task
  <2> QED
    BY <1>4, <2>1 DEF AttemptAfresh
<1>5. CASE AttemptResume
  <2>1. task'.retries = task.retries /\ task'.hasSent = TRUE
    BY <1>5, <1>0 DEF AttemptResume, Task
  <2>2. part # <<>> /\ part' = part /\ pc' \in {"check", "request"} /\ pc = "attempt"
    BY <1>5 DEF AttemptResume, disk
  <2>3. task.retries = 0 => got' = <<>> \o part
    BY <1>5, <2>2 DEF AttemptResume
  <2>4. task.retries = 0 => got' = part
    BY <1>0, <2>3, EmptyFirst
  <2> QED
    BY <2>1, <2>2, <2>4
<1>6. ASSUME NEW m \in Mirrors, AlreadyComplete(m) PROVE GotInv'
  <2>1. task'.retries = task.retries /\ pc' = "done" /\ pc = "request"
    BY <1>6, <1>0 DEF AlreadyComplete, Asking, Task
  <2>2. part' = part /\ final' = final
    BY <1>6 DEF AlreadyComplete, disk
  <2>3. ASSUME task.retries = 0, part = <<>> PROVE got' = final
    <3>1. got = <<>> /\ ~task.hasSent
      BY <2>1, <2>3
    <3>2. got' = <<>> \o final
      BY <1>6, <3>1 DEF AlreadyComplete
    <3> QED
      BY <1>0, <3>2, EmptyFirst
  <2> QED
    BY <2>1, <2>2, <2>3
<1>7. ASSUME NEW m \in Mirrors, Reject(m) PROVE GotInv'
  BY <1>7, <1>2 DEF Reject
<1>8. ASSUME NEW m \in Mirrors, Accept(m) PROVE GotInv'
  <2>1. task'.retries = task.retries
    BY <1>8, <1>0 DEF Accept, Task
  <2> QED
    BY <1>8, <2>1 DEF Accept, Asking
<1>9. ASSUME NEW m \in Mirrors, DieSaving(m) PROVE GotInv'
  BY <1>9 DEF DieSaving
<1>10. CASE Refuse \/ BodyShort \/ Disconnect \/ Mismatch
  BY <1>10, <1>2 DEF Refuse, BodyShort, Disconnect, Mismatch
<1>11. CASE Receive
  <2>1. task'.retries = task.retries
    BY <1>11, <1>0 DEF Receive, Task
  <2>2. /\ pc = "stream" /\ pc' = "stream"
        /\ part' = Append(part, <<task.serving, task.next>>)
        /\ got' = Append(got, <<task.serving, task.next>>)
    BY <1>11 DEF Receive
  <2> QED
    BY <2>1, <2>2
<1>12. CASE BodyRead \/ RemoveFinal
  BY <1>12 DEF BodyRead, RemoveFinal, disk
<1>13. CASE Rename
  BY <1>13 DEF Rename
<1>14. CASE DiskError \/ Kill
  BY <1>14 DEF DiskError, Kill
<1>15. CASE UNCHANGED vars
  BY <1>15 DEF vars
<1> QED
  BY <1>1, <1>3, <1>4, <1>5, <1>6, <1>7, <1>8, <1>9, <1>10, <1>11, <1>12, <1>13, <1>14, <1>15
     DEF Next, Work

(* The receiver of a run that succeeds at once has got the file, whether it  *)
(* came from the network, from a .part file or from the cache                *)
(* (http.rs:394, orchestration.rs).                                          *)
THEOREM ReceiverComplete == Spec => []ReceiverGotFile
<1>1. Init => GotInv
  BY DEF Init, GotInv, Accepted
<1>2. GotInv => ReceiverGotFile
  BY DEF GotInv, ReceiverGotFile
<1> QED
  BY <1>1, <1>2, GotStep, TypeInvariant, PTL DEF Spec

--------------------------------------------------------------------------------
(* UnchangedIsCurrent: as long as every response that was accepted led to    *)
(* its file, no .part file is left behind, and the saved metadata is that of *)
(* the file in place.                                                        *)
TrustInv ==
  ~broken =>
    /\ ~leftover
    /\ pc \notin Accepted => part = <<>>
    /\ kind = "mutable" => etag = IF pc \in Accepted THEN task.serving ELSE finalTime

LEMMA TrustStep == TypeInv /\ WholeInv /\ TrustInv /\ [Next]_vars => TrustInv'
<1> SUFFICES ASSUME TypeInv, WholeInv, TrustInv, [Next]_vars, ~broken' PROVE TrustInv'
  BY DEF TrustInv
<1>0. TypeOK /\ broken \in BOOLEAN /\ task \in Task
  BY DEF TypeInv, TypeOK
<1>1. ~broken
  BY <1>0 DEF Next, Work, Start, AttemptAfresh, AttemptResume, AlreadyComplete, Reject, Accept, Receive,
     BodyRead, BodyShort, Mismatch, RemoveFinal, Rename, Publish, DieSaving, Refuse, Disconnect,
     DiskError, Kill, history, vars
<1>2. /\ ~leftover /\ Clean /\ Immutable
      /\ pc \notin Accepted => part = <<>>
      /\ kind = "mutable" => etag = IF pc \in Accepted THEN task.serving ELSE finalTime
  BY <1>1 DEF TrustInv, WholeInv
<1>3. ASSUME NEW m \in Mirrors, Publish(m) PROVE TrustInv'
  BY <1>2, <1>3 DEF Publish, disk, history, TrustInv
<1>4. CASE Start
  <2>1. pc \notin Accepted /\ pc' \notin Accepted /\ UNCHANGED <<kind, disk>>
        /\ leftover' = (leftover \/ part # <<>>)
    BY <1>4 DEF Start, Accepted, Ended
  <2>2. ~leftover'
    BY <1>2, <2>1
  <2> QED
    BY <1>2, <2>1, <2>2 DEF TrustInv, disk
<1>5. CASE AttemptAfresh
  BY <1>2, <1>5 DEF AttemptAfresh, Accepted, history, TrustInv
<1>6. CASE AttemptResume
  BY <1>2, <1>6 DEF AttemptResume, Accepted
<1>7. ASSUME NEW m \in Mirrors, AlreadyComplete(m) PROVE TrustInv'
  BY <1>2, <1>7 DEF AlreadyComplete, Asking, Accepted, disk, history, TrustInv
<1>8. ASSUME NEW keep \in BOOLEAN, Fail(keep), pc \notin Accepted,
             UNCHANGED <<kind, finalTime, etag, leftover>>
      PROVE  TrustInv'
  <2>1. pc' \in {"failed", "attempt"}
    BY <1>0, <1>8, FailFrame
  <2>2. part' = <<>>
    BY <1>0, <1>2, <1>8 DEF Fail
  <2> QED
    BY <1>2, <1>8, <2>1, <2>2 DEF TrustInv, Accepted
<1>9. ASSUME NEW m \in Mirrors, Reject(m) PROVE TrustInv'
  BY <1>8, <1>9 DEF Reject, Asking, Accepted, history
<1>10. ASSUME NEW m \in Mirrors, Accept(m) PROVE TrustInv'
  <2>1. task'.serving = mirror[m] /\ pc' = "stream" /\ (kind = "mutable" => etag' = mirror[m])
        /\ UNCHANGED <<kind, leftover>>
    BY <1>10, <1>0 DEF Accept, Task, history
  <2> QED
    BY <1>2, <2>1 DEF TrustInv, Accepted
<1>11. ASSUME NEW m \in Mirrors, DieSaving(m) PROVE TrustInv'
  BY <1>11 DEF DieSaving, TrustInv
<1>12. CASE Refuse
  BY <1>8, <1>12 DEF Refuse, Accepted, history
<1>13. CASE Receive
  <2>1. task'.serving = task.serving /\ pc = "stream" /\ UNCHANGED <<kind, pc, etag, leftover>>
    BY <1>13, <1>0 DEF Receive, Task, history
  <2> QED
    BY <1>2, <2>1 DEF TrustInv, Accepted
<1>14. CASE BodyRead
  BY <1>2, <1>14 DEF BodyRead, Accepted, disk, history, TrustInv
<1>15. CASE BodyShort
  <2>1. Prefix /\ task.size = Size[task.serving] /\ EndOfBody /\ Len(part) # task.size
    BY <1>15, <1>2 DEF BodyShort, Clean, Working, KnownSize, Prefix
  <2>2. part \in Seq(Piece) /\ task.serving \in Versions /\ Size[task.serving] \in Nat
    BY <1>0, <2>1 DEF TypeOK, Prefix
  <2>3. Len(part) \in Nat
    BY <2>2
  <2> QED
    BY <2>1, <2>2, <2>3 DEF EndOfBody, Prefix
<1>16. CASE Mismatch
  <2>1. task.serving \in Versions /\ part = Content(task.serving) /\ kind = "checked" /\ part # Content(Wanted)
    BY <1>16, <1>2 DEF Mismatch, Clean, Verified
  <2>2. task.serving \in {0, Wanted}
    BY <1>2, <2>1 DEF Immutable
  <2> QED
    BY <2>1, <2>2
<1>17. CASE RemoveFinal
  BY <1>2, <1>17 DEF RemoveFinal, Accepted, history, TrustInv
<1>18. CASE Rename
  BY <1>2, <1>18 DEF Rename, Accepted, history, TrustInv
<1>19. CASE Disconnect \/ DiskError
  BY <1>19 DEF Disconnect, DiskError
<1>20. CASE Kill
  <2>1. pc \notin Accepted
    BY <1>20 DEF Kill, Accepted
  <2> QED
    BY <1>2, <1>20, <2>1 DEF Kill, Accepted, disk, TrustInv
<1>21. CASE UNCHANGED vars
  BY <1>2, <1>21 DEF vars, TrustInv
<1> QED
  BY <1>3, <1>4, <1>5, <1>6, <1>7, <1>9, <1>10, <1>11, <1>12, <1>13, <1>14, <1>15, <1>16, <1>17,
     <1>18, <1>19, <1>20, <1>21 DEF Next, Work

(* The step that calls a file unchanged has a mirror to show for it. *)
LEMMA UnchangedStep ==
  ASSUME TypeInv, TrustInv, [Next]_vars, ~broken, pc = "request", pc' = "done"
  PROVE  \E m \in Mirrors : mirror[m] <= finalTime
<1>0. TypeOK
  BY DEF TypeInv
<1>1. ASSUME NEW keep \in BOOLEAN, Fail(keep) PROVE FALSE
  BY <1>0, <1>1, FailFrame
<1>2. PICK m \in Mirrors : AlreadyComplete(m)
  BY <1>1 DEF Next, Work, Start, AttemptAfresh, AttemptResume, Reject, Accept, Receive,
     BodyRead, BodyShort, Mismatch, RemoveFinal, Rename, Publish, DieSaving, Refuse, Disconnect,
     DiskError, Kill, vars, Ended
<1>3. Current(m, mirror[m])
  BY <1>2 DEF AlreadyComplete
<1>4. kind = "mutable"
  BY <1>3 DEF Current, NotModified, UsesCache
<1>5. etag = finalTime
  BY <1>4 DEF TrustInv, Accepted
<1>6. mirror[m] \in Nat /\ finalTime \in Nat
  <2>1. mirror \in [Mirrors -> Versions] /\ finalTime \in Versions \cup {0}
    BY <1>0 DEF TypeOK
  <2>2. \A v \in Versions : v \in Nat
    BY ResumableDownloadAssumption
  <2>3. mirror[m] \in Versions
    BY <2>1
  <2>4. mirror[m] \in Nat
    BY <2>2, <2>3
  <2>5. finalTime \in Nat
    <3>1. CASE finalTime \in Versions
      BY <2>2, <3>1
    <3>2. CASE finalTime = 0
      BY <3>2
    <3> QED
      BY <2>1, <3>1, <3>2
  <2> QED
    BY <2>4, <2>5
<1>7. mirror[m] = finalTime \/ mirror[m] < finalTime \/ finalTime > mirror[m]
  BY <1>3, <1>5 DEF Current, NotModified, UsesCache
<1> QED
  BY <1>6, <1>7

(* A file that is said to be unchanged is at least as new as what the mirror *)
(* that said so serves, for any mirrors, versions and publications           *)
(* (http.rs:684-695, progress.rs:344).                                       *)
THEOREM UnchangedTrue == Spec => UnchangedIsCurrent
<1>1. Init => WholeInv /\ TrustInv
  BY WholeInitially DEF Init, TrustInv, Accepted
<1>2. TypeInv /\ WholeInv /\ [Next]_vars => WholeInv'
  BY ImmutableStep, CleanStep DEF WholeInv
<1>3. TypeInv /\ TrustInv /\ [Next]_vars =>
        [~broken /\ pc = "request" /\ pc' = "done" => \E m \in Mirrors : mirror[m] <= finalTime]_vars
  BY UnchangedStep
<1> QED
  BY <1>1, <1>2, <1>3, TrustStep, TypeInvariant, PTL DEF Spec, UnchangedIsCurrent

--------------------------------------------------------------------------------
(* A run ends.  What is left of one: retries, stages of the attempt, and        *)
(* pieces of the body.                                                          *)
Stages == CASE pc = "attempt" -> 5 [] pc = "request" -> 4 [] pc = "stream" -> 3
            [] pc = "check" -> 2 [] pc = "rename" -> 1 [] OTHER -> 0
BodyLeft == IF pc = "stream" /\ task.next <= Size[task.serving]
            THEN Size[task.serving] + 1 - task.next ELSE 0

RunLeft == <<MaxRetries - task.retries, Stages, BodyLeft>>
RunCounted == \A i \in 1..3 : RunLeft[i] \in Nat
LessLeft(s, t) == \E i \in 1..3 : s[i] < t[i] /\ \A j \in 1..(i - 1) : s[j] = t[j]

LEMMA RunUses ==
  ASSUME \/ MaxRetries - task'.retries < MaxRetries - task.retries
         \/ task'.retries = task.retries /\ Stages' < Stages
         \/ task'.retries = task.retries /\ Stages' = Stages /\ BodyLeft' < BodyLeft
  PROVE  LessLeft(RunLeft', RunLeft)
<1>1. /\ RunLeft[1] = MaxRetries - task.retries /\ RunLeft[2] = Stages /\ RunLeft[3] = BodyLeft
      /\ RunLeft'[1] = MaxRetries - task'.retries /\ RunLeft'[2] = Stages' /\ RunLeft'[3] = BodyLeft'
  BY DEF RunLeft
<1>2. 1..0 = {} /\ 1..1 = {1} /\ 1..2 = {1, 2} /\ 1..3 = {1, 2, 3}
  OBVIOUS
<1>3. ASSUME NEW i \in 1..3, RunLeft'[i] < RunLeft[i], \A j \in 1..(i - 1) : RunLeft'[j] = RunLeft[j]
      PROVE  LessLeft(RunLeft', RunLeft)
  BY <1>3 DEF LessLeft
<1>4. CASE MaxRetries - task'.retries < MaxRetries - task.retries
  BY <1>1, <1>2, <1>3, <1>4
<1>5. CASE task'.retries = task.retries /\ Stages' < Stages
  <2>1. \A j \in 1..(2 - 1) : RunLeft'[j] = RunLeft[j]
    BY <1>1, <1>2, <1>5
  <2> QED BY <1>1, <1>2, <1>3, <1>5, <2>1
<1>6. CASE task'.retries = task.retries /\ Stages' = Stages /\ BodyLeft' < BodyLeft
  <2>1. \A j \in 1..(3 - 1) : RunLeft'[j] = RunLeft[j]
    BY <1>1, <1>2, <1>6
  <2> QED BY <1>1, <1>2, <1>3, <1>6, <2>1
<1> QED BY <1>4, <1>5, <1>6

LEMMA StageOf ==
  /\ pc = "attempt" => Stages = 5
  /\ pc = "request" => Stages = 4
  /\ pc = "stream" => Stages = 3
  /\ pc = "check" => Stages = 2
  /\ pc = "rename" => Stages = 1
  /\ pc \in Ended => Stages = 0
  /\ pc' = "attempt" => Stages' = 5
  /\ pc' = "request" => Stages' = 4
  /\ pc' = "stream" => Stages' = 3
  /\ pc' = "check" => Stages' = 2
  /\ pc' = "rename" => Stages' = 1
  /\ pc' \in Ended => Stages' = 0
BY DEF Stages, Ended

(* A failed attempt uses up a retry, or ends the run.                           *)
LEMMA FailUses ==
  ASSUME TypeInv, pc \in Working, NEW keep \in BOOLEAN, Fail(keep)
  PROVE  LessLeft(RunLeft', RunLeft)
<1>1. task \in Task /\ task.retries \in Nat /\ MaxRetries \in Nat
  BY DEF TypeInv, TypeOK, Task
<1>2. CASE task.retries >= MaxRetries
  <2>1. task' = task /\ pc' = "failed"
    BY <1>1, <1>2 DEF Fail
  <2>2. Stages' = 0 /\ Stages \in Nat \ {0}
    BY <2>1, StageOf DEF Working, Ended
  <2> QED BY <2>1, <2>2, RunUses
<1>3. CASE task.retries < MaxRetries
  <2>1. task' = [task EXCEPT !.retries = @ + 1]
    BY <1>1, <1>3 DEF Fail
  <2>2. task'.retries = task.retries + 1
    BY <1>1, <2>1 DEF Task
  <2>3. MaxRetries - task'.retries < MaxRetries - task.retries
    BY <1>1, <2>2
  <2> QED BY <2>3, RunUses
<1> QED BY <1>1, <1>2, <1>3

(* Every step of a process uses up something finite, whatever its mirrors        *)
(* serve, refuse or publish meanwhile (orchestration.rs, the loop over the        *)
(* retries): no run of the program retries, resumes or receives for ever.         *)
THEOREM RunEnds ==
  Spec => []RunCounted /\ [][\/ Start \/ \E m \in Mirrors : Publish(m)
                             \/ LessLeft(RunLeft', RunLeft)]_vars
<1>1. TypeInv => RunCounted
  <2> SUFFICES ASSUME TypeInv PROVE RunCounted
    OBVIOUS
  <2>1. task.retries \in 0..MaxRetries /\ task.next \in Nat /\ MaxRetries \in Nat
        /\ (pc = "stream" => Size[task.serving] \in Nat)
    BY DEF TypeInv, TypeOK, Served, Task
  <2>2. Stages \in Nat
    BY StageOf DEF TypeInv, TypeOK, Working
  <2>3. BodyLeft \in Nat
    BY <2>1 DEF BodyLeft
  <2>4. MaxRetries - task.retries \in Nat
    BY <2>1
  <2>5. 1..3 = {1, 2, 3}
    OBVIOUS
  <2> QED BY <2>2, <2>3, <2>4, <2>5 DEF RunCounted, RunLeft
<1>2. TypeInv /\ [Next]_vars => [\/ Start \/ \E m \in Mirrors : Publish(m)
                                 \/ LessLeft(RunLeft', RunLeft)]_vars
  <2> SUFFICES ASSUME TypeInv, Next, ~Start, ~\E m \in Mirrors : Publish(m)
               PROVE  LessLeft(RunLeft', RunLeft)
    OBVIOUS
  <2>0. task \in Task
    BY DEF TypeInv, TypeOK
  <2>1. CASE AttemptAfresh \/ AttemptResume
    <3>1. pc = "attempt" /\ pc' \in {"request", "check"}
      BY <2>1 DEF AttemptAfresh, AttemptResume
    <3>2. task'.retries = task.retries
      BY <2>0, <2>1 DEF AttemptAfresh, AttemptResume, Task
    <3> QED BY <3>1, <3>2, StageOf, RunUses
  <2>2. ASSUME NEW m \in Mirrors, AlreadyComplete(m) \/ Accept(m) \/ DieSaving(m)
        PROVE  LessLeft(RunLeft', RunLeft)
    <3>1. pc = "request" /\ pc' \in {"done", "stream", "idle"}
      BY <2>2 DEF AlreadyComplete, Accept, DieSaving, Asking
    <3>2. task'.retries = task.retries
      BY <2>0, <2>2 DEF AlreadyComplete, Accept, DieSaving, Task
    <3> QED BY <3>1, <3>2, StageOf, RunUses DEF Ended
  <2>3. CASE (\E m \in Mirrors : Reject(m)) \/ Refuse \/ BodyShort \/ Disconnect \/ Mismatch
    <3>1. pc \in Working /\ \E keep \in BOOLEAN : Fail(keep)
      BY <2>3 DEF Reject, Asking, Refuse, BodyShort, Disconnect, Mismatch, Working
    <3> QED BY <3>1, FailUses
  <2>4. CASE Receive
    <3>1. pc = "stream" /\ pc' = "stream" /\ task.next <= Size[task.serving]
          /\ task' = [task EXCEPT !.next = task.next + 1]
      BY <2>4 DEF Receive
    <3>2. task'.retries = task.retries /\ task'.next = task.next + 1 /\ task'.serving = task.serving
      BY <2>0, <3>1 DEF Task
    <3>3. task.next \in Nat /\ Size[task.serving] \in Nat
      BY <2>0, <3>1 DEF TypeInv, Served, Task
    <3>4. BodyLeft = Size[task.serving] + 1 - task.next
      BY <3>1 DEF BodyLeft
    <3>5. BodyLeft' = IF task.next + 1 <= Size[task.serving]
                      THEN Size[task.serving] + 1 - (task.next + 1) ELSE 0
      BY <3>1, <3>2 DEF BodyLeft
    <3>6. BodyLeft' < BodyLeft
      BY <3>1, <3>3, <3>4, <3>5
    <3> QED BY <3>1, <3>2, <3>6, StageOf, RunUses
  <2>5. CASE BodyRead \/ DiskError \/ RemoveFinal \/ Rename \/ Kill
    <3>1. task' = task
      BY <2>5 DEF BodyRead, DiskError, RemoveFinal, Rename, Kill
    <3>2. \/ pc = "stream" /\ pc' \in {"check", "failed"}
          \/ pc = "check" /\ pc' = "rename"
          \/ pc = "rename" /\ pc' = "done"
          \/ pc \in Working /\ pc' = "idle"
      BY <2>5 DEF BodyRead, DiskError, RemoveFinal, Rename, Kill
    <3>3. Stages' < Stages
      BY <3>2, StageOf DEF Working, Ended
    <3> QED BY <3>1, <3>3, RunUses
  <2> QED BY <2>1, <2>2, <2>3, <2>4, <2>5 DEF Next, Work
<1> QED BY <1>1, <1>2, TypeInvariant, PTL DEF Spec
================================================================================
