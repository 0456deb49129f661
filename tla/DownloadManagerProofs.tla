------------------------ MODULE DownloadManagerProofs ------------------------
(***************************************************************************)
(* Proofs about the download manager, for any callers, URLs, sizes and     *)
(* limit: type correctness, the limit on threads, the flag of the          *)
(* processing loops, that the manager implements DownloadService and that  *)
(* it forgets nobody who waits; and about the threads of one of its        *)
(* downloads (ChunkedDownload), for any chunks, attempts, threads and      *)
(* faults: one thread downloads a task, what is completed is there, the    *)
(* part file has no hole, and the download ends.                           *)
(***************************************************************************)
EXTENDS DownloadManager, ChunkedDownload, FiniteSetTheorems, SequenceTheorems,
        WellFoundedInduction, TLAPS

(* Init and every action keep the types of the variables.                  *)
LEMMA TypeInductive == (Init => TypeOK) /\ (TypeOK /\ [Next]_vars => TypeOK')
<1>1. ASSUME Init PROVE TypeOK
  <2>1. Want \in [Callers -> SUBSET Urls]
    BY DownloadManagerAssumption
  <2> QED BY <1>1, <2>1 DEF Init, TypeOK
<1>2. ASSUME TypeOK, [Next]_vars PROVE TypeOK'
  <2>1. ASSUME NEW c \in Callers, NEW u \in Urls, Submit(c, u) PROVE TypeOK'
    <3>1. Channel(c) \subseteq Callers
      BY DEF Channel
    <3>2. status' \in [Urls -> {"none", "pending", "downloading"} \cup Ends]
      BY <1>2, <2>1 DEF Submit, TypeOK
    <3>3. channels' \in [Urls -> SUBSET Callers]
      BY <1>2, <2>1, <3>1 DEF Submit, TypeOK
    <3>4. toSubmit' \in [Callers -> SUBSET Urls]
      BY <1>2, <2>1 DEF Submit, TypeOK
    <3>5. late' \subseteq Callers
      BY <1>2, <2>1, <3>1 DEF Submit, TypeOK
    <3>6. caller' \in [Callers -> {"submit", "load", "store", "spawn", "wait", "done"}]
      BY <1>2, <2>1 DEF Submit, Goto, TypeOK
    <3> QED BY <1>2, <2>1, <3>2, <3>3, <3>4, <3>5, <3>6 DEF Submit, TypeOK
  <2>2. ASSUME NEW c \in Callers, Load(c) \/ Store(c) \/ Spawn(c) PROVE TypeOK'
    <3>1. CASE Load(c)
      BY <1>2, <3>1 DEF Load, Goto, TypeOK, tasks
    <3>2. CASE Store(c)
      BY <1>2, <3>2 DEF Store, Goto, TypeOK, tasks, history
    <3>3. CASE Spawn(c)
      BY <1>2, <3>3 DEF Spawn, Goto, TypeOK, tasks, history
    <3> QED BY <2>2, <3>1, <3>2, <3>3
  <2>3. ASSUME NEW c \in Callers, Closed(c) \/ ToldAll(c) \/ ToldAny(c) PROVE TypeOK'
    <3>1. CASE Closed(c)
      BY <1>2, <3>1 DEF Closed, Goto, TypeOK, tasks, history
    <3>2. CASE ToldAll(c)
      BY <1>2, <3>2 DEF ToldAll, Goto, TypeOK, tasks, history
    <3>3. CASE ToldAny(c)
      BY <1>2, <3>3 DEF ToldAny, Goto, TypeOK, tasks, history
    <3> QED BY <2>3, <3>1, <3>2, <3>3
  <2>4. ASSUME NEW l \in Callers, Clean(l) \/ LookNonePending(l) \/ Stop(l) PROVE TypeOK'
    <3>1. CASE Clean(l)
      BY <1>2, <3>1 DEF Clean, TypeOK, history
    <3>2. CASE LookNonePending(l)
      BY <1>2, <3>2 DEF LookNonePending, TypeOK, tasks, history
    <3>3. CASE Stop(l)
      BY <1>2, <3>3 DEF Stop, TypeOK, tasks, history
    <3> QED BY <2>4, <3>1, <3>2, <3>3
  <2>5. ASSUME NEW l \in Callers, Look(l) PROVE TypeOK'
    BY <1>2, <2>5 DEF Look, Begin, Pending, TypeOK, history
  <2>6. ASSUME NEW u \in Urls, Finish(u) \/ Close(u) PROVE TypeOK'
    <3>1. CASE Finish(u)
      BY <1>2, <3>1 DEF Finish, TypeOK, history
    <3>2. CASE Close(u)
      BY <1>2, <3>2 DEF Close, TypeOK, history
    <3> QED BY <2>6, <3>1, <3>2
  <2>7. CASE UNCHANGED vars
    BY <1>2, <2>7 DEF vars, TypeOK
  <2> QED BY <1>2, <2>1, <2>2, <2>3, <2>4, <2>5, <2>6, <2>7
          DEF Next, CallerStep, LoopStep, TaskStep
<1> QED BY <1>1, <1>2

(* Every variable keeps its type.                                          *)
THEOREM TypeCorrect == Spec => []TypeOK
BY TypeInductive, PTL DEF Spec

--------------------------------------------------------------------------------
(* A loop counts handles, not threads.  What makes that right is that the   *)
(* handle of a thread that has not finished is never dropped, whichever      *)
(* loop cleans up.                                                           *)
Going == {u \in Urls : thread[u] \in {"running", "closing"}}
Room == Cardinality(handles) <= NrParallel
Counted == Going \subseteq handles /\ Room

(* Init and every action keep the handles of the threads, within the limit. *)
LEMMA CountedInductive ==
  (Init => Counted) /\ (TypeOK /\ Counted /\ [Next]_vars => Counted')
<1>1. Init => Counted
  BY FS_EmptySet, DownloadManagerAssumption DEF Init, Counted, Going, Room
<1>2. ASSUME TypeOK, Counted, [Next]_vars PROVE Counted'
  <2>1. IsFiniteSet(handles)
    BY <1>2, FS_Subset, DownloadManagerAssumption DEF TypeOK
  <2>2. ASSUME NEW l \in Callers, Clean(l) PROVE Counted'
    <3>1. Going' \subseteq handles'
      BY <1>2, <2>2 DEF Clean, Counted, Going
    <3>2. Cardinality(handles') <= Cardinality(handles)
      BY <2>1, <2>2, FS_Subset DEF Clean
    <3>3. Cardinality(handles) \in Nat /\ Cardinality(handles') \in Nat
      BY <2>1, <2>2, FS_Subset, FS_CardinalityType DEF Clean
    <3> QED BY <1>2, <3>1, <3>2, <3>3, DownloadManagerAssumption DEF Counted, Room
  <2>3. ASSUME NEW l \in Callers, Look(l) PROVE Counted'
    <3>1. PICK us \in SUBSET Pending : Chosen(us) /\ Begin(us)
      BY <2>3 DEF Look
    <3>2. Going' \subseteq handles'
      BY <1>2, <3>1 DEF Begin, Pending, Counted, Going, TypeOK
    <3>3. CASE us = {}
      <4>1. handles' = handles
        BY <3>1, <3>3 DEF Begin
      <4> QED BY <1>2, <3>2, <4>1 DEF Counted, Room
    <3>4. CASE us # {}
      <4>1. IsFiniteSet(us)
        BY <3>1, FS_Subset, DownloadManagerAssumption DEF Pending
      <4>2. Cardinality(handles \cup us) \in Nat /\ Cardinality(handles) \in Nat
            /\ Cardinality(us) \in Nat /\ Cardinality(handles \cap us) \in Nat
        BY <2>1, <4>1, FS_Union, FS_Intersection, FS_CardinalityType
      <4>3. Cardinality(handles \cup us)
              = Cardinality(handles) + Cardinality(us) - Cardinality(handles \cap us)
        BY <2>1, <4>1, FS_Union
      <4>4. Cardinality(handles) + Cardinality(us) <= NrParallel
        BY <3>1, <3>4 DEF Chosen
      <4>5. Cardinality(handles \cup us) <= NrParallel
        BY <4>2, <4>3, <4>4, DownloadManagerAssumption
      <4> QED BY <3>1, <3>2, <4>5 DEF Begin, Counted, Room
    <3> QED BY <3>3, <3>4
  <2>4. ASSUME NEW u \in Urls, Finish(u) \/ Close(u) PROVE Counted'
    <3>1. handles' = handles
      BY <2>4 DEF Finish, Close
    <3>2. Going' \subseteq Going
      <4>1. CASE Finish(u)
        BY <1>2, <4>1 DEF Finish, Going, TypeOK
      <4>2. CASE Close(u)
        BY <1>2, <4>2 DEF Close, Going, TypeOK
      <4> QED BY <2>4, <4>1, <4>2
    <3> QED BY <1>2, <3>1, <3>2 DEF Counted, Room
  <2>5. CASE handles' = handles /\ thread' = thread
    BY <1>2, <2>5 DEF Counted, Going, Room
  <2>6. ASSUME NEW c \in Callers, CallerStep(c) PROVE handles' = handles /\ thread' = thread
    BY <2>6 DEF CallerStep, Submit, Load, Store, Spawn, Closed, ToldAll, ToldAny, tasks
  <2>7. ASSUME NEW l \in Callers, LookNonePending(l) \/ Stop(l)
        PROVE  handles' = handles /\ thread' = thread
    BY <2>7 DEF LookNonePending, Stop, tasks
  <2>8. CASE UNCHANGED vars
    BY <2>5, <2>8 DEF vars
  <2> QED BY <1>2, <2>2, <2>3, <2>4, <2>5, <2>6, <2>7, <2>8
          DEF Next, LoopStep, TaskStep
<1> QED BY <1>1, <1>2

(* The limit follows from the handles.                                       *)
LEMMA CountedLimits == TypeOK /\ Counted => ParallelLimit
<1> SUFFICES ASSUME TypeOK, Counted PROVE ParallelLimit
  OBVIOUS
<1>1. IsFiniteSet(handles)
  BY FS_Subset, DownloadManagerAssumption DEF TypeOK
<1>2. IsFiniteSet(Going) /\ Cardinality(Going) <= Cardinality(handles)
  BY <1>1, FS_Subset DEF Counted
<1>3. Cardinality(Going) \in Nat /\ Cardinality(handles) \in Nat
  BY <1>1, <1>2, FS_CardinalityType
<1>4. Cardinality(Going) <= NrParallel
  BY <1>2, <1>3, DownloadManagerAssumption DEF Counted, Room
<1> QED BY <1>4 DEF ParallelLimit, Going

(* No more downloads run than nr_parallel allows, whatever loops and callers *)
(* there are.                                                                *)
THEOREM LimitKept == Spec => []ParallelLimit
BY TypeInductive, CountedInductive, CountedLimits, PTL DEF Spec

--------------------------------------------------------------------------------
(* Init and every action keep somebody who will clear the flag.              *)
LEMMA FlagInductive ==
  (Init => FlagIsCleared) /\ (TypeOK /\ FlagIsCleared /\ [Next]_vars => FlagIsCleared')
<1>1. Init => FlagIsCleared
  BY DEF Init, FlagIsCleared
<1>2. ASSUME TypeOK, FlagIsCleared, [Next]_vars PROVE FlagIsCleared'
  <2>1. ASSUME NEW c \in Callers, NEW u \in Urls, Submit(c, u) PROVE FlagIsCleared'
    BY <1>2, <2>1 DEF Submit, Goto, FlagIsCleared, TypeOK
  <2>2. ASSUME NEW c \in Callers, Load(c) PROVE FlagIsCleared'
    BY <1>2, <2>2 DEF Load, Goto, FlagIsCleared, TypeOK
  <2>3. ASSUME NEW c \in Callers, Store(c) PROVE FlagIsCleared'
    BY <1>2, <2>3 DEF Store, Goto, FlagIsCleared, TypeOK
  <2>4. ASSUME NEW c \in Callers, Spawn(c) PROVE FlagIsCleared'
    BY <1>2, <2>4 DEF Spawn, FlagIsCleared, TypeOK
  <2>5. ASSUME NEW c \in Callers, Closed(c) \/ ToldAll(c) \/ ToldAny(c) PROVE FlagIsCleared'
    <3>1. /\ caller[c] = "wait" /\ caller' = [caller EXCEPT ![c] = "done"]
          /\ UNCHANGED <<processing, loop>>
      BY <2>5 DEF Closed, ToldAll, ToldAny, Goto
    <3> QED BY <1>2, <3>1 DEF FlagIsCleared, TypeOK
  <2>6. ASSUME NEW l \in Callers, Clean(l) \/ Look(l) \/ LookNonePending(l) PROVE FlagIsCleared'
    <3>1. /\ UNCHANGED <<processing, caller>>
          /\ \E s \in {"clean", "look", "stop"} : loop' = [loop EXCEPT ![l] = s]
      BY <2>6 DEF Clean, Look, LookNonePending
    <3> QED BY <1>2, <3>1 DEF FlagIsCleared, TypeOK
  <2>7. ASSUME NEW l \in Callers, Stop(l) PROVE FlagIsCleared'
    BY <2>7 DEF Stop, FlagIsCleared
  <2>8. CASE UNCHANGED <<processing, caller, loop>>
    BY <1>2, <2>8 DEF FlagIsCleared
  <2>9. ASSUME NEW u \in Urls, TaskStep(u) PROVE UNCHANGED <<processing, caller, loop>>
    BY <2>9 DEF TaskStep, Finish, Close
  <2>10. CASE UNCHANGED vars
    BY <2>8, <2>10 DEF vars
  <2> QED BY <1>2, <2>1, <2>2, <2>3, <2>4, <2>5, <2>6, <2>7, <2>8, <2>9, <2>10
          DEF Next, CallerStep, LoopStep
<1> QED BY <1>1, <1>2

(* is_processing is never left set with nobody to clear it.                  *)
THEOREM FlagCleared == Spec => []FlagIsCleared
BY TypeInductive, FlagInductive, PTL DEF Spec

--------------------------------------------------------------------------------
(* What the refinement needs: only a download that is under way can end, and *)
(* only a caller that is done has been told anything.                        *)
Orderly ==
  /\ \A u \in Urls : thread[u] = "running" => status[u] = "downloading"
  /\ \A c \in Callers : caller[c] # "done" => result[c] = "none"

(* Init and every action keep that order.                                    *)
LEMMA OrderlyInductive ==
  (Init => Orderly) /\ (TypeOK /\ Orderly /\ [Next]_vars => Orderly')
<1>1. Init => Orderly
  BY DEF Init, Orderly
<1>2. ASSUME TypeOK, Orderly, [Next]_vars PROVE Orderly'
  <2>1. ASSUME NEW c \in Callers, NEW u \in Urls, Submit(c, u) PROVE Orderly'
    BY <1>2, <2>1 DEF Submit, Goto, Orderly, TypeOK
  <2>2. ASSUME NEW c \in Callers, Load(c) \/ Store(c) \/ Spawn(c) PROVE Orderly'
    <3>1. /\ caller[c] # "done" /\ UNCHANGED <<status, thread, result>>
          /\ \E s \in {"wait", "store", "spawn"} : caller' = [caller EXCEPT ![c] = s]
      BY <2>2 DEF Load, Store, Spawn, Goto, tasks
    <3> QED BY <1>2, <3>1 DEF Orderly, TypeOK
  <2>3. ASSUME NEW c \in Callers, Closed(c) \/ ToldAll(c) \/ ToldAny(c) PROVE Orderly'
    <3>1. /\ caller' = [caller EXCEPT ![c] = "done"] /\ UNCHANGED <<status, thread>>
          /\ \A d \in Callers \ {c} : result'[d] = result[d]
      BY <1>2, <2>3 DEF Closed, ToldAll, ToldAny, Goto, tasks, TypeOK
    <3> QED BY <1>2, <3>1 DEF Orderly, TypeOK
  <2>4. ASSUME NEW l \in Callers, Look(l) PROVE Orderly'
    BY <1>2, <2>4 DEF Look, Begin, Pending, Orderly, TypeOK
  <2>5. ASSUME NEW u \in Urls, Finish(u) PROVE Orderly'
    BY <1>2, <2>5 DEF Finish, Orderly, TypeOK
  <2>6. ASSUME NEW u \in Urls, Close(u) PROVE Orderly'
    BY <1>2, <2>6 DEF Close, Orderly, TypeOK
  <2>7. CASE UNCHANGED <<status, thread, caller, result>>
    BY <1>2, <2>7 DEF Orderly
  <2>8. ASSUME NEW l \in Callers, Clean(l) \/ LookNonePending(l) \/ Stop(l)
        PROVE  UNCHANGED <<status, thread, caller, result>>
    BY <2>8 DEF Clean, LookNonePending, Stop, tasks
  <2>9. CASE UNCHANGED vars
    BY <2>7, <2>9 DEF vars
  <2> QED BY <1>2, <2>1, <2>2, <2>3, <2>4, <2>5, <2>6, <2>7, <2>8, <2>9
          DEF Next, CallerStep, LoopStep, TaskStep
<1> QED BY <1>1, <1>2

(* Initial states are initial states of the service.                         *)
LEMMA ServiceInit == Init => Service!Init
BY DEF Init, Service!Init

(* Every step is a step of the service, or changes nothing the service shows. *)
LEMMA ServiceStep ==
  TypeOK /\ Orderly /\ [Next]_vars => [Service!Next]_<<status, result>>
<1> SUFFICES ASSUME TypeOK, Orderly, [Next]_vars
             PROVE  Service!Next \/ UNCHANGED <<status, result>>
  OBVIOUS
<1>1. ASSUME NEW c \in Callers, NEW u \in Urls, Submit(c, u)
      PROVE  Service!Ask(u) \/ UNCHANGED <<status, result>>
  <2>1. CASE status[u] = "none"
    BY <1>1, <2>1 DEF Submit, Service!Ask
  <2>2. CASE status[u] # "none"
    BY <1>1, <2>2 DEF Submit, TypeOK
  <2> QED BY <2>1, <2>2
<1>2. ASSUME NEW c \in Callers, ToldAll(c) PROVE Service!Tell(c)
  <2>1. result[c] = "none" /\ c \in {d \in Callers : Kind[d] # "stream"}
    BY <1>2 DEF ToldAll, Orderly
  <2>2. CASE \A u \in Want[c] : status[u] = "completed"
    BY <1>2, <2>1, <2>2 DEF ToldAll, Service!Tell, tasks
  <2>3. CASE ~ \A u \in Want[c] : status[u] = "completed"
    <3>1. \E u \in Want[c] : status[u] = "failed"
      BY <1>2, <2>3 DEF ToldAll, Ends
    <3> QED BY <1>2, <2>1, <2>3, <3>1 DEF ToldAll, Service!Tell, tasks
  <2> QED BY <2>2, <2>3
<1>3. ASSUME NEW c \in Callers, ToldAny(c) PROVE Service!Tell(c)
  BY <1>3 DEF ToldAny, Orderly, Service!Tell, tasks
<1>4. ASSUME NEW c \in Callers, ToldAll(c) \/ ToldAny(c)
      PROVE  c \in {d \in Callers : Kind[d] # "stream"}
  BY <1>4 DEF ToldAll, ToldAny
<1>5. ASSUME NEW l \in Callers, Look(l)
      PROVE  (\E us \in SUBSET Urls : Service!Fetch(us)) \/ UNCHANGED <<status, result>>
  <2>1. PICK us \in SUBSET Pending : Begin(us)
    BY <1>5 DEF Look
  <2>2. UNCHANGED result
    BY <1>5 DEF Look
  <2>3. CASE us = {}
    <3>1. status' = status
      BY <2>1, <2>3 DEF Begin, TypeOK
    <3> QED BY <2>2, <3>1
  <2>4. CASE us # {}
    <3>1. us \in SUBSET Urls /\ Service!Fetch(us)
      BY <2>1, <2>2, <2>4 DEF Begin, Pending, Service!Fetch
    <3> QED BY <3>1
  <2> QED BY <2>3, <2>4
<1>6. ASSUME NEW u \in Urls, Finish(u) PROVE Service!End(u)
  BY <1>6 DEF Finish, Orderly, Service!End, Ends, Service!Ends
<1>7. ASSUME NEW c \in Callers, Load(c) \/ Store(c) \/ Spawn(c) \/ Closed(c)
      PROVE  UNCHANGED <<status, result>>
  BY <1>7 DEF Load, Store, Spawn, Closed, tasks
<1>8. ASSUME NEW l \in Callers, Clean(l) \/ LookNonePending(l) \/ Stop(l)
      PROVE  UNCHANGED <<status, result>>
  BY <1>8 DEF Clean, LookNonePending, Stop, tasks
<1>9. ASSUME NEW u \in Urls, Close(u) PROVE UNCHANGED <<status, result>>
  BY <1>9 DEF Close
<1>10. CASE UNCHANGED vars
  BY <1>10 DEF vars
<1> QED BY <1>1, <1>2, <1>3, <1>4, <1>5, <1>6, <1>7, <1>8, <1>9, <1>10
        DEF Next, CallerStep, LoopStep, TaskStep, Service!Next

(* The manager implements the service, for any callers and limit: a URL is    *)
(* fetched once, and a caller is told what is so.                             *)
THEOREM Implements == Spec => ServiceSpec
BY TypeInductive, OrderlyInductive, ServiceInit, ServiceStep, PTL
   DEF Spec, ServiceSpec, Service!Spec

--------------------------------------------------------------------------------
(* Who waits, and for what.  Three facts about the tasks, and one about the   *)
(* callers: a URL is in tasks once it has been submitted; the thread of a     *)
(* task says how far the task is; a closed task has no channel but those that *)
(* came too late; and a caller whose URL is pending, if it is not one of the  *)
(* unseen, has somebody who will look.                                        *)
Submitted ==
  \A c \in Callers : /\ caller[c] # "submit" => toSubmit[c] = {}
                     /\ \A u \in Want[c] \ toSubmit[c] : status[u] # "none"
Threaded ==
  \A u \in Urls : /\ status[u] = "downloading" => thread[u] = "running"
                  /\ status[u] \in Ends => thread[u] \in {"closing", "finished"}
Shut ==
  \A u \in Urls, c \in Callers : thread[u] = "finished" /\ c \in channels[u] => c \in late
Watched ==
  \A c \in Callers : caller[c] = "wait" /\ c \notin unseen =>
    ((\E u \in Want[c] : status[u] = "pending") => Attended)
Awaited == Submitted /\ Threaded /\ Shut /\ Watched

(* What lets a waiting caller go on: its receiver is closed, or the tasks it  *)
(* waits for have ended.                                                      *)
Answered(c) ==
  \/ Kind[c] = "stream" /\ \A u \in Want[c] : c \notin channels[u]
  \/ Kind[c] = "all" /\ \A u \in Want[c] : status[u] \in Ends
  \/ Kind[c] = "any" /\ \/ \A u \in Want[c] : status[u] = "completed"
                        \/ \E u \in Want[c] : status[u] = "failed"

(* Whoever waits, but for the unseen and the late, can go on, or has a        *)
(* download under way, or there is somebody who will look at the tasks.       *)
NobodyIsForgotten ==
  \A c \in Callers : caller[c] = "wait" /\ c \notin unseen \cup late =>
    \/ Answered(c)
    \/ \E u \in Want[c] : thread[u] \in {"running", "closing"}
    \/ Attended

LEMMA WantedUrls == \A c \in Callers : Want[c] \subseteq Urls
BY DownloadManagerAssumption

(* submit_task: the new task is pending, and those that were there keep their *)
(* state.                                                                     *)
LEMMA SubmitAwaited ==
  ASSUME TypeOK, Orderly, Awaited, NEW c \in Callers, NEW u \in Urls, Submit(c, u)
  PROVE  Awaited'
<1>1. Submitted'
  <2>1. \A d \in Callers : d # c => caller'[d] = caller[d] /\ toSubmit'[d] = toSubmit[d]
    BY DEF Submit, Goto, TypeOK
  <2>2. /\ toSubmit'[c] = toSubmit[c] \ {u} /\ status'[u] # "none"
        /\ caller'[c] # "submit" => toSubmit'[c] = {}
        /\ \A v \in Urls : status[v] # "none" => status'[v] # "none"
    BY DEF Submit, Goto, TypeOK
  <2> QED BY <2>1, <2>2, WantedUrls DEF Awaited, Submitted
<1>2. Threaded'
  BY DEF Submit, Awaited, Threaded, TypeOK, Ends
<1>3. Shut'
  BY DEF Submit, Awaited, Shut, TypeOK, Channel
<1>4. Watched'
  <2> SUFFICES ASSUME NEW d \in Callers, caller'[d] = "wait", d \notin unseen',
                      NEW v \in Want[d], status'[v] = "pending"
               PROVE  Attended'
    BY DEF Watched
  <2>1. caller[d] = "wait" /\ d \notin unseen
    BY DEF Submit, Goto, TypeOK
  <2>2. v \in Urls /\ status[v] # "none"
    BY <2>1, WantedUrls DEF Awaited, Submitted
  <2>3. status[v] = "pending"
    BY <2>2 DEF Submit, TypeOK
  <2>4. Attended
    BY <2>1, <2>3 DEF Awaited, Watched
  <2>5. loop' = loop /\ \A e \in Callers : caller[e] \in {"store", "spawn"} => caller'[e] = caller[e]
    BY DEF Submit, Goto, TypeOK
  <2> QED BY <2>4, <2>5 DEF Attended
<1> QED BY <1>1, <1>2, <1>3, <1>4 DEF Awaited

(* start_processing and the end of a wait: a caller that goes to wait without *)
(* anybody attending is one of the unseen.                                    *)
LEMMA CallerAwaited ==
  ASSUME TypeOK, Orderly, Awaited, NEW c \in Callers,
         Load(c) \/ Store(c) \/ Spawn(c) \/ Closed(c) \/ ToldAll(c) \/ ToldAny(c)
  PROVE  Awaited'
<1>1. /\ UNCHANGED <<status, channels, thread, toSubmit, late>>
      /\ caller[c] # "submit" /\ unseen \subseteq unseen'
      /\ \E s \in {"store", "spawn", "wait", "done"} : caller' = [caller EXCEPT ![c] = s]
  BY DEF Load, Store, Spawn, Closed, ToldAll, ToldAny, Goto, tasks, history
<1>2. Submitted' /\ Threaded' /\ Shut'
  BY <1>1 DEF Awaited, Submitted, Threaded, Shut, TypeOK
<1>3. Watched'
  <2> SUFFICES ASSUME NEW d \in Callers, caller'[d] = "wait", d \notin unseen',
                      NEW v \in Want[d], status'[v] = "pending"
               PROVE  Attended'
    BY DEF Watched
  <2>1. d \notin unseen /\ status[v] = "pending"
    BY <1>1
  <2>2. d # c => Attended
    BY <1>1, <2>1 DEF Awaited, Watched, TypeOK
  <2>3. CASE Load(c)
    <3>1. d = c => Attended
      BY <2>3 DEF Load, Goto, TypeOK
    <3>2. loop' = loop /\ \A e \in Callers : caller[e] \in {"store", "spawn"} => caller'[e] = caller[e]
      BY <2>3 DEF Load, Goto, TypeOK
    <3> QED BY <2>2, <3>1, <3>2 DEF Attended
  <2>4. CASE Store(c)
    BY <2>4 DEF Store, Goto, Attended, TypeOK
  <2>5. CASE Spawn(c)
    BY <2>5 DEF Spawn, Attended, TypeOK
  <2>6. CASE Closed(c) \/ ToldAll(c) \/ ToldAny(c)
    <3>1. caller[c] = "wait" /\ caller' = [caller EXCEPT ![c] = "done"] /\ loop' = loop
      BY <2>6 DEF Closed, ToldAll, ToldAny, Goto
    <3>2. d # c
      BY <3>1 DEF TypeOK
    <3> QED BY <2>2, <3>1, <3>2 DEF Attended, TypeOK
  <2> QED BY <2>3, <2>4, <2>5, <2>6
<1> QED BY <1>2, <1>3 DEF Awaited

(* A loop stops looking only when it has seen no task pending.                *)
LEMMA LoopAwaited ==
  ASSUME TypeOK, Orderly, Awaited, NEW l \in Callers, LoopStep(l)
  PROVE  Awaited'
<1>1. UNCHANGED <<channels, caller, toSubmit, unseen, late>>
  BY DEF LoopStep, Clean, Look, LookNonePending, Stop, tasks, history
<1>2. CASE Look(l)
  <2>1. PICK us \in SUBSET Pending : Begin(us)
    BY <1>2 DEF Look
  <2>2. us \subseteq Urls /\ \A u \in us : status[u] = "pending"
    BY <2>1 DEF Pending
  <2>3. \A u \in Urls : /\ u \in us => status'[u] = "downloading" /\ thread'[u] = "running"
                        /\ u \notin us => status'[u] = status[u] /\ thread'[u] = thread[u]
    BY <2>1 DEF Begin
  <2>4. Submitted' /\ Threaded' /\ Shut'
    BY <1>1, <2>2, <2>3, WantedUrls DEF Awaited, Submitted, Threaded, Shut, Ends
  <2>5. Watched'
    BY <1>1, <1>2 DEF Look, Watched, Attended, TypeOK
  <2> QED BY <2>4, <2>5 DEF Awaited
<1>3. CASE Clean(l) \/ LookNonePending(l) \/ Stop(l)
  <2>1. UNCHANGED <<status, thread>>
    BY <1>3 DEF Clean, LookNonePending, Stop, tasks
  <2>2. Submitted' /\ Threaded' /\ Shut'
    BY <1>1, <2>1 DEF Awaited, Submitted, Threaded, Shut
  <2>3. Watched'
    <3> SUFFICES ASSUME NEW d \in Callers, caller'[d] = "wait", d \notin unseen',
                        NEW v \in Want[d], status'[v] = "pending"
                 PROVE  Attended'
      BY DEF Watched
    <3>1. Attended /\ v \in Pending
      BY <1>1, <2>1, WantedUrls DEF Awaited, Watched, Pending
    <3>2. CASE Clean(l)
      BY <1>1, <3>2 DEF Clean, Attended, TypeOK
    <3>3. CASE Stop(l)
      BY <1>1, <3>1, <3>3 DEF Stop, Attended, TypeOK
    <3> QED BY <1>3, <3>1, <3>2, <3>3 DEF LookNonePending
  <2> QED BY <2>2, <2>3 DEF Awaited
<1> QED BY <1>2, <1>3 DEF LoopStep

(* The thread of a task: its end is known before its channels are dropped.    *)
LEMMA TaskAwaited ==
  ASSUME TypeOK, Orderly, Awaited, NEW u \in Urls, TaskStep(u)
  PROVE  Awaited'
<1>1. UNCHANGED <<loop, caller, toSubmit, unseen, late>>
  BY DEF TaskStep, Finish, Close, history
<1>2. \A v \in Urls : /\ status[v] # "none" => status'[v] # "none"
                      /\ status'[v] = "pending" => status[v] = "pending"
  BY DEF TaskStep, Finish, Close, TypeOK, Ends
<1>3. Submitted' /\ Watched'
  BY <1>1, <1>2, WantedUrls DEF Awaited, Submitted, Watched, Attended
<1>4. Threaded' /\ Shut'
  <2>1. CASE Finish(u)
    BY <1>1, <2>1 DEF Finish, Awaited, Threaded, Shut, TypeOK, Ends
  <2>2. CASE Close(u)
    <3>1. status[u] # "downloading"
      BY <2>2 DEF Close, Awaited, Threaded
    <3> QED BY <1>1, <2>2, <3>1 DEF Close, Awaited, Threaded, Shut, TypeOK
  <2> QED BY <2>1, <2>2 DEF TaskStep
<1> QED BY <1>3, <1>4 DEF Awaited

(* Init and every action keep what the callers wait for.                      *)
LEMMA AwaitedInductive ==
  (Init => Awaited) /\ (TypeOK /\ Orderly /\ Awaited /\ [Next]_vars => Awaited')
<1>1. Init => Awaited
  BY WantedUrls DEF Init, Awaited, Submitted, Threaded, Shut, Watched, Ends
<1>2. ASSUME TypeOK, Orderly, Awaited, UNCHANGED vars PROVE Awaited'
  BY <1>2 DEF vars, Awaited, Submitted, Threaded, Shut, Watched, Attended
<1> QED BY <1>1, <1>2, SubmitAwaited, CallerAwaited, LoopAwaited, TaskAwaited
        DEF Next, CallerStep

(* A URL that was asked for and is not pending is under way or has ended.     *)
LEMMA AwaitedFindsNobody == TypeOK /\ Awaited => NobodyIsForgotten
<1> SUFFICES ASSUME TypeOK, Awaited, NEW c \in Callers,
                    caller[c] = "wait", c \notin unseen \cup late, ~Attended,
                    \A u \in Want[c] : thread[u] \notin {"running", "closing"}
             PROVE  Answered(c)
  BY DEF NobodyIsForgotten
<1>1. \A u \in Want[c] : u \in Urls /\ status[u] \in {"downloading"} \cup Ends
  <2> TAKE u \in Want[c]
  <2>1. u \in Urls /\ status[u] # "none"
    BY WantedUrls DEF Awaited, Submitted
  <2>2. status[u] # "pending"
    BY DEF Awaited, Watched
  <2> QED BY <2>1, <2>2 DEF TypeOK
<1>2. \A u \in Want[c] : status[u] \in Ends /\ thread[u] = "finished"
  BY <1>1 DEF Awaited, Threaded
<1>3. \A u \in Want[c] : c \notin channels[u]
  BY <1>1, <1>2 DEF Awaited, Shut
<1>4. Kind[c] \in {"stream", "all", "any"}
  BY DownloadManagerAssumption
<1> QED BY <1>2, <1>3, <1>4 DEF Answered, Ends

(* start_processing and the processing loops forget nobody but those that     *)
(* read is_processing after the last look, and those that gave their channel  *)
(* to a task that had dropped its own: whoever else waits can be answered, or *)
(* a thread downloads for it, or a loop or the spawner of one is on its way.  *)
THEOREM NobodyForgotten == Spec => []NobodyIsForgotten
BY TypeInductive, OrderlyInductive, AwaitedInductive, AwaitedFindsNobody, PTL DEF Spec

--------------------------------------------------------------------------------
(* What the manager has left to do: submissions, steps of callers, steps of   *)
(* the tasks' threads, and the loops that have not ended.  A loop's polling    *)
(* is not among it.                                                            *)
CallerSteps(c) == CASE caller[c] = "submit" -> 1..5
                    [] caller[c] = "load" -> 1..4
                    [] caller[c] = "store" -> 1..3
                    [] caller[c] = "spawn" -> 1..2
                    [] caller[c] = "wait" -> 1..1
                    [] OTHER -> {}
ThreadSteps(u) == CASE thread[u] = "none" -> 1..3
                    [] thread[u] = "running" -> 1..2
                    [] thread[u] = "closing" -> 1..1
                    [] OTHER -> {}
LoopSteps(l) == CASE loop[l] \in {"clean", "look"} -> 1..2
                  [] loop[l] = "stop" -> 1..1
                  [] OTHER -> {}

SubmissionsLeft == {x \in Callers \X Urls : x[2] \in toSubmit[x[1]]}
CallersLeft == {x \in Callers \X (1..5) : x[2] \in CallerSteps(x[1])}
TasksLeft == {x \in Urls \X (1..3) : x[2] \in ThreadSteps(x[1])}
LoopsLeft == {x \in Callers \X (1..2) : x[2] \in LoopSteps(x[1])}

ManagerFinite == /\ IsFiniteSet(SubmissionsLeft) /\ IsFiniteSet(CallersLeft)
                 /\ IsFiniteSet(TasksLeft) /\ IsFiniteSet(LoopsLeft)
Fewer(S, T) == S \subseteq T /\ S # T
WorkUsed ==
  \/ Fewer(SubmissionsLeft', SubmissionsLeft)
  \/ /\ SubmissionsLeft' = SubmissionsLeft
     /\ \/ Fewer(CallersLeft', CallersLeft)
        \/ /\ CallersLeft' = CallersLeft
           /\ \/ Fewer(TasksLeft', TasksLeft)
              \/ TasksLeft' = TasksLeft /\ Fewer(LoopsLeft', LoopsLeft)

(* A loop collects the handles of threads that have ended; or it sleeps and    *)
(* looks again, having started nothing, because a download is under way or     *)
(* there are handles to collect.                                               *)
Polls ==
  /\ \E l \in Callers :
       \/ /\ loop[l] = "clean" /\ loop'[l] = "look"
          /\ handles' = {u \in handles : thread[u] # "finished"}
       \/ /\ loop[l] = "look" /\ loop'[l] = "clean"
          /\ handles' = handles /\ (Going # {} \/ handles # {})
  /\ UNCHANGED <<status, channels, thread, processing, caller, toSubmit, result, history>>

(* A task that no loop has taken has no thread.                                *)
Fresh == \A u \in Urls : status[u] \in {"none", "pending"} => thread[u] = "none"

LEMMA FreshInductive == (Init => Fresh) /\ (TypeOK /\ Fresh /\ [Next]_vars => Fresh')
<1>1. Init => Fresh
  BY DEF Init, Fresh
<1>2. ASSUME TypeOK, Fresh, [Next]_vars PROVE Fresh'
  <2>1. ASSUME NEW c \in Callers, NEW u \in Urls, Submit(c, u) PROVE Fresh'
    BY <1>2, <2>1 DEF Submit, Fresh, TypeOK
  <2>2. ASSUME NEW l \in Callers, Look(l) PROVE Fresh'
    <3>1. PICK us \in SUBSET Pending : Begin(us)
      BY <2>2 DEF Look
    <3> QED BY <1>2, <3>1 DEF Begin, Fresh, TypeOK
  <2>3. ASSUME NEW c \in Callers,
               Load(c) \/ Store(c) \/ Spawn(c) \/ Closed(c) \/ ToldAll(c) \/ ToldAny(c)
                 \/ Clean(c) \/ LookNonePending(c) \/ Stop(c)
        PROVE  Fresh'
    BY <1>2, <2>3 DEF Load, Store, Spawn, Closed, ToldAll, ToldAny, Clean, LookNonePending, Stop,
                      tasks, Fresh
  <2>4. ASSUME NEW u \in Urls, TaskStep(u) PROVE Fresh'
    BY <1>2, <2>4 DEF TaskStep, Finish, Close, Fresh, Ends, TypeOK
  <2>5. CASE UNCHANGED vars
    BY <1>2, <2>5 DEF vars, Fresh
  <2> QED BY <1>2, <2>1, <2>2, <2>3, <2>4, <2>5 DEF Next, CallerStep, LoopStep
<1> QED BY <1>1, <1>2

(* A caller's step after its submissions.                                      *)
LEMMA CallerUses ==
  ASSUME TypeOK, NEW c \in Callers, toSubmit' = toSubmit,
         \A d \in Callers : d # c => caller'[d] = caller[d],
         \/ caller[c] = "load" /\ caller'[c] \in {"store", "wait"}
         \/ caller[c] = "store" /\ caller'[c] = "spawn"
         \/ caller[c] = "spawn" /\ caller'[c] = "wait"
         \/ caller[c] = "wait" /\ caller'[c] = "done"
  PROVE  WorkUsed
<1>1. /\ 1..5 = {1, 2, 3, 4, 5} /\ 1..4 = {1, 2, 3, 4} /\ 1..3 = {1, 2, 3} /\ 1..2 = {1, 2} /\ 1..1 = {1}
  OBVIOUS
<1>2. SubmissionsLeft' = SubmissionsLeft
  BY DEF SubmissionsLeft
<1>3. \A d \in Callers : d # c => CallerSteps(d)' = CallerSteps(d)
  BY DEF CallerSteps
<1>4. \E n \in 1..5 : /\ n \in CallerSteps(c) /\ n \notin CallerSteps(c)'
                      /\ CallerSteps(c)' \subseteq CallerSteps(c)
  <2>1. CASE caller[c] = "load"
    <3>1. CallerSteps(c) = {1, 2, 3, 4}
      BY <1>1, <2>1 DEF CallerSteps
    <3>2. CallerSteps(c)' = {1, 2, 3} \/ CallerSteps(c)' = {1}
      BY <1>1, <2>1 DEF CallerSteps
    <3> QED BY <1>1, <3>1, <3>2
  <2>2. CASE caller[c] = "store"
    <3>1. CallerSteps(c) = {1, 2, 3} /\ CallerSteps(c)' = {1, 2}
      BY <1>1, <2>2 DEF CallerSteps
    <3> QED BY <1>1, <3>1
  <2>3. CASE caller[c] = "spawn"
    <3>1. CallerSteps(c) = {1, 2} /\ CallerSteps(c)' = {1}
      BY <1>1, <2>3 DEF CallerSteps
    <3> QED BY <1>1, <3>1
  <2>4. CASE caller[c] = "wait"
    <3>1. CallerSteps(c) = {1} /\ CallerSteps(c)' = {}
      BY <1>1, <2>4 DEF CallerSteps
    <3> QED BY <1>1, <3>1
  <2> QED BY <2>1, <2>2, <2>3, <2>4
<1>5. PICK n \in 1..5 : /\ n \in CallerSteps(c) /\ n \notin CallerSteps(c)'
                        /\ CallerSteps(c)' \subseteq CallerSteps(c)
  BY <1>4
<1>6. Fewer(CallersLeft', CallersLeft)
  <2>1. CallersLeft' = {x \in Callers \X (1..5) : x[2] \in CallerSteps(x[1])'}
    BY DEF CallersLeft
  <2>2. \A x \in Callers \X (1..5) : x[1] \in Callers
    OBVIOUS
  <2>3. <<c, n>> \in CallersLeft /\ <<c, n>> \notin CallersLeft'
    BY <1>5, <2>1 DEF CallersLeft
  <2>4. CallersLeft' \subseteq CallersLeft
    <3> SUFFICES ASSUME NEW x \in Callers \X (1..5), x[2] \in CallerSteps(x[1])'
                 PROVE  x[2] \in CallerSteps(x[1])
      BY <2>1 DEF CallersLeft
    <3>1. CASE x[1] = c
      BY <1>5, <3>1
    <3>2. CASE x[1] # c
      BY <1>3, <2>2, <3>2
    <3> QED BY <3>1, <3>2
  <2> QED BY <2>3, <2>4 DEF Fewer
<1> QED BY <1>2, <1>6 DEF WorkUsed

(* A step of a task's thread, or its beginning.                                *)
LEMMA ThreadUses ==
  ASSUME UNCHANGED <<toSubmit, caller>>, NEW us \in SUBSET Urls, us # {},
         \A v \in Urls : v \notin us => thread'[v] = thread[v],
         \A u \in us : \/ thread[u] = "none" /\ thread'[u] = "running"
                       \/ thread[u] = "running" /\ thread'[u] = "closing"
                       \/ thread[u] = "closing" /\ thread'[u] = "finished"
  PROVE  WorkUsed
<1>1. 1..3 = {1, 2, 3} /\ 1..2 = {1, 2} /\ 1..1 = {1}
  OBVIOUS
<1>2. SubmissionsLeft' = SubmissionsLeft /\ CallersLeft' = CallersLeft
  BY DEF SubmissionsLeft, CallersLeft, CallerSteps
<1>3. \A v \in Urls : v \notin us => ThreadSteps(v)' = ThreadSteps(v)
  BY DEF ThreadSteps
<1>4. ASSUME NEW u \in us
      PROVE  \E n \in 1..3 : /\ n \in ThreadSteps(u) /\ n \notin ThreadSteps(u)'
                             /\ ThreadSteps(u)' \subseteq ThreadSteps(u)
  <2>1. CASE thread[u] = "none" /\ thread'[u] = "running"
    <3>1. ThreadSteps(u) = {1, 2, 3} /\ ThreadSteps(u)' = {1, 2}
      BY <1>1, <2>1 DEF ThreadSteps
    <3> QED BY <1>1, <3>1
  <2>2. CASE thread[u] = "running" /\ thread'[u] = "closing"
    <3>1. ThreadSteps(u) = {1, 2} /\ ThreadSteps(u)' = {1}
      BY <1>1, <2>2 DEF ThreadSteps
    <3> QED BY <1>1, <3>1
  <2>3. CASE thread[u] = "closing" /\ thread'[u] = "finished"
    <3>1. ThreadSteps(u) = {1} /\ ThreadSteps(u)' = {}
      BY <1>1, <2>3 DEF ThreadSteps
    <3> QED BY <1>1, <3>1
  <2> QED BY <2>1, <2>2, <2>3
<1>5. PICK u \in us : TRUE
  OBVIOUS
<1>6. PICK n \in 1..3 : n \in ThreadSteps(u) /\ n \notin ThreadSteps(u)'
  BY <1>4
<1>7. Fewer(TasksLeft', TasksLeft)
  <2>1. TasksLeft' = {x \in Urls \X (1..3) : x[2] \in ThreadSteps(x[1])'}
    BY DEF TasksLeft
  <2>2. <<u, n>> \in TasksLeft /\ <<u, n>> \notin TasksLeft'
    BY <1>6, <2>1 DEF TasksLeft
  <2>3. TasksLeft' \subseteq TasksLeft
    <3> SUFFICES ASSUME NEW x \in Urls \X (1..3), x[2] \in ThreadSteps(x[1])'
                 PROVE  x[2] \in ThreadSteps(x[1])
      BY <2>1 DEF TasksLeft
    <3>1. CASE x[1] \in us
      BY <1>4, <3>1
    <3>2. CASE x[1] \notin us
      BY <1>3, <3>2
    <3> QED BY <3>1, <3>2
  <2> QED BY <2>2, <2>3 DEF Fewer
<1> QED BY <1>2, <1>7 DEF WorkUsed

(* A loop that stops looking, or ends.                                         *)
LEMMA LoopUses ==
  ASSUME UNCHANGED <<toSubmit, caller, thread>>, NEW l \in Callers,
         \A d \in Callers : d # l => loop'[d] = loop[d],
         \/ loop[l] \in {"clean", "look"} /\ loop'[l] = "stop"
         \/ loop[l] = "stop" /\ loop'[l] = "ended"
  PROVE  WorkUsed
<1>1. 1..2 = {1, 2} /\ 1..1 = {1}
  OBVIOUS
<1>2. SubmissionsLeft' = SubmissionsLeft /\ CallersLeft' = CallersLeft /\ TasksLeft' = TasksLeft
  BY DEF SubmissionsLeft, CallersLeft, CallerSteps, TasksLeft, ThreadSteps
<1>3. \A d \in Callers : d # l => LoopSteps(d)' = LoopSteps(d)
  BY DEF LoopSteps
<1>4. \E n \in 1..2 : /\ n \in LoopSteps(l) /\ n \notin LoopSteps(l)'
                      /\ LoopSteps(l)' \subseteq LoopSteps(l)
  <2>1. CASE loop[l] = "stop"
    <3>1. LoopSteps(l) = {1} /\ LoopSteps(l)' = {}
      BY <1>1, <2>1 DEF LoopSteps
    <3> QED BY <1>1, <3>1
  <2>2. CASE loop[l] \in {"clean", "look"}
    <3>1. LoopSteps(l) = {1, 2} /\ LoopSteps(l)' = {1}
      BY <1>1, <2>2 DEF LoopSteps
    <3> QED BY <1>1, <3>1
  <2> QED BY <2>1, <2>2
<1>5. PICK n \in 1..2 : /\ n \in LoopSteps(l) /\ n \notin LoopSteps(l)'
                        /\ LoopSteps(l)' \subseteq LoopSteps(l)
  BY <1>4
<1>6. Fewer(LoopsLeft', LoopsLeft)
  <2>1. LoopsLeft' = {x \in Callers \X (1..2) : x[2] \in LoopSteps(x[1])'}
    BY DEF LoopsLeft
  <2>2. <<l, n>> \in LoopsLeft /\ <<l, n>> \notin LoopsLeft'
    BY <1>5, <2>1 DEF LoopsLeft
  <2>3. LoopsLeft' \subseteq LoopsLeft
    <3> SUFFICES ASSUME NEW x \in Callers \X (1..2), x[2] \in LoopSteps(x[1])'
                 PROVE  x[2] \in LoopSteps(x[1])
      BY <2>1 DEF LoopsLeft
    <3>1. CASE x[1] = l
      BY <1>5, <3>1
    <3>2. CASE x[1] # l
      BY <1>3, <3>2
    <3> QED BY <3>1, <3>2
  <2> QED BY <2>2, <2>3 DEF Fewer
<1> QED BY <1>2, <1>6 DEF WorkUsed

(* process_pending_master_tasks begins downloads, or polls.                    *)
LEMMA LookUses ==
  ASSUME TypeOK, Fresh, NEW l \in Callers, Look(l)
  PROVE  WorkUsed \/ Polls
<1>1. PICK us \in SUBSET Pending : Chosen(us) /\ Begin(us)
  BY DEF Look
<1>2. /\ loop[l] = "look" /\ loop' = [loop EXCEPT ![l] = "clean"]
      /\ UNCHANGED <<channels, processing, caller, toSubmit, result, history>>
  BY DEF Look
<1>3. CASE us = {}
  <2>1. UNCHANGED <<status, thread, handles>>
    BY <1>1, <1>3 DEF Begin, TypeOK
  <2>2. loop'[l] = "clean"
    BY <1>2 DEF TypeOK
  <2>3. Cardinality(handles) + Cardinality(us) >= NrParallel
    BY <1>1, <1>3 DEF Look, Chosen
  <2>4. Cardinality({}) = 0 /\ NrParallel \in Nat /\ NrParallel > 0
    BY FS_EmptySet, DownloadManagerAssumption
  <2>5. handles # {}
    BY <1>3, <2>3, <2>4
  <2> QED BY <1>2, <2>1, <2>2, <2>5 DEF Polls
<1>4. CASE us # {}
  <2>1. us \in SUBSET Urls /\ \A u \in us : thread[u] = "none"
    BY DEF Pending, Fresh
  <2>2. \A u \in Urls : thread'[u] = IF u \in us THEN "running" ELSE thread[u]
    BY <1>1 DEF Begin
  <2> QED BY <1>2, <1>4, <2>1, <2>2, ThreadUses
<1> QED BY <1>3, <1>4

LEMMA SubmitUses ==
  ASSUME TypeOK, NEW c \in Callers, NEW u \in Urls, Submit(c, u)
  PROVE  WorkUsed
<1>1. u \in toSubmit[c] /\ toSubmit' = [toSubmit EXCEPT ![c] = @ \ {u}]
  BY DEF Submit
<1>2. /\ \A d \in Callers : toSubmit'[d] \subseteq toSubmit[d]
      /\ u \notin toSubmit'[c]
  BY <1>1 DEF TypeOK
<1>3. <<c, u>> \in SubmissionsLeft /\ <<c, u>> \notin SubmissionsLeft'
  BY <1>1, <1>2 DEF SubmissionsLeft
<1>4. SubmissionsLeft' \subseteq SubmissionsLeft
  BY <1>2 DEF SubmissionsLeft
<1> QED BY <1>3, <1>4 DEF Fewer, WorkUsed

(* Whatever is submitted, by any number of callers and with any number of      *)
(* loops, the manager's work runs out: every step but a loop's polling uses up  *)
(* something finite, and a loop polls only while a download is under way or     *)
(* handles of ended ones are left (manager.rs, the main processing loop). With  *)
(* NobodyForgotten, callers get their answers, but for the unseen and the late.  *)
THEOREM WorkRunsOut ==
  ASSUME IsFiniteSet(Callers)
  PROVE  Spec => []ManagerFinite /\ [][WorkUsed \/ Polls]_vars
<1>1. ManagerFinite
  <2>1. \A n \in Nat : IsFiniteSet(1..n)
    BY FS_Interval
  <2>2. IsFiniteSet(Urls) /\ IsFiniteSet(1..5) /\ IsFiniteSet(1..3) /\ IsFiniteSet(1..2)
    BY <2>1, DownloadManagerAssumption
  <2>3. /\ IsFiniteSet(Callers \X Urls) /\ IsFiniteSet(Callers \X (1..5))
        /\ IsFiniteSet(Urls \X (1..3)) /\ IsFiniteSet(Callers \X (1..2))
    BY <2>2, FS_Product
  <2>4. /\ SubmissionsLeft \subseteq Callers \X Urls /\ CallersLeft \subseteq Callers \X (1..5)
        /\ TasksLeft \subseteq Urls \X (1..3) /\ LoopsLeft \subseteq Callers \X (1..2)
    BY DEF SubmissionsLeft, CallersLeft, TasksLeft, LoopsLeft
  <2> QED BY <2>3, <2>4, FS_Subset DEF ManagerFinite
<1>2. TypeOK /\ Fresh /\ Awaited /\ [Next]_vars => [WorkUsed \/ Polls]_vars
  <2> SUFFICES ASSUME TypeOK, Fresh, Awaited, Next PROVE WorkUsed \/ Polls
    OBVIOUS
  <2>1. ASSUME NEW c \in Callers, Load(c) \/ Store(c) \/ Spawn(c) \/ Closed(c) \/ ToldAll(c) \/ ToldAny(c)
        PROVE  WorkUsed
    <3>1. toSubmit' = toSubmit
      BY <2>1 DEF Load, Store, Spawn, Closed, ToldAll, ToldAny
    <3>2. \E to \in {"store", "spawn", "wait", "done"} :
            /\ caller' = [caller EXCEPT ![c] = to]
            /\ \/ caller[c] = "load" /\ to \in {"store", "wait"}
               \/ caller[c] = "store" /\ to = "spawn"
               \/ caller[c] = "spawn" /\ to = "wait"
               \/ caller[c] = "wait" /\ to = "done"
      BY <2>1 DEF Load, Store, Spawn, Closed, ToldAll, ToldAny, Goto
    <3>3. \A d \in Callers : d # c => caller'[d] = caller[d]
      BY <3>2 DEF TypeOK
    <3>4. \/ caller[c] = "load" /\ caller'[c] \in {"store", "wait"}
          \/ caller[c] = "store" /\ caller'[c] = "spawn"
          \/ caller[c] = "spawn" /\ caller'[c] = "wait"
          \/ caller[c] = "wait" /\ caller'[c] = "done"
      BY <3>2 DEF TypeOK
    <3> QED BY <3>1, <3>3, <3>4, CallerUses
  <2>2. ASSUME NEW l \in Callers, Clean(l) PROVE Polls
    <3>1. loop[l] = "clean" /\ loop'[l] = "look" /\ handles' = {u \in handles : thread[u] # "finished"}
      BY <2>2 DEF Clean, TypeOK
    <3> QED BY <2>2, <3>1 DEF Clean, Polls
  <2>3. ASSUME NEW l \in Callers, LookNonePending(l) PROVE WorkUsed \/ Polls
    <3>1. loop[l] = "look" /\ UNCHANGED <<tasks, processing, caller, toSubmit, result, history>>
      BY <2>3 DEF LookNonePending
    <3>2. (loop'[l] = "stop" \/ loop'[l] = "clean") /\ \A d \in Callers : d # l => loop'[d] = loop[d]
      BY <2>3 DEF LookNonePending, TypeOK
    <3>3. CASE loop'[l] = "clean"
      <4>1. \E u \in Urls : status[u] = "downloading"
        BY <2>3, <3>3 DEF LookNonePending, TypeOK
      <4>2. Going # {}
        BY <4>1 DEF Going, Awaited, Threaded
      <4> QED BY <3>1, <3>3, <4>2 DEF Polls, tasks
    <3>4. CASE loop'[l] = "stop"
      BY <3>1, <3>2, <3>4, LoopUses DEF tasks
    <3> QED BY <3>2, <3>3, <3>4
  <2>4. ASSUME NEW l \in Callers, Stop(l) PROVE WorkUsed
    <3>1. loop[l] = "stop" /\ UNCHANGED <<toSubmit, caller, thread>>
      BY <2>4 DEF Stop, tasks
    <3>2. loop'[l] = "ended" /\ \A d \in Callers : d # l => loop'[d] = loop[d]
      BY <2>4 DEF Stop, TypeOK
    <3> QED BY <3>1, <3>2, LoopUses
  <2>5. ASSUME NEW u \in Urls, TaskStep(u) PROVE WorkUsed
    <3>1. UNCHANGED <<toSubmit, caller>>
      BY <2>5 DEF TaskStep, Finish, Close
    <3>2. /\ \A v \in Urls : v # u => thread'[v] = thread[v]
          /\ \/ thread[u] = "running" /\ thread'[u] = "closing"
             \/ thread[u] = "closing" /\ thread'[u] = "finished"
      BY <2>5 DEF TaskStep, Finish, Close, TypeOK
    <3>3. {u} \in SUBSET Urls /\ {u} # {} /\ \A v : v \in {u} <=> v = u
      OBVIOUS
    <3> QED BY <3>1, <3>2, <3>3, ThreadUses
  <2> QED BY <2>1, <2>2, <2>3, <2>4, <2>5, SubmitUses, LookUses DEF Next, CallerStep, LoopStep
<1> QED BY <1>1, <1>2, TypeInductive, OrderlyInductive, AwaitedInductive, FreshInductive, PTL DEF Spec

--------------------------------------------------------------------------------
(* What a caller was told stays true: an end is never taken back, although     *)
(* the task stays in the map and can be submitted again.                       *)
ToldTruth ==
  \A c \in Callers :
    /\ result[c] = "ok" => \A u \in Want[c] : status[u] = "completed"
    /\ result[c] = "failed" => \E u \in Want[c] : status[u] = "failed"

(* Steps of the service keep what was told true.                               *)
LEMMA TruthStep ==
  TypeOK /\ ToldTruth /\ [Service!Next]_<<status, result>> => ToldTruth'
<1> SUFFICES ASSUME TypeOK, ToldTruth, Service!Next \/ UNCHANGED <<status, result>>
             PROVE  ToldTruth'
  OBVIOUS
<1>1. \A c \in Callers : Want[c] \subseteq Urls
  BY DownloadManagerAssumption
<1>2. CASE /\ UNCHANGED result
           /\ \A u \in Urls : status[u] \in Ends => status'[u] = status[u]
  BY <1>1, <1>2 DEF ToldTruth, Ends
<1>3. ASSUME NEW u \in Urls, Service!Ask(u) \/ Service!End(u)
      PROVE  /\ UNCHANGED result
             /\ \A v \in Urls : status[v] \in Ends => status'[v] = status[v]
  BY <1>3 DEF Service!Ask, Service!End, TypeOK, Ends
<1>4. ASSUME NEW us \in SUBSET Urls, Service!Fetch(us)
      PROVE  /\ UNCHANGED result
             /\ \A v \in Urls : status[v] \in Ends => status'[v] = status[v]
  BY <1>4 DEF Service!Fetch, TypeOK, Ends
<1>5. ASSUME NEW c \in Callers, Service!Tell(c) PROVE ToldTruth'
  BY <1>5 DEF Service!Tell, ToldTruth, TypeOK
<1>6. CASE UNCHANGED <<status, result>>
  BY <1>2, <1>6
<1> QED BY <1>2, <1>3, <1>4, <1>5, <1>6 DEF Service!Next

(* A caller that was told of success has all its files, for good.              *)
THEOREM TellsTheTruth == Spec => []ToldTruth
<1>1. Init => ToldTruth
  BY DEF Init, ToldTruth
<1> QED BY <1>1, TypeInductive, OrderlyInductive, ServiceStep, TruthStep, PTL DEF Spec
-----------------------------------------------------------------------------
(* ChunkedDownload: the threads of one download in chunks, for any number   *)
(* and length of chunks, any number of attempts and threads, and faults     *)
(* wherever they happen.                                                    *)

(* What is read belongs to a chunk, no file is longer than its chunk, and a *)
(* thread that writes to a file that has a name finds it.                   *)
Fitting == \A k \in DOMAIN files : Len(files[k]) =< Units
Backed == \A i \in Running : threads[i].pc = "write" /\ threads[i].live => Path(i) \in DOMAIN files
ChunksInv == ChunksTypeOK /\ (read # "none" => head \in Chunks) /\ Fitting /\ Backed

(* A thread that runs is no idle slot. *)
LEMMA RunningThread ==
  ASSUME ChunksTypeOK
  PROVE  /\ \A r \in Thread : r # Idle /\ r.task \in Tasks /\ r.task[1] \in Attempts
                              /\ r.task[2] \in Chunks /\ r.at \in 0..Units
         /\ \A i \in Running : i \in Slots /\ threads[i] \in Thread /\ Path(i) \in Chunks
<1>1. ASSUME NEW r \in Thread
      PROVE  /\ r # Idle /\ r.task \in Tasks /\ r.task[1] \in Attempts
             /\ r.task[2] \in Chunks /\ r.at \in 0..Units
  <2>1. r.task \in Tasks /\ r.at \in 0..Units
    BY <1>1 DEF Thread
  <2>2. PICK a \in Attempts, k \in Chunks : r.task = <<a, k>>
    BY <2>1 DEF Tasks
  <2>3. Len(<<a, k>>) = 2 /\ Len(<<>>) = 0
    OBVIOUS
  <2>4. r.task # <<>>
    BY <2>2, <2>3
  <2>5. r.task[1] \in Attempts /\ r.task[2] \in Chunks
    BY <2>2
  <2> QED BY <2>1, <2>4, <2>5 DEF Idle, None
<1>2. \A i \in Running : i \in Slots /\ threads[i] \in Thread
  BY DEF Running, ChunksTypeOK
<1> QED BY <1>1, <1>2 DEF Path

(* The end of a thread. *)
LEMMA Ending ==
  ASSUME ChunksTypeOK, NEW i \in Running, NEW s \in {"completed", "failed"}, End(i, s)
  PROVE  /\ threads' \in [Slots -> Thread \cup {Idle}]
         /\ Running' = Running \ {i}
         /\ \A j \in Slots : j # i => threads'[j] = threads[j]
         /\ taskStatus' = [taskStatus EXCEPT ![threads[i].task] = s]
         /\ taskStatus' \in [Tasks -> {"none", "pending", "downloading", "completed", "failed"}]
<1>1. i \in Slots /\ threads[i].task \in Tasks /\ threads \in [Slots -> Thread \cup {Idle}]
  BY RunningThread DEF ChunksTypeOK
<1> QED BY <1>1 DEF End, Running, ChunksTypeOK

(* A thread goes on. *)
LEMMA GoingOn ==
  ASSUME ChunksTypeOK, NEW i \in Running, NEW r \in Thread, threads' = [threads EXCEPT ![i] = r]
  PROVE  /\ threads' \in [Slots -> Thread \cup {Idle}]
         /\ Running' = Running
         /\ threads'[i] = r
         /\ \A j \in Slots : j # i => threads'[j] = threads[j]
<1>1. i \in Slots /\ r # Idle /\ threads \in [Slots -> Thread \cup {Idle}]
  BY RunningThread DEF ChunksTypeOK
<1> QED BY <1>1 DEF Running

(* The slot of a new thread was free: Slots has a least free one. *)
LEMMA Spawning ==
  ASSUME ChunksTypeOK, NEW t \in Tasks, SpawnChunk(t)
  PROVE  \E i \in Slots \ Running :
           /\ threads' = [threads EXCEPT ![i] = [task |-> t, pc |-> "measure", at |-> 0, live |-> TRUE]]
           /\ threads' \in [Slots -> Thread \cup {Idle}]
           /\ Running' = Running \cup {i}
           /\ threads'[i].task = t /\ threads'[i].pc = "measure"
           /\ \A j \in Slots : j # i => threads'[j] = threads[j]
<1> DEFINE i == CHOOSE j \in Free : \A l \in Free : j <= l
           r == [task |-> t, pc |-> "measure", at |-> 0, live |-> TRUE]
<1>1. Free \subseteq Nat /\ Free # {} /\ Free \subseteq Slots
  BY ChunkedDownloadAssumption DEF SpawnChunk, Free
<1>2. \E j \in Free : \A l \in Free : j <= l
  <2>1. PICK j \in Free : \A l \in Free : ~(<<l, j>> \in OpToRel(<, Nat))
    BY <1>1, NatLessThanWellFounded, WFMin
  <2>2. \A l \in Free : ~(l < j)
    BY <1>1, <2>1 DEF OpToRel
  <2> QED BY <1>1, <2>2
<1>3. i \in Free
  BY <1>2
<1>4. i \in Slots \ Running
  BY <1>1, <1>3 DEF Free, Running
<1>5. r \in Thread
  BY ChunkedDownloadAssumption DEF Thread
<1>6. threads' = [threads EXCEPT ![i] = r]
  BY DEF SpawnChunk
<1>7. threads \in [Slots -> Thread \cup {Idle}]
  BY DEF ChunksTypeOK
<1>8. r # Idle
  BY <1>5, RunningThread
<1> HIDE DEF i
<1>9. /\ threads' \in [Slots -> Thread \cup {Idle}]
      /\ threads'[i] = r
      /\ \A j \in Slots : j # i => threads'[j] = threads[j]
  BY <1>4, <1>5, <1>6, <1>7
<1>10. Running' = Running \cup {i}
  BY <1>4, <1>8, <1>9 DEF Running
<1> QED BY <1>4, <1>6, <1>9, <1>10

(* A file is written, and the others stay. *)
LEMMA Setting ==
  ASSUME ChunksTypeOK, NEW k \in Chunks, NEW f \in Seq(BOOLEAN), SetFile(k, f)
  PROVE  /\ DOMAIN files' = DOMAIN files \cup {k}
         /\ files'[k] = f
         /\ \A l \in DOMAIN files : l # k => files'[l] = files[l]
         /\ DOMAIN files' \subseteq Chunks
         /\ \A l \in DOMAIN files' : files'[l] \in Seq(BOOLEAN)
BY DEF SetFile, ChunksTypeOK

(* What a write at a place makes of a file: it does not get shorter, ends   *)
(* at least after the place, and has no hole unless it ended before it.     *)
LEMMA Writing ==
  ASSUME NEW f \in Seq(BOOLEAN), NEW n \in Nat
  PROVE  /\ Written(f, n) \in Seq(BOOLEAN)
         /\ Len(Written(f, n)) = IF Len(f) > n THEN Len(f) ELSE n + 1
         /\ n =< Len(f) /\ (\A m \in DOMAIN f : f[m]) => \A m \in DOMAIN Written(f, n) : Written(f, n)[m]
<1>0. Len(f) \in Nat /\ DOMAIN f = 1..Len(f)
  OBVIOUS
<1>1. CASE Len(f) > n
  <2>1. Written(f, n) = [f EXCEPT ![n + 1] = TRUE]
    BY <1>1 DEF Written
  <2>2. n + 1 \in DOMAIN f
    BY <1>0, <1>1
  <2>3. Written(f, n) \in Seq(BOOLEAN) /\ Len(Written(f, n)) = Len(f) /\ DOMAIN Written(f, n) = DOMAIN f
    BY <2>1, <2>2
  <2>4. \A m \in DOMAIN f : Written(f, n)[m] = IF m = n + 1 THEN TRUE ELSE f[m]
    BY <2>1
  <2> QED BY <1>1, <2>3, <2>4
<1>2. CASE ~(Len(f) > n)
  <2> DEFINE z == [j \in 1..(n - Len(f)) |-> FALSE]
  <2>1. n - Len(f) \in Nat
    BY <1>0, <1>2
  <2>2. z \in Seq(BOOLEAN) /\ Len(z) = n - Len(f)
    BY <2>1
  <2> HIDE DEF z
  <2> DEFINE g == f \o z
  <2>3. g \in Seq(BOOLEAN) /\ Len(g) = n
    BY <1>0, <2>1, <2>2
  <2>4. Written(f, n) = Append(g, TRUE)
    BY <1>2 DEF Written, Padded, z
  <2>g. \A m \in 1..Len(f) : g[m] = f[m]
    BY <2>2
  <2> HIDE DEF g
  <2>5. /\ Written(f, n) \in Seq(BOOLEAN) /\ Len(Written(f, n)) = n + 1
        /\ DOMAIN Written(f, n) = 1..(n + 1)
        /\ Written(f, n)[n + 1] = TRUE /\ \A m \in 1..n : Written(f, n)[m] = g[m]
    <3>1. Append(g, TRUE) \in Seq(BOOLEAN) /\ Len(Append(g, TRUE)) = n + 1
      BY <2>3
    <3>2. DOMAIN Append(g, TRUE) = 1..(n + 1)
      BY <2>3
    <3>3. Append(g, TRUE)[n + 1] = TRUE
      BY <2>3
    <3>4. \A m \in 1..n : Append(g, TRUE)[m] = g[m]
      <4>1. \A q \in Seq(BOOLEAN) : \A v \in BOOLEAN : \A m \in 1..Len(q) : Append(q, v)[m] = q[m]
        BY AppendProperties
      <4>2. \A m \in 1..Len(g) : Append(g, TRUE)[m] = g[m]
        BY <2>3, <4>1, Zenon
      <4> QED BY <2>3, <4>2, Zenon
    <3> QED BY <2>4, <3>1, <3>2, <3>3, <3>4
  <2>7. n =< Len(f) => n = Len(f)
    <3>1. \A a, b \in Nat : ~(a > b) /\ b =< a => b = a
      OBVIOUS
    <3> QED BY <1>0, <1>2, <3>1
  <2>6. ASSUME n =< Len(f), \A m \in DOMAIN f : f[m], NEW m \in DOMAIN Written(f, n)
        PROVE  Written(f, n)[m]
    <3>1. n = Len(f) /\ m \in 1..(n + 1)
      <4>1. n =< Len(f) /\ m \in DOMAIN Written(f, n)
        BY <2>6
      <4> QED BY <2>5, <2>7, <4>1
    <3>2. CASE m = n + 1
      BY <2>5, <3>2
    <3>3. CASE m # n + 1
      <4>1. m \in 1..n /\ m \in 1..Len(f)
        BY <3>1, <3>3
      <4> QED BY <1>0, <2>5, <2>6, <2>g, <4>1
    <3> QED BY <3>2, <3>3
  <2> QED BY <1>2, <2>5, <2>6
<1> QED BY <1>1, <1>2

LEMMA InitChunks ==
  ChunksInit => ChunksInv /\ Running = {} /\ \A k \in DOMAIN files : \A m \in DOMAIN files[k] : files[k][m]
<1> SUFFICES ASSUME ChunksInit
             PROVE  ChunksInv /\ Running = {} /\ \A k \in DOMAIN files : \A m \in DOMAIN files[k] : files[k][m]
  OBVIOUS
<1>1. /\ DOMAIN files \subseteq Chunks
      /\ \A k \in DOMAIN files : files[k] \in Leftovers
  <2>1. PICK ks \in SUBSET MayBeLeft : files \in [ks -> Leftovers]
    BY DEF ChunksInit
  <2> QED BY <2>1, ChunkedDownloadAssumption DEF Chunks
<1>2. \A f \in Leftovers : f \in Seq(BOOLEAN) /\ Len(f) =< Units /\ \A m \in DOMAIN f : f[m]
  <2> SUFFICES ASSUME NEW n \in 1..Units, NEW f, f = [j \in 1..n |-> TRUE]
               PROVE  f \in Seq(BOOLEAN) /\ Len(f) =< Units /\ \A m \in DOMAIN f : f[m]
    BY DEF Leftovers
  <2>1. n \in Nat /\ n =< Units
    BY ChunkedDownloadAssumption
  <2>2. f \in [1..n -> BOOLEAN]
    OBVIOUS
  <2>3. f \in Seq(BOOLEAN)
    BY <2>1, <2>2
  <2>4. Len(f) = n
    BY <2>1
  <2>5. \A m \in DOMAIN f : f[m]
    OBVIOUS
  <2> QED BY <2>1, <2>3, <2>4, <2>5
<1>3. Running = {}
  BY DEF ChunksInit, Running
<1>4. /\ 1 \in Attempts /\ 1 \in 1..(NrChunks + 1) /\ 0 \in 0..MaxRetries /\ 0 \in 0..MaxFaults
      /\ None \in Tasks \cup {None} /\ part \in Seq(BOOLEAN)
  BY ChunkedDownloadAssumption DEF Attempts, ChunksInit
<1>5. taskStatus \in [Tasks -> {"none", "pending", "downloading", "completed", "failed"}]
  BY DEF ChunksInit
<1>6. tries \in [Chunks -> 0..MaxRetries] /\ threads \in [Slots -> Thread \cup {Idle}]
  BY <1>4 DEF ChunksInit
<1>7. ChunksTypeOK
  BY <1>1, <1>2, <1>4, <1>5, <1>6 DEF ChunksInit, ChunksTypeOK
<1>8. Fitting
  BY <1>1, <1>2 DEF Fitting
<1>9. Backed
  BY <1>3 DEF Backed
<1> QED BY <1>1, <1>2, <1>3, <1>7, <1>8, <1>9 DEF ChunksInv, ChunksInit

(* Files as the invariant has them, that no thread misses. *)
FilesGoOn == /\ DOMAIN files \subseteq DOMAIN files' /\ DOMAIN files' \subseteq Chunks
             /\ \A k \in DOMAIN files' : files'[k] \in Seq(BOOLEAN) /\ Len(files'[k]) =< Units

LEMMA FilesStay ==
  ASSUME ChunksInv, files' = files
  PROVE  FilesGoOn
BY DEF FilesGoOn, ChunksInv, ChunksTypeOK, Fitting

(* The invariant when one thread ends. *)
LEMMA EndingKeeps ==
  ASSUME ChunksInv, NEW i \in Running, NEW s \in {"completed", "failed"}, End(i, s),
         faults' \in 0..MaxFaults, FilesGoOn,
         UNCHANGED <<master, attempt, part, tries, head, read, anyFail, manager, marks>>
  PROVE  ChunksInv'
<1>0. ChunksTypeOK
  BY DEF ChunksInv
<1>1. /\ threads' \in [Slots -> Thread \cup {Idle}] /\ Running' = Running \ {i}
      /\ \A j \in Slots : j # i => threads'[j] = threads[j]
      /\ taskStatus' \in [Tasks -> {"none", "pending", "downloading", "completed", "failed"}]
  BY <1>0, Ending
<1>2. ChunksTypeOK'
  BY <1>0, <1>1 DEF ChunksTypeOK, manager, marks, FilesGoOn
<1>3. Fitting'
  BY DEF Fitting, FilesGoOn
<1>4. Backed'
  <2>1. \A j \in Running' : j \in Running /\ threads'[j] = threads[j]
    BY <1>1 DEF Running
  <2> QED BY <2>1 DEF Backed, Path, ChunksInv, FilesGoOn
<1> QED BY <1>2, <1>3, <1>4 DEF ChunksInv

(* The invariant when one thread goes on. *)
LEMMA GoingOnKeeps ==
  ASSUME ChunksInv, NEW i \in Running, NEW r \in Thread, threads' = [threads EXCEPT ![i] = r],
         r.task = threads[i].task,
         r.pc = "write" /\ r.live => Path(i) \in DOMAIN files',
         FilesGoOn, holed' \in BOOLEAN,
         UNCHANGED <<master, attempt, part, sched, manager, faults, overwritten>>
  PROVE  ChunksInv'
<1>0. ChunksTypeOK
  BY DEF ChunksInv
<1>1. /\ threads' \in [Slots -> Thread \cup {Idle}] /\ Running' = Running
      /\ threads'[i] = r /\ \A j \in Slots : j # i => threads'[j] = threads[j]
  BY <1>0, GoingOn
<1>2. ChunksTypeOK'
  BY <1>0, <1>1 DEF ChunksTypeOK, sched, manager, FilesGoOn
<1>3. Fitting'
  BY DEF Fitting, FilesGoOn
<1>4. Backed'
  BY <1>1 DEF Backed, Path, ChunksInv, Running, FilesGoOn
<1> QED BY <1>2, <1>3, <1>4 DEF ChunksInv, sched

(* A thread's next place is one of a chunk. *)
LEMMA NextRecord ==
  ASSUME ChunksTypeOK, NEW i \in Running, threads[i].at < Units
  PROVE  /\ [threads[i] EXCEPT !.at = @ + 1] \in Thread
         /\ threads[i].at \in Nat
<1>1. threads[i] \in Thread /\ threads[i].at \in 0..Units
  BY RunningThread
<1>2. threads[i].at + 1 \in 0..Units
  BY <1>1, ChunkedDownloadAssumption
<1> QED BY <1>1, <1>2 DEF Thread

(* Write, when the thread's file has a name: no file gets shorter, and none *)
(* gets longer than a chunk.                                                *)
LEMMA WriteFiles ==
  ASSUME ChunksInv, NEW i \in Running, threads[i].pc = "write", threads[i].at < Units, threads[i].live,
         SetFile(Path(i), Written(files[Path(i)], threads[i].at))
  PROVE  /\ Path(i) \in DOMAIN files /\ files[Path(i)] \in Seq(BOOLEAN)
         /\ DOMAIN files' = DOMAIN files /\ DOMAIN files' \subseteq Chunks
         /\ files'[Path(i)] = Written(files[Path(i)], threads[i].at)
         /\ Len(files'[Path(i)]) >= Len(files[Path(i)]) /\ Len(files'[Path(i)]) > threads[i].at
         /\ \A l \in DOMAIN files : l # Path(i) => files'[l] = files[l]
         /\ \A l \in DOMAIN files' : files'[l] \in Seq(BOOLEAN) /\ Len(files'[l]) =< Units
<1> DEFINE k == Path(i)
           n == threads[i].at
           f == Written(files[k], n)
<1>0. ChunksTypeOK /\ Fitting
  BY DEF ChunksInv
<1>1. k \in DOMAIN files /\ k \in Chunks
  BY <1>0, RunningThread DEF ChunksInv, Backed
<1>2. n \in Nat
  BY <1>0, NextRecord
<1>3. files[k] \in Seq(BOOLEAN) /\ Len(files[k]) =< Units /\ Len(files[k]) \in Nat
  BY <1>0, <1>1 DEF ChunksTypeOK, Fitting
<1>4. f \in Seq(BOOLEAN) /\ Len(f) = IF Len(files[k]) > n THEN Len(files[k]) ELSE n + 1
  BY <1>2, <1>3, Writing
<1>5. Len(f) =< Units /\ Len(f) >= Len(files[k]) /\ Len(f) > n
  BY <1>2, <1>3, <1>4, ChunkedDownloadAssumption
<1>6. SetFile(k, f)
  OBVIOUS
<1> HIDE DEF f, k
<1>7. /\ DOMAIN files' = DOMAIN files \cup {k}
      /\ files'[k] = f
      /\ \A l \in DOMAIN files : l # k => files'[l] = files[l]
      /\ DOMAIN files' \subseteq Chunks
      /\ \A l \in DOMAIN files' : files'[l] \in Seq(BOOLEAN)
  BY <1>0, <1>1, <1>4, <1>6, Setting
<1>8. \A l \in DOMAIN files' : Len(files'[l]) =< Units
  BY <1>0, <1>5, <1>7 DEF Fitting
<1>9. DOMAIN files' = DOMAIN files
  BY <1>1, <1>7
<1> QED BY <1>1, <1>3, <1>5, <1>7, <1>8, <1>9 DEF f, k

LEMMA MeasureChunks ==
  ASSUME ChunksInv, NEW i \in Slots, Measure(i)
  PROVE  ChunksInv'
<1>0. ChunksTypeOK /\ i \in Running
  BY DEF ChunksInv, Measure
<1>1. CASE LenOf(Path(i)) = Units
  <2>1. End(i, "completed")
    BY <1>1 DEF Measure
  <2>2. faults' \in 0..MaxFaults
    BY <1>0 DEF Measure, ChunksTypeOK
  <2>3. FilesGoOn
    BY FilesStay DEF Measure, disk
  <2> QED BY <1>0, <2>1, <2>2, <2>3, EndingKeeps DEF Measure, disk
<1>2. CASE LenOf(Path(i)) # Units
  <2> DEFINE r == [threads[i] EXCEPT !.at = LenOf(Path(i)), !.pc = "open"]
  <2>1. LenOf(Path(i)) \in 0..Units
    BY <1>0, ChunkedDownloadAssumption DEF LenOf, ChunksInv, Fitting, ChunksTypeOK
  <2>2. threads[i] \in Thread
    BY <1>0, RunningThread
  <2>3. r \in Thread /\ r.task = threads[i].task /\ r.pc = "open"
    BY <2>1, <2>2 DEF Thread
  <2>4. threads' = [threads EXCEPT ![i] = r] /\ taskStatus' = taskStatus
    BY <1>0, <1>2, <2>2 DEF Measure, Thread, ChunksTypeOK
  <2>5. UNCHANGED <<master, attempt, part, sched, manager, faults, overwritten>> /\ files' = files /\ holed' = holed
    BY <2>4 DEF Measure, disk, sched, marks
  <2>6. FilesGoOn
    BY <2>5, FilesStay
  <2>7. holed' \in BOOLEAN
    BY <1>0, <2>5 DEF ChunksTypeOK
  <2> HIDE DEF r
  <2> QED BY <1>0, <2>3, <2>4, <2>5, <2>6, <2>7, GoingOnKeeps
<1> QED BY <1>1, <1>2

(* Open makes a file that is gone, and changes none that is there. *)
LEMMA OpenFiles ==
  ASSUME ChunksInv, NEW i \in Slots, Open(i)
  PROVE  /\ i \in Running /\ Path(i) \in DOMAIN files' /\ DOMAIN files' = DOMAIN files \cup {Path(i)}
         /\ DOMAIN files' \subseteq Chunks
         /\ \A l \in DOMAIN files : files'[l] = files[l]
         /\ Path(i) \notin DOMAIN files => files'[Path(i)] = <<>>
         /\ \A l \in DOMAIN files' : files'[l] \in Seq(BOOLEAN) /\ Len(files'[l]) =< Units
         /\ [threads[i] EXCEPT !.pc = "write", !.live = TRUE] \in Thread
         /\ threads' = [threads EXCEPT ![i] = [threads[i] EXCEPT !.pc = "write", !.live = TRUE]]
<1>0. ChunksTypeOK /\ Fitting /\ i \in Running
  BY DEF ChunksInv, Open
<1>1. threads[i] \in Thread /\ Path(i) \in Chunks
  BY <1>0, RunningThread
<1>2. threads' = [threads EXCEPT ![i] = [threads[i] EXCEPT !.pc = "write", !.live = TRUE]]
  BY <1>0, <1>1 DEF Open, Thread, ChunksTypeOK
<1>3. [threads[i] EXCEPT !.pc = "write", !.live = TRUE] \in Thread
  BY <1>1 DEF Thread
<1>4. CASE Path(i) \in DOMAIN files
  <2>1. files' = files
    BY <1>4 DEF Open
  <2> QED BY <1>0, <1>2, <1>3, <1>4, <2>1 DEF ChunksTypeOK, Fitting
<1>5. CASE Path(i) \notin DOMAIN files
  <2>1. SetFile(Path(i), <<>>) /\ <<>> \in Seq(BOOLEAN) /\ Len(<<>>) = 0 /\ 0 =< Units
    BY <1>5, ChunkedDownloadAssumption DEF Open
  <2>2. /\ DOMAIN files' = DOMAIN files \cup {Path(i)}
        /\ files'[Path(i)] = <<>>
        /\ \A l \in DOMAIN files : l # Path(i) => files'[l] = files[l]
        /\ DOMAIN files' \subseteq Chunks
        /\ \A l \in DOMAIN files' : files'[l] \in Seq(BOOLEAN)
    BY <1>0, <1>1, <2>1, Setting
  <2>3. \A l \in DOMAIN files' : Len(files'[l]) =< Units
    BY <1>0, <2>1, <2>2 DEF Fitting
  <2> QED BY <1>0, <1>2, <1>3, <1>5, <2>2, <2>3
<1> QED BY <1>4, <1>5

LEMMA OpenChunks ==
  ASSUME ChunksInv, NEW i \in Slots, Open(i)
  PROVE  ChunksInv'
<1> DEFINE r == [threads[i] EXCEPT !.pc = "write", !.live = TRUE]
<1>1. /\ i \in Running /\ Path(i) \in DOMAIN files' /\ DOMAIN files' = DOMAIN files \cup {Path(i)}
      /\ DOMAIN files' \subseteq Chunks
      /\ \A l \in DOMAIN files' : files'[l] \in Seq(BOOLEAN) /\ Len(files'[l]) =< Units
      /\ r \in Thread /\ threads' = [threads EXCEPT ![i] = r]
  BY OpenFiles
<1>2. threads[i] \in Thread
  BY <1>1, RunningThread DEF ChunksInv
<1>3. r.task = threads[i].task
  BY <1>2 DEF Thread
<1>4. holed' \in BOOLEAN /\ UNCHANGED <<master, attempt, part, sched, manager, faults, overwritten>>
  BY DEF Open
<1>5. FilesGoOn
  BY <1>1 DEF FilesGoOn
<1> HIDE DEF r
<1> QED BY <1>1, <1>3, <1>4, <1>5, GoingOnKeeps

LEMMA WriteChunks ==
  ASSUME ChunksInv, NEW i \in Slots, Write(i)
  PROVE  ChunksInv'
<1> DEFINE r == [threads[i] EXCEPT !.at = @ + 1]
<1>0. /\ ChunksTypeOK /\ i \in Running /\ threads[i].pc = "write" /\ threads[i].at < Units
      /\ UNCHANGED <<master, attempt, part, tries, head, read, anyFail, manager, faults, marks>>
  BY DEF ChunksInv, Write
<1>1. r \in Thread /\ threads[i] \in Thread
  BY <1>0, NextRecord, RunningThread
<1>2. r.task = threads[i].task /\ r.live = threads[i].live
  BY <1>1 DEF Thread
<1>3. threads' = [threads EXCEPT ![i].at = @ + 1] => threads' = [threads EXCEPT ![i] = r]
  BY <1>0, <1>1 DEF Thread, ChunksTypeOK
<1>4. holed' \in BOOLEAN /\ overwritten' = overwritten /\ faults' \in 0..MaxFaults
  BY <1>0 DEF marks, ChunksTypeOK
<1>5. CASE threads[i].live
  <2>1. SetFile(Path(i), Written(files[Path(i)], threads[i].at))
    BY <1>5 DEF Write
  <2>2. FilesGoOn /\ Path(i) \in DOMAIN files'
    BY <1>0, <1>5, <2>1, WriteFiles DEF FilesGoOn
  <2>3. CASE Len(Written(files[Path(i)], threads[i].at)) = threads[i].at + 1
    <3>1. threads' = [threads EXCEPT ![i] = r] /\ taskStatus' = taskStatus
      BY <1>3, <1>5, <2>3 DEF Write
    <3> HIDE DEF r
    <3>2. UNCHANGED <<master, attempt, part, sched, manager, faults, overwritten>>
      BY <1>0, <1>4, <3>1 DEF sched
    <3> QED BY <1>0, <1>1, <1>2, <1>4, <2>2, <3>1, <3>2, GoingOnKeeps
  <2>4. CASE Len(Written(files[Path(i)], threads[i].at)) # threads[i].at + 1
    <3>1. End(i, "failed")
      BY <1>5, <2>4 DEF Write
    <3> QED BY <1>0, <1>4, <2>2, <3>1, EndingKeeps
  <2> QED BY <2>3, <2>4
<1>6. CASE ~threads[i].live
  <2>1. threads' = [threads EXCEPT ![i] = r] /\ taskStatus' = taskStatus /\ files' = files
    BY <1>3, <1>6 DEF Write
  <2>2. UNCHANGED <<master, attempt, part, sched, manager, faults, overwritten>>
    BY <1>0, <1>4, <2>1 DEF sched
  <2>3. FilesGoOn
    BY <2>1, FilesStay
  <2> HIDE DEF r
  <2> QED BY <1>0, <1>1, <1>2, <1>4, <1>6, <2>1, <2>2, <2>3, GoingOnKeeps
<1> QED BY <1>5, <1>6

LEMMA EndChunks ==
  ASSUME ChunksInv, NEW i \in Slots, FinishChunk(i) \/ Break(i)
  PROVE  ChunksInv'
<1>0. ChunksTypeOK /\ i \in Running /\ files' = files
  BY DEF ChunksInv, FinishChunk, Break, disk
<1>1. FilesGoOn
  BY <1>0, FilesStay
<1>2. UNCHANGED <<master, attempt, part, tries, head, read, anyFail, manager, marks>>
  BY DEF FinishChunk, Break, disk
<1>3. faults' \in 0..MaxFaults
  BY <1>0, ChunkedDownloadAssumption DEF FinishChunk, Break, Fault, ChunksTypeOK
<1>4. End(i, "completed") \/ End(i, "failed")
  BY DEF FinishChunk, Break
<1> QED BY <1>0, <1>1, <1>2, <1>3, <1>4, EndingKeeps

(* The invariant when a thread starts. *)
LEMMA SpawningKeeps ==
  ASSUME ChunksInv, NEW t \in Tasks, SpawnChunk(t), taskStatus' = [taskStatus EXCEPT ![t] = "downloading"],
         held' = held, checked' \in Tasks \cup {None}, read' \in {read, "none"},
         UNCHANGED <<master, attempt, disk, tries, head, anyFail, faults, marks>>
  PROVE  ChunksInv'
<1>0. ChunksTypeOK
  BY DEF ChunksInv
<1>1. PICK i \in Slots \ Running :
        /\ threads' \in [Slots -> Thread \cup {Idle}]
        /\ Running' = Running \cup {i}
        /\ threads'[i].pc = "measure"
        /\ \A j \in Slots : j # i => threads'[j] = threads[j]
  BY <1>0, Spawning
<1>2. taskStatus' \in [Tasks -> {"none", "pending", "downloading", "completed", "failed"}]
  BY <1>0 DEF ChunksTypeOK
<1>3. ChunksTypeOK'
  BY <1>0, <1>1, <1>2 DEF ChunksTypeOK, disk, marks
<1>4. Fitting'
  BY DEF ChunksInv, Fitting, disk
<1>5. Backed'
  <2>0. Running \subseteq Slots
    BY DEF Running
  <2>1. \A j \in Running' : j = i \/ (j \in Running /\ threads'[j] = threads[j])
    <3>1. \A j \in Running' : j = i \/ j \in Running
      BY <1>1
    <3> QED BY <1>1, <2>0, <3>1, Zenon
  <2> QED BY <1>1, <2>1 DEF ChunksInv, Backed, Path, disk
<1> QED BY <1>3, <1>4, <1>5 DEF ChunksInv

LEMMA ManagerChunks ==
  ASSUME ChunksInv, Collect \/ (\E t \in Tasks : Check(t)) \/ Start
  PROVE  ChunksInv'
<1>0. ChunksTypeOK
  BY DEF ChunksInv
<1>1. CASE Collect
  <2>1. ChunksTypeOK'
    BY <1>0, <1>1 DEF Collect, ChunksTypeOK, disk, sched, marks
  <2> QED BY <1>1, <2>1 DEF Collect, ChunksInv, Fitting, Backed, Running, Path, disk, sched
<1>2. ASSUME NEW t \in Tasks, Check(t) PROVE ChunksInv'
  <2>1. ChunksTypeOK'
    BY <1>0, <1>2 DEF Check, ChunksTypeOK, disk, sched, marks
  <2> QED BY <1>2, <2>1 DEF Check, ChunksInv, Fitting, Backed, Running, Path, disk, sched
<1>3. CASE Start
  <2>1. checked \in Tasks /\ checked' = None
    BY <1>0, <1>3 DEF Start, ChunksTypeOK
  <2>2. CASE taskStatus[checked] = "downloading"
    <3>1. ChunksTypeOK'
      BY <1>0, <1>3, <2>2 DEF Start, ChunksTypeOK, disk, marks
    <3> QED BY <1>3, <2>2, <3>1 DEF Start, ChunksInv, Fitting, Backed, Running, Path, disk
  <2>3. CASE taskStatus[checked] # "downloading"
    <3>1. SpawnChunk(checked) /\ taskStatus' = [taskStatus EXCEPT ![checked] = "downloading"]
      BY <1>3, <2>3 DEF Start
    <3>2. held' = held /\ read' = read /\ UNCHANGED <<master, attempt, disk, tries, head, anyFail, faults, marks>>
      BY <1>3 DEF Start
    <3> QED BY <2>1, <3>1, <3>2, SpawningKeeps
  <2> QED BY <2>2, <2>3
<1> QED BY <1>1, <1>2, <1>3

(* Threads whose files may have lost their names. *)
LEMMA Unlinking ==
  ASSUME ChunksTypeOK, NEW S, threads' = [i \in Slots |-> IF i \in Running /\ i \in S
                                                         THEN [threads[i] EXCEPT !.live = FALSE]
                                                         ELSE threads[i]]
  PROVE  /\ threads' \in [Slots -> Thread \cup {Idle}]
         /\ Running' = Running
         /\ \A i \in Running : /\ i \in Slots
                               /\ threads'[i].task = threads[i].task /\ threads'[i].pc = threads[i].pc
                               /\ threads'[i].at = threads[i].at
                               /\ threads'[i].live => threads[i].live /\ i \notin S
<1>1. \A i \in Slots : i \notin Running => threads'[i] = threads[i] /\ threads[i] = Idle
  BY DEF Running
<1>2. ASSUME NEW i \in Running
      PROVE  /\ threads'[i] \in Thread /\ i \in Slots
             /\ threads'[i].task = threads[i].task /\ threads'[i].pc = threads[i].pc
             /\ threads'[i].at = threads[i].at
             /\ threads'[i].live => threads[i].live /\ i \notin S
  <2>1. i \in Slots /\ threads[i] \in Thread
    BY RunningThread
  <2>2. threads'[i] = IF i \in S THEN [threads[i] EXCEPT !.live = FALSE] ELSE threads[i]
    BY <2>1, <1>2
  <2> QED BY <2>1, <2>2 DEF Thread
<1>3. threads' \in [Slots -> Thread \cup {Idle}]
  <2>1. DOMAIN threads' = Slots /\ threads' = [i \in Slots |-> threads'[i]]
    OBVIOUS
  <2>2. \A i \in Slots : threads'[i] \in Thread \cup {Idle}
    BY <1>1, <1>2
  <2> QED BY <2>1, <2>2
<1>4. \A i \in Slots : threads'[i] # Idle <=> i \in Running
  BY <1>1, <1>2, RunningThread
<1>5. Running' = {i \in Slots : threads'[i] # Idle} /\ Running \subseteq Slots
  BY DEF Running
<1>6. Running' = Running
  BY <1>4, <1>5
<1> QED BY <1>2, <1>3, <1>6

(* Another attempt: its tasks are pending, and the files stay or go. *)
LEMMA Retrying ==
  ASSUME ChunksTypeOK, NEW keep \in BOOLEAN, Retry(keep), attempt =< MaxRetries
  PROVE  /\ master' = "own" /\ attempt' = attempt + 1 /\ attempt' \in Attempts
         /\ taskStatus' \in [Tasks -> {"none", "pending", "downloading", "completed", "failed"}]
         /\ \A t \in Tasks : taskStatus'[t] = IF t[1] = attempt + 1 THEN "pending" ELSE taskStatus[t]
         /\ tries' \in [Chunks -> 0..MaxRetries] /\ head' = 1 /\ read' = "none" /\ anyFail' = FALSE
         /\ held' = held /\ checked' = checked
         /\ threads' \in [Slots -> Thread \cup {Idle}] /\ Running' = Running
         /\ \A i \in Running : /\ i \in Slots
                               /\ threads'[i].task = threads[i].task /\ threads'[i].pc = threads[i].pc
                               /\ threads'[i].at = threads[i].at
                               /\ threads'[i].live => threads[i].live /\ keep
         /\ keep => part' = part /\ files' = files
         /\ ~keep => part' = <<>> /\ DOMAIN files' = {}
<1>1. attempt \in 1..(MaxRetries + 1) /\ ~(attempt > MaxRetries)
  BY ChunkedDownloadAssumption DEF ChunksTypeOK, Attempts
<1>2. attempt + 1 \in Attempts
  BY <1>1, ChunkedDownloadAssumption DEF Attempts
<1>3. /\ master' = "own" /\ attempt' = attempt + 1
      /\ taskStatus' = [t \in Tasks |-> IF t[1] = attempt + 1 THEN "pending" ELSE taskStatus[t]]
      /\ tries' = [k \in Chunks |-> 0]
      /\ head' = 1 /\ read' = "none" /\ anyFail' = FALSE
      /\ held' = held /\ checked' = checked
  BY <1>1 DEF Retry, manager
<1>4. /\ taskStatus' \in [Tasks -> {"none", "pending", "downloading", "completed", "failed"}]
      /\ tries' \in [Chunks -> 0..MaxRetries]
  BY <1>3, ChunkedDownloadAssumption DEF ChunksTypeOK
<1>5. CASE keep
  <2>1. part' = part /\ files' = files /\ threads' = threads
    BY <1>1, <1>5 DEF Retry, disk
  <2>2. threads' \in [Slots -> Thread \cup {Idle}] /\ Running' = Running
    BY <2>1 DEF ChunksTypeOK, Running
  <2>3. Running \subseteq Slots
    BY DEF Running
  <2> HIDE DEF Retry
  <2> QED BY <1>2, <1>3, <1>4, <1>5, <2>1, <2>2, <2>3
<1>6. CASE ~keep
  <2>1. /\ part' = <<>> /\ files' = [k \in {} |-> <<>>]
        /\ threads' = [i \in Slots |-> IF i \in Running THEN [threads[i] EXCEPT !.live = FALSE] ELSE Idle]
    BY <1>1, <1>6 DEF Retry
  <2>2. \A i \in Slots : i \notin Running => threads[i] = Idle
    BY DEF Running
  <2>3. threads' = [i \in Slots |-> IF i \in Running /\ i \in Slots
                                   THEN [threads[i] EXCEPT !.live = FALSE] ELSE threads[i]]
    BY <2>1, <2>2
  <2>4. /\ threads' \in [Slots -> Thread \cup {Idle}] /\ Running' = Running
        /\ \A i \in Running : /\ i \in Slots
                              /\ threads'[i].task = threads[i].task /\ threads'[i].pc = threads[i].pc
                              /\ threads'[i].at = threads[i].at
                              /\ threads'[i].live => threads[i].live /\ i \notin Slots
    BY <2>3, Unlinking
  <2>5. DOMAIN files' = {}
    BY <2>1
  <2> QED BY <1>2, <1>3, <1>4, <1>6, <2>1, <2>4, <2>5
<1> QED BY <1>5, <1>6

LEMMA RetryChunks ==
  ASSUME ChunksInv, NEW keep \in BOOLEAN, Retry(keep), faults' \in 0..MaxFaults, UNCHANGED marks
  PROVE  ChunksInv'
<1>0. ChunksTypeOK
  BY DEF ChunksInv
<1>1. CASE attempt > MaxRetries
  <2>1. master' = "failed" /\ UNCHANGED <<attempt, disk, sched, threads, manager>>
    BY <1>1 DEF Retry
  <2>2. ChunksTypeOK'
    BY <1>0, <2>1 DEF ChunksTypeOK, disk, sched, manager, marks
  <2> QED BY <2>1, <2>2 DEF ChunksInv, Fitting, Backed, Running, Path, disk, sched
<1>2. CASE ~(attempt > MaxRetries)
  <2>0. attempt =< MaxRetries
    BY <1>0, <1>2, ChunkedDownloadAssumption DEF ChunksTypeOK, Attempts
  <2>1. /\ master' = "own" /\ attempt' = attempt + 1 /\ attempt' \in Attempts
        /\ taskStatus' \in [Tasks -> {"none", "pending", "downloading", "completed", "failed"}]
        /\ \A t \in Tasks : taskStatus'[t] = IF t[1] = attempt + 1 THEN "pending" ELSE taskStatus[t]
        /\ tries' \in [Chunks -> 0..MaxRetries] /\ head' = 1 /\ read' = "none" /\ anyFail' = FALSE
        /\ held' = held /\ checked' = checked
        /\ threads' \in [Slots -> Thread \cup {Idle}] /\ Running' = Running
        /\ \A i \in Running : /\ i \in Slots
                              /\ threads'[i].task = threads[i].task /\ threads'[i].pc = threads[i].pc
                              /\ threads'[i].at = threads[i].at
                              /\ threads'[i].live => threads[i].live /\ keep
        /\ keep => part' = part /\ files' = files
        /\ ~keep => part' = <<>> /\ DOMAIN files' = {}
    BY <1>0, <2>0, Retrying
  <2>2. head' \in 1..(NrChunks + 1)
    BY <2>1, ChunkedDownloadAssumption
  <2>3. part' \in Seq(BOOLEAN) /\ DOMAIN files' \subseteq Chunks /\ \A k \in DOMAIN files' : files'[k] \in Seq(BOOLEAN)
    <3>1. CASE keep
      BY <1>0, <2>1, <3>1 DEF ChunksTypeOK
    <3>2. CASE ~keep
      <4>1. part' = <<>> /\ DOMAIN files' = {}
        BY <2>1, <3>2
      <4> QED BY <4>1
    <3> QED BY <3>1, <3>2
  <2>4. ChunksTypeOK'
    BY <1>0, <2>1, <2>2, <2>3 DEF ChunksTypeOK, marks
  <2>5. Fitting'
    BY <2>1 DEF ChunksInv, Fitting
  <2>6. Backed'
    <3> SUFFICES ASSUME NEW i \in Running, threads'[i].pc = "write", threads'[i].live
                 PROVE  Path(i)' \in DOMAIN files'
      BY <2>1 DEF Backed
    <3>1. keep /\ threads[i].live
      BY <2>1, Zenon
    <3>2. threads[i].pc = "write" /\ Path(i)' = Path(i)
      BY <2>1 DEF Path
    <3>3. files' = files
      BY <2>1, <3>1
    <3> QED BY <3>1, <3>2, <3>3 DEF ChunksInv, Backed
  <2> QED BY <2>1, <2>4, <2>5, <2>6 DEF ChunksInv
<1> QED BY <1>1, <1>2

(* A chunk's file is merged and removed. *)
LEMMA Removing ==
  ASSUME ChunksTypeOK, NEW k, Remove(k)
  PROVE  /\ threads' \in [Slots -> Thread \cup {Idle}]
         /\ Running' = Running
         /\ \A i \in Running : /\ i \in Slots
                               /\ threads'[i].task = threads[i].task /\ threads'[i].pc = threads[i].pc
                               /\ threads'[i].at = threads[i].at
                               /\ threads'[i].live => threads[i].live /\ Path(i) # k
         /\ DOMAIN files' = DOMAIN files \ {k}
         /\ \A l \in DOMAIN files' : files'[l] = files[l]
<1> DEFINE S == {i \in Slots : Path(i) = k}
<1>1. threads' = [i \in Slots |-> IF i \in Running /\ i \in S THEN [threads[i] EXCEPT !.live = FALSE]
                                  ELSE threads[i]]
  BY DEF Remove
<1> HIDE DEF S
<1>2. /\ threads' \in [Slots -> Thread \cup {Idle}]
      /\ Running' = Running
      /\ \A i \in Running : /\ i \in Slots
                            /\ threads'[i].task = threads[i].task /\ threads'[i].pc = threads[i].pc
                            /\ threads'[i].at = threads[i].at
                            /\ threads'[i].live => threads[i].live /\ i \notin S
  BY <1>1, Unlinking
<1>3. \A i \in Slots : i \notin S => Path(i) # k
  BY DEF S
<1>4. DOMAIN files' = DOMAIN files \ {k} /\ \A l \in DOMAIN files' : files'[l] = files[l]
  BY DEF Remove
<1> QED BY <1>2, <1>3, <1>4

(* The steps that end an attempt. *)
LEMMA EndingAttempt ==
  ASSUME ChunksTypeOK, MergeFails \/ GiveUp \/ OwnFails
  PROVE  /\ \E keep \in BOOLEAN : Retry(keep)
         /\ faults' \in 0..MaxFaults /\ holed' = holed /\ overwritten' = overwritten
<1>0. faults \in 0..MaxFaults /\ (Fault => faults' \in 0..MaxFaults)
  BY ChunkedDownloadAssumption DEF ChunksTypeOK, Fault
<1>1. CASE MergeFails
  <2>1. CASE LenOf(head) = Units
    <3>1. Fault /\ Retry(FALSE) /\ UNCHANGED marks
      BY <1>1, <2>1 DEF MergeFails
    <3> QED BY <1>0, <3>1 DEF marks
  <2>2. CASE LenOf(head) # Units
    <3>1. faults' = faults /\ Retry(head \in DOMAIN files) /\ UNCHANGED marks
      BY <1>1, <2>2 DEF MergeFails
    <3>2. (head \in DOMAIN files) \in BOOLEAN
      OBVIOUS
    <3>3. \E keep \in BOOLEAN : Retry(keep)
      BY <3>1, <3>2, Zenon
    <3> QED BY <1>0, <3>1, <3>3 DEF marks
  <2> QED BY <2>1, <2>2
<1>2. CASE GiveUp
  BY <1>0, <1>2 DEF GiveUp, marks
<1>3. CASE OwnFails
  <2>1. Fault /\ (\E keep \in BOOLEAN : Retry(keep)) /\ UNCHANGED marks
    BY <1>3 DEF OwnFails
  <2> QED BY <1>0, <2>1 DEF marks
<1> QED BY <1>1, <1>2, <1>3

LEMMA MasterChunks ==
  ASSUME ChunksInv, MasterStep \/ OwnFails
  PROVE  ChunksInv'
<1>0. /\ ChunksTypeOK /\ head \in 1..(NrChunks + 1) /\ head \in Nat /\ (head \in Chunks => <<attempt, head>> \in Tasks)
      /\ (head \in Chunks => head + 1 \in 1..(NrChunks + 1))
  BY ChunkedDownloadAssumption DEF ChunksInv, ChunksTypeOK, Chunks, Tasks
<1>1. CASE OwnDone
  <2>1. <<TRUE>> \in Seq(BOOLEAN)
    OBVIOUS
  <2>2. ChunksTypeOK'
    BY <1>0, <1>1, <2>1 DEF OwnDone, ChunksTypeOK, sched, manager, marks
  <2> QED BY <1>1, <2>2 DEF OwnDone, ChunksInv, Fitting, Backed, Running, Path, sched
<1>2. CASE Read
  <2>1. read' \in {"none", "pending", "completed", "failed"} /\ head \in Chunks
    BY <1>0, <1>2 DEF Read, ChunksTypeOK
  <2>2. ChunksTypeOK'
    BY <1>0, <1>2, <2>1 DEF Read, ChunksTypeOK, disk, manager, marks
  <2> QED BY <1>2, <2>1, <2>2 DEF Read, ChunksInv, Fitting, Backed, Running, Path, disk
<1>3. CASE OnPending
  <2>0. head \in Chunks /\ <<attempt, head>> \in Tasks
    BY <1>0, <1>3 DEF OnPending, ChunksInv
  <2>1. CASE taskStatus[<<attempt, head>>] = "downloading"
    <3>1. /\ anyFail' = TRUE /\ head' = head + 1 /\ read' = "none"
          /\ UNCHANGED <<master, attempt, disk, taskStatus, tries, manager, threads, faults, marks>>
      BY <1>3, <2>1 DEF OnPending, Pass, marks
    <3>2. ChunksTypeOK'
      BY <1>0, <2>0, <3>1 DEF ChunksTypeOK, disk, manager, marks
    <3> QED BY <3>1, <3>2 DEF ChunksInv, Fitting, Backed, Running, Path, disk
  <2>2. CASE taskStatus[<<attempt, head>>] # "downloading"
    <3>1. /\ taskStatus' = [taskStatus EXCEPT ![<<attempt, head>>] = "downloading"]
          /\ SpawnChunk(<<attempt, head>>)
          /\ read' = "none"
          /\ UNCHANGED <<master, attempt, disk, tries, head, anyFail, faults, marks>>
      BY <1>3, <2>2 DEF OnPending, marks
    <3>2. held' = held /\ checked' \in Tasks \cup {None} /\ read' \in {read, "none"}
      BY <1>0, <1>3, <3>1 DEF OnPending, manager, ChunksTypeOK
    <3> QED BY <2>0, <3>1, <3>2, SpawningKeeps
  <2> QED BY <2>1, <2>2
<1>4. CASE OnFailed
  <2>0. head \in Chunks /\ <<attempt, head>> \in Tasks
    BY <1>0, <1>4 DEF OnFailed, ChunksInv
  <2>1. UNCHANGED <<master, attempt, disk, manager, threads, faults, holed>> /\ read' = "none"
    BY <1>4 DEF OnFailed, Pass
  <2>2. CASE tries[head] < MaxRetries
    <3>1. /\ tries' = [tries EXCEPT ![head] = @ + 1]
          /\ taskStatus' = [taskStatus EXCEPT ![<<attempt, head>>] = "pending"]
          /\ overwritten' \in BOOLEAN /\ head' = head /\ anyFail' = anyFail
      BY <1>4, <2>2 DEF OnFailed
    <3>2. tries' \in [Chunks -> 0..MaxRetries]
      <4>1. tries[head] \in 0..MaxRetries /\ tries[head] + 1 \in 0..MaxRetries
        BY <1>0, <2>0, <2>2, ChunkedDownloadAssumption DEF ChunksTypeOK
      <4> QED BY <1>0, <2>0, <3>1, <4>1 DEF ChunksTypeOK
    <3>3. taskStatus' \in [Tasks -> {"none", "pending", "downloading", "completed", "failed"}]
      BY <1>0, <2>0, <3>1 DEF ChunksTypeOK
    <3>4. ChunksTypeOK'
      BY <1>0, <2>1, <3>1, <3>2, <3>3 DEF ChunksTypeOK, disk, manager
    <3> QED BY <2>1, <3>1, <3>4 DEF ChunksInv, Fitting, Backed, Running, Path, disk
  <2>3. CASE ~(tries[head] < MaxRetries)
    <3>1. anyFail' = TRUE /\ head' = head + 1 /\ UNCHANGED <<tries, taskStatus, overwritten>>
      BY <1>4, <2>3 DEF OnFailed, Pass
    <3>2. ChunksTypeOK'
      BY <1>0, <2>0, <2>1, <3>1 DEF ChunksTypeOK, disk, manager
    <3> QED BY <2>1, <3>1, <3>2 DEF ChunksInv, Fitting, Backed, Running, Path, disk
  <2> QED BY <2>2, <2>3
<1>5. CASE OnCompleted
  <2>0. head \in Chunks /\ head' = head + 1 /\ read' = "none"
    BY <1>5 DEF OnCompleted, ChunksInv, Pass
  <2>1. ChunksTypeOK'
    BY <1>0, <1>5, <2>0 DEF OnCompleted, ChunksTypeOK, disk, manager, marks
  <2> QED BY <1>5, <2>0, <2>1 DEF OnCompleted, ChunksInv, Fitting, Backed, Running, Path, disk
<1>6. CASE Merge
  <2>0. /\ head \in Chunks /\ head' = head + 1 /\ read' = "none" /\ head \in DOMAIN files /\ Remove(head)
        /\ part' = part \o files[head]
        /\ UNCHANGED <<master, attempt, taskStatus, tries, anyFail, manager, faults, marks>>
    BY <1>6, ChunkedDownloadAssumption DEF Merge, ChunksInv, Pass, LenOf
  <2>1. /\ threads' \in [Slots -> Thread \cup {Idle}]
        /\ Running' = Running
        /\ \A i \in Running : /\ i \in Slots
                              /\ threads'[i].task = threads[i].task /\ threads'[i].pc = threads[i].pc
                              /\ threads'[i].at = threads[i].at
                              /\ threads'[i].live => threads[i].live /\ Path(i) # head
        /\ DOMAIN files' = DOMAIN files \ {head}
        /\ \A l \in DOMAIN files' : files'[l] = files[l]
    BY <1>0, <2>0, Removing
  <2>2. part' \in Seq(BOOLEAN)
    <3>1. part \in Seq(BOOLEAN) /\ files[head] \in Seq(BOOLEAN)
      BY <1>0, <2>0 DEF ChunksTypeOK
    <3> QED BY <2>0, <3>1, ConcatProperties
  <2>3. DOMAIN files' \subseteq Chunks /\ \A l \in DOMAIN files' : files'[l] \in Seq(BOOLEAN)
    BY <1>0, <2>1 DEF ChunksTypeOK
  <2>4. ChunksTypeOK'
    BY <1>0, <2>0, <2>1, <2>2, <2>3 DEF ChunksTypeOK, manager, marks
  <2>5. Fitting'
    BY <2>1 DEF ChunksInv, Fitting
  <2>6. Backed'
    BY <2>1 DEF ChunksInv, Backed, Path
  <2> QED BY <2>0, <2>4, <2>5, <2>6 DEF ChunksInv
<1>7. CASE MergeFails \/ GiveUp \/ OwnFails
  <2>1. PICK keep \in BOOLEAN : Retry(keep)
    BY <1>0, <1>7, EndingAttempt
  <2>2. faults' \in 0..MaxFaults /\ UNCHANGED marks
    BY <1>0, <1>7, EndingAttempt DEF marks
  <2> QED BY <2>1, <2>2, RetryChunks
<1>8. CASE Finalize
  <2>1. ChunksTypeOK'
    BY <1>0, <1>8 DEF Finalize, ChunksTypeOK, disk, sched, manager, marks
  <2> QED BY <1>8, <2>1 DEF Finalize, ChunksInv, Fitting, Backed, Running, Path, disk, sched
<1> QED BY <1>1, <1>2, <1>3, <1>4, <1>5, <1>6, <1>7, <1>8 DEF MasterStep

(* Every step keeps the invariant. *)
LEMMA NextChunks ==
  ChunksInv /\ [ChunksNext]_chunksVars => ChunksInv'
<1> SUFFICES ASSUME ChunksInv, [ChunksNext]_chunksVars PROVE ChunksInv'
  OBVIOUS
<1>1. CASE MasterStep \/ OwnFails
  BY <1>1, MasterChunks
<1>2. CASE Collect \/ (\E t \in Tasks : Check(t)) \/ Start
  BY <1>2, ManagerChunks
<1>3. CASE \E i \in Slots : ThreadStep(i) \/ Break(i)
  BY <1>3, MeasureChunks, OpenChunks, WriteChunks, EndChunks DEF ThreadStep
<1>4. CASE UNCHANGED chunksVars
  BY <1>4 DEF chunksVars, disk, sched, manager, marks, ChunksInv, ChunksTypeOK, Fitting, Backed, Running, Path
<1> QED BY <1>1, <1>2, <1>3, <1>4 DEF ChunksNext, Others

(* The types of the threads of a download: no file is longer than a chunk,  *)
(* and no thread writes to a file that has lost its name as if it had one.  *)
THEOREM ChunksInductive == ChunksSpec => []ChunksInv
<1>1. ChunksInit => ChunksInv
  BY InitChunks
<1> QED BY <1>1, NextChunks, PTL DEF ChunksSpec

-----------------------------------------------------------------------------
(* CompletedIsThere, whatever the master does: what is completed and not    *)
(* yet merged has its whole file.                                           *)
ThereInv ==
  \A k \in Chunks : k >= head /\ taskStatus[<<attempt, k>>] = "completed" => LenOf(k) = Units

(* It lasts if whole files stay whole and only whole chunks get completed.  *)
LEMMA ThereKept ==
  ASSUME ThereInv, attempt' = attempt, head \in Nat, head' \in Nat, head' >= head,
         \A k \in Chunks : k >= head' /\ LenOf(k) = Units => LenOf(k)' = Units,
         \A k \in Chunks : taskStatus'[<<attempt, k>>] = "completed"
                             => taskStatus[<<attempt, k>>] = "completed" \/ LenOf(k)' = Units
  PROVE  ThereInv'
<1> SUFFICES ASSUME NEW k \in Chunks, k >= head', taskStatus'[<<attempt, k>>] = "completed"
             PROVE  LenOf(k)' = Units
  BY DEF ThereInv
<1>1. CASE LenOf(k)' = Units
  BY <1>1
<1>2. CASE taskStatus[<<attempt, k>>] = "completed"
  <2>1. k >= head
    BY ChunkedDownloadAssumption DEF Chunks
  <2> QED BY <1>2, <2>1 DEF ThereInv
<1> QED BY <1>1, <1>2

(* The end of a thread completes its own task. *)
LEMMA EndingOne ==
  ASSUME ChunksTypeOK, NEW i \in Running, NEW s \in {"completed", "failed"}, End(i, s),
         NEW k \in Chunks, taskStatus'[<<attempt, k>>] = "completed"
  PROVE  taskStatus[<<attempt, k>>] = "completed" \/ (s = "completed" /\ Path(i) = k)
<1>1. taskStatus' = [taskStatus EXCEPT ![threads[i].task] = s]
  BY Ending
<1>2. <<attempt, k>> \in Tasks
  BY DEF ChunksTypeOK, Tasks
<1>3. CASE <<attempt, k>> = threads[i].task
  <2>1. Path(i) = k
    BY <1>3 DEF Path
  <2>2. taskStatus'[<<attempt, k>>] = s
    BY <1>1, <1>2, <1>3 DEF ChunksTypeOK
  <2> QED BY <2>1, <2>2
<1>4. CASE <<attempt, k>> # threads[i].task
  BY <1>1, <1>2, <1>4 DEF ChunksTypeOK
<1> QED BY <1>3, <1>4

(* One task changes to what is not completed, or none. *)
LEMMA NoneCompleted ==
  ASSUME ChunksTypeOK, NEW t, NEW s, s # "completed",
         taskStatus' = taskStatus \/ taskStatus' = [taskStatus EXCEPT ![t] = s],
         NEW k \in Chunks, taskStatus'[<<attempt, k>>] = "completed"
  PROVE  taskStatus[<<attempt, k>>] = "completed"
<1>1. <<attempt, k>> \in Tasks
  BY DEF ChunksTypeOK, Tasks
<1> QED BY <1>1 DEF ChunksTypeOK

LEMMA ThreadsThere ==
  ASSUME ChunksInv, ThereInv, NEW i \in Slots, ThreadStep(i) \/ Break(i)
  PROVE  ThereInv'
<1>0. /\ ChunksTypeOK /\ i \in Running /\ attempt' = attempt /\ head' = head /\ head \in Nat
      /\ \A k \in Chunks : <<attempt, k>> \in Tasks
  BY ChunkedDownloadAssumption
     DEF ChunksInv, ChunksTypeOK, Tasks, ThreadStep, Measure, Open, Write, FinishChunk, Break, sched
<1>1. \A k \in Chunks : LenOf(k) = Units => LenOf(k)' = Units
  <2>1. CASE files' = files
    BY <2>1 DEF LenOf
  <2>2. CASE Open(i)
    <3>1. DOMAIN files \subseteq DOMAIN files' /\ \A l \in DOMAIN files : files'[l] = files[l]
      BY <2>2, OpenFiles
    <3>2. Units # 0
      BY ChunkedDownloadAssumption
    <3> QED BY <3>1, <3>2 DEF LenOf
  <2>3. CASE Write(i) /\ threads[i].live
    <3>0. SetFile(Path(i), Written(files[Path(i)], threads[i].at)) /\ threads[i].pc = "write" /\ threads[i].at < Units
      BY <2>3 DEF Write
    <3>1. /\ Path(i) \in DOMAIN files /\ files[Path(i)] \in Seq(BOOLEAN)
          /\ DOMAIN files' = DOMAIN files
          /\ Len(files'[Path(i)]) >= Len(files[Path(i)])
          /\ \A l \in DOMAIN files : l # Path(i) => files'[l] = files[l]
          /\ \A l \in DOMAIN files' : files'[l] \in Seq(BOOLEAN) /\ Len(files'[l]) =< Units
      BY <1>0, <2>3, <3>0, WriteFiles
    <3>2. Len(files'[Path(i)]) \in Nat /\ Units \in Nat \ {0}
      BY <3>1, ChunkedDownloadAssumption
    <3>3. Len(files[Path(i)]) = Units => Len(files'[Path(i)]) = Units
      BY <3>1, <3>2
    <3> QED BY <3>1, <3>2, <3>3 DEF LenOf
  <2> QED BY <2>1, <2>2, <2>3 DEF ThreadStep, Measure, Write, FinishChunk, Break, disk
<1>2. ASSUME NEW k \in Chunks, taskStatus'[<<attempt, k>>] = "completed"
      PROVE  taskStatus[<<attempt, k>>] = "completed" \/ LenOf(k)' = Units
  <2>0. k \in Chunks /\ taskStatus'[<<attempt, k>>] = "completed"
    BY <1>2
  <2>1. CASE taskStatus' = taskStatus
    BY <2>0, <2>1
  <2>2. CASE End(i, "failed")
    BY <1>0, <2>0, <2>2, EndingOne
  <2>3. CASE End(i, "completed") /\ LenOf(Path(i)) = Units
    BY <1>0, <1>1, <2>0, <2>3, EndingOne
  <2> QED BY <2>1, <2>2, <2>3 DEF ThreadStep, Measure, Open, Write, FinishChunk, Break, sched
<1> QED BY <1>0, <1>1, <1>2, ThereKept

LEMMA NextThere ==
  ChunksInv /\ ThereInv /\ [ChunksNext]_chunksVars => ThereInv'
<1> SUFFICES ASSUME ChunksInv, ThereInv, [ChunksNext]_chunksVars PROVE ThereInv'
  OBVIOUS
<1>0. ChunksTypeOK /\ head \in Nat /\ head + 1 \in Nat /\ head + 1 >= head /\ head >= head
  BY ChunkedDownloadAssumption DEF ChunksInv, ChunksTypeOK
<1>1. CASE \E i \in Slots : ThreadStep(i) \/ Break(i)
  BY <1>1, ThreadsThere
<1>2. CASE OwnDone \/ Read \/ OnPending \/ OnFailed \/ OnCompleted \/ Finalize \/ Collect
           \/ (\E t \in Tasks : Check(t)) \/ Start
  <2>1. files' = files /\ attempt' = attempt /\ head' \in {head, head + 1}
    BY <1>2 DEF OwnDone, Read, OnPending, OnFailed, OnCompleted, Finalize, Collect, Check, Start, Pass, sched, disk
  <2>2. \/ taskStatus' = taskStatus
        \/ \E t : taskStatus' = [taskStatus EXCEPT ![t] = "downloading"]
        \/ \E t : taskStatus' = [taskStatus EXCEPT ![t] = "pending"]
    BY <1>2 DEF OwnDone, Read, OnPending, OnFailed, OnCompleted, Finalize, Collect, Check, Start, sched
  <2>3. \A k \in Chunks : taskStatus'[<<attempt, k>>] = "completed" => taskStatus[<<attempt, k>>] = "completed"
    BY <1>0, <2>2, NoneCompleted
  <2>4. \A k \in Chunks : LenOf(k)' = LenOf(k)
    BY <2>1 DEF LenOf
  <2> QED BY <1>0, <2>1, <2>3, <2>4, ThereKept
<1>3. CASE Merge
  <2>1. head' = head + 1 /\ attempt' = attempt /\ taskStatus' = taskStatus /\ Remove(head)
    BY <1>3 DEF Merge, Pass
  <2>2. DOMAIN files' = DOMAIN files \ {head} /\ \A l \in DOMAIN files' : files'[l] = files[l]
    BY <1>0, <2>1, Removing
  <2>3. \A k \in Chunks : k >= head' => k # head
    BY <1>0, <2>1 DEF Chunks
  <2>4. \A k \in Chunks : k >= head' /\ LenOf(k) = Units => LenOf(k)' = Units
    BY <2>2, <2>3 DEF LenOf
  <2> QED BY <1>0, <2>1, <2>4, ThereKept
<1>4. CASE MergeFails \/ GiveUp \/ OwnFails
  <2>1. PICK keep \in BOOLEAN : Retry(keep)
    BY <1>0, <1>4, EndingAttempt
  <2>2. CASE attempt > MaxRetries
    <3>1. UNCHANGED <<attempt, disk, sched>>
      BY <2>1, <2>2 DEF Retry
    <3> QED BY <3>1 DEF ThereInv, LenOf, disk, sched
  <2>3. CASE ~(attempt > MaxRetries)
    <3>0. attempt =< MaxRetries
      BY <1>0, <2>3, ChunkedDownloadAssumption DEF ChunksTypeOK, Attempts
    <3>1. /\ attempt' = attempt + 1 /\ attempt' \in Attempts
          /\ \A t \in Tasks : taskStatus'[t] = IF t[1] = attempt + 1 THEN "pending" ELSE taskStatus[t]
      BY <1>0, <2>1, <3>0, Retrying
    <3>2. \A k \in Chunks : <<attempt + 1, k>> \in Tasks
      BY <3>1 DEF Tasks
    <3>3. \A k \in Chunks : taskStatus'[<<attempt', k>>] = "pending"
      BY <3>1, <3>2
    <3> QED BY <3>3 DEF ThereInv
  <2> QED BY <2>2, <2>3
<1>5. CASE UNCHANGED chunksVars
  BY <1>5 DEF chunksVars, disk, sched, ThereInv, LenOf
<1> QED BY <1>1, <1>2, <1>3, <1>4, <1>5 DEF ChunksNext, MasterStep, Others

(* A chunk that counts as completed, and that the master has still to       *)
(* merge, has its whole file, however many threads of this attempt and of   *)
(* earlier ones write to the same path.                                     *)
THEOREM CompletedChunksAreThere == ChunksSpec => []CompletedIsThere
<1>1. ChunksInit => ThereInv
  <2>1. ASSUME ChunksInit, NEW k \in Chunks PROVE taskStatus[<<attempt, k>>] = "pending"
    <3>1. <<1, k>> \in Tasks
      BY ChunkedDownloadAssumption DEF Tasks, Attempts
    <3> QED BY <2>1, <3>1 DEF ChunksInit
  <2> QED BY <2>1 DEF ThereInv
<1>2. ThereInv => CompletedIsThere
  BY DEF ThereInv, CompletedIsThere
<1> QED BY <1>1, <1>2, NextThere, ChunksInductive, PTL DEF ChunksSpec

-----------------------------------------------------------------------------
(* OneFetcher.  Nothing belongs to an attempt to come, so that the tasks of *)
(* a new one have no thread; and as long as no chunk was made pending that  *)
(* was not failed, the task of each thread is downloading.                  *)
NoneAhead ==
  /\ \A i \in Running : threads[i].task[1] =< attempt
  /\ \A t \in held : t[1] =< attempt
  /\ checked # None => checked[1] =< attempt
StatusHeld == overwritten \/ \A i \in Running : taskStatus[threads[i].task] = "downloading"
FetchInv == NoneAhead /\ StatusHeld /\ OneFetcher

(* A thread goes on, or nothing but statuses of no thread's task changes.   *)
LEMMA FetchKept ==
  ASSUME FetchInv, Running' = Running, \A i \in Running : threads'[i].task = threads[i].task,
         attempt' = attempt, \A t \in held' : t \in held \/ t[1] =< attempt, checked' \in {None, checked} \cup held,
         overwritten => overwritten',
         overwritten' \/ \A i \in Running : taskStatus'[threads[i].task] = taskStatus[threads[i].task]
  PROVE  FetchInv'
<1>1. NoneAhead'
  BY DEF FetchInv, NoneAhead
<1>2. StatusHeld'
  BY DEF FetchInv, StatusHeld
<1>3. OneFetcher'
  BY DEF FetchInv, OneFetcher
<1> QED BY <1>1, <1>2, <1>3 DEF FetchInv

LEMMA FetchEnds ==
  ASSUME ChunksTypeOK, FetchInv, NEW i \in Running, NEW s \in {"completed", "failed"}, End(i, s),
         UNCHANGED <<attempt, held, checked, overwritten>>
  PROVE  FetchInv'
<1>1. /\ Running' = Running \ {i}
      /\ \A j \in Slots : j # i => threads'[j] = threads[j]
      /\ taskStatus' = [taskStatus EXCEPT ![threads[i].task] = s]
  BY Ending
<1>2. \A j \in Running' : j \in Running /\ j # i /\ threads'[j] = threads[j] /\ threads[j].task \in Tasks
  <2>1. \A j \in Running : j \in Slots /\ threads[j].task \in Tasks
    BY RunningThread
  <2> QED BY <1>1, <2>1
<1>3. NoneAhead'
  BY <1>2 DEF FetchInv, NoneAhead
<1>4. OneFetcher'
  BY <1>2 DEF FetchInv, OneFetcher
<1>5. StatusHeld'
  <2> SUFFICES ASSUME ~overwritten, NEW j \in Running' PROVE taskStatus'[threads'[j].task] = "downloading"
    BY DEF StatusHeld
  <2>1. threads[j].task # threads[i].task
    BY <1>2 DEF FetchInv, OneFetcher
  <2>2. taskStatus[threads[j].task] = "downloading"
    BY <1>2 DEF FetchInv, StatusHeld
  <2> QED BY <1>1, <1>2, <2>1, <2>2 DEF ChunksTypeOK
<1> QED BY <1>3, <1>4, <1>5 DEF FetchInv

(* A thread starts only when its task was not downloading. *)
LEMMA FetchStarts ==
  ASSUME ChunksTypeOK, FetchInv, NEW t \in Tasks, t[1] =< attempt, taskStatus[t] # "downloading",
         taskStatus' = [taskStatus EXCEPT ![t] = "downloading"], SpawnChunk(t),
         held' = held, checked' \in {None, checked}, UNCHANGED <<attempt, overwritten>>
  PROVE  FetchInv'
<1>1. PICK i \in Slots \ Running :
        /\ Running' = Running \cup {i}
        /\ threads'[i].task = t
        /\ \A j \in Slots : j # i => threads'[j] = threads[j]
  BY Spawning
<1>2. \A j \in Running : j \in Slots /\ j # i /\ threads'[j] = threads[j] /\ threads[j].task \in Tasks
  <2>1. \A j \in Running : j \in Slots /\ threads[j].task \in Tasks
    BY RunningThread
  <2> QED BY <1>1, <2>1
<1>3. NoneAhead'
  BY <1>1, <1>2 DEF FetchInv, NoneAhead
<1>4. overwritten \/ \A j \in Running : threads[j].task # t
  BY DEF FetchInv, StatusHeld
<1>5. OneFetcher'
  <2> SUFFICES ASSUME ~overwritten, NEW j \in Running', NEW l \in Running', threads'[j].task = threads'[l].task
               PROVE  j = l
    BY DEF OneFetcher
  <2>1. (j = i \/ j \in Running) /\ (l = i \/ l \in Running)
    BY <1>1
  <2>2. CASE j \in Running /\ l \in Running
    BY <1>2, <2>2 DEF FetchInv, OneFetcher
  <2> QED BY <1>1, <1>2, <1>4, <2>1, <2>2
<1>6. StatusHeld'
  <2> SUFFICES ASSUME ~overwritten, NEW j \in Running' PROVE taskStatus'[threads'[j].task] = "downloading"
    BY DEF StatusHeld
  <2>1. CASE j = i
    BY <1>1, <2>1 DEF ChunksTypeOK
  <2>2. CASE j \in Running
    <3>1. taskStatus[threads[j].task] = "downloading"
      BY <2>2 DEF FetchInv, StatusHeld
    <3> QED BY <1>2, <2>2, <3>1 DEF ChunksTypeOK
  <2> QED BY <1>1, <2>1, <2>2
<1> QED BY <1>3, <1>5, <1>6 DEF FetchInv

LEMMA ThreadsFetch ==
  ASSUME ChunksInv, FetchInv, NEW i \in Slots, ThreadStep(i) \/ Break(i)
  PROVE  FetchInv'
<1>0. /\ ChunksTypeOK /\ i \in Running /\ UNCHANGED <<attempt, held, checked, overwritten>>
      /\ threads[i] \in Thread
  <2>1. ChunksTypeOK /\ i \in Running /\ UNCHANGED <<attempt, held, checked, overwritten>>
    BY DEF ChunksInv, ThreadStep, Measure, Open, Write, FinishChunk, Break, manager, marks
  <2> QED BY <2>1, RunningThread
<1>1. CASE End(i, "completed") \/ End(i, "failed")
  BY <1>0, <1>1, FetchEnds
<1>2. ASSUME NEW r \in Thread, r.task = threads[i].task, threads' = [threads EXCEPT ![i] = r], taskStatus' = taskStatus
      PROVE  FetchInv'
  <2>1. Running' = Running /\ threads'[i] = r /\ \A j \in Slots : j # i => threads'[j] = threads[j]
    BY <1>0, <1>2, GoingOn
  <2>2. \A j \in Running : threads'[j].task = threads[j].task
    <3>1. Running \subseteq Slots
      BY DEF Running
    <3> QED BY <1>2, <2>1, <3>1
  <2> QED BY <1>0, <1>2, <2>1, <2>2, FetchKept
<1>3. CASE Measure(i) /\ LenOf(Path(i)) # Units
  <2> DEFINE r == [threads[i] EXCEPT !.at = LenOf(Path(i)), !.pc = "open"]
  <2>1. LenOf(Path(i)) \in 0..Units
    BY <1>0, ChunkedDownloadAssumption DEF LenOf, ChunksInv, Fitting, ChunksTypeOK
  <2>2. r \in Thread /\ r.task = threads[i].task
    BY <1>0, <2>1 DEF Thread
  <2>3. threads' = [threads EXCEPT ![i] = r] /\ taskStatus' = taskStatus
    BY <1>0, <1>3 DEF Measure, Thread, ChunksTypeOK
  <2> HIDE DEF r
  <2> QED BY <1>2, <2>2, <2>3
<1>4. CASE Open(i)
  <2> DEFINE r == [threads[i] EXCEPT !.pc = "write", !.live = TRUE]
  <2>1. r \in Thread /\ threads' = [threads EXCEPT ![i] = r]
    BY <1>4, OpenFiles
  <2>2. r.task = threads[i].task /\ taskStatus' = taskStatus
    BY <1>0, <1>4 DEF Thread, Open, sched
  <2> HIDE DEF r
  <2> QED BY <1>2, <2>1, <2>2
<1>5. CASE Write(i) /\ threads' = [threads EXCEPT ![i].at = @ + 1] /\ taskStatus' = taskStatus
  <2> DEFINE r == [threads[i] EXCEPT !.at = @ + 1]
  <2>1. r \in Thread
    BY <1>0, <1>5, NextRecord DEF Write
  <2>2. r.task = threads[i].task /\ threads' = [threads EXCEPT ![i] = r]
    BY <1>0, <1>5 DEF Thread, ChunksTypeOK
  <2> HIDE DEF r
  <2> QED BY <1>2, <1>5, <2>1, <2>2
<1> QED BY <1>1, <1>3, <1>4, <1>5 DEF ThreadStep, Measure, Write, FinishChunk, Break

LEMMA NextFetch ==
  ChunksInv /\ FetchInv /\ [ChunksNext]_chunksVars => FetchInv'
<1> SUFFICES ASSUME ChunksInv, FetchInv, [ChunksNext]_chunksVars PROVE FetchInv'
  OBVIOUS
<1>0. /\ ChunksTypeOK /\ attempt \in Nat
      /\ (head \in Chunks => <<attempt, head>> \in Tasks) /\ <<attempt, head>>[1] = attempt
  BY ChunkedDownloadAssumption DEF ChunksInv, ChunksTypeOK, Attempts, Tasks
<1>1. CASE \E i \in Slots : ThreadStep(i) \/ Break(i)
  BY <1>1, ThreadsFetch
<1>2. CASE OwnDone \/ Read \/ OnCompleted \/ Finalize \/ Collect \/ (\E t \in Tasks : Check(t))
           \/ UNCHANGED chunksVars
  <2>1. UNCHANGED <<attempt, threads, taskStatus, overwritten>>
    BY <1>2 DEF OwnDone, Read, OnCompleted, Finalize, Collect, Check, chunksVars, sched, marks
  <2>2. /\ \A t \in held' : t \in held \/ t[1] =< attempt
        /\ checked' \in {None, checked} \cup held
    <3>1. CASE Collect
      <4>1. \A t \in held' : t[1] = attempt
        BY <3>1 DEF Collect
      <4>2. attempt =< attempt
        BY <1>0
      <4> QED BY <3>1, <4>1, <4>2 DEF Collect
    <3>2. CASE \E t \in Tasks : Check(t)
      BY <3>2 DEF Check
    <3>3. CASE held' = held /\ checked' = checked
      BY <3>3
    <3> QED BY <1>2, <3>1, <3>2, <3>3 DEF OwnDone, Read, OnCompleted, Finalize, chunksVars, manager
  <2>3. Running' = Running
    BY <2>1 DEF Running
  <2> QED BY <2>1, <2>2, <2>3, FetchKept
<1>3. CASE Start
  <2>1. /\ checked \in Tasks /\ checked[1] =< attempt /\ checked' = None
        /\ UNCHANGED <<attempt, held, overwritten>>
    BY <1>0, <1>3 DEF Start, ChunksTypeOK, marks, FetchInv, NoneAhead
  <2>2. CASE taskStatus[checked] = "downloading"
    <3>1. UNCHANGED <<taskStatus, threads>>
      BY <1>3, <2>2 DEF Start
    <3>2. Running' = Running
      BY <3>1 DEF Running
    <3> QED BY <2>1, <3>1, <3>2, FetchKept
  <2>3. CASE taskStatus[checked] # "downloading"
    <3>1. taskStatus' = [taskStatus EXCEPT ![checked] = "downloading"] /\ SpawnChunk(checked)
      BY <1>3, <2>3 DEF Start
    <3> QED BY <1>0, <2>1, <2>3, <3>1, FetchStarts
  <2> QED BY <2>2, <2>3
<1>4. CASE OnPending
  <2>1. <<attempt, head>> \in Tasks /\ UNCHANGED <<attempt, held, checked, overwritten>>
    BY <1>0, <1>4 DEF OnPending, manager, ChunksInv
  <2>2. CASE taskStatus[<<attempt, head>>] = "downloading"
    <3>1. UNCHANGED <<taskStatus, threads>>
      BY <1>4, <2>2 DEF OnPending
    <3>2. Running' = Running
      BY <3>1 DEF Running
    <3> QED BY <2>1, <3>1, <3>2, FetchKept
  <2>3. CASE taskStatus[<<attempt, head>>] # "downloading"
    <3>1. /\ taskStatus' = [taskStatus EXCEPT ![<<attempt, head>>] = "downloading"]
          /\ SpawnChunk(<<attempt, head>>)
      BY <1>4, <2>3 DEF OnPending
    <3>2. <<attempt, head>>[1] =< attempt
      BY <1>0
    <3> QED BY <1>0, <2>1, <2>3, <3>1, <3>2, FetchStarts
  <2> QED BY <2>2, <2>3
<1>5. CASE OnFailed
  <2>1. <<attempt, head>> \in Tasks /\ UNCHANGED <<attempt, held, checked, threads>>
    BY <1>0, <1>5 DEF OnFailed, manager, ChunksInv
  <2>2. Running' = Running
    BY <2>1 DEF Running
  <2>3. CASE tries[head] < MaxRetries
    <3>1. /\ taskStatus' = [taskStatus EXCEPT ![<<attempt, head>>] = "pending"]
          /\ overwritten' = (overwritten \/ taskStatus[<<attempt, head>>] # "failed")
      BY <1>5, <2>3 DEF OnFailed
    <3>2. overwritten' \/ \A i \in Running : taskStatus'[threads[i].task] = taskStatus[threads[i].task]
      <4> SUFFICES ASSUME ~overwritten', NEW i \in Running
                   PROVE  taskStatus'[threads[i].task] = taskStatus[threads[i].task]
        OBVIOUS
      <4>1. ~overwritten /\ taskStatus[<<attempt, head>>] = "failed"
        BY <3>1
      <4>2. taskStatus[threads[i].task] = "downloading" /\ threads[i].task \in Tasks
        BY <1>0, <4>1, RunningThread DEF FetchInv, StatusHeld
      <4> QED BY <1>0, <3>1, <4>1, <4>2 DEF ChunksTypeOK
    <3>3. overwritten => overwritten'
      BY <3>1
    <3> QED BY <2>1, <2>2, <3>2, <3>3, FetchKept
  <2>4. CASE ~(tries[head] < MaxRetries)
    <3>1. UNCHANGED <<taskStatus, overwritten>>
      BY <1>5, <2>4 DEF OnFailed
    <3> QED BY <2>1, <2>2, <3>1, FetchKept
  <2> QED BY <2>3, <2>4
<1>6. CASE Merge
  <2>1. Remove(head) /\ UNCHANGED <<attempt, held, checked, taskStatus, overwritten>>
    BY <1>6 DEF Merge, manager, marks
  <2>2. Running' = Running /\ \A i \in Running : threads'[i].task = threads[i].task
    BY <1>0, <2>1, Removing
  <2> QED BY <2>1, <2>2, FetchKept
<1>7. CASE MergeFails \/ GiveUp \/ OwnFails
  <2>1. PICK keep \in BOOLEAN : Retry(keep)
    BY <1>0, <1>7, EndingAttempt
  <2>2. overwritten' = overwritten
    BY <1>0, <1>7, EndingAttempt
  <2>3. CASE attempt > MaxRetries
    <3>1. UNCHANGED <<attempt, sched, threads, manager>>
      BY <2>1, <2>3 DEF Retry
    <3>2. Running' = Running
      BY <3>1 DEF Running
    <3> QED BY <2>2, <3>1, <3>2, FetchKept DEF sched, manager
  <2>4. CASE ~(attempt > MaxRetries)
    <3>0. attempt =< MaxRetries
      BY <1>0, <2>4, ChunkedDownloadAssumption
    <3>1. /\ attempt' = attempt + 1
          /\ \A t \in Tasks : taskStatus'[t] = IF t[1] = attempt + 1 THEN "pending" ELSE taskStatus[t]
          /\ held' = held /\ checked' = checked
          /\ Running' = Running
          /\ \A i \in Running : threads'[i].task = threads[i].task
      BY <1>0, <2>1, <3>0, Retrying
    <3>2. /\ \A i \in Running : threads[i].task \in Tasks /\ threads[i].task[1] \in Nat
          /\ \A t \in Tasks : t[1] \in Nat
      BY <1>0, RunningThread, ChunkedDownloadAssumption DEF Tasks, Attempts
    <3>3. \A n \in Nat : n =< attempt => n =< attempt + 1 /\ n # attempt + 1
      BY <1>0
    <3>4. NoneAhead'
      BY <1>0, <3>1, <3>2, <3>3 DEF FetchInv, NoneAhead, ChunksTypeOK
    <3>5. \A i \in Running : taskStatus'[threads[i].task] = taskStatus[threads[i].task]
      BY <3>1, <3>2, <3>3 DEF FetchInv, NoneAhead
    <3>6. StatusHeld'
      BY <2>2, <3>1, <3>5 DEF FetchInv, StatusHeld
    <3>7. OneFetcher'
      BY <2>2, <3>1 DEF FetchInv, OneFetcher
    <3> QED BY <3>4, <3>6, <3>7 DEF FetchInv
  <2> QED BY <2>3, <2>4
<1> QED BY <1>1, <1>2, <1>3, <1>4, <1>5, <1>6, <1>7 DEF ChunksNext, MasterStep, Others

(* One task of one attempt has one thread, until handle_failed_chunk makes  *)
(* a chunk pending that has been started since it was seen to have failed.  *)
THEOREM OneThreadPerTask == ChunksSpec => []OneFetcher
<1>1. ChunksInit => FetchInv
  BY InitChunks DEF ChunksInit, FetchInv, NoneAhead, StatusHeld, OneFetcher
<1>2. FetchInv => OneFetcher
  BY DEF FetchInv
<1> QED BY <1>1, <1>2, NextFetch, ChunksInductive, PTL DEF ChunksSpec

-----------------------------------------------------------------------------
(* PartIsRight.  Until a thread opens a shorter file than it measured, no   *)
(* file has a hole, and no thread is past the end of its file.              *)
Whole(f) == \A m \in DOMAIN f : f[m]
Near == \A i \in Running : threads[i].pc = "write" /\ threads[i].live => threads[i].at =< Len(files[Path(i)])
NoHole == Whole(part) /\ (\A k \in DOMAIN files : Whole(files[k])) /\ Near
HoleInv == holed \/ NoHole

(* What is appended to a file without a hole. *)
LEMMA WholeParts ==
  /\ Whole(<<>>) /\ Whole(<<TRUE>>)
  /\ \A f, g \in Seq(BOOLEAN) : Whole(f) /\ Whole(g) => Whole(f \o g)
  /\ \A f \in Seq(BOOLEAN), n \in Nat : n =< Len(f) /\ Whole(f) => Whole(Written(f, n))
<1>1. Whole(<<>>) /\ Whole(<<TRUE>>)
  <2>1. DOMAIN <<TRUE>> = {1} /\ <<TRUE>>[1] = TRUE
    OBVIOUS
  <2>2. Whole(<<TRUE>>)
    BY <2>1, Zenon DEF Whole
  <2>3. DOMAIN <<>> = {}
    OBVIOUS
  <2> QED BY <2>2, <2>3 DEF Whole
<1>2. ASSUME NEW f \in Seq(BOOLEAN), NEW g \in Seq(BOOLEAN), Whole(f), Whole(g), NEW m \in DOMAIN (f \o g)
      PROVE  (f \o g)[m]
  <2>1. /\ Len(f) \in Nat /\ Len(g) \in Nat /\ DOMAIN f = 1..Len(f) /\ DOMAIN g = 1..Len(g)
        /\ DOMAIN (f \o g) = 1..(Len(f) + Len(g))
    <3>1. f \o g \in Seq(BOOLEAN) /\ Len(f \o g) = Len(f) + Len(g)
      BY ConcatProperties
    <3> QED BY <3>1
  <2>2. CASE m \in 1..Len(f)
    <3>1. (f \o g)[m] = f[m]
      BY <2>2, ConcatProperties
    <3> QED BY <1>2, <2>1, <2>2, <3>1, Zenon DEF Whole
  <2>3. CASE m \notin 1..Len(f)
    <3>1. m \in Nat /\ m > Len(f) /\ m =< Len(f) + Len(g) /\ m - Len(f) \in 1..Len(g)
      BY <1>2, <2>1, <2>3
    <3>2. (f \o g)[m] = g[m - Len(f)]
      BY <2>1, <3>1
    <3>3. m - Len(f) \in DOMAIN g
      BY <2>1, <3>1
    <3> QED BY <1>2, <3>2, <3>3, Zenon DEF Whole
  <2> QED BY <2>2, <2>3
<1>3. \A f, g \in Seq(BOOLEAN) : Whole(f) /\ Whole(g) => Whole(f \o g)
  BY <1>2, Zenon DEF Whole
<1>4. \A f \in Seq(BOOLEAN), n \in Nat : n =< Len(f) /\ Whole(f) => Whole(Written(f, n))
  BY Writing, Zenon DEF Whole
<1> QED BY <1>1, <1>3, <1>4

(* It lasts if nobody misses a file and no file changes. *)
LEMMA HoleKept ==
  ASSUME HoleInv, holed' = holed, Whole(part)' \/ part' = part,
         \A k \in DOMAIN files' : k \in DOMAIN files /\ files'[k] = files[k],
         \A i \in Running' : threads'[i].pc = "write" /\ threads'[i].live
                               => /\ i \in Running /\ threads[i].pc = "write" /\ threads[i].live
                                  /\ threads'[i].at = threads[i].at /\ threads'[i].task = threads[i].task
                                  /\ Path(i) \in DOMAIN files'
  PROVE  HoleInv'
<1> SUFFICES ASSUME ~holed PROVE NoHole'
  BY DEF HoleInv
<1>1. NoHole
  BY DEF HoleInv
<1>2. Whole(part)'
  BY <1>1 DEF NoHole, Whole
<1>3. \A k \in DOMAIN files' : Whole(files'[k])
  BY <1>1 DEF NoHole
<1>4. Near'
  BY <1>1 DEF NoHole, Near, Path
<1>5. (\A k \in DOMAIN files : Whole(files[k]))'
  BY <1>3 DEF Whole
<1> QED BY <1>2, <1>4, <1>5 DEF NoHole

LEMMA OpenHole ==
  ASSUME ChunksInv, HoleInv, NEW i \in Slots, Open(i)
  PROVE  HoleInv'
<1> DEFINE r == [threads[i] EXCEPT !.pc = "write", !.live = TRUE]
<1> SUFFICES ASSUME ~holed' PROVE NoHole'
  BY DEF HoleInv
<1>0. ChunksTypeOK /\ holed' = (holed \/ LenOf(Path(i)) < threads[i].at) /\ part' = part
  BY DEF ChunksInv, Open
<1>1. NoHole /\ ~(LenOf(Path(i)) < threads[i].at)
  BY <1>0 DEF HoleInv
<1>2. /\ i \in Running /\ DOMAIN files' = DOMAIN files \cup {Path(i)}
      /\ \A l \in DOMAIN files : files'[l] = files[l]
      /\ Path(i) \notin DOMAIN files => files'[Path(i)] = <<>>
      /\ r \in Thread /\ threads' = [threads EXCEPT ![i] = r]
  BY OpenFiles
<1>3. threads[i] \in Thread /\ threads[i].at \in 0..Units
  BY <1>0, <1>2, RunningThread
<1>4. r.task = threads[i].task /\ r.at = threads[i].at
  BY <1>3 DEF Thread
<1> HIDE DEF r
<1>5. Running' = Running /\ threads'[i] = r /\ \A j \in Slots : j # i => threads'[j] = threads[j]
  BY <1>0, <1>2, GoingOn
<1>6. Whole(part)'
  BY <1>0, <1>1 DEF NoHole, Whole
<1>7. (\A k \in DOMAIN files : Whole(files[k]))'
  <2> SUFFICES ASSUME NEW k \in DOMAIN files' PROVE Whole(files'[k])
    BY DEF Whole
  <2>1. CASE k \in DOMAIN files
    BY <1>1, <1>2, <2>1 DEF NoHole
  <2>2. CASE k \notin DOMAIN files
    BY <1>2, <2>2, WholeParts
  <2> QED BY <2>1, <2>2
<1>8. threads[i].at =< Len(files'[Path(i)])
  <2>1. LenOf(Path(i)) = Len(files'[Path(i)]) /\ LenOf(Path(i)) \in Nat
    <3>1. CASE Path(i) \in DOMAIN files
      BY <1>0, <1>2, <3>1 DEF LenOf, ChunksTypeOK
    <3>2. CASE Path(i) \notin DOMAIN files
      <4>1. Len(<<>>) = 0
        OBVIOUS
      <4> QED BY <1>2, <3>2, <4>1 DEF LenOf
    <3> QED BY <3>1, <3>2
  <2> QED BY <1>1, <1>3, <2>1, ChunkedDownloadAssumption
<1>9. Near'
  <2> SUFFICES ASSUME NEW j \in Running, threads'[j].pc = "write", threads'[j].live
               PROVE  threads'[j].at =< Len(files'[Path(j)'])
    BY <1>5 DEF Near
  <2>1. CASE j = i
    <3>1. Path(j)' = Path(i) /\ threads'[j].at = threads[i].at
      BY <1>4, <1>5, <2>1 DEF Path
    <3> QED BY <1>8, <3>1
  <2>2. CASE j # i
    <3>1. j \in Slots /\ threads'[j] = threads[j]
      BY <1>5, <2>2 DEF Running
    <3>2. Path(j)' = Path(j)
      BY <3>1 DEF Path
    <3>3. Path(j) \in DOMAIN files /\ threads[j].at =< Len(files[Path(j)])
      BY <1>1, <3>1 DEF NoHole, Near, ChunksInv, Backed
    <3> QED BY <1>2, <3>1, <3>2, <3>3
  <2> QED BY <2>1, <2>2
<1> QED BY <1>6, <1>7, <1>9 DEF NoHole

LEMMA WriteHole ==
  ASSUME ChunksInv, HoleInv, NEW i \in Slots, Write(i)
  PROVE  HoleInv'
<1> DEFINE r == [threads[i] EXCEPT !.at = @ + 1]
<1>0. /\ ChunksTypeOK /\ i \in Running /\ threads[i].pc = "write" /\ threads[i].at < Units
      /\ part' = part /\ holed' = holed
  BY DEF ChunksInv, Write, marks
<1> SUFFICES ASSUME ~holed PROVE NoHole'
  BY <1>0 DEF HoleInv
<1>1. NoHole
  BY DEF HoleInv
<1>2. r \in Thread /\ threads[i].at \in Nat /\ threads[i] \in Thread
  BY <1>0, NextRecord, RunningThread
<1>3. r.task = threads[i].task /\ r.live = threads[i].live /\ r.at = threads[i].at + 1
  BY <1>2 DEF Thread
<1>4. threads' = [threads EXCEPT ![i].at = @ + 1] => threads' = [threads EXCEPT ![i] = r]
  BY <1>0, <1>2 DEF Thread, ChunksTypeOK
<1> HIDE DEF r
<1>5. Whole(part)'
  BY <1>0, <1>1 DEF NoHole, Whole
<1>6. \A j \in Running : j \in Slots /\ (threads[j].pc = "write" /\ threads[j].live
                                           => Path(j) \in DOMAIN files /\ threads[j].at =< Len(files[Path(j)])
                                              /\ threads[j].at \in Nat)
  <2>1. \A j \in Running : j \in Slots /\ threads[j].at \in Nat
    BY <1>0, RunningThread, ChunkedDownloadAssumption
  <2> QED BY <1>1, <2>1 DEF NoHole, Near, ChunksInv, Backed
<1>7. CASE threads[i].live
  <2>1. SetFile(Path(i), Written(files[Path(i)], threads[i].at))
    BY <1>7 DEF Write
  <2>2. /\ Path(i) \in DOMAIN files /\ files[Path(i)] \in Seq(BOOLEAN)
        /\ DOMAIN files' = DOMAIN files
        /\ files'[Path(i)] = Written(files[Path(i)], threads[i].at)
        /\ Len(files'[Path(i)]) >= Len(files[Path(i)]) /\ Len(files'[Path(i)]) > threads[i].at
        /\ \A l \in DOMAIN files : l # Path(i) => files'[l] = files[l]
        /\ \A l \in DOMAIN files' : files'[l] \in Seq(BOOLEAN)
    BY <1>0, <1>7, <2>1, WriteFiles
  <2>3. (\A k \in DOMAIN files : Whole(files[k]))'
    <3>1. Whole(files'[Path(i)])
      <4>1. Whole(files[Path(i)])
        BY <1>1, <2>2 DEF NoHole
      <4>2. threads[i].at =< Len(files[Path(i)])
        BY <1>0, <1>6, <1>7
      <4> QED BY <1>2, <2>2, <4>1, <4>2, WholeParts
    <3>2. \A k \in DOMAIN files' : Whole(files'[k])
      BY <1>1, <2>2, <3>1 DEF NoHole
    <3> QED BY <3>2 DEF Whole
  <2>4. \A k \in DOMAIN files : Len(files'[k]) \in Nat /\ Len(files[k]) \in Nat /\ Len(files'[k]) >= Len(files[k])
    <3>1. \A k \in DOMAIN files : Len(files'[k]) \in Nat /\ Len(files[k]) \in Nat
      BY <1>0, <2>2 DEF ChunksTypeOK
    <3> QED BY <2>2, <3>1
  <2>5. ASSUME NEW j \in Running, j # i, threads'[j] = threads[j], threads'[j].pc = "write", threads'[j].live
        PROVE  threads'[j].at =< Len(files'[Path(j)'])
    <3>1. Path(j)' = Path(j)
      BY <2>5 DEF Path
    <3>2. Path(j) \in DOMAIN files /\ threads[j].at =< Len(files[Path(j)]) /\ threads[j].at \in Nat
      BY <1>6, <2>5
    <3>3. threads[j].at =< Len(files'[Path(j)])
      BY <2>4, <3>2
    <3> QED BY <2>5, <3>1, <3>3
  <2>6. CASE Len(Written(files[Path(i)], threads[i].at)) = threads[i].at + 1
    <3>1. threads' = [threads EXCEPT ![i] = r]
      BY <1>4, <1>7, <2>6 DEF Write
    <3>2. Running' = Running /\ threads'[i] = r /\ \A j \in Slots : j # i => threads'[j] = threads[j]
      BY <1>0, <1>2, <3>1, GoingOn
    <3>3. Path(i)' = Path(i)
      BY <1>3, <3>2 DEF Path
    <3>4. threads'[i].at =< Len(files'[Path(i)'])
      <4>1. Len(files'[Path(i)]) \in Nat
        BY <2>2, <2>4
      <4>2. threads[i].at + 1 =< Len(files'[Path(i)])
        BY <1>2, <2>2, <4>1
      <4> QED BY <1>3, <3>2, <3>3, <4>2
    <3>5. \A j \in Running : j # i => threads'[j] = threads[j]
      BY <1>6, <3>2
    <3>6. Near'
      BY <2>5, <3>2, <3>4, <3>5 DEF Near
    <3> QED BY <1>5, <2>3, <3>6 DEF NoHole
  <2>7. CASE Len(Written(files[Path(i)], threads[i].at)) # threads[i].at + 1
    <3>1. End(i, "failed")
      BY <1>7, <2>7 DEF Write
    <3>2. Running' = Running \ {i} /\ \A j \in Slots : j # i => threads'[j] = threads[j]
      BY <1>0, <3>1, Ending
    <3>3. \A j \in Running : j # i => threads'[j] = threads[j]
      BY <1>6, <3>2
    <3>4. Near'
      BY <2>5, <3>2, <3>3 DEF Near
    <3> QED BY <1>5, <2>3, <3>4 DEF NoHole
  <2> QED BY <2>6, <2>7
<1>8. CASE ~threads[i].live
  <2>1. threads' = [threads EXCEPT ![i] = r] /\ files' = files
    BY <1>4, <1>8 DEF Write
  <2>2. Running' = Running /\ threads'[i] = r /\ \A j \in Slots : j # i => threads'[j] = threads[j]
    BY <1>0, <1>2, <2>1, GoingOn
  <2>3. \A j \in Running : threads'[j].live => threads'[j] = threads[j]
    BY <1>3, <1>6, <1>8, <2>2
  <2>4. Near'
    <3> SUFFICES ASSUME NEW j \in Running, threads'[j].pc = "write", threads'[j].live
                 PROVE  threads'[j].at =< Len(files'[Path(j)'])
      BY <2>2 DEF Near
    <3>1. threads'[j] = threads[j]
      BY <2>3
    <3>2. Path(j)' = Path(j)
      BY <3>1 DEF Path
    <3> QED BY <1>6, <2>1, <3>1, <3>2
  <2>5. (\A k \in DOMAIN files : Whole(files[k]))'
    BY <1>1, <2>1 DEF NoHole, Whole
  <2> QED BY <1>5, <2>4, <2>5 DEF NoHole
<1> QED BY <1>7, <1>8

LEMMA NextHole ==
  ChunksInv /\ HoleInv /\ [ChunksNext]_chunksVars => HoleInv'
<1> SUFFICES ASSUME ChunksInv, HoleInv, [ChunksNext]_chunksVars PROVE HoleInv'
  OBVIOUS
<1>0. /\ ChunksTypeOK
      /\ \A i \in Running : /\ i \in Slots
                            /\ threads[i].pc = "write" /\ threads[i].live => Path(i) \in DOMAIN files
  BY RunningThread DEF ChunksInv, Backed
<1>1. CASE \E i \in Slots : Open(i) \/ Write(i)
  BY <1>1, OpenHole, WriteHole
<1>2. ASSUME NEW i \in Slots, Measure(i) \/ FinishChunk(i) \/ Break(i) PROVE HoleInv'
  <2>1. i \in Running /\ part' = part /\ files' = files /\ holed' = holed
    BY <1>2 DEF Measure, FinishChunk, Break, disk, marks
  <2>2. CASE End(i, "completed") \/ End(i, "failed")
    <3>1. Running' = Running \ {i} /\ \A j \in Slots : j # i => threads'[j] = threads[j]
      BY <1>0, <2>1, <2>2, Ending
    <3>2. \A j \in Running' : j \in Running /\ threads'[j] = threads[j]
      BY <1>0, <3>1
    <3> QED BY <1>0, <2>1, <3>2, HoleKept
  <2>3. CASE Measure(i) /\ LenOf(Path(i)) # Units
    <3> DEFINE r == [threads[i] EXCEPT !.at = LenOf(Path(i)), !.pc = "open"]
    <3>1. LenOf(Path(i)) \in 0..Units /\ threads[i] \in Thread
      BY <1>0, <2>1, RunningThread, ChunkedDownloadAssumption DEF LenOf, ChunksInv, Fitting, ChunksTypeOK
    <3>2. r \in Thread /\ r.pc = "open"
      BY <3>1 DEF Thread
    <3>3. threads' = [threads EXCEPT ![i] = r]
      BY <1>0, <2>3, <3>1 DEF Measure, Thread, ChunksTypeOK
    <3> HIDE DEF r
    <3>4. Running' = Running /\ threads'[i] = r /\ \A j \in Slots : j # i => threads'[j] = threads[j]
      BY <1>0, <2>1, <3>2, <3>3, GoingOn
    <3>5. \A j \in Running' : threads'[j].pc = "write" => j \in Running /\ threads'[j] = threads[j]
      BY <1>0, <3>2, <3>4
    <3> QED BY <1>0, <2>1, <3>5, HoleKept
  <2> QED BY <1>2, <2>2, <2>3 DEF Measure, FinishChunk, Break
<1>3. CASE UNCHANGED threads /\ files' = files /\ holed' = holed /\ (part' = part \/ part' = <<TRUE>>)
  <2>1. Whole(part)' \/ part' = part
    <3>1. Whole(<<TRUE>>)
      BY WholeParts
    <3> QED BY <1>3, <3>1 DEF Whole
  <2>2. Running' = Running
    BY <1>3 DEF Running
  <2> QED BY <1>0, <1>3, <2>1, <2>2, HoleKept
<1>4. CASE OwnDone \/ Read \/ OnFailed \/ OnCompleted \/ Finalize \/ Collect \/ (\E t \in Tasks : Check(t))
           \/ UNCHANGED chunksVars
  BY <1>3, <1>4 DEF OwnDone, Read, OnFailed, OnCompleted, Finalize, Collect, Check, chunksVars, disk, marks
<1>5. ASSUME NEW t \in Tasks, SpawnChunk(t), UNCHANGED disk, holed' = holed PROVE HoleInv'
  <2>0. part' = part /\ files' = files
    BY <1>5 DEF disk
  <2>1. PICK i \in Slots \ Running :
          /\ Running' = Running \cup {i}
          /\ threads'[i].pc = "measure"
          /\ \A j \in Slots : j # i => threads'[j] = threads[j]
    BY <1>0, <1>5, Spawning
  <2>2. \A j \in Running' : threads'[j].pc = "write" => j \in Running /\ threads'[j] = threads[j]
    BY <1>0, <2>1
  <2> QED BY <1>0, <1>5, <2>0, <2>2, HoleKept
<1>6. CASE OnPending \/ Start
  <2>1. UNCHANGED disk /\ holed' = holed
    BY <1>6 DEF OnPending, Start, marks
  <2>2. UNCHANGED threads \/ \E t \in Tasks : SpawnChunk(t)
    <3>1. CASE OnPending
      <4>1. <<attempt, head>> \in Tasks
        BY <1>0, <3>1 DEF OnPending, ChunksInv, ChunksTypeOK, Tasks
      <4> QED BY <3>1, <4>1 DEF OnPending
    <3>2. CASE Start
      BY <1>0, <3>2 DEF Start, ChunksTypeOK
    <3> QED BY <1>6, <3>1, <3>2
  <2> QED BY <1>3, <1>5, <2>1, <2>2 DEF disk
<1>7. CASE Merge
  <2>1. Remove(head) /\ holed' = holed /\ part' = part \o files[head] /\ head \in DOMAIN files
    BY <1>7, ChunkedDownloadAssumption DEF Merge, marks, LenOf
  <2>2. /\ Running' = Running
        /\ \A i \in Running : /\ threads'[i].task = threads[i].task /\ threads'[i].pc = threads[i].pc
                              /\ threads'[i].at = threads[i].at
                              /\ threads'[i].live => threads[i].live /\ Path(i) # head
        /\ DOMAIN files' = DOMAIN files \ {head}
        /\ \A l \in DOMAIN files' : files'[l] = files[l]
    BY <1>0, <2>1, Removing
  <2>3. CASE holed
    BY <2>1, <2>3 DEF HoleInv
  <2>4. CASE ~holed
    <3>1. Whole(part) /\ Whole(files[head]) /\ part \in Seq(BOOLEAN) /\ files[head] \in Seq(BOOLEAN)
      BY <1>0, <2>1, <2>4 DEF HoleInv, NoHole, ChunksTypeOK
    <3>2. Whole(part \o files[head])
      BY <3>1, WholeParts
    <3>3. Whole(part)'
      BY <2>1, <3>2 DEF Whole
    <3> QED BY <1>0, <2>1, <2>2, <3>3, HoleKept
  <2> QED BY <2>3, <2>4
<1>8. CASE MergeFails \/ GiveUp \/ OwnFails
  <2>1. PICK keep \in BOOLEAN : Retry(keep)
    BY <1>0, <1>8, EndingAttempt
  <2>2. holed' = holed
    BY <1>0, <1>8, EndingAttempt
  <2>3. CASE attempt > MaxRetries
    <3>1. UNCHANGED <<disk, threads>>
      BY <2>1, <2>3 DEF Retry
    <3> QED BY <1>3, <2>2, <3>1 DEF disk
  <2>4. CASE ~(attempt > MaxRetries)
    <3>0. attempt =< MaxRetries
      BY <1>0, <2>4, ChunkedDownloadAssumption DEF ChunksTypeOK, Attempts
    <3>1. /\ Running' = Running
          /\ \A i \in Running : /\ threads'[i].task = threads[i].task /\ threads'[i].pc = threads[i].pc
                                /\ threads'[i].at = threads[i].at
                                /\ threads'[i].live => threads[i].live /\ keep
          /\ keep => part' = part /\ files' = files
          /\ ~keep => part' = <<>> /\ DOMAIN files' = {}
      BY <1>0, <2>1, <3>0, Retrying
    <3>2. CASE keep
      <4>1. part' = part /\ files' = files
        BY <3>1, <3>2
      <4> QED BY <1>0, <2>2, <3>1, <4>1, HoleKept
    <3>3. CASE ~keep
      <4>1. part' = <<>> /\ DOMAIN files' = {} /\ \A i \in Running' : ~threads'[i].live
        BY <3>1, <3>3
      <4>2. Whole(part)'
        BY <4>1, WholeParts DEF Whole
      <4> QED BY <2>2, <4>1, <4>2, HoleKept
    <3> QED BY <3>2, <3>3
  <2> QED BY <2>3, <2>4
<1> QED BY <1>1, <1>2, <1>4, <1>6, <1>7, <1>8 DEF ChunksNext, MasterStep, Others, ThreadStep

(* The part file is the content from its first byte on, whatever threads of *)
(* earlier attempts write: the one way to a hole is a thread that opens a   *)
(* shorter file than it measured.                                           *)
THEOREM PartHasNoHole == ChunksSpec => []PartIsRight
<1>1. ChunksInit => HoleInv
  <2> SUFFICES ASSUME ChunksInit PROVE NoHole
    BY DEF HoleInv
  <2>1. Running = {} /\ \A k \in DOMAIN files : Whole(files[k])
    BY InitChunks DEF Whole
  <2>2. Whole(part)
    BY WholeParts DEF ChunksInit
  <2> QED BY <2>1, <2>2 DEF NoHole, Near
<1>2. HoleInv => PartIsRight
  BY DEF HoleInv, NoHole, Whole, PartIsRight
<1> QED BY <1>1, <1>2, NextHole, ChunksInductive, PTL DEF ChunksSpec

-----------------------------------------------------------------------------
(* A download in chunks ends.                                                *)

(* What is downloading has a thread that downloads it, what the master asks  *)
(* about has been made, and as long as nothing has failed the part file ends *)
(* where the first chunk of the list begins.                                 *)
HasThread == \A t \in Tasks : taskStatus[t] = "downloading" => \E i \in Running : threads[i].task = t
Made == \A t \in Tasks : t[1] =< attempt => taskStatus[t] # "none"
PartFits == /\ master = "wait" /\ ~anyFail => Len(part) = OffsetOf(head)
            /\ master = "own" => head = 1
ServeInv == HasThread /\ Made /\ PartFits

(* The guards of the steps of the master, but for the faults.                *)
MasterReady ==
  \/ master = "own"
  \/ read = "none" /\ head \in Chunks /\ taskStatus[<<attempt, head>>] # "downloading"
  \/ read = "pending" /\ (taskStatus[<<attempt, head>>] = "downloading" \/ Free # {})
  \/ read = "failed"
  \/ read = "completed" /\ (anyFail \/ LenOf(head) # Units \/ Len(part) = OffsetOf(head))
  \/ head > NrChunks

(* The master can go on, or waits for a chunk that a thread is at, or, to    *)
(* start one, for a slot when all have threads (Slots is a bound of the      *)
(* model; the code starts a thread in any case).  A thread can always go on. *)
MasterIsServed ==
  master \in {"own", "wait"} =>
    \/ MasterReady
    \/ read = "none" /\ \E i \in Running : threads[i].task = <<attempt, head>>
    \/ read = "pending" /\ Running = Slots

(* Of what is finite, in the order in which a step that takes from one may   *)
(* add to those after it: attempts, stages of one, chunks to merge, tries of *)
(* the first, tasks that the manager has not collected, those that nobody    *)
(* has started, what the manager holds, what the master knows of the chunk   *)
(* it waits for, and what the threads have to do.                            *)
AttemptsLeft == MaxRetries + 1 - attempt
MasterLeft == CASE master = "own" -> 2 [] master = "wait" -> 1 [] OTHER -> 0
ChunksLeft == NrChunks + 1 - head
TriesLeft == IF head \in Chunks THEN MaxRetries - tries[head] ELSE 0
Unstarted == {t \in Tasks : t[1] = attempt /\ taskStatus[t] = "pending"}
Uncollected == {t \in Unstarted : t \notin held /\ t # checked}
ManagerLeft == 2 * Cardinality(held) + (IF checked = None THEN 0 ELSE 1)
ReadLeft == CASE read = "pending" /\ taskStatus[<<attempt, head>>] # "pending" -> 3
              [] read = "none" -> 2 [] OTHER -> 1
StepsOf(r) == CASE r.pc = "measure" -> Units + 3 [] r.pc = "open" -> Units + 2
                [] OTHER -> Units + 1 - r.at
ThreadsLeft == {p \in Slots \X (1..(Units + 3)) : p[1] \in Running /\ p[2] =< StepsOf(threads[p[1]])}
DownloadLeft ==
  <<AttemptsLeft, MasterLeft, ChunksLeft, TriesLeft, Cardinality(Uncollected),
    Cardinality(Unstarted), ManagerLeft, ReadLeft, Cardinality(ThreadsLeft)>>

LeftCounted == \A i \in 1..9 : DownloadLeft[i] \in Nat
LessLeft(s, t) == \E i \in 1..9 : s[i] < t[i] /\ \A j \in 1..(i - 1) : s[j] = t[j]

(* What a thread has to do is a number that ThreadsLeft counts. *)
LEMMA StepsAreCounted == \A r \in Thread : StepsOf(r) \in 1..(Units + 3)
<1> SUFFICES ASSUME NEW r \in Thread PROVE StepsOf(r) \in 1..(Units + 3)
  OBVIOUS
<1>1. r.pc \in {"measure", "open", "write"} /\ r.at \in 0..Units
  BY DEF Thread
<1> QED BY <1>1, ChunkedDownloadAssumption DEF StepsOf

(* A thread ends, or goes on and has less to do. *)
LEMMA ThreadMoves ==
  ASSUME ChunksInv, NEW i \in Slots, ThreadStep(i) \/ Break(i)
  PROVE  /\ i \in Running
         /\ UNCHANGED <<master, attempt, part, tries, head, read, anyFail, held, checked>>
         /\ \/ \E s \in {"completed", "failed"} : End(i, s)
            \/ \E r \in Thread : /\ threads' = [threads EXCEPT ![i] = r] /\ taskStatus' = taskStatus
                                 /\ r.task = threads[i].task /\ StepsOf(r) < StepsOf(threads[i])
<1>0. /\ ChunksTypeOK /\ i \in Running /\ threads[i] \in Thread
      /\ UNCHANGED <<master, attempt, part, tries, head, read, anyFail, held, checked>>
  BY RunningThread DEF ThreadStep, Measure, Open, Write, FinishChunk, Break, ChunksInv, sched, disk, manager
<1>1. threads[i].at \in 0..Units /\ threads \in [Slots -> Thread \cup {Idle}]
  BY <1>0 DEF Thread, ChunksTypeOK
<1>2. CASE Measure(i)
  <2>1. CASE LenOf(Path(i)) = Units
    BY <1>0, <1>2, <2>1 DEF Measure
  <2>2. CASE LenOf(Path(i)) # Units
    <3> DEFINE r == [threads[i] EXCEPT !.at = LenOf(Path(i)), !.pc = "open"]
    <3>1. LenOf(Path(i)) \in 0..Units
      BY <1>0, ChunkedDownloadAssumption DEF LenOf, ChunksInv, Fitting, ChunksTypeOK
    <3>2. r \in Thread /\ r.task = threads[i].task /\ r.pc = "open" /\ threads[i].pc = "measure"
      BY <1>0, <1>2, <3>1 DEF Thread, Measure
    <3>3. threads' = [threads EXCEPT ![i] = r] /\ taskStatus' = taskStatus
      BY <1>0, <1>2, <2>2 DEF Measure, Thread, ChunksTypeOK
    <3> HIDE DEF r
    <3>4. StepsOf(r) < StepsOf(threads[i])
      BY <3>2, ChunkedDownloadAssumption DEF StepsOf
    <3> QED BY <1>0, <3>2, <3>3, <3>4
  <2> QED BY <2>1, <2>2
<1>3. CASE Open(i)
  <2> DEFINE r == [threads[i] EXCEPT !.pc = "write", !.live = TRUE]
  <2>1. r \in Thread /\ threads' = [threads EXCEPT ![i] = r] /\ taskStatus' = taskStatus
    BY <1>3, OpenFiles DEF Open, sched
  <2>2. /\ r.task = threads[i].task /\ r.pc = "write" /\ r.at = threads[i].at /\ threads[i].pc = "open"
    BY <1>0, <1>3 DEF Thread, Open
  <2> HIDE DEF r
  <2>3. StepsOf(r) < StepsOf(threads[i])
    BY <1>1, <2>2, ChunkedDownloadAssumption DEF StepsOf
  <2> QED BY <1>0, <2>1, <2>2, <2>3
<1>4. CASE Write(i)
  <2>1. CASE End(i, "failed")
    BY <1>0, <2>1
  <2>2. CASE threads' = [threads EXCEPT ![i].at = @ + 1] /\ taskStatus' = taskStatus
    <3> DEFINE r == [threads[i] EXCEPT !.at = @ + 1]
    <3>1. r \in Thread /\ r.task = threads[i].task /\ r.pc = "write" /\ r.at = threads[i].at + 1
          /\ threads[i].pc = "write" /\ threads[i].at < Units
      BY <1>0, <1>4, NextRecord DEF Thread, Write
    <3>2. threads' = [threads EXCEPT ![i] = r]
      BY <1>0, <1>1, <2>2 DEF Thread
    <3> HIDE DEF r
    <3>3. StepsOf(r) < StepsOf(threads[i])
      BY <1>1, <3>1, ChunkedDownloadAssumption DEF StepsOf
    <3> QED BY <1>0, <2>2, <3>1, <3>2, <3>3
  <2> QED BY <1>4, <2>1, <2>2 DEF Write
<1>5. CASE FinishChunk(i) \/ Break(i)
  BY <1>0, <1>5 DEF FinishChunk, Break
<1> QED BY <1>2, <1>3, <1>4, <1>5 DEF ThreadStep

(* The end of a thread ends what it downloads, and no other task. *)
LEMMA ThreadsServe ==
  ASSUME ChunksInv, HasThread, Made, NEW i \in Slots, ThreadStep(i) \/ Break(i)
  PROVE  HasThread' /\ Made'
<1>0. ChunksTypeOK /\ i \in Running /\ attempt' = attempt
  BY ThreadMoves DEF ChunksInv
<1>1. ASSUME NEW s \in {"completed", "failed"}, End(i, s) PROVE HasThread' /\ Made'
  <2>1. /\ Running' = Running \ {i} /\ \A j \in Slots : j # i => threads'[j] = threads[j]
        /\ taskStatus' = [taskStatus EXCEPT ![threads[i].task] = s]
        /\ taskStatus \in [Tasks -> {"none", "pending", "downloading", "completed", "failed"}]
    BY <1>0, <1>1, Ending DEF ChunksTypeOK
  <2>2. \A j \in Running : j \in Slots
    BY DEF Running
  <2> QED BY <1>0, <2>1, <2>2 DEF HasThread, Made
<1>2. ASSUME NEW r \in Thread, threads' = [threads EXCEPT ![i] = r], taskStatus' = taskStatus,
             r.task = threads[i].task
      PROVE  HasThread' /\ Made'
  <2>1. Running' = Running /\ \A j \in Running : threads'[j].task = threads[j].task
    BY <1>0, <1>2, GoingOn DEF Running
  <2> QED BY <1>0, <1>2, <2>1 DEF HasThread, Made
<1> QED BY <1>1, <1>2, ThreadMoves

(* A task that is started has its thread. *)
LEMMA StartServes ==
  ASSUME ChunksTypeOK, HasThread, Made, NEW t \in Tasks, SpawnChunk(t), attempt' = attempt,
         taskStatus' = [taskStatus EXCEPT ![t] = "downloading"]
  PROVE  HasThread' /\ Made'
<1>1. PICK i \in Slots \ Running :
        /\ Running' = Running \cup {i} /\ threads'[i].task = t
        /\ \A j \in Slots : j # i => threads'[j] = threads[j]
  BY Spawning
<1>2. \A j \in Running : j \in Slots /\ j # i
  BY <1>1 DEF Running
<1>3. taskStatus \in [Tasks -> {"none", "pending", "downloading", "completed", "failed"}]
  BY DEF ChunksTypeOK
<1> QED BY <1>1, <1>2, <1>3 DEF HasThread, Made

(* Another attempt makes its tasks, and stops no thread. *)
LEMMA RetryServes ==
  ASSUME ChunksTypeOK, HasThread, Made, NEW keep \in BOOLEAN, Retry(keep)
  PROVE  /\ HasThread' /\ Made'
         /\ master' = "failed" \/ (master' = "own" /\ head' = 1)
<1>0. attempt \in 1..(MaxRetries + 1) /\ MaxRetries \in Nat
  BY ChunkedDownloadAssumption DEF ChunksTypeOK, Attempts
<1>1. CASE attempt > MaxRetries
  BY <1>1 DEF Retry, HasThread, Made, Running, sched
<1>2. CASE ~(attempt > MaxRetries)
  <2>1. /\ master' = "own" /\ attempt' = attempt + 1 /\ head' = 1
        /\ \A t \in Tasks : taskStatus'[t] = IF t[1] = attempt + 1 THEN "pending" ELSE taskStatus[t]
        /\ Running' = Running
        /\ \A i \in Running : threads'[i].task = threads[i].task
    <3>1. attempt =< MaxRetries
      BY <1>0, <1>2
    <3> QED BY <3>1, Retrying
  <2>2. HasThread'
    BY <2>1 DEF HasThread
  <2>3. \A t \in Tasks : t[1] \in Nat
    BY DEF Tasks, Attempts
  <2>4. Made'
    BY <1>0, <2>1, <2>3 DEF Made
  <2> QED BY <2>1, <2>2, <2>4
<1> QED BY <1>1, <1>2

(* A chunk begins where the one before it ends. *)
LEMMA NextOffset ==
  \A k \in Nat \ {0} : OffsetOf(k) \in Nat /\ OffsetOf(k + 1) = OffsetOf(k) + Units
<1> SUFFICES ASSUME NEW k \in Nat \ {0} PROVE OffsetOf(k) \in Nat /\ OffsetOf(k + 1) = OffsetOf(k) + Units
  OBVIOUS
<1>1. k - 1 \in Nat /\ Units \in Nat /\ (k + 1) - 1 = (k - 1) + 1
  BY ChunkedDownloadAssumption
<1>2. \A m, n \in Nat : (m + 1) * n = m * n + n /\ m * n \in Nat
  OBVIOUS
<1>3. ((k - 1) + 1) * Units = (k - 1) * Units + Units /\ (k - 1) * Units \in Nat
  BY <1>1, <1>2
<1> QED BY <1>1, <1>3 DEF OffsetOf

(* Every step keeps what the master waits for. *)
LEMMA NextServe == ChunksInv /\ ServeInv /\ [ChunksNext]_chunksVars => ServeInv'
<1> SUFFICES ASSUME ChunksInv, ServeInv, [ChunksNext]_chunksVars PROVE ServeInv'
  OBVIOUS
<1>0. /\ ChunksTypeOK /\ HasThread /\ Made /\ PartFits
      /\ head \in Nat \ {0} /\ (head \in Chunks => <<attempt, head>> \in Tasks)
      /\ taskStatus \in [Tasks -> {"none", "pending", "downloading", "completed", "failed"}]
      /\ part \in Seq(BOOLEAN)
  BY ChunkedDownloadAssumption DEF ServeInv, ChunksInv, ChunksTypeOK, Chunks, Tasks
<1>1. CASE UNCHANGED <<master, attempt, part, taskStatus, head, anyFail, threads>>
  BY <1>0, <1>1 DEF ServeInv, HasThread, Made, PartFits, Running
<1>2. CASE Collect \/ (\E t \in Tasks : Check(t)) \/ Read \/ UNCHANGED chunksVars
  BY <1>1, <1>2 DEF Collect, Check, Read, chunksVars, sched, disk
<1>3. ASSUME NEW i \in Slots, ThreadStep(i) \/ Break(i) PROVE ServeInv'
  <2>1. HasThread' /\ Made' /\ UNCHANGED <<master, part, head, anyFail>>
    BY <1>0, <1>3, ThreadsServe, ThreadMoves
  <2> QED BY <1>0, <2>1 DEF ServeInv, PartFits
<1>4. CASE Start
  <2>1. CASE taskStatus[checked] = "downloading"
    BY <1>1, <1>4, <2>1 DEF Start, disk
  <2>2. CASE taskStatus[checked] # "downloading"
    <3>1. checked \in Tasks
      BY <1>0, <1>4 DEF Start, ChunksTypeOK
    <3>2. HasThread' /\ Made' /\ UNCHANGED <<master, part, head, anyFail>>
      BY <1>0, <1>4, <2>2, <3>1, StartServes DEF Start, disk
    <3> QED BY <1>0, <3>2 DEF ServeInv, PartFits
  <2> QED BY <2>1, <2>2
<1>5. CASE OwnDone
  <2>1. Len(<<TRUE>>) = OffsetOf(1)
    BY ChunkedDownloadAssumption DEF OffsetOf
  <2>2. PartFits'
    BY <1>0, <1>5, <2>1 DEF OwnDone, PartFits, sched
  <2> QED BY <1>0, <1>5, <2>2 DEF OwnDone, ServeInv, HasThread, Made, Running, sched
<1>6. CASE OnPending
  <2>0. head \in Chunks /\ master = "wait" /\ master' = "wait" /\ attempt' = attempt /\ part' = part
    BY <1>6 DEF OnPending, ChunksInv, disk
  <2>1. CASE taskStatus[<<attempt, head>>] = "downloading"
    BY <1>0, <1>6, <2>0, <2>1 DEF OnPending, ServeInv, HasThread, Made, PartFits, Running
  <2>2. CASE taskStatus[<<attempt, head>>] # "downloading"
    <3>1. HasThread' /\ Made' /\ head' = head /\ anyFail' = anyFail
      BY <1>0, <1>6, <2>0, <2>2, StartServes DEF OnPending
    <3> QED BY <1>0, <2>0, <3>1 DEF ServeInv, PartFits
  <2> QED BY <2>1, <2>2
<1>7. CASE OnFailed
  <2>0. /\ head \in Chunks /\ master = "wait" /\ master' = "wait" /\ attempt' = attempt /\ part' = part
        /\ threads' = threads
    BY <1>7 DEF OnFailed, ChunksInv, disk
  <2>1. /\ taskStatus' = taskStatus \/ taskStatus' = [taskStatus EXCEPT ![<<attempt, head>>] = "pending"]
        /\ anyFail' = TRUE \/ (head' = head /\ anyFail' = anyFail)
    BY <1>7 DEF OnFailed
  <2>2. PartFits'
    BY <1>0, <2>0, <2>1 DEF PartFits
  <2>3. HasThread' /\ Made'
    BY <1>0, <2>0, <2>1 DEF HasThread, Made, Running
  <2> QED BY <2>2, <2>3 DEF ServeInv
<1>8. CASE OnCompleted
  <2>1. UNCHANGED <<master, attempt, part, taskStatus, threads>> /\ anyFail /\ anyFail' = anyFail
    BY <1>8 DEF OnCompleted, disk
  <2>2. HasThread' /\ Made'
    BY <1>0, <2>1 DEF ServeInv, HasThread, Made, Running
  <2>3. PartFits'
    BY <1>0, <1>8, <2>1 DEF OnCompleted, PartFits
  <2> QED BY <2>2, <2>3 DEF ServeInv
<1>9. CASE Merge
  <2>1. /\ master = "wait" /\ master' = "wait" /\ ~anyFail /\ head' = head + 1 /\ Remove(head)
        /\ part' = part \o files[head] /\ LenOf(head) = Units /\ Len(part) = OffsetOf(head)
        /\ UNCHANGED <<attempt, taskStatus>>
    BY <1>9 DEF Merge, Pass
  <2>2. Running' = Running /\ \A i \in Running : threads'[i].task = threads[i].task
    BY <1>0, <2>1, Removing
  <2>3. head \in DOMAIN files /\ files[head] \in Seq(BOOLEAN) /\ Len(files[head]) = Units
    BY <1>0, <2>1, ChunkedDownloadAssumption DEF LenOf, ChunksTypeOK
  <2>4. Len(part') = Len(part) + Units
    BY <1>0, <2>1, <2>3, ConcatProperties
  <2>5. PartFits'
    BY <1>0, <2>1, <2>4, NextOffset DEF PartFits
  <2> QED BY <1>0, <2>1, <2>2, <2>5 DEF ServeInv, HasThread, Made
<1>10. CASE MergeFails \/ GiveUp \/ OwnFails
  <2>1. PICK keep \in BOOLEAN : Retry(keep)
    BY <1>0, <1>10, EndingAttempt
  <2>2. HasThread' /\ Made' /\ (master' = "failed" \/ (master' = "own" /\ head' = 1))
    BY <1>0, <2>1, RetryServes
  <2> QED BY <2>2 DEF ServeInv, PartFits
<1>11. CASE Finalize
  BY <1>0, <1>11 DEF Finalize, ServeInv, HasThread, Made, PartFits, Running, sched
<1> QED BY <1>2, <1>3, <1>4, <1>5, <1>6, <1>7, <1>8, <1>9, <1>10, <1>11
        DEF ChunksNext, MasterStep, Others

(* What the master waits for is there from the beginning. *)
LEMMA ServeInductive == ChunksSpec => []ServeInv
<1>1. ChunksInit => ServeInv
  <2> SUFFICES ASSUME ChunksInit PROVE ServeInv
    OBVIOUS
  <2>1. \A t \in Tasks : t[1] \in Nat \ {0} /\ (t[1] =< 1 => t[1] = 1)
    BY DEF Tasks, Attempts
  <2> QED BY <2>1 DEF ChunksInit, ServeInv, HasThread, Made, PartFits
<1> QED BY <1>1, NextServe, ChunksInductive, PTL DEF ChunksSpec

(* process_chunks_at_level never waits for nothing: the first chunk of its   *)
(* list has ended, or can be started, or a thread is at it, however the      *)
(* manager and the master started and restarted it (chunk.rs:1655).          *)
THEOREM MasterServed == ChunksSpec => []MasterIsServed
<1>1. ChunksInv /\ ServeInv => MasterIsServed
  <2> SUFFICES ASSUME ChunksInv, ServeInv, master = "wait", ~MasterReady
               PROVE  \/ read = "none" /\ \E i \in Running : threads[i].task = <<attempt, head>>
                      \/ read = "pending" /\ Running = Slots
    BY DEF MasterIsServed, MasterReady
  <2>1. head \in Chunks /\ <<attempt, head>> \in Tasks
    BY ChunkedDownloadAssumption DEF MasterReady, ChunksInv, ChunksTypeOK, Chunks, Tasks
  <2>2. read \in {"none", "pending", "completed", "failed"}
    BY DEF ChunksInv, ChunksTypeOK
  <2>3. read # "failed" /\ read # "completed"
    BY DEF MasterReady, ServeInv, PartFits
  <2>4. CASE read = "none"
    BY <2>1, <2>4 DEF MasterReady, ServeInv, HasThread
  <2>5. CASE read = "pending"
    BY <2>5 DEF MasterReady, Free, Running
  <2> QED BY <2>2, <2>3, <2>4, <2>5
<1> QED BY <1>1, ServeInductive, ChunksInductive, PTL

(* There are finitely many tasks, and steps of threads. *)
LEMMA TasksFinite == IsFiniteSet(Tasks) /\ IsFiniteSet(Slots \X (1..(Units + 3)))
<1>1. IsFiniteSet(Attempts) /\ IsFiniteSet(Chunks) /\ IsFiniteSet(1..(Units + 3)) /\ IsFiniteSet(Slots)
  BY FS_Interval, ChunkedDownloadAssumption DEF Attempts, Chunks
<1> QED BY <1>1, FS_Product DEF Tasks

(* All that is left is counted. *)
LEMMA CountingLeft ==
  ASSUME ChunksInv
  PROVE  /\ AttemptsLeft \in Nat /\ MasterLeft \in Nat /\ ChunksLeft \in Nat /\ TriesLeft \in Nat
         /\ IsFiniteSet(Uncollected) /\ IsFiniteSet(Unstarted) /\ IsFiniteSet(held) /\ IsFiniteSet(ThreadsLeft)
         /\ Cardinality(Uncollected) \in Nat /\ Cardinality(Unstarted) \in Nat
         /\ Cardinality(held) \in Nat /\ Cardinality(ThreadsLeft) \in Nat
         /\ ManagerLeft \in Nat /\ ReadLeft \in Nat
<1>1. ChunksTypeOK /\ MaxRetries \in Nat /\ NrChunks \in Nat
  BY ChunkedDownloadAssumption DEF ChunksInv
<1>2. IsFiniteSet(Uncollected) /\ IsFiniteSet(Unstarted) /\ IsFiniteSet(held) /\ IsFiniteSet(ThreadsLeft)
  <2>1. Uncollected \in SUBSET Tasks /\ Unstarted \in SUBSET Tasks /\ held \in SUBSET Tasks
        /\ ThreadsLeft \in SUBSET (Slots \X (1..(Units + 3)))
    BY <1>1 DEF Uncollected, Unstarted, ThreadsLeft, ChunksTypeOK
  <2> QED BY <2>1, TasksFinite, FS_Subset
<1>3. /\ Cardinality(Uncollected) \in Nat /\ Cardinality(Unstarted) \in Nat
      /\ Cardinality(held) \in Nat /\ Cardinality(ThreadsLeft) \in Nat
  BY <1>2, FS_CardinalityType
<1>4. AttemptsLeft \in Nat /\ MasterLeft \in Nat /\ ChunksLeft \in Nat
  BY <1>1 DEF AttemptsLeft, MasterLeft, ChunksLeft, ChunksTypeOK, Attempts
<1>5. TriesLeft \in Nat
  <2>1. head \in Chunks => tries[head] \in 0..MaxRetries
    BY <1>1 DEF ChunksTypeOK
  <2> QED BY <1>1, <2>1 DEF TriesLeft
<1>6. ManagerLeft \in Nat
  BY <1>3 DEF ManagerLeft
<1>7. ReadLeft \in Nat
  BY DEF ReadLeft
<1> QED BY <1>2, <1>3, <1>4, <1>5, <1>6, <1>7

(* Where the first difference is, the one list is less. *)
LEMMA LessAt ==
  ASSUME NEW s, NEW t, NEW i \in 1..9, s[i] < t[i], \A j \in 1..(i - 1) : s[j] = t[j]
  PROVE  LessLeft(s, t)
BY DEF LessLeft

(* The list of what is left, one by one, before and after a step. *)
LEMMA TheLeft ==
  /\ DownloadLeft[1] = AttemptsLeft /\ DownloadLeft[2] = MasterLeft /\ DownloadLeft[3] = ChunksLeft
  /\ DownloadLeft[4] = TriesLeft /\ DownloadLeft[5] = Cardinality(Uncollected) /\ DownloadLeft[6] = Cardinality(Unstarted)
  /\ DownloadLeft[7] = ManagerLeft /\ DownloadLeft[8] = ReadLeft /\ DownloadLeft[9] = Cardinality(ThreadsLeft)
  /\ DownloadLeft'[1] = AttemptsLeft' /\ DownloadLeft'[2] = MasterLeft' /\ DownloadLeft'[3] = ChunksLeft'
  /\ DownloadLeft'[4] = TriesLeft' /\ DownloadLeft'[5] = Cardinality(Uncollected') /\ DownloadLeft'[6] = Cardinality(Unstarted')
  /\ DownloadLeft'[7] = ManagerLeft' /\ DownloadLeft'[8] = ReadLeft' /\ DownloadLeft'[9] = Cardinality(ThreadsLeft')
BY DEF DownloadLeft

(* A step of the attempts, of the stages of one, or of the list of chunks.   *)
LEMMA MasterUses ==
  ASSUME \/ AttemptsLeft' < AttemptsLeft
         \/ AttemptsLeft' = AttemptsLeft /\ MasterLeft' < MasterLeft
         \/ AttemptsLeft' = AttemptsLeft /\ MasterLeft' = MasterLeft /\ ChunksLeft' < ChunksLeft
         \/ AttemptsLeft' = AttemptsLeft /\ MasterLeft' = MasterLeft /\ ChunksLeft' = ChunksLeft
            /\ TriesLeft' < TriesLeft
  PROVE  LessLeft(DownloadLeft', DownloadLeft)
<1>1. 1..(1 - 1) = {} /\ 1..(2 - 1) = {1} /\ 1..(3 - 1) = {1, 2} /\ 1..(4 - 1) = {1, 2, 3}
  OBVIOUS
<1>2. \A i \in 1..4 : i \in 1..9
  OBVIOUS
<1>3. CASE AttemptsLeft' < AttemptsLeft
  <2>1. DownloadLeft'[1] < DownloadLeft[1] /\ \A j \in 1..(1 - 1) : DownloadLeft'[j] = DownloadLeft[j]
    BY <1>1, <1>3, TheLeft
  <2> QED BY <2>1, LessAt
<1>4. CASE AttemptsLeft' = AttemptsLeft /\ MasterLeft' < MasterLeft
  <2>1. DownloadLeft'[2] < DownloadLeft[2] /\ \A j \in 1..(2 - 1) : DownloadLeft'[j] = DownloadLeft[j]
    BY <1>1, <1>4, TheLeft
  <2> QED BY <2>1, LessAt
<1>5. CASE AttemptsLeft' = AttemptsLeft /\ MasterLeft' = MasterLeft /\ ChunksLeft' < ChunksLeft
  <2>1. DownloadLeft'[3] < DownloadLeft[3] /\ \A j \in 1..(3 - 1) : DownloadLeft'[j] = DownloadLeft[j]
    BY <1>1, <1>5, TheLeft
  <2> QED BY <2>1, LessAt
<1>6. CASE AttemptsLeft' = AttemptsLeft /\ MasterLeft' = MasterLeft /\ ChunksLeft' = ChunksLeft
           /\ TriesLeft' < TriesLeft
  <2>1. DownloadLeft'[4] < DownloadLeft[4] /\ \A j \in 1..(4 - 1) : DownloadLeft'[j] = DownloadLeft[j]
    BY <1>1, <1>6, TheLeft
  <2> QED BY <2>1, LessAt
<1> QED BY <1>3, <1>4, <1>5, <1>6

(* A step of the others, while the master is at the same chunk: it takes     *)
(* from what is pending, or leaves that and takes from what comes after.     *)
SameChunk == /\ AttemptsLeft' = AttemptsLeft /\ MasterLeft' = MasterLeft
             /\ ChunksLeft' = ChunksLeft /\ TriesLeft' = TriesLeft

(* What the three parts of such a step come to. *)
LEMMA OthersUse ==
  ASSUME ChunksInv, SameChunk, Uncollected' \subseteq Uncollected,
         \/ Uncollected' # Uncollected
         \/ Unstarted' \subseteq Unstarted /\ Unstarted' # Unstarted
         \/ Unstarted' = Unstarted
            /\ \/ ManagerLeft' < ManagerLeft
               \/ ManagerLeft' = ManagerLeft
                  /\ \/ ReadLeft' < ReadLeft
                     \/ ReadLeft' = ReadLeft /\ ThreadsLeft' \subseteq ThreadsLeft /\ ThreadsLeft' # ThreadsLeft
  PROVE  LessLeft(DownloadLeft', DownloadLeft)
<1>1. /\ 1..(5 - 1) = {1, 2, 3, 4} /\ 1..(6 - 1) = {1, 2, 3, 4, 5} /\ 1..(7 - 1) = {1, 2, 3, 4, 5, 6}
      /\ 1..(8 - 1) = {1, 2, 3, 4, 5, 6, 7} /\ 1..(9 - 1) = {1, 2, 3, 4, 5, 6, 7, 8}
  OBVIOUS
<1>2. \A i \in {1, 2, 3, 4} : DownloadLeft'[i] = DownloadLeft[i]
  BY TheLeft DEF SameChunk
<1>3. ASSUME NEW S, NEW T, IsFiniteSet(S), T \subseteq S, T # S PROVE Cardinality(T) < Cardinality(S)
  <2>1. IsFiniteSet(T) /\ Cardinality(T) =< Cardinality(S) /\ (Cardinality(S) = Cardinality(T) => S = T)
    BY <1>3, FS_Subset
  <2>2. Cardinality(S) \in Nat /\ Cardinality(T) \in Nat
    BY <1>3, <2>1, FS_CardinalityType
  <2> QED BY <1>3, <2>1, <2>2
<1>4. IsFiniteSet(Uncollected) /\ IsFiniteSet(Unstarted) /\ IsFiniteSet(ThreadsLeft)
  BY CountingLeft
<1>5. CASE Uncollected' # Uncollected
  <2>1. Cardinality(Uncollected') < Cardinality(Uncollected)
    BY <1>3, <1>4, <1>5
  <2>2. DownloadLeft'[5] < DownloadLeft[5] /\ \A j \in 1..(5 - 1) : DownloadLeft'[j] = DownloadLeft[j]
    BY <1>1, <1>2, <2>1, TheLeft
  <2> QED BY <2>2, LessAt
<1>6. CASE Uncollected' = Uncollected /\ Unstarted' \subseteq Unstarted /\ Unstarted' # Unstarted
  <2>1. Cardinality(Unstarted') < Cardinality(Unstarted) /\ Cardinality(Uncollected') = Cardinality(Uncollected)
    BY <1>3, <1>4, <1>6
  <2>2. DownloadLeft'[6] < DownloadLeft[6] /\ \A j \in 1..(6 - 1) : DownloadLeft'[j] = DownloadLeft[j]
    BY <1>1, <1>2, <2>1, TheLeft
  <2> QED BY <2>2, LessAt
<1>7. CASE Uncollected' = Uncollected /\ Unstarted' = Unstarted
  <2>0. DownloadLeft'[5] = DownloadLeft[5] /\ DownloadLeft'[6] = DownloadLeft[6]
    BY <1>7, TheLeft
  <2>1. CASE ManagerLeft' < ManagerLeft
    <3>1. DownloadLeft'[7] < DownloadLeft[7] /\ \A j \in 1..(7 - 1) : DownloadLeft'[j] = DownloadLeft[j]
      BY <1>1, <1>2, <2>0, <2>1, TheLeft
    <3> QED BY <3>1, LessAt
  <2>2. CASE ManagerLeft' = ManagerLeft /\ ReadLeft' < ReadLeft
    <3>1. DownloadLeft'[8] < DownloadLeft[8] /\ \A j \in 1..(8 - 1) : DownloadLeft'[j] = DownloadLeft[j]
      BY <1>1, <1>2, <2>0, <2>2, TheLeft
    <3> QED BY <3>1, LessAt
  <2>3. CASE ManagerLeft' = ManagerLeft /\ ReadLeft' = ReadLeft
             /\ ThreadsLeft' \subseteq ThreadsLeft /\ ThreadsLeft' # ThreadsLeft
    <3>0. Cardinality(ThreadsLeft') < Cardinality(ThreadsLeft)
      BY <1>3, <1>4, <2>3
    <3>1. DownloadLeft'[9] < DownloadLeft[9] /\ \A j \in 1..(9 - 1) : DownloadLeft'[j] = DownloadLeft[j]
      BY <1>1, <1>2, <2>0, <2>3, <3>0, TheLeft
    <3> QED BY <3>1, LessAt
  <2> QED BY <1>7, <2>1, <2>2, <2>3
<1> QED BY <1>5, <1>6, <1>7

(* A task that is started or ends was pending in this attempt, or what is    *)
(* pending stays.                                                            *)
LEMMA StatusUses ==
  ASSUME ChunksTypeOK, attempt' = attempt, NEW t \in Tasks, NEW s, s # "pending",
         taskStatus' = [taskStatus EXCEPT ![t] = s],
         held' = held, checked' = checked \/ (checked' = None /\ checked = t)
  PROVE  /\ Uncollected' \subseteq Uncollected /\ Unstarted' \subseteq Unstarted
         /\ t \in Unstarted => Unstarted' # Unstarted
         /\ t \notin Unstarted => Unstarted' = Unstarted
<1>1. taskStatus \in [Tasks -> {"none", "pending", "downloading", "completed", "failed"}]
  BY DEF ChunksTypeOK
<1>2. \A u \in Tasks : taskStatus'[u] = IF u = t THEN s ELSE taskStatus[u]
  BY <1>1
<1>3. \A u : u \in Unstarted' <=> u \in Unstarted /\ u # t
  BY <1>2 DEF Unstarted
<1>4. \A u : u \in Uncollected' => u \in Uncollected
  BY <1>3 DEF Uncollected
<1> QED BY <1>3, <1>4

(* What is pending and who knows of it stays. *)
LEMMA StatusStays ==
  ASSUME UNCHANGED <<attempt, taskStatus, held, checked>>
  PROVE  Uncollected' = Uncollected /\ Unstarted' = Unstarted /\ ManagerLeft' = ManagerLeft
BY DEF Uncollected, Unstarted, ManagerLeft

(* Every step of a thread takes from what the threads have to do. *)
LEMMA ThreadsUse ==
  ASSUME ChunksInv, NEW i \in Slots, ThreadStep(i) \/ Break(i)
  PROVE  LessLeft(DownloadLeft', DownloadLeft)
<1>0. /\ ChunksTypeOK /\ i \in Running /\ threads[i] \in Thread
      /\ UNCHANGED <<master, attempt, tries, head, read, held, checked>>
  BY ThreadMoves, RunningThread DEF ChunksInv
<1>1. SameChunk /\ ManagerLeft' = ManagerLeft
  BY <1>0 DEF SameChunk, AttemptsLeft, MasterLeft, ChunksLeft, TriesLeft, ManagerLeft
<1>2. StepsOf(threads[i]) \in 1..(Units + 3)
  BY <1>0, StepsAreCounted
<1>3. <<i, StepsOf(threads[i])>> \in ThreadsLeft
  BY <1>0, <1>2 DEF ThreadsLeft
<1>4. ASSUME NEW s \in {"completed", "failed"}, End(i, s) PROVE LessLeft(DownloadLeft', DownloadLeft)
  <2>1. /\ Running' = Running \ {i} /\ \A j \in Slots : j # i => threads'[j] = threads[j]
        /\ taskStatus' = [taskStatus EXCEPT ![threads[i].task] = s]
    BY <1>0, <1>4, Ending
  <2>2. ThreadsLeft' \subseteq ThreadsLeft /\ <<i, StepsOf(threads[i])>> \notin ThreadsLeft'
    BY <2>1 DEF ThreadsLeft
  <2>3. threads[i].task \in Tasks
    BY <1>0, RunningThread
  <2>4. /\ Uncollected' \subseteq Uncollected /\ Unstarted' \subseteq Unstarted
        /\ threads[i].task \in Unstarted => Unstarted' # Unstarted
        /\ threads[i].task \notin Unstarted => Unstarted' = Unstarted
    <3>1. s # "pending" /\ attempt' = attempt /\ held' = held /\ checked' = checked
      BY <1>0, <1>4
    <3> QED BY <1>0, <2>1, <2>3, <3>1, StatusUses
  <2>5. threads[i].task \notin Unstarted => ReadLeft' = ReadLeft
    <3> SUFFICES ASSUME threads[i].task \notin Unstarted PROVE ReadLeft' = ReadLeft
      OBVIOUS
    <3>1. CASE read = "pending"
      <4>1. <<attempt, head>> \in Tasks /\ <<attempt, head>>[1] = attempt
        BY <1>0, <3>1 DEF ChunksInv, ChunksTypeOK, Tasks
      <4>2. taskStatus[<<attempt, head>>] = "pending" <=> taskStatus'[<<attempt, head>>] = "pending"
        BY <1>0, <2>1, <2>3, <4>1 DEF Unstarted, ChunksTypeOK
      <4> QED BY <1>0, <4>2 DEF ReadLeft
    <3>2. CASE read # "pending"
      BY <1>0, <3>2 DEF ReadLeft
    <3> QED BY <3>1, <3>2
  <2> QED BY <1>1, <1>3, <2>2, <2>4, <2>5, OthersUse
<1>5. ASSUME NEW r \in Thread, threads' = [threads EXCEPT ![i] = r], taskStatus' = taskStatus,
             StepsOf(r) < StepsOf(threads[i])
      PROVE  LessLeft(DownloadLeft', DownloadLeft)
  <2>1. Running' = Running /\ threads'[i] = r /\ \A j \in Slots : j # i => threads'[j] = threads[j]
    BY <1>0, <1>5, GoingOn
  <2>2. StepsOf(r) \in 1..(Units + 3)
    BY StepsAreCounted
  <2>3. \A n \in 1..(Units + 3) : n =< StepsOf(r) => n =< StepsOf(threads[i])
    BY <1>2, <1>5, <2>2, ChunkedDownloadAssumption
  <2>4. \A j \in Running : StepsOf(threads'[j]) = IF j = i THEN StepsOf(r) ELSE StepsOf(threads[j])
    BY <2>1 DEF Running
  <2>5. ThreadsLeft' = {p \in Slots \X (1..(Units + 3)) : p[1] \in Running /\ p[2] =< StepsOf(threads'[p[1]])}
    BY <2>1 DEF ThreadsLeft, StepsOf
  <2>6. ~(StepsOf(threads[i]) =< StepsOf(r))
    BY <1>2, <1>5, <2>2, ChunkedDownloadAssumption
  <2>7. ThreadsLeft' \subseteq ThreadsLeft /\ <<i, StepsOf(threads[i])>> \notin ThreadsLeft'
    BY <1>0, <2>3, <2>4, <2>5, <2>6 DEF ThreadsLeft
  <2>8. Uncollected' = Uncollected /\ Unstarted' = Unstarted
    BY <1>0, <1>5, StatusStays
  <2>9. ReadLeft' = ReadLeft
    BY <1>0, <1>5 DEF ReadLeft
  <2> QED BY <1>1, <1>3, <2>7, <2>8, <2>9, OthersUse
<1> QED BY <1>4, <1>5, ThreadMoves

(* The manager's loop collects what is pending, and then has less of it. *)
LEMMA ManagerUses ==
  ASSUME ChunksInv, Collect \/ (\E t \in Tasks : Check(t)) \/ Start
  PROVE  LessLeft(DownloadLeft', DownloadLeft)
<1>0. ChunksTypeOK /\ held \subseteq Tasks /\ checked \in Tasks \cup {None}
      /\ UNCHANGED <<master, attempt, tries, head, read>>
  BY DEF ChunksInv, ChunksTypeOK, Collect, Check, Start, sched
<1>1. SameChunk
  BY <1>0 DEF SameChunk, AttemptsLeft, MasterLeft, ChunksLeft, TriesLeft
<1>2. IsFiniteSet(held) /\ Cardinality(held) \in Nat
  BY CountingLeft
<1>3. CASE Collect
  <2>1. taskStatus' = taskStatus /\ held = {} /\ checked = None /\ checked' = None
        /\ held' = {t \in Tasks : t[1] = attempt /\ taskStatus[t] = "pending"} /\ held' # {}
    BY <1>3 DEF Collect, sched
  <2>2. Unstarted' = held' /\ Unstarted = held'
    BY <1>0, <2>1 DEF Unstarted
  <2>3. \A t \in Tasks : t # None
    BY DEF Tasks, None
  <2>4. Uncollected = held'
    BY <2>1, <2>2, <2>3 DEF Uncollected
  <2>5. Uncollected' = {}
    BY <2>2 DEF Uncollected
  <2> QED BY <1>1, <2>1, <2>4, <2>5, OthersUse
<1>4. ASSUME NEW t \in Tasks, Check(t) PROVE LessLeft(DownloadLeft', DownloadLeft)
  <2>1. /\ taskStatus' = taskStatus /\ checked = None /\ t \in held /\ held' = held \ {t}
        /\ checked' = IF taskStatus[t] = "pending" THEN t ELSE None
    BY <1>4 DEF Check, sched
  <2>2. Unstarted' = Unstarted
    BY <1>0, <2>1 DEF Unstarted
  <2>3. Uncollected' \subseteq Uncollected
    <3>1. \A u \in Tasks : u # None
      BY DEF Tasks, None
    <3>2. ASSUME NEW u \in Uncollected' PROVE u \in Uncollected
      <4>1. u \in Unstarted /\ u \notin held' /\ u # checked'
        BY <2>2, <3>2 DEF Uncollected
      <4>2. u \in Tasks /\ taskStatus[u] = "pending"
        BY <4>1 DEF Unstarted
      <4>3. u # t
        BY <2>1, <4>1, <4>2
      <4> QED BY <2>1, <3>1, <4>1, <4>2, <4>3 DEF Uncollected
    <3> QED BY <3>2
  <2>4. Cardinality(held') = Cardinality(held) - 1
    BY <1>2, <2>1, FS_RemoveElement
  <2>5. ManagerLeft' < ManagerLeft
    <3>1. ManagerLeft = 2 * Cardinality(held)
      BY <1>2, <2>1 DEF ManagerLeft
    <3>2. ManagerLeft' =< 2 * Cardinality(held') + 1 /\ ManagerLeft' \in Int
      BY <1>2, <2>4 DEF ManagerLeft
    <3> QED BY <1>2, <2>4, <3>1, <3>2
  <2> QED BY <1>1, <2>2, <2>3, <2>5, OthersUse
<1>5. CASE Start
  <2>1. checked # None /\ checked \in Tasks /\ checked' = None /\ held' = held
    BY <1>0, <1>5 DEF Start
  <2>2. ManagerLeft' < ManagerLeft
    BY <1>2, <2>1 DEF ManagerLeft
  <2>3. CASE taskStatus[checked] = "downloading"
    <3>1. taskStatus' = taskStatus
      BY <1>5, <2>3 DEF Start
    <3>2. Unstarted' = Unstarted /\ Uncollected' \subseteq Uncollected
      BY <1>0, <2>1, <2>3, <3>1 DEF Unstarted, Uncollected
    <3> QED BY <1>1, <2>2, <3>2, OthersUse
  <2>4. CASE taskStatus[checked] # "downloading"
    <3>1. taskStatus' = [taskStatus EXCEPT ![checked] = "downloading"]
      BY <1>5, <2>4 DEF Start
    <3>2. /\ Uncollected' \subseteq Uncollected /\ Unstarted' \subseteq Unstarted
          /\ checked \in Unstarted => Unstarted' # Unstarted
          /\ checked \notin Unstarted => Unstarted' = Unstarted
      BY <1>0, <2>1, <3>1, StatusUses
    <3> QED BY <1>1, <2>2, <3>2, OthersUse
  <2> QED BY <2>3, <2>4
<1> QED BY <1>3, <1>4, <1>5

(* An attempt that is over leaves one less, or none. *)
LEMMA RetryUses ==
  ASSUME ChunksTypeOK, master \in {"own", "wait"}, NEW keep \in BOOLEAN, Retry(keep)
  PROVE  LessLeft(DownloadLeft', DownloadLeft)
<1>0. attempt \in 1..(MaxRetries + 1) /\ MaxRetries \in Nat
  BY ChunkedDownloadAssumption DEF ChunksTypeOK, Attempts
<1>1. CASE attempt > MaxRetries
  <2>1. attempt' = attempt /\ master' = "failed"
    BY <1>1 DEF Retry
  <2>2. AttemptsLeft' = AttemptsLeft /\ MasterLeft' < MasterLeft
    BY <2>1 DEF AttemptsLeft, MasterLeft
  <2> QED BY <2>2, MasterUses
<1>2. CASE ~(attempt > MaxRetries)
  <2>1. attempt' = attempt + 1
    BY <1>2 DEF Retry
  <2>2. AttemptsLeft' < AttemptsLeft
    BY <1>0, <2>1 DEF AttemptsLeft
  <2> QED BY <2>2, MasterUses
<1> QED BY <1>1, <1>2

(* Every step of the master takes from its attempts, its chunks, their tries *)
(* or what it has to read.                                                   *)
LEMMA MastersUse ==
  ASSUME ChunksInv, ServeInv, MasterStep \/ OwnFails
  PROVE  LessLeft(DownloadLeft', DownloadLeft)
<1>0. /\ ChunksTypeOK /\ attempt \in Nat /\ head \in 1..(NrChunks + 1)
      /\ (head \in Chunks => <<attempt, head>> \in Tasks)
      /\ NrChunks \in Nat /\ MaxRetries \in Nat /\ tries \in [Chunks -> 0..MaxRetries]
  BY ChunkedDownloadAssumption DEF ChunksInv, ChunksTypeOK, Chunks, Tasks, Attempts
<1>1. ASSUME attempt' = attempt, master' = master, head' = head + 1 PROVE LessLeft(DownloadLeft', DownloadLeft)
  <2>1. AttemptsLeft' = AttemptsLeft /\ MasterLeft' = MasterLeft /\ ChunksLeft' < ChunksLeft
    BY <1>0, <1>1 DEF AttemptsLeft, MasterLeft, ChunksLeft
  <2> QED BY <2>1, MasterUses
<1>2. CASE OnCompleted \/ Merge
  BY <1>1, <1>2 DEF OnCompleted, Merge, Pass
<1>3. CASE OwnDone \/ Finalize
  <2>1. AttemptsLeft' = AttemptsLeft /\ MasterLeft' < MasterLeft
    <3>1. attempt' = attempt /\ <<master, master'>> \in {<<"own", "wait">>, <<"wait", "done">>}
      BY <1>3 DEF OwnDone, Finalize
    <3> QED BY <3>1 DEF AttemptsLeft, MasterLeft
  <2> QED BY <2>1, MasterUses
<1>4. CASE MergeFails \/ GiveUp \/ OwnFails
  <2>1. PICK keep \in BOOLEAN : Retry(keep)
    BY <1>0, <1>4, EndingAttempt
  <2>2. master \in {"own", "wait"}
    BY <1>4 DEF MergeFails, GiveUp, OwnFails
  <2> QED BY <1>0, <2>1, <2>2, RetryUses
<1>5. CASE OnFailed
  <2>0. attempt' = attempt /\ master' = master /\ head \in Chunks
    BY <1>5 DEF OnFailed, ChunksInv
  <2>1. CASE tries[head] < MaxRetries
    <3>1. head' = head /\ tries' = [tries EXCEPT ![head] = @ + 1]
      BY <1>5, <2>1 DEF OnFailed
    <3>2. AttemptsLeft' = AttemptsLeft /\ MasterLeft' = MasterLeft /\ ChunksLeft' = ChunksLeft
      BY <2>0, <3>1 DEF AttemptsLeft, MasterLeft, ChunksLeft
    <3>3. tries'[head] = tries[head] + 1 /\ tries[head] \in 0..MaxRetries
      BY <1>0, <2>0, <3>1
    <3>4. TriesLeft' < TriesLeft
      BY <1>0, <2>0, <3>1, <3>3 DEF TriesLeft
    <3> QED BY <3>2, <3>4, MasterUses
  <2>2. CASE ~(tries[head] < MaxRetries)
    BY <1>1, <1>5, <2>0, <2>2 DEF OnFailed, Pass
  <2> QED BY <2>1, <2>2
<1>6. CASE Read
  <2>1. /\ UNCHANGED <<master, attempt, taskStatus, tries, head, held, checked>>
        /\ read = "none" /\ read' = taskStatus[<<attempt, head>>]
    BY <1>6 DEF Read, manager
  <2>2. SameChunk
    BY <2>1 DEF SameChunk, AttemptsLeft, MasterLeft, ChunksLeft, TriesLeft
  <2>3. Uncollected' = Uncollected /\ Unstarted' = Unstarted /\ ManagerLeft' = ManagerLeft
    BY <2>1, StatusStays
  <2>4. read' # "none"
    <3>1. head \in Chunks /\ <<attempt, head>>[1] = attempt
      BY <1>6 DEF Read
    <3> QED BY <1>0, <2>1, <3>1 DEF ServeInv, Made
  <2>5. ReadLeft' < ReadLeft
    BY <2>1, <2>4 DEF ReadLeft
  <2> QED BY <2>2, <2>3, <2>5, OthersUse
<1>7. CASE OnPending
  <2>0. attempt' = attempt /\ master' = master /\ head \in Chunks /\ read = "pending"
        /\ UNCHANGED <<tries, held, checked>>
    BY <1>7 DEF OnPending, ChunksInv, manager
  <2>1. CASE taskStatus[<<attempt, head>>] = "downloading"
    BY <1>1, <1>7, <2>0, <2>1 DEF OnPending, Pass
  <2>2. CASE taskStatus[<<attempt, head>>] # "downloading"
    <3>1. /\ head' = head /\ read' = "none"
          /\ taskStatus' = [taskStatus EXCEPT ![<<attempt, head>>] = "downloading"]
      BY <1>7, <2>2 DEF OnPending
    <3>2. SameChunk /\ ManagerLeft' = ManagerLeft
      BY <2>0, <3>1 DEF SameChunk, AttemptsLeft, MasterLeft, ChunksLeft, TriesLeft, ManagerLeft
    <3>3. /\ Uncollected' \subseteq Uncollected /\ Unstarted' \subseteq Unstarted
          /\ <<attempt, head>> \in Unstarted => Unstarted' # Unstarted
          /\ <<attempt, head>> \notin Unstarted => Unstarted' = Unstarted
      <4>1. attempt' = attempt /\ held' = held /\ checked' = checked /\ <<attempt, head>> \in Tasks
        BY <1>0, <2>0
      <4> QED BY <1>0, <3>1, <4>1, StatusUses
    <3>4. <<attempt, head>> \notin Unstarted => ReadLeft' < ReadLeft
      BY <1>0, <2>0, <3>1 DEF Unstarted, ReadLeft
    <3> QED BY <3>2, <3>3, <3>4, OthersUse
  <2> QED BY <2>1, <2>2
<1> QED BY <1>2, <1>3, <1>4, <1>5, <1>6, <1>7 DEF MasterStep

(* Every step of the master, of the manager's loop and of the threads uses   *)
(* something up, whatever fails and whichever of them starts a chunk: the    *)
(* tries of a chunk and the attempts run out, and a stale status is acted on *)
(* once (chunk.rs:1655, orchestration.rs:468). With MasterServed, the         *)
(* download ends.                                                            *)
THEOREM DownloadEnds == ChunksSpec => []LeftCounted /\ [][LessLeft(DownloadLeft', DownloadLeft)]_chunksVars
<1>1. ChunksInv => LeftCounted
  <2> SUFFICES ASSUME ChunksInv, NEW i \in 1..9 PROVE DownloadLeft[i] \in Nat
    BY DEF LeftCounted
  <2>1. i \in {1, 2, 3, 4, 5, 6, 7, 8, 9}
    OBVIOUS
  <2> QED BY <2>1, CountingLeft, TheLeft
<1>2. ChunksInv /\ ServeInv /\ [ChunksNext]_chunksVars => [LessLeft(DownloadLeft', DownloadLeft)]_chunksVars
  <2> SUFFICES ASSUME ChunksInv, ServeInv, ChunksNext PROVE LessLeft(DownloadLeft', DownloadLeft)
    OBVIOUS
  <2> QED BY ThreadsUse, ManagerUses, MastersUse DEF ChunksNext, Others
<1> QED BY <1>1, <1>2, ServeInductive, ChunksInductive, PTL DEF ChunksSpec
=============================================================================
