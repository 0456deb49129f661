-------------------------- MODULE GenerationsProofs --------------------------
(***************************************************************************)
(* Theorems of Generations, for every set of packages and every bound: the  *)
(* history of complete generations, and what commands cut short damage.     *)
(***************************************************************************)
EXTENDS Generations, TLAPS

LEMMA FileTypes == /\ Absent \in File
                   /\ Torn \in File
                   /\ \A s \in SUBSET Pkgs : Whole(s) \in File /\ Whole(s).st = "whole"
                                             /\ Whole(s).val = s
BY DEF File, Absent, Torn, Whole

LEMMA ReadTypes ==
  ASSUME TypeOK
  PROVE  /\ CurrentId \in GenId
         /\ LoadView \subseteq Pkgs
<1>1. CurrentId \in GenId
  BY GenerationsAssumption DEF TypeOK, CurrentId, GenId, NoLink
<1>2. LoadView \subseteq Pkgs
  BY <1>1 DEF TypeOK, LoadView, GenDir, File
<1> QED BY <1>1, <1>2

LEMMA FreshType == Fresh \in Mem
BY GenerationsAssumption DEF Fresh, Mem, GenId

LEMMA BeginType ==
  ASSUME TypeOK, NEW p \in Procs, NEW kind \in {"install", "remove", "restore"},
         NEW target \in GenId, NEW world \in SUBSET Pkgs, NEW new \in SUBSET Pkgs,
         NEW rem \in SUBSET Pkgs, Begin(p, kind, target, world, new, rem)
  PROVE  TypeOK'
<1> DEFINE m == [kind |-> kind, target |-> target, cache |-> LoadView, world |-> world,
                 new |-> new, rem |-> rem, todo |-> new, id |-> 0]
<1>1. m \in Mem
  BY ReadTypes, GenerationsAssumption DEF Mem, GenId
<1>2. mem' = [mem EXCEPT ![p] = m] /\ pc' = [pc EXCEPT ![p] = "link"]
  BY DEF Begin
<1> QED BY <1>1, <1>2 DEF TypeOK, Begin, Steps

(* Writing one file of one generation. *)
LEMMA WriteFile ==
  ASSUME gen \in [GenId -> GenDir], NEW g \in GenId, NEW f \in File
  PROVE  /\ [gen EXCEPT ![g].made = TRUE] \in [GenId -> GenDir]
         /\ [gen EXCEPT ![g].command = f] \in [GenId -> GenDir]
         /\ [gen EXCEPT ![g].installed = f] \in [GenId -> GenDir]
         /\ [gen EXCEPT ![g].world = f] \in [GenId -> GenDir]
         /\ [gen EXCEPT ![g].made = TRUE, ![g].command = f] \in [GenId -> GenDir]
BY DEF GenDir

LEMMA InitType == Init => TypeOK
BY FileTypes, FreshType, GenerationsAssumption
   DEF Init, TypeOK, GenId, NoLink, GenDir, NoDir

LEMMA NextType == TypeOK /\ [Next]_vars => TypeOK'
<1> SUFFICES ASSUME TypeOK, [Next]_vars PROVE TypeOK'
  OBVIOUS
<1>1. CASE UNCHANGED vars
  BY <1>1 DEF vars, TypeOK
<1>2. CASE Next
  <2> PICK p \in Procs :
          \/ StartInstall(p) \/ StartRemove(p) \/ StartRestore(p)
          \/ LinkPackage(p) \/ LinkDone(p) \/ SavePending(p)
          \/ TransactNew(p) \/ TransactOld(p) \/ TransactDone(p) \/ DropPending(p)
          \/ CreateGeneration(p) \/ RecordHistory(p) \/ SaveInstalled(p) \/ SaveWorld(p)
          \/ UnlinkCurrent(p) \/ RelinkCurrent(p)
          \/ Die(p)
    BY <1>2 DEF Next
  <2>m. mem[p] \in Mem
    BY DEF TypeOK
  <2>1. CASE StartInstall(p)
    <3>1. PICK new \in SUBSET (Pkgs \ LoadView), rem \in SUBSET LoadView :
             Begin(p, "install", 0, gen[CurrentId].world.val \cup new, new, rem)
      BY <2>1 DEF StartInstall
    <3>2. gen[CurrentId].world.val \cup new \in SUBSET Pkgs
      BY ReadTypes DEF TypeOK, GenDir, File
    <3> QED BY <3>1, <3>2, BeginType, ReadTypes, GenerationsAssumption DEF GenId
  <2>2. CASE StartRemove(p)
    <3>1. PICK rem \in SUBSET LoadView :
             Begin(p, "remove", 0, gen[CurrentId].world.val \ rem, {}, rem)
      BY <2>2 DEF StartRemove
    <3>2. gen[CurrentId].world.val \ rem \in SUBSET Pkgs
      BY ReadTypes DEF TypeOK, GenDir, File
    <3> QED BY <3>1, <3>2, BeginType, ReadTypes, GenerationsAssumption DEF GenId
  <2>3. CASE StartRestore(p)
    <3>1. PICK t \in GenId :
             Begin(p, "restore", t, {}, gen[t].installed.val \ LoadView,
                                        LoadView \ gen[t].installed.val)
      BY <2>3 DEF StartRestore
    <3>2. gen[t].installed.val \in SUBSET Pkgs
      BY DEF TypeOK, GenDir, File
    <3> QED BY <3>1, <3>2, BeginType, ReadTypes
  <2>4. CASE LinkPackage(p)
    BY <2>4, <2>m DEF LinkPackage, TypeOK, Mem
  <2>5. CASE LinkDone(p)
    BY <2>5 DEF LinkDone, Goto, TypeOK, Steps
  <2>6. CASE SavePending(p)
    <3>1. mem[p].new \in SUBSET Pkgs /\ mem[p].rem \in SUBSET Pkgs
      BY <2>m DEF Mem
    <3>2. pending' \in File
      BY <2>6, <3>1, FileTypes DEF SavePending, TypeOK
    <3>3. mem' \in [Procs -> Mem]
      BY <2>6, <2>m, <3>1 DEF SavePending, TypeOK, Mem
    <3> QED BY <2>6, <3>2, <3>3 DEF SavePending, Goto, TypeOK, Steps
  <2>7. CASE TransactNew(p)
    <3>1. PICK x \in mem[p].todo :
             mem' = [mem EXCEPT ![p].todo = @ \ {x}, ![p].cache = @ \cup {x}]
      BY <2>7 DEF TransactNew
    <3> DEFINE m == [mem[p] EXCEPT !.todo = mem[p].todo \ {x},
                                  !.cache = mem[p].cache \cup {x}]
    <3>2. mem' = [mem EXCEPT ![p] = m]
      BY <3>1, <2>m DEF TypeOK
    <3>3. m \in Mem
      BY <2>m DEF Mem
    <3> HIDE DEF m
    <3> QED BY <2>7, <3>2, <3>3 DEF TransactNew, TypeOK
  <2>8. CASE TransactOld(p)
    <3>1. PICK x \in mem[p].todo :
             mem' = [mem EXCEPT ![p].todo = @ \ {x}, ![p].cache = @ \ {x}]
      BY <2>8 DEF TransactOld
    <3> DEFINE m == [mem[p] EXCEPT !.todo = mem[p].todo \ {x},
                                  !.cache = mem[p].cache \ {x}]
    <3>2. mem' = [mem EXCEPT ![p] = m]
      BY <3>1, <2>m DEF TypeOK
    <3>3. m \in Mem
      BY <2>m DEF Mem
    <3> HIDE DEF m
    <3> QED BY <2>8, <3>2, <3>3 DEF TransactOld, TypeOK
  <2>9. CASE TransactDone(p)
    BY <2>9, <2>m DEF TransactDone, Goto, TypeOK, Steps, Mem
  <2>10. CASE DropPending(p)
    BY <2>10, FileTypes DEF DropPending, Goto, TypeOK, Steps
  <2>11. CASE CreateGeneration(p)
    <3>1. CurrentId + 1 \in GenId
      BY <2>11, ReadTypes, GenerationsAssumption DEF CreateGeneration, GenId
    <3>2. gen[CurrentId].command \in File /\ gen[CurrentId + 1] \in GenDir
      BY <3>1, ReadTypes DEF TypeOK, GenDir
    <3> QED BY <2>11, <2>m, <3>1, <3>2
            DEF CreateGeneration, CreateAs, Goto, TypeOK, Steps, GenDir, Mem
  <2>12. CASE RecordHistory(p)
    <3>1. mem[p].id \in GenId /\ Whole(mem[p].new) \in File
      BY <2>m, FileTypes DEF Mem
    <3>2. gen' \in [GenId -> GenDir]
      BY <2>12, <3>1, WriteFile DEF RecordHistory, TypeOK
    <3> QED BY <2>12, <3>2 DEF RecordHistory, Goto, TypeOK, Steps
  <2>13. CASE SaveInstalled(p)
    <3>1. mem[p].id \in GenId /\ Whole(mem[p].cache) \in File
      BY <2>m, FileTypes DEF Mem
    <3>2. gen' \in [GenId -> GenDir]
      BY <2>13, <3>1, WriteFile DEF SaveInstalled, TypeOK
    <3> QED BY <2>13, <3>2 DEF SaveInstalled, Goto, TypeOK, Steps
  <2>14. CASE SaveWorld(p)
    <3>1. mem[p].id \in GenId /\ Whole(mem[p].world) \in File
      BY <2>m, FileTypes DEF Mem
    <3>2. gen' \in [GenId -> GenDir]
      BY <2>14, <3>1, WriteFile DEF SaveWorld, TypeOK
    <3> QED BY <2>14, <3>2 DEF SaveWorld, Goto, TypeOK, Steps
  <2>15. CASE UnlinkCurrent(p)
    BY <2>15 DEF UnlinkCurrent, Goto, TypeOK, Steps
  <2>16. CASE RelinkCurrent(p)
    <3>1. mem[p].id \in GenId /\ mem[p].new \in SUBSET Pkgs /\ mem[p].rem \in SUBSET Pkgs
      BY <2>m DEF Mem
    <3>2. mem' \in [Procs -> Mem] /\ pc' \in [Procs -> Steps \cup {"idle"}]
      BY <2>16, FreshType DEF RelinkCurrent, Finish, Goto, TypeOK
    <3>3. CASE current = NoLink
      BY <2>16, <3>1, <3>2, <3>3 DEF RelinkCurrent, TypeOK
    <3>4. CASE current # NoLink
      BY <2>16, <3>1, <3>2, <3>4 DEF RelinkCurrent, TypeOK
    <3> QED BY <3>3, <3>4
  <2>17. CASE Die(p)
    <3> DEFINE n == IF CurrentId < MaxGen THEN CurrentId + 1 ELSE MaxGen
    <3>1. gen' \in [GenId -> GenDir]
      <4>1. n \in GenId
        BY ReadTypes, GenerationsAssumption DEF GenId
      <4>2. mem[p].id \in GenId /\ Torn \in File
        BY <2>m, FileTypes DEF Mem
      <4>3. \/ gen' = gen
            \/ gen' = [gen EXCEPT ![n].made = TRUE]
            \/ gen' = [gen EXCEPT ![n].made = TRUE, ![n].command = Torn]
            \/ gen' = [gen EXCEPT ![mem[p].id].command = Torn]
            \/ gen' = [gen EXCEPT ![mem[p].id].installed = Torn]
            \/ gen' = [gen EXCEPT ![mem[p].id].world = Torn]
        BY <2>17 DEF Die, TornGens
      <4> HIDE DEF n
      <4>4. gen \in [GenId -> GenDir]
        BY DEF TypeOK
      <4>5. /\ [gen EXCEPT ![n].made = TRUE] \in [GenId -> GenDir]
            /\ [gen EXCEPT ![n].made = TRUE, ![n].command = Torn] \in [GenId -> GenDir]
        BY <4>1, <4>2, <4>4, WriteFile
      <4>6. \A f \in {mem[p].id} :
              /\ [gen EXCEPT ![f].command = Torn] \in [GenId -> GenDir]
              /\ [gen EXCEPT ![f].installed = Torn] \in [GenId -> GenDir]
              /\ [gen EXCEPT ![f].world = Torn] \in [GenId -> GenDir]
        BY <4>2, <4>4, WriteFile
      <4> QED BY <4>3, <4>4, <4>5, <4>6
    <3>2. pending' \in File
      BY <2>17, FileTypes DEF Die, TornPendings, TypeOK
    <3> QED BY <2>17, <2>m, <3>1, <3>2, FreshType DEF Die, Finish, Goto, TypeOK, Mem
  <2> QED BY <2>1, <2>2, <2>3, <2>4, <2>5, <2>6, <2>7, <2>8, <2>9, <2>10, <2>11,
             <2>12, <2>13, <2>14, <2>15, <2>16, <2>17
<1> QED BY <1>1, <1>2

(* Every file, link and cache keeps its type, whatever processes run and    *)
(* wherever they die: no generation number outside 0..MaxGen is written     *)
(* (history.rs:57-58).                                                      *)
THEOREM TypeCorrect == Spec => []TypeOK
BY InitType, NextType, PTL DEF Spec

-----------------------------------------------------------------------------
(* One process at a time, never cut short between removing the link and     *)
(* making it anew: without the second, the history restarts at 1            *)
(* (history.rs:75); without the first, two commands number the same         *)
(* generation.                                                              *)
Alone == /\ \A p, q \in Procs : p = q
         /\ "relink" \notin DiePoints

Complete(g) == /\ gen[g].made
               /\ gen[g].command.st = "whole"
               /\ gen[g].installed.st = "whole"
               /\ gen[g].world.st = "whole"

(* The steps from which the new directory, or one of its files, is whole. *)
Made == {"record", "installed", "world", "unlink", "relink"}

(* What a process that writes a generation has written so far, in the       *)
(* directory after the highest generation.                                  *)
Written(p) ==
  /\ pc[p] # "idle" => top < MaxGen
  /\ pc[p] \in Made => mem[p].id = top + 1 /\ gen[mem[p].id].made
  /\ pc[p] \in Made \ {"record"} => gen[mem[p].id].command.st = "whole"
  /\ pc[p] \in {"world", "unlink", "relink"} => gen[mem[p].id].installed.st = "whole"
  /\ pc[p] \in {"unlink", "relink"} => gen[mem[p].id].world.st = "whole"

(* The link is away only while it is being switched; otherwise it names the *)
(* highest generation, and all up to there are complete.                    *)
IInv == /\ TypeOK
        /\ current = NoLink => \E p \in Procs : pc[p] = "relink"
        /\ current # NoLink => current = top /\ \A p \in Procs : pc[p] # "relink"
        /\ \A g \in 0..top : Complete(g)
        /\ \A p \in Procs : Written(p)

(* What a step may change in generations/: nothing, or the generation after *)
(* the highest one.                                                         *)
LEMMA StepWrites ==
  ASSUME Alone, IInv, NEW p \in Procs,
         \/ CreateGeneration(p) \/ RecordHistory(p) \/ SaveInstalled(p)
         \/ SaveWorld(p) \/ Die(p)
  PROVE  /\ top' = top
         /\ current' = current
         /\ top + 1 \in GenId
         /\ \A g \in GenId : g # top + 1 => gen'[g] = gen[g]
<1> USE DEF IInv
<1>1. top \in GenId /\ top < MaxGen /\ mem[p] \in Mem
  <2>1. pc[p] # "idle"
    BY GenerationsAssumption
       DEF CreateGeneration, RecordHistory, SaveInstalled, SaveWorld, Die, Steps
  <2> QED BY <2>1 DEF Written, TypeOK
<1>2. top + 1 \in GenId /\ top \in 0..MaxGen /\ MaxGen \in Nat
  BY <1>1, GenerationsAssumption DEF GenId
<1>3. pc[p] = "create" => CurrentId = top
  BY <1>2 DEF Alone, CurrentId
<1>4. pc[p] \in Made => mem[p].id = top + 1
  BY DEF Written
<1>5. CASE CreateGeneration(p)
  BY <1>2, <1>3, <1>5 DEF CreateGeneration, CreateAs, TypeOK
<1>6. CASE RecordHistory(p)
  BY <1>2, <1>4, <1>6 DEF RecordHistory, Made, TypeOK
<1>7. CASE SaveInstalled(p)
  BY <1>2, <1>4, <1>7 DEF SaveInstalled, Made, TypeOK
<1>8. CASE SaveWorld(p)
  BY <1>2, <1>4, <1>8 DEF SaveWorld, Made, TypeOK
<1>9. CASE Die(p)
  <2>1. /\ top' = top
        /\ current' = current
        /\ gen' \in TornGens(p)
    BY <1>9 DEF Die
  <2>2. CASE pc[p] = "create"
    BY <1>1, <1>2, <1>3, <2>1, <2>2 DEF TornGens, TypeOK
  <2>3. CASE pc[p] \in {"record", "installed", "world"}
    BY <1>2, <1>4, <2>1, <2>3 DEF TornGens, Made, TypeOK
  <2>4. CASE pc[p] \notin {"create", "record", "installed", "world"}
    BY <1>2, <2>1, <2>4 DEF TornGens
  <2> QED BY <1>2, <2>1, <2>2, <2>3, <2>4
<1> QED BY <1>5, <1>6, <1>7, <1>8, <1>9

LEMMA InitIInv == Init => IInv
<1> SUFFICES ASSUME Init PROVE IInv
  OBVIOUS
<1>1. TypeOK
  BY InitType
<1>2. current = 0 /\ top = 0 /\ 0 # NoLink /\ 0..top = {0} /\ 0 \in GenId
  BY GenerationsAssumption DEF Init, NoLink, GenId
<1>3. Complete(0)
  BY <1>2, FileTypes DEF Init, Complete
<1> QED BY <1>1, <1>2, <1>3 DEF Init, IInv, Written, Made

LEMMA NextIInv == ASSUME Alone PROVE IInv /\ [Next]_vars => IInv'
<1> SUFFICES ASSUME IInv, [Next]_vars PROVE IInv'
  OBVIOUS
<1>t. TypeOK'
  BY NextType DEF IInv
<1>n. /\ top \in Nat /\ MaxGen \in Nat /\ top =< MaxGen
      /\ NoLink = MaxGen + 1
      /\ GenId = 0..MaxGen
  BY GenerationsAssumption DEF IInv, TypeOK, GenId, NoLink
<1>1. CASE UNCHANGED vars
  BY <1>1, <1>t DEF vars, IInv, Written, Complete
<1>2. CASE Next
  <2> PICK p \in Procs :
          \/ StartInstall(p) \/ StartRemove(p) \/ StartRestore(p)
          \/ LinkPackage(p) \/ LinkDone(p) \/ SavePending(p)
          \/ TransactNew(p) \/ TransactOld(p) \/ TransactDone(p) \/ DropPending(p)
          \/ CreateGeneration(p) \/ RecordHistory(p) \/ SaveInstalled(p) \/ SaveWorld(p)
          \/ UnlinkCurrent(p) \/ RelinkCurrent(p)
          \/ Die(p)
    BY <1>2 DEF Next
  <2>p. \A q \in Procs : q = p
    BY DEF Alone
  <2>i. /\ TypeOK
        /\ pc \in [Procs -> Steps \cup {"idle"}] /\ mem \in [Procs -> Mem]
        /\ gen \in [GenId -> GenDir]
        /\ current = NoLink <=> pc[p] = "relink"
        /\ current # NoLink => current = top
        /\ \A g \in 0..top : Complete(g)
        /\ Written(p)
    BY <2>p DEF IInv, TypeOK
  <2>s. ASSUME Written(p)', \A g \in 0..top' : Complete(g)',
               current' = NoLink <=> pc'[p] = "relink",
               current' # NoLink => current' = top'
        PROVE  IInv'
    BY <1>t, <2>p, <2>s DEF IInv
  <2>1. CASE StartInstall(p) \/ StartRemove(p) \/ StartRestore(p)
    <3>1. /\ UNCHANGED <<gen, current, top>>
          /\ pc' = [pc EXCEPT ![p] = "link"]
          /\ pc[p] = "idle"
          /\ CurrentId < MaxGen
      BY <2>1 DEF StartInstall, StartRemove, StartRestore, Begin, CanBegin
    <3>2. pc'[p] = "link" /\ top < MaxGen
      BY <2>i, <3>1 DEF CurrentId
    <3> QED BY <2>i, <2>s, <3>1, <3>2 DEF Written, Made, Complete
  <2>2. CASE LinkPackage(p) \/ TransactNew(p) \/ TransactOld(p)
    <3>1. UNCHANGED <<gen, current, top, pc>> /\ pc[p] \in {"link", "transact"}
      BY <2>2 DEF LinkPackage, TransactNew, TransactOld
    <3> QED BY <2>i, <2>s, <3>1 DEF Written, Made, Complete
  <2>3. CASE LinkDone(p) \/ SavePending(p) \/ TransactDone(p) \/ DropPending(p)
    <3>1. /\ UNCHANGED <<gen, current, top>>
          /\ pc[p] \notin {"idle", "relink"}
          /\ \E s \in {"pending", "transact", "drop", "create"} :
                pc' = [pc EXCEPT ![p] = s]
      BY <2>3 DEF LinkDone, SavePending, TransactDone, DropPending, Goto
    <3>2. pc'[p] \in {"pending", "transact", "drop", "create"}
      BY <2>i, <3>1
    <3> QED BY <2>i, <2>s, <3>1, <3>2 DEF Written, Made, Complete
  <2>4. CASE CreateGeneration(p) \/ RecordHistory(p) \/ SaveInstalled(p) \/ SaveWorld(p)
    <3>1. /\ top' = top
          /\ current' = current
          /\ top + 1 \in GenId
          /\ \A g \in GenId : g # top + 1 => gen'[g] = gen[g]
      BY <2>4, StepWrites DEF IInv
    <3>2. \A g \in 0..top' : Complete(g)'
      BY <1>n, <2>i, <3>1 DEF Complete
    <3>3. pc'[p] \in Made \ {"relink"} /\ pc[p] \notin {"idle", "relink"}
      BY <2>4, <2>i DEF CreateGeneration, CreateAs, RecordHistory, SaveInstalled, SaveWorld,
                        Goto, Made
    <3>4. top < MaxGen
      BY <2>i, <3>3 DEF Written
    <3>5. Written(p)'
      <4>1. CASE CreateGeneration(p)
        <5>1. mem'[p].id = top + 1 /\ pc'[p] = "record" /\ gen'[top + 1].made
          BY <1>n, <2>i, <3>1, <4>1
             DEF CreateGeneration, CreateAs, Goto, CurrentId, GenDir, Mem
        <5> QED BY <3>1, <3>4, <5>1 DEF Written, Made
      <4>2. CASE RecordHistory(p)
        <5>1. /\ mem' = mem /\ mem[p].id = top + 1 /\ pc'[p] = "installed"
              /\ gen[top + 1].made
          BY <2>i, <4>2 DEF RecordHistory, Goto, Written, Made
        <5>2. gen'[top + 1] = [gen[top + 1] EXCEPT !.command = Whole(mem[p].new)]
          BY <2>i, <3>1, <4>2, <5>1 DEF RecordHistory
        <5>3. gen'[top + 1].made /\ gen'[top + 1].command.st = "whole"
          BY <2>i, <3>1, <5>1, <5>2 DEF GenDir, Whole
        <5> QED BY <3>1, <3>4, <5>1, <5>3 DEF Written, Made
      <4>3. CASE SaveInstalled(p)
        <5>1. /\ mem' = mem /\ mem[p].id = top + 1 /\ pc'[p] = "world"
              /\ gen[top + 1].made /\ gen[top + 1].command.st = "whole"
          BY <2>i, <4>3 DEF SaveInstalled, Goto, Written, Made
        <5>2. gen'[top + 1] = [gen[top + 1] EXCEPT !.installed = Whole(mem[p].cache)]
          BY <2>i, <3>1, <4>3, <5>1 DEF SaveInstalled
        <5>3. /\ gen'[top + 1].made /\ gen'[top + 1].command.st = "whole"
              /\ gen'[top + 1].installed.st = "whole"
          BY <2>i, <3>1, <5>1, <5>2 DEF GenDir, Whole
        <5> QED BY <3>1, <3>4, <5>1, <5>3 DEF Written, Made
      <4>4. CASE SaveWorld(p)
        <5>1. /\ mem' = mem /\ mem[p].id = top + 1 /\ pc'[p] = "unlink"
              /\ gen[top + 1].made /\ gen[top + 1].command.st = "whole"
              /\ gen[top + 1].installed.st = "whole"
          BY <2>i, <4>4 DEF SaveWorld, Goto, Written, Made
        <5>2. gen'[top + 1] = [gen[top + 1] EXCEPT !.world = Whole(mem[p].world)]
          BY <2>i, <3>1, <4>4, <5>1 DEF SaveWorld
        <5>3. /\ gen'[top + 1].made /\ gen'[top + 1].command.st = "whole"
              /\ gen'[top + 1].installed.st = "whole" /\ gen'[top + 1].world.st = "whole"
          BY <2>i, <3>1, <5>1, <5>2 DEF GenDir, Whole
        <5> QED BY <3>1, <3>4, <5>1, <5>3 DEF Written, Made
      <4> QED BY <2>4, <4>1, <4>2, <4>3, <4>4
    <3> QED BY <2>i, <2>s, <3>1, <3>2, <3>3, <3>5
  <2>5. CASE UnlinkCurrent(p)
    <3>1. /\ UNCHANGED <<gen, top, mem>> /\ current' = NoLink
          /\ pc[p] = "unlink" /\ pc'[p] = "relink"
      BY <2>5, <2>i DEF UnlinkCurrent, Goto
    <3> QED BY <2>i, <2>s, <3>1 DEF Written, Made, Complete
  <2>6. CASE RelinkCurrent(p)
    <3>1. /\ mem[p].id = top + 1 /\ Complete(top + 1) /\ top < MaxGen
          /\ current = NoLink
      BY <2>6, <2>i DEF RelinkCurrent, Written, Made, Complete
    <3>2. /\ gen' = gen /\ current' = top + 1 /\ top' = top + 1 /\ pc'[p] = "idle"
      BY <1>n, <2>6, <2>i, <3>1 DEF RelinkCurrent, Finish, Goto
    <3>3. \A g \in 0..top' : Complete(g)'
      BY <1>n, <2>i, <3>1, <3>2 DEF Complete
    <3> QED BY <1>n, <2>s, <3>1, <3>2, <3>3 DEF Written, Made
  <2>7. CASE Die(p)
    <3>1. /\ top' = top
          /\ current' = current
          /\ top + 1 \in GenId
          /\ \A g \in GenId : g # top + 1 => gen'[g] = gen[g]
      BY <2>7, StepWrites DEF IInv
    <3>2. \A g \in 0..top' : Complete(g)'
      BY <1>n, <2>i, <3>1 DEF Complete
    <3>3. pc'[p] = "idle" /\ pc[p] # "relink"
      BY <2>7, <2>i DEF Die, Finish, Goto, Alone
    <3> QED BY <2>i, <2>s, <3>1, <3>2, <3>3 DEF Written, Made
  <2> QED BY <2>1, <2>2, <2>3, <2>4, <2>5, <2>6, <2>7
<1> QED BY <1>1, <1>2

(* With one process at a time the invariant always holds. *)
THEOREM Invariant == ASSUME Alone PROVE Spec => []IInv
BY InitIInv, NextIInv, PTL DEF Spec

(* The generation the link names has all its files whole, wherever the      *)
(* command that wrote it or a later one was cut short (install.rs:315-319   *)
(* switches the link last).                                                 *)
THEOREM CurrentIsComplete == ASSUME Alone PROVE Spec => []CurrentComplete
<1>1. IInv => CurrentComplete
  <2> SUFFICES ASSUME IInv, current # NoLink PROVE Complete(current)
    BY DEF CurrentComplete, Complete
  <2>1. current = top /\ top \in 0..top
    BY DEF IInv, TypeOK, GenId
  <2> QED BY <2>1 DEF IInv
<1> QED BY <1>1, Invariant, PTL

(* A step leaves the generations up to the highest as they are; it may make *)
(* the next one, whole by then, the highest.                                *)
LEMMA StepHistory ==
  ASSUME Alone, IInv, [Next]_vars
  PROVE  \/ top' = top /\ \A g \in 0..top : gen'[g] = gen[g]
         \/ top' = top + 1 /\ top < MaxGen /\ gen' = gen
<1>n. top \in Nat /\ MaxGen \in Nat /\ top =< MaxGen /\ GenId = 0..MaxGen
  BY GenerationsAssumption DEF IInv, TypeOK, GenId
<1>1. CASE UNCHANGED vars
  BY <1>1 DEF vars
<1>2. CASE Next
  <2> PICK p \in Procs :
          \/ StartInstall(p) \/ StartRemove(p) \/ StartRestore(p)
          \/ LinkPackage(p) \/ LinkDone(p) \/ SavePending(p)
          \/ TransactNew(p) \/ TransactOld(p) \/ TransactDone(p) \/ DropPending(p)
          \/ CreateGeneration(p) \/ RecordHistory(p) \/ SaveInstalled(p) \/ SaveWorld(p)
          \/ UnlinkCurrent(p) \/ RelinkCurrent(p)
          \/ Die(p)
    BY <1>2 DEF Next
  <2>1. CASE \/ CreateGeneration(p) \/ RecordHistory(p) \/ SaveInstalled(p)
             \/ SaveWorld(p) \/ Die(p)
    BY <1>n, <2>1, StepWrites
  <2>2. CASE RelinkCurrent(p)
    <3>1. mem[p].id = top + 1 /\ top < MaxGen /\ current = NoLink
      BY <2>2 DEF RelinkCurrent, IInv, Written, Made
    <3> QED BY <1>n, <2>2, <3>1 DEF RelinkCurrent
  <2>3. CASE StartInstall(p) \/ StartRemove(p) \/ StartRestore(p)
    BY <2>3 DEF StartInstall, StartRemove, StartRestore, Begin
  <2>4. CASE \/ LinkPackage(p) \/ LinkDone(p) \/ SavePending(p) \/ TransactNew(p)
             \/ TransactOld(p) \/ TransactDone(p) \/ DropPending(p)
             \/ UnlinkCurrent(p)
    BY <2>4 DEF LinkPackage, LinkDone, SavePending, TransactNew, TransactOld,
                TransactDone, DropPending, UnlinkCurrent
  <2> QED BY <2>1, <2>2, <2>3, <2>4
<1> QED BY <1>1, <1>2

(* What a generation that was once current holds never changes, so that a   *)
(* restore to it gives what it gave then, although create_new_generation    *)
(* reuses directories (history.rs:61).                                      *)
THEOREM HistoryIsImmutable == ASSUME Alone PROVE Spec => HistoryImmutable
<1>1. IInv /\ [Next]_vars => [\A g \in 0..top : gen'[g] = gen[g]]_vars
  BY StepHistory
<1> QED BY <1>1, Invariant, PTL DEF Spec, HistoryImmutable

(* Last of EnvHistory is top. *)
LEMMA LastIsTop ==
  ASSUME TypeOK
  PROVE  History!Last = top
<1>1. top \in 0..MaxGen /\ MaxGen \in Nat
  BY GenerationsAssumption DEF TypeOK, GenId
<1>2. \A n \in 0..MaxGen : 0..top = 0..n => n = top
  BY <1>1
<1> QED BY <1>1, <1>2 DEF History!Last

(* Generations implements EnvHistory: each command that completes appends   *)
(* one generation to the history (history.rs:31-36), and one that does not  *)
(* leaves the history alone.                                                *)
THEOREM ImplementsHistory == ASSUME Alone PROVE Spec => HistorySpec
<1> DEFINE h == [g \in 0..top |-> gen[g].installed.val]
<1>1. Init => History!Init
  BY GenerationsAssumption, FileTypes DEF Init, History!Init, GenId
<1>2. IInv /\ [Next]_vars => [History!Next]_h
  <2> SUFFICES ASSUME IInv, [Next]_vars PROVE History!Next \/ h' = h
    OBVIOUS
  <2>n. top \in Nat /\ MaxGen \in Nat /\ top =< MaxGen
    BY GenerationsAssumption DEF IInv, TypeOK, GenId
  <2>1. CASE top' = top /\ \A g \in 0..top : gen'[g] = gen[g]
    BY <2>1
  <2>2. CASE top' = top + 1 /\ top < MaxGen /\ gen' = gen
    <3> DEFINE content == gen[top + 1].installed.val
    <3>1. content \in SUBSET Pkgs
      BY <2>n, <2>2 DEF IInv, TypeOK, GenId, GenDir, File
    <3>2. h' = [g \in 0..(top + 1) |-> IF g \in DOMAIN h THEN h[g] ELSE content]
      BY <2>n, <2>2
    <3>3. History!Last = top
      BY LastIsTop DEF IInv
    <3> QED BY <2>2, <3>1, <3>2, <3>3 DEF History!Next, History!Commit
  <2> QED BY <2>1, <2>2, StepHistory
<1> QED BY <1>1, <1>2, Invariant, PTL DEF Spec, HistorySpec, History!Spec
-----------------------------------------------------------------------------
(* DamageIsLocal.  The link, the files and the cache of a command disagree  *)
(* while it runs, but only on its own plan, in which it makes progress: new *)
(* packages get their files, then their entry; old ones lose both at once.  *)

Recorded == gen[top].installed.val
Plan(p) == mem[p].new \cup mem[p].rem
Disturbed(x) == x \in dirty \/ \E p \in Procs : x \in Plan(p)

Progress(p) ==
  /\ pc[p] = "idle" => Plan(p) = {}
  /\ mem[p].new \cap mem[p].rem = {}
  /\ pc[p] # "idle" => \A x \in Pkgs \ (dirty \cup Plan(p)) : x \in mem[p].cache <=> x \in Recorded
  /\ pc[p] = "link" => mem[p].todo \subseteq mem[p].new /\ mem[p].new \ mem[p].todo \subseteq env
  /\ pc[p] # "link" => mem[p].new \subseteq env
  /\ pc[p] = "transact" => /\ mem[p].new \ mem[p].todo \subseteq mem[p].cache
                           /\ (mem[p].rem \ mem[p].todo) \cap (mem[p].cache \cup env) = {}
  /\ pc[p] \in {"drop", "create"} \cup Made => /\ mem[p].new \subseteq mem[p].cache
                                               /\ mem[p].rem \cap (mem[p].cache \cup env) = {}
  /\ pc[p] \in {"create"} \cup Made => pending.st # "whole"
  /\ pc[p] \in {"world", "unlink", "relink"} => gen[mem[p].id].installed.val = mem[p].cache

LocalInv ==
  /\ \A x \in Pkgs : Disturbed(x) \/ (x \in env <=> x \in Recorded)
  /\ pending.st = "whole" => \A x \in pending.val : Disturbed(x)
  /\ \A p \in Procs : Progress(p)

LEMMA InitLocalInv == Init => LocalInv
<1> SUFFICES ASSUME Init PROVE LocalInv
  OBVIOUS
<1>1. Recorded = {} /\ env = {} /\ pending.st # "whole"
  <2>1. top = 0 /\ 0 \in GenId /\ env = {} /\ pending = Absent
    BY GenerationsAssumption DEF Init, GenId
  <2>2. gen[0].installed = Whole({})
    BY <2>1 DEF Init
  <2> QED
    BY <2>1, <2>2 DEF Recorded, Whole, Absent
<1>2. \A p \in Procs : pc[p] = "idle" /\ mem[p].new = {} /\ mem[p].rem = {}
  BY DEF Init, Fresh
<1> QED
  BY <1>1, <1>2 DEF LocalInv, Progress, Plan, Made

(* The three clauses for the only process there is. *)
LEMMA OneProcess ==
  ASSUME Alone, NEW p \in Procs
  PROVE  LocalInv <=> /\ \A x \in Pkgs : \/ x \in dirty \cup Plan(p)
                                         \/ x \in env <=> x \in Recorded
                      /\ pending.st = "whole" => pending.val \subseteq dirty \cup Plan(p)
                      /\ Progress(p)
<1>1. \A q \in Procs : q = p
  BY DEF Alone
<1>2. \A x : Disturbed(x) <=> x \in dirty \cup Plan(p)
  BY <1>1 DEF Disturbed
<1> QED
  BY <1>1, <1>2 DEF LocalInv

(* A command takes its plan apart: what it installs is not there in its     *)
(* view, what it removes is.  The view is what the link records, or what a  *)
(* command cut short has left in pending-packages.json.                     *)
LEMMA BeginLocal ==
  ASSUME Alone, IInv, LocalInv, NEW p \in Procs,
         StartInstall(p) \/ StartRemove(p) \/ StartRestore(p)
  PROVE  LocalInv'
<1>1. TypeOK /\ pc \in [Procs -> Steps \cup {"idle"}] /\ mem \in [Procs -> Mem]
  BY DEF IInv, TypeOK
<1>2. /\ UNCHANGED <<gen, current, pending, env, top, dirty>>
      /\ pc[p] = "idle" /\ pc'[p] = "link"
  BY <1>1 DEF StartInstall, StartRemove, StartRestore, Begin, CanBegin
<1>3. /\ mem'[p].new \cap mem'[p].rem = {}
      /\ mem'[p].todo = mem'[p].new /\ mem'[p].cache = LoadView
  <2>1. CASE StartInstall(p)
    <3> PICK new \in SUBSET (Pkgs \ LoadView), rem \in SUBSET LoadView :
               Begin(p, "install", 0, gen[CurrentId].world.val \cup new, new, rem)
      BY <2>1 DEF StartInstall
    <3> QED BY <1>1 DEF Begin
  <2>2. CASE StartRemove(p)
    <3> PICK rem \in SUBSET LoadView :
               Begin(p, "remove", 0, gen[CurrentId].world.val \ rem, {}, rem)
      BY <2>2 DEF StartRemove
    <3> QED BY <1>1 DEF Begin
  <2>3. CASE StartRestore(p)
    <3> PICK t \in GenId : Begin(p, "restore", t, {}, gen[t].installed.val \ LoadView,
                                                      LoadView \ gen[t].installed.val)
      BY <2>3 DEF StartRestore
    <3> QED BY <1>1 DEF Begin
  <2> QED BY <2>1, <2>2, <2>3
<1>4. CurrentId = top
  BY <1>2 DEF IInv, Alone, CurrentId
<1>5. Plan(p) = {} /\ Recorded' = Recorded
  BY <1>2, OneProcess DEF Progress, Recorded
<1>6. \A x \in Pkgs \ dirty : x \in LoadView <=> x \in Recorded
  BY <1>4, <1>5, OneProcess DEF LoadView, Recorded
<1>7. Progress(p)'
  BY <1>2, <1>3, <1>5, <1>6 DEF Progress, Made
<1> QED
  <2>1. /\ \A x \in Pkgs : x \in dirty \/ (x \in env <=> x \in Recorded)
        /\ pending.st = "whole" => pending.val \subseteq dirty
    BY <1>5, OneProcess
  <2>2. /\ \A x \in Pkgs : x \in dirty' \cup Plan(p)' \/ (x \in env' <=> x \in Recorded')
        /\ pending'.st = "whole" => pending'.val \subseteq dirty' \cup Plan(p)'
    BY <1>2, <1>5, <2>1
  <2> QED BY <1>7, <2>2, OneProcess DEF LocalInv, Disturbed, Alone

(* The steps that change files and cache: the packages of the plan, one by  *)
(* one.                                                                     *)
LEMMA WorkLocal ==
  ASSUME Alone, IInv, LocalInv, NEW p \in Procs,
         LinkPackage(p) \/ TransactNew(p) \/ TransactOld(p)
  PROVE  LocalInv'
<1>1. /\ pc \in [Procs -> Steps \cup {"idle"}] /\ mem \in [Procs -> Mem]
      /\ mem[p] \in Mem
  BY DEF IInv, TypeOK
<1>2. /\ \A x \in Pkgs : x \in dirty \cup Plan(p) \/ (x \in env <=> x \in Recorded)
      /\ pending.st = "whole" => pending.val \subseteq dirty \cup Plan(p)
      /\ Progress(p)
  BY OneProcess
<1>s. ASSUME UNCHANGED <<gen, pending, top, dirty>>, Plan(p)' = Plan(p), Progress(p)',
             \A x \in Pkgs \ Plan(p) : x \in env' <=> x \in env
      PROVE  LocalInv'
  <2>1. Recorded' = Recorded
    BY <1>s DEF Recorded
  <2>2. /\ \A x \in Pkgs : x \in dirty' \cup Plan(p)' \/ (x \in env' <=> x \in Recorded')
        /\ pending'.st = "whole" => pending'.val \subseteq dirty' \cup Plan(p)'
    BY <1>2, <1>s, <2>1
  <2> QED BY <1>s, <2>2 DEF LocalInv, Disturbed, Alone
<1>3. CASE LinkPackage(p)
  <2> PICK x \in mem[p].todo : /\ env' = env \cup {x}
                               /\ mem' = [mem EXCEPT ![p].todo = @ \ {x}]
    BY <1>3 DEF LinkPackage
  <2>1. /\ UNCHANGED <<gen, pending, top, dirty, pc>> /\ pc[p] = "link"
        /\ mem'[p] = [mem[p] EXCEPT !.todo = @ \ {x}]
    BY <1>1, <1>3 DEF LinkPackage
  <2>2. /\ mem'[p].new = mem[p].new /\ mem'[p].rem = mem[p].rem /\ mem'[p].cache = mem[p].cache
        /\ mem'[p].todo = mem[p].todo \ {x}
    BY <1>1, <2>1 DEF Mem
  <2>3. x \in mem[p].new
    BY <1>2, <2>1 DEF Progress
  <2>4. Plan(p)' = Plan(p) /\ Recorded' = Recorded
    BY <2>1, <2>2 DEF Plan, Recorded
  <2>5. Progress(p)'
    <3>1. mem[p].todo \subseteq mem[p].new /\ mem[p].new \ mem[p].todo \subseteq env
      BY <1>2, <2>1 DEF Progress
    <3>2. mem'[p].todo \subseteq mem'[p].new /\ mem'[p].new \ mem'[p].todo \subseteq env'
      BY <2>2, <3>1
    <3>3. /\ mem'[p].new \cap mem'[p].rem = {}
          /\ \A y \in Pkgs \ (dirty' \cup Plan(p)') : y \in mem'[p].cache <=> y \in Recorded'
      BY <1>2, <2>1, <2>2, <2>4 DEF Progress
    <3>4. pc'[p] = "link"
      BY <2>1
    <3> QED BY <3>2, <3>3, <3>4 DEF Progress, Made
  <2> QED BY <1>s, <2>1, <2>3, <2>4, <2>5 DEF Plan
<1>4. CASE TransactNew(p)
  <2> PICK x \in mem[p].todo \cap mem[p].new :
             mem' = [mem EXCEPT ![p].todo = @ \ {x}, ![p].cache = @ \cup {x}]
    BY <1>4 DEF TransactNew
  <2>1. /\ UNCHANGED <<gen, pending, top, dirty, pc, env>> /\ pc[p] = "transact"
        /\ mem'[p] = [mem[p] EXCEPT !.todo = @ \ {x}, !.cache = @ \cup {x}]
    BY <1>1, <1>4 DEF TransactNew
  <2>2. /\ mem'[p].new = mem[p].new /\ mem'[p].rem = mem[p].rem
        /\ mem'[p].cache = mem[p].cache \cup {x} /\ mem'[p].todo = mem[p].todo \ {x}
    BY <1>1, <2>1 DEF Mem
  <2>4. Plan(p)' = Plan(p) /\ Recorded' = Recorded /\ x \in Plan(p)
    BY <2>1, <2>2 DEF Plan, Recorded
  <2>5. Progress(p)'
    <3>1. /\ mem[p].new \cap mem[p].rem = {} /\ mem[p].new \subseteq env
          /\ mem[p].new \ mem[p].todo \subseteq mem[p].cache
          /\ (mem[p].rem \ mem[p].todo) \cap (mem[p].cache \cup env) = {}
      BY <1>2, <2>1 DEF Progress
    <3>2. /\ mem'[p].new \ mem'[p].todo \subseteq mem'[p].cache
          /\ (mem'[p].rem \ mem'[p].todo) \cap (mem'[p].cache \cup env') = {}
      BY <2>1, <2>2, <3>1
    <3>3. \A y \in Pkgs \ (dirty' \cup Plan(p)') : y \in mem'[p].cache <=> y \in Recorded'
      BY <1>2, <2>1, <2>2, <2>4 DEF Progress
    <3>4. mem'[p].new \cap mem'[p].rem = {} /\ mem'[p].new \subseteq env' /\ pc'[p] = "transact"
      BY <2>1, <2>2, <3>1
    <3> QED BY <3>2, <3>3, <3>4 DEF Progress, Made
  <2> QED BY <1>s, <2>1, <2>4, <2>5
<1>5. CASE TransactOld(p)
  <2> PICK x \in mem[p].todo \cap mem[p].rem :
             /\ env' = env \ {x}
             /\ mem' = [mem EXCEPT ![p].todo = @ \ {x}, ![p].cache = @ \ {x}]
    BY <1>5 DEF TransactOld
  <2>1. /\ UNCHANGED <<gen, pending, top, dirty, pc>> /\ pc[p] = "transact"
        /\ mem'[p] = [mem[p] EXCEPT !.todo = @ \ {x}, !.cache = @ \ {x}]
    BY <1>1, <1>5 DEF TransactOld
  <2>2. /\ mem'[p].new = mem[p].new /\ mem'[p].rem = mem[p].rem
        /\ mem'[p].cache = mem[p].cache \ {x} /\ mem'[p].todo = mem[p].todo \ {x}
    BY <1>1, <2>1 DEF Mem
  <2>3. x \notin mem[p].new
    BY <1>2 DEF Progress
  <2>4. Plan(p)' = Plan(p) /\ Recorded' = Recorded /\ x \in Plan(p)
    BY <2>1, <2>2 DEF Plan, Recorded
  <2>5. Progress(p)'
    <3>1. /\ mem[p].new \cap mem[p].rem = {} /\ mem[p].new \subseteq env
          /\ mem[p].new \ mem[p].todo \subseteq mem[p].cache
          /\ (mem[p].rem \ mem[p].todo) \cap (mem[p].cache \cup env) = {}
      BY <1>2, <2>1 DEF Progress
    <3>2. /\ mem'[p].new \ mem'[p].todo \subseteq mem'[p].cache
          /\ (mem'[p].rem \ mem'[p].todo) \cap (mem'[p].cache \cup env') = {}
      BY <2>1, <2>2, <2>3, <3>1
    <3>3. \A y \in Pkgs \ (dirty' \cup Plan(p)') : y \in mem'[p].cache <=> y \in Recorded'
      BY <1>2, <2>1, <2>2, <2>4 DEF Progress
    <3>4. mem'[p].new \cap mem'[p].rem = {} /\ mem'[p].new \subseteq env' /\ pc'[p] = "transact"
      BY <2>1, <2>2, <2>3, <3>1
    <3> QED BY <3>2, <3>3, <3>4 DEF Progress, Made
  <2> QED BY <1>s, <2>1, <2>4, <2>5
<1> QED
  BY <1>3, <1>4, <1>5

(* The steps between: files and cache stay, the step is the next one.       *)
LEMMA AdvanceLocal ==
  ASSUME Alone, IInv, LocalInv, NEW p \in Procs,
         \/ LinkDone(p) \/ SavePending(p) \/ TransactDone(p) \/ DropPending(p)
         \/ UnlinkCurrent(p)
  PROVE  LocalInv'
<1>1. /\ pc \in [Procs -> Steps \cup {"idle"}] /\ mem \in [Procs -> Mem]
      /\ mem[p] \in Mem
  BY DEF IInv, TypeOK
<1>2. /\ \A x \in Pkgs : x \in dirty \cup Plan(p) \/ (x \in env <=> x \in Recorded)
      /\ pending.st = "whole" => pending.val \subseteq dirty \cup Plan(p)
      /\ Progress(p)
  BY OneProcess
<1>3. UNCHANGED <<gen, env, top, dirty>>
  BY DEF LinkDone, SavePending, TransactDone, DropPending, UnlinkCurrent
<1>s. ASSUME Plan(p)' = Plan(p), Progress(p)',
             pending' \in {pending, Absent, Whole(mem[p].new)}
      PROVE  LocalInv'
  <2>1. Recorded' = Recorded
    BY <1>3 DEF Recorded
  <2>2. pending'.st = "whole" => pending'.val \subseteq dirty' \cup Plan(p)'
    <3>1. mem[p].new \subseteq dirty \cup Plan(p)
      BY DEF Plan
    <3> QED
      BY <1>2, <1>3, <1>s, <3>1, FileTypes DEF Absent, Whole
  <2>3. \A x \in Pkgs : x \in dirty' \cup Plan(p)' \/ (x \in env' <=> x \in Recorded')
    BY <1>2, <1>3, <1>s, <2>1
  <2> QED BY <1>s, <2>2, <2>3 DEF LocalInv, Disturbed, Alone
<1>4. CASE LinkDone(p)
  <2>1. UNCHANGED <<mem, pending>> /\ pc[p] = "link" /\ pc'[p] = "pending" /\ mem[p].todo = {}
    BY <1>1, <1>4 DEF LinkDone, Goto
  <2> QED BY <1>2, <1>3, <1>s, <2>1 DEF Progress, Plan, Recorded, Made
<1>5. CASE SavePending(p)
  <2>1. /\ pc[p] = "pending" /\ pc'[p] = "transact" /\ pending' \in {pending, Whole(mem[p].new)}
        /\ mem'[p] = [mem[p] EXCEPT !.todo = mem[p].new \cup mem[p].rem]
    BY <1>1, <1>5 DEF SavePending, Goto
  <2>2. /\ mem'[p].new = mem[p].new /\ mem'[p].rem = mem[p].rem /\ mem'[p].cache = mem[p].cache
        /\ mem'[p].todo = mem[p].new \cup mem[p].rem
    BY <1>1, <2>1 DEF Mem
  <2>3. Plan(p)' = Plan(p) /\ Recorded' = Recorded
    BY <1>3, <2>2 DEF Plan, Recorded
  <2>4. Progress(p)'
    BY <1>2, <1>3, <2>1, <2>2, <2>3 DEF Progress, Made
  <2> QED BY <1>s, <2>1, <2>3, <2>4
<1>6. CASE TransactDone(p)
  <2>1. UNCHANGED <<mem, pending>> /\ pc[p] = "transact" /\ pc'[p] = "drop" /\ mem[p].todo = {}
    BY <1>1, <1>6 DEF TransactDone, Goto
  <2> QED BY <1>2, <1>3, <1>s, <2>1 DEF Progress, Plan, Recorded, Made
<1>7. CASE DropPending(p)
  <2>1. UNCHANGED mem /\ pc[p] = "drop" /\ pc'[p] = "create" /\ pending' = Absent
    BY <1>1, <1>7 DEF DropPending, Goto
  <2>2. pending'.st # "whole"
    BY <2>1 DEF Absent
  <2> QED BY <1>2, <1>3, <1>s, <2>1, <2>2 DEF Progress, Plan, Recorded, Made
<1>8. CASE UnlinkCurrent(p)
  <2>1. UNCHANGED <<mem, pending>> /\ pc[p] = "unlink" /\ pc'[p] = "relink"
    BY <1>1, <1>8 DEF UnlinkCurrent, Goto
  <2> QED BY <1>2, <1>3, <1>s, <2>1 DEF Progress, Plan, Recorded, Made
<1> QED
  BY <1>4, <1>5, <1>6, <1>7, <1>8

(* The steps that write the new generation: it is not the one recorded.     *)
LEMMA WriteLocal ==
  ASSUME Alone, IInv, LocalInv, NEW p \in Procs,
         CreateGeneration(p) \/ RecordHistory(p) \/ SaveInstalled(p) \/ SaveWorld(p)
  PROVE  LocalInv'
<1>1. /\ pc \in [Procs -> Steps \cup {"idle"}] /\ mem \in [Procs -> Mem] /\ mem[p] \in Mem
      /\ gen \in [GenId -> GenDir] /\ top \in GenId /\ top \in Nat /\ Written(p)
  BY GenerationsAssumption DEF IInv, TypeOK, GenId
<1>2. /\ \A x \in Pkgs : x \in dirty \cup Plan(p) \/ (x \in env <=> x \in Recorded)
      /\ pending.st = "whole" => pending.val \subseteq dirty \cup Plan(p)
      /\ Progress(p)
  BY OneProcess
<1>3. UNCHANGED <<env, pending, dirty, top>> /\ Recorded' = Recorded
  <2>1. top' = top /\ \A g \in GenId : g # top + 1 => gen'[g] = gen[g]
    BY StepWrites
  <2>2. gen'[top] = gen[top]
    BY <1>1, <2>1
  <2> QED BY <2>1, <2>2
      DEF Recorded, CreateGeneration, CreateAs, RecordHistory, SaveInstalled, SaveWorld
<1>s. ASSUME mem'[p].new = mem[p].new, mem'[p].rem = mem[p].rem, Progress(p)'
      PROVE  LocalInv'
  <2>1. Plan(p)' = Plan(p)
    BY <1>s DEF Plan
  <2>2. /\ \A x \in Pkgs : x \in dirty' \cup Plan(p)' \/ (x \in env' <=> x \in Recorded')
        /\ pending'.st = "whole" => pending'.val \subseteq dirty' \cup Plan(p)'
    BY <1>2, <1>3, <2>1
  <2> QED BY <1>s, <2>2 DEF LocalInv, Disturbed, Alone
<1>4. CASE CreateGeneration(p)
  <2>1. /\ pc[p] = "create" /\ pc'[p] = "record"
        /\ mem'[p] = [mem[p] EXCEPT !.id = CurrentId + 1]
    BY <1>1, <1>4 DEF CreateGeneration, CreateAs, Goto
  <2>2. /\ mem'[p].new = mem[p].new /\ mem'[p].rem = mem[p].rem /\ mem'[p].cache = mem[p].cache
    BY <1>1, <2>1 DEF Mem
  <2> QED BY <1>2, <1>3, <1>s, <2>1, <2>2 DEF Progress, Plan, Made
<1>5. CASE RecordHistory(p)
  <2>1. mem' = mem /\ pc[p] = "record" /\ pc'[p] = "installed"
    BY <1>1, <1>5 DEF RecordHistory, Goto
  <2> QED BY <1>2, <1>3, <1>s, <2>1 DEF Progress, Plan, Made
<1>6. CASE SaveInstalled(p)
  <2>1. /\ mem' = mem /\ pc[p] = "installed" /\ pc'[p] = "world"
        /\ gen' = [gen EXCEPT ![mem[p].id].installed = Whole(mem[p].cache)]
    BY <1>1, <1>6 DEF SaveInstalled, Goto
  <2>2. mem[p].id \in GenId
    BY <1>1 DEF Mem
  <2>3. gen'[mem[p].id].installed = Whole(mem[p].cache)
    BY <1>1, <2>1, <2>2 DEF GenDir
  <2>4. gen'[mem'[p].id].installed.val = mem'[p].cache
    BY <2>1, <2>3 DEF Whole
  <2> QED BY <1>2, <1>3, <1>s, <2>1, <2>4 DEF Progress, Plan, Made
<1>7. CASE SaveWorld(p)
  <2>1. /\ mem' = mem /\ pc[p] = "world" /\ pc'[p] = "unlink"
        /\ gen' = [gen EXCEPT ![mem[p].id].world = Whole(mem[p].world)]
    BY <1>1, <1>7 DEF SaveWorld, Goto
  <2>2. mem[p].id \in GenId
    BY <1>1 DEF Mem
  <2>3. gen'[mem[p].id].installed = gen[mem[p].id].installed
    BY <1>1, <2>1, <2>2 DEF GenDir
  <2>4. gen'[mem'[p].id].installed.val = mem'[p].cache
    BY <1>2, <2>1, <2>3 DEF Progress
  <2> QED BY <1>2, <1>3, <1>s, <2>1, <2>4 DEF Progress, Plan, Made
<1> QED
  BY <1>4, <1>5, <1>6, <1>7

(* The command ends: it has done all of its plan, or all of its plan is     *)
(* dirty.                                                                   *)
LEMMA EndLocal ==
  ASSUME Alone, IInv, LocalInv, NEW p \in Procs, RelinkCurrent(p) \/ Die(p)
  PROVE  LocalInv'
<1>1. /\ pc \in [Procs -> Steps \cup {"idle"}] /\ mem \in [Procs -> Mem] /\ mem[p] \in Mem
      /\ top \in GenId /\ top \in Nat /\ MaxGen \in Nat /\ Written(p)
  BY GenerationsAssumption DEF IInv, TypeOK, GenId
<1>2. /\ \A x \in Pkgs : x \in dirty \cup Plan(p) \/ (x \in env <=> x \in Recorded)
      /\ pending.st = "whole" => pending.val \subseteq dirty \cup Plan(p)
      /\ Progress(p)
  BY OneProcess
<1>3. /\ pc'[p] = "idle" /\ mem'[p] = Fresh /\ env' = env
  BY <1>1 DEF RelinkCurrent, Die, Finish, Goto
<1>4. Plan(p)' = {} /\ mem'[p].new = {} /\ mem'[p].rem = {}
  BY <1>3 DEF Plan, Fresh
<1>5. Progress(p)'
  BY <1>3, <1>4 DEF Progress, Made
<1>6. CASE RelinkCurrent(p)
  <2>1. /\ mem[p].id = top + 1 /\ current = NoLink /\ pc[p] = "relink" /\ pending.st # "whole"
        /\ gen[mem[p].id].installed.val = mem[p].cache
    BY <1>1, <1>2, <1>6 DEF RelinkCurrent, Written, Made, Progress, IInv
  <2>2. /\ top' = top + 1 /\ gen' = gen /\ pending' = pending
        /\ dirty' = dirty \ Plan(p)
    BY <1>1, <1>6, <2>1 DEF RelinkCurrent, Plan
  <2>3. Recorded' = mem[p].cache
    BY <2>1, <2>2 DEF Recorded
  <2>4. \A x \in Pkgs \ dirty' : x \in env <=> x \in mem[p].cache
    <3>1. \A x \in Pkgs \ (dirty \cup Plan(p)) : x \in env <=> x \in mem[p].cache
      BY <1>2, <2>1 DEF Progress
    <3>2. \A x \in Plan(p) : x \in env <=> x \in mem[p].cache
      BY <1>2, <2>1 DEF Progress, Plan, Made
    <3> QED BY <2>2, <3>1, <3>2
  <2> QED BY <1>3, <1>4, <1>5, <2>1, <2>2, <2>3, <2>4 DEF LocalInv, Disturbed, Alone
<1>7. CASE Die(p)
  <2>1. dirty' = dirty \cup Plan(p) /\ pending' \in {pending, Torn}
    BY <1>7 DEF Die, Plan, TornPendings
  <2>2. Recorded' = Recorded
    <3>1. top' = top /\ \A g \in GenId : g # top + 1 => gen'[g] = gen[g]
      BY <1>7, StepWrites
    <3> QED BY <1>1, <3>1 DEF Recorded
  <2>3. pending'.st = "whole" => pending'.val \subseteq dirty'
    BY <1>2, <2>1 DEF Torn
  <2> QED BY <1>2, <1>3, <1>5, <2>1, <2>2, <2>3 DEF LocalInv, Disturbed, Alone
<1> QED
  BY <1>6, <1>7

LEMMA NextLocalInv == ASSUME Alone PROVE IInv /\ LocalInv /\ [Next]_vars => LocalInv'
<1> SUFFICES ASSUME IInv, LocalInv, [Next]_vars PROVE LocalInv'
  OBVIOUS
<1>1. CASE UNCHANGED vars
  BY <1>1 DEF vars, LocalInv, Disturbed, Plan, Progress, Recorded
<1>2. CASE Next
  BY <1>2, BeginLocal, WorkLocal, AdvanceLocal, WriteLocal, EndLocal DEF Next
<1> QED
  BY <1>1, <1>2

(* Whatever commands were cut short, and at which of their steps, every     *)
(* package outside their plans has its files in the environment exactly     *)
(* when it is recorded; a command that completes on the others repairs them *)
(* (install.rs:317, 548, transaction.rs:143).                               *)
THEOREM DamageStaysLocal == ASSUME Alone PROVE Spec => []DamageIsLocal
<1>1. IInv /\ LocalInv => DamageIsLocal
  <2> SUFFICES ASSUME IInv, LocalInv, AllIdle
               PROVE  \A x \in Pkgs \ dirty : x \in env <=> x \in gen[CurrentId].installed.val
    BY DEF DamageIsLocal
  <2>1. CurrentId = top
    BY DEF IInv, AllIdle, CurrentId
  <2>2. \A x \in Pkgs \ dirty : ~Disturbed(x)
    BY DEF LocalInv, Progress, AllIdle, Disturbed
  <2> QED BY <2>1, <2>2 DEF LocalInv, Recorded
<1> QED BY <1>1, InitLocalInv, NextLocalInv, Invariant, PTL DEF Spec
=============================================================================
