-------------------------- MODULE SharedStoreProofs --------------------------
(***************************************************************************)
(* Theorems of SharedStore, for every set of environments and files: what   *)
(* holds of environments with copies whatever the others do, what of those  *)
(* that share an entry while commands interleave, and what of those that    *)
(* move files out of it one command at a time.                              *)
(***************************************************************************)
EXTENDS SharedStore, FiniteSetTheorems, TLAPS

State == {"none", "copy", "link"}

(* What Made does to one file, and to the others. *)
LEMMA MadeEffect ==
  ASSUME TypeOK, NEW e \in Envs, NEW f \in todo[e], NEW what \in State, Made(e, f, what)
  PROVE  /\ env' \in [Envs -> [Files -> State]]
         /\ todo' \in [Envs -> SUBSET Files]
         /\ env'[e][f] = what
         /\ \A x \in Envs, g \in Files : x # e \/ g # f => env'[x][g] = env[x][g]
         /\ todo'[e] = todo[e] \ {f}
         /\ \A x \in Envs : x # e => todo'[x] = todo[x]
<1>1. f \in Files /\ env[e] \in [Files -> State] /\ todo[e] \subseteq Files
  BY DEF TypeOK, State
<1>2. [env[e] EXCEPT ![f] = what] \in [Files -> State]
  BY <1>1
<1>3. env' = [env EXCEPT ![e] = [env[e] EXCEPT ![f] = what]]
  BY DEF Made
<1>4. todo' = [todo EXCEPT ![e] = todo[e] \ {f}]
  BY DEF Made
<1> QED BY <1>1, <1>2, <1>3, <1>4 DEF TypeOK, State

LEMMA AbortType ==
  ASSUME TypeOK, NEW e \in Envs, Abort(e)
  PROVE  /\ pc' \in [Envs -> Steps \cup {"idle"}]
         /\ todo' \in [Envs -> SUBSET Files]
         /\ from' \in [Envs -> Envs \cup {None}]
         /\ source' \in [Envs -> {"repo", "file"}]
         /\ dirty' \subseteq Envs
BY DEF TypeOK, Abort, Goto

LEMMA EntryTypes ==
  /\ NoEntry \in Entry
  /\ Unpacked \in Entry
  /\ \A e \in Envs : [NoEntry EXCEPT !.dir = "stub", !.marker = e] \in Entry
  /\ \A s \in Entry, e \in Envs \cup {None} : [s EXCEPT !.marker = e] \in Entry
  /\ \A s \in Entry, f \in Files : [s EXCEPT !.files = @ \ {f}] \in Entry
BY DEF NoEntry, Unpacked, Entry

LEMMA SelectType ==
  ASSUME TypeOK, NEW e \in Envs, NEW found \in BOOLEAN, Select(e, found)
  PROVE  pc' \in [Envs -> Steps \cup {"idle"}]
BY DEF TypeOK, Select, Goto, Steps

LEMMA InitType == Init => TypeOK
<1> SUFFICES ASSUME Init PROVE TypeOK
  OBVIOUS
<1>1. [f \in Files |-> "none"] \in [Files -> State]
  BY DEF State
<1>2. env \in [Envs -> [Files -> State]]
  BY <1>1 DEF Init
<1> QED BY <1>2, EntryTypes DEF Init, TypeOK, State

LEMMA NextType == TypeOK /\ [Next]_vars => TypeOK'
<1> SUFFICES ASSUME TypeOK, [Next]_vars PROVE TypeOK'
  OBVIOUS
<1>1. CASE UNCHANGED vars
  BY <1>1 DEF vars, TypeOK
<1>2. CASE Next
  <2>0. CASE GcPlan \/ GcRemove
    BY <2>0, EntryTypes DEF GcPlan, GcRemove, TypeOK
  <2>e. CASE \E e \in Envs :
             \/ StartInstall(e) \/ StartFile(e) \/ StartRestore(e)
             \/ Replace(e) \/ Place(e) \/ PlaceFails(e) \/ Plan(e)
             \/ BeginLink(e) \/ BeginMove(e) \/ Claim(e) \/ BeginCopy(e)
             \/ OwnMarker(e) \/ EntryGone(e)
             \/ SymlinkFile(e) \/ HardlinkFile(e) \/ ReflinkFile(e) \/ MoveFile(e)
             \/ CopyFile(e) \/ LinkDone(e) \/ Record(e)
             \/ StartRemove(e) \/ UnlinkFile(e) \/ Forget(e)
             \/ Die(e)
    <3> PICK e \in Envs :
             \/ StartInstall(e) \/ StartFile(e) \/ StartRestore(e)
             \/ Replace(e) \/ Place(e) \/ PlaceFails(e) \/ Plan(e)
             \/ BeginLink(e) \/ BeginMove(e) \/ Claim(e) \/ BeginCopy(e)
             \/ OwnMarker(e) \/ EntryGone(e)
             \/ SymlinkFile(e) \/ HardlinkFile(e) \/ ReflinkFile(e) \/ MoveFile(e)
             \/ CopyFile(e) \/ LinkDone(e) \/ Record(e)
             \/ StartRemove(e) \/ UnlinkFile(e) \/ Forget(e)
             \/ Die(e)
      BY <2>e
    <3>1. CASE StartInstall(e)
      <4>1. Usable \in BOOLEAN
        BY DEF Usable
      <4>2. pc' \in [Envs -> Steps \cup {"idle"}]
        BY <3>1, <4>1, SelectType DEF StartInstall
      <4> QED BY <3>1, <4>2 DEF StartInstall, TypeOK
    <3>2. CASE StartFile(e)
      BY <3>2 DEF StartFile, Goto, TypeOK, Steps
    <3>3. CASE StartRestore(e)
      BY <3>3, SelectType DEF StartRestore, TypeOK
    <3>4. CASE Replace(e)
      BY <3>4, EntryTypes DEF Replace, Goto, TypeOK, Steps
    <3>5. CASE Place(e)
      BY <3>5, EntryTypes DEF Place, Goto, TypeOK, Steps
    <3>6. CASE PlaceFails(e)
      BY <3>6, AbortType DEF PlaceFails, TypeOK
    <3>7. CASE Plan(e)
      <4>1. Usable \in BOOLEAN
        BY DEF Usable
      <4>2. pc' \in [Envs -> Steps \cup {"idle"}]
        <5>1. CASE e \in recorded
          BY <3>7, <5>1 DEF Plan, Goto, TypeOK
        <5>2. CASE e \notin recorded
          BY <3>7, <5>2, <4>1, SelectType DEF Plan
        <5> QED BY <5>1, <5>2
      <4> QED BY <3>7, <4>2 DEF Plan, TypeOK
    <3>8. CASE BeginLink(e)
      BY <3>8 DEF BeginLink, Goto, TypeOK, Steps
    <3>9. CASE BeginMove(e)
      BY <3>9 DEF BeginMove, Goto, TypeOK, Steps
    <3>10. CASE Claim(e)
      BY <3>10, EntryTypes DEF Claim, Goto, TypeOK, Steps
    <3>11. CASE BeginCopy(e)
      <4>1. store.marker \in Envs \cup {None}
        BY DEF TypeOK, Entry
      <4> QED BY <3>11, <4>1 DEF BeginCopy, Goto, TypeOK, Steps
    <3>12. CASE OwnMarker(e)
      <4>1. CASE Goto(e, "record") /\ UNCHANGED <<store, todo, from, source, dirty>>
        BY <3>12, <4>1 DEF OwnMarker, Goto, TypeOK, Steps
      <4>2. CASE store' = [store EXCEPT !.marker = None] /\ Abort(e)
        BY <3>12, <4>2, EntryTypes, AbortType DEF OwnMarker, TypeOK
      <4> QED BY <3>12, <4>1, <4>2 DEF OwnMarker
    <3>13. CASE EntryGone(e)
      <4>1. store' \in Entry
        BY <3>13, EntryTypes DEF EntryGone, TypeOK
      <4> QED BY <3>13, <4>1, AbortType DEF EntryGone, TypeOK
    <3>14. CASE SymlinkFile(e)
      <4>1. PICK f \in todo[e] : Made(e, f, "link")
        BY <3>14 DEF SymlinkFile
      <4> QED BY <3>14, <4>1, MadeEffect DEF SymlinkFile, TypeOK, State
    <3>15. CASE HardlinkFile(e)
      <4>1. PICK f \in todo[e] : Made(e, f, IF f \in store.files THEN "copy" ELSE "link")
        BY <3>15 DEF HardlinkFile
      <4>2. (IF f \in store.files THEN "copy" ELSE "link") \in State
        BY DEF State
      <4> QED BY <3>15, <4>1, <4>2, MadeEffect DEF HardlinkFile, TypeOK, State
    <3>16. CASE ReflinkFile(e)
      <4>1. PICK f \in todo[e] :
              IF f \in store.files
                THEN Made(e, f, "copy") /\ UNCHANGED <<pc, from, source, dirty>>
                ELSE env' = [env EXCEPT ![e][f] = "none"] /\ Abort(e)
        BY <3>16 DEF ReflinkFile
      <4>2. CASE f \in store.files
        BY <3>16, <4>1, <4>2, MadeEffect DEF ReflinkFile, TypeOK, State
      <4>3. CASE f \notin store.files
        <5>1. f \in Files /\ env[e] \in [Files -> State]
          BY DEF TypeOK, State
        <5>2. [env[e] EXCEPT ![f] = "none"] \in [Files -> State]
          BY <5>1 DEF State
        <5>3. env' = [env EXCEPT ![e] = [env[e] EXCEPT ![f] = "none"]]
          BY <4>1, <4>3
        <5>4. env' \in [Envs -> [Files -> State]]
          BY <5>2, <5>3 DEF TypeOK, State
        <5> QED BY <3>16, <4>1, <4>3, <5>4, AbortType DEF ReflinkFile, TypeOK, State
      <4> QED BY <4>2, <4>3
    <3>17. CASE MoveFile(e)
      <4>1. PICK f \in todo[e] :
              IF f \in store.files \/ env[e][f] # "none"
                THEN /\ Made(e, f, IF f \in store.files THEN "copy" ELSE env[e][f])
                     /\ store' = [store EXCEPT !.files = @ \ {f}]
                     /\ UNCHANGED <<pc, from, source, dirty>>
                ELSE Abort(e) /\ UNCHANGED <<store, env>>
        BY <3>17 DEF MoveFile
      <4>2. CASE f \in store.files \/ env[e][f] # "none"
        <5>1. f \in Files /\ (IF f \in store.files THEN "copy" ELSE env[e][f]) \in State
          BY DEF TypeOK, State
        <5>2. store' \in Entry
          BY <4>1, <4>2, <5>1, EntryTypes DEF TypeOK
        <5> QED BY <3>17, <4>1, <4>2, <5>1, <5>2, MadeEffect DEF MoveFile, TypeOK, State
      <4>3. CASE ~(f \in store.files \/ env[e][f] # "none")
        BY <3>17, <4>1, <4>3, AbortType DEF MoveFile, TypeOK
      <4> QED BY <4>2, <4>3
    <3>18. CASE CopyFile(e)
      <4>1. PICK f \in todo[e] :
              Made(e, f, IF Resolves(from[e], f) THEN "copy" ELSE env[e][f])
        BY <3>18 DEF CopyFile
      <4>2. (IF Resolves(from[e], f) THEN "copy" ELSE env[e][f]) \in State
        BY DEF TypeOK, State
      <4> QED BY <3>18, <4>1, <4>2, MadeEffect DEF CopyFile, TypeOK, State
    <3>19. CASE LinkDone(e)
      BY <3>19 DEF LinkDone, Goto, TypeOK, Steps
    <3>20. CASE Record(e)
      BY <3>20 DEF Record, Goto, TypeOK
    <3>21. CASE StartRemove(e)
      <4>1. (IF store.dir = "full" THEN Files ELSE {}) \in SUBSET Files
        OBVIOUS
      <4> QED BY <3>21, <4>1 DEF StartRemove, Goto, TypeOK, Steps
    <3>22. CASE UnlinkFile(e)
      <4>1. PICK f \in todo[e] : Made(e, f, "none")
        BY <3>22 DEF UnlinkFile
      <4> QED BY <3>22, <4>1, MadeEffect DEF UnlinkFile, TypeOK, State
    <3>23. CASE Forget(e)
      BY <3>23 DEF Forget, Goto, TypeOK
    <3>24. CASE Die(e)
      BY <3>24, AbortType DEF Die, TypeOK
    <3> QED BY <3>1, <3>2, <3>3, <3>4, <3>5, <3>6, <3>7, <3>8, <3>9, <3>10, <3>11, <3>12,
               <3>13, <3>14, <3>15, <3>16, <3>17, <3>18, <3>19, <3>20, <3>21, <3>22,
               <3>23, <3>24
  <2> QED BY <1>2, <2>0, <2>e DEF Next
<1> QED BY <1>1, <1>2

(* Every variable keeps its shape, for every set of environments, link      *)
(* types, commands and deaths (store.rs, link.rs, remove.rs, gc.rs).        *)
THEOREM TypeCorrect == Spec => []TypeOK
<1>1. Init => TypeOK
  BY InitType
<1>2. TypeOK /\ [Next]_vars => TypeOK'
  BY NextType
<1> QED BY <1>1, <1>2, PTL DEF Spec

-----------------------------------------------------------------------------
(* Sharing: no link type that takes files out of the store, no garbage      *)
(* collection, and no death between the two steps that replace the entry.   *)
Sharing == /\ \A e \in Envs : Link[e] \in {"symlink", "hardlink", "reflink"}
           /\ ~Collecting
           /\ "place" \notin DiePoints

(* The entry is there, whole and unmarked, or not there at all. *)
Whole == store \in {NoEntry, Unpacked}

NoTakers == gc = "idle" /\ \A e \in Envs : pc[e] \notin {"claim", "copy"}

(* If it is not there and nobody is about to place it, nothing leads to it. *)
Kept == store = NoEntry /\ (\A e \in Envs : pc[e] # "place") =>
          \A e \in Envs : pc[e] # "link" /\ \A f \in Files : env[e][f] # "link"

Installing(e) == pc[e] \in {"mark", "link", "record"}
                   \/ (pc[e] \in {"replace", "place"} /\ source[e] = "repo")
NotYetRecorded == \A e \in Envs : Installing(e) => e \notin recorded

(* A command that gets as far as recording has made every file. *)
Filled == \A e \in Envs, f \in Files :
            /\ e \in recorded \ dirty /\ pc[e] # "unlink" => env[e][f] # "none"
            /\ pc[e] = "link" /\ f \notin todo[e] => env[e][f] # "none"
            /\ pc[e] = "record" => env[e][f] # "none"

IInv == TypeOK /\ Whole /\ NoTakers /\ Kept /\ NotYetRecorded /\ Filled

LEMMA InitInv == Init => IInv
<1> SUFFICES ASSUME Init PROVE IInv
  OBVIOUS
<1>1. \A e \in Envs : pc[e] = "idle" /\ \A f \in Files : env[e][f] = "none"
  BY DEF Init
<1> QED BY <1>1, InitType DEF Init, IInv, Whole, NoTakers, Kept, NotYetRecorded,
           Installing, Filled

(* A command that ends in an error, or is killed, with at most a file of    *)
(* its environment deleted.                                                 *)
LEMMA AbortKeeps ==
  ASSUME IInv, NEW e \in Envs, Abort(e), UNCHANGED <<store, recorded, gc>>,
         pc[e] = "place" => store # NoEntry,
         env' \in [Envs -> [Files -> State]],
         \A x \in Envs, g \in Files : x # e => env'[x][g] = env[x][g],
         \A g \in Files : env'[e][g] \in {env[e][g], "none"}
  PROVE  Whole' /\ NoTakers' /\ Kept' /\ NotYetRecorded' /\ Filled'
<1>1. /\ pc'[e] = "idle"
      /\ \A x \in Envs : x # e => pc'[x] = pc[x] /\ todo'[x] = todo[x] /\ source'[x] = source[x]
      /\ e \in dirty'
      /\ \A x \in Envs : x # e => (x \in dirty' <=> x \in dirty)
  BY DEF IInv, TypeOK, Abort, Goto
<1>2. Whole' /\ NoTakers'
  BY <1>1 DEF IInv, Whole, NoTakers
<1>3. Kept'
  BY <1>1 DEF IInv, Kept
<1>4. NotYetRecorded'
  BY <1>1 DEF IInv, NotYetRecorded, Installing
<1>5. Filled'
  BY <1>1 DEF IInv, Filled
<1> QED BY <1>2, <1>3, <1>4, <1>5

(* A step in which the process of e goes from one step to another, and      *)
(* neither the files nor the records change.                                *)
LEMMA GotoKeeps ==
  ASSUME IInv, NEW e \in Envs, NEW step, Goto(e, step),
         UNCHANGED <<store, env, recorded, gc, dirty>>,
         step \in {"idle", "mark", "replace", "record"},
         source'[e] \in {"repo", "file"},
         \A x \in Envs : x # e => source'[x] = source[x] /\ todo'[x] = todo[x],
         pc[e] # "place",
         pc[e] = "unlink" => e \notin recorded,
         step = "record" => \A f \in Files : env[e][f] # "none",
         step \in {"mark", "record"} \/ (step = "replace" /\ source'[e] = "repo")
           => e \notin recorded
  PROVE  Whole' /\ NoTakers' /\ Kept' /\ NotYetRecorded' /\ Filled'
<1>1. pc'[e] = step /\ \A x \in Envs : x # e => pc'[x] = pc[x]
  BY DEF IInv, TypeOK, Goto
<1>2. Whole' /\ NoTakers'
  BY <1>1 DEF IInv, Whole, NoTakers
<1>3. Kept'
  BY <1>1 DEF IInv, Kept
<1>4. NotYetRecorded'
  BY <1>1 DEF IInv, NotYetRecorded, Installing
<1>5. Filled'
  BY <1>1 DEF IInv, Filled
<1> QED BY <1>2, <1>3, <1>4, <1>5

(* A step that makes one file during linking. *)
LEMMA MadeKeeps ==
  ASSUME IInv, NEW e \in Envs, NEW f \in todo[e], NEW what \in {"copy", "link"},
         Made(e, f, what), pc[e] = "link",
         UNCHANGED <<store, recorded, pc, source, gc, dirty>>
  PROVE  Whole' /\ NoTakers' /\ Kept' /\ NotYetRecorded' /\ Filled'
<1>1. what \in State /\ TypeOK
  BY DEF State, IInv
<1>2. /\ env'[e][f] = what
      /\ \A x \in Envs, g \in Files : x # e \/ g # f => env'[x][g] = env[x][g]
      /\ todo'[e] = todo[e] \ {f}
      /\ \A x \in Envs : x # e => todo'[x] = todo[x]
  BY <1>1, MadeEffect
<1>3. Whole' /\ NoTakers' /\ NotYetRecorded'
  BY DEF IInv, Whole, NoTakers, NotYetRecorded, Installing
<1>4. Kept'
  BY <1>2 DEF IInv, Kept
<1>5. Filled'
  BY <1>2 DEF IInv, Filled
<1> QED BY <1>3, <1>4, <1>5


LEMMA SelectKeeps ==
  ASSUME IInv, NEW e \in Envs, NEW found \in BOOLEAN, Select(e, found),
         UNCHANGED <<store, env, recorded, todo, gc, dirty>>,
         source' = [source EXCEPT ![e] = "repo"],
         pc[e] \in {"idle", "plan"}, e \notin recorded
  PROVE  Whole' /\ NoTakers' /\ Kept' /\ NotYetRecorded' /\ Filled'
<1>1. source'[e] = "repo" /\ \A x \in Envs : x # e => source'[x] = source[x]
  BY DEF IInv, TypeOK
<1>2. CASE found
  BY <1>1, <1>2, GotoKeeps DEF Select
<1>3. CASE ~found
  BY <1>1, <1>3, GotoKeeps DEF Select
<1> QED BY <1>2, <1>3

(* One step of a command, where the environments only share the entry. *)
LEMMA CommandKeeps ==
  ASSUME Sharing, IInv, NEW e \in Envs,
             \/ StartInstall(e) \/ StartFile(e) \/ StartRestore(e)
             \/ Replace(e) \/ Place(e) \/ PlaceFails(e) \/ Plan(e)
             \/ BeginLink(e) \/ BeginMove(e) \/ Claim(e) \/ BeginCopy(e)
             \/ OwnMarker(e) \/ EntryGone(e)
             \/ SymlinkFile(e) \/ HardlinkFile(e) \/ ReflinkFile(e) \/ MoveFile(e)
             \/ CopyFile(e) \/ LinkDone(e) \/ Record(e)
             \/ StartRemove(e) \/ UnlinkFile(e) \/ Forget(e)
             \/ Die(e)
  PROVE  Whole' /\ NoTakers' /\ Kept' /\ NotYetRecorded' /\ Filled'
<1> USE DEF IInv
<1>1. CASE StartInstall(e)
  BY <1>1, SelectKeeps DEF StartInstall, CanStart, Usable
<1>2. CASE StartFile(e)
  BY <1>2, GotoKeeps DEF StartFile, CanStart, TypeOK
<1>3. CASE StartRestore(e)
  BY <1>3, SelectKeeps DEF StartRestore, CanStart
<1>4. CASE Replace(e)
  <2>1. pc'[e] = "place" /\ (\A x \in Envs : x # e => pc'[x] = pc[x]) /\ pc[e] = "replace"
    BY <1>4 DEF Replace, Goto, TypeOK
  <2> QED BY <1>4, <2>1 DEF Replace, Whole, NoTakers, Kept, NotYetRecorded, Installing, Filled
<1>5. CASE Place(e)
  <2>1. /\ pc'[e] \in {"plan", "mark"} /\ (\A x \in Envs : x # e => pc'[x] = pc[x])
        /\ pc[e] = "place" /\ (pc'[e] = "mark" => source[e] = "repo")
    BY <1>5 DEF Place, Goto, TypeOK
  <2>2. store' = Unpacked /\ store' # NoEntry /\ UNCHANGED <<env, recorded, todo, source, gc, dirty>>
    BY <1>5 DEF Place, Unpacked, NoEntry
  <2> QED BY <2>1, <2>2 DEF Whole, NoTakers, Kept, NotYetRecorded, Installing, Filled
<1>6. CASE PlaceFails(e)
  BY <1>6, AbortKeeps DEF PlaceFails, NoEntry, TypeOK, State
<1>7. CASE Plan(e)
  <2>1. CASE e \in recorded
    BY <1>7, <2>1, GotoKeeps DEF Plan, TypeOK
  <2>2. CASE e \notin recorded
    BY <1>7, <2>2, SelectKeeps DEF Plan, Usable
  <2> QED BY <2>1, <2>2
<1>8. CASE BeginLink(e)
  <2>1. /\ pc'[e] = "link" /\ (\A x \in Envs : x # e => pc'[x] = pc[x])
        /\ todo'[e] = Files /\ (\A x \in Envs : x # e => todo'[x] = todo[x])
        /\ pc[e] = "mark" /\ store # NoEntry
    BY <1>8 DEF BeginLink, Goto, TypeOK, NoEntry
  <2> QED BY <1>8, <2>1 DEF BeginLink, Whole, NoTakers, Kept, NotYetRecorded, Installing, Filled
<1>9. CASE BeginMove(e) \/ BeginCopy(e) \/ OwnMarker(e) \/ MoveFile(e)
  BY <1>9 DEF BeginMove, BeginCopy, OwnMarker, MoveFile, Sharing
<1>10. CASE Claim(e) \/ CopyFile(e)
  BY <1>10 DEF Claim, CopyFile, NoTakers
<1>11. CASE EntryGone(e)
  BY <1>11, AbortKeeps DEF EntryGone, Sharing, TypeOK, State
<1>12. CASE SymlinkFile(e)
  BY <1>12, MadeKeeps DEF SymlinkFile
<1>13. CASE HardlinkFile(e)
  <2>1. PICK f \in todo[e] : Made(e, f, IF f \in store.files THEN "copy" ELSE "link")
    BY <1>13 DEF HardlinkFile
  <2> QED BY <1>13, <2>1, MadeKeeps DEF HardlinkFile
<1>14. CASE ReflinkFile(e)
  <2>1. PICK f \in todo[e] :
          IF f \in store.files
            THEN Made(e, f, "copy") /\ UNCHANGED <<pc, from, source, dirty>>
            ELSE env' = [env EXCEPT ![e][f] = "none"] /\ Abort(e)
    BY <1>14 DEF ReflinkFile
  <2>2. CASE f \in store.files
    BY <1>14, <2>1, <2>2, MadeKeeps DEF ReflinkFile
  <2>3. CASE f \notin store.files
    <3>1. f \in Files /\ env[e] \in [Files -> State]
      BY DEF TypeOK, State
    <3>2. [env[e] EXCEPT ![f] = "none"] \in [Files -> State]
      BY <3>1 DEF State
    <3>3. env' = [env EXCEPT ![e] = [env[e] EXCEPT ![f] = "none"]]
      BY <2>1, <2>3
    <3>4. /\ env' \in [Envs -> [Files -> State]]
          /\ \A x \in Envs, g \in Files : x # e => env'[x][g] = env[x][g]
          /\ \A g \in Files : env'[e][g] \in {env[e][g], "none"}
      BY <3>1, <3>2, <3>3 DEF TypeOK, State
    <3>5. Abort(e) /\ pc[e] # "place" /\ UNCHANGED <<store, recorded, gc>>
      BY <1>14, <2>1, <2>3 DEF ReflinkFile
    <3> QED BY <3>4, <3>5, AbortKeeps
  <2> QED BY <2>2, <2>3
<1>15. CASE LinkDone(e)
  <2>1. pc[e] = "link" /\ todo[e] = {}
    BY <1>15 DEF LinkDone, NoTakers
  <2>2. e \notin recorded /\ \A f \in Files : env[e][f] # "none"
    BY <2>1 DEF Filled, NotYetRecorded, Installing
  <2> QED BY <1>15, <2>1, <2>2, GotoKeeps DEF LinkDone, TypeOK
<1>16. CASE Record(e)
  <2>1. pc'[e] = "idle" /\ (\A x \in Envs : x # e => pc'[x] = pc[x]) /\ pc[e] = "record"
    BY <1>16 DEF Record, Goto, TypeOK
  <2> QED BY <1>16, <2>1 DEF Record, Whole, NoTakers, Kept, NotYetRecorded, Installing, Filled
<1>17. CASE StartRemove(e)
  <2>1. /\ pc'[e] = "unlink" /\ (\A x \in Envs : x # e => pc'[x] = pc[x] /\ todo'[x] = todo[x])
        /\ pc[e] = "idle"
    BY <1>17 DEF StartRemove, CanStart, Goto, TypeOK
  <2> QED BY <1>17, <2>1 DEF StartRemove, Whole, NoTakers, Kept, NotYetRecorded, Installing, Filled
<1>18. CASE UnlinkFile(e)
  <2>1. PICK f \in todo[e] : Made(e, f, "none")
    BY <1>18 DEF UnlinkFile
  <2>2. /\ env'[e][f] = "none"
        /\ \A x \in Envs, g \in Files : x # e \/ g # f => env'[x][g] = env[x][g]
        /\ \A x \in Envs : x # e => todo'[x] = todo[x]
    BY <2>1, MadeEffect DEF State
  <2> QED BY <1>18, <2>2 DEF UnlinkFile, Whole, NoTakers, Kept, NotYetRecorded, Installing, Filled
<1>19. CASE Forget(e)
  <2>1. pc'[e] = "idle" /\ (\A x \in Envs : x # e => pc'[x] = pc[x]) /\ pc[e] = "unlink"
    BY <1>19 DEF Forget, Goto, TypeOK
  <2> QED BY <1>19, <2>1 DEF Forget, Whole, NoTakers, Kept, NotYetRecorded, Installing, Filled
<1>20. CASE Die(e)
  BY <1>20, AbortKeeps DEF Die, Sharing, TypeOK, State
<1> QED BY <1>1, <1>2, <1>3, <1>4, <1>5, <1>6, <1>7, <1>8, <1>9, <1>10, <1>11, <1>12, <1>13,
           <1>14, <1>15, <1>16, <1>17, <1>18, <1>19, <1>20

LEMMA NextInv == Sharing /\ IInv /\ [Next]_vars => IInv'
<1> SUFFICES ASSUME Sharing, IInv, [Next]_vars PROVE IInv'
  OBVIOUS
<1>1. TypeOK'
  BY NextType DEF IInv
<1>2. CASE UNCHANGED vars
  BY <1>1, <1>2 DEF vars, IInv, Whole, NoTakers, Kept, NotYetRecorded, Installing, Filled
<1>3. CASE GcPlan \/ GcRemove
  BY <1>3 DEF GcPlan, GcRemove, Sharing, IInv, NoTakers
<1>4. CASE \E e \in Envs :
             \/ StartInstall(e) \/ StartFile(e) \/ StartRestore(e)
             \/ Replace(e) \/ Place(e) \/ PlaceFails(e) \/ Plan(e)
             \/ BeginLink(e) \/ BeginMove(e) \/ Claim(e) \/ BeginCopy(e)
             \/ OwnMarker(e) \/ EntryGone(e)
             \/ SymlinkFile(e) \/ HardlinkFile(e) \/ ReflinkFile(e) \/ MoveFile(e)
             \/ CopyFile(e) \/ LinkDone(e) \/ Record(e)
             \/ StartRemove(e) \/ UnlinkFile(e) \/ Forget(e)
             \/ Die(e)
  <2> PICK e \in Envs :
             \/ StartInstall(e) \/ StartFile(e) \/ StartRestore(e)
             \/ Replace(e) \/ Place(e) \/ PlaceFails(e) \/ Plan(e)
             \/ BeginLink(e) \/ BeginMove(e) \/ Claim(e) \/ BeginCopy(e)
             \/ OwnMarker(e) \/ EntryGone(e)
             \/ SymlinkFile(e) \/ HardlinkFile(e) \/ ReflinkFile(e) \/ MoveFile(e)
             \/ CopyFile(e) \/ LinkDone(e) \/ Record(e)
             \/ StartRemove(e) \/ UnlinkFile(e) \/ Forget(e)
             \/ Die(e)
    BY <1>4
  <2> QED BY <1>1, CommandKeeps DEF IInv
<1> QED BY <1>2, <1>3, <1>4 DEF Next

(* The entry stays whole, and every command in flight has kept its part of  *)
(* the bargain (store.rs:243-351, link.rs:180-206, remove.rs:22-87).        *)
THEOREM Invariant == ASSUME Sharing PROVE Spec => []IInv
<1>1. Init => IInv
  BY InitInv
<1>2. IInv /\ [Next]_vars => IInv'
  BY NextInv
<1> QED BY <1>1, <1>2, PTL DEF Spec

(* Environments that link by symlink, hardlink or reflink are independent,  *)
(* however many there are and however their commands interleave, fail and   *)
(* die, as long as nobody collects garbage and nobody dies between deleting *)
(* an entry and renaming its successor into place (store.rs:336-348).       *)
THEOREM SharingIsIndependent == ASSUME Sharing PROVE Spec => []Independent
<1>1. IInv => Independent
  <2> SUFFICES ASSUME IInv, Placing = {}, NEW e \in recorded \ dirty, pc[e] # "unlink",
                      NEW f \in Files
               PROVE  Resolves(e, f)
    BY DEF Independent
  <2>1. e \in Envs /\ env[e][f] \in State
    BY DEF IInv, TypeOK, State
  <2>2. env[e][f] # "none"
    BY <2>1 DEF IInv, Filled
  <2>3. CASE env[e][f] = "copy"
    BY <2>3 DEF Resolves
  <2>4. CASE env[e][f] = "link"
    <3>1. \A x \in Envs : pc[x] # "place"
      BY DEF Placing
    <3>2. store = Unpacked
      BY <2>1, <2>4, <3>1 DEF IInv, Kept, Whole
    <3> QED BY <2>4, <3>2 DEF Resolves, Unpacked
  <2> QED BY <2>1, <2>2, <2>3, <2>4 DEF State
<1> QED BY <1>1, Invariant, PTL

-----------------------------------------------------------------------------
(* The steps of one environment's process, and what they leave alone.       *)
StepOf(e) == \/ StartInstall(e) \/ StartFile(e) \/ StartRestore(e)
             \/ Replace(e) \/ Place(e) \/ PlaceFails(e) \/ Plan(e)
             \/ BeginLink(e) \/ BeginMove(e) \/ Claim(e) \/ BeginCopy(e)
             \/ OwnMarker(e) \/ EntryGone(e)
             \/ SymlinkFile(e) \/ HardlinkFile(e) \/ ReflinkFile(e) \/ MoveFile(e)
             \/ CopyFile(e) \/ LinkDone(e) \/ Record(e)
             \/ StartRemove(e) \/ UnlinkFile(e) \/ Forget(e)
             \/ Die(e)

LEMMA NextSteps == Next => (\E e \in Envs : StepOf(e)) \/ GcPlan \/ GcRemove
BY DEF Next, StepOf

Same(x) == /\ pc'[x] = pc[x] /\ todo'[x] = todo[x]
           /\ \A f \in Files : env'[x][f] = env[x][f]
           /\ x \in recorded' <=> x \in recorded
           /\ x \in dirty' <=> x \in dirty

LEMMA AbortOthers ==
  ASSUME TypeOK, NEW e \in Envs, Abort(e)
  PROVE  /\ pc'[e] = "idle" /\ e \in dirty'
         /\ \A x \in Envs : x # e => /\ pc'[x] = pc[x] /\ todo'[x] = todo[x]
                                    /\ (x \in dirty' <=> x \in dirty)
BY DEF TypeOK, Abort, Goto

(* No process changes the files, the records or the step of another.        *)
LEMMA Others ==
  ASSUME TypeOK, NEW e \in Envs, StepOf(e), NEW x \in Envs, x # e
  PROVE  Same(x)
<1>1. CASE StartInstall(e) \/ StartFile(e) \/ StartRestore(e) \/ Replace(e) \/ Place(e) \/ Plan(e)
  BY <1>1 DEF StartInstall, StartFile, StartRestore, Replace, Place, Plan, Select, Goto, TypeOK, Same
<1>2. CASE BeginLink(e) \/ BeginMove(e) \/ Claim(e) \/ BeginCopy(e) \/ LinkDone(e)
           \/ Record(e) \/ StartRemove(e) \/ Forget(e)
  BY <1>2 DEF BeginLink, BeginMove, Claim, BeginCopy, LinkDone, Record, StartRemove, Forget,
             Goto, TypeOK, Same
<1>3. CASE PlaceFails(e) \/ EntryGone(e) \/ Die(e)
  BY <1>3, AbortOthers DEF PlaceFails, EntryGone, Die, Same
<1>4. CASE OwnMarker(e)
  <2>1. CASE Goto(e, "record") /\ UNCHANGED <<store, todo, from, source, dirty>>
    BY <1>4, <2>1 DEF OwnMarker, Goto, TypeOK, Same
  <2>2. CASE Abort(e)
    BY <1>4, <2>2, AbortOthers DEF OwnMarker, Same
  <2> QED BY <1>4, <2>1, <2>2 DEF OwnMarker
<1>5. CASE SymlinkFile(e) \/ HardlinkFile(e) \/ CopyFile(e) \/ UnlinkFile(e)
  <2>0. PICK f \in todo[e] : \E w : Made(e, f, w)
    BY <1>5 DEF SymlinkFile, HardlinkFile, CopyFile, UnlinkFile
  <2>1. PICK what : Made(e, f, what)
    BY <2>0
  <2>2. env' = [env EXCEPT ![e] = [env[e] EXCEPT ![f] = what]]
        /\ todo' = [todo EXCEPT ![e] = todo[e] \ {f}]
    BY <2>1 DEF Made
  <2> QED BY <1>5, <2>2 DEF SymlinkFile, HardlinkFile, CopyFile, UnlinkFile, TypeOK, Same
<1>6. CASE ReflinkFile(e)
  <2>1. PICK f \in todo[e] :
          IF f \in store.files
            THEN Made(e, f, "copy") /\ UNCHANGED <<pc, from, source, dirty>>
            ELSE env' = [env EXCEPT ![e][f] = "none"] /\ Abort(e)
    BY <1>6 DEF ReflinkFile
  <2>2. CASE f \in store.files
    BY <1>6, <2>1, <2>2 DEF ReflinkFile, Made, TypeOK, Same
  <2>3. CASE f \notin store.files
    BY <1>6, <2>1, <2>3, AbortOthers DEF ReflinkFile, TypeOK, Same
  <2> QED BY <2>2, <2>3
<1>7. CASE MoveFile(e)
  <2>1. PICK f \in todo[e] :
          IF f \in store.files \/ env[e][f] # "none"
            THEN /\ Made(e, f, IF f \in store.files THEN "copy" ELSE env[e][f])
                 /\ store' = [store EXCEPT !.files = @ \ {f}]
                 /\ UNCHANGED <<pc, from, source, dirty>>
            ELSE Abort(e) /\ UNCHANGED <<store, env>>
    BY <1>7 DEF MoveFile
  <2>2. CASE f \in store.files \/ env[e][f] # "none"
    BY <1>7, <2>1, <2>2 DEF MoveFile, Made, TypeOK, Same
  <2>3. CASE ~(f \in store.files \/ env[e][f] # "none")
    BY <1>7, <2>1, <2>3, AbortOthers DEF MoveFile, TypeOK, Same
  <2> QED BY <2>2, <2>3
<1> QED BY <1>1, <1>2, <1>3, <1>4, <1>5, <1>6, <1>7 DEF StepOf

-----------------------------------------------------------------------------
(* Copies: an environment that copies has made the copy of every file its   *)
(* linking has done with, and of all when it comes to recording.            *)
Copied(e) ==
  /\ pc[e] \notin {"claim", "copy"}
  /\ \A f \in Files :
       /\ pc[e] = "link" /\ f \notin todo[e] => env[e][f] = "copy"
       /\ pc[e] = "record" => env[e][f] = "copy"
       /\ e \in recorded \ dirty /\ pc[e] # "unlink" => env[e][f] = "copy"

CopiesInv == TypeOK /\ \A e \in Envs : Link[e] = "reflink" => Copied(e)

(* Whatever the store is like, a step of the environment itself keeps that. *)
LEMMA StepKeepsCopies ==
  ASSUME TypeOK, NEW e \in Envs, Link[e] = "reflink", Copied(e), StepOf(e)
  PROVE  Copied(e)'
<1>1. CASE StartInstall(e) \/ StartFile(e) \/ StartRestore(e) \/ Replace(e) \/ Place(e) \/ Plan(e)
  BY <1>1 DEF StartInstall, StartFile, StartRestore, Replace, Place, Plan, CanStart, Select,
              Goto, TypeOK, Copied
<1>2. CASE BeginLink(e) \/ LinkDone(e) \/ Record(e) \/ StartRemove(e) \/ Forget(e)
  BY <1>2 DEF BeginLink, LinkDone, Record, StartRemove, CanStart, Forget, Goto, TypeOK, Copied
<1>3. CASE BeginMove(e) \/ Claim(e) \/ BeginCopy(e) \/ OwnMarker(e) \/ CopyFile(e)
           \/ SymlinkFile(e) \/ HardlinkFile(e) \/ MoveFile(e)
  BY <1>3 DEF BeginMove, Claim, BeginCopy, OwnMarker, CopyFile, SymlinkFile, HardlinkFile,
              MoveFile, Copied
<1>4. CASE PlaceFails(e) \/ EntryGone(e) \/ Die(e)
  BY <1>4, AbortOthers DEF PlaceFails, EntryGone, Die, Copied
<1>5. CASE ReflinkFile(e)
  <2>1. PICK f \in todo[e] :
          IF f \in store.files
            THEN Made(e, f, "copy") /\ UNCHANGED <<pc, from, source, dirty>>
            ELSE env' = [env EXCEPT ![e][f] = "none"] /\ Abort(e)
    BY <1>5 DEF ReflinkFile
  <2>2. CASE f \in store.files
    <3>1. /\ env'[e][f] = "copy" /\ \A g \in Files : g # f => env'[e][g] = env[e][g]
          /\ todo'[e] = todo[e] \ {f}
      BY <2>1, <2>2, MadeEffect DEF State
    <3> QED BY <1>5, <2>1, <2>2, <3>1 DEF ReflinkFile, Copied
  <2>3. CASE f \notin store.files
    BY <1>5, <2>1, <2>3, AbortOthers DEF ReflinkFile, Copied
  <2> QED BY <2>2, <2>3
<1>6. CASE UnlinkFile(e)
  BY <1>6 DEF UnlinkFile, Copied
<1> QED BY <1>1, <1>2, <1>3, <1>4, <1>5, <1>6 DEF StepOf

(* An environment with copies of its own keeps them, whatever the others'   *)
(* link types are, with garbage collection, deaths at any step and any      *)
(* number of processes at work (link.rs:856-870, remove.rs:22-87).          *)
THEOREM CopiesAreSafe == Spec => []ReflinkSafe
<1>1. Init => CopiesInv
  BY InitType DEF Init, CopiesInv, Copied
<1>2. CopiesInv /\ [Next]_vars => CopiesInv'
  <2> SUFFICES ASSUME CopiesInv, [Next]_vars, NEW x \in Envs, Link[x] = "reflink" PROVE Copied(x)'
    BY NextType DEF CopiesInv
  <2>1. CASE UNCHANGED vars
    BY <2>1 DEF vars, CopiesInv, Copied
  <2>2. CASE GcPlan \/ GcRemove
    BY <2>2 DEF GcPlan, GcRemove, CopiesInv, Copied
  <2>3. CASE \E e \in Envs : StepOf(e)
    <3> PICK e \in Envs : StepOf(e)
      BY <2>3
    <3>1. CASE x = e
      BY <3>1, StepKeepsCopies DEF CopiesInv
    <3>2. CASE x # e
      BY <3>2, Others DEF Same, CopiesInv, Copied
    <3> QED BY <3>1, <3>2
  <2> QED BY <2>1, <2>2, <2>3, NextSteps
<1>3. CopiesInv => ReflinkSafe
  BY DEF CopiesInv, Copied, ReflinkSafe, TypeOK
<1> QED BY <1>1, <1>2, <1>3, PTL DEF Spec

-----------------------------------------------------------------------------
(* One command at a time, without restores: what the marker is for.  Files  *)
(* are moved out of the store by "move", which marks the entry, and not by  *)
(* "runpath", which does not.                                               *)
OneAtATime ==
  /\ MaxRunning = 1
  /\ ~Collecting
  /\ "place" \notin DiePoints
  /\ \A e \in Envs : Link[e] # "runpath" /\ "restore" \notin Commands[e]

Alone == \A d, e \in Envs : pc[d] # "idle" /\ pc[e] # "idle" => d = e

(* Whoever has got past planning finds the entry, and so does a removal. *)
EntryThere ==
  /\ gc = "idle"
  /\ recorded # {} /\ (\A e \in Envs : pc[e] # "place") => store.dir = "full"
  /\ \A e \in Envs :
       /\ pc[e] # "copy"
       /\ pc[e] = "place" => store.dir = "absent"
       /\ pc[e] \in {"plan", "mark", "claim", "link", "record"} => store.dir = "full"

(* Files are gone from a marked entry only. *)
Marked ==
  /\ store.dir = "full" /\ store.marker = None => store.files = Files
  /\ \A e \in Envs :
       /\ pc[e] \in {"mark", "claim"} => store.marker = None
       /\ pc[e] = "claim" => Link[e] = "move"
       /\ pc[e] = "link" /\ Link[e] # "move" => store.marker = None
       /\ pc[e] = "link" /\ Link[e] = "move" => store.marker = e /\ todo[e] \subseteq store.files

(* What is left in environments that do not have the package. *)
Emptied == \A e \in Envs, f \in Files :
  /\ pc[e] = "idle" /\ e \notin recorded \cup dirty => env[e][f] = "none"
  /\ pc[e] = "unlink" /\ f \notin todo[e] => env[e][f] = "none"

(* And in those that have it, or are about to: files of their own. *)
Held == \A e \in Envs, f \in Files : Link[e] # "symlink" =>
  /\ pc[e] = "link" /\ f \notin todo[e] => env[e][f] = "copy"
  /\ pc[e] = "record" => env[e][f] = "copy"
  /\ e \in recorded \ dirty /\ pc[e] # "unlink" => env[e][f] = "copy"

SerialInv == TypeOK /\ Alone /\ EntryThere /\ Marked /\ Emptied /\ Held

LEMMA StartAlone ==
  ASSUME OneAtATime, TypeOK, Alone, NEW e \in Envs, NEW command, CanStart(e, command)
  PROVE  \A x \in Envs : pc[x] = "idle"
<1> DEFINE Busy == {x \in Envs : pc[x] # "idle"}
<1>1. IsFiniteSet(Busy)
  <2>1. CASE Busy = {}
    BY <2>1, FS_EmptySet
  <2>2. CASE Busy # {}
    <3>1. PICK d \in Busy : TRUE
      BY <2>2
    <3>2. Busy = {d}
      BY <3>1 DEF Alone
    <3> QED BY <3>2, FS_Singleton
  <2> QED BY <2>1, <2>2
<1>2. Cardinality(Busy) < 1
  BY DEF CanStart, OneAtATime
<1>3. Cardinality(Busy) = 0
  BY <1>1, <1>2, FS_CardinalityType
<1> QED BY <1>1, <1>3, FS_EmptySet

LEMMA InitSerial == Init => SerialInv
<1> SUFFICES ASSUME Init PROVE SerialInv
  OBVIOUS
<1>1. \A e \in Envs : pc[e] = "idle" /\ \A f \in Files : env[e][f] = "none"
  BY DEF Init
<1> QED BY <1>1, InitType DEF Init, NoEntry, SerialInv, Alone, EntryThere, Marked, Emptied, Held

(* A step that ends its command in an error, outside of "place".            *)
LEMMA AbortSerial ==
  ASSUME SerialInv, TypeOK', NEW e \in Envs, Abort(e), StepOf(e), UNCHANGED <<store, recorded, gc>>,
         pc[e] # "place"
  PROVE  SerialInv'
<1>1. /\ pc'[e] = "idle" /\ e \in dirty'
      /\ \A x \in Envs : x # e => Same(x)
  BY AbortOthers, Others DEF SerialInv
<1> USE DEF SerialInv, Same
<1>2. Alone'
  BY <1>1 DEF Alone
<1>3. EntryThere'
  BY <1>1 DEF EntryThere
<1>4. Marked'
  BY <1>1 DEF Marked
<1>5. Emptied'
  BY <1>1 DEF Emptied
<1>6. Held'
  BY <1>1 DEF Held
<1> QED BY <1>2, <1>3, <1>4, <1>5, <1>6

(* A step after which the process of e is at another step of its command,   *)
(* with files and records as they were.                                     *)
LEMMA GotoSerial ==
  ASSUME SerialInv, TypeOK', NEW e \in Envs, StepOf(e), NEW step, Goto(e, step),
         UNCHANGED <<store, env, recorded, todo, gc, dirty>>,
         \A x \in Envs : x # e => pc[x] = "idle",
         step \in {"idle", "replace", "mark", "claim", "record"},
         step = "idle" => e \in recorded,
         pc[e] \notin {"unlink", "place"},
         step \in {"mark", "claim", "record"} => store.dir = "full",
         step \in {"mark", "claim"} => store.marker = None,
         step = "claim" => Link[e] = "move",
         step = "record" => \A f \in Files : Link[e] # "symlink" => env[e][f] = "copy"
  PROVE  SerialInv'
<1>1. pc'[e] = step /\ \A x \in Envs : x # e => pc'[x] = pc[x]
  BY DEF SerialInv, TypeOK, Goto
<1> USE DEF SerialInv
<1>2. Alone'
  BY <1>1 DEF Alone
<1>3. EntryThere'
  BY <1>1 DEF EntryThere
<1>4. Marked'
  BY <1>1 DEF Marked
<1>5. Emptied'
  BY <1>1 DEF Emptied
<1>6. Held'
  BY <1>1 DEF Held
<1> QED BY <1>2, <1>3, <1>4, <1>5, <1>6

LEMMA SelectSerial ==
  ASSUME SerialInv, TypeOK', NEW e \in Envs, StepOf(e), Select(e, Usable),
         UNCHANGED <<store, env, recorded, todo, gc, dirty>>,
         \A x \in Envs : x # e => pc[x] = "idle",
         pc[e] \in {"idle", "plan"}
  PROVE  SerialInv'
<1>1. CASE Usable
  BY <1>1, GotoSerial DEF Select, Usable
<1>2. CASE ~Usable
  BY <1>2, GotoSerial DEF Select
<1> QED BY <1>1, <1>2

(* A step that makes one file during linking; only a move takes it out of   *)
(* the store.                                                               *)
LEMMA MadeSerial ==
  ASSUME SerialInv, TypeOK', NEW e \in Envs, NEW f \in todo[e], NEW what \in {"copy", "link"},
         Made(e, f, what), pc[e] = "link", UNCHANGED <<recorded, pc, source, gc, dirty>>,
         \A x \in Envs : x # e => pc[x] = "idle",
         Link[e] # "symlink" => what = "copy",
         \/ store' = store
         \/ Link[e] = "move" /\ store' = [store EXCEPT !.files = @ \ {f}]
  PROVE  SerialInv'
<1>1. /\ env'[e][f] = what
      /\ \A x \in Envs, g \in Files : x # e \/ g # f => env'[x][g] = env[x][g]
      /\ todo'[e] = todo[e] \ {f}
      /\ \A x \in Envs : x # e => todo'[x] = todo[x]
  BY MadeEffect DEF State, SerialInv
<1>2. /\ store'.dir = store.dir /\ store'.marker = store.marker
      /\ Link[e] # "move" => store' = store
      /\ store.files \ {f} \subseteq store'.files
  BY DEF SerialInv, TypeOK, Entry
<1>3. Alone'
  BY DEF SerialInv, Alone
<1>4. EntryThere'
  BY <1>2 DEF SerialInv, EntryThere
<1>5. Marked'
  <2>1. store.marker = None => store' = store
    BY <1>2, NoneAssumption DEF SerialInv, Marked
  <2> QED BY <1>1, <1>2, <2>1 DEF SerialInv, Marked
<1>6. Emptied'
  BY <1>1 DEF SerialInv, Emptied
<1>7. Held'
  BY <1>1 DEF SerialInv, Held
<1> QED BY <1>3, <1>4, <1>5, <1>6, <1>7 DEF SerialInv

LEMMA SerialStep ==
  ASSUME OneAtATime, SerialInv, TypeOK', NEW e \in Envs, StepOf(e)
  PROVE  SerialInv'
<1>o. \A x \in Envs : x # e => Same(x)
  BY Others DEF SerialInv
<1>i. pc[e] # "idle" => \A x \in Envs : x # e => pc[x] = "idle"
  BY DEF SerialInv, Alone
<1>t. TypeOK
  BY DEF SerialInv
<1>1. CASE StartInstall(e)
  <2>1. \A x \in Envs : pc[x] = "idle"
    BY <1>1, StartAlone DEF StartInstall, SerialInv
  <2> QED BY <1>1, <2>1, SelectSerial DEF StartInstall
<1>2. CASE StartFile(e)
  <2>1. \A x \in Envs : pc[x] = "idle"
    BY <1>2, StartAlone DEF StartFile, SerialInv
  <2> QED BY <1>2, <2>1, GotoSerial DEF StartFile
<1>3. CASE StartRestore(e)
  BY <1>3 DEF StartRestore, CanStart, OneAtATime
<1>4. CASE Replace(e)
  <2>1. pc'[e] = "place" /\ pc[e] = "replace" /\ store' = NoEntry
    BY <1>4, <1>t DEF Replace, Goto, TypeOK
  <2> QED BY <1>4, <1>o, <1>i, <2>1 DEF Replace, NoEntry, SerialInv, Same, Alone, EntryThere, Marked,
             Emptied, Held
<1>5. CASE Place(e)
  <2>1. pc'[e] \in {"plan", "mark"} /\ pc[e] = "place" /\ store' = Unpacked
    BY <1>5, <1>t DEF Place, Goto, TypeOK
  <2> QED BY <1>5, <1>o, <1>i, <2>1 DEF Place, Unpacked, SerialInv, Same, Alone, EntryThere, Marked,
             Emptied, Held
<1>6. CASE PlaceFails(e) \/ BeginCopy(e) \/ OwnMarker(e) \/ EntryGone(e) \/ CopyFile(e)
  BY <1>6, NoneAssumption DEF PlaceFails, BeginCopy, OwnMarker, EntryGone, CopyFile, SerialInv,
             EntryThere, Marked
<1>7. CASE Plan(e)
  <2>1. CASE e \in recorded
    BY <1>7, <1>i, <2>1, GotoSerial DEF Plan
  <2>2. CASE e \notin recorded
    BY <1>7, <1>i, <2>2, SelectSerial DEF Plan
  <2> QED BY <2>1, <2>2
<1>8. CASE BeginLink(e)
  <2>1. /\ pc'[e] = "link" /\ pc[e] = "mark" /\ todo'[e] = Files
    BY <1>8, <1>t DEF BeginLink, Goto, TypeOK
  <2> QED BY <1>8, <1>o, <1>i, <2>1 DEF BeginLink, SerialInv, Same, Alone, EntryThere, Marked,
             Emptied, Held
<1>9. CASE BeginMove(e)
  BY <1>9, <1>i, GotoSerial DEF BeginMove
<1>10. CASE Claim(e)
  <2>1. /\ pc'[e] = "link" /\ pc[e] = "claim" /\ todo'[e] = Files
        /\ store'.dir = "full" /\ store'.files = store.files /\ store'.marker = e
    BY <1>10, <1>t DEF Claim, Goto, TypeOK, Entry
  <2>2. store.files = Files /\ Link[e] = "move" /\ e # None
    BY <1>10, <2>1, NoneAssumption DEF Claim, SerialInv, Marked
  <2> QED BY <1>10, <1>o, <1>i, <2>1, <2>2 DEF Claim, SerialInv, Same, Alone, EntryThere, Marked,
             Emptied, Held
<1>11. CASE SymlinkFile(e)
  BY <1>11, <1>i, MadeSerial DEF SymlinkFile
<1>12. CASE HardlinkFile(e)
  <2>1. PICK f \in todo[e] : Made(e, f, IF f \in store.files THEN "copy" ELSE "link")
    BY <1>12 DEF HardlinkFile
  <2>2. f \in store.files
    BY <1>12, <1>t DEF HardlinkFile, SerialInv, EntryThere, Marked, TypeOK
  <2> QED BY <1>12, <1>i, <2>1, <2>2, MadeSerial DEF HardlinkFile
<1>13. CASE ReflinkFile(e)
  <2>1. PICK f \in todo[e] :
          IF f \in store.files
            THEN Made(e, f, "copy") /\ UNCHANGED <<pc, from, source, dirty>>
            ELSE env' = [env EXCEPT ![e][f] = "none"] /\ Abort(e)
    BY <1>13 DEF ReflinkFile
  <2>2. f \in store.files
    BY <1>13, <1>t DEF ReflinkFile, SerialInv, EntryThere, Marked, TypeOK
  <2> QED BY <1>13, <1>i, <2>1, <2>2, MadeSerial DEF ReflinkFile
<1>14. CASE MoveFile(e)
  <2>1. PICK f \in todo[e] :
          IF f \in store.files \/ env[e][f] # "none"
            THEN /\ Made(e, f, IF f \in store.files THEN "copy" ELSE env[e][f])
                 /\ store' = [store EXCEPT !.files = @ \ {f}]
                 /\ UNCHANGED <<pc, from, source, dirty>>
            ELSE Abort(e) /\ UNCHANGED <<store, env>>
    BY <1>14 DEF MoveFile
  <2>2. Link[e] = "move" /\ pc[e] = "link"
    BY <1>14 DEF MoveFile, OneAtATime
  <2>3. f \in store.files
    BY <2>2 DEF SerialInv, Marked
  <2> QED BY <1>14, <1>i, <2>1, <2>2, <2>3, MadeSerial DEF MoveFile
<1>15. CASE LinkDone(e)
  <2>1. pc[e] = "link" /\ todo[e] = {}
    BY <1>15 DEF LinkDone, SerialInv, EntryThere
  <2> QED BY <1>15, <1>i, <2>1, GotoSerial DEF LinkDone, SerialInv, EntryThere, Held
<1>16. CASE Record(e)
  <2>1. pc'[e] = "idle" /\ pc[e] = "record"
    BY <1>16, <1>t DEF Record, Goto, TypeOK
  <2> QED BY <1>16, <1>o, <1>i, <2>1 DEF Record, SerialInv, Same, Alone, EntryThere, Marked,
             Emptied, Held
<1>17. CASE StartRemove(e)
  <2>1. \A x \in Envs : pc[x] = "idle"
    BY <1>17, StartAlone DEF StartRemove, SerialInv
  <2>2. store.dir = "full"
    BY <1>17, <2>1 DEF StartRemove, SerialInv, EntryThere
  <2>3. /\ pc'[e] = "unlink" /\ todo'[e] = Files
    BY <1>17, <2>2, <1>t DEF StartRemove, Goto, TypeOK
  <2> QED BY <1>17, <1>o, <2>1, <2>2, <2>3 DEF StartRemove, SerialInv, Same, Alone, EntryThere, Marked,
             Emptied, Held
<1>18. CASE UnlinkFile(e)
  <2>1. PICK f \in todo[e] : Made(e, f, "none")
    BY <1>18 DEF UnlinkFile
  <2>2. /\ env'[e][f] = "none" /\ \A g \in Files : g # f => env'[e][g] = env[e][g]
        /\ todo'[e] = todo[e] \ {f}
    BY <1>t, <2>1, MadeEffect DEF State
  <2> QED BY <1>18, <1>o, <2>2 DEF UnlinkFile, SerialInv, Same, Alone, EntryThere, Marked,
             Emptied, Held
<1>19. CASE Forget(e)
  <2>1. pc'[e] = "idle" /\ pc[e] = "unlink"
    BY <1>19, <1>t DEF Forget, Goto, TypeOK
  <2> QED BY <1>19, <1>o, <1>i, <2>1 DEF Forget, SerialInv, Same, Alone, EntryThere, Marked,
             Emptied, Held
<1>20. CASE Die(e)
  BY <1>20, AbortSerial DEF Die, OneAtATime
<1> QED BY <1>1, <1>2, <1>3, <1>4, <1>5, <1>6, <1>7, <1>8, <1>9, <1>10, <1>11, <1>12, <1>13,
           <1>14, <1>15, <1>16, <1>17, <1>18, <1>19, <1>20 DEF StepOf

LEMMA NextSerial == OneAtATime /\ SerialInv /\ [Next]_vars => SerialInv'
<1> SUFFICES ASSUME OneAtATime, SerialInv, [Next]_vars PROVE SerialInv'
  OBVIOUS
<1>1. TypeOK'
  BY NextType DEF SerialInv
<1>2. CASE UNCHANGED vars
  BY <1>1, <1>2 DEF vars, SerialInv, Alone, EntryThere, Marked, Emptied, Held
<1>3. CASE GcPlan \/ GcRemove
  BY <1>3 DEF GcPlan, GcRemove, OneAtATime, SerialInv, EntryThere
<1>4. CASE \E e \in Envs : StepOf(e)
  BY <1>1, <1>4, SerialStep
<1> QED BY <1>2, <1>3, <1>4, NextSteps

LEMMA SerialInvariant == ASSUME OneAtATime PROVE Spec => []SerialInv
<1>1. Init => SerialInv
  BY InitSerial
<1>2. SerialInv /\ [Next]_vars => SerialInv'
  BY NextSerial
<1> QED BY <1>1, <1>2, PTL DEF Spec

(* One command at a time, an entry a plan accepts is whole, although files  *)
(* are moved out of it and commands die among them (store.rs:805-852).      *)
THEOREM AcceptedIsWhole == ASSUME OneAtATime PROVE Spec => []UsableWhole
<1>1. SerialInv => UsableWhole
  BY DEF SerialInv, Marked, Usable, UsableWhole
<1> QED BY <1>1, SerialInvariant, PTL

(* One command at a time, a remove finds the entry that tells it the files, *)
(* and leaves none of them (remove.rs:22-87).                               *)
THEOREM NothingIsLeft == ASSUME OneAtATime PROVE Spec => []RemovedIsGone
<1>1. SerialInv => RemovedIsGone
  BY DEF SerialInv, Emptied, RemovedIsGone
<1> QED BY <1>1, SerialInvariant, PTL

(* One command at a time, environments that move files are as independent   *)
(* as those that hard-link and copy (link.rs:180-206).                      *)
THEOREM MoversAreIndependent ==
  ASSUME OneAtATime, \A e \in Envs : Link[e] # "symlink" PROVE Spec => []Independent
<1>1. SerialInv => Independent
  BY DEF SerialInv, TypeOK, Held, Independent, Resolves
<1> QED BY <1>1, SerialInvariant, PTL
=============================================================================
