----------------------------- MODULE SharedStore -----------------------------
(***************************************************************************)
(* One entry of the store and the environments that share it: the directory *)
(* store/<hash>__<name>__<version>__<arch> with fs/, info/filelist.txt and  *)
(* the marker info/consumed.json (store.rs), what link_package makes of its *)
(* files in each environment (link.rs), how remove takes them away          *)
(* (remove.rs) and what `epkg gc` deletes (gc.rs).                          *)
(*                                                                          *)
(* Each environment has a fixed link type and at most one epkg process; the *)
(* processes of different environments interleave, without any lock, file   *)
(* by file.  Entries are independent of one another, so one is enough.  A   *)
(* command may be killed, or return an error, at a step of DiePoints.       *)
(*                                                                          *)
(* Left out: two processes in one environment (module Generations), files   *)
(* replaced by other packages, and the special paths link.rs copies         *)
(* whatever the link type is.                                               *)
(***************************************************************************)
EXTENDS Naturals, FiniteSets

CONSTANTS Envs,       \* environments
          Link,       \* the link type of each
          Files,      \* the regular files of the package
          Commands,   \* the commands users give in each
          Collecting, \* whether somebody collects garbage
          DiePoints,  \* the steps at which a process may be killed or fail
          MaxRunning  \* bound on processes at work at a time

LinkTypes == {"symlink", "hardlink", "reflink", "move", "runpath"}
Steps == {"replace", "place", "plan", "mark", "claim", "link", "copy", "record", "unlink"}

ASSUME SharedStoreAssumption ==
  /\ Link \in [Envs -> LinkTypes]
  /\ Files # {}
  /\ Commands \in [Envs -> SUBSET {"install", "file", "remove", "restore"}]
  /\ Collecting \in BOOLEAN
  /\ DiePoints \subseteq Steps
  /\ MaxRunning \in Nat

None == "none"
ASSUME NoneAssumption == None \notin Envs

VARIABLES store,    \* the entry: its directory, the files in fs/, the marker
          env,      \* each package file in each environment root
          recorded, \* environments whose current generation records the package
          past,     \* environments with some generation that records it
          pc,       \* the step the process of each environment is at
          todo,     \* the files its step has not done
          from,     \* the environment it copies from
          source,   \* what the unpacking was for: "repo" or a local "file"
          gc,       \* "idle", or "planned": gc has listed the entry
          dirty     \* history variable: environments with a command cut short

vars == <<store, env, recorded, past, pc, todo, from, source, gc, dirty>>

(* "stub": only info/consumed.json; "full": fs/ and info/filelist.txt.      *)
Entry == [dir : {"absent", "stub", "full"}, files : SUBSET Files,
          marker : Envs \cup {None}]
NoEntry == [dir |-> "absent", files |-> {}, marker |-> None]
Unpacked == [dir |-> "full", files |-> Files, marker |-> None]

TypeOK ==
  /\ store \in Entry
  /\ env \in [Envs -> [Files -> {"none", "copy", "link"}]]
  /\ recorded \subseteq Envs
  /\ past \subseteq Envs
  /\ pc \in [Envs -> Steps \cup {"idle"}]
  /\ todo \in [Envs -> SUBSET Files]
  /\ from \in [Envs -> Envs \cup {None}]
  /\ source \in [Envs -> {"repo", "file"}]
  /\ gc \in {"idle", "planned"}
  /\ dirty \subseteq Envs

Init ==
  /\ store = NoEntry
  /\ env = [e \in Envs |-> [f \in Files |-> "none"]]
  /\ recorded = {}
  /\ past = {}
  /\ pc = [e \in Envs |-> "idle"]
  /\ todo = [e \in Envs |-> {}]
  /\ from = [e \in Envs |-> None]
  /\ source = [e \in Envs |-> "repo"]
  /\ gc = "idle"
  /\ dirty = {}

Goto(e, step) == pc' = [pc EXCEPT ![e] = step]

(* An error ends the process with nothing undone. *)
Abort(e) == /\ Goto(e, "idle")
            /\ todo' = [todo EXCEPT ![e] = {}]
            /\ from' = [from EXCEPT ![e] = None]
            /\ source' = [source EXCEPT ![e] = "repo"]
            /\ dirty' = dirty \cup {e}

-----------------------------------------------------------------------------
(* Planning.                                                                *)

(* collect_store_pkglines passes over marked entries; validate_store_       *)
(* integrity accepts one unless more than half its files are missing.       *)
Usable == /\ store.dir = "full"
          /\ store.marker = None
          /\ 2 * Cardinality(Files \ store.files) =< Cardinality(Files)

CanStart(e, command) ==
  /\ command \in Commands[e]
  /\ pc[e] = "idle"
  /\ Cardinality({x \in Envs : pc[x] # "idle"}) < MaxRunning

(* A package found in the store is linked; any other is downloaded. *)
Select(e, found) == Goto(e, IF found THEN "mark" ELSE "replace")

(* Faulty: takes any entry it finds. *)
StartInstallAny(e) ==
  /\ CanStart(e, "install")
  /\ e \notin recorded
  /\ Select(e, store.dir = "full")
  /\ source' = [source EXCEPT ![e] = "repo"]
  /\ UNCHANGED <<store, env, recorded, past, todo, from, gc, dirty>>

StartInstall(e) ==
  /\ CanStart(e, "install")
  /\ e \notin recorded
  /\ Select(e, Usable)
  /\ source' = [source EXCEPT ![e] = "repo"]
  /\ UNCHANGED <<store, env, recorded, past, todo, from, gc, dirty>>

(* A local package file is unpacked before anything is planned. *)
StartFile(e) ==
  /\ CanStart(e, "file")
  /\ Goto(e, "replace")
  /\ source' = [source EXCEPT ![e] = "file"]
  /\ UNCHANGED <<store, env, recorded, past, todo, from, gc, dirty>>

(* An older generation names the entry itself: it is taken if any file is   *)
(* left in fs/, marked or not.                                              *)
StartRestore(e) ==
  /\ CanStart(e, "restore")
  /\ e \in past \ recorded
  /\ Select(e, Usable \/ (store.dir = "full" /\ store.files # {}))
  /\ source' = [source EXCEPT ![e] = "repo"]
  /\ UNCHANGED <<store, env, recorded, past, todo, from, gc, dirty>>

-----------------------------------------------------------------------------
(* Unpacking: unpack_mv_package_with_format, after the files are ready in a *)
(* temporary directory.                                                     *)

(* An entry that exists is deleted first. *)
Replace(e) ==
  /\ pc[e] = "replace"
  /\ store' = NoEntry
  /\ Goto(e, "place")
  /\ UNCHANGED <<env, recorded, past, todo, from, source, gc, dirty>>

Place(e) ==
  /\ pc[e] = "place"
  /\ store.dir = "absent"
  /\ store' = Unpacked
  /\ Goto(e, IF source[e] = "file" THEN "plan" ELSE "mark")
  /\ UNCHANGED <<env, recorded, past, todo, from, source, gc, dirty>>

(* rename(2) does not replace a directory that is not empty: another        *)
(* process has placed the entry meanwhile.                                  *)
PlaceFails(e) ==
  /\ pc[e] = "place"
  /\ store.dir # "absent"
  /\ Abort(e)
  /\ UNCHANGED <<store, env, recorded, past, gc>>

(* After a local file: nothing to do for what is installed, else as install. *)
Plan(e) ==
  /\ pc[e] = "plan"
  /\ IF e \in recorded THEN Goto(e, "idle") ELSE Select(e, Usable)
  /\ source' = [source EXCEPT ![e] = "repo"]
  /\ UNCHANGED <<store, env, recorded, past, todo, from, gc, dirty>>

-----------------------------------------------------------------------------
(* Linking.                                                                 *)

Resolves(e, f) == env[e][f] = "copy" \/ (env[e][f] = "link" /\ f \in store.files)

BeginLink(e) ==
  /\ pc[e] = "mark"
  /\ Link[e] # "move"
  /\ store.dir = "full"
  /\ Goto(e, "link")
  /\ todo' = [todo EXCEPT ![e] = Files]
  /\ UNCHANGED <<store, env, recorded, past, from, source, gc, dirty>>

(* The entry is not consumed: it is claimed next. *)
BeginMove(e) ==
  /\ pc[e] = "mark"
  /\ Link[e] = "move"
  /\ store.dir = "full"
  /\ store.marker = None
  /\ Goto(e, "claim")
  /\ UNCHANGED <<store, env, recorded, past, todo, from, source, gc, dirty>>

(* Faulty: moves without leaving a marker. *)
ClaimUnmarked(e) ==
  /\ pc[e] = "claim"
  /\ store.dir = "full"
  /\ Goto(e, "link")
  /\ todo' = [todo EXCEPT ![e] = Files]
  /\ UNCHANGED <<store, env, recorded, past, from, source, gc, dirty>>

(* The marker is written before the first file is moved, over any other     *)
(* environment's.                                                           *)
Claim(e) ==
  /\ pc[e] = "claim"
  /\ store.dir = "full"
  /\ store' = [store EXCEPT !.marker = e]
  /\ Goto(e, "link")
  /\ todo' = [todo EXCEPT ![e] = Files]
  /\ UNCHANGED <<env, recorded, past, from, source, gc, dirty>>

(* The entry was consumed by another environment: copy from there. *)
BeginCopy(e) ==
  /\ pc[e] = "mark"
  /\ Link[e] = "move"
  /\ store.dir = "full"
  /\ store.marker \notin {None, e}
  /\ from' = [from EXCEPT ![e] = store.marker]
  /\ Goto(e, "copy")
  /\ todo' = [todo EXCEPT ![e] = Files]
  /\ UNCHANGED <<store, env, recorded, past, source, gc, dirty>>

(* Consumed by this environment: nothing to do if any file is there, else   *)
(* the marker is taken for stale and the command fails.                     *)
OwnMarker(e) ==
  /\ pc[e] = "mark"
  /\ Link[e] = "move"
  /\ store.dir = "full"
  /\ store.marker = e
  /\ IF \E f \in Files : Resolves(e, f)
       THEN Goto(e, "record") /\ UNCHANGED <<store, todo, from, source, dirty>>
       ELSE store' = [store EXCEPT !.marker = None] /\ Abort(e)
  /\ UNCHANGED <<env, recorded, past, gc>>

(* No filelist.txt; a move has written its marker by then. *)
EntryGone(e) ==
  /\ pc[e] \in {"mark", "claim"}
  /\ store.dir # "full"
  /\ store' = IF Link[e] = "move" THEN [NoEntry EXCEPT !.dir = "stub", !.marker = e]
                                  ELSE store
  /\ Abort(e)
  /\ UNCHANGED <<env, recorded, past, gc>>

Made(e, f, what) ==
  /\ env' = [env EXCEPT ![e][f] = what]
  /\ todo' = [todo EXCEPT ![e] = @ \ {f}]

(* A symbolic link is made whether or not its target exists. *)
SymlinkFile(e) ==
  /\ pc[e] = "link"
  /\ Link[e] = "symlink"
  /\ \E f \in todo[e] : Made(e, f, "link")
  /\ UNCHANGED <<store, recorded, past, pc, from, source, gc, dirty>>

(* Hard links fall back to symbolic ones. *)
HardlinkFile(e) ==
  /\ pc[e] = "link"
  /\ Link[e] = "hardlink"
  /\ \E f \in todo[e] : Made(e, f, IF f \in store.files THEN "copy" ELSE "link")
  /\ UNCHANGED <<store, recorded, past, pc, from, source, gc, dirty>>

(* Faulty: goes on after an error. *)
ReflinkSkips(e) ==
  /\ pc[e] = "link"
  /\ Link[e] = "reflink"
  /\ \E f \in todo[e] : Made(e, f, IF f \in store.files THEN "copy" ELSE "none")
  /\ UNCHANGED <<store, recorded, past, pc, from, source, gc, dirty>>

(* What was in the place of the file is deleted before the copy is tried.   *)
ReflinkFile(e) ==
  /\ pc[e] = "link"
  /\ Link[e] = "reflink"
  /\ \E f \in todo[e] :
        IF f \in store.files
          THEN Made(e, f, "copy") /\ UNCHANGED <<pc, from, source, dirty>>
          ELSE env' = [env EXCEPT ![e][f] = "none"] /\ Abort(e)
  /\ UNCHANGED <<store, recorded, past, gc>>

(* A file that is gone from the store counts as moved if the environment    *)
(* has one by that name; otherwise the command fails. The lookup in a       *)
(* consuming environment that comes first is left out: it takes the path    *)
(* two levels above the file for the entry, true only of files in fs/.      *)
MoveFile(e) ==
  /\ pc[e] = "link"
  /\ Link[e] \in {"move", "runpath"}
  /\ \E f \in todo[e] :
        IF f \in store.files \/ env[e][f] # "none"
          THEN /\ Made(e, f, IF f \in store.files THEN "copy" ELSE env[e][f])
               /\ store' = [store EXCEPT !.files = @ \ {f}]
               /\ UNCHANGED <<pc, from, source, dirty>>
          ELSE Abort(e) /\ UNCHANGED <<store, env>>
  /\ UNCHANGED <<recorded, past, gc>>

(* What the other environment no longer has is passed over. *)
CopyFile(e) ==
  /\ pc[e] = "copy"
  /\ \E f \in todo[e] : Made(e, f, IF Resolves(from[e], f) THEN "copy" ELSE env[e][f])
  /\ UNCHANGED <<store, recorded, past, pc, from, source, gc, dirty>>

LinkDone(e) ==
  /\ pc[e] \in {"link", "copy"}
  /\ todo[e] = {}
  /\ from' = [from EXCEPT ![e] = None]
  /\ Goto(e, "record")
  /\ UNCHANGED <<store, env, recorded, past, todo, source, gc, dirty>>

Record(e) ==
  /\ pc[e] = "record"
  /\ recorded' = recorded \cup {e}
  /\ past' = past \cup {e}
  /\ dirty' = dirty \ {e}
  /\ Goto(e, "idle")
  /\ UNCHANGED <<store, env, todo, from, source, gc>>

-----------------------------------------------------------------------------
(* Removing.                                                                *)

(* The files are found through the store: without the entry, none is.       *)
StartRemove(e) ==
  /\ CanStart(e, "remove")
  /\ e \in recorded
  /\ Goto(e, "unlink")
  /\ todo' = [todo EXCEPT ![e] = IF store.dir = "full" THEN Files ELSE {}]
  /\ UNCHANGED <<store, env, recorded, past, from, source, gc, dirty>>

UnlinkFile(e) ==
  /\ pc[e] = "unlink"
  /\ \E f \in todo[e] : Made(e, f, "none")
  /\ UNCHANGED <<store, recorded, past, pc, from, source, gc, dirty>>

(* Faulty: the record goes before the files do. *)
ForgetEarly(e) ==
  /\ pc[e] = "unlink"
  /\ recorded' = recorded \ {e}
  /\ todo' = [todo EXCEPT ![e] = {}]
  /\ Goto(e, "idle")
  /\ UNCHANGED <<store, env, past, from, source, gc, dirty>>

Forget(e) ==
  /\ pc[e] = "unlink"
  /\ todo[e] = {}
  /\ recorded' = recorded \ {e}
  /\ dirty' = dirty \ {e}
  /\ Goto(e, "idle")
  /\ UNCHANGED <<store, env, past, todo, from, source, gc>>

-----------------------------------------------------------------------------
(* Collecting garbage.  collect_env_configs reads installed-packages.json   *)
(* as a map, and it is an array: nothing is ever found to be in use.        *)

GcPlan ==
  /\ Collecting
  /\ gc = "idle"
  /\ store.dir # "absent"
  /\ gc' = "planned"
  /\ UNCHANGED <<store, env, recorded, past, pc, todo, from, source, dirty>>

GcRemove ==
  /\ gc = "planned"
  /\ store' = NoEntry
  /\ gc' = "idle"
  /\ UNCHANGED <<env, recorded, past, pc, todo, from, source, dirty>>

-----------------------------------------------------------------------------
Die(e) ==
  /\ pc[e] \in DiePoints
  /\ Abort(e)
  /\ UNCHANGED <<store, env, recorded, past, gc>>

Next == \/ \E e \in Envs :
             \/ StartInstall(e) \/ StartFile(e) \/ StartRestore(e)
             \/ Replace(e) \/ Place(e) \/ PlaceFails(e) \/ Plan(e)
             \/ BeginLink(e) \/ BeginMove(e) \/ Claim(e) \/ BeginCopy(e)
             \/ OwnMarker(e) \/ EntryGone(e)
             \/ SymlinkFile(e) \/ HardlinkFile(e) \/ ReflinkFile(e) \/ MoveFile(e)
             \/ CopyFile(e) \/ LinkDone(e) \/ Record(e)
             \/ StartRemove(e) \/ UnlinkFile(e) \/ Forget(e)
             \/ Die(e)
        \/ GcPlan \/ GcRemove

Spec == Init /\ [][Next]_vars
-----------------------------------------------------------------------------
(* Properties.                                                              *)

Placing == {e \in Envs : pc[e] = "place"}

(* "Each environment is independent" (docs/en/user-guide/skill.md:20):      *)
(* whatever the others do, the files of a package an environment records    *)
(* are there and lead to content, except between the two steps in which     *)
(* some process replaces the entry (store.rs:336-348).                      *)
Independent ==
  Placing = {} =>
    \A e \in recorded \ dirty : pc[e] # "unlink" => \A f \in Files : Resolves(e, f)

(* An entry that a plan will use is complete, whatever moves and deaths     *)
(* came before: "If the move fails partway, the marker ensures the store is *)
(* not reused" (store.rs:805-807).                                          *)
UsableWhole == Usable => store.files = Files

(* An environment with copies of its own keeps them, whatever moves, garbage *)
(* collections, deaths and replacements go on in the store meanwhile: a     *)
(* command that finds a file missing must fail (link.rs:856-870).           *)
ReflinkSafe ==
  \A e \in recorded \ dirty :
     Link[e] = "reflink" /\ pc[e] # "unlink" => \A f \in Files : env[e][f] = "copy"

(* After a remove that was not cut short nothing of the package is left in  *)
(* the environment: unlink_package "removes all package files from the      *)
(* environment root" (remove.rs:14-15).                                     *)
RemovedIsGone ==
  \A e \in Envs \ (recorded \cup dirty) :
     pc[e] = "idle" => \A f \in Files : env[e][f] = "none"

(* "`epkg gc` only removes unreferenced store data"                         *)
(* (docs/en/reference/paths.md:46).                                         *)
GcSparesReferenced == [][gc = "planned" /\ gc' = "idle" => recorded = {}]_vars
=============================================================================
