---------------------------- MODULE Generations ----------------------------
(***************************************************************************)
(* The generations of one environment: the directories                      *)
(* generations/N/{command,installed-packages,world}.json, the symbolic link *)
(* generations/current, pending-packages.json and the packages whose files  *)
(* are linked into the environment root, as install, upgrade, remove and    *)
(* restore change them one file operation at a time (install.rs,            *)
(* history.rs, io.rs, remove.rs).                                           *)
(*                                                                          *)
(* A process of Procs runs one command after another; each command is a new *)
(* epkg process, so its caches start empty.  There is no lock of any kind   *)
(* between processes.  At a step of DiePoints a process may be killed, or   *)
(* return the error of that step (every `?` of execute_installation_plan    *)
(* ends the process with nothing undone): a file being written is then      *)
(* either untouched or torn, because lfs::write truncates and writes.       *)
(*                                                                          *)
(* What a command wants is abstract here: any set of new packages and any   *)
(* set of removed ones (module PackageDb models how they are chosen).       *)
(***************************************************************************)
EXTENDS Naturals

CONSTANTS Procs,      \* epkg processes that use this environment
          Pkgs,       \* package keys
          MaxGen,     \* bound: no command starts from generation MaxGen
          DiePoints   \* the steps at which a process may be killed or fail

Steps == {"link", "pending", "transact", "drop", "create", "record",
          "installed", "world", "unlink", "relink"}

ASSUME GenerationsAssumption == MaxGen \in Nat /\ DiePoints \subseteq Steps

VARIABLES gen,       \* generations/N: the directory and its three files
          current,   \* target of generations/current, or NoLink
          pending,   \* pending-packages.json
          env,       \* packages whose files are in the environment root
          pc,        \* the step each process is at
          mem,       \* the plan and the caches of each process
          top,       \* history variable: the highest generation made current
          dirty      \* history variable: packages of commands cut short

vars == <<gen, current, pending, env, pc, mem, top, dirty>>

GenId == 0..MaxGen
NoLink == MaxGen + 1

(* A JSON file holding a set of packages.  A torn file does not parse.      *)
File == [st : {"absent", "torn", "whole"}, val : SUBSET Pkgs]
Absent == [st |-> "absent", val |-> {}]
Torn == [st |-> "torn", val |-> {}]
Whole(s) == [st |-> "whole", val |-> s]

GenDir == [made : BOOLEAN, command : File, installed : File, world : File]
NoDir == [made |-> FALSE, command |-> Absent, installed |-> Absent, world |-> Absent]

Mem == [kind   : {"none", "install", "remove", "restore"},
        target : GenId,           \* the generation to restore
        cache  : SUBSET Pkgs,     \* PACKAGE_CACHE.installed_packages
        world  : SUBSET Pkgs,     \* PACKAGE_CACHE.world
        new    : SUBSET Pkgs,     \* plan.new_pkgs
        rem    : SUBSET Pkgs,     \* plan.old_removes and plan.upgrades_old
        todo   : SUBSET Pkgs,     \* packages the current step has not done
        id     : GenId]           \* the new generation
Fresh == [kind |-> "none", target |-> 0, cache |-> {}, world |-> {},
          new |-> {}, rem |-> {}, todo |-> {}, id |-> 0]

TypeOK ==
  /\ gen \in [GenId -> GenDir]
  /\ current \in GenId \cup {NoLink}
  /\ pending \in File
  /\ env \subseteq Pkgs
  /\ pc \in [Procs -> Steps \cup {"idle"}]
  /\ mem \in [Procs -> Mem]
  /\ top \in GenId
  /\ dirty \subseteq Pkgs

(* `epkg env create`: generation 0, empty, and the link to it. *)
Init ==
  /\ gen = [g \in GenId |->
              IF g = 0 THEN [made |-> TRUE, command |-> Whole({}),
                             installed |-> Whole({}), world |-> Whole({})]
                       ELSE NoDir]
  /\ current = 0
  /\ pending = Absent
  /\ env = {}
  /\ pc = [p \in Procs |-> "idle"]
  /\ mem = [p \in Procs |-> Fresh]
  /\ top = 0
  /\ dirty = {}

-----------------------------------------------------------------------------
(* Reading the environment.                                                 *)

(* A missing link is read as generation 0. *)
CurrentId == IF current = NoLink THEN 0 ELSE current

(* A missing file reads as an empty map; a torn one is an error. *)
Readable(f) == f.st # "torn"

(* load_installed_packages: pending-packages.json stands in for an empty    *)
(* map; an unreadable pending file is ignored.                              *)
LoadView == LET recorded == gen[CurrentId].installed.val
            IN  IF recorded = {} /\ pending.st = "whole" THEN pending.val
                                                         ELSE recorded

(* A command starts from the current generation: it loads, plans and asks   *)
(* the user; with nothing to do it ends here and leaves no generation.      *)
Begin(p, kind, target, world, new, rem) ==
  /\ new \cup rem # {}
  /\ pc' = [pc EXCEPT ![p] = "link"]
  /\ mem' = [mem EXCEPT ![p] = [kind |-> kind, target |-> target, cache |-> LoadView,
                                world |-> world, new |-> new, rem |-> rem,
                                todo |-> new, id |-> 0]]
  /\ UNCHANGED <<gen, current, pending, env, top, dirty>>

CanBegin(p) == /\ pc[p] = "idle"
               /\ CurrentId < MaxGen
               /\ Readable(gen[CurrentId].installed)

(* install and upgrade: requested packages join the world; what they        *)
(* replace and what becomes an orphan is removed.                           *)
StartInstall(p) ==
  /\ CanBegin(p)
  /\ Readable(gen[CurrentId].world)
  /\ \E new \in SUBSET (Pkgs \ LoadView), rem \in SUBSET LoadView :
        Begin(p, "install", 0, gen[CurrentId].world.val \cup new, new, rem)

StartRemove(p) ==
  /\ CanBegin(p)
  /\ Readable(gen[CurrentId].world)
  /\ \E rem \in SUBSET LoadView :
        Begin(p, "remove", 0, gen[CurrentId].world.val \ rem, {}, rem)

(* restore t: any existing directory but the current one; the plan is the   *)
(* difference of the two maps.  The world is not loaded.                    *)
StartRestore(p) ==
  /\ CanBegin(p)
  /\ \E t \in GenId :
        /\ gen[t].made
        /\ t # CurrentId
        /\ Readable(gen[t].installed)
        /\ Begin(p, "restore", t, {}, gen[t].installed.val \ LoadView,
                                      LoadView \ gen[t].installed.val)

-----------------------------------------------------------------------------
(* Executing the plan.                                                      *)

Goto(p, step) == pc' = [pc EXCEPT ![p] = step]

LinkPackage(p) ==
  /\ pc[p] = "link"
  /\ \E x \in mem[p].todo :
        /\ env' = env \cup {x}
        /\ mem' = [mem EXCEPT ![p].todo = @ \ {x}]
  /\ UNCHANGED <<gen, current, pending, pc, top, dirty>>

LinkDone(p) ==
  /\ pc[p] = "link"
  /\ mem[p].todo = {}
  /\ Goto(p, "pending")
  /\ UNCHANGED <<gen, current, pending, env, mem, top, dirty>>

(* Nothing is written when the plan installs nothing. *)
SavePending(p) ==
  /\ pc[p] = "pending"
  /\ pending' = IF mem[p].new = {} THEN pending ELSE Whole(mem[p].new)
  /\ mem' = [mem EXCEPT ![p].todo = mem[p].new \cup mem[p].rem]
  /\ Goto(p, "transact")
  /\ UNCHANGED <<gen, current, env, top, dirty>>

(* One operation of run_transaction_batch: a new package enters the cache,  *)
(* an old one loses its files and leaves it.                                *)
TransactNew(p) ==
  /\ pc[p] = "transact"
  /\ \E x \in mem[p].todo \cap mem[p].new :
        mem' = [mem EXCEPT ![p].todo = @ \ {x}, ![p].cache = @ \cup {x}]
  /\ UNCHANGED <<gen, current, pending, env, pc, top, dirty>>

(* Faulty: the record goes, the files stay. *)
TransactKeepsFiles(p) ==
  /\ pc[p] = "transact"
  /\ \E x \in mem[p].todo \cap mem[p].rem :
        mem' = [mem EXCEPT ![p].todo = @ \ {x}, ![p].cache = @ \ {x}]
  /\ UNCHANGED <<gen, current, pending, env, pc, top, dirty>>

TransactOld(p) ==
  /\ pc[p] = "transact"
  /\ \E x \in mem[p].todo \cap mem[p].rem :
        /\ env' = env \ {x}
        /\ mem' = [mem EXCEPT ![p].todo = @ \ {x}, ![p].cache = @ \ {x}]
  /\ UNCHANGED <<gen, current, pending, pc, top, dirty>>

TransactDone(p) ==
  /\ pc[p] = "transact"
  /\ mem[p].todo = {}
  /\ Goto(p, "drop")
  /\ UNCHANGED <<gen, current, pending, env, mem, top, dirty>>

DropPending(p) ==
  /\ pc[p] = "drop"
  /\ pending' = Absent
  /\ Goto(p, "create")
  /\ UNCHANGED <<gen, current, env, mem, top, dirty>>

-----------------------------------------------------------------------------
(* Writing the new generation.                                              *)

(* The directory may exist already; command.json is copied from the current *)
(* generation when it has one.                                              *)
CreateAs(p, id) ==
  LET old == gen[CurrentId].command
  IN  /\ gen' = [gen EXCEPT ![id].made = TRUE,
                            ![id].command = IF old.st = "absent" THEN @ ELSE old]
      /\ mem' = [mem EXCEPT ![p].id = id]
      /\ Goto(p, "record")
      /\ UNCHANGED <<current, pending, env, top, dirty>>

(* Faulty: works in the current generation's directory. *)
CreateInPlace(p) == pc[p] = "create" /\ CreateAs(p, CurrentId)

(* Faulty: a restore takes the number after its target. *)
CreateAfterTarget(p) ==
  /\ pc[p] = "create"
  /\ CurrentId < MaxGen
  /\ CreateAs(p, IF mem[p].kind = "restore" /\ mem[p].target < MaxGen
                   THEN mem[p].target + 1 ELSE CurrentId + 1)

CreateGeneration(p) ==
  /\ pc[p] = "create"
  /\ CurrentId < MaxGen
  /\ CreateAs(p, CurrentId + 1)

RecordHistory(p) ==
  /\ pc[p] = "record"
  /\ gen' = [gen EXCEPT ![mem[p].id].command = Whole(mem[p].new)]
  /\ Goto(p, "installed")
  /\ UNCHANGED <<current, pending, env, mem, top, dirty>>

SaveInstalled(p) ==
  /\ pc[p] = "installed"
  /\ gen' = [gen EXCEPT ![mem[p].id].installed = Whole(mem[p].cache)]
  /\ Goto(p, "world")
  /\ UNCHANGED <<current, pending, env, mem, top, dirty>>

SaveWorld(p) ==
  /\ pc[p] = "world"
  /\ gen' = [gen EXCEPT ![mem[p].id].world = Whole(mem[p].world)]
  /\ Goto(p, "unlink")
  /\ UNCHANGED <<current, pending, env, mem, top, dirty>>

(* The link is switched in two steps: remove it, then make it anew. *)
UnlinkCurrent(p) ==
  /\ pc[p] = "unlink"
  /\ current' = NoLink
  /\ Goto(p, "relink")
  /\ UNCHANGED <<gen, pending, env, mem, top, dirty>>

Finish(p) == /\ Goto(p, "idle")
             /\ mem' = [mem EXCEPT ![p] = Fresh]

(* symlink(2) fails when another process has made the link meanwhile.       *)
RelinkCurrent(p) ==
  /\ pc[p] = "relink"
  /\ IF current = NoLink
       THEN /\ current' = mem[p].id
            /\ top' = IF mem[p].id > top THEN mem[p].id ELSE top
            /\ dirty' = dirty \ (mem[p].new \cup mem[p].rem)
       ELSE /\ dirty' = dirty \cup mem[p].new \cup mem[p].rem
            /\ UNCHANGED <<current, top>>
  /\ Finish(p)
  /\ UNCHANGED <<gen, pending, env>>

-----------------------------------------------------------------------------
(* A process dies: the file of its step is untouched or torn.               *)

TornGens(p) ==
  LET id == mem[p].id
      new == IF CurrentId < MaxGen THEN CurrentId + 1 ELSE MaxGen
  IN  CASE pc[p] = "create" -> {gen, [gen EXCEPT ![new].made = TRUE],
                                [gen EXCEPT ![new].made = TRUE, ![new].command = Torn]}
        [] pc[p] = "record" -> {gen, [gen EXCEPT ![id].command = Torn]}
        [] pc[p] = "installed" -> {gen, [gen EXCEPT ![id].installed = Torn]}
        [] pc[p] = "world" -> {gen, [gen EXCEPT ![id].world = Torn]}
        [] OTHER -> {gen}

TornPendings(p) == IF pc[p] = "pending" /\ mem[p].new # {} THEN {pending, Torn}
                                                          ELSE {pending}

Die(p) ==
  /\ pc[p] \in DiePoints
  /\ gen' \in TornGens(p)
  /\ pending' \in TornPendings(p)
  /\ dirty' = dirty \cup mem[p].new \cup mem[p].rem
  /\ Finish(p)
  /\ UNCHANGED <<current, env, top>>

Next == \E p \in Procs :
          \/ StartInstall(p) \/ StartRemove(p) \/ StartRestore(p)
          \/ LinkPackage(p) \/ LinkDone(p) \/ SavePending(p)
          \/ TransactNew(p) \/ TransactOld(p) \/ TransactDone(p) \/ DropPending(p)
          \/ CreateGeneration(p) \/ RecordHistory(p) \/ SaveInstalled(p) \/ SaveWorld(p)
          \/ UnlinkCurrent(p) \/ RelinkCurrent(p)
          \/ Die(p)

Spec == Init /\ [][Next]_vars
-----------------------------------------------------------------------------
(* Properties.                                                              *)

AllIdle == \A p \in Procs : pc[p] = "idle"

(* The generation the link names is complete: whatever step a process died  *)
(* at, epkg finds all three files whole where it looks first.  Rests on     *)
(* execute_installation_plan switching the link last (install.rs:315-319).  *)
CurrentComplete ==
  current # NoLink =>
    /\ gen[current].made
    /\ gen[current].command.st = "whole"
    /\ gen[current].installed.st = "whole"
    /\ gen[current].world.st = "whole"

(* A generation that was once current is never written again, so `epkg      *)
(* restore` to it gives what it gave then, although every command writes    *)
(* into generations/ and reuses the directory a dead command left behind    *)
(* (create_new_generation_with_root, history.rs:61).                        *)
HistoryImmutable == [][\A g \in 0..top : gen'[g] = gen[g]]_vars

(* A command cut short damages only packages of its own plan: any other     *)
(* package has its files in the environment exactly when it is recorded,    *)
(* and a later command that completes on the damaged ones repairs them.     *)
(* Linking (install.rs:548), unlinking (transaction.rs:143) and recording   *)
(* (install.rs:317) are steps far apart.                                    *)
DamageIsLocal ==
  AllIdle => \A x \in Pkgs \ dirty : x \in env <=> x \in gen[CurrentId].installed.val

(* The implementation keeps the promise of EnvHistory: the history is what  *)
(* generations 0..top record, and switching the link appends to it.         *)
History == INSTANCE EnvHistory WITH history <- [g \in 0..top |-> gen[g].installed.val]
HistorySpec == History!Spec
=============================================================================
