------------------------- MODULE PackageTransaction -------------------------
(***************************************************************************)
(* What `epkg install` and `epkg upgrade` do to one environment once the    *)
(* session is solved (install.rs, transaction.rs): the depths of its        *)
(* packages (module DependencyDepth), the sweep of what nothing needs any   *)
(* more (module OrphanSweep), then the transaction.  All binary packages    *)
(* are linked first and processed as one batch; after that each base of AUR *)
(* packages is built, linked and processed as a batch of its own.  Every    *)
(* batch goes through the operations of the whole plan again and has to     *)
(* find its own.                                                            *)
(*                                                                          *)
(* Left out: exposure (module PackageDb), processes that die (Generations), *)
(* hooks and triggers, scripts that fail, and the formats whose upgrades    *)
(* are not implemented.  Conda goes as rpm does, apk as pacman.             *)
(***************************************************************************)
EXTENDS DependencyDepth, Sequences

CONSTANTS Olds,    \* packages installed before
          Ghosts,  \* keys that entries name but that are not installed
          Paths,   \* files
          Nothing  \* no package

ASSUME TransactionAssumption == /\ Olds \cap Pkgs = {}
                                /\ Nothing \notin Olds \cup Pkgs

VARIABLES needs,      \* depends of the installed packages
          neededBy,   \* their rdepends
          candidates, \* possible_orphans
          sweep,      \* phase of the sweep
          possible,   \* remaining_rdepends of the sweep
          orphans,    \* old_removes
          format,     \* package_format
          replaces,   \* the installed package each new one is an upgrade of
          own,        \* the file list of each package
          step,       \* "plan", "begin", "operate", "ended", "refused"
          batches,    \* batch.new_pkgkeys of the batches so far
          todo,       \* ordered_operations not looked at in this batch
          cache,      \* PACKAGE_CACHE.installed_packages
          files,      \* the environment: whose file each path is
          times       \* history variable: how often each script ran

installed == <<needs, neededBy, candidates, sweep, possible, orphans>>
transaction == <<step, batches, todo, cache, files, times>>
plan == <<format, replaces, own>>
allVars == <<vars, installed, plan, transaction>>

All == Pkgs \cup Olds
Scripts == {"pretrans", "preuntrans", "pre", "post", "preupgrade", "postupgrade",
            "preun", "postun", "posttrans", "postuntrans"}

Upgraded == {replaces[x] : x \in Pkgs} \ {Nothing}

Sweep == INSTANCE OrphanSweep WITH Pkgs <- Olds,
           depends <- needs, rdepends <- neededBy, upgraded <- Upgraded,
           phase <- sweep, remaining <- possible

TransactionTypeOK ==
  /\ TypeOK
  /\ Sweep!TypeOK
  /\ format \in {"rpm", "deb", "pacman"}
  /\ replaces \in [Pkgs -> Olds \cup {Nothing}]
  /\ own \in [All -> SUBSET Paths]
  /\ step \in {"plan", "begin", "operate", "ended", "refused"}
  /\ batches \in Seq(SUBSET Pkgs)
  /\ todo \subseteq All
  /\ cache \subseteq All
  /\ files \in [Paths -> All \cup {Nothing}]
  /\ times \in [All \X Scripts -> Nat]

(* No two packages are upgrades of one: a name has one version.  Packages   *)
(* installed before share no file.  Only Pacman has packages to build.      *)
TransactionInit ==
  /\ Init
  /\ replaces \in [Pkgs -> Olds \cup {Nothing}]
  /\ \A x, y \in Pkgs : x # y /\ replaces[x] = replaces[y] => replaces[x] = Nothing
  /\ Sweep!Init
  /\ format \in {"rpm", "deb", "pacman"}
  /\ format # "pacman" => \A x \in Pkgs : base[x] = Binary
  /\ own \in [All -> SUBSET Paths]
  /\ \A p, q \in Olds : p # q => own[p] \cap own[q] = {}
  /\ step = "plan"
  /\ batches = <<>>
  /\ todo = {}
  /\ cache = Olds
  /\ files = [path \in Paths |->
                IF \E q \in Olds : path \in own[q]
                  THEN CHOOSE q \in Olds : path \in own[q] ELSE Nothing]
  /\ times = [run \in All \X Scripts |-> 0]

-----------------------------------------------------------------------------
(* The plan.                                                                *)

ComputeDepths == (Peel \/ BreakCycle \/ RoundsDone) /\ UNCHANGED <<installed, plan, transaction>>

SweepOrphans ==
  /\ phase = "run"
  /\ step = "plan"
  /\ UNCHANGED <<vars, plan, transaction>>
  /\ Sweep!Filter \/ Sweep!Round \/ Sweep!Finish

(* validate_file_conflicts; binary packages among themselves may conflict.  *)
Conflict == \E x \in BaseOf(Binary), q \in Olds \ (orphans \cup Upgraded) :
               own[x] \cap own[q] # {}

Refuse ==
  /\ phase = "run"
  /\ step = "plan"
  /\ sweep = "done"
  /\ Conflict
  /\ step' = "refused"
  /\ UNCHANGED <<vars, installed, plan, batches, todo, cache, files, times>>

-----------------------------------------------------------------------------
(* A batch.                                                                 *)

Batch == batches[Len(batches)]
Owners(path, new) == {x \in new : path \in own[x]}

(* The packages are linked by several threads: of two that have the same    *)
(* file, either may be the last.                                            *)
Linked(new) == {f \in [Paths -> All \cup {Nothing}] :
                  \A path \in Paths : IF Owners(path, new) = {}
                                        THEN f[path] = files[path]
                                        ELSE f[path] \in Owners(path, new)}

(* Faulty: batch.new_pkgkeys is not cleared between batches. *)
LinkPackagesUncleared(new) ==
  /\ batches' = Append(batches, new \cup UNION {batches[i] : i \in DOMAIN batches})
  /\ files' \in Linked(new)
  /\ step' = "begin"
  /\ UNCHANGED <<todo, cache, times>>

LinkPackages(new) ==
  /\ batches' = Append(batches, new)
  /\ files' \in Linked(new)
  /\ step' = "begin"
  /\ UNCHANGED <<todo, cache, times>>

LinkBinary ==
  /\ phase = "run"
  /\ step = "plan"
  /\ sweep = "done"
  /\ ~Conflict
  /\ LinkPackages(BaseOf(Binary))
  /\ UNCHANGED <<vars, installed, plan>>

BuildAndLink ==
  /\ step = "ended"
  /\ BuildBase
  /\ LinkPackages(ran' \ ran)
  /\ UNCHANGED <<installed, plan>>

RunScripts(runs) ==
  times' = [run \in DOMAIN times |-> times[run] + (IF run \in runs THEN 1 ELSE 0)]

(* batch.old_removes and batch.upgrades_old, as far as still installed. *)
Going == (orphans \cup {replaces[x] : x \in Batch}) \cap cache

(* build_batch_maps and begin_transaction. *)
BeginTransaction ==
  /\ step = "begin"
  /\ step' = "operate"
  /\ todo' = Batch \cup orphans
  /\ RunScripts(IF format = "rpm"
                  THEN (Batch \X {"pretrans"}) \cup (Going \X {"preuntrans"}) ELSE {})
  /\ UNCHANGED <<vars, installed, plan, batches, cache, files>>

Unlink(paths) == files' = [path \in Paths |-> IF path \in paths THEN Nothing ELSE files[path]]

(* Removals come first.  A batch after the first meets them again and finds *)
(* nothing to remove.  The path is deleted, whoever's file it has become.   *)
RemovePackage ==
  /\ step = "operate"
  /\ \E q \in todo \cap Olds :
        /\ todo' = todo \ {q}
        /\ cache' = cache \ {q}
        /\ Unlink(IF q \in cache THEN own[q] ELSE {})
        /\ RunScripts(IF q \in cache THEN {q} \X {"preun", "postun"} ELSE {})
  /\ UNCHANGED <<vars, installed, plan, step, batches>>

ScriptsOf(x) ==
  IF replaces[x] = Nothing
    THEN {x} \X {"pre", "post"}
    ELSE IF format = "pacman"
      THEN {x} \X {"preupgrade", "postupgrade"}
      ELSE ({x} \X {"pre", "post"}) \cup ({replaces[x]} \X {"preun", "postun"})

(* Faulty: unlink_package_diff looks at the new version only. *)
OutdatedByNewVersion(x) == IF replaces[x] = Nothing THEN {} ELSE own[replaces[x]] \ own[x]

(* unlink_package_diff: the files of the old version that no package of the *)
(* batch has.                                                               *)
Outdated(x) == IF replaces[x] = Nothing THEN {}
                                        ELSE own[replaces[x]] \ UNION {own[y] : y \in Batch}

(* A fresh install or an upgrade. *)
Process(x) ==
  /\ todo' = todo \ {x}
  /\ cache' = (cache \ {replaces[x]}) \cup {x}
  /\ Unlink(Outdated(x))
  /\ RunScripts(ScriptsOf(x))
  /\ UNCHANGED <<installed, plan, step, batches>>

InstallBinary ==
  /\ step = "operate"
  /\ todo \cap Olds = {}
  /\ RunOperation
  /\ \E x \in todo : ran' = ran \cup {x} /\ Process(x)

InstallBuilt ==
  /\ step = "operate"
  /\ phase = "build"
  /\ todo \cap Olds = {}
  /\ \E x \in todo : /\ \A z \in todo : depth[x] >= depth[z]
                     /\ Process(x)
  /\ UNCHANGED vars

(* end_transaction.  What was removed or replaced is not found in the cache *)
(* any more, and %postuntrans finds no package to run for.                  *)
EndTransaction ==
  /\ step = "operate"
  /\ todo = {}
  /\ step' = "ended"
  /\ RunScripts(IF format = "rpm"
                  THEN (Batch \X {"posttrans"}) \cup (Going \X {"postuntrans"}) ELSE {})
  /\ UNCHANGED <<vars, installed, plan, batches, todo, cache, files>>

BatchesDone ==
  /\ step = "ended"
  /\ RunDone \/ BuildDone
  /\ UNCHANGED <<installed, plan, transaction>>

(* The command has returned. *)
Returned ==
  /\ phase = "done" \/ step = "refused"
  /\ UNCHANGED allVars

TransactionNext ==
  \/ ComputeDepths \/ SweepOrphans \/ Refuse \/ LinkBinary
  \/ BeginTransaction \/ RemovePackage \/ InstallBinary \/ InstallBuilt \/ EndTransaction
  \/ BuildAndLink \/ BatchesDone
  \/ Returned

(* One thread, which waits for nothing. *)
TransactionSpec == TransactionInit /\ [][TransactionNext]_allVars /\ WF_allVars(TransactionNext)
-----------------------------------------------------------------------------
(* Properties.                                                              *)

(* The sweep is complete also for the plan it is part of (plan.rs:697-703). *)
AllOrphansFound == Sweep!AllOrphansFound

BatchOf(x) == CHOOSE i \in DOMAIN batches : x \in batches[i]

(* The path of a new package that a package which goes has too, and that is *)
(* unlinked with it after the new package was linked: by a removal in the   *)
(* same batch, or by an upgrade in a later one.                             *)
ChangedHands(path, x) ==
  \E q \in Olds : /\ path \in own[q]
                  /\ \/ q \in orphans /\ BatchOf(x) = 1
                     \/ \E y \in Pkgs : replaces[y] = q /\ BatchOf(x) < BatchOf(y)

(* After the last batch every path in the environment is a file of an       *)
(* installed package, and every file of an installed package is there,      *)
(* whatever order, batches and owners files had; but for those that changed *)
(* hands as above, which are lost (transaction.rs:255-273, "Files are       *)
(* already linked", with link.rs:403-407).                                  *)
FilesMatch ==
  phase = "done" =>
    \A path \in Paths :
      IF files[path] = Nothing
        THEN \A p \in cache : path \in own[p] => p \in Pkgs /\ ChangedHands(path, p)
        ELSE files[path] \in cache

(* The scripts due for a package, in its format.  %postuntrans, which       *)
(* end_transaction means to run for what is removed, is not among them.     *)
Due(p) ==
  LET trans == IF format # "rpm" THEN {} ELSE IF p \in Pkgs THEN {"pretrans", "posttrans"}
                                                            ELSE {"preuntrans"}
  IN  CASE p \in Pkgs /\ (replaces[p] = Nothing \/ format # "pacman") -> trans \cup {"pre", "post"}
        [] p \in Pkgs /\ replaces[p] # Nothing /\ format = "pacman" -> {"preupgrade", "postupgrade"}
        [] p \in orphans -> trans \cup {"preun", "postun"}
        [] p \in Upgraded /\ format # "pacman" -> trans \cup {"preun", "postun"}
        [] OTHER -> {}

(* Over all batches each script that is due has run exactly once, and no    *)
(* other, although every batch walks the whole list of operations           *)
(* (transaction.rs:11-12, "processes all operations in ordered_operations").*)
ScriptsOnce ==
  /\ \A run \in DOMAIN times : times[run] =< 1
  /\ phase = "done" =>
       \A p \in All, s \in Scripts : times[<<p, s>>] = 1 <=> s \in Due(p)

(* Every command returns, whatever cycles, orphans and bases it meets       *)
(* (depends.rs:1181, "avoids deadlocks"; the loop of plan.rs:646-706).      *)
Returns == <>(phase = "done" \/ step = "refused")
=============================================================================
