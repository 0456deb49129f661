------------------------------ MODULE PackageDb ------------------------------
(***************************************************************************)
(* The package database of one environment across whole commands: what      *)
(* installed-packages.json and world.json say after install, upgrade,       *)
(* remove and restore (install.rs, upgrade.rs, remove.rs, history.rs), how  *)
(* the session is chosen and recorded (depends.rs), what is replaced and    *)
(* swept (plan.rs), and which commands have wrappers in ebin (expose.rs).   *)
(*                                                                          *)
(* A command is one step here; module Generations takes it apart, and       *)
(* modules RemovalPlan and OrphanSweep the two planners, whose results are  *)
(* the least sets their theorems Minimal and Complete speak of.             *)
(*                                                                          *)
(* Names are numbered so that a package requires only smaller ones:         *)
(* dependency cycles are left out.  A package key is a name and a version.  *)
(***************************************************************************)
EXTENDS Naturals, FiniteSets

CONSTANTS Names,      \* package names, 1..n
          MaxVersion, \* bound on versions a repository publishes
          MaxGen,     \* bound on generations
          Specs,      \* the sets of names commands are given
          Essential,  \* names the repository marks essential
          Meta        \* names of meta-packages: no executables of their own

ASSUME PackageDbAssumption ==
  /\ Names \subseteq Nat \ {0}
  /\ MaxVersion \in Nat \ {0}
  /\ MaxGen \in Nat
  /\ Specs \subseteq (SUBSET Names) \ {{}}
  /\ Essential \subseteq Names
  /\ Meta \subseteq Names

VARIABLES requires,  \* the names each name requires
          offered,   \* the versions of each name the repository offers
          inst,      \* installed-packages.json of the current generation
          world,     \* world.json of the current generation
          ebin,      \* names whose wrappers are in ebin
          hist       \* what each generation up to the current one records

vars == <<requires, offered, inst, world, ebin, hist>>

Versions == 1..MaxVersion
Keys == Names \X Versions
NameOf(k) == k[1]
NamesOf(keys) == {NameOf(k) : k \in keys}

(* InstalledPackageInfo, with depend_depth reduced to whether it is 0. *)
Info == [top : BOOLEAN, exposed : BOOLEAN, depends : SUBSET Keys, rdepends : SUBSET Keys]
Db == UNION {[s -> Info] : s \in SUBSET Keys}

TypeOK ==
  /\ requires \in [Names -> SUBSET Names]
  /\ offered \in [Names -> SUBSET Versions]
  /\ DOMAIN inst \subseteq Keys
  /\ \A k \in DOMAIN inst : inst[k] \in Info
  /\ world \subseteq Names
  /\ ebin \subseteq Names
  /\ Cardinality(DOMAIN hist) =< MaxGen + 1

Empty == [k \in {} |-> [top |-> TRUE, exposed |-> FALSE, depends |-> {}, rdepends |-> {}]]

Init ==
  /\ requires \in [Names -> SUBSET Names]
  /\ \A n \in Names : \A m \in requires[n] : m < n
  /\ offered = [n \in Names |-> {1}]
  /\ inst = Empty
  /\ world = {}
  /\ ebin = {}
  /\ hist = [g \in {0} |-> [inst |-> Empty, world |-> {}]]

Current == Cardinality(DOMAIN hist) - 1
Installed == DOMAIN inst
-----------------------------------------------------------------------------
(* The session: what the solver selects for the names of delta.             *)

Newest(n) == CHOOSE v \in offered[n] : \A u \in offered[n] : u =< v

(* An installed version that is still offered is favoured, unless its name  *)
(* is one to be renewed.                                                    *)
Select(n, renew) ==
  LET kept == {k \in Installed : NameOf(k) = n /\ k[2] \in offered[n]}
  IN  IF n \in renew \/ kept = {} THEN <<n, Newest(n)>> ELSE CHOOSE k \in kept : TRUE

(* What the names need, directly or through others. *)
Closure(names) ==
  {n \in Names : \A s \in SUBSET Names :
                   names \subseteq s /\ (\A m \in s : requires[m] \subseteq s) => n \in s}

(* The keys of the session, and what each needs in it. *)
Chosen(delta, renew) == {Select(n, renew) : n \in Closure(delta)}
Needs(k, keys) == {d \in keys : NameOf(d) \in requires[NameOf(k)]}
NeededBy(k, keys) == {r \in keys : k \in Needs(r, keys)}
RecordedDependents(k) == IF k \in Installed THEN inst[k].rdepends ELSE {}

(* Faulty: the dependents recorded before are lost. *)
SessionUnmerged(delta, renew, request) ==
  LET keys == Chosen(delta, renew)
  IN  [k \in keys |-> [top      |-> NeededBy(k, keys) = {},
                       exposed  |-> NameOf(k) \in request,
                       depends  |-> Needs(k, keys),
                       rdepends |-> NeededBy(k, keys)]]

(* The entries of the session: dependencies inside it, at both ends; the    *)
(* dependents already recorded are merged in.  Depth 0 is what nothing in   *)
(* the session depends on; exposed is what the user asked for.              *)
Session(delta, renew, request) ==
  LET keys == Chosen(delta, renew)
  IN  [k \in keys |-> [top      |-> NeededBy(k, keys) = {},
                       exposed  |-> NameOf(k) \in request,
                       depends  |-> Needs(k, keys),
                       rdepends |-> NeededBy(k, keys) \cup RecordedDependents(k)]]

-----------------------------------------------------------------------------
(* The plan.                                                                *)

(* Faulty: wants the same version too. *)
ReplacedSameVersion(new) == {k \in Installed : \E n \in new : n # k /\ n = k}

(* find_upgrade_target: an installed package of the same name. *)
Replaced(new) == {k \in Installed : \E n \in new : n # k /\ NameOf(n) = NameOf(k)}

Least(Closed(_), universe) ==
  CHOOSE s \in SUBSET universe :
     Closed(s) /\ \A t \in SUBSET universe : Closed(t) => s \subseteq t

(* find_orphaned_packages. *)
Orphans(session, old) ==
  LET candidates == {k \in Installed \ (session \cup old) :
                       ~inst[k].top /\ NameOf(k) \notin Essential}
      Closed(s) == \A k \in candidates :
                     inst[k].rdepends \cap Installed \subseteq old \cup s => k \in s
  IN  Least(Closed, candidates)

(* add_top_removable and add_orphaned_dependencies. *)
Kept(k) == inst[k].exposed \/ inst[k].top \/ NameOf(k) \in Essential

RemovalSet(requested) ==
  LET granted == {k \in requested : inst[k].rdepends \cap Installed \subseteq requested}
      Closed(s) == /\ granted \subseteq s
                   /\ \A x \in s, y \in Installed :
                        y \in inst[x].depends /\ ~Kept(y) /\ inst[y].rdepends \subseteq s
                          => y \in s
  IN  Least(Closed, Installed)

-----------------------------------------------------------------------------
(* The execution.                                                           *)

(* get_meta_package_exposures: the new packages below a requested           *)
(* meta-package that is new itself, reached through new packages.           *)
MetaExposed(new, session) ==
  LET metas == {k \in new : session[k].exposed /\ NameOf(k) \in Meta}
      Step(s) == UNION {session[k].depends : k \in s}
      reach[i \in Nat] == IF i = 0 THEN Step(metas)
                          ELSE reach[i - 1] \cup Step(reach[i - 1] \cap new)
  IN  reach[Cardinality(Names)] \cap new

(* Faulty: entries of the session that were installed keep their values. *)
RecordNewOnly(session, removed) ==
  LET new == DOMAIN session \ Installed
      stays == Installed \ removed
  IN  [k \in stays \cup new |->
         IF k \in stays
           THEN [inst[k] EXCEPT !.rdepends =
                   {r \in @ : ~(r \in removed /\ k \in inst[r].depends)}]
           ELSE session[k]]

(* What installed-packages.json holds afterwards.  Removing a package       *)
(* strikes it from rdepends of what it depends on; after the transaction    *)
(* the entries of session packages that were installed already get their    *)
(* planned values (update_skipped_reinstalls_metadata), and so name what    *)
(* was removed again.  New packages below a meta-package become exposed.    *)
Record(session, removed) ==
  LET new == DOMAIN session \ Installed
      stays == Installed \ removed
      meta == MetaExposed(new, session)
  IN  [k \in stays \cup new |->
         IF k \in DOMAIN session
           THEN [session[k] EXCEPT !.exposed = @ \/ k \in meta]
           ELSE [inst[k] EXCEPT !.rdepends =
                   {r \in @ : ~(r \in removed /\ k \in inst[r].depends)}]]

Exposed(db) == {k \in DOMAIN db : db[k].exposed}

(* Faulty: wrappers are made for new packages only. *)
WrappersOfNew(session, removed) ==
  (ebin \ NamesOf(removed \cap Exposed(inst)))
    \cup NamesOf(Exposed(session) \ Installed)

(* Wrappers of removed packages go if the package is recorded as exposed;   *)
(* those of exposed session packages are made.                              *)
Wrappers(session, removed) ==
  (ebin \ NamesOf(removed \cap Exposed(inst)))
    \cup NamesOf(Exposed(session))
    \cup NamesOf(MetaExposed(DOMAIN session \ Installed, session))

(* execute_installation_plan: with nothing to install or remove only the    *)
(* wrappers of the session are made and no generation is written.           *)
Execute(session, removed, newWorld) ==
  LET new == DOMAIN session \ Installed
      newInst == Record(session, removed)
  IN  /\ ebin' = Wrappers(session, removed)
      /\ IF new = {} /\ removed = {}
           THEN UNCHANGED <<inst, world, hist>>
           ELSE /\ Current < MaxGen
                /\ inst' = newInst
                /\ world' = newWorld
                /\ hist' = [g \in 0..Current + 1 |->
                              IF g =< Current THEN hist[g]
                              ELSE [inst |-> newInst, world |-> newWorld]]
      /\ UNCHANGED <<requires, offered>>

(* A session replaces old versions and sweeps orphans. *)
ExecuteSession(session, newWorld) ==
  LET old == Replaced(DOMAIN session \ Installed)
  IN  Execute(session, old \cup Orphans(DOMAIN session, old), newWorld)
-----------------------------------------------------------------------------
(* The commands.                                                            *)

(* epkg install: essential packages outside the world join the session.     *)
Install(specs) ==
  LET delta == specs \cup (Essential \ world)
  IN  ExecuteSession(Session(delta, delta, specs), world \cup specs)

(* epkg upgrade [--full]: the whole world, and nothing counts as requested; *)
(* --full renews what the world needs as well.                              *)
UpgradeAll(full) ==
  /\ world # {}
  /\ ExecuteSession(Session(world, IF full THEN Names ELSE world, {}), world)

(* epkg upgrade [--full] with names: as install, but no essential packages. *)
UpgradeSome(specs, full) ==
  ExecuteSession(Session(specs, IF full THEN Names ELSE specs, specs), world \cup specs)

(* epkg remove: a refused name leaves the world all the same, if anything   *)
(* else goes.                                                               *)
Remove(specs) ==
  LET requested == {k \in Installed : NameOf(k) \in specs}
  IN  Execute(Empty, RemovalSet(requested), world \ specs)

(* epkg restore: the entries of generation g are the session; the world is  *)
(* never loaded, so an empty one is saved.                                  *)
Restore(g) ==
  /\ g \in DOMAIN hist \ {Current}
  /\ Execute(hist[g].inst, Installed \ DOMAIN hist[g].inst, {})

(* The repository publishes a new version and may drop the older ones. *)
Publish(n) ==
  /\ Newest(n) < MaxVersion
  /\ \E older \in {offered[n], {}} :
        offered' = [offered EXCEPT ![n] = older \cup {Newest(n) + 1}]
  /\ UNCHANGED <<requires, inst, world, ebin, hist>>

Next == \/ \E specs \in Specs : Install(specs) \/ Remove(specs)
        \/ \E specs \in Specs, full \in BOOLEAN : UpgradeSome(specs, full)
        \/ \E full \in BOOLEAN : UpgradeAll(full)
        \/ \E g \in 0..MaxGen : Restore(g)
        \/ \E n \in Names : Publish(n)

Spec == Init /\ [][Next]_vars
-----------------------------------------------------------------------------
(* Properties that hold.                                                    *)

(* One version of a name at a time, although what replaces what is found by *)
(* comparing names (plan.rs:719-758), after the solver has chosen.          *)
OnePerName == \A j, k \in Installed : NameOf(j) = NameOf(k) => j = k

(* Whoever is recorded as a dependent and is installed does depend on the   *)
(* package, although the two ends of an edge are recorded by different      *)
(* commands (depends.rs:1452-1458, install.rs:716-719, plan.rs:981-991).    *)
(* Modules RemovalPlan and OrphanSweep start from this.                     *)
NoFalseDependents ==
  \A y \in Installed : \A x \in inst[y].rdepends \cap Installed : y \in inst[x].depends

(* Every recorded exposure has its wrappers in ebin: what `epkg list` shows *)
(* as exposed can be run (expose.rs:1071-1129).                             *)
ExposedHasWrapper == NamesOf(Exposed(inst)) \subseteq ebin

(* A restore that writes a generation brings back the packages of its       *)
(* target with their dependencies, dependents and depth; nothing recorded   *)
(* as exposed comes back unexposed (history.rs:218-236).                    *)
RestoreExact ==
  [][\A g \in 0..MaxGen : Restore(g) /\ hist' # hist =>
       LET target == hist[g].inst
       IN  /\ DOMAIN inst' = DOMAIN target
           /\ \A k \in DOMAIN target :
                 /\ inst'[k].depends = target[k].depends
                 /\ inst'[k].rdepends = target[k].rdepends
                 /\ inst'[k].top = target[k].top
                 /\ target[k].exposed => inst'[k].exposed]_vars

(* As long as the repository has published nothing new, no session, sweep   *)
(* or removal takes away what a package that stays requires, or its place   *)
(* among the rdepends of that, but for one case: the package was to be      *)
(* removed too and was refused, after what it requires had been granted     *)
(* because of it (remove.rs:301-397; plan.rs:586-712; models.rs:317,        *)
(* "Stores pkgkeys of packages that depend on this one").                   *)
Fixed == \A n \in Names : offered[n] = {1}
Met(k, db) == \A n \in requires[NameOf(k)] :
                \E y \in DOMAIN db : NameOf(y) = n /\ k \in db[y].rdepends
RequirementsMet ==
  [][Fixed' => \A k \in Installed' :
        \/ Met(k, inst')
        \/ k \in Installed /\ ~Met(k, inst)
        \/ \E g \in DOMAIN hist : Restore(g) /\ ~Met(k, hist[g].inst)
        \/ \E specs \in Specs : Remove(specs) /\ NameOf(k) \in specs]_vars
=============================================================================
