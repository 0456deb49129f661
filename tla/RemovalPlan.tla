----------------------------- MODULE RemovalPlan -----------------------------
(***************************************************************************)
(* `epkg remove`: which packages go (prepare_removal_plan, remove.rs).      *)
(* First every requested package is checked for dependents that stay        *)
(* (add_top_removable); then the dependencies of what goes are examined,    *)
(* and those nothing else needs go too (add_orphaned_dependencies).         *)
(*                                                                          *)
(* Requests are kept in a HashSet, the queue starts from the keys of a      *)
(* HashMap and dependencies are walked in key order: here every order is    *)
(* possible, so what holds does not depend on hashing.  The dependency      *)
(* graph is any graph that installed-packages.json can hold; the plan only  *)
(* reads it.                                                                *)
(***************************************************************************)
EXTENDS Naturals

CONSTANTS Pkgs,    \* packages in installed-packages.json
          Ghosts   \* keys that entries name but that are not installed

ASSUME RemovalAssumption == Pkgs \cap Ghosts = {}

VARIABLES depends,    \* depends of each package: installed keys or ghosts
          rdepends,   \* rdepends of each package: the same
          keep,       \* exposed, depth 0 or essential: never an orphan
          requested,  \* the keys the user asked to remove
          phase,      \* "check" the requests, find "orphans", "done"
          todo,       \* requests not yet checked
          removes,    \* old_removes
          queue,      \* processing_queue
          visited,    \* visited_for_orphan_check
          cur,        \* pkgkey_being_removed, a set of at most one
          deps        \* its dependencies not yet examined

graph == <<depends, rdepends, keep, requested>>
planVars == <<depends, rdepends, keep, requested, phase, todo, removes, queue,
              visited, cur, deps>>

PlanKeys == Pkgs \cup Ghosts

PlanTypeOK ==
  /\ depends \in [Pkgs -> SUBSET PlanKeys]
  /\ rdepends \in [Pkgs -> SUBSET PlanKeys]
  /\ keep \subseteq Pkgs
  /\ requested \subseteq Pkgs
  /\ phase \in {"check", "orphans", "done"}
  /\ todo \subseteq requested
  /\ removes \subseteq Pkgs
  /\ queue \subseteq Pkgs
  /\ visited \subseteq Pkgs
  /\ cur \subseteq Pkgs
  /\ deps \subseteq PlanKeys

(* A recorded dependent is one: invariant NoFalseDependents of PackageDb.   *)
(* The converse may fail after an upgrade, and replaced packages leave      *)
(* their keys behind.                                                       *)
TrueDependents(d, r) == \A x, y \in Pkgs : x \in r[y] => y \in d[x]

PlanInit ==
  /\ depends \in [Pkgs -> SUBSET PlanKeys]
  /\ rdepends \in [Pkgs -> SUBSET PlanKeys]
  /\ TrueDependents(depends, rdepends)
  /\ keep \in SUBSET Pkgs
  /\ requested \in SUBSET Pkgs
  /\ phase = "check"
  /\ todo = requested
  /\ removes = {}
  /\ queue = {}
  /\ visited = {}
  /\ cur = {}
  /\ deps = {}

-----------------------------------------------------------------------------
(* add_top_removable: a request is granted when no installed package that   *)
(* is not itself requested depends on it.                                   *)
Grantable(x) == rdepends[x] \cap Pkgs \subseteq requested

CheckRequest ==
  /\ phase = "check"
  /\ \E x \in todo :
        /\ todo' = todo \ {x}
        /\ removes' = IF Grantable(x) THEN removes \cup {x} ELSE removes
  /\ UNCHANGED <<graph, phase, queue, visited, cur, deps>>

StartOrphans ==
  /\ phase = "check"
  /\ todo = {}
  /\ phase' = "orphans"
  /\ queue' = removes
  /\ UNCHANGED <<graph, todo, removes, visited, cur, deps>>

(* processing_queue.pop(): a package seen before is passed over. *)
Pop ==
  /\ phase = "orphans"
  /\ cur = {}
  /\ \E x \in queue :
        /\ queue' = queue \ {x}
        /\ visited' = visited \cup {x}
        /\ cur' = IF x \in visited THEN {} ELSE {x}
        /\ deps' = IF x \in visited THEN {} ELSE depends[x]
  /\ UNCHANGED <<graph, phase, todo, removes>>

(* Faulty: one dependent going is enough. *)
OrphanedByOne(y) == y \in Pkgs \ keep /\ rdepends[y] \cap removes # {}

(* Faulty: forgets what is kept. *)
OrphanedUnkept(y) == y \in Pkgs /\ rdepends[y] \subseteq removes

(* A dependency nothing keeps, all of whose recorded dependents go.  A      *)
(* dependent that is not installed any more still counts.                   *)
Orphaned(y) == y \in Pkgs \ keep /\ rdepends[y] \subseteq removes

(* Faulty: an orphan's own dependencies are not looked at. *)
ExamineShallow ==
  /\ phase = "orphans"
  /\ \E y \in deps :
        /\ deps' = deps \ {y}
        /\ removes' = IF Orphaned(y) THEN removes \cup {y} ELSE removes
  /\ UNCHANGED <<graph, phase, todo, queue, visited, cur>>

Examine ==
  /\ phase = "orphans"
  /\ \E y \in deps :
        /\ deps' = deps \ {y}
        /\ IF y \notin removes /\ Orphaned(y)
             THEN /\ removes' = removes \cup {y}
                  /\ queue' = IF y \in visited THEN queue ELSE queue \cup {y}
             ELSE UNCHANGED <<removes, queue>>
  /\ UNCHANGED <<graph, phase, todo, visited, cur>>

NextPackage ==
  /\ phase = "orphans"
  /\ cur # {}
  /\ deps = {}
  /\ cur' = {}
  /\ UNCHANGED <<graph, phase, todo, removes, queue, visited, deps>>

Finish ==
  /\ phase = "orphans"
  /\ cur = {}
  /\ queue = {}
  /\ phase' = "done"
  /\ UNCHANGED <<graph, todo, removes, queue, visited, cur, deps>>

(* The planner has returned. *)
Done == phase = "done" /\ UNCHANGED planVars

PlanNext == CheckRequest \/ StartOrphans \/ Pop \/ Examine \/ NextPackage \/ Finish \/ Done

PlanSpec == PlanInit /\ [][PlanNext]_planVars
-----------------------------------------------------------------------------
(* Properties.                                                              *)

Granted == {x \in requested : Grantable(x)}

(* A set that answers the request: it holds the granted requests and, with  *)
(* a package, every dependency nothing else needs.                          *)
Closed(s) == /\ Granted \subseteq s
             /\ \A x \in s, y \in Pkgs \ keep :
                   y \in depends[x] /\ rdepends[y] \subseteq s => y \in s

(* Nothing goes that does not have to: at every moment the plan is inside   *)
(* every closed set, whatever the order the queue was worked in.            *)
OnlyForced == \A s \in SUBSET Pkgs : Closed(s) => removes \subseteq s

(* Every orphan is found: the finished plan is closed, so with OnlyForced   *)
(* it is the least closed set.  A dependency examined too early, while one  *)
(* of its dependents was not yet marked, is examined again                  *)
(* ("transitive dependencies are properly cleaned up", remove.rs:314-315).  *)
AllOrphansFound == phase = "done" => Closed(removes)

(* When every request is granted, no package that stays is recorded as      *)
(* needing one that goes, however long the chains of orphans are            *)
(* ("ensuring that shared dependencies are not removed if other installed   *)
(* packages still rely on them according to the rdepends information",      *)
(* remove.rs:121-123).                                                      *)
NothingBroken ==
  phase = "done" /\ Granted = requested =>
    \A y \in removes : rdepends[y] \cap Pkgs \subseteq removes

(* Every step brings the end nearer: a request is checked, a phase ends, a  *)
(* package is popped for the first time, or one more of its dependencies is *)
(* done with.  So the loop of remove.rs:325, which has no bound of its own, *)
(* ends on every graph, cycles included; TLC checks that it is never stuck. *)
Advances ==
  [][\/ phase = "check" /\ \E x \in todo : todo' = todo \ {x}
     \/ <<phase, phase'>> \in {<<"check", "orphans">>, <<"orphans", "done">>}
     \/ \E x \in Pkgs \ visited : visited' = visited \cup {x}
     \/ visited' = visited /\ \E y \in deps : deps' = deps \ {y}
     \/ visited' = visited /\ deps' = deps /\ cur # {} /\ cur' = {}]_planVars
=============================================================================
