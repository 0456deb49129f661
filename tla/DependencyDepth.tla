--------------------------- MODULE DependencyDepth ---------------------------
(***************************************************************************)
(* depend_depth and the orders made from it.  calculate_depths_from_graph   *)
(* (depends.rs) peels the packages of a session off in rounds, those that   *)
(* nothing left depends on first, and breaks a cycle by taking the package  *)
(* with the least weighted dependents.  Binary packages are then installed  *)
(* deepest first (sort_operations_by_depth, plan.rs), and after them the    *)
(* packages built from AUR sources, one base after another                  *)
(* (group_aur_packages_by_base, aur.rs).                                    *)
(*                                                                          *)
(* Build dependencies, which Pacman sessions have, are merged with the      *)
(* others by the code and so are part of depends here.  The maps are        *)
(* HashMaps: equal weights and equal depths are taken in any order.         *)
(***************************************************************************)
EXTENDS Naturals, FiniteSets

CONSTANTS Pkgs,       \* packages of the session
          Libs,       \* those whose key contains "lib"
          Requested,  \* request_world_pkgkeys
          Bases,      \* bases of AUR packages
          Binary      \* stands for the base of a package that is not built

ASSUME DepthAssumption == /\ IsFiniteSet(Pkgs)
                          /\ Libs \subseteq Pkgs
                          /\ Requested \subseteq Pkgs
                          /\ Binary \notin Bases

VARIABLES depends,    \* pkgkey_to_depends
          base,       \* base of each package
          phase,      \* "rounds", "run" the operations, "build", "done"
          remaining,  \* remaining_rdepends; its domain shrinks
          depth,      \* pkgkey_to_depth; its domain grows
          current,    \* current_depth
          broken,     \* history variable: packages taken to break a cycle
          ran         \* packages installed or built so far

vars == <<depends, base, phase, remaining, depth, current, broken, ran>>

TypeOK ==
  /\ depends \in [Pkgs -> SUBSET Pkgs]
  /\ base \in [Pkgs -> Bases \cup {Binary}]
  /\ phase \in {"rounds", "run", "build", "done"}
  /\ DOMAIN depth \subseteq Pkgs
  /\ depth \in [DOMAIN depth -> Nat]
  /\ remaining \in [Pkgs \ DOMAIN depth -> SUBSET Pkgs]
  /\ current \in Nat
  /\ broken \subseteq DOMAIN depth
  /\ ran \subseteq DOMAIN depth

Dependents(y) == {x \in Pkgs : y \in depends[x]}

Init ==
  /\ depends \in [Pkgs -> SUBSET Pkgs]
  /\ base \in [Pkgs -> Bases \cup {Binary}]
  /\ phase = "rounds"
  /\ remaining = [y \in Pkgs |-> Dependents(y)]
  /\ depth = [y \in {} |-> 0]
  /\ current = 0
  /\ broken = {}
  /\ ran = {}

-----------------------------------------------------------------------------
(* The rounds.                                                              *)

Leaves == {y \in DOMAIN remaining : remaining[y] = {}}

Weight(y) ==
  LET sum == 10 * Cardinality(remaining[y] \cap Libs) + Cardinality(remaining[y] \ Libs)
      doubled == IF y \in Libs THEN 2 * sum ELSE sum
  IN  IF y \in Requested THEN doubled \div 2 ELSE doubled

(* The nodes get the current depth and leave the graph at both ends. *)
Take(nodes) ==
  /\ depth' = [y \in DOMAIN depth \cup nodes |-> IF y \in nodes THEN current ELSE depth[y]]
  /\ remaining' = [y \in DOMAIN remaining \ nodes |-> remaining[y] \ nodes]

Peel ==
  /\ phase = "rounds"
  /\ Leaves # {}
  /\ Take(Leaves)
  /\ current' = current + 1
  /\ UNCHANGED <<depends, base, phase, broken, ran>>

(* Faulty: the next round has the same depth. *)
BreakSameDepth ==
  /\ phase = "rounds"
  /\ Leaves = {}
  /\ \E y \in DOMAIN remaining :
        /\ \A z \in DOMAIN remaining : Weight(y) =< Weight(z)
        /\ Take({y})
        /\ broken' = broken \cup {y}
  /\ UNCHANGED <<depends, base, phase, current, ran>>

(* Faulty: counts the dependents of the candidate and leaves it there. *)
BreakForgets ==
  /\ phase = "rounds"
  /\ Leaves = {}
  /\ \E y \in DOMAIN remaining :
        /\ \A z \in DOMAIN remaining : Weight(y) =< Weight(z)
        /\ broken' = broken \cup {y}
  /\ UNCHANGED <<depends, base, phase, remaining, depth, current, ran>>

(* No leaf: break_circular_dependency takes a package of least weight.  It  *)
(* always finds one, so the last resort after it is never reached.          *)
BreakCycle ==
  /\ phase = "rounds"
  /\ Leaves = {}
  /\ \E y \in DOMAIN remaining :
        /\ \A z \in DOMAIN remaining : Weight(y) =< Weight(z)
        /\ Take({y})
        /\ broken' = broken \cup {y}
  /\ current' = current + 1
  /\ UNCHANGED <<depends, base, phase, ran>>

RoundsDone ==
  /\ phase = "rounds"
  /\ DOMAIN remaining = {}
  /\ phase' = "run"
  /\ UNCHANGED <<depends, base, remaining, depth, current, broken, ran>>

-----------------------------------------------------------------------------
(* The order of installing and of building.                                 *)

BaseOf(b) == {x \in Pkgs : base[x] = b}

(* Faulty: the order of removals. *)
RunShallowest ==
  /\ phase = "run"
  /\ \E x \in BaseOf(Binary) \ ran :
        /\ \A z \in BaseOf(Binary) \ ran : depth[x] =< depth[z]
        /\ ran' = ran \cup {x}
  /\ UNCHANGED <<depends, base, phase, remaining, depth, current, broken>>

(* ordered_operations, highest depth first; a package still to be built is  *)
(* passed over.                                                             *)
RunOperation ==
  /\ phase = "run"
  /\ \E x \in BaseOf(Binary) \ ran :
        /\ \A z \in BaseOf(Binary) \ ran : depth[x] >= depth[z]
        /\ ran' = ran \cup {x}
  /\ UNCHANGED <<depends, base, phase, remaining, depth, current, broken>>

RunDone ==
  /\ phase = "run"
  /\ BaseOf(Binary) \subseteq ran
  /\ phase' = "build"
  /\ UNCHANGED <<depends, base, remaining, depth, current, broken, ran>>

ToBuild == {b \in Bases : BaseOf(b) # {} /\ BaseOf(b) \cap ran = {}}

(* base_min_depth of b is at most that of c. *)
SortsBefore(b, c) == \E x \in BaseOf(b) : \A z \in BaseOf(c) : depth[x] =< depth[z]

(* sorted_bases, lowest minimum depth first. *)
BuildBase ==
  /\ phase = "build"
  /\ \E b \in ToBuild : /\ \A c \in ToBuild : SortsBefore(b, c)
                        /\ ran' = ran \cup BaseOf(b)
  /\ UNCHANGED <<depends, base, phase, remaining, depth, current, broken>>

BuildDone ==
  /\ phase = "build"
  /\ ToBuild = {}
  /\ phase' = "done"
  /\ UNCHANGED <<depends, base, remaining, depth, current, broken, ran>>

(* Everything is installed. *)
Done == phase = "done" /\ UNCHANGED vars

Next == \/ Peel \/ BreakCycle \/ RoundsDone
        \/ RunOperation \/ RunDone
        \/ BuildBase \/ BuildDone
        \/ Done

(* A sequential program that always takes its next step. *)
Spec == Init /\ [][Next]_vars /\ WF_vars(Next)
-----------------------------------------------------------------------------
(* Properties.                                                              *)

(* A dependency is deeper than what depends on it, unless it was taken to   *)
(* break a cycle: peeling whole rounds and breaking cycles in between keeps *)
(* the order (depends.rs:1170-1171, "depth increases as we move up the      *)
(* dependency tree").                                                       *)
DeeperUnlessBroken ==
  \A x, y \in Pkgs :
     y \in depends[x] /\ y \in DOMAIN depth \ broken =>
        x \in DOMAIN depth /\ depth[x] < depth[y]

(* When a binary package is installed, with its scriptlets, the binary      *)
(* packages it depends on have been, unless one was taken to break a cycle  *)
(* (plan.rs:397-414).                                                       *)
DependenciesFirst ==
  \A x \in ran, y \in Pkgs :
     y \in depends[x] /\ base[x] = Binary /\ base[y] = Binary => y \in ran \cup broken
=============================================================================
