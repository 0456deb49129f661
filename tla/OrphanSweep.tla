----------------------------- MODULE OrphanSweep -----------------------------
(***************************************************************************)
(* `epkg install` and `epkg upgrade`: which installed packages go because   *)
(* nothing needs them any more (find_orphaned_packages, plan.rs).  The      *)
(* candidates that no staying package depends on are peeled off in rounds,  *)
(* each round taking all of them at once and crossing them out as           *)
(* dependents of what they depend on.                                       *)
(*                                                                          *)
(* Unlike `epkg remove` (module RemovalPlan) the sweep does not start from  *)
(* a package that goes: every installed package outside the session is a    *)
(* candidate.                                                               *)
(***************************************************************************)
EXTENDS Naturals

CONSTANTS Pkgs,    \* packages in installed-packages.json
          Ghosts   \* keys that entries name but that are not installed

VARIABLES depends,    \* depends of each package
          rdepends,   \* rdepends of each package
          upgraded,   \* upgrades_old: replaced by a new version
          candidates, \* possible_orphans
          phase,      \* "filter", "rounds", "done"
          remaining,  \* remaining_rdepends; its domain shrinks
          orphans     \* old_removes

graph == <<depends, rdepends, upgraded, candidates>>
vars == <<depends, rdepends, upgraded, candidates, phase, remaining, orphans>>

Keys == Pkgs \cup Ghosts

TypeOK ==
  /\ depends \in [Pkgs -> SUBSET Keys]
  /\ rdepends \in [Pkgs -> SUBSET Keys]
  /\ upgraded \subseteq Pkgs
  /\ candidates \subseteq Pkgs \ upgraded
  /\ phase \in {"filter", "rounds", "done"}
  /\ orphans \subseteq candidates
  /\ remaining \in [candidates \ orphans -> SUBSET Pkgs]

(* A recorded dependent is one: invariant NoFalseDependents of PackageDb. *)
NoFalseDependents(d, r) == \A x, y \in Pkgs : x \in r[y] => y \in d[x]

(* The candidates are outside the session, not requested (depth above 0)    *)
(* and not essential: any set of packages that are not being replaced.      *)
Init ==
  /\ depends \in [Pkgs -> SUBSET Keys]
  /\ rdepends \in [Pkgs -> SUBSET Keys]
  /\ NoFalseDependents(depends, rdepends)
  /\ upgraded \in SUBSET Pkgs
  /\ candidates \in SUBSET (Pkgs \ upgraded)
  /\ phase = "filter"
  /\ remaining = [y \in candidates |-> {}]
  /\ orphans = {}

-----------------------------------------------------------------------------
(* The dependents that may keep a candidate: installed, and not replaced.   *)
Staying(y) == (rdepends[y] \cap Pkgs) \ upgraded

Filter ==
  /\ phase = "filter"
  /\ phase' = "rounds"
  /\ remaining' = [y \in candidates |-> Staying(y)]
  /\ UNCHANGED <<graph, orphans>>

Free == {y \in DOMAIN remaining : remaining[y] = {}}

(* Faulty: crosses out only the first level. *)
RoundOnce ==
  /\ phase = "rounds"
  /\ Free # {}
  /\ orphans' = orphans \cup Free
  /\ remaining' = [y \in DOMAIN remaining \ Free |-> remaining[y]]
  /\ UNCHANGED <<graph, phase>>

Round ==
  /\ phase = "rounds"
  /\ Free # {}
  /\ orphans' = orphans \cup Free
  /\ remaining' = [y \in DOMAIN remaining \ Free |->
                     remaining[y] \ {x \in Free : y \in depends[x]}]
  /\ UNCHANGED <<graph, phase>>

Finish ==
  /\ phase = "rounds"
  /\ Free = {}
  /\ phase' = "done"
  /\ UNCHANGED <<graph, remaining, orphans>>

(* The sweep has returned. *)
Done == phase = "done" /\ UNCHANGED vars

Next == Filter \/ Round \/ Finish \/ Done

Spec == Init /\ [][Next]_vars /\ WF_vars(Next)
-----------------------------------------------------------------------------
(* Properties.                                                              *)

(* A set of candidates with every candidate that only members need. *)
Closed(s) == \A y \in candidates : rdepends[y] \cap Pkgs \subseteq upgraded \cup s => y \in s

(* After every round, the recorded dependents of a swept package are        *)
(* themselves swept or replaced (plan.rs:581-583, "no other installed       *)
(* package depends on it").                                                 *)
NothingBroken ==
  \A y \in orphans : rdepends[y] \cap Pkgs \subseteq orphans \cup upgraded

(* The rounds take no package that some closed set leaves alone.            *)
OnlyForced == \A s \in SUBSET candidates : Closed(s) => orphans \subseteq s

(* The sweep is complete: when it stops, every chain of orphans is taken to *)
(* its end, although rounds cross out dependents at the other end of the    *)
(* edge from the one they test (plan.rs:697-703).                           *)
AllOrphansFound == phase = "done" => Closed(orphans)
=============================================================================
