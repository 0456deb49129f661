----------------------- MODULE PackageTransactionProofs -----------------------
(***************************************************************************)
(* Theorems of PackageTransaction, for every graph, plan and format: the    *)
(* depths and the order of installing, the sweep, how often the scripts     *)
(* run, which files are there in the end, and that it comes to an end.      *)
(***************************************************************************)
EXTENDS PackageTransaction, FiniteSetTheorems, WellFoundedInduction, TLAPS

-----------------------------------------------------------------------------
(* Depths.                                                                  *)

(* What is left in the map of a package are its dependents without a depth; *)
(* depths given so far are below the next one.                              *)
RemainingExact == \A y \in DOMAIN remaining : remaining[y] = Dependents(y) \ DOMAIN depth
DepthsBelow == \A y \in DOMAIN depth : depth[y] < current

(* Operations run in order of depth, and all before the first build.        *)
DeepestRan == \A x \in ran \cap BaseOf(Binary), z \in BaseOf(Binary) \ ran : depth[z] =< depth[x]
Staged == /\ phase = "rounds" => ran = {}
          /\ phase # "rounds" => DOMAIN depth = Pkgs
          /\ phase \in {"build", "done"} => BaseOf(Binary) \subseteq ran

DepthInv == TypeOK /\ RemainingExact /\ DepthsBelow /\ DeeperUnlessBroken /\ DeepestRan /\ Staged

LEMMA InitDepthInv == Init => DepthInv
BY DEF Init, DepthInv, TypeOK, RemainingExact, DepthsBelow, DeeperUnlessBroken, DeepestRan,
       Staged, Dependents, BaseOf

(* Taking nodes of the graph at the current depth. *)
LEMMA TakeKeepsInv ==
  ASSUME DepthInv, phase = "rounds",
         NEW nodes \in SUBSET DOMAIN remaining, Take(nodes),
         current' = current + 1,
         UNCHANGED <<depends, base, phase, ran>>,
         broken \subseteq broken', broken' \subseteq broken \cup nodes,
         \A y \in nodes : y \in broken' \/ remaining[y] = {}
  PROVE  DepthInv'
<1>1. /\ DOMAIN depth' = DOMAIN depth \cup nodes
      /\ DOMAIN remaining' = DOMAIN remaining \ nodes
      /\ DOMAIN remaining = Pkgs \ DOMAIN depth
      /\ nodes \cap DOMAIN depth = {}
      /\ \A y \in nodes : depth'[y] = current
      /\ \A y \in DOMAIN depth : depth'[y] = depth[y]
      /\ \A y \in DOMAIN remaining' : remaining'[y] = remaining[y] \ nodes
  BY DEF Take, DepthInv, TypeOK
<1>2. TypeOK'
  <2>1. DOMAIN depth' \subseteq Pkgs /\ broken' \subseteq DOMAIN depth'
    BY <1>1 DEF DepthInv, TypeOK
  <2>2. depth' \in [DOMAIN depth' -> Nat]
    BY <1>1 DEF Take, DepthInv, TypeOK
  <2>3. remaining' \in [Pkgs \ DOMAIN depth' -> SUBSET Pkgs]
    BY <1>1 DEF Take, DepthInv, TypeOK
  <2>4. QED
    BY <2>1, <2>2, <2>3, <1>1 DEF DepthInv, TypeOK
<1>3. RemainingExact'
  BY <1>1 DEF DepthInv, RemainingExact, Dependents
<1>4. DepthsBelow'
  BY <1>1 DEF DepthInv, TypeOK, DepthsBelow
<1>5. DeeperUnlessBroken'
  <2> SUFFICES ASSUME NEW x \in Pkgs, NEW y \in Pkgs,
                      y \in depends[x], y \in DOMAIN depth' \ broken'
               PROVE  x \in DOMAIN depth' /\ depth'[x] < depth'[y]
    BY DEF DeeperUnlessBroken
  <2>1. CASE y \in DOMAIN depth
    BY <2>1, <1>1 DEF DepthInv, DeeperUnlessBroken
  <2>2. CASE y \in nodes
    <3>1. remaining[y] = {} /\ x \in Dependents(y)
      BY <2>2 DEF Dependents
    <3>2. x \in DOMAIN depth
      BY <3>1, <2>2 DEF DepthInv, RemainingExact
    <3>3. QED
      BY <3>2, <2>2, <1>1 DEF DepthInv, DepthsBelow
  <2>3. QED
    BY <2>1, <2>2, <1>1
<1>6. DeepestRan' /\ Staged'
  BY DEF DepthInv, DeepestRan, Staged, BaseOf
<1>7. QED
  BY <1>2, <1>3, <1>4, <1>5, <1>6 DEF DepthInv

LEMMA NextDepthInv == DepthInv /\ [Next]_vars => DepthInv'
<1> SUFFICES ASSUME DepthInv, [Next]_vars PROVE DepthInv'
  OBVIOUS
<1>1. CASE Peel
  BY <1>1, TakeKeepsInv DEF Peel, Leaves
<1>2. CASE BreakCycle
  <2>1. PICK y \in DOMAIN remaining : Take({y}) /\ broken' = broken \cup {y}
    BY <1>2 DEF BreakCycle
  <2>2. QED
    BY <1>2, <2>1, TakeKeepsInv DEF BreakCycle
<1>3. CASE RoundsDone
  <2>1. DOMAIN depth = Pkgs
    BY <1>3 DEF RoundsDone, DepthInv, TypeOK
  <2>2. QED
    BY <1>3, <2>1 DEF RoundsDone, DepthInv, TypeOK, RemainingExact, DepthsBelow,
                      DeeperUnlessBroken, DeepestRan, Staged, Dependents, BaseOf
<1>4. CASE RunOperation
  <2>1. PICK x \in BaseOf(Binary) \ ran : /\ \A z \in BaseOf(Binary) \ ran : depth[x] >= depth[z]
                                          /\ ran' = ran \cup {x}
    BY <1>4 DEF RunOperation
  <2>2. TypeOK' /\ Staged'
    BY <1>4, <2>1 DEF RunOperation, DepthInv, TypeOK, Staged, BaseOf
  <2>3. DeepestRan'
    BY <1>4, <2>1 DEF RunOperation, DepthInv, DeepestRan, BaseOf
  <2>4. QED
    BY <1>4, <2>2, <2>3 DEF RunOperation, DepthInv, RemainingExact, DepthsBelow,
                            DeeperUnlessBroken, Dependents
<1>5. CASE RunDone
  BY <1>5 DEF RunDone, DepthInv, TypeOK, RemainingExact, DepthsBelow, DeeperUnlessBroken,
              DeepestRan, Staged, Dependents, BaseOf
<1>6. CASE BuildBase
  <2>1. PICK b \in ToBuild : ran' = ran \cup BaseOf(b)
    BY <1>6 DEF BuildBase
  <2>2. TypeOK' /\ Staged' /\ DeepestRan'
    BY <1>6, <2>1 DEF BuildBase, DepthInv, TypeOK, Staged, DeepestRan, BaseOf
  <2>3. QED
    BY <1>6, <2>2 DEF BuildBase, DepthInv, RemainingExact, DepthsBelow, DeeperUnlessBroken,
                      Dependents
<1>7. CASE BuildDone
  BY <1>7 DEF BuildDone, DepthInv, TypeOK, RemainingExact, DepthsBelow, DeeperUnlessBroken,
              DeepestRan, Staged, Dependents, BaseOf
<1>8. CASE UNCHANGED vars
  BY <1>8 DEF vars, DepthInv, TypeOK, RemainingExact, DepthsBelow, DeeperUnlessBroken,
              DeepestRan, Staged, Dependents, BaseOf
<1>9. QED
  BY <1>1, <1>2, <1>3, <1>4, <1>5, <1>6, <1>7, <1>8 DEF Next, Done

-----------------------------------------------------------------------------
(* The sweep.                                                               *)

(* remaining_rdepends says exactly which staying packages need a candidate. *)
Accurate ==
  /\ sweep = "filter" => orphans = {}
  /\ sweep # "filter" =>
       \A y \in candidates \ orphans : possible[y] = Sweep!Staying(y) \ orphans
  /\ sweep = "done" => Sweep!Free = {}

(* Only packages that are replaced or swept themselves need an orphan. *)
Unneeded == \A y \in orphans : Sweep!Staying(y) \subseteq orphans

SweepInv == /\ Sweep!TypeOK
            /\ Sweep!NoFalseDependents(needs, neededBy)
            /\ Accurate
            /\ Unneeded
            /\ Sweep!OnlyForced

LEMMA InitSweepInv == Sweep!Init => SweepInv
BY DEF Sweep!Init, SweepInv, Sweep!TypeOK, Accurate, Unneeded, Sweep!OnlyForced

LEMMA NextSweepInv == SweepInv /\ [Sweep!Next]_(Sweep!vars) => SweepInv'
<1> SUFFICES ASSUME SweepInv, [Sweep!Next]_(Sweep!vars) PROVE SweepInv'
  OBVIOUS
<1> USE DEF SweepInv
<1>g. /\ UNCHANGED Sweep!graph
      /\ Sweep!NoFalseDependents(needs, neededBy)'
      /\ \A s : Sweep!Closed(s)' = Sweep!Closed(s)
      /\ \A y : Sweep!Staying(y)' = Sweep!Staying(y)
  BY DEF Sweep!Next, Sweep!Filter, Sweep!Round, Sweep!Finish, Sweep!Done, Sweep!vars, Sweep!graph, Sweep!NoFalseDependents, Sweep!Closed, Sweep!Staying
<1>1. CASE Sweep!Filter
  <2>1. orphans = {} /\ orphans' = {}
    BY <1>1 DEF Sweep!Filter, Accurate
  <2>2. Sweep!TypeOK'
    BY <1>1, <2>1 DEF Sweep!Filter, Sweep!TypeOK, Sweep!graph, Sweep!Staying
  <2>3. Accurate'
    BY <1>1, <1>g, <2>1 DEF Sweep!Filter, Accurate, Sweep!graph, Sweep!Staying
  <2> QED BY <1>g, <2>1, <2>2, <2>3 DEF Unneeded, Sweep!OnlyForced
<1>2. CASE Sweep!Round
  <2>1. /\ orphans' = orphans \cup Sweep!Free
        /\ DOMAIN possible = candidates \ orphans
        /\ Sweep!Free \subseteq candidates \ orphans
        /\ possible' = [y \in (candidates \ orphans) \ Sweep!Free |->
                           possible[y] \ {x \in Sweep!Free : y \in needs[x]}]
    BY <1>2 DEF Sweep!Round, Sweep!TypeOK, Sweep!Free
  <2>2. \A y \in Sweep!Free : Sweep!Staying(y) \subseteq orphans
    BY <1>2, <2>1 DEF Sweep!Round, Sweep!Free, Accurate
  <2>3. Sweep!TypeOK'
    <3>1. (candidates \ orphans) \ Sweep!Free = candidates \ orphans'
      BY <2>1
    <3>2. possible' \in [candidates \ orphans' -> SUBSET Olds]
      BY <2>1, <3>1 DEF Sweep!TypeOK
    <3> QED BY <1>2, <2>1, <3>2 DEF Sweep!Round, Sweep!TypeOK, Sweep!graph
  <2>4. Accurate'
    <3> SUFFICES ASSUME NEW y \in candidates \ orphans'
                 PROVE  possible'[y] = Sweep!Staying(y) \ orphans'
      BY <1>2, <1>g DEF Sweep!Round, Accurate, Sweep!graph
    <3>1. possible[y] = Sweep!Staying(y) \ orphans
      BY <1>2, <2>1 DEF Sweep!Round, Accurate
    <3>2. \A x \in Sweep!Free : x \in Sweep!Staying(y) => y \in needs[x]
      BY <2>1 DEF Sweep!NoFalseDependents, Sweep!Staying, Sweep!TypeOK
    <3>3. possible'[y] = possible[y] \ {x \in Sweep!Free : y \in needs[x]}
      BY <2>1
    <3> QED BY <2>1, <3>1, <3>2, <3>3
  <2>5. Unneeded'
    BY <1>g, <2>1, <2>2 DEF Unneeded
  <2>6. Sweep!OnlyForced'
    BY <1>2, <1>g, <2>1, <2>2 DEF Sweep!Round, Sweep!OnlyForced, Sweep!Closed, Sweep!Staying, Sweep!graph
  <2> QED BY <1>g, <2>3, <2>4, <2>5, <2>6
<1>3. CASE Sweep!Finish
  <2>1. Sweep!TypeOK' /\ Unneeded' /\ Sweep!OnlyForced'
    BY <1>3, <1>g DEF Sweep!Finish, Sweep!TypeOK, Unneeded, Sweep!OnlyForced, Sweep!graph
  <2>2. Accurate'
    BY <1>3, <1>g DEF Sweep!Finish, Accurate, Sweep!graph, Sweep!Free
  <2> QED BY <1>g, <2>1, <2>2
<1>4. CASE UNCHANGED Sweep!vars
  <2>1. Sweep!TypeOK' /\ Unneeded' /\ Sweep!OnlyForced'
    BY <1>4, <1>g DEF Sweep!vars, Sweep!TypeOK, Unneeded, Sweep!OnlyForced
  <2>2. Accurate'
    BY <1>4, <1>g DEF Sweep!vars, Accurate, Sweep!Free
  <2> QED BY <1>g, <2>1, <2>2
<1> QED BY <1>1, <1>2, <1>3, <1>4 DEF Sweep!Next, Sweep!Done

-----------------------------------------------------------------------------
(* Both are parts of the session.                                           *)

LEMMA NextParts ==
  ASSUME [TransactionNext]_allVars
  PROVE  [Next]_vars /\ [Sweep!Next]_(Sweep!vars)
<1>s. UNCHANGED <<installed, plan>> => UNCHANGED Sweep!vars
  BY DEF installed, plan, Sweep!vars, Upgraded
<1>1. CASE ComputeDepths
  BY <1>1, <1>s DEF ComputeDepths, Next
<1>2. CASE SweepOrphans
  BY <1>2 DEF SweepOrphans, Sweep!Next
<1>3. CASE Refuse
  BY <1>3, <1>s DEF Refuse, installed, plan
<1>4. CASE LinkBinary
  BY <1>4, <1>s DEF LinkBinary
<1>5. CASE BeginTransaction
  BY <1>5, <1>s DEF BeginTransaction
<1>6. CASE RemovePackage
  BY <1>6, <1>s DEF RemovePackage
<1>7. CASE InstallBinary
  BY <1>7, <1>s DEF InstallBinary, Process, Next
<1>8. CASE InstallBuilt
  BY <1>8, <1>s DEF InstallBuilt, Process
<1>9. CASE EndTransaction
  BY <1>9, <1>s DEF EndTransaction
<1>10. CASE BuildAndLink
  BY <1>10, <1>s DEF BuildAndLink, Next
<1>11. CASE BatchesDone
  BY <1>11, <1>s DEF BatchesDone, Next
<1>12. CASE Returned \/ UNCHANGED allVars
  BY <1>12, <1>s DEF Returned, allVars
<1> QED
  BY <1>1, <1>2, <1>3, <1>4, <1>5, <1>6, <1>7, <1>8, <1>9, <1>10, <1>11, <1>12
     DEF TransactionNext

(* Every command keeps both invariants. *)
THEOREM PartsCorrect == TransactionSpec => [](DepthInv /\ SweepInv)
<1>1. TransactionInit => DepthInv /\ SweepInv
  BY InitDepthInv, InitSweepInv DEF TransactionInit
<1>2. DepthInv /\ SweepInv /\ [TransactionNext]_allVars => (DepthInv /\ SweepInv)'
  BY NextParts, NextDepthInv, NextSweepInv
<1> QED BY <1>1, <1>2, PTL DEF TransactionSpec

(* A dependency is deeper than its dependents unless it was taken to break  *)
(* a cycle (depends.rs:1286-1339).                                          *)
THEOREM Ordered == TransactionSpec => []DeeperUnlessBroken
<1>1. DepthInv => DeeperUnlessBroken
  BY DEF DepthInv
<1> QED BY <1>1, PartsCorrect, PTL

(* Binary packages are installed after those they depend on, except the     *)
(* ones taken to break a cycle (plan.rs:397-414): a dependency that is not  *)
(* installed yet is deeper, and what has been installed is at least as deep *)
(* as what has not.                                                         *)
THEOREM InstallOrder == TransactionSpec => []DependenciesFirst
<1>1. DepthInv => DependenciesFirst
  <2> SUFFICES ASSUME DepthInv, NEW x \in ran, NEW y \in Pkgs, y \in depends[x],
                      base[x] = Binary, base[y] = Binary, y \notin ran, y \notin broken
               PROVE  FALSE
    BY DEF DependenciesFirst
  <2>1. x \in Pkgs /\ x \in ran \cap BaseOf(Binary) /\ y \in BaseOf(Binary) \ ran
    BY DEF DepthInv, TypeOK, BaseOf
  <2>2. DOMAIN depth = Pkgs
    BY DEF DepthInv, Staged
  <2>3. depth[x] < depth[y] /\ depth[y] =< depth[x]
    BY <2>1, <2>2 DEF DepthInv, DeeperUnlessBroken, DeepestRan
  <2>4. depth[x] \in Nat /\ depth[y] \in Nat
    BY <2>1, <2>2 DEF DepthInv, TypeOK
  <2>5. QED
    BY <2>3, <2>4
<1>2. QED
  BY <1>1, PartsCorrect, PTL

(* No recorded dependent of a swept package stays (plan.rs:646-706). *)
THEOREM SweepSound == TransactionSpec => []Sweep!NothingBroken
<1>1. SweepInv => Sweep!NothingBroken
  BY DEF SweepInv, Sweep!NothingBroken, Unneeded, Sweep!Staying
<1> QED BY <1>1, PartsCorrect, PTL

(* find_orphaned_packages takes no package it could leave. *)
THEOREM SweepMinimal == TransactionSpec => []Sweep!OnlyForced
<1>1. SweepInv => Sweep!OnlyForced
  BY DEF SweepInv
<1> QED BY <1>1, PartsCorrect, PTL

(* When find_orphaned_packages returns, no orphan is left. *)
THEOREM SweepComplete == TransactionSpec => []AllOrphansFound
<1>1. SweepInv => AllOrphansFound
  <2> SUFFICES ASSUME SweepInv, sweep = "done", NEW y \in candidates,
                      neededBy[y] \cap Olds \subseteq Upgraded \cup orphans,
                      y \notin orphans
               PROVE  FALSE
    BY DEF AllOrphansFound, Sweep!AllOrphansFound, Sweep!Closed
  <2>1. possible[y] = {} /\ y \in DOMAIN possible
    BY DEF SweepInv, Accurate, Sweep!Staying, Sweep!TypeOK
  <2> QED BY <2>1 DEF SweepInv, Accurate, Sweep!Free
<1> QED BY <1>1, PartsCorrect, PTL

-----------------------------------------------------------------------------
(* Batches.                                                                 *)

Earlier == UNION {batches[i] : i \in 1 .. Len(batches) - 1}
Current == IF batches = <<>> THEN {} ELSE Batch
Begun == IF step = "begin" THEN Earlier ELSE Earlier \cup Current
Ended == IF step = "ended" THEN Earlier \cup Current ELSE Earlier

(* Where the command is, and what it has linked and processed by then. *)
Stages ==
  /\ step \in {"plan", "refused"} => /\ batches = <<>>
                                     /\ cache = Olds
                                     /\ ran = {}
                                     /\ phase \in {"rounds", "run"}
  /\ step \in {"begin", "operate", "ended"} => /\ batches # <<>>
                                               /\ sweep = "done"
                                               /\ phase # "rounds"
  /\ step # "operate" => todo = {}
  /\ todo \subseteq Current \cup orphans
  /\ Current \cap Earlier = {}
  /\ cache \cap Pkgs = Begun \ todo
  /\ phase = "run" /\ batches # <<>> => /\ Len(batches) = 1
                                        /\ Current = BaseOf(Binary)
                                        /\ ran = cache \cap Pkgs
  /\ phase \in {"build", "done"} => ran = Earlier \cup Current
  /\ phase \in {"build", "done"} =>
       \A x, y \in Pkgs : base[x] = base[y] /\ x \in ran => y \in ran
  /\ phase = "done" => step = "ended" /\ ran = Pkgs

(* What was installed before goes once: with its upgrade, or in the first   *)
(* batch.                                                                   *)
Leaving ==
  /\ \A x, y \in Pkgs : x # y /\ replaces[x] = replaces[y] => replaces[x] = Nothing
  /\ \A x \in Pkgs : replaces[x] # Nothing => (replaces[x] \in cache <=> x \notin cache)
  /\ Olds \ cache \subseteq orphans \cup Upgraded
  /\ step = "begin" /\ Len(batches) = 1 => orphans \subseteq cache
  /\ Len(batches) > 1 \/ step = "ended" => orphans \cap cache = {}
  /\ step = "operate" => orphans \cap cache \subseteq todo

BegunOlds ==
  {replaces[x] : x \in Begun} \cup
  (IF Len(batches) > 1 \/ step \in {"operate", "ended"} THEN orphans ELSE {})

(* The scripts that have run. *)
HasRun(p, s) ==
  \/ s = "pretrans" /\ format = "rpm" /\ p \in Begun
  \/ s = "posttrans" /\ format = "rpm" /\ p \in Ended
  \/ s = "preuntrans" /\ format = "rpm" /\ p \in BegunOlds
  \/ /\ s \in {"pre", "post"}
     /\ p \in Pkgs \cap cache
     /\ replaces[p] = Nothing \/ format # "pacman"
  \/ /\ s \in {"preupgrade", "postupgrade"}
     /\ p \in Pkgs \cap cache
     /\ replaces[p] # Nothing /\ format = "pacman"
  \/ /\ s \in {"preun", "postun"}
     /\ p \in Olds \ cache
     /\ p \in orphans \/ format # "pacman"

Counts == \A p \in All, s \in Scripts : times[<<p, s>>] = IF HasRun(p, s) THEN 1 ELSE 0

TransactionInv ==
  /\ TransactionTypeOK
  /\ Stages
  /\ Leaving
  /\ Counts

LEMMA InitTransactionInv == TransactionInit => TransactionInv
<1> SUFFICES ASSUME TransactionInit PROVE TransactionInv
  OBVIOUS
<1>1. batches = <<>> /\ Len(batches) = 0 /\ batches \in Seq(SUBSET Pkgs)
  BY DEF TransactionInit
<1>2. Earlier = {} /\ Current = {} /\ Begun = {} /\ Ended = {} /\ BegunOlds = {}
  BY <1>1 DEF Earlier, Current, Begun, Ended, BegunOlds, TransactionInit
<1>3. TransactionTypeOK
  <2>1. TypeOK /\ Sweep!TypeOK
    BY InitDepthInv, InitSweepInv DEF DepthInv, SweepInv, TransactionInit
  <2>2. files \in [Paths -> All \cup {Nothing}]
    BY DEF TransactionInit, All
  <2> QED BY <1>1, <2>1, <2>2 DEF TransactionInit, TransactionTypeOK, All
<1>4. Stages
  BY <1>1, <1>2, TransactionAssumption DEF TransactionInit, Init, Stages, Sweep!Init
<1>5. Leaving
  BY <1>1, TransactionAssumption DEF TransactionInit, Leaving
<1>6. Counts
  <2> SUFFICES ASSUME NEW p \in All, NEW s \in Scripts PROVE times[<<p, s>>] = 0 /\ ~HasRun(p, s)
    BY DEF Counts
  <2>1. p \notin Pkgs \cap cache /\ p \notin Olds \ cache
    BY TransactionAssumption DEF TransactionInit
  <2> QED BY <1>2, <2>1 DEF TransactionInit, HasRun
<1> QED BY <1>3, <1>4, <1>5, <1>6 DEF TransactionInv

(* A batch is appended. *)
LEMMA Appending ==
  ASSUME batches \in Seq(SUBSET Pkgs), NEW new \in SUBSET Pkgs, batches' = Append(batches, new)
  PROVE  /\ batches' \in Seq(SUBSET Pkgs)
         /\ Len(batches') = Len(batches) + 1
         /\ batches' # <<>>
         /\ Current' = new
         /\ Earlier' = Earlier \cup Current
<1>1. /\ batches' \in Seq(SUBSET Pkgs)
      /\ Len(batches') = Len(batches) + 1
      /\ Len(batches) \in Nat
      /\ batches' # <<>>
      /\ batches'[Len(batches')] = new
      /\ \A i \in 1 .. Len(batches) : batches'[i] = batches[i]
  OBVIOUS
<1>2. Current' = new
  BY <1>1 DEF Current, Batch
<1>3. Earlier' = UNION {batches[i] : i \in 1 .. Len(batches)}
  BY <1>1 DEF Earlier
<1>4. CASE batches = <<>>
  <2>1. Len(batches) = 0 /\ 1 .. Len(batches) = {} /\ 1 .. Len(batches) - 1 = {}
    BY <1>4
  <2> QED BY <1>1, <1>2, <1>3, <1>4, <2>1 DEF Earlier, Current
<1>5. CASE batches # <<>>
  <2>1. Len(batches) >= 1 /\ 1 .. Len(batches) = (1 .. Len(batches) - 1) \cup {Len(batches)}
    BY <1>1, <1>5
  <2> QED BY <1>1, <1>2, <1>3, <1>5, <2>1 DEF Earlier, Current, Batch
<1> QED BY <1>4, <1>5

(* Scripts that have not run yet run. *)
LEMMA Counting ==
  ASSUME TransactionTypeOK, Counts, NEW runs, RunScripts(runs),
         \A p \in All, s \in Scripts : HasRun(p, s)' <=> (HasRun(p, s) \/ <<p, s>> \in runs),
         \A p \in All, s \in Scripts : <<p, s>> \in runs => ~HasRun(p, s)
  PROVE  Counts' /\ times' \in [All \X Scripts -> Nat]
<1>1. times \in [All \X Scripts -> Nat] /\ DOMAIN times = All \X Scripts
  BY DEF TransactionTypeOK
<1>2. times' \in [All \X Scripts -> Nat]
  BY <1>1 DEF RunScripts
<1>3. ASSUME NEW p \in All, NEW s \in Scripts
      PROVE  times'[<<p, s>>] = IF HasRun(p, s)' THEN 1 ELSE 0
  <2>1. times'[<<p, s>>] = times[<<p, s>>] + (IF <<p, s>> \in runs THEN 1 ELSE 0)
    BY <1>1 DEF RunScripts
  <2>2. times[<<p, s>>] = IF HasRun(p, s) THEN 1 ELSE 0
    BY DEF Counts
  <2> QED BY <2>1, <2>2
<1>4. Counts'
  BY <1>3 DEF Counts, All, Scripts
<1> QED BY <1>2, <1>4

(* No script runs. *)
LEMMA NoScripts ==
  ASSUME Counts, times' = times,
         \A p \in All, s \in Scripts : HasRun(p, s)' <=> HasRun(p, s)
  PROVE  Counts'
BY DEF Counts, All, Scripts

(* Typing of what a step of the transaction does not leave alone. *)
LEMMA Typing ==
  ASSUME TransactionTypeOK, TypeOK', Sweep!TypeOK', UNCHANGED plan,
         step' \in {"plan", "begin", "operate", "ended", "refused"},
         batches' \in Seq(SUBSET Pkgs), todo' \subseteq All, cache' \subseteq All,
         files' \in [Paths -> All \cup {Nothing}], times' \in [All \X Scripts -> Nat]
  PROVE  TransactionTypeOK'
BY DEF TransactionTypeOK, plan, All, Scripts

LEMMA Linking ==
  ASSUME TransactionInv, TypeOK', Sweep!TypeOK', UNCHANGED <<installed, plan>>,
         step = "plan" \/ step = "ended",
         NEW new \in SUBSET Pkgs, LinkPackages(new)
  PROVE  /\ TransactionTypeOK'
         /\ Leaving'
         /\ Counts'
         /\ Current' = new
         /\ Earlier' = Earlier \cup Current
         /\ Len(batches') = Len(batches) + 1
         /\ batches' # <<>>
         /\ Begun' = Begun
         /\ Begun = Earlier \cup Current
<1> USE DEF TransactionInv
<1>1. /\ batches' \in Seq(SUBSET Pkgs)
      /\ Len(batches') = Len(batches) + 1
      /\ batches' # <<>>
      /\ Current' = new
      /\ Earlier' = Earlier \cup Current
  BY Appending DEF LinkPackages, TransactionTypeOK
<1>2. step' = "begin" /\ UNCHANGED <<todo, cache, times, orphans, format, replaces>>
  BY DEF LinkPackages, installed, plan
<1>3. Len(batches) \in Nat
  BY DEF TransactionTypeOK
<1>4. step = "plan" => batches = <<>> /\ Len(batches) = 0 /\ Earlier = {} /\ Current = {}
  <2> SUFFICES ASSUME step = "plan"
               PROVE  batches = <<>> /\ Len(batches) = 0 /\ Earlier = {} /\ Current = {}
    OBVIOUS
  <2>1. batches = <<>> /\ Len(batches) = 0 /\ 1 .. Len(batches) - 1 = {}
    BY DEF Stages
  <2> QED BY <2>1 DEF Earlier, Current
<1>5. step = "ended" => Len(batches) >= 1
  <2> SUFFICES ASSUME step = "ended" PROVE Len(batches) # 0
    BY <1>3
  <2>1. batches # <<>>
    BY DEF Stages
  <2> QED BY <2>1 DEF TransactionTypeOK
<1>6. Begun' = Begun /\ Begun = Earlier \cup Current /\ Ended' = Ended
  BY <1>1, <1>2, <1>4 DEF Begun, Ended
<1>7. BegunOlds' = BegunOlds
  BY <1>1, <1>2, <1>3, <1>4, <1>5, <1>6 DEF BegunOlds
<1>8. TransactionTypeOK'
  <2>1. files' \in [Paths -> All \cup {Nothing}]
    BY DEF LinkPackages, Linked
  <2> QED BY <1>1, <1>2, <2>1, Typing DEF TransactionTypeOK
<1>9. Leaving'
  <2>1. (step' = "begin" /\ Len(batches') = 1) => orphans' \subseteq cache'
    BY <1>1, <1>2, <1>3, <1>4, <1>5, TransactionAssumption DEF Stages, TransactionTypeOK, Sweep!TypeOK
  <2>2. (Len(batches') > 1 \/ step' = "ended") => orphans' \cap cache' = {}
    BY <1>1, <1>2, <1>3, <1>4 DEF Leaving
  <2> QED BY <1>2, <2>1, <2>2 DEF Leaving, Upgraded
<1>10. Counts'
  <2>1. \A p \in All, s \in Scripts : HasRun(p, s)' <=> HasRun(p, s)
    BY <1>2, <1>6, <1>7 DEF HasRun
  <2> QED BY <1>2, <2>1, NoScripts
<1> QED BY <1>1, <1>6, <1>8, <1>9, <1>10

LEMMA LinkBinaryKeeps ==
  ASSUME TransactionInv, DepthInv, TypeOK', Sweep!TypeOK', LinkBinary
  PROVE  TransactionInv'
<1> USE DEF TransactionInv
<1>1. /\ LinkPackages(BaseOf(Binary))
      /\ UNCHANGED <<vars, installed, plan>>
      /\ step = "plan" /\ sweep = "done" /\ phase = "run"
      /\ BaseOf(Binary) \in SUBSET Pkgs
  BY DEF LinkBinary, BaseOf
<1>2. /\ batches = <<>> /\ Len(batches) = 0 /\ Earlier = {} /\ Current = {}
      /\ cache = Olds /\ ran = {} /\ todo = {}
  <2>1. batches = <<>> /\ Len(batches) = 0 /\ 1 .. Len(batches) - 1 = {}
    BY <1>1 DEF Stages
  <2> QED BY <1>1, <2>1 DEF Stages, Earlier, Current
<1>3. /\ TransactionTypeOK' /\ Leaving' /\ Counts'
      /\ Current' = BaseOf(Binary) /\ Earlier' = {} /\ Len(batches') = 1 /\ batches' # <<>>
      /\ Begun' = {}
  <2>1. 0 + 1 = 1
    OBVIOUS
  <2> QED BY <1>1, <1>2, <2>1, Linking
<1>4. step' = "begin" /\ UNCHANGED <<todo, cache, phase, sweep, base, ran>>
  BY <1>1 DEF LinkPackages, installed, vars
<1>5. Stages'
  BY <1>1, <1>2, <1>3, <1>4, TransactionAssumption DEF Stages, BaseOf
<1> QED BY <1>3, <1>5

LEMMA BuildAndLinkKeeps ==
  ASSUME TransactionInv, DepthInv, TypeOK', Sweep!TypeOK', BuildAndLink
  PROVE  TransactionInv'
<1> USE DEF TransactionInv
<1>1. PICK b \in ToBuild : ran' = ran \cup BaseOf(b)
  BY DEF BuildAndLink, BuildBase
<1>2. /\ LinkPackages(BaseOf(b))
      /\ UNCHANGED <<installed, plan, base, phase>>
      /\ step = "ended" /\ phase = "build"
      /\ BaseOf(b) \in SUBSET Pkgs
      /\ BaseOf(b) \cap ran = {}
  <2>1. ran' \ ran = BaseOf(b)
    BY <1>1 DEF ToBuild
  <2> QED BY <1>1, <2>1 DEF BuildAndLink, BuildBase, BaseOf, ToBuild
<1>3. /\ batches # <<>> /\ sweep = "done" /\ todo = {}
      /\ ran = Earlier \cup Current
      /\ cache \cap Pkgs = Begun
  BY <1>2 DEF Stages
<1>4. /\ TransactionTypeOK' /\ Leaving' /\ Counts'
      /\ Current' = BaseOf(b) /\ Earlier' = ran /\ batches' # <<>>
      /\ Begun' = Begun
  BY <1>2, <1>3, Linking
<1>5. step' = "begin" /\ UNCHANGED <<todo, cache, phase, sweep, base>>
  BY <1>2 DEF LinkPackages, installed
<1>6. \A x, y \in Pkgs : base'[x] = base'[y] /\ x \in ran' => y \in ran'
  BY <1>1, <1>2 DEF Stages, BaseOf
<1>7. Stages'
  BY <1>1, <1>2, <1>3, <1>4, <1>5, <1>6 DEF Stages
<1> QED BY <1>4, <1>7

(* Steps of the plan: nothing has been linked. *)
LEMMA PlanKeeps ==
  ASSUME TransactionInv, TypeOK', Sweep!TypeOK',
         ComputeDepths \/ SweepOrphans \/ Refuse
  PROVE  TransactionInv'
<1> USE DEF TransactionInv
<1>0. /\ step \in {"plan", "refused"} => /\ batches = <<>> /\ cache = Olds /\ ran = {}
                                         /\ Begun = {} /\ Ended = {} /\ BegunOlds = {}
                                         /\ Earlier = {} /\ Current = {}
      /\ step = "plan" => Len(batches) = 0
  <2> SUFFICES ASSUME step \in {"plan", "refused"}
               PROVE  /\ batches = <<>> /\ cache = Olds /\ ran = {}
                      /\ Begun = {} /\ Ended = {} /\ BegunOlds = {}
                      /\ Earlier = {} /\ Current = {}
                      /\ Len(batches) = 0
    OBVIOUS
  <2>1. batches = <<>> /\ Len(batches) = 0 /\ 1 .. Len(batches) - 1 = {}
    BY DEF Stages
  <2> QED BY <2>1 DEF Stages, Earlier, Current, Begun, Ended, BegunOlds
<1>1. phase = "rounds" => step \in {"plan", "refused"}
  BY DEF Stages, TransactionTypeOK
<1>2. /\ step \in {"plan", "refused"} /\ step' \in {"plan", "refused"}
      /\ UNCHANGED <<plan, batches, todo, cache, files, times, base, ran>>
      /\ phase \in {"rounds", "run"} /\ phase' \in {"rounds", "run"}
  BY <1>1 DEF ComputeDepths, SweepOrphans, Refuse, transaction, vars, Peel, BreakCycle, RoundsDone
<1>3. batches' = batches /\ batches = <<>> /\ Earlier' = {} /\ Current' = {} /\ Begun' = {} /\ Ended' = {}
  <2>1. Len(batches') = 0 /\ 1 .. Len(batches') - 1 = {}
    BY <1>0, <1>2
  <2> QED BY <1>0, <1>2, <2>1 DEF Earlier, Current, Begun, Ended
<1>4. Len(batches') = 0 /\ BegunOlds' = {}
  BY <1>0, <1>2, <1>3 DEF BegunOlds
<1>5. TransactionTypeOK'
  <2>1. step' \in {"plan", "begin", "operate", "ended", "refused"}
    BY <1>2
  <2> QED BY <1>2, <2>1, Typing DEF TransactionTypeOK
<1>6. Stages'
  BY <1>0, <1>2, <1>3, TransactionAssumption DEF Stages
<1>7. Leaving'
  BY <1>0, <1>2, <1>4, TransactionAssumption DEF Leaving, plan, Stages
<1>8. Counts'
  <2>1. ASSUME NEW p \in All, NEW s \in Scripts PROVE ~HasRun(p, s) /\ ~HasRun(p, s)'
    <3>1. p \notin Pkgs \cap cache /\ p \notin Olds \ cache
      BY <1>0, <1>2, TransactionAssumption
    <3> QED BY <1>0, <1>2, <1>3, <1>4, <3>1 DEF HasRun
  <2> QED BY <1>2, <2>1, NoScripts
<1> QED BY <1>5, <1>6, <1>7, <1>8

LEMMA BeginKeeps ==
  ASSUME TransactionInv, TypeOK', Sweep!TypeOK', BeginTransaction
  PROVE  TransactionInv'
<1> USE DEF TransactionInv
<1> DEFINE runs == IF format = "rpm"
                     THEN (Batch \X {"pretrans"}) \cup (Going \X {"preuntrans"}) ELSE {}
<1>1. /\ step = "begin" /\ step' = "operate"
      /\ todo' = Batch \cup orphans
      /\ RunScripts(runs)
      /\ UNCHANGED <<batches, cache, files, orphans, format, replaces, phase, base, ran, sweep>>
      /\ UNCHANGED plan
  BY DEF BeginTransaction, vars, installed, plan
<1>2. /\ batches # <<>> /\ Batch = Current /\ Batch' = Current /\ Current' = Current
      /\ Earlier' = Earlier /\ (Len(batches) = 1 \/ Len(batches) > 1)
      /\ Current \subseteq Pkgs
  <2>1. batches # <<>> /\ batches \in Seq(SUBSET Pkgs)
    BY <1>1 DEF Stages, TransactionTypeOK
  <2>2. Len(batches) \in Nat /\ Len(batches) >= 1 /\ batches[Len(batches)] \in SUBSET Pkgs
    BY <2>1
  <2>3. Len(batches) = 1 \/ Len(batches) > 1
    BY <2>2
  <2> QED BY <1>1, <2>1, <2>2, <2>3 DEF Batch, Current, Earlier
<1>3. /\ Begun = Earlier /\ Begun' = Earlier \cup Current
      /\ Ended = Earlier /\ Ended' = Earlier
  BY <1>1, <1>2 DEF Begun, Ended
<1>4. /\ orphans \subseteq Olds /\ orphans \cap Upgraded = {} /\ Upgraded \subseteq Olds
      /\ \A x \in Pkgs : replaces[x] # Nothing => replaces[x] \in Upgraded
      /\ Olds \cap Pkgs = {}
  BY TransactionAssumption DEF TransactionTypeOK, Sweep!TypeOK, Upgraded
<1>5. /\ \A x \in Current : x \notin cache /\ x \notin Earlier /\ x \in Pkgs
      /\ cache \cap Pkgs = Earlier
  BY <1>1, <1>2, <1>3 DEF Stages
<1>6. \A x \in Current : replaces[x] # Nothing => replaces[x] \in Going /\ replaces[x] \notin BegunOlds
  <2> SUFFICES ASSUME NEW x \in Current, replaces[x] # Nothing
               PROVE  replaces[x] \in Going /\ replaces[x] \notin BegunOlds
    OBVIOUS
  <2>1. replaces[x] \in cache
    BY <1>5 DEF Leaving
  <2>2. \A y \in Earlier : replaces[y] # replaces[x]
    BY <1>5 DEF Leaving
  <2>3. replaces[x] \notin orphans
    BY <1>4, <1>5
  <2> QED BY <1>2, <1>3, <2>1, <2>2, <2>3 DEF Going, BegunOlds
<1>7. BegunOlds' \cap All = (BegunOlds \cup Going) \cap All
  <2>1. BegunOlds' = {replaces[x] : x \in Earlier \cup Current} \cup orphans
    BY <1>1, <1>3 DEF BegunOlds
  <2>2. orphans \subseteq BegunOlds \cup Going
    <3>1. CASE Len(batches) = 1
      BY <1>1, <3>1 DEF Going, Leaving
    <3>2. CASE Len(batches) > 1
      BY <3>2 DEF BegunOlds
    <3> QED BY <1>2, <3>1, <3>2
  <2>3. Going \subseteq BegunOlds'
    BY <1>2, <2>1 DEF Going
  <2>4. \A x \in Current : replaces[x] \in All => replaces[x] \in Going
    BY <1>6, TransactionAssumption DEF All
  <2>5. BegunOlds \subseteq BegunOlds'
    BY <1>3, <2>1 DEF BegunOlds
  <2>6. \A x \in Earlier : replaces[x] \in BegunOlds
    BY <1>3 DEF BegunOlds
  <2> QED BY <2>1, <2>2, <2>3, <2>4, <2>5, <2>6
<1>8. Going \cap BegunOlds = {} /\ Going \subseteq Olds
  <2>1. Going \cap orphans = {} \/ Len(batches) = 1
    <3>1. CASE Len(batches) > 1
      BY <3>1 DEF Going, Leaving
    <3> QED BY <1>2, <3>1
  <2>2. \A q \in Going : q \in Olds /\ (q \in orphans \/ \E x \in Current : replaces[x] = q)
    BY <1>2, <1>4, TransactionAssumption DEF Going, TransactionTypeOK, All
  <2>3. ASSUME NEW q \in orphans, Len(batches) = 1 PROVE q \notin BegunOlds
    BY <1>1, <1>3, <1>4, <1>5, <2>3, TransactionAssumption DEF BegunOlds
  <2>4. ASSUME NEW x \in Current, replaces[x] \in Olds PROVE replaces[x] \notin BegunOlds
    BY <1>6, <2>4, TransactionAssumption
  <2> QED BY <2>1, <2>2, <2>3, <2>4
<1>9. Counts' /\ times' \in [All \X Scripts -> Nat]
  <2>1. ASSUME NEW p \in All, NEW s \in Scripts
        PROVE  /\ HasRun(p, s)' <=> (HasRun(p, s) \/ <<p, s>> \in runs)
               /\ <<p, s>> \in runs => ~HasRun(p, s)
    <3>1. <<p, s>> \in runs <=> /\ format = "rpm"
                                /\ \/ s = "pretrans" /\ p \in Current
                                   \/ s = "preuntrans" /\ p \in Going
      BY <1>2
    <3>2. CASE s = "pretrans"
      BY <1>1, <1>3, <1>5, <3>1, <3>2 DEF HasRun
    <3>3. CASE s = "preuntrans"
      BY <1>1, <1>7, <1>8, <3>1, <3>3 DEF HasRun
    <3>4. CASE s \notin {"pretrans", "preuntrans"}
      BY <1>1, <1>3, <3>1, <3>4 DEF HasRun
    <3> QED BY <3>2, <3>3, <3>4
  <2> HIDE DEF runs
  <2>2. RunScripts(runs) /\ TransactionTypeOK /\ Counts
    BY <1>1
  <2> QED BY <2>1, <2>2, Counting
<1>10. TransactionTypeOK'
  BY <1>1, <1>2, <1>4, <1>9, Typing DEF TransactionTypeOK, All
<1>11. Stages'
  <2>1. Begun' \ todo' = Earlier
    BY <1>1, <1>2, <1>3, <1>4, <1>5
  <2>2. phase # "done" /\ phase # "rounds" /\ sweep = "done" /\ BaseOf(Binary)' = BaseOf(Binary)
    BY <1>1 DEF Stages, BaseOf
  <2>3. /\ phase = "run" => /\ Len(batches) = 1
                            /\ Current = BaseOf(Binary)
                            /\ ran = cache \cap Pkgs
        /\ phase = "build" => /\ ran = Earlier \cup Current
                              /\ \A x, y \in Pkgs : base[x] = base[y] /\ x \in ran => y \in ran
    BY <1>2 DEF Stages
  <2>4. todo' \subseteq Current' \cup orphans' /\ Current' \cap Earlier' = {}
    BY <1>1, <1>2, <1>5
  <2> QED BY <1>1, <1>2, <1>5, <2>1, <2>2, <2>3, <2>4 DEF Stages
<1>12. Leaving'
  BY <1>1, <1>2 DEF Leaving, Upgraded
<1> QED BY <1>9, <1>10, <1>11, <1>12

(* What holds while the operations of a batch run. *)
LEMMA Operating ==
  ASSUME TransactionInv, step = "operate"
  PROVE  /\ batches # <<>> /\ Batch = Current /\ Current \subseteq Pkgs
         /\ Begun = Earlier \cup Current /\ Ended = Earlier
         /\ Begun \cap Olds = {} /\ phase \in {"run", "build"} /\ sweep = "done"
         /\ orphans \subseteq Olds /\ orphans \cap Upgraded = {} /\ Upgraded \subseteq Olds
         /\ \A x \in Pkgs : replaces[x] # Nothing => replaces[x] \in Upgraded
         /\ Olds \cap Pkgs = {} /\ Nothing \notin Olds \cup Pkgs
<1> USE DEF TransactionInv
<1>1. batches # <<>> /\ batches \in Seq(SUBSET Pkgs)
  BY DEF Stages, TransactionTypeOK
<1>2. \A i \in 1 .. Len(batches) : batches[i] \in SUBSET Pkgs
  BY <1>1
<1>3. Len(batches) \in Nat /\ Len(batches) >= 1
  BY <1>1
<1>4. Current = Batch /\ Batch \subseteq Pkgs
  BY <1>1, <1>2, <1>3 DEF Current, Batch
<1>5. \A i \in 1 .. Len(batches) - 1 : batches[i] \subseteq Pkgs
  BY <1>2, <1>3
<1>6. Earlier \subseteq Pkgs
  BY <1>5 DEF Earlier
<1>7. Begun = Earlier \cup Current /\ Ended = Earlier
  BY DEF Begun, Ended
<1>8. phase \in {"run", "build"} /\ sweep = "done"
  BY DEF Stages, TransactionTypeOK, TypeOK
<1> QED BY <1>1, <1>4, <1>6, <1>7, <1>8, TransactionAssumption
           DEF TransactionTypeOK, Sweep!TypeOK, Upgraded

LEMMA SameBatches ==
  ASSUME batches' = batches
  PROVE  Earlier' = Earlier /\ Current' = Current
BY DEF Earlier, Current, Batch

LEMMA RemoveKeeps ==
  ASSUME TransactionInv, TypeOK', Sweep!TypeOK', RemovePackage
  PROVE  TransactionInv'
<1> USE DEF TransactionInv
<1>1. PICK q \in todo \cap Olds :
        /\ todo' = todo \ {q}
        /\ cache' = cache \ {q}
        /\ Unlink(IF q \in cache THEN own[q] ELSE {})
        /\ RunScripts(IF q \in cache THEN {q} \X {"preun", "postun"} ELSE {})
  BY DEF RemovePackage
<1>2. /\ step = "operate" /\ step' = "operate"
      /\ UNCHANGED <<batches, orphans, format, replaces, phase, base, ran, sweep>>
      /\ UNCHANGED plan
  BY DEF RemovePackage, vars, installed, plan
<1>3. Earlier' = Earlier /\ Current' = Current /\ Begun' = Begun /\ Ended' = Ended
  BY <1>2, SameBatches DEF Begun, Ended
<1>4. BegunOlds' = BegunOlds
  BY <1>2, <1>3 DEF BegunOlds
<1>5. q \in orphans /\ q \in Olds /\ q \notin Pkgs /\ q \in All
  BY <1>2, Operating DEF Stages, All
<1>6. Counts' /\ times' \in [All \X Scripts -> Nat]
  <2> DEFINE runs == IF q \in cache THEN {q} \X {"preun", "postun"} ELSE {}
  <2>1. ASSUME NEW p \in All, NEW s \in Scripts
        PROVE  /\ HasRun(p, s)' <=> (HasRun(p, s) \/ <<p, s>> \in runs)
               /\ <<p, s>> \in runs => ~HasRun(p, s)
    <3>1. <<p, s>> \in runs <=> q \in cache /\ p = q /\ s \in {"preun", "postun"}
      OBVIOUS
    <3>2. (p \in Pkgs \cap cache)' <=> p \in Pkgs \cap cache
      BY <1>1, <1>5
    <3>3. p \in (Olds \ cache)' <=> (p \in Olds \ cache \/ p = q)
      BY <1>1, <1>5
    <3> QED BY <1>2, <1>3, <1>4, <1>5, <3>1, <3>2, <3>3 DEF HasRun
  <2> HIDE DEF runs
  <2>2. RunScripts(runs) /\ TransactionTypeOK /\ Counts
    BY <1>1 DEF runs
  <2> QED BY <2>1, <2>2, Counting
<1>7. TransactionTypeOK'
  <2>1. files' \in [Paths -> All \cup {Nothing}]
    BY <1>1 DEF Unlink, TransactionTypeOK
  <2> QED BY <1>1, <1>2, <1>6, <2>1, Typing DEF TransactionTypeOK
<1>8. Stages'
  <2>1. cache' \cap Pkgs = Begun' \ todo' /\ cache' \cap Pkgs = cache \cap Pkgs
    BY <1>1, <1>2, <1>3, <1>5, Operating DEF Stages
  <2>2. BaseOf(Binary)' = BaseOf(Binary)
    BY <1>2 DEF BaseOf
  <2>3. todo' \subseteq Current' \cup orphans'
    BY <1>1, <1>2, <1>3 DEF Stages
  <2> QED BY <1>2, <1>3, <2>1, <2>2, <2>3 DEF Stages
<1>9. Leaving'
  <2>1. \A x \in Pkgs : replaces[x] # Nothing => replaces[x] # q
    BY <1>2, <1>5, Operating
  <2>2. \A x \in Pkgs : replaces'[x] # Nothing => (replaces'[x] \in cache' <=> x \notin cache')
    BY <1>1, <1>2, <1>5, <2>1 DEF Leaving
  <2> QED BY <1>1, <1>2, <1>5, <2>2 DEF Leaving, Upgraded
<1> QED BY <1>6, <1>7, <1>8, <1>9

(* A fresh install or an upgrade of a batch, whichever thread of the plan   *)
(* it is for: in the first batch it counts as an operation of the plan.     *)
LEMMA ProcessKeeps ==
  ASSUME TransactionInv, TypeOK', Sweep!TypeOK', step = "operate",
         NEW x \in todo, todo \cap Olds = {}, Process(x), UNCHANGED <<phase, base>>,
         phase = "run" => ran' = ran \cup {x},
         phase # "run" => ran' = ran
  PROVE  TransactionInv'
<1> USE DEF TransactionInv
<1>1. /\ todo' = todo \ {x}
      /\ cache' = (cache \ {replaces[x]}) \cup {x}
      /\ Unlink(Outdated(x))
      /\ RunScripts(ScriptsOf(x))
      /\ step' = "operate"
      /\ UNCHANGED <<batches, orphans, format, replaces, sweep>>
      /\ UNCHANGED plan
  BY DEF Process, installed, plan
<1>2. Earlier' = Earlier /\ Current' = Current /\ Begun' = Begun /\ Ended' = Ended
  BY <1>1, SameBatches DEF Begun, Ended
<1>3. BegunOlds' = BegunOlds
  BY <1>1, <1>2 DEF BegunOlds
<1>4. x \in Current /\ x \in Pkgs /\ x \in All /\ x \notin cache /\ x \notin Olds /\ x \in Begun
  BY Operating DEF Stages, All
<1>5. /\ replaces[x] \in Olds \cup {Nothing} /\ replaces[x] \notin orphans /\ replaces[x] \notin Pkgs
      /\ replaces[x] # Nothing => replaces[x] \in Olds /\ replaces[x] \in cache
  <2>1. replaces[x] \in Olds \cup {Nothing}
    BY <1>4 DEF TransactionTypeOK
  <2>2. replaces[x] # Nothing => replaces[x] \in Upgraded /\ replaces[x] \in cache
    BY <1>4, Operating DEF Leaving
  <2> QED BY <2>1, <2>2, Operating
<1>6. \A p \in All : /\ p \in Pkgs \cap cache' <=> p \in Pkgs \cap cache \/ p = x
                     /\ p \in Olds \ cache' <=> p \in Olds \ cache \/ p = replaces[x]
  BY <1>1, <1>4, <1>5, Operating DEF All
<1>7. Counts' /\ times' \in [All \X Scripts -> Nat]
  <2>1. ASSUME NEW p \in All, NEW s \in Scripts
        PROVE  /\ HasRun(p, s)' <=> (HasRun(p, s) \/ <<p, s>> \in ScriptsOf(x))
               /\ <<p, s>> \in ScriptsOf(x) => ~HasRun(p, s)
    <3>1. <<p, s>> \in ScriptsOf(x) <=>
             \/ /\ p = x /\ s \in {"pre", "post"}
                /\ replaces[x] = Nothing \/ format # "pacman"
             \/ /\ p = x /\ s \in {"preupgrade", "postupgrade"}
                /\ replaces[x] # Nothing /\ format = "pacman"
             \/ /\ p = replaces[x] /\ s \in {"preun", "postun"}
                /\ replaces[x] # Nothing /\ format # "pacman"
      BY DEF ScriptsOf
    <3>2. /\ p \in Pkgs \cap cache' <=> p \in Pkgs \cap cache \/ p = x
          /\ p \in Olds \ cache' <=> p \in Olds \ cache \/ p = replaces[x]
      BY <1>6
    <3>3. CASE s \in {"pretrans", "posttrans", "preuntrans"}
      BY <1>1, <1>2, <1>3, <3>1, <3>3 DEF HasRun
    <3>4. CASE s \in {"pre", "post", "preupgrade", "postupgrade"}
      BY <1>1, <1>4, <3>1, <3>2, <3>4 DEF HasRun
    <3>5. CASE s \in {"preun", "postun"}
      BY <1>1, <1>4, <1>5, <3>1, <3>2, <3>5, Operating DEF HasRun, All
    <3>6. CASE s = "postuntrans"
      BY <3>1, <3>6 DEF HasRun
    <3> QED BY <3>3, <3>4, <3>5, <3>6 DEF Scripts
  <2>2. RunScripts(ScriptsOf(x)) /\ TransactionTypeOK /\ Counts
    BY <1>1
  <2> QED BY <2>1, <2>2, Counting
<1>8. TransactionTypeOK'
  <2>1. files' \in [Paths -> All \cup {Nothing}]
    BY <1>1 DEF Unlink, TransactionTypeOK
  <2>2. todo' \subseteq All /\ cache' \subseteq All
    BY <1>1, <1>4 DEF TransactionTypeOK
  <2> QED BY <1>1, <1>7, <2>1, <2>2, Typing DEF TransactionTypeOK
<1>9. Stages'
  <2>1. cache' \cap Pkgs = (cache \cap Pkgs) \cup {x}
    BY <1>1, <1>4, <1>5
  <2>2. cache' \cap Pkgs = Begun' \ todo'
    BY <1>1, <1>2, <1>4, <2>1 DEF Stages
  <2>3. BaseOf(Binary)' = BaseOf(Binary)
    BY DEF BaseOf
  <2>4. /\ phase = "run" => /\ Len(batches) = 1
                            /\ Current = BaseOf(Binary)
                            /\ ran' = cache' \cap Pkgs
        /\ phase = "build" => ran' = Earlier \cup Current
        /\ phase = "build" => \A y, z \in Pkgs : base[y] = base[z] /\ y \in ran' => z \in ran'
    BY <2>1, Operating DEF Stages
  <2>5. todo' \subseteq Current' \cup orphans' /\ Current' \cap Earlier' = {}
    BY <1>1, <1>2 DEF Stages
  <2> QED BY <1>1, <2>2, <2>3, <2>4, <2>5, Operating, <1>2 DEF Stages
<1>10. Leaving'
  <2>1. ASSUME NEW y \in Pkgs, replaces[y] # Nothing
        PROVE  replaces[y] \in cache' <=> y \notin cache'
    <3>1. CASE y = x
      BY <1>1, <1>4, <1>5, <3>1, <2>1
    <3>2. CASE y # x
      <4>1. replaces[y] # replaces[x] /\ (replaces[y] \in cache <=> y \notin cache)
        BY <1>4, <2>1, <3>2 DEF Leaving
      <4>2. replaces[y] # x /\ y # replaces[x]
        BY <1>4, <1>5, <2>1, Operating
      <4> QED BY <1>1, <3>2, <4>1, <4>2
    <3> QED BY <3>1, <3>2
  <2>2. Olds \ cache' \subseteq orphans \cup Upgraded
    <3>1. replaces[x] # Nothing => replaces[x] \in Upgraded
      BY <1>4, Operating
    <3> QED BY <1>1, <1>5, <3>1, TransactionAssumption DEF Leaving
  <2>3. orphans \cap cache' = orphans \cap cache /\ (orphans \cap cache') \cap {x} = {}
    BY <1>1, <1>4, <1>5, Operating
  <2> QED BY <1>1, <2>1, <2>2, <2>3 DEF Leaving, Upgraded
<1> QED BY <1>7, <1>8, <1>9, <1>10

(* What went has left the cache by the end of its batch. *)
LEMMA EndKeeps ==
  ASSUME TransactionInv, TypeOK', Sweep!TypeOK', EndTransaction
  PROVE  TransactionInv'
<1> USE DEF TransactionInv
<1> DEFINE runs == IF format = "rpm"
                     THEN (Batch \X {"posttrans"}) \cup (Going \X {"postuntrans"}) ELSE {}
<1>1. /\ step = "operate" /\ step' = "ended" /\ todo = {} /\ todo' = {}
      /\ RunScripts(runs)
      /\ UNCHANGED <<batches, cache, files, orphans, format, replaces, phase, base, ran, sweep>>
      /\ UNCHANGED plan
  BY DEF EndTransaction, vars, installed, plan
<1>2. Earlier' = Earlier /\ Current' = Current
  BY <1>1, SameBatches
<1>3. Begun' = Begun /\ Ended' = Begun /\ Begun = Earlier \cup Current /\ Ended = Earlier
  BY <1>1, <1>2 DEF Begun, Ended
<1>4. BegunOlds' = BegunOlds
  BY <1>1, <1>3 DEF BegunOlds
<1>5. cache \cap Pkgs = Begun /\ Current \cap Earlier = {} /\ orphans \cap cache = {}
  BY <1>1 DEF Stages, Leaving
<1>6. Going = {}
  <2>1. \A x \in Batch : x \in Pkgs /\ x \in cache
    BY <1>1, <1>3, <1>5, Operating
  <2>2. \A x \in Batch : replaces[x] \notin cache
    BY <2>1, TransactionAssumption DEF Leaving, TransactionTypeOK, All
  <2> QED BY <1>5, <2>2 DEF Going
<1>7. Counts' /\ times' \in [All \X Scripts -> Nat]
  <2>1. ASSUME NEW p \in All, NEW s \in Scripts
        PROVE  /\ HasRun(p, s)' <=> (HasRun(p, s) \/ <<p, s>> \in runs)
               /\ <<p, s>> \in runs => ~HasRun(p, s)
    <3>1. <<p, s>> \in runs <=> format = "rpm" /\ s = "posttrans" /\ p \in Current
      BY <1>1, <1>6, Operating
    <3>2. CASE s = "posttrans"
      BY <1>1, <1>3, <1>5, <3>1, <3>2 DEF HasRun
    <3>3. CASE s # "posttrans"
      BY <1>1, <1>3, <1>4, <3>1, <3>3 DEF HasRun
    <3> QED BY <3>2, <3>3
  <2> HIDE DEF runs
  <2>2. RunScripts(runs) /\ TransactionTypeOK /\ Counts
    BY <1>1
  <2> QED BY <2>1, <2>2, Counting
<1>8. TransactionTypeOK'
  BY <1>1, <1>7, Typing DEF TransactionTypeOK
<1>9. Stages'
  <2>1. BaseOf(Binary)' = BaseOf(Binary)
    BY <1>1 DEF BaseOf
  <2> QED BY <1>1, <1>2, <1>3, <1>5, <2>1, Operating DEF Stages
<1>10. Leaving'
  BY <1>1, <1>5 DEF Leaving, Upgraded
<1> QED BY <1>7, <1>8, <1>9, <1>10

LEMMA BatchesDoneKeep ==
  ASSUME TransactionInv, DepthInv, TypeOK', Sweep!TypeOK', BatchesDone
  PROVE  TransactionInv'
<1> USE DEF TransactionInv
<1>1. /\ step = "ended"
      /\ UNCHANGED <<step, batches, todo, cache, files, times, orphans, sweep, base, ran>>
      /\ UNCHANGED plan
      /\ \/ phase = "run" /\ phase' = "build" /\ BaseOf(Binary) \subseteq ran
         \/ phase = "build" /\ phase' = "done" /\ ToBuild = {}
  BY DEF BatchesDone, RunDone, BuildDone, installed, transaction
<1>2. Earlier' = Earlier /\ Current' = Current /\ Begun' = Begun /\ Ended' = Ended
      /\ Begun = Earlier \cup Current
  BY <1>1, SameBatches DEF Begun, Ended
<1>3. format' = format /\ replaces' = replaces
  BY <1>1 DEF plan
<1>4. BegunOlds' = BegunOlds
  BY <1>1, <1>2, <1>3 DEF BegunOlds
<1>5. ran = Earlier \cup Current
  <2>1. batches # <<>> /\ todo = {} /\ cache \cap Pkgs = Begun \ todo
    BY <1>1 DEF Stages
  <2>2. CASE phase = "run"
    BY <1>2, <2>1, <2>2 DEF Stages
  <2>3. CASE phase = "build"
    BY <2>3 DEF Stages
  <2> QED BY <1>1, <2>2, <2>3
<1>6. phase = "run" => \A x, y \in Pkgs : base[x] = base[y] /\ x \in ran => y \in ran
  <2> SUFFICES ASSUME phase = "run", NEW x \in Pkgs, NEW y \in Pkgs, base[x] = base[y], x \in ran
               PROVE  y \in ran
    OBVIOUS
  <2>1. Current = BaseOf(Binary) /\ ran = cache \cap Pkgs /\ Len(batches) = 1
    BY <1>1 DEF Stages
  <2>2. 1 .. Len(batches) - 1 = {}
    BY <2>1
  <2>3. Earlier = {}
    BY <2>2 DEF Earlier
  <2>4. ran = BaseOf(Binary)
    BY <1>5, <2>1, <2>3
  <2> QED BY <2>4 DEF BaseOf
<1>7. phase' = "done" => ran = Pkgs
  <2> SUFFICES ASSUME phase = "build", ToBuild = {}, NEW x \in Pkgs PROVE x \in ran
    BY <1>1 DEF DepthInv, TypeOK
  <2>1. base[x] \in Bases \cup {Binary} /\ BaseOf(Binary) \subseteq ran
    BY DEF DepthInv, TypeOK, Staged
  <2>2. CASE base[x] = Binary
    BY <2>1, <2>2 DEF BaseOf
  <2>3. CASE base[x] \in Bases
    <3>1. PICK y \in Pkgs : base[y] = base[x] /\ y \in ran
      BY <2>3 DEF ToBuild, BaseOf
    <3> QED BY <3>1 DEF Stages
  <2> QED BY <2>1, <2>2, <2>3
<1>8. TransactionTypeOK'
  BY <1>1, Typing DEF TransactionTypeOK
<1>9. Stages'
  <2>1. \A x, y \in Pkgs : base[x] = base[y] /\ x \in ran => y \in ran
    BY <1>1, <1>6 DEF Stages
  <2>2. batches # <<>> /\ sweep = "done" /\ todo = {} /\ Current \cap Earlier = {}
        /\ cache \cap Pkgs = Begun \ todo
    BY <1>1 DEF Stages
  <2> QED BY <1>1, <1>2, <1>5, <1>7, <2>1, <2>2 DEF Stages
<1>10. Leaving'
  BY <1>1, <1>3 DEF Leaving, Upgraded
<1>11. Counts'
  <2>1. \A p \in All, s \in Scripts : HasRun(p, s)' <=> HasRun(p, s)
    BY <1>1, <1>2, <1>3, <1>4 DEF HasRun
  <2> QED BY <1>1, <2>1, NoScripts
<1> QED BY <1>8, <1>9, <1>10, <1>11

LEMMA StutterKeeps ==
  ASSUME TransactionInv, UNCHANGED allVars
  PROVE  TransactionInv'
<1> USE DEF TransactionInv
<1>1. /\ UNCHANGED <<step, batches, todo, cache, files, times, orphans, sweep, base, ran, phase>>
      /\ UNCHANGED <<format, replaces, own>>
      /\ UNCHANGED vars /\ UNCHANGED Sweep!vars
  BY DEF allVars, vars, installed, plan, transaction, Sweep!vars, Upgraded
<1>2. Earlier' = Earlier /\ Current' = Current /\ Begun' = Begun /\ Ended' = Ended
  BY <1>1, SameBatches DEF Begun, Ended
<1>3. BegunOlds' = BegunOlds
  BY <1>1, <1>2 DEF BegunOlds
<1>4. TypeOK' /\ Sweep!TypeOK'
  BY <1>1 DEF TransactionTypeOK, TypeOK, vars, Sweep!TypeOK, Sweep!vars
<1>5. TransactionTypeOK'
  BY <1>1, <1>4, Typing DEF TransactionTypeOK, plan
<1>6. Stages'
  BY <1>1, <1>2 DEF Stages, BaseOf
<1>7. Leaving'
  BY <1>1 DEF Leaving, Upgraded
<1>8. Counts'
  <2>1. \A p \in All, s \in Scripts : HasRun(p, s)' <=> HasRun(p, s)
    BY <1>1, <1>2, <1>3 DEF HasRun
  <2> QED BY <1>1, <2>1, NoScripts
<1> QED BY <1>5, <1>6, <1>7, <1>8

LEMMA NextTransactionInv ==
  ASSUME TransactionInv, DepthInv, SweepInv, [TransactionNext]_allVars
  PROVE  TransactionInv'
<1>1. DepthInv' /\ SweepInv'
  BY NextParts, NextDepthInv, NextSweepInv
<1>2. TypeOK' /\ Sweep!TypeOK'
  BY <1>1 DEF DepthInv, SweepInv
<1>3. CASE ComputeDepths \/ SweepOrphans \/ Refuse
  BY <1>2, <1>3, PlanKeeps
<1>4. CASE LinkBinary
  BY <1>2, <1>4, LinkBinaryKeeps
<1>5. CASE BeginTransaction
  BY <1>2, <1>5, BeginKeeps
<1>6. CASE RemovePackage
  BY <1>2, <1>6, RemoveKeeps
<1>7. CASE InstallBinary
  <2>1. PICK x \in todo : ran' = ran \cup {x} /\ Process(x)
    BY <1>7 DEF InstallBinary
  <2>2. step = "operate" /\ todo \cap Olds = {} /\ phase = "run" /\ UNCHANGED <<phase, base>>
    BY <1>7 DEF InstallBinary, RunOperation
  <2> QED BY <1>2, <2>1, <2>2, ProcessKeeps
<1>8. CASE InstallBuilt
  <2>1. PICK x \in todo : Process(x)
    BY <1>8 DEF InstallBuilt
  <2>2. /\ step = "operate" /\ todo \cap Olds = {} /\ phase = "build"
        /\ UNCHANGED <<phase, base, ran>>
    BY <1>8 DEF InstallBuilt, vars
  <2> QED BY <1>2, <2>1, <2>2, ProcessKeeps
<1>9. CASE EndTransaction
  BY <1>2, <1>9, EndKeeps
<1>10. CASE BuildAndLink
  BY <1>2, <1>10, BuildAndLinkKeeps
<1>11. CASE BatchesDone
  BY <1>2, <1>11, BatchesDoneKeep
<1>12. CASE Returned \/ UNCHANGED allVars
  BY <1>12, StutterKeeps DEF Returned
<1> QED
  BY <1>3, <1>4, <1>5, <1>6, <1>7, <1>8, <1>9, <1>10, <1>11, <1>12 DEF TransactionNext

(* What has been linked, processed and run, in every run of a command. *)
THEOREM TransactionCorrect == TransactionSpec => []TransactionInv
<1>1. TransactionInv /\ (DepthInv /\ SweepInv) /\ [TransactionNext]_allVars => TransactionInv'
  BY NextTransactionInv
<1> QED BY <1>1, InitTransactionInv, PartsCorrect, PTL DEF TransactionSpec

(* Whatever the batches, each script that is due runs exactly once and no   *)
(* other runs (transaction.rs:11-12): a package is new in one batch, what it *)
(* replaces and what is swept leaves the cache in one, and a script runs     *)
(* only where its package joins or leaves.                                  *)
THEOREM EachScriptOnce == TransactionSpec => []ScriptsOnce
<1>1. TransactionInv => ScriptsOnce
  <2> SUFFICES ASSUME TransactionInv PROVE ScriptsOnce
    OBVIOUS
  <2> USE DEF TransactionInv
  <2>1. \A run \in DOMAIN times : times[run] =< 1
    <3>1. DOMAIN times = All \X Scripts
      BY DEF TransactionTypeOK
    <3>2. ASSUME NEW p \in All, NEW s \in Scripts PROVE times[<<p, s>>] =< 1
      <4>1. times[<<p, s>>] = 0 \/ times[<<p, s>>] = 1
        BY DEF Counts
      <4> QED BY <4>1
    <3> QED BY <3>1, <3>2
  <2>2. ASSUME phase = "done", NEW p \in All, NEW s \in Scripts
        PROVE  times[<<p, s>>] = 1 <=> s \in Due(p)
    <3>1. /\ step = "ended" /\ todo = {} /\ cache \cap Pkgs = Begun /\ ran = Pkgs
          /\ ran = Earlier \cup Current
      BY <2>2 DEF Stages
    <3>2. Begun = Pkgs /\ Ended = Pkgs /\ cache \cap Pkgs = Pkgs
      BY <3>1 DEF Begun, Ended
    <3>3. BegunOlds = {replaces[x] : x \in Pkgs} \cup orphans
      BY <3>1, <3>2 DEF BegunOlds
    <3>4. Olds \ cache = orphans \cup Upgraded
      <4>1. orphans \subseteq Olds \ cache
        BY <3>1 DEF Leaving, TransactionTypeOK, Sweep!TypeOK
      <4>2. Upgraded \subseteq Olds \ cache
        BY <3>2 DEF Leaving, TransactionTypeOK, Upgraded
      <4> QED BY <4>1, <4>2 DEF Leaving
    <3>5. HasRun(p, s) <=> s \in Due(p)
      <4>1. orphans \cap Upgraded = {} /\ orphans \subseteq Olds /\ Upgraded \subseteq Olds
        BY DEF TransactionTypeOK, Sweep!TypeOK, Upgraded
      <4>2. p \in BegunOlds <=> p \in orphans \cup Upgraded
        BY <3>3, TransactionAssumption DEF Upgraded, All
      <4>3. format \in {"rpm", "deb", "pacman"}
        BY DEF TransactionTypeOK
      <4>4. CASE p \in Pkgs
        BY <3>2, <4>1, <4>2, <4>3, <4>4, TransactionAssumption DEF HasRun, Due
      <4>5. CASE p \in orphans
        BY <3>2, <3>4, <4>1, <4>2, <4>3, <4>5, TransactionAssumption DEF HasRun, Due
      <4>6. CASE p \in Upgraded
        BY <3>2, <3>4, <4>1, <4>2, <4>3, <4>6, TransactionAssumption DEF HasRun, Due
      <4>7. CASE p \in Olds \ (orphans \cup Upgraded)
        BY <3>2, <3>4, <4>2, <4>7, TransactionAssumption DEF HasRun, Due
      <4> QED BY <4>4, <4>5, <4>6, <4>7 DEF All
    <3> QED BY <3>5 DEF Counts
  <2> QED BY <2>1, <2>2 DEF ScriptsOnce
<1> QED BY <1>1, TransactionCorrect, PTL

(* A command refused has changed nothing, one that has returned has         *)
(* installed its whole session and left nothing that was to go.             *)
THEOREM Completed ==
  TransactionSpec => [](/\ step = "refused" => cache = Olds
                        /\ phase = "done" => cache = Pkgs \cup (Olds \ (orphans \cup Upgraded)))
<1>1. TransactionInv => /\ step = "refused" => cache = Olds
                        /\ phase = "done" => cache = Pkgs \cup (Olds \ (orphans \cup Upgraded))
  <2> SUFFICES ASSUME TransactionInv, phase = "done"
               PROVE  cache = Pkgs \cup (Olds \ (orphans \cup Upgraded))
    BY DEF TransactionInv, Stages
  <2> USE DEF TransactionInv
  <2>1. step = "ended" /\ todo = {} /\ cache \cap Pkgs = Begun /\ Begun = Pkgs
    BY DEF Stages, Begun
  <2>2. orphans \cap cache = {} /\ Upgraded \cap cache = {}
    BY <2>1 DEF Leaving, TransactionTypeOK, Upgraded
  <2> QED BY <2>1, <2>2 DEF Leaving, TransactionTypeOK, All
<1> QED BY <1>1, TransactionCorrect, PTL
-----------------------------------------------------------------------------
(* Files.                                                                   *)

(* No path is shared by packages installed before, no package is new in two *)
(* batches.                                                                 *)
Apart ==
  /\ \A p, q \in Olds : p # q => own[p] \cap own[q] = {}
  /\ \A i, j \in 1 .. Len(batches) : i # j => batches[i] \cap batches[j] = {}

(* How a linked package has lost a path, said without BatchOf. *)
Lost(path, p) ==
  \E q \in Olds :
    /\ path \in own[q]
    /\ \/ q \in orphans /\ p \in batches[1]
       \/ \E y \in Pkgs : /\ replaces[y] = q
                          /\ \E j, k \in 1 .. Len(batches) :
                                j < k /\ p \in batches[j] /\ y \in batches[k]

(* A path is a file of a linked package or of an old one still recorded;    *)
(* what the batch has linked stays its own until the batch unlinks it; no   *)
(* old package loses a file before its entry; and a new one only as above.  *)
Possessed == \A path \in Paths :
  files[path] # Nothing => /\ path \in own[files[path]]
                           /\ files[path] \in Earlier \cup Current \cup (Olds \cap cache)
HeldByBatch == \A path \in Paths, y \in Current :
  path \in own[y] => files[path] \in Current \cup {Nothing}
OldKept == \A path \in Paths, p \in Olds \cap cache : path \in own[p] => files[path] # Nothing
NewKept == \A path \in Paths, p \in Earlier \cup Current :
  path \in own[p] /\ files[path] = Nothing => Lost(path, p)

FilesInv == Apart /\ Possessed /\ HeldByBatch /\ OldKept /\ NewKept

LEMMA InitFilesInv == TransactionInit => FilesInv
<1> SUFFICES ASSUME TransactionInit PROVE FilesInv
  OBVIOUS
<1>1. batches = <<>> /\ Len(batches) = 0 /\ cache = Olds /\ Nothing \notin Olds
  BY TransactionAssumption DEF TransactionInit
<1>2. Earlier = {} /\ Current = {} /\ 1 .. Len(batches) = {}
  BY <1>1 DEF Earlier, Current
<1>3. ASSUME NEW path \in Paths
      PROVE  /\ \A p \in Olds : path \in own[p] => files[path] # Nothing
             /\ files[path] # Nothing => files[path] \in Olds /\ path \in own[files[path]]
  <2>1. files[path] = IF \E q \in Olds : path \in own[q]
                        THEN CHOOSE q \in Olds : path \in own[q] ELSE Nothing
    BY DEF TransactionInit
  <2>2. CASE \E q \in Olds : path \in own[q]
    <3>1. files[path] \in Olds /\ path \in own[files[path]]
      BY <2>1, <2>2
    <3> QED BY <1>1, <3>1
  <2>3. CASE ~ \E q \in Olds : path \in own[q]
    BY <2>1, <2>3
  <2> QED BY <2>2, <2>3
<1>4. Apart
  BY <1>2 DEF TransactionInit, Apart
<1> QED BY <1>1, <1>2, <1>3, <1>4 DEF FilesInv, Possessed, HeldByBatch, OldKept, NewKept

(* What is linked is in some batch. *)
LEMMA InBatch ==
  ASSUME batches \in Seq(SUBSET Pkgs), NEW x
  PROVE  x \in Earlier \cup Current <=> \E i \in 1 .. Len(batches) : x \in batches[i]
<1>1. Len(batches) \in Nat
  OBVIOUS
<1>2. CASE batches = <<>>
  <2>1. Len(batches) = 0 /\ 1 .. Len(batches) = {} /\ 1 .. Len(batches) - 1 = {}
    BY <1>2
  <2> QED BY <1>2, <2>1 DEF Earlier, Current
<1>3. CASE batches # <<>>
  <2>1. Len(batches) >= 1 /\ 1 .. Len(batches) = (1 .. Len(batches) - 1) \cup {Len(batches)}
    BY <1>1, <1>3
  <2> QED BY <1>3, <2>1 DEF Earlier, Current, Batch
<1> QED BY <1>2, <1>3

(* Nothing that FilesInv is about changes. *)
LEMMA FilesFrame ==
  ASSUME FilesInv, UNCHANGED <<batches, cache, files, own, replaces>>,
         UNCHANGED orphans \/ batches = <<>>
  PROVE  FilesInv'
<1>1. Earlier' = Earlier /\ Current' = Current
  BY SameBatches
<1>2. CASE batches = <<>>
  <2>1. Len(batches) = 0 /\ 1 .. Len(batches) - 1 = {}
    BY <1>2
  <2>2. Earlier \cup Current = {}
    BY <1>2, <2>1 DEF Earlier, Current
  <2> QED BY <1>1, <2>2 DEF FilesInv, Apart, Possessed, HeldByBatch, OldKept, NewKept
<1>3. CASE UNCHANGED orphans
  BY <1>1, <1>3 DEF FilesInv, Apart, Possessed, HeldByBatch, OldKept, NewKept, Lost
<1> QED BY <1>2, <1>3

(* A batch is linked over what is there. *)
LEMMA LinkFiles ==
  ASSUME TransactionInv, TransactionInv', FilesInv, UNCHANGED <<orphans, replaces, own>>,
         NEW new \in SUBSET Pkgs, LinkPackages(new)
  PROVE  FilesInv'
<1>1. /\ batches' = Append(batches, new) /\ files' \in Linked(new) /\ cache' = cache
      /\ batches \in Seq(SUBSET Pkgs)
  BY DEF LinkPackages, TransactionInv, TransactionTypeOK
<1>2. /\ batches' \in Seq(SUBSET Pkgs) /\ Len(batches') = Len(batches) + 1
      /\ Current' = new /\ Earlier' = Earlier \cup Current
  BY <1>1, Appending
<1>3. /\ Len(batches) \in Nat /\ batches'[Len(batches) + 1] = new
      /\ \A i \in 1 .. Len(batches) : batches'[i] = batches[i]
  BY <1>1
<1>4. new \cap (Earlier \cup Current) = {}
  BY <1>2 DEF TransactionInv, Stages
<1>5. \A path \in Paths : IF Owners(path, new) = {} THEN files'[path] = files[path]
                                                    ELSE files'[path] \in Owners(path, new)
  BY <1>1 DEF Linked
<1>6. Nothing \notin new
  BY TransactionAssumption
<1>7. Apart'
  <2>1. \A i \in 1 .. Len(batches) : new \cap batches'[i] = {}
    <3> SUFFICES ASSUME NEW i \in 1 .. Len(batches), NEW x \in new, x \in batches[i] PROVE FALSE
      BY <1>3
    <3>1. x \in Earlier \cup Current
      BY <1>1, InBatch
    <3> QED BY <1>4, <3>1
  <2>2. ASSUME NEW i \in 1 .. Len(batches'), NEW j \in 1 .. Len(batches'), i # j
        PROVE  batches'[i] \cap batches'[j] = {}
    <3>1. /\ i \in 1 .. Len(batches) \/ i = Len(batches) + 1
          /\ j \in 1 .. Len(batches) \/ j = Len(batches) + 1
      BY <1>2, <1>3
    <3>2. CASE i \in 1 .. Len(batches) /\ j \in 1 .. Len(batches)
      BY <1>3, <2>2, <3>2 DEF FilesInv, Apart
    <3>3. CASE i = Len(batches) + 1
      BY <1>3, <2>1, <2>2, <3>1, <3>3
    <3>4. CASE j = Len(batches) + 1
      BY <1>3, <2>1, <2>2, <3>1, <3>4
    <3> QED BY <3>1, <3>2, <3>3, <3>4
  <2>3. \A p, q \in Olds : p # q => own'[p] \cap own'[q] = {}
    BY DEF FilesInv, Apart
  <2> QED BY <2>2, <2>3 DEF Apart
<1>8. Possessed'
  BY <1>1, <1>2, <1>5 DEF FilesInv, Possessed, Owners
<1>9. HeldByBatch'
  BY <1>2, <1>5 DEF HeldByBatch, Owners
<1>10. OldKept'
  BY <1>1, <1>5, <1>6 DEF FilesInv, OldKept, Owners
<1>11. NewKept'
  <2> SUFFICES ASSUME NEW path \in Paths, NEW p \in (Earlier \cup Current)',
                      path \in own[p], files'[path] = Nothing
               PROVE  Lost(path, p)'
    BY DEF NewKept
  <2>1. Owners(path, new) = {} /\ files[path] = Nothing
    BY <1>5, <1>6 DEF Owners
  <2>2. p \in Earlier \cup Current
    BY <1>2, <2>1 DEF Owners
  <2>3. Lost(path, p)
    BY <2>1, <2>2 DEF FilesInv, NewKept
  <2>4. PICK q \in Olds :
          /\ path \in own[q]
          /\ \/ q \in orphans /\ p \in batches[1]
             \/ \E y \in Pkgs : /\ replaces[y] = q
                                /\ \E j, k \in 1 .. Len(batches) :
                                      j < k /\ p \in batches[j] /\ y \in batches[k]
    BY <2>3 DEF Lost
  <2>5. CASE q \in orphans /\ p \in batches[1]
    <3>1. 1 \in 1 .. Len(batches)
      <4>1. PICK i \in 1 .. Len(batches) : p \in batches[i]
        BY <1>1, <2>2, InBatch
      <4> QED BY <1>3, <4>1
    <3>2. p \in batches'[1]
      BY <1>3, <2>5, <3>1
    <3> QED BY <2>4, <2>5, <3>2 DEF Lost
  <2>6. ASSUME NEW y \in Pkgs, replaces[y] = q,
               NEW j \in 1 .. Len(batches), NEW k \in 1 .. Len(batches),
               j < k, p \in batches[j], y \in batches[k]
        PROVE  Lost(path, p)'
    <3>1. /\ j \in 1 .. Len(batches') /\ k \in 1 .. Len(batches')
          /\ batches'[j] = batches[j] /\ batches'[k] = batches[k]
      BY <1>2, <1>3
    <3> QED BY <2>4, <2>6, <3>1 DEF Lost
  <2> QED BY <2>4, <2>5, <2>6
<1> QED BY <1>7, <1>8, <1>9, <1>10, <1>11 DEF FilesInv

(* Paths are unlinked and some old package leaves the cache with them.      *)
LEMMA UnlinkFiles ==
  ASSUME FilesInv, TransactionInv, UNCHANGED <<batches, orphans, replaces, own>>,
         NEW q, NEW paths, Unlink(paths), Olds \cap cache' = Olds \cap (cache \ {q}),
         \A path \in paths : q \in Olds /\ path \in own[q],
         \A path \in Paths : files[path] = q /\ q \in Olds => path \in paths,
         \A path \in paths \cap Paths, p \in Earlier \cup Current :
            path \in own[p] => Lost(path, p)
  PROVE  FilesInv'
<1>1. Earlier' = Earlier /\ Current' = Current
  BY SameBatches
<1>2. \A path \in Paths : files'[path] = IF path \in paths THEN Nothing ELSE files[path]
  BY DEF Unlink
<1>3. \A path, p : Lost(path, p)' <=> Lost(path, p)
  BY DEF Lost
<1>4. Apart'
  BY DEF FilesInv, Apart
<1>5. Possessed'
  BY <1>1, <1>2 DEF FilesInv, Possessed
<1>6. HeldByBatch'
  BY <1>1, <1>2 DEF FilesInv, HeldByBatch
<1>7. OldKept'
  <2> SUFFICES ASSUME NEW path \in Paths, NEW p \in Olds \cap cache', path \in own[p]
               PROVE  files'[path] # Nothing
    BY DEF OldKept
  <2>1. p \in cache /\ p # q /\ files[path] # Nothing
    BY DEF FilesInv, OldKept
  <2>2. path \notin paths
    BY <2>1 DEF FilesInv, Apart
  <2> QED BY <1>2, <2>1, <2>2
<1>8. NewKept'
  BY <1>1, <1>2, <1>3 DEF FilesInv, NewKept
<1> QED BY <1>4, <1>5, <1>6, <1>7, <1>8 DEF FilesInv

(* remove_package, in the first batch: what that batch has linked may go.   *)
LEMMA RemoveFiles ==
  ASSUME TransactionInv, FilesInv, RemovePackage
  PROVE  FilesInv'
<1>1. PICK q \in todo \cap Olds :
        /\ cache' = cache \ {q}
        /\ Unlink(IF q \in cache THEN own[q] ELSE {})
  BY DEF RemovePackage
<1>2. step = "operate" /\ UNCHANGED <<batches, orphans, replaces, own>>
  BY DEF RemovePackage, installed, plan
<1>3. q \in orphans /\ Nothing \notin Olds /\ Olds \cap Pkgs = {} /\ Current \subseteq Pkgs
      /\ batches # <<>> /\ batches \in Seq(SUBSET Pkgs)
  BY <1>2, Operating DEF TransactionInv, Stages, TransactionTypeOK
<1> DEFINE paths == IF q \in cache THEN own[q] ELSE {}
<1>4. \A path \in paths : q \in Olds /\ path \in own[q]
  OBVIOUS
<1>5. \A path \in Paths : files[path] = q /\ q \in Olds => path \in paths
  <2> SUFFICES ASSUME NEW path \in Paths, files[path] = q PROVE path \in own[q] /\ q \in cache
    OBVIOUS
  <2>1. path \in own[q] /\ q \in Earlier \cup Current \cup (Olds \cap cache)
    BY <1>3 DEF FilesInv, Possessed
  <2>2. \A i \in 1 .. Len(batches) : batches[i] \subseteq Pkgs
    BY <1>3
  <2>3. q \notin Earlier \cup Current
    BY <1>3, <2>2, InBatch
  <2> QED BY <2>1, <2>3
<1>6. \A path \in paths \cap Paths, p \in Earlier \cup Current : path \in own[p] => Lost(path, p)
  <2> SUFFICES ASSUME q \in cache, NEW path \in own[q], NEW p \in Earlier \cup Current
               PROVE  Lost(path, p)
    OBVIOUS
  <2>1. ~(Len(batches) > 1)
    BY <1>3 DEF TransactionInv, Leaving
  <2>2. PICK i \in 1 .. Len(batches) : p \in batches[i]
    BY <1>3, InBatch
  <2>3. Len(batches) \in Nat
    BY <1>3
  <2>4. i = 1
    BY <2>1, <2>2, <2>3
  <2> QED BY <1>3, <2>2, <2>4 DEF Lost
<1>7. Olds \cap cache' = Olds \cap (cache \ {q}) /\ Unlink(paths)
  BY <1>1
<1> HIDE DEF paths
<1> QED BY <1>2, <1>4, <1>5, <1>6, <1>7, UnlinkFiles

(* An upgrade unlinks what the old version has and the batch has not: that  *)
(* may be a path of an earlier batch.                                       *)
LEMMA ProcessFiles ==
  ASSUME TransactionInv, FilesInv, step = "operate", NEW x \in todo, todo \cap Olds = {}, Process(x)
  PROVE  FilesInv'
<1>1. /\ cache' = (cache \ {replaces[x]}) \cup {x} /\ Unlink(Outdated(x))
      /\ UNCHANGED <<batches, orphans, replaces, own>>
  BY DEF Process, installed, plan
<1>2. /\ batches # <<>> /\ Batch = Current /\ Current \subseteq Pkgs /\ batches \in Seq(SUBSET Pkgs)
      /\ Nothing \notin Olds \cup Pkgs /\ Olds \cap Pkgs = {} /\ orphans \subseteq Olds
  BY Operating DEF TransactionInv, TransactionTypeOK
<1>3. x \in Current /\ x \notin Olds
  BY <1>2 DEF TransactionInv, Stages
<1>4. replaces[x] \in Olds \cup {Nothing}
  BY <1>2, <1>3 DEF TransactionInv, TransactionTypeOK
<1>5. \A path \in Outdated(x) : /\ replaces[x] \in Olds /\ path \in own[replaces[x]]
                                /\ \A y \in Current : path \notin own[y]
  BY <1>2, <1>4 DEF Outdated
<1>6. \A path \in Paths : files[path] = replaces[x] /\ replaces[x] \in Olds => path \in Outdated(x)
  <2> SUFFICES ASSUME NEW path \in Paths, files[path] = replaces[x], replaces[x] \in Olds
               PROVE  path \in Outdated(x)
    OBVIOUS
  <2>1. path \in own[replaces[x]]
    BY <1>2 DEF FilesInv, Possessed
  <2>2. \A y \in Batch : path \notin own[y]
    BY <1>2 DEF FilesInv, HeldByBatch
  <2> QED BY <1>2, <2>1, <2>2 DEF Outdated
<1>7. \A path \in Outdated(x) \cap Paths, p \in Earlier \cup Current :
         path \in own[p] => Lost(path, p)
  <2> SUFFICES ASSUME NEW path \in Outdated(x), NEW p \in Earlier \cup Current, path \in own[p]
               PROVE  Lost(path, p)
    OBVIOUS
  <2>1. p \in Earlier /\ Len(batches) \in Nat /\ Len(batches) # 0
    BY <1>2, <1>5
  <2>2. PICK j \in 1 .. Len(batches) - 1 : p \in batches[j]
    BY <2>1 DEF Earlier
  <2>3. j \in 1 .. Len(batches) /\ Len(batches) \in 1 .. Len(batches) /\ j < Len(batches)
    BY <2>1, <2>2
  <2>4. x \in batches[Len(batches)] /\ x \in Pkgs
    BY <1>2, <1>3 DEF Batch
  <2> QED BY <1>5, <2>2, <2>3, <2>4 DEF Lost
<1>8. Olds \cap cache' = Olds \cap (cache \ {replaces[x]})
  BY <1>1, <1>3
<1> QED BY <1>1, <1>5, <1>6, <1>7, <1>8, UnlinkFiles

LEMMA NextFilesInv ==
  ASSUME TransactionInv, TransactionInv', FilesInv, [TransactionNext]_allVars
  PROVE  FilesInv'
<1>1. CASE ComputeDepths \/ SweepOrphans \/ Refuse
  <2>1. step \in {"plan", "refused"} \/ UNCHANGED orphans
    BY <1>1 DEF ComputeDepths, SweepOrphans, Refuse, installed
  <2>2. batches = <<>> \/ UNCHANGED orphans
    BY <2>1 DEF TransactionInv, Stages
  <2>3. UNCHANGED <<batches, cache, files, own, replaces>>
    BY <1>1 DEF ComputeDepths, SweepOrphans, Refuse, plan, transaction
  <2> QED BY <2>2, <2>3, FilesFrame
<1>2. CASE LinkBinary
  <2>1. LinkPackages(BaseOf(Binary)) /\ BaseOf(Binary) \in SUBSET Pkgs
        /\ UNCHANGED <<orphans, replaces, own>>
    BY <1>2 DEF LinkBinary, BaseOf, installed, plan
  <2> QED BY <2>1, LinkFiles
<1>3. CASE BuildAndLink
  <2>1. LinkPackages(ran' \ ran) /\ UNCHANGED <<orphans, replaces, own>>
    BY <1>3 DEF BuildAndLink, installed, plan
  <2>2. ran' \ ran \in SUBSET Pkgs
    BY <1>3 DEF BuildAndLink, BuildBase, BaseOf
  <2> QED BY <2>1, <2>2, LinkFiles
<1>4. CASE RemovePackage
  BY <1>4, RemoveFiles
<1>5. CASE InstallBinary \/ InstallBuilt
  <2>1. PICK x \in todo : Process(x)
    BY <1>5 DEF InstallBinary, InstallBuilt
  <2>2. step = "operate" /\ todo \cap Olds = {}
    BY <1>5 DEF InstallBinary, InstallBuilt
  <2> QED BY <2>1, <2>2, ProcessFiles
<1>6. CASE BeginTransaction \/ EndTransaction \/ BatchesDone \/ Returned \/ UNCHANGED allVars
  <2>1. UNCHANGED <<batches, cache, files, own, replaces, orphans>>
    BY <1>6 DEF BeginTransaction, EndTransaction, BatchesDone, Returned, allVars, installed,
                plan, transaction
  <2> QED BY <2>1, FilesFrame
<1> QED
  BY <1>1, <1>2, <1>3, <1>4, <1>5, <1>6 DEF TransactionNext

(* After the last batch the environment holds the files of what is recorded *)
(* and no others, whatever files packages share and in whichever batches    *)
(* they come; a new package lacks a file only when an old one that went     *)
(* after it was linked had that file too (transaction.rs:255-273,           *)
(* link.rs:403-407).                                                        *)
THEOREM FilesAreRight == TransactionSpec => []FilesMatch
<1>1. TransactionInv /\ FilesInv => FilesMatch
  <2> SUFFICES ASSUME TransactionInv, FilesInv, phase = "done", NEW path \in Paths
               PROVE  IF files[path] = Nothing
                        THEN \A p \in cache : path \in own[p] => p \in Pkgs /\ ChangedHands(path, p)
                        ELSE files[path] \in cache
    BY DEF FilesMatch
  <2>1. /\ batches \in Seq(SUBSET Pkgs) /\ DOMAIN batches = 1 .. Len(batches)
        /\ cache \subseteq All
    BY DEF TransactionInv, TransactionTypeOK
  <2>2. cache \cap Pkgs = Earlier \cup Current
    BY DEF TransactionInv, Stages, Begun
  <2>3. ASSUME NEW y, NEW i \in 1 .. Len(batches), y \in batches[i] PROVE BatchOf(y) = i
    BY <2>1, <2>3 DEF BatchOf, FilesInv, Apart
  <2>4. ASSUME NEW p \in cache, path \in own[p], files[path] = Nothing
        PROVE  p \in Pkgs /\ ChangedHands(path, p)
    <3>1. p \in Pkgs
      BY <2>1, <2>4 DEF FilesInv, OldKept, All
    <3>2. Lost(path, p)
      BY <2>2, <2>4, <3>1 DEF FilesInv, NewKept
    <3>3. PICK q \in Olds :
            /\ path \in own[q]
            /\ \/ q \in orphans /\ p \in batches[1]
               \/ \E y \in Pkgs : /\ replaces[y] = q
                                  /\ \E j, k \in 1 .. Len(batches) :
                                        j < k /\ p \in batches[j] /\ y \in batches[k]
      BY <3>2 DEF Lost
    <3>4. CASE q \in orphans /\ p \in batches[1]
      <4>1. PICK i \in 1 .. Len(batches) : p \in batches[i]
        BY <2>1, <2>2, <3>1, InBatch
      <4>2. 1 \in 1 .. Len(batches)
        BY <2>1, <4>1
      <4> QED BY <2>3, <3>1, <3>3, <3>4, <4>2 DEF ChangedHands
    <3>5. ASSUME NEW y \in Pkgs, replaces[y] = q,
                 NEW j \in 1 .. Len(batches), NEW k \in 1 .. Len(batches),
                 j < k, p \in batches[j], y \in batches[k]
          PROVE  ChangedHands(path, p)
      <4>1. BatchOf(p) = j /\ BatchOf(y) = k
        BY <2>3, <3>5
      <4> QED BY <3>3, <3>5, <4>1 DEF ChangedHands
    <3> QED BY <3>1, <3>3, <3>4, <3>5
  <2>5. files[path] # Nothing => files[path] \in cache
    BY <2>2 DEF FilesInv, Possessed
  <2> QED BY <2>4, <2>5
<1>2. TransactionInv /\ TransactionInv' /\ FilesInv /\ [TransactionNext]_allVars => FilesInv'
  BY NextFilesInv
<1> QED BY <1>1, <1>2, InitFilesInv, TransactionCorrect, PTL DEF TransactionSpec

-----------------------------------------------------------------------------
(* A command returns.                                                       *)

(* Of what is finite, in the order in which a step that takes from one may  *)
(* add to those after it.                                                   *)
PhasesLeft == CASE phase = "rounds" -> 3 [] phase = "run" -> 2 [] phase = "build" -> 1 [] OTHER -> 0
SweepLeft == CASE sweep = "filter" -> 2 [] sweep = "rounds" -> 1 [] OTHER -> 0
StepsLeft == CASE step = "plan" -> 4 [] step = "begin" -> 3 [] step = "operate" -> 2
               [] step = "ended" -> 1 [] OTHER -> 0
Left == <<PhasesLeft, Cardinality(Pkgs \ DOMAIN depth), SweepLeft,
          Cardinality(candidates \ orphans), Cardinality(Pkgs \ ran),
          StepsLeft, Cardinality(todo)>>

Counted == \A i \in 1..7 : Left[i] \in Nat
Below(s, t) == \E i \in 1..7 : s[i] < t[i] /\ \A j \in 1..(i - 1) : s[j] = t[j]

(* The guards of the actions.                                               *)
ReadyToPlan ==
  \/ /\ phase = "rounds"
     /\ \/ Leaves # {} \/ DOMAIN remaining = {}
        \/ \E y \in DOMAIN remaining : \A z \in DOMAIN remaining : Weight(y) =< Weight(z)
  \/ /\ phase = "run" /\ step = "plan"
     /\ sweep \in {"filter", "rounds"} \/ Conflict \/ Linked(BaseOf(Binary)) # {}
ReadyToOperate ==
  \/ todo \cap Olds # {}
  \/ /\ phase = "run"
     /\ \E x \in todo \cap (BaseOf(Binary) \ ran) :
          \A z \in BaseOf(Binary) \ ran : depth[x] >= depth[z]
  \/ phase = "build" /\ \E x \in todo : \A z \in todo : depth[x] >= depth[z]
  \/ todo = {}
ReadyToGoOn ==
  \/ phase = "run" /\ BaseOf(Binary) \subseteq ran
  \/ /\ phase = "build"
     /\ \/ \E b \in ToBuild : /\ \A c \in ToBuild : SortsBefore(b, c)
                              /\ Linked(BaseOf(b)) # {}
        \/ ToBuild = {}
Ready == \/ phase = "done" \/ step = "refused"
         \/ ReadyToPlan
         \/ step = "begin"
         \/ step = "operate" /\ ReadyToOperate
         \/ step = "ended" /\ ReadyToGoOn

(* Something is lost where a set gets smaller. *)
LEMMA Losing ==
  ASSUME NEW S, IsFiniteSet(S), NEW T \in SUBSET S
  PROVE  /\ Cardinality(S) \in Nat /\ Cardinality(T) \in Nat
         /\ T # S => Cardinality(T) < Cardinality(S)
<1>1. IsFiniteSet(T) /\ Cardinality(T) =< Cardinality(S) /\ (Cardinality(S) = Cardinality(T) => S = T)
  BY FS_Subset
<1>2. Cardinality(S) \in Nat /\ Cardinality(T) \in Nat
  BY <1>1, FS_CardinalityType
<1> QED BY <1>1, <1>2

(* Of members with a number one has the least. *)
LEMMA LeastMember ==
  ASSUME NEW S, S # {}, NEW f \in [S -> Nat]
  PROVE  \E x \in S : \A y \in S : f[x] =< f[y]
<1> DEFINE T == {f[x] : x \in S}
<1>1. T \subseteq Nat /\ T # {}
  OBVIOUS
<1>2. PICK m \in T : \A n \in T : ~(<<n, m>> \in OpToRel(<, Nat))
  BY <1>1, NatLessThanWellFounded, WFMin
<1>3. ASSUME NEW n \in T PROVE m =< n
  <2>1. m \in Nat /\ n \in Nat /\ <<n, m>> \in Nat \X Nat
    BY <1>1
  <2>2. n < m => <<n, m>> \in OpToRel(<, Nat)
    BY <2>1 DEF OpToRel
  <2>3. ~(n < m)
    BY <1>2, <2>2
  <2> QED BY <2>1, <2>3
<1> QED BY <1>3

(* And, as depths are below the next one, one has the greatest. *)
LEMMA DeepestMember ==
  ASSUME DepthInv, NEW S \in SUBSET DOMAIN depth, S # {}
  PROVE  \E x \in S : \A y \in S : depth[x] >= depth[y]
<1> DEFINE f == [x \in S |-> current - depth[x]]
<1>1. \A x \in S : depth[x] \in Nat /\ depth[x] < current /\ current \in Nat
  BY DEF DepthInv, TypeOK, DepthsBelow
<1>2. f \in [S -> Nat] /\ \A x \in S : f[x] = current - depth[x]
  BY <1>1
<1> HIDE DEF f
<1>3. PICK x \in S : \A y \in S : f[x] =< f[y]
  BY <1>2, LeastMember
<1>4. \A y \in S : depth[x] >= depth[y]
  BY <1>1, <1>2, <1>3
<1> QED BY <1>4

(* Some files come out of linking. *)
LEMMA SomeLinked ==
  ASSUME TransactionTypeOK, NEW new \in SUBSET Pkgs
  PROVE  Linked(new) # {}
<1> DEFINE f == [path \in Paths |-> IF Owners(path, new) = {} THEN files[path]
                                    ELSE CHOOSE x \in Owners(path, new) : TRUE]
<1>1. \A path \in Paths : /\ Owners(path, new) # {} => f[path] \in Owners(path, new)
                          /\ Owners(path, new) = {} => f[path] = files[path]
  OBVIOUS
<1>2. \A path \in Paths : Owners(path, new) \subseteq All /\ files[path] \in All \cup {Nothing}
  BY DEF Owners, All, TransactionTypeOK
<1>3. f \in [Paths -> All \cup {Nothing}]
  BY <1>1, <1>2
<1>4. f \in Linked(new)
  BY <1>1, <1>3 DEF Linked
<1> QED BY <1>4

(* A base that can be sorted first. *)
LEMMA FirstBase ==
  ASSUME DepthInv, DOMAIN depth = Pkgs, ToBuild # {}
  PROVE  \E b \in ToBuild : \A c \in ToBuild : SortsBefore(b, c)
<1> DEFINE Least(b, d) == \E x \in BaseOf(b) : depth[x] = d /\ \A z \in BaseOf(b) : d =< depth[z]
           m == [b \in ToBuild |-> CHOOSE d \in Nat : Least(b, d)]
<1>1. \A x \in Pkgs : depth[x] \in Nat
  BY DEF DepthInv, TypeOK
<1>2. ASSUME NEW b \in ToBuild PROVE \E d \in Nat : Least(b, d)
  <2> DEFINE f == [x \in BaseOf(b) |-> depth[x]]
  <2>1. BaseOf(b) # {} /\ BaseOf(b) \subseteq Pkgs
    BY DEF ToBuild, BaseOf
  <2>2. f \in [BaseOf(b) -> Nat] /\ \A x \in BaseOf(b) : f[x] = depth[x]
    BY <1>1, <2>1
  <2> HIDE DEF f
  <2>3. PICK x \in BaseOf(b) : \A z \in BaseOf(b) : f[x] =< f[z]
    BY <2>1, <2>2, LeastMember
  <2>4. depth[x] \in Nat /\ Least(b, depth[x])
    BY <1>1, <2>1, <2>2, <2>3
  <2> QED BY <2>4
<1>3. m \in [ToBuild -> Nat] /\ \A b \in ToBuild : Least(b, m[b])
  <2>1. \A b \in ToBuild : m[b] \in Nat /\ Least(b, m[b])
    <3> TAKE b \in ToBuild
    <3>1. m[b] = CHOOSE d \in Nat : Least(b, d)
      OBVIOUS
    <3> HIDE DEF m, Least
    <3> QED BY <1>2, <3>1
  <2> HIDE DEF Least
  <2> QED BY <2>1
<1> HIDE DEF m
<1>4. PICK b \in ToBuild : \A c \in ToBuild : m[b] =< m[c]
  BY <1>3, LeastMember
<1>5. ASSUME NEW c \in ToBuild PROVE SortsBefore(b, c)
  <2>1. PICK x \in BaseOf(b) : depth[x] = m[b]
    BY <1>3
  <2>2. \A z \in BaseOf(c) : m[c] =< depth[z] /\ z \in Pkgs
    BY <1>3 DEF BaseOf
  <2>3. m[b] =< m[c] /\ m[b] \in Nat /\ m[c] \in Nat
    BY <1>3, <1>4
  <2>4. \A z \in BaseOf(c) : depth[x] =< depth[z]
    BY <1>1, <2>1, <2>2, <2>3
  <2> QED BY <2>4 DEF SortsBefore
<1> QED BY <1>5

(* As long as packages are left, there are leaves or a package to break a   *)
(* cycle with. *)
LEMMA LightestMember ==
  ASSUME DepthInv, DOMAIN remaining # {}
  PROVE  \E y \in DOMAIN remaining : \A z \in DOMAIN remaining : Weight(y) =< Weight(z)
<1> DEFINE f == [y \in DOMAIN remaining |-> Weight(y)]
<1>1. ASSUME NEW y \in DOMAIN remaining PROVE Weight(y) \in Nat
  <2>1. remaining[y] \in SUBSET Pkgs /\ IsFiniteSet(Pkgs)
    BY DepthAssumption DEF DepthInv, TypeOK
  <2>2. /\ Cardinality(remaining[y] \cap Libs) \in Nat
        /\ Cardinality(remaining[y] \ Libs) \in Nat
    BY <2>1, Losing
  <2>3. \A n \in Nat : n \div 2 \in Nat
    OBVIOUS
  <2> DEFINE sum == 10 * Cardinality(remaining[y] \cap Libs) + Cardinality(remaining[y] \ Libs)
  <2>4. sum \in Nat /\ 2 * sum \in Nat
    BY <2>2
  <2> HIDE DEF sum
  <2>5. Weight(y) \in {sum, 2 * sum, sum \div 2, (2 * sum) \div 2}
    BY DEF Weight, sum
  <2> QED BY <2>3, <2>4, <2>5
<1>2. f \in [DOMAIN remaining -> Nat] /\ \A y \in DOMAIN remaining : f[y] = Weight(y)
  BY <1>1
<1> HIDE DEF f
<1> QED BY <1>2, LeastMember

(* Whatever graph, sweep, batches and files a command meets, it is never    *)
(* stuck before it has returned: there is a package to break a cycle with   *)
(* (depends.rs:1181, "avoids deadlocks"), the package that is next in       *)
(* ordered_operations is one of the batch (transaction.rs:11-12), and bases *)
(* can be sorted (aur.rs).                                                  *)
THEOREM NeverStuck == TransactionSpec => []Ready
<1>1. ASSUME DepthInv, SweepInv, TransactionInv PROVE Ready
  <2>1. /\ step \in {"plan", "begin", "operate", "ended", "refused"}
        /\ phase \in {"rounds", "run", "build", "done"}
        /\ sweep \in {"filter", "rounds", "done"}
        /\ todo \subseteq All /\ ran \subseteq Pkgs
        /\ TransactionTypeOK
    BY <1>1 DEF TransactionInv, TransactionTypeOK, DepthInv, TypeOK, SweepInv, Sweep!TypeOK
  <2>2. Stages
    BY <1>1 DEF TransactionInv
  <2>3. phase # "rounds" => DOMAIN depth = Pkgs
    BY <1>1 DEF DepthInv, Staged
  <2>4. CASE step = "plan"
    <3>1. CASE phase = "rounds"
      BY <1>1, <3>1, LightestMember DEF Ready, ReadyToPlan
    <3>2. CASE phase = "run"
      <4>1. Linked(BaseOf(Binary)) # {}
        BY <2>1, SomeLinked DEF BaseOf
      <4> QED BY <2>1, <2>4, <3>2, <4>1 DEF Ready, ReadyToPlan
    <3> QED BY <2>2, <2>4, <3>1, <3>2 DEF Stages
  <2>5. CASE step = "operate" /\ todo # {} /\ todo \cap Olds = {} /\ phase # "done"
    <3>1. todo \subseteq Pkgs /\ phase \in {"run", "build"}
      BY <2>1, <2>2, <2>5 DEF All, Stages
    <3>2. CASE phase = "build"
      <4>1. \E x \in todo : \A z \in todo : depth[x] >= depth[z]
        BY <1>1, <2>3, <2>5, <3>1, <3>2, DeepestMember
      <4> QED BY <2>5, <3>2, <4>1 DEF Ready, ReadyToOperate
    <3>3. CASE phase = "run"
      <4>1. batches # <<>> /\ Len(batches) = 1 /\ Current = BaseOf(Binary) /\ ran = cache \cap Pkgs
        BY <2>2, <2>5, <3>3 DEF Stages
      <4>2. Earlier = {}
        <5>1. 1..(Len(batches) - 1) = {}
          BY <4>1
        <5> QED BY <5>1 DEF Earlier
      <4>3. ran = BaseOf(Binary) \ todo
        BY <2>2, <2>5, <4>1, <4>2 DEF Stages, Begun
      <4>4. todo \subseteq BaseOf(Binary) \cup orphans
        BY <2>2, <4>1 DEF Stages
      <4>5. orphans \subseteq Olds
        BY <1>1 DEF SweepInv, Sweep!TypeOK
      <4>6. todo = BaseOf(Binary) \ ran
        BY <2>5, <4>3, <4>4, <4>5
      <4>7. \E x \in todo : \A z \in todo : depth[x] >= depth[z]
        BY <1>1, <2>3, <2>5, <3>1, <3>3, DeepestMember
      <4> QED BY <2>5, <3>3, <4>6, <4>7 DEF Ready, ReadyToOperate
    <3> QED BY <3>1, <3>2, <3>3
  <2>6. CASE step = "ended" /\ phase # "done"
    <3>1. phase \in {"run", "build"} /\ todo = {}
      BY <2>1, <2>2, <2>6 DEF Stages
    <3>2. CASE phase = "run"
      <4>1. batches # <<>> /\ Len(batches) = 1 /\ Current = BaseOf(Binary) /\ ran = cache \cap Pkgs
        BY <2>2, <2>6, <3>2 DEF Stages
      <4>2. BaseOf(Binary) \subseteq ran
        BY <2>2, <2>6, <3>1, <4>1 DEF Stages, Begun
      <4> QED BY <2>6, <3>2, <4>2 DEF Ready, ReadyToGoOn
    <3>3. CASE phase = "build" /\ ToBuild # {}
      <4>1. PICK b \in ToBuild : \A c \in ToBuild : SortsBefore(b, c)
        BY <1>1, <2>3, <3>3, FirstBase
      <4>2. Linked(BaseOf(b)) # {}
        BY <2>1, SomeLinked DEF BaseOf
      <4> QED BY <2>6, <3>3, <4>1, <4>2 DEF Ready, ReadyToGoOn
    <3>4. CASE phase = "build" /\ ToBuild = {}
      BY <2>6, <3>4 DEF Ready, ReadyToGoOn
    <3> QED BY <3>1, <3>2, <3>3, <3>4
  <2> QED BY <2>1, <2>4, <2>5, <2>6 DEF Ready, ReadyToOperate
<1> QED BY <1>1, PartsCorrect, TransactionCorrect, PTL

LEMMA BelowAt ==
  ASSUME NEW s, NEW t, NEW i \in 1..7, s[i] < t[i], \A j \in 1..(i - 1) : s[j] = t[j]
  PROVE  Below(s, t)
BY DEF Below

LEMMA PhasesGoOn ==
  ASSUME phase \in {"rounds", "run", "build", "done"},
         <<phase, phase'>> \in {<<"rounds", "run">>, <<"run", "build">>, <<"build", "done">>}
  PROVE  Below(Left', Left)
<1>1. PhasesLeft' < PhasesLeft
  BY DEF PhasesLeft
<1>2. Left'[1] = PhasesLeft' /\ Left[1] = PhasesLeft /\ 1..0 = {}
  BY DEF Left
<1> HIDE DEF PhasesLeft
<1> QED BY <1>1, <1>2, BelowAt

(* Every step of a command uses up something: a phase, a package without a  *)
(* depth, a stage of the sweep, a candidate, a package to be run, a step of *)
(* the batch, an operation to look at. With NeverStuck, it returns          *)
(* (depends.rs:1181; the loop of plan.rs:646-706).                          *)
THEOREM SessionEnds ==
  ASSUME IsFiniteSet(Olds)
  PROVE  TransactionSpec => []Counted /\ [][Below(Left', Left)]_allVars
<1>1. ASSUME DepthInv, SweepInv, TransactionInv,
             (DepthInv /\ SweepInv /\ TransactionInv)', TransactionNext, allVars' # allVars
      PROVE  Below(Left', Left)
  <2>t. /\ phase \in {"rounds", "run", "build", "done"}
        /\ DOMAIN depth \subseteq Pkgs /\ ran \subseteq Pkgs
        /\ candidates \subseteq Olds /\ orphans \subseteq candidates
        /\ remaining \in [Pkgs \ DOMAIN depth -> SUBSET Pkgs]
        /\ possible \in [candidates \ orphans -> SUBSET Olds]
        /\ todo \subseteq All
        /\ DOMAIN depth' \subseteq Pkgs /\ ran' \subseteq Pkgs /\ todo' \subseteq All
    BY <1>1 DEF DepthInv, TypeOK, SweepInv, Sweep!TypeOK, TransactionInv, TransactionTypeOK
  <2>f. /\ IsFiniteSet(Pkgs \ DOMAIN depth) /\ IsFiniteSet(candidates \ orphans)
        /\ IsFiniteSet(Pkgs \ ran) /\ IsFiniteSet(todo)
    <3>1. IsFiniteSet(Pkgs) /\ IsFiniteSet(Pkgs \cup Olds)
      BY DepthAssumption, FS_Union
    <3>2. /\ Pkgs \ DOMAIN depth \in SUBSET Pkgs /\ candidates \ orphans \in SUBSET Olds
          /\ Pkgs \ ran \in SUBSET Pkgs /\ todo \in SUBSET (Pkgs \cup Olds)
      BY <2>t DEF All
    <3> QED BY <3>1, <3>2, FS_Subset
  <2>l. /\ Left[1] = PhasesLeft /\ Left[2] = Cardinality(Pkgs \ DOMAIN depth)
        /\ Left[3] = SweepLeft /\ Left[4] = Cardinality(candidates \ orphans)
        /\ Left[5] = Cardinality(Pkgs \ ran) /\ Left[6] = StepsLeft /\ Left[7] = Cardinality(todo)
        /\ Left'[1] = PhasesLeft' /\ Left'[2] = Cardinality(Pkgs \ DOMAIN depth')
        /\ Left'[3] = SweepLeft' /\ Left'[4] = Cardinality(candidates' \ orphans')
        /\ Left'[5] = Cardinality(Pkgs \ ran') /\ Left'[6] = StepsLeft'
        /\ Left'[7] = Cardinality(todo')
    BY DEF Left
  <2>s. /\ phase' = phase => PhasesLeft' = PhasesLeft
        /\ sweep' = sweep => SweepLeft' = SweepLeft
        /\ step' = step => StepsLeft' = StepsLeft
    BY DEF PhasesLeft, SweepLeft, StepsLeft
  <2>j. /\ 1..(2 - 1) = {1} /\ 1..(3 - 1) = {1, 2} /\ 1..(4 - 1) = {1, 2, 3}
        /\ 1..(5 - 1) = {1, 2, 3, 4} /\ 1..(6 - 1) = {1, 2, 3, 4, 5}
        /\ 1..(7 - 1) = {1, 2, 3, 4, 5, 6}
    OBVIOUS
  <2>1. CASE Peel \/ BreakCycle
    <3>1. PICK nodes \in SUBSET DOMAIN remaining : nodes # {} /\ Take(nodes) /\ phase' = phase
      <4>1. CASE Peel
        BY <4>1 DEF Peel, Leaves
      <4>2. CASE BreakCycle
        <5>1. PICK y \in DOMAIN remaining : Take({y})
          BY <4>2 DEF BreakCycle
        <5> QED BY <4>2, <5>1 DEF BreakCycle
      <4> QED BY <2>1, <4>1, <4>2
    <3>2. DOMAIN depth' = DOMAIN depth \cup nodes /\ nodes \subseteq Pkgs \ DOMAIN depth
      BY <2>t, <3>1 DEF Take
    <3>3. Pkgs \ DOMAIN depth' \in SUBSET (Pkgs \ DOMAIN depth) /\ Pkgs \ DOMAIN depth' # Pkgs \ DOMAIN depth
      BY <3>1, <3>2
    <3>4. Cardinality(Pkgs \ DOMAIN depth') < Cardinality(Pkgs \ DOMAIN depth)
      BY <2>f, <3>3, Losing
    <3>5. PhasesLeft' = PhasesLeft
      BY <2>s, <3>1
    <3> HIDE DEF Left, PhasesLeft
    <3> QED BY <2>l, <2>j, <3>4, <3>5, BelowAt
  <2>2. CASE RoundsDone \/ RunDone \/ BuildDone
    BY <2>t, <2>2, PhasesGoOn DEF RoundsDone, RunDone, BuildDone
  <2>3. CASE Sweep!Filter /\ UNCHANGED <<vars, plan, transaction>>
    <3>1. UNCHANGED <<phase, depth>> /\ sweep = "filter" /\ sweep' = "rounds"
      BY <2>3 DEF Sweep!Filter, vars
    <3>2. SweepLeft' < SweepLeft
      BY <3>1 DEF SweepLeft
    <3>3. PhasesLeft' = PhasesLeft
      BY <2>s, <3>1
    <3> QED BY <2>l, <2>j, <3>1, <3>2, <3>3, BelowAt
  <2>4. CASE Sweep!Finish /\ UNCHANGED <<vars, plan, transaction>>
    <3>1. UNCHANGED <<phase, depth>> /\ sweep = "rounds" /\ sweep' = "done"
      BY <2>4 DEF Sweep!Finish, vars
    <3>2. SweepLeft' < SweepLeft
      BY <3>1 DEF SweepLeft
    <3>3. PhasesLeft' = PhasesLeft
      BY <2>s, <3>1
    <3> QED BY <2>l, <2>j, <3>1, <3>2, <3>3, BelowAt
  <2>5. CASE Sweep!Round /\ UNCHANGED <<vars, plan, transaction>>
    <3>1. /\ UNCHANGED <<phase, depth, sweep, candidates>>
          /\ Sweep!Free # {} /\ orphans' = orphans \cup Sweep!Free
      BY <2>5 DEF Sweep!Round, Sweep!graph, vars
    <3>2. Sweep!Free \subseteq candidates \ orphans
      BY <2>t DEF Sweep!Free
    <3>3. /\ candidates' \ orphans' \in SUBSET (candidates \ orphans)
          /\ candidates' \ orphans' # candidates \ orphans
      BY <3>1, <3>2
    <3>4. Cardinality(candidates' \ orphans') < Cardinality(candidates \ orphans)
      BY <2>f, <3>3, Losing
    <3>5. PhasesLeft' = PhasesLeft /\ SweepLeft' = SweepLeft
      BY <2>s, <3>1
    <3> QED BY <2>l, <2>j, <3>1, <3>4, <3>5, BelowAt
  <2>6. CASE Refuse \/ LinkBinary \/ BeginTransaction \/ EndTransaction
    <3>1. UNCHANGED <<phase, depth, ran, sweep, candidates, orphans>>
      BY <2>6 DEF Refuse, LinkBinary, BeginTransaction, EndTransaction, vars, installed
    <3>2. <<step, step'>> \in {<<"plan", "refused">>, <<"plan", "begin">>,
                               <<"begin", "operate">>, <<"operate", "ended">>}
      BY <2>6 DEF Refuse, LinkBinary, LinkPackages, BeginTransaction, EndTransaction
    <3>3. StepsLeft' < StepsLeft
      BY <3>2 DEF StepsLeft
    <3>4. PhasesLeft' = PhasesLeft /\ SweepLeft' = SweepLeft
      BY <2>s, <3>1
    <3> QED BY <2>l, <2>j, <3>1, <3>3, <3>4, BelowAt
  <2>7. CASE RemovePackage \/ InstallBuilt
    <3>1. UNCHANGED <<phase, depth, ran, sweep, candidates, orphans, step>>
      BY <2>7 DEF RemovePackage, InstallBuilt, Process, vars, installed
    <3>2. PICK x \in todo : todo' = todo \ {x}
      BY <2>7 DEF RemovePackage, InstallBuilt, Process
    <3>3. todo' \in SUBSET todo /\ todo' # todo
      BY <3>2
    <3>4. Cardinality(todo') < Cardinality(todo)
      BY <2>f, <3>3, Losing
    <3>5. PhasesLeft' = PhasesLeft /\ SweepLeft' = SweepLeft /\ StepsLeft' = StepsLeft
      BY <2>s, <3>1
    <3> QED BY <2>l, <2>j, <3>1, <3>4, <3>5, BelowAt
  <2>8. CASE InstallBinary \/ BuildAndLink
    <3>1. UNCHANGED <<phase, depth, sweep, candidates, orphans>>
      BY <2>8 DEF InstallBinary, RunOperation, Process, BuildAndLink, BuildBase, installed
    <3>2. \E x \in Pkgs \ ran : x \in ran' /\ ran \subseteq ran'
      <4>1. CASE InstallBinary
        BY <4>1 DEF InstallBinary, RunOperation, BaseOf
      <4>2. CASE BuildAndLink
        <5>1. PICK b \in ToBuild : ran' = ran \cup BaseOf(b)
          BY <4>2 DEF BuildAndLink, BuildBase
        <5> QED BY <5>1 DEF ToBuild, BaseOf
      <4> QED BY <2>8, <4>1, <4>2
    <3>3. Pkgs \ ran' \in SUBSET (Pkgs \ ran) /\ Pkgs \ ran' # Pkgs \ ran
      BY <3>2
    <3>4. Cardinality(Pkgs \ ran') < Cardinality(Pkgs \ ran)
      BY <2>f, <3>3, Losing
    <3>5. PhasesLeft' = PhasesLeft /\ SweepLeft' = SweepLeft
      BY <2>s, <3>1
    <3> QED BY <2>l, <2>j, <3>1, <3>4, <3>5, BelowAt
  <2>9. CASE Returned
    BY <1>1, <2>9 DEF Returned
  <2> QED BY <1>1, <2>1, <2>2, <2>3, <2>4, <2>5, <2>6, <2>7, <2>8, <2>9
        DEF TransactionNext, ComputeDepths, SweepOrphans, BatchesDone
<1>2. DepthInv /\ SweepInv /\ TransactionInv => Counted
  <2> SUFFICES ASSUME DepthInv, SweepInv, TransactionInv PROVE Counted
    OBVIOUS
  <2>1. /\ Pkgs \ DOMAIN depth \in SUBSET Pkgs /\ candidates \ orphans \in SUBSET Olds
        /\ Pkgs \ ran \in SUBSET Pkgs /\ todo \in SUBSET (Pkgs \cup Olds)
    BY DEF DepthInv, TypeOK, SweepInv, Sweep!TypeOK, TransactionInv, TransactionTypeOK, All
  <2>2. IsFiniteSet(Pkgs) /\ IsFiniteSet(Pkgs \cup Olds)
    BY DepthAssumption, FS_Union
  <2>3. /\ Cardinality(Pkgs \ DOMAIN depth) \in Nat /\ Cardinality(candidates \ orphans) \in Nat
        /\ Cardinality(Pkgs \ ran) \in Nat /\ Cardinality(todo) \in Nat
    BY <2>1, <2>2, Losing
  <2>4. PhasesLeft \in Nat /\ SweepLeft \in Nat /\ StepsLeft \in Nat
    BY DEF PhasesLeft, SweepLeft, StepsLeft
  <2> QED BY <2>3, <2>4 DEF Counted, Left
<1>3. /\ DepthInv /\ SweepInv /\ TransactionInv /\ (DepthInv /\ SweepInv /\ TransactionInv)'
      /\ [TransactionNext]_allVars
      => [Below(Left', Left)]_allVars
  BY <1>1
<1> QED BY <1>2, <1>3, PartsCorrect, TransactionCorrect, PTL DEF TransactionSpec
=============================================================================
