------------------------ MODULE MCPackageTransaction ------------------------
(***************************************************************************)
(* Instances of PackageTransaction for TLC.  The three parts of a command   *)
(* are each given everything three packages allow while the others are kept *)
(* simple: all graphs of the session, all graphs of what is installed, and  *)
(* all files, upgrades, batches and formats.                                *)
(***************************************************************************)
EXTENDS PackageTransaction

MCPkgs == {"liba", "b", "c"}
MCLibs == {"liba"}
MCRequested == {"b"}
MCOlds == {"o", "p", "q"}
MCPaths == {"path"}
MCGhosts == {"gone"}

NoEdges(s) == [x \in s |-> {}]
NoFiles == [x \in MCPkgs \cup MCOlds |-> {}]
NoUpgrades == [x \in MCPkgs |-> Nothing]
Chain == [x \in MCPkgs |-> CASE x = "b" -> {"liba"} [] x = "liba" -> {"c"} [] OTHER -> {}]
Graphs(s) == {g \in [s -> SUBSET s] : \A x \in s : x \notin g[x]}

Sessions ==
  /\ needs = NoEdges(MCOlds) /\ neededBy = NoEdges(MCOlds) /\ candidates = {}
  /\ replaces = NoUpgrades /\ own = NoFiles /\ format = "pacman"
  /\ depends \in [MCPkgs -> SUBSET MCPkgs]
  /\ base \in [MCPkgs -> Bases \cup {Binary}]

Sweeps ==
  /\ depends = Chain /\ base = [x \in MCPkgs |-> Binary]
  /\ needs \in Graphs(MCOlds) /\ neededBy \in {[g EXCEPT !["o"] = @ \cup gone] : g \in Graphs(MCOlds), gone \in SUBSET MCGhosts}
  /\ replaces \in {[NoUpgrades EXCEPT !["b"] = old] : old \in {Nothing, "o"}}
  /\ candidates \in SUBSET MCOlds
  /\ own = NoFiles /\ format = "deb"

(* Two packages installed before, one of which may have the file. *)
Transactions ==
  /\ depends = Chain
  /\ base \in [MCPkgs -> Bases \cup {Binary}]
  /\ needs = NoEdges(MCOlds) /\ neededBy = NoEdges(MCOlds)
  /\ candidates \in SUBSET {"o", "p"}
  /\ own \in {[x \in MCPkgs \cup MCOlds |-> IF x \in s THEN MCPaths ELSE {}] :
                s \in SUBSET (MCPkgs \cup {"o"})}
  /\ replaces \in [MCPkgs -> {"o", "p", Nothing}]
  /\ format \in {"rpm", "deb", "pacman"}

MCInit == (Sessions \/ Sweeps \/ Transactions) /\ TransactionInit
MCSpec == MCInit /\ [][TransactionNext]_allVars /\ WF_allVars(TransactionNext)
=============================================================================
