--------------------------- MODULE MCRemovalPlan ---------------------------
(***************************************************************************)
(* Instances of RemovalPlan for TLC.                                        *)
(***************************************************************************)
EXTENDS RemovalPlan, TLC

(* Installed packages are interchangeable, and so are ghosts. *)
MCSymmetry == Permutations(Pkgs) \cup Permutations(Ghosts)
=============================================================================
