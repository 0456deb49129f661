--------------------------- MODULE MCGenerations ---------------------------
(***************************************************************************)
(* Instances of Generations for TLC.                                        *)
(***************************************************************************)
EXTENDS Generations, TLC

(* Death everywhere except in the window between removing the link and      *)
(* making it again.                                                         *)
MCDieOutsideSwap == Steps \ {"relink"}

(* The packages are interchangeable. *)
MCSymmetry == Permutations(Pkgs)
=============================================================================
