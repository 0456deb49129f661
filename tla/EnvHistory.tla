----------------------------- MODULE EnvHistory -----------------------------
(***************************************************************************)
(* What an environment's generation history promises to the user of         *)
(* `epkg history` and `epkg restore` (the doc comments of history.rs,       *)
(* lines 31-36 and 180-188): generation 0 is the empty environment, every   *)
(* install, upgrade, remove or restore adds exactly one generation, numbered *)
(* one more than the last, and what an older generation recorded never      *)
(* changes.  Module Generations is the implementation: directories, JSON    *)
(* files written one by one, and a symbolic link switched last.             *)
(***************************************************************************)
EXTENDS Naturals

CONSTANTS Pkgs,      \* package keys
          MaxGen     \* bound on generation numbers

VARIABLE history     \* history[g]: the packages generation g records

Last == CHOOSE n \in 0..MaxGen : DOMAIN history = 0..n

TypeOK == \E n \in 0..MaxGen : history \in [0..n -> SUBSET Pkgs]

Init == history = [g \in {0} |-> {}]

(* One command completes: its result becomes the next generation. *)
Commit == /\ Last < MaxGen
          /\ \E content \in SUBSET Pkgs :
                history' = [g \in 0..(Last + 1) |->
                              IF g \in DOMAIN history THEN history[g] ELSE content]

Next == Commit

Spec == Init /\ [][Next]_history
=============================================================================
