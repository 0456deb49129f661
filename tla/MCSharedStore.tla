---------------------------- MODULE MCSharedStore ----------------------------
(* Environments named by their link types, and the sets of them the runs use. *)
EXTENDS SharedStore

LinkByName == [e \in Envs |-> CASE e \in {"move", "move2"} -> "move"
                                [] OTHER -> e]

AllCommands == [e \in Envs |-> {"install", "file", "remove", "restore"}]
NoRestore == [e \in Envs |-> {"install", "file", "remove"}]
InstallOnly == [e \in Envs |-> {"install"}]

(* Only the environment that is looked at, and one other, do everything. *)
FewCommands == [e \in Envs |-> CASE e = "reflink" -> {"install", "file", "remove", "restore"}
                                  [] e = "move" -> {"install", "remove", "restore"}
                                  [] e = "move2" -> {"install", "restore"}
                                  [] OTHER -> {"install"}]

AllSteps == Steps
AllButPlace == Steps \ {"place"}
NoSteps == {}
=============================================================================
