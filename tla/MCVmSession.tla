----------------------------- MODULE MCVmSession -----------------------------
(* A start and two commands in one environment, one of them another start   *)
(* at most, or with one command after a start in another environment in     *)
(* between: what a VM can do to those of other environments it does when it *)
(* is started.                                                              *)
EXTENDS VmSession

Start(e) == [kind |-> "start", env |-> e]
MCPlans == {plan \in [Clients -> [kind : Kinds, env : {"a"}] \cup {Start("b")}] :
              /\ plan[1] = Start("a")
              /\ \E c \in Clients : plan[c] # Start("a")
              /\ \A c \in Clients : plan[c] = Start("b") => c = 2}
=============================================================================
