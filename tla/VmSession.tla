------------------------------ MODULE VmSession ------------------------------
(***************************************************************************)
(* The virtual machines of environments (vm/session.rs, start.rs, stop.rs,  *)
(* libkrun/core.rs).  `epkg vm start` forks a keeper, which boots a VM,     *)
(* writes the session file that names it, and removes the file when the VM  *)
(* has ended.  Every other command finds the VM by that file and talks to   *)
(* its guest daemon through a socket: `epkg vm stop`, and install, upgrade, *)
(* remove and restore, which are sent to the guest.                         *)
(*                                                                          *)
(* The backend is libkrun, whose VM is a thread of the keeper; QEMU, the    *)
(* VMs of `epkg run`, Windows and the transport of input and output are     *)
(* left out.                                                                *)
(***************************************************************************)
EXTENDS Naturals, Sequences, Functions

CONSTANTS Envs,      \* environments
          Commands,  \* bound on the number of commands
          Plans,     \* the kinds and environments they may have
          MaxCrashes \* bound on keepers killed from outside

Clients == 1..Commands
Kinds == {"start", "stop", "install"}

ASSUME VmSessionAssumption ==
  /\ Commands \in Nat /\ MaxCrashes \in Nat
  /\ Plans \subseteq [Clients -> [kind : Kinds, env : Envs]]

Nobody == 0
Keepers == Clients \cup {Nobody}

VARIABLES pc,       \* of each command
          kind,     \* "start", "stop", "install"
          env,      \* its environment
          drops,    \* what it has decided to delete, and of which environments
          info,     \* the keeper it has read of
          keeper,   \* process forked by each start
          vm,       \* its VM and the guest daemon in it
          waiting,  \* connections the guest has not finished with
          asked,    \* keepers that told their VM to end
          opened,   \* the file each keeper has open for writing
          file,     \* session files
          sock,     \* vsock-<env>.sock: the VM that made it
          crashes,  \* history variables: keepers killed from outside, and
          disturbed \* environments about which the code promises nothing more

clients == <<pc, kind, env, drops, info>>
machines == <<keeper, vm, waiting, asked, opened>>
vars == <<clients, machines, file, sock, crashes, disturbed>>

(* A session file is the file some keeper created; what it names is Nobody  *)
(* between the creation and the writing.                                    *)
NoFile == [by |-> Nobody, names |-> Nobody]
Nothing == [parts |-> {}, of |-> {}]

TypeOK ==
  /\ pc \in [Clients -> {"none", "clean", "look", "poll", "connect", "send", "reply",
                         "term", "wait", "remove", "done"}]
  /\ kind \in [Clients -> Kinds]
  /\ env \in [Clients -> Envs]
  /\ drops \in [Clients -> [parts : SUBSET {"file", "socket"}, of : SUBSET Envs]]
  /\ info \in [Clients -> Keepers]
  /\ keeper \in [Clients -> {"none", "setup", "boot", "open", "write", "wait", "deaf", "armed",
                             "ending", "leaving", "gone"}]
  /\ vm \in [Clients -> {"off", "booting", "listening", "idle", "busy"}]
  /\ waiting \in [Clients -> Seq(Clients)]
  /\ asked \subseteq Clients
  /\ opened \in [Clients -> Keepers]
  /\ file \in [Envs -> [by : Keepers, names : Keepers]]
  /\ sock \in [Envs -> Keepers]
  /\ crashes \in 0..MaxCrashes
  /\ disturbed \subseteq Envs

Init ==
  /\ pc = [c \in Clients |-> "none"]
  /\ \E plan \in Plans : /\ kind = [c \in Clients |-> plan[c].kind]
                         /\ env = [c \in Clients |-> plan[c].env]
  /\ drops = [c \in Clients |-> Nothing]
  /\ info = [c \in Clients |-> Nobody]
  /\ keeper = [c \in Clients |-> "none"]
  /\ vm = [c \in Clients |-> "off"]
  /\ waiting = [c \in Clients |-> <<>>]
  /\ asked = {}
  /\ opened = [c \in Clients |-> Nobody]
  /\ file = [e \in Envs |-> NoFile]
  /\ sock = [e \in Envs |-> Nobody]
  /\ crashes = 0
  /\ disturbed = {}

Alive(k) == keeper[k] \notin {"none", "gone"}

(* kill(pid, 0) also succeeds for a keeper that has ended, until the start  *)
(* that forked it and has not waited for it returns.                        *)
Answers(k) == Alive(k) \/ (keeper[k] = "gone" /\ pc[k] = "poll")
On(k) == vm[k] # "off"
Active == {c \in Clients : pc[c] \notin {"none", "done"}}

Go(c, to) == pc' = [pc EXCEPT ![c] = to]
Kill(k) ==
  /\ keeper' = [keeper EXCEPT ![k] = "gone"]
  /\ vm' = [vm EXCEPT ![k] = "off"]
  /\ waiting' = [waiting EXCEPT ![k] = <<>>]
  /\ opened' = [opened EXCEPT ![k] = Nobody]
  /\ asked' = asked \ {k}

-----------------------------------------------------------------------------
(* Every command.                                                           *)

(* The starts that overlap with another command when c begins. *)
Overlapping(c) == IF Active = {} THEN {} ELSE {d \in Active \cup {c} : kind[d] = "start"}

Begin ==
  \E c \in Clients :
    /\ pc[c] = "none" /\ \A d \in 1..(c - 1) : pc[d] # "none"
    /\ Go(c, "clean")
    /\ disturbed' = disturbed \cup {env[d] : d \in Overlapping(c)}
    /\ UNCHANGED <<kind, env, drops, info, machines, file, sock, crashes>>

Drop(c, what, es) == drops' = [drops EXCEPT ![c] = [parts |-> what, of |-> es]]

(* cleanup_stale_vm_sessions looks at the files of all environments. *)
CleanStale(c) ==
  /\ pc[c] = "clean" /\ drops[c] = Nothing
  /\ LET stale == {e \in Envs : file[e].names # Nobody /\ ~Answers(file[e].names)}
     IN  IF stale = {} THEN Go(c, "look") /\ UNCHANGED drops
                       ELSE Drop(c, {"file", "socket"}, stale) /\ UNCHANGED pc
  /\ UNCHANGED <<kind, env, info, machines, file, sock, crashes, disturbed>>

(* What discover_vm_session deletes: a file that does not parse, and the    *)
(* file and socket of a session whose keeper is dead or socket missing.     *)
Useless(e) ==
  CASE file[e].by = Nobody -> {}
    [] file[e].by # Nobody /\ file[e].names = Nobody -> {"file"}
    [] OTHER -> IF Answers(file[e].names) /\ sock[e] # Nobody THEN {} ELSE {"file", "socket"}

(* What an absent session means to each of its callers.  A keeper forked    *)
(* while another one removes its session will find its own removed.         *)
Leavers(e) == {k \in Clients : keeper[k] = "leaving" /\ env[k] = e}
FoundNone(c) ==
  CASE pc[c] = "look" /\ kind[c] = "start" ->
         /\ keeper' = [keeper EXCEPT ![c] = "setup"]
         /\ Go(c, "poll")
         /\ disturbed' = disturbed \cup {env[k] : k \in Leavers(env[c])}
         /\ UNCHANGED <<vm, waiting, asked, opened>>
    [] pc[c] = "poll" -> UNCHANGED <<pc, machines, disturbed>>
    [] OTHER -> Go(c, "done") /\ UNCHANGED <<machines, disturbed>>

(* Faulty: start goes on although a VM is there. *)
FoundIgnored(c) ==
  /\ info' = [info EXCEPT ![c] = IF kind[c] = "stop" THEN file[env[c]].names ELSE Nobody]
  /\ CASE pc[c] = "look" /\ kind[c] = "install" -> Go(c, "connect") /\ UNCHANGED <<machines, disturbed>>
       [] pc[c] = "look" /\ kind[c] = "start" -> FoundNone(c)
       [] pc[c] = "poll" -> Go(c, "done") /\ UNCHANGED <<machines, disturbed>>
       [] OTHER -> Go(c, "send") /\ UNCHANGED <<machines, disturbed>>

(* And a session. *)
Found(c) ==
  /\ info' = [info EXCEPT ![c] = IF kind[c] = "stop" THEN file[env[c]].names ELSE Nobody]
  /\ CASE pc[c] = "look" /\ kind[c] = "install" -> Go(c, "connect")
       [] pc[c] = "look" /\ kind[c] = "stop" -> Go(c, "send")
       [] pc[c] = "connect" -> Go(c, "send")
       [] OTHER -> Go(c, "done")
  /\ UNCHANGED <<machines, disturbed>>

Discover(c) ==
  /\ pc[c] \in {"look", "poll", "connect"} /\ drops[c] = Nothing
  /\ LET e == env[c]
     IN  \/ /\ Useless(e) # {}
            /\ Drop(c, Useless(e), {e})
            /\ UNCHANGED <<pc, info, machines, disturbed>>
         \/ /\ file[e].by = Nobody
            /\ FoundNone(c)
            /\ UNCHANGED <<info, drops>>
         \/ /\ file[e].by # Nobody /\ Useless(e) = {}
            /\ Found(c)
            /\ UNCHANGED drops
  /\ UNCHANGED <<kind, env, file, sock, crashes>>

Deleted(es, part) ==
  /\ file' = [e \in Envs |-> IF e \in es /\ part = "file" THEN NoFile ELSE file[e]]
  /\ sock' = [e \in Envs |-> IF e \in es /\ part = "socket" THEN Nobody ELSE sock[e]]

(* The deletion comes later, whatever is at the paths by then, and takes    *)
(* the file before the socket.                                              *)
Delete(c) ==
  /\ drops[c] # Nothing
  /\ LET part == IF "file" \in drops[c].parts THEN "file" ELSE "socket"
         left == drops[c].parts \ {part}
     IN  /\ Deleted(drops[c].of, part)
         /\ \/ /\ left # {}
               /\ Drop(c, left, drops[c].of)
               /\ UNCHANGED <<pc, machines, disturbed>>
            \/ /\ left = {}
               /\ drops' = [drops EXCEPT ![c] = Nothing]
               /\ CASE pc[c] = "clean" -> Go(c, "look") /\ UNCHANGED <<machines, disturbed>>
                    [] pc[c] = "remove" -> Go(c, "done") /\ UNCHANGED <<machines, disturbed>>
                    [] OTHER -> FoundNone(c)
  /\ UNCHANGED <<kind, env, info, crashes>>

-----------------------------------------------------------------------------
(* The three commands.                                                      *)

(* wait_for_session_ready gives up after a look that found no session; the  *)
(* keeper it forked goes on.                                                *)
GiveUp(c) ==
  /\ pc[c] = "poll" /\ drops[c] = Nothing
  /\ file[env[c]].by = Nobody \/ Useless(env[c]) # {}
  /\ Go(c, "done")
  /\ disturbed' = disturbed \cup {env[c]}
  /\ UNCHANGED <<kind, env, drops, info, machines, file, sock, crashes>>

Listens(k) == k # Nobody /\ vm[k] \in {"listening", "idle", "busy"}

(* The connection goes to whoever made the socket.  A stop that fails to    *)
(* connect goes on, an install is an error.                                 *)
Send(c) ==
  /\ pc[c] = "send"
  /\ LET k == sock[env[c]]
     IN  /\ waiting' = IF Listens(k) THEN [waiting EXCEPT ![k] = Append(@, c)] ELSE waiting
         /\ CASE kind[c] = "stop" -> Go(c, "term") /\ UNCHANGED info
              [] kind[c] = "install" /\ Listens(k) ->
                   Go(c, "reply") /\ info' = [info EXCEPT ![c] = k]
              [] OTHER -> Go(c, "done") /\ UNCHANGED info
  /\ UNCHANGED <<kind, env, drops, keeper, vm, asked, opened, file, sock, crashes, disturbed>>

(* Answered by the guest, or cut off. *)
Reply(c) ==
  /\ pc[c] = "reply" /\ c \notin Range(waiting[info[c]])
  /\ Go(c, "done")
  /\ info' = [info EXCEPT ![c] = Nobody]
  /\ UNCHANGED <<kind, env, drops, machines, file, sock, crashes, disturbed>>

(* SIGTERM: kills the keeper until it has installed its handler, which does *)
(* nothing before it knows the VM.                                          *)
Terminate(c) ==
  /\ pc[c] = "term"
  /\ Go(c, "wait")
  /\ CASE keeper[info[c]] \in {"none", "deaf", "gone"} -> UNCHANGED machines
       [] keeper[info[c]] \in {"armed", "ending", "leaving"} ->
            /\ asked' = asked \cup (IF On(info[c]) THEN {info[c]} ELSE {})
            /\ UNCHANGED <<keeper, vm, waiting, opened>>
       [] OTHER -> Kill(info[c])
  /\ UNCHANGED <<kind, env, drops, info, file, sock, crashes, disturbed>>

(* Faulty: does not wait for the keeper. *)
AwaitNobody(c) ==
  /\ pc[c] = "wait"
  /\ Go(c, "remove")
  /\ Drop(c, {"file", "socket"}, {env[c]})
  /\ info' = [info EXCEPT ![c] = Nobody]
  /\ UNCHANGED machines
  /\ UNCHANGED <<kind, env, file, sock, crashes, disturbed>>

(* The keeper has ended, or is killed; its file and socket are to go. *)
Await(c) ==
  /\ pc[c] = "wait"
  /\ Go(c, "remove")
  /\ Drop(c, {"file", "socket"}, {env[c]})
  /\ info' = [info EXCEPT ![c] = Nobody]
  /\ IF Alive(info[c]) THEN Kill(info[c]) ELSE UNCHANGED machines
  /\ UNCHANGED <<kind, env, file, sock, crashes, disturbed>>

Client(c) == \/ CleanStale(c) \/ Discover(c) \/ Delete(c) \/ GiveUp(c)
             \/ Send(c) \/ Reply(c) \/ Terminate(c) \/ Await(c)

-----------------------------------------------------------------------------
(* A keeper and its VM.                                                     *)

(* setup_vsock_ready_listener deletes the sockets of all environments;      *)
(* starting the VM then makes its own.                                      *)
Setup(k) ==
  /\ keeper[k] = "setup"
  /\ keeper' = [keeper EXCEPT ![k] = "boot"]
  /\ vm' = [vm EXCEPT ![k] = "booting"]
  /\ sock' = [e \in Envs |-> IF e = env[k] THEN k ELSE Nobody]
  /\ disturbed' = disturbed \cup {env[d] : d \in {d \in Clients : Alive(d) /\ env[d] # env[k]}}
  /\ UNCHANGED <<clients, waiting, asked, opened, file, crashes>>

Ready(k) ==
  /\ keeper[k] = "boot"
  /\ keeper' = [keeper EXCEPT ![k] = "open"]
  /\ vm' = [vm EXCEPT ![k] = "listening"]
  /\ UNCHANGED <<clients, waiting, asked, opened, file, sock, crashes, disturbed>>

BootFails(k) ==
  /\ keeper[k] = "boot"
  /\ Kill(k)
  /\ UNCHANGED <<clients, file, sock, crashes, disturbed>>

(* register_vm_session: the file is made, or emptied, and then written.     *)
(* What is written to a file that was deleted meanwhile is lost.            *)
Open(k) ==
  /\ keeper[k] = "open"
  /\ keeper' = [keeper EXCEPT ![k] = "write"]
  /\ LET id == IF file[env[k]].by = Nobody THEN k ELSE file[env[k]].by
     IN  /\ opened' = [opened EXCEPT ![k] = id]
         /\ file' = [file EXCEPT ![env[k]] = [by |-> id, names |-> Nobody]]
  /\ UNCHANGED <<clients, vm, waiting, asked, sock, crashes, disturbed>>

Write(k) ==
  /\ keeper[k] = "write"
  /\ keeper' = [keeper EXCEPT ![k] = "wait"]
  /\ file' = [file EXCEPT ![env[k]] = IF @.by = opened[k] THEN [@ EXCEPT !.names = k] ELSE @]
  /\ opened' = [opened EXCEPT ![k] = Nobody]
  /\ UNCHANGED <<clients, vm, waiting, asked, sock, crashes, disturbed>>

(* The handler of SIGTERM, and then the context it is to shut down.         *)
Handle(k) ==
  /\ keeper[k] = "wait"
  /\ keeper' = [keeper EXCEPT ![k] = "deaf"]
  /\ UNCHANGED <<clients, vm, waiting, asked, opened, file, sock, crashes, disturbed>>

Arm(k) ==
  /\ keeper[k] = "deaf"
  /\ keeper' = [keeper EXCEPT ![k] = "armed"]
  /\ UNCHANGED <<clients, vm, waiting, asked, opened, file, sock, crashes, disturbed>>

(* The VM has ended.  unregister_vm_session goes by the name of the         *)
(* environment, whoever's the file is by now: it reads it, removes the      *)
(* socket it finds in it, and then removes the file.                        *)
Unregister(k) ==
  /\ keeper[k] = "armed" /\ ~On(k)
  /\ keeper' = [keeper EXCEPT ![k] = CASE file[env[k]].by = Nobody -> "gone"
                                       [] file[env[k]].names # Nobody -> "ending"
                                       [] OTHER -> "leaving"]
  /\ UNCHANGED <<clients, vm, waiting, asked, opened, file, sock, crashes, disturbed>>

UnlinkSocket(k) ==
  /\ keeper[k] = "ending"
  /\ keeper' = [keeper EXCEPT ![k] = "leaving"]
  /\ Deleted({env[k]}, "socket")
  /\ UNCHANGED <<clients, vm, waiting, asked, opened, crashes, disturbed>>

(* Faulty: the keeper ends and leaves its file. *)
UnlinkNothing(k) ==
  /\ keeper[k] = "leaving"
  /\ keeper' = [keeper EXCEPT ![k] = "gone"]
  /\ UNCHANGED <<clients, vm, waiting, asked, opened, file, sock, crashes, disturbed>>

UnlinkFile(k) ==
  /\ keeper[k] = "leaving"
  /\ keeper' = [keeper EXCEPT ![k] = "gone"]
  /\ Deleted({env[k]}, "file")
  /\ UNCHANGED <<clients, vm, waiting, asked, opened, crashes, disturbed>>

(* Killed from outside; until the guest is ready that is a boot that fails. *)
Crash(k) ==
  /\ keeper[k] \in {"open", "write", "wait", "deaf", "armed", "ending", "leaving"}
  /\ crashes < MaxCrashes
  /\ crashes' = crashes + 1
  /\ Kill(k)
  /\ UNCHANGED <<clients, file, sock, disturbed>>

PowerOff(k) ==
  /\ vm' = [vm EXCEPT ![k] = "off"]
  /\ waiting' = [waiting EXCEPT ![k] = <<>>]
  /\ asked' = asked \ {k}

(* run_vsock_server: one connection at a time.  The end of a session, and a *)
(* command that fails, end the VM.                                          *)
Accept(k) ==
  /\ vm[k] \in {"listening", "idle"} /\ waiting[k] # <<>>
  /\ IF kind[Head(waiting[k])] = "stop"
       THEN PowerOff(k)
       ELSE vm' = [vm EXCEPT ![k] = "busy"] /\ UNCHANGED <<waiting, asked>>
  /\ UNCHANGED <<clients, keeper, opened, file, sock, crashes, disturbed>>

Serve(k) ==
  /\ vm[k] = "busy"
  /\ \/ PowerOff(k)
     \/ /\ vm' = [vm EXCEPT ![k] = "idle"]
        /\ waiting' = [waiting EXCEPT ![k] = Tail(@)]
        /\ UNCHANGED asked
  /\ UNCHANGED <<clients, keeper, opened, file, sock, crashes, disturbed>>

(* No connection in time; the first one is waited for without end. *)
IdleTimeout(k) ==
  /\ vm[k] = "idle" /\ waiting[k] = <<>>
  /\ PowerOff(k)
  /\ UNCHANGED <<clients, keeper, opened, file, sock, crashes, disturbed>>

(* krun_signal_shutdown takes effect. *)
Obey(k) ==
  /\ k \in asked /\ On(k)
  /\ PowerOff(k)
  /\ UNCHANGED <<clients, keeper, opened, file, sock, crashes, disturbed>>

Keeper(k) == \/ Setup(k) \/ Ready(k) \/ BootFails(k) \/ Open(k) \/ Write(k) \/ Handle(k) \/ Arm(k)
             \/ Unregister(k) \/ UnlinkSocket(k) \/ UnlinkFile(k)
Guest(k) == Accept(k) \/ Serve(k) \/ IdleTimeout(k) \/ Obey(k)

Next == \/ Begin
        \/ \E c \in Clients : Client(c) \/ Keeper(c) \/ Guest(c) \/ Crash(c)

(* Commands, keepers and guests go on; nobody has to give a command, and    *)
(* no keeper has to be killed.                                              *)
Spec == /\ Init /\ [][Next]_vars
        /\ \A c \in Clients : WF_vars(Client(c)) /\ WF_vars(Keeper(c)) /\ WF_vars(Guest(c))
-----------------------------------------------------------------------------
(* Properties.  An environment is disturbed when a start in it overlapped   *)
(* with another command or was given up, when a VM was started in another   *)
(* environment while it had a keeper, or when a keeper was forked in it     *)
(* while an earlier one was removing its session: then a VM can be lost.    *)

(* "ONE active VM per env_root" (vm/session.rs:6), whatever commands follow *)
(* one another and whichever keepers are killed.                            *)
OneVm == \A j, k \in Clients :
           j # k /\ env[j] = env[k] /\ On(j) /\ On(k) => env[k] \in disturbed

(* Between commands, a registered keeper is the one the session file and    *)
(* the socket lead to, until it has unregistered: no command and no dying   *)
(* keeper takes them from it (vm/stop.rs:41-43, "to avoid leaving orphan    *)
(* processes or race conditions with new VM starts").                       *)
Findable ==
  Active = {} =>
    \A k \in Clients : keeper[k] \in {"wait", "deaf", "armed"} =>
      \/ env[k] \in disturbed
      \/ file[env[k]].names = k /\ sock[env[k]] = k

(* All commands return, and unless a keeper was killed no session file is   *)
(* left in the end but of a living one: also after all the overlaps above.  *)
Settles ==
  <>[]( /\ Active = {}
        /\ crashes = 0 => \A e \in Envs : file[e].by # Nobody =>
                             file[e].names # Nobody /\ Alive(file[e].names) )
=============================================================================
