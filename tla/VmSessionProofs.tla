--------------------------- MODULE VmSessionProofs ---------------------------
(***************************************************************************)
(* Theorems of VmSession, for any environments, any number of commands of    *)
(* any kinds in any order, and any number of keepers killed.                *)
(***************************************************************************)
EXTENDS VmSession, SequenceTheorems, FiniteSetTheorems, TLAPS

-----------------------------------------------------------------------------
(* Types, and where the parts of the system are relative to one another.    *)

(* A VM is on in a living keeper, which a start has forked, and the steps of *)
(* commands are those of their kinds.                                       *)
ClientFrame(k) ==
  /\ On(k) => keeper[k] \notin {"none", "ending", "leaving", "gone"}
  /\ vm[k] = "busy" => waiting[k] # <<>>
  /\ keeper[k] # "none" => kind[k] = "start" /\ pc[k] \in {"poll", "done"}
  /\ keeper[k] = "write" => opened[k] # Nobody
  /\ pc[k] = "poll" => kind[k] = "start"
  /\ pc[k] = "connect" => kind[k] = "install"
  /\ pc[k] = "send" => kind[k] # "start"
  /\ pc[k] \in {"term", "wait", "remove"} => kind[k] = "stop"
  /\ pc[k] \in {"send", "term", "wait"} /\ kind[k] = "stop" => info[k] # Nobody
  /\ drops[k] # Nothing => \/ pc[k] = "clean"
                           \/ pc[k] \in {"look", "poll", "connect", "remove"} /\ drops[k].of = {env[k]}

(* A session file names a keeper of its environment that has registered.    *)
FileFrame(e) ==
  /\ file[e].by = Nobody => file[e].names = Nobody
  /\ file[e].names # Nobody => /\ env[file[e].names] = e
                               /\ keeper[file[e].names] \in {"wait", "deaf", "armed", "ending", "leaving", "gone"}

Frame == (\A k \in Clients : ClientFrame(k)) /\ (\A e \in Envs : FileFrame(e))

PcValues == {"none", "clean", "look", "poll", "connect", "send", "reply", "term", "wait", "remove", "done"}
KeeperValues == {"none", "setup", "boot", "open", "write", "wait", "deaf", "armed", "ending", "leaving", "gone"}

LEMMA ClientsAreSome == Nobody \notin Clients /\ Clients \subseteq Keepers
BY VmSessionAssumption DEF Clients, Nobody, Keepers

LEMMA InitFrame == Init => TypeOK /\ Frame
<1> SUFFICES ASSUME Init PROVE TypeOK /\ Frame
  OBVIOUS
<1>1. PICK plan \in Plans : /\ kind = [c \in Clients |-> plan[c].kind]
                            /\ env = [c \in Clients |-> plan[c].env]
  BY DEF Init
<1>2. plan \in [Clients -> [kind : Kinds, env : Envs]]
  BY <1>1, VmSessionAssumption
<1>3. kind \in [Clients -> Kinds] /\ env \in [Clients -> Envs]
  BY <1>1, <1>2
<1>4. Nobody \in Keepers /\ 0 \in 0..MaxCrashes
  BY VmSessionAssumption DEF Keepers
<1>5. TypeOK
  BY <1>3, <1>4 DEF Init, TypeOK, NoFile, Nothing
<1>6. Frame
  BY DEF Init, Frame, ClientFrame, FileFrame, On, NoFile
<1> QED BY <1>5, <1>6

(* The death of a keeper. *)
LEMMA Killing ==
  ASSUME TypeOK, Frame, NEW k \in Clients, Kill(k)
  PROVE  /\ keeper' \in [Clients -> KeeperValues]
         /\ vm' \in [Clients -> {"off", "booting", "listening", "idle", "busy"}]
         /\ waiting' \in [Clients -> Seq(Clients)]
         /\ asked' \subseteq Clients /\ opened' \in [Clients -> Keepers]
         /\ keeper'[k] = "gone" /\ vm'[k] = "off"
         /\ \A j \in Clients : j # k => /\ keeper'[j] = keeper[j] /\ vm'[j] = vm[j]
                                        /\ waiting'[j] = waiting[j] /\ opened'[j] = opened[j]
<1>1. Nobody \in Keepers /\ <<>> \in Seq(Clients)
  BY DEF Keepers
<1> QED BY <1>1 DEF Kill, TypeOK, KeeperValues

(* The frame when a keeper dies and files are left alone or deleted: a dead *)
(* keeper breaks no frame, unless it has not been forked yet.               *)
LEMMA KillingFrame ==
  ASSUME TypeOK, Frame, NEW k \in Clients, Kill(k), Alive(k), UNCHANGED <<clients, file, sock, disturbed>>,
         crashes' \in 0..MaxCrashes
  PROVE  TypeOK' /\ Frame'
<1>1. /\ keeper' \in [Clients -> KeeperValues]
      /\ vm' \in [Clients -> {"off", "booting", "listening", "idle", "busy"}]
      /\ waiting' \in [Clients -> Seq(Clients)]
      /\ asked' \subseteq Clients /\ opened' \in [Clients -> Keepers]
      /\ keeper'[k] = "gone" /\ vm'[k] = "off"
      /\ \A j \in Clients : j # k => /\ keeper'[j] = keeper[j] /\ vm'[j] = vm[j]
                                     /\ waiting'[j] = waiting[j] /\ opened'[j] = opened[j]
  BY Killing
<1>2. TypeOK'
  BY <1>1 DEF TypeOK, clients, KeeperValues
<1>3. ASSUME NEW j \in Clients PROVE ClientFrame(j)'
  <2>1. ClientFrame(j) /\ UNCHANGED <<kind, env, pc, info, drops>>
    BY DEF Frame, clients
  <2>2. CASE j = k
    BY <1>1, <2>1, <2>2 DEF ClientFrame, On, Alive
  <2>3. CASE j # k
    BY <1>1, <2>1, <2>3 DEF ClientFrame, On, Alive
  <2> QED BY <2>2, <2>3
<1>4. ASSUME NEW e \in Envs PROVE FileFrame(e)'
  <2>1. FileFrame(e) /\ file[e].names \in Keepers /\ UNCHANGED <<file, env>>
    BY DEF Frame, TypeOK, clients
  <2>2. file[e].names = Nobody \/ file[e].names \in Clients
    BY <2>1 DEF Keepers
  <2> QED BY <1>1, <2>1, <2>2 DEF FileFrame
<1> QED BY <1>2, <1>3, <1>4 DEF Frame

LEMMA DroppingType ==
  ASSUME TypeOK, NEW c \in Clients, NEW what \in SUBSET {"file", "socket"}, NEW es \in SUBSET Envs
  PROVE  [drops EXCEPT ![c] = [parts |-> what, of |-> es]] \in [Clients -> [parts : SUBSET {"file", "socket"}, of : SUBSET Envs]]
BY DEF TypeOK

LEMMA DeletedFrame ==
  ASSUME TypeOK, Frame, NEW es \in SUBSET Envs, NEW part, Deleted(es, part)
  PROVE  /\ file' \in [Envs -> [by : Keepers, names : Keepers]] /\ sock' \in [Envs -> Keepers]
         /\ \A e \in Envs : file'[e] = file[e] \/ file'[e] = NoFile
<1>1. NoFile \in [by : Keepers, names : Keepers] /\ Nobody \in Keepers
  BY DEF NoFile, Keepers
<1> QED BY <1>1 DEF Deleted, TypeOK

LEMMA FilesKept ==
  ASSUME TypeOK, Frame, env' = env,
         \A e \in Envs : file'[e] = file[e] \/ file'[e] = NoFile,
         \A k \in Clients : keeper[k] \in {"wait", "deaf", "armed", "ending", "leaving", "gone"} => keeper'[k] \in {"wait", "deaf", "armed", "ending", "leaving", "gone"}
  PROVE  \A e \in Envs : FileFrame(e)'
<1> TAKE e \in Envs
<1>1. CASE file'[e] = NoFile
  BY <1>1 DEF FileFrame, NoFile
<1>2. CASE file'[e] = file[e]
  <2>1. file[e].names # Nobody => file[e].names \in Clients
    BY DEF TypeOK, Keepers
  <2> QED BY <1>2, <2>1 DEF Frame, FileFrame
<1> QED BY <1>1, <1>2

(* Guests change neither processes nor files. *)
LEMMA PoweringOff ==
  ASSUME TypeOK, Frame, NEW k \in Clients, PowerOff(k), UNCHANGED <<clients, keeper, opened, file, sock, crashes, disturbed>>
  PROVE  TypeOK' /\ Frame'
<1>1. /\ vm' \in [Clients -> {"off", "booting", "listening", "idle", "busy"}]
      /\ waiting' \in [Clients -> Seq(Clients)]
      /\ asked' \subseteq Clients
      /\ vm'[k] = "off"
      /\ \A j \in Clients : j # k => vm'[j] = vm[j] /\ waiting'[j] = waiting[j]
  <2>1. <<>> \in Seq(Clients)
    OBVIOUS
  <2> QED BY <2>1 DEF PowerOff, TypeOK
<1>2. TypeOK'
  BY <1>1 DEF TypeOK, clients
<1>3. \A j \in Clients : ClientFrame(j)'
  BY <1>1 DEF Frame, ClientFrame, On, Alive, clients
<1>4. \A e \in Envs : FileFrame(e)'
  BY FilesKept DEF clients
<1> QED BY <1>2, <1>3, <1>4 DEF Frame

LEMMA GuestFrame ==
  ASSUME TypeOK, Frame, NEW k \in Clients, Guest(k)
  PROVE  TypeOK' /\ Frame'
<1>0. UNCHANGED <<clients, keeper, opened, file, sock, crashes, disturbed>>
  BY DEF Guest, Accept, Serve, IdleTimeout, Obey
<1>1. CASE PowerOff(k)
  BY <1>0, <1>1, PoweringOff
<1>2. CASE /\ vm' = [vm EXCEPT ![k] = "busy"] /\ UNCHANGED <<waiting, asked>>
           /\ vm[k] # "off" /\ waiting[k] # <<>>
  <2>1. TypeOK'
    BY <1>0, <1>2 DEF TypeOK, clients
  <2>2. \A j \in Clients : ClientFrame(j)'
    BY <1>0, <1>2 DEF Frame, ClientFrame, On, Alive, clients, TypeOK
  <2>3. \A e \in Envs : FileFrame(e)'
    BY <1>0, FilesKept DEF clients
  <2> QED BY <2>1, <2>2, <2>3 DEF Frame
<1>3. CASE /\ vm' = [vm EXCEPT ![k] = "idle"] /\ waiting' = [waiting EXCEPT ![k] = Tail(@)] /\ UNCHANGED asked
           /\ vm[k] = "busy"
  <2>0. Tail(waiting[k]) \in Seq(Clients)
    <3>1. waiting[k] # <<>> /\ waiting[k] \in Seq(Clients)
      BY <1>3 DEF Frame, ClientFrame, TypeOK
    <3> QED BY <3>1
  <2>1. TypeOK'
    BY <1>0, <1>3, <2>0 DEF TypeOK, clients
  <2>2. \A j \in Clients : ClientFrame(j)'
    BY <1>0, <1>3 DEF Frame, ClientFrame, On, Alive, clients, TypeOK
  <2>3. \A e \in Envs : FileFrame(e)'
    BY <1>0, FilesKept DEF clients
  <2> QED BY <2>1, <2>2, <2>3 DEF Frame
<1> QED BY <1>1, <1>2, <1>3 DEF Guest, Accept, Serve, IdleTimeout, Obey

LEMMA KeeperFrame ==
  ASSUME TypeOK, Frame, NEW k \in Clients, Keeper(k) \/ Crash(k)
  PROVE  TypeOK' /\ Frame'
<1> USE ClientsAreSome
<1>1. CASE Setup(k)
  <2>1. TypeOK'
    <3>1. disturbed' \subseteq Envs
      BY <1>1 DEF Setup, TypeOK
    <3>2. sock' \in [Envs -> Keepers]
      BY <1>1 DEF Setup, Keepers
    <3> QED BY <1>1, <3>1, <3>2 DEF Setup, TypeOK, clients
  <2>2. \A j \in Clients : ClientFrame(j)'
    BY <1>1 DEF Setup, Frame, ClientFrame, On, Alive, clients, TypeOK
  <2>3. \A e \in Envs : FileFrame(e)'
    BY <1>1, FilesKept DEF Setup, clients, TypeOK
  <2> QED BY <2>1, <2>2, <2>3 DEF Frame
<1>2. CASE Ready(k)
  <2>1. TypeOK'
    BY <1>2 DEF Ready, TypeOK, clients
  <2>2. \A j \in Clients : ClientFrame(j)'
    BY <1>2 DEF Ready, Frame, ClientFrame, On, Alive, clients, TypeOK
  <2>3. \A e \in Envs : FileFrame(e)'
    BY <1>2, FilesKept DEF Ready, clients, TypeOK
  <2> QED BY <2>1, <2>2, <2>3 DEF Frame
<1>3. CASE BootFails(k)
  BY <1>3, KillingFrame DEF BootFails, Alive, TypeOK
<1>4. CASE Open(k)
  <2> DEFINE id == IF file[env[k]].by = Nobody THEN k ELSE file[env[k]].by
  <2>0. /\ env[k] \in Envs /\ id \in Keepers /\ id # Nobody
        /\ opened' = [opened EXCEPT ![k] = id]
        /\ file' = [file EXCEPT ![env[k]] = [by |-> id, names |-> Nobody]]
    BY <1>4 DEF Open, TypeOK, Keepers
  <2> HIDE DEF id
  <2>1. TypeOK'
    BY <1>4, <2>0 DEF Open, TypeOK, clients, Keepers
  <2>2. \A j \in Clients : ClientFrame(j)'
    BY <1>4, <2>0 DEF Open, Frame, ClientFrame, On, Alive, clients, TypeOK
  <2>3. ASSUME NEW e \in Envs PROVE FileFrame(e)'
    <3>1. CASE e = env[k]
      BY <1>4, <2>0, <3>1 DEF FileFrame, TypeOK
    <3>2. CASE e # env[k]
      <4>1. file'[e] = file[e] /\ (file[e].names # Nobody => file[e].names \in Clients)
        BY <2>0, <3>2 DEF TypeOK, Keepers
      <4>2. FileFrame(e) /\ env' = env /\ \A j \in Clients : j # k => keeper'[j] = keeper[j]
        BY <1>4 DEF Open, clients, Frame, TypeOK
      <4> QED BY <1>4, <4>1, <4>2 DEF FileFrame, Open
    <3> QED BY <3>1, <3>2
  <2> QED BY <2>1, <2>2, <2>3 DEF Frame
<1>5. CASE Write(k)
  <2> DEFINE e0 == env[k]
             new == IF file[e0].by = opened[k] THEN [file[e0] EXCEPT !.names = k] ELSE file[e0]
  <2>a. e0 \in Envs /\ file[e0] \in [by : Keepers, names : Keepers] /\ opened[k] # Nobody
    BY <1>5 DEF Write, TypeOK, Frame, ClientFrame
  <2>b. file' = [file EXCEPT ![e0] = new]
    BY <1>5 DEF Write
  <2>c. new = IF file[e0].by = opened[k] THEN [by |-> file[e0].by, names |-> k] ELSE file[e0]
    BY <2>a
  <2>0. /\ e0 \in Envs /\ file[e0] \in [by : Keepers, names : Keepers]
        /\ file' = [file EXCEPT ![e0] = new] /\ opened[k] # Nobody
    BY <2>a, <2>b
  <2>1. TypeOK'
    <3>1. new \in [by : Keepers, names : Keepers]
      BY <2>a, <2>c
    <3> QED BY <1>5, <2>0, <3>1 DEF Write, TypeOK, clients, Keepers
  <2>2. \A j \in Clients : ClientFrame(j)'
    BY <1>5 DEF Write, Frame, ClientFrame, On, Alive, clients, TypeOK
  <2>3. ASSUME NEW e \in Envs PROVE FileFrame(e)'
    <3>0. /\ FileFrame(e) /\ env' = env /\ keeper'[k] = "wait" /\ \A j \in Clients : j # k => keeper'[j] = keeper[j]
          /\ file[e].names # Nobody => file[e].names \in Clients
      BY <1>5 DEF Write, clients, Frame, TypeOK, Keepers
    <3>1. CASE file'[e] = file[e]
      BY <3>0, <3>1 DEF FileFrame
    <3>2. CASE e = e0 /\ file'[e] = [by |-> file[e].by, names |-> k] /\ file[e].by # Nobody
      BY <3>0, <3>2 DEF FileFrame
    <3> QED BY <3>1, <3>2, <2>0, <2>c DEF TypeOK
  <2> QED BY <2>1, <2>2, <2>3 DEF Frame
<1>6. CASE Handle(k) \/ Arm(k) \/ Unregister(k)
  <2>0. /\ (keeper[k] \in {"wait", "deaf"} /\ keeper'[k] \in {"deaf", "armed"}) \/ (keeper[k] = "armed" /\ ~On(k))
        /\ keeper'[k] \in {"deaf", "armed", "ending", "leaving", "gone"}
        /\ keeper' \in [Clients -> KeeperValues] /\ \A j \in Clients : j # k => keeper'[j] = keeper[j]
        /\ UNCHANGED <<clients, vm, waiting, asked, opened, file, sock, crashes, disturbed>>
    BY <1>6 DEF Handle, Arm, Unregister, TypeOK, KeeperValues
  <2>1. TypeOK'
    BY <2>0 DEF TypeOK, clients, KeeperValues
  <2>2. \A j \in Clients : ClientFrame(j)'
    BY <2>0 DEF Frame, ClientFrame, On, clients
  <2>3. \A e \in Envs : FileFrame(e)'
    BY <2>0, FilesKept DEF clients
  <2> QED BY <2>1, <2>2, <2>3 DEF Frame
<1>7. CASE UnlinkSocket(k) \/ UnlinkFile(k)
  <2>0. /\ keeper[k] \in {"ending", "leaving"} /\ keeper'[k] \in {"leaving", "gone"}
        /\ keeper' \in [Clients -> KeeperValues] /\ \A j \in Clients : j # k => keeper'[j] = keeper[j]
        /\ UNCHANGED <<clients, vm, waiting, asked, opened, crashes, disturbed>>
        /\ env[k] \in Envs /\ \E part \in {"file", "socket"} : Deleted({env[k]}, part)
    BY <1>7 DEF UnlinkSocket, UnlinkFile, TypeOK, KeeperValues
  <2>1. /\ file' \in [Envs -> [by : Keepers, names : Keepers]] /\ sock' \in [Envs -> Keepers]
        /\ \A e \in Envs : file'[e] = file[e] \/ file'[e] = NoFile
    BY <2>0, DeletedFrame
  <2>2. TypeOK'
    BY <2>0, <2>1 DEF TypeOK, clients, KeeperValues
  <2>3. \A j \in Clients : ClientFrame(j)'
    BY <2>0 DEF Frame, ClientFrame, On, clients
  <2>4. \A e \in Envs : FileFrame(e)'
    BY <2>0, <2>1, FilesKept DEF clients
  <2> QED BY <2>2, <2>3, <2>4 DEF Frame
<1>8. CASE Crash(k)
  <2>1. crashes' \in 0..MaxCrashes
    BY <1>8, VmSessionAssumption DEF Crash, TypeOK
  <2> QED BY <1>8, <2>1, KillingFrame DEF Crash, Alive
<1> QED BY <1>1, <1>2, <1>3, <1>4, <1>5, <1>6, <1>7, <1>8 DEF Keeper

(* What a command does when there is no session. *)
Forks(c) ==
  /\ pc[c] = "look" /\ kind[c] = "start"
  /\ keeper' = [keeper EXCEPT ![c] = "setup"]
  /\ pc' = [pc EXCEPT ![c] = "poll"]
  /\ disturbed' = disturbed \cup {env[k] : k \in Leavers(env[c])}
  /\ UNCHANGED <<vm, waiting, asked, opened>>
Quiet(c) ==
  /\ pc' = [pc EXCEPT ![c] = "done"] \/ (pc[c] = "poll" /\ pc' = pc)
  /\ UNCHANGED <<machines, disturbed>>

LEMMA FoundNoneCases ==
  ASSUME NEW c \in Clients, FoundNone(c)
  PROVE  Forks(c) \/ Quiet(c)
<1>1. CASE pc[c] = "look" /\ kind[c] = "start"
  BY <1>1 DEF FoundNone, Forks, Go
<1>2. CASE pc[c] = "poll"
  BY <1>2 DEF FoundNone, Quiet
<1>3. CASE pc[c] # "poll" /\ ~(pc[c] = "look" /\ kind[c] = "start")
  BY <1>3 DEF FoundNone, Quiet, Go
<1> QED BY <1>1, <1>2, <1>3

(* What it does when there is one. *)
LEMMA FoundCases ==
  ASSUME NEW c \in Clients, Found(c), TypeOK, pc[c] \in {"look", "poll", "connect"}
  PROVE  /\ UNCHANGED <<machines, disturbed>>
         /\ info' = [info EXCEPT ![c] = IF kind[c] = "stop" THEN file[env[c]].names ELSE Nobody]
         /\ \/ kind[c] = "install" /\ pc[c] = "look" /\ pc' = [pc EXCEPT ![c] = "connect"]
            \/ (kind[c] = "stop" \/ pc[c] = "connect") /\ pc' = [pc EXCEPT ![c] = "send"]
            \/ pc' = [pc EXCEPT ![c] = "done"]
BY DEF Found, Go

LEMMA UselessParts ==
  ASSUME NEW e \in Envs
  PROVE  Useless(e) \in SUBSET {"file", "socket"}
BY DEF Useless

(* Commands that only move on. *)
LEMMA MoveFrame ==
  ASSUME TypeOK, Frame, NEW c \in Clients, NEW to \in PcValues,
         pc' = [pc EXCEPT ![c] = to], UNCHANGED <<kind, env, machines, crashes>>,
         info' \in [Clients -> Keepers], disturbed' \subseteq Envs,
         \A d \in Clients : d # c => drops'[d] = drops[d] /\ info'[d] = info[d],
         drops' \in [Clients -> [parts : SUBSET {"file", "socket"}, of : SUBSET Envs]],
         file' \in [Envs -> [by : Keepers, names : Keepers]], sock' \in [Envs -> Keepers],
         \A e \in Envs : file'[e] = file[e] \/ file'[e] = NoFile,
         keeper[c] # "none" => to \in {"poll", "done"},
         to = "poll" => pc[c] = "poll",
         to = "connect" => kind[c] = "install",
         to = "send" => kind[c] # "start",
         to \in {"term", "wait", "remove"} => kind[c] = "stop",
         to \in {"send", "term", "wait"} /\ kind[c] = "stop" => info'[c] # Nobody,
         drops'[c] = Nothing \/ to = "clean" \/ (to \in {"look", "poll", "connect", "remove"} /\ drops'[c].of = {env[c]})
  PROVE  TypeOK' /\ Frame'
<1>1. TypeOK'
  BY DEF TypeOK, machines, PcValues
<1>2. ASSUME NEW d \in Clients PROVE ClientFrame(d)'
  <2>1. /\ ClientFrame(d) /\ pc'[c] = to /\ (d # c => pc'[d] = pc[d] /\ drops'[d] = drops[d] /\ info'[d] = info[d])
        /\ UNCHANGED <<kind, env, keeper, vm, waiting, opened>>
    BY DEF Frame, TypeOK, machines
  <2>2. CASE d # c
    BY <2>1, <2>2 DEF ClientFrame, On, Alive
  <2>3. CASE d = c
    BY <2>1, <2>3 DEF ClientFrame, On, Alive, PcValues, TypeOK
  <2> QED BY <2>2, <2>3
<1>3. \A e \in Envs : FileFrame(e)'
  BY FilesKept DEF machines
<1> QED BY <1>1, <1>2, <1>3 DEF Frame

(* The fork of a keeper. *)
LEMMA ForkFrame ==
  ASSUME TypeOK, Frame, NEW c \in Clients, Forks(c),
         UNCHANGED <<kind, env, info, crashes>>,
         drops'[c] = Nothing, \A d \in Clients : d # c => drops'[d] = drops[d],
         drops' \in [Clients -> [parts : SUBSET {"file", "socket"}, of : SUBSET Envs]],
         file' \in [Envs -> [by : Keepers, names : Keepers]], sock' \in [Envs -> Keepers],
         \A e \in Envs : file'[e] = file[e] \/ file'[e] = NoFile
  PROVE  TypeOK' /\ Frame'
<1>0. keeper[c] = "none"
  BY DEF Forks, Frame, ClientFrame
<1>1. TypeOK'
  <2>1. disturbed' \subseteq Envs
    BY DEF TypeOK, Forks, Leavers
  <2> QED BY <2>1 DEF TypeOK, Forks
<1>2. ASSUME NEW d \in Clients PROVE ClientFrame(d)'
  <2>1. ClientFrame(d) /\ (d # c => pc'[d] = pc[d] /\ keeper'[d] = keeper[d]) /\ pc'[c] = "poll" /\ keeper'[c] = "setup"
    BY DEF Frame, TypeOK, Forks
  <2> QED BY <2>1 DEF ClientFrame, On, Alive, Forks
<1>3. \A e \in Envs : FileFrame(e)'
  <2>1. \A k \in Clients : keeper[k] \in {"wait", "deaf", "armed", "ending", "leaving", "gone"} => keeper'[k] \in {"wait", "deaf", "armed", "ending", "leaving", "gone"}
    BY <1>0 DEF Forks, TypeOK
  <2> QED BY <2>1, FilesKept
<1> QED BY <1>1, <1>2, <1>3 DEF Frame

LEMMA ClientsFrame ==
  ASSUME TypeOK, Frame, NEW c \in Clients, Client(c)
  PROVE  TypeOK' /\ Frame'
<1> USE ClientsAreSome
<1>0. /\ ClientFrame(c) /\ env[c] \in Envs /\ FileFrame(env[c]) /\ info \in [Clients -> Keepers] /\ disturbed \subseteq Envs
      /\ drops \in [Clients -> [parts : SUBSET {"file", "socket"}, of : SUBSET Envs]]
      /\ file \in [Envs -> [by : Keepers, names : Keepers]] /\ sock \in [Envs -> Keepers] /\ Nobody \in Keepers
      /\ pc \in [Clients -> PcValues] /\ kind[c] \in Kinds
  BY DEF Frame, TypeOK, Keepers, PcValues
<1>n. [drops EXCEPT ![c] = Nothing] \in [Clients -> [parts : SUBSET {"file", "socket"}, of : SUBSET Envs]]
  BY <1>0 DEF Nothing
<1>1. CASE CleanStale(c)
  <2>1. CASE Go(c, "look") /\ UNCHANGED drops
    BY <1>0, <1>1, <2>1, MoveFrame DEF CleanStale, Go, PcValues, ClientFrame
  <2>2. CASE \E stale \in SUBSET Envs : Drop(c, {"file", "socket"}, stale) /\ UNCHANGED pc
    <3>1. PICK stale \in SUBSET Envs : Drop(c, {"file", "socket"}, stale)
      BY <2>2
    <3>2. drops' \in [Clients -> [parts : SUBSET {"file", "socket"}, of : SUBSET Envs]]
      BY <3>1, DroppingType DEF Drop
    <3>3. pc' = [pc EXCEPT ![c] = "clean"]
      BY <1>0, <1>1, <2>2 DEF CleanStale
    <3>4. \A d \in Clients : d # c => drops'[d] = drops[d]
      BY <3>1, <1>0 DEF Drop
    <3> QED BY <1>0, <1>1, <3>2, <3>3, <3>4, MoveFrame DEF CleanStale, PcValues, ClientFrame
  <2> QED BY <1>1, <2>1, <2>2 DEF CleanStale
<1>2. CASE Discover(c)
  <2>0. /\ pc[c] \in {"look", "poll", "connect"} /\ drops[c] = Nothing
        /\ UNCHANGED <<kind, env, file, sock, crashes>>
    BY <1>2 DEF Discover
  <2>1. CASE Useless(env[c]) # {} /\ Drop(c, Useless(env[c]), {env[c]}) /\ UNCHANGED <<pc, info, machines, disturbed>>
    <3>1. /\ drops' \in [Clients -> [parts : SUBSET {"file", "socket"}, of : SUBSET Envs]]
          /\ \A d \in Clients : d # c => drops'[d] = drops[d]
          /\ drops'[c].of = {env[c]}
      BY <1>0, <2>1, DroppingType, UselessParts DEF Drop
    <3>2. pc' = [pc EXCEPT ![c] = pc[c]]
      BY <1>0, <2>1
    <3>3. /\ keeper[c] # "none" => pc[c] \in {"poll", "done"}
          /\ pc[c] = "connect" => kind[c] = "install"
      BY <1>0 DEF ClientFrame
    <3> QED BY <1>0, <2>0, <2>1, <3>1, <3>2, <3>3, MoveFrame DEF PcValues
  <2>2. CASE file[env[c]].by = Nobody /\ FoundNone(c) /\ UNCHANGED <<info, drops>>
    <3>1. CASE Forks(c)
      BY <1>0, <2>0, <2>2, <3>1, ForkFrame
    <3>2. CASE Quiet(c)
      <4>1. PICK to \in {"done", "poll"} : pc' = [pc EXCEPT ![c] = to] /\ (to = "poll" => pc[c] = "poll")
        BY <1>0, <3>2 DEF Quiet
      <4> QED BY <1>0, <2>0, <2>2, <3>2, <4>1, MoveFrame DEF Quiet, PcValues
    <3> QED BY <2>2, <3>1, <3>2, FoundNoneCases
  <2>3. CASE file[env[c]].by # Nobody /\ Useless(env[c]) = {} /\ Found(c) /\ UNCHANGED drops
    <3>1. /\ UNCHANGED <<machines, disturbed>>
          /\ info' = [info EXCEPT ![c] = IF kind[c] = "stop" THEN file[env[c]].names ELSE Nobody]
          /\ \/ kind[c] = "install" /\ pc[c] = "look" /\ pc' = [pc EXCEPT ![c] = "connect"]
             \/ (kind[c] = "stop" \/ pc[c] = "connect") /\ pc' = [pc EXCEPT ![c] = "send"]
             \/ pc' = [pc EXCEPT ![c] = "done"]
      BY <2>0, <2>3, FoundCases
    <3>2. file[env[c]].names # Nobody
      BY <2>3 DEF Useless
    <3>3. info' \in [Clients -> Keepers] /\ (kind[c] = "stop" => info'[c] # Nobody) /\ \A d \in Clients : d # c => info'[d] = info[d]
      BY <1>0, <3>1, <3>2
    <3>4. PICK to \in {"connect", "send", "done"} :
             /\ pc' = [pc EXCEPT ![c] = to]
             /\ to = "connect" => kind[c] = "install"
             /\ to \in {"connect", "send"} => keeper[c] = "none"
             /\ to = "send" => kind[c] # "start"
      <4>1. pc[c] = "connect" => kind[c] = "install"
        BY <1>0 DEF ClientFrame
      <4>2. kind[c] # "start" => keeper[c] = "none"
        BY <1>0 DEF ClientFrame
      <4> QED BY <3>1, <4>1, <4>2
    <3> QED BY <1>0, <2>0, <2>3, <3>1, <3>3, <3>4, MoveFrame DEF PcValues
  <2> QED BY <1>2, <2>1, <2>2, <2>3 DEF Discover
<1>3. CASE Delete(c)
  <2> DEFINE part == IF "file" \in drops[c].parts THEN "file" ELSE "socket"
             left == drops[c].parts \ {part}
  <2>0. /\ Deleted(drops[c].of, part) /\ drops[c] # Nothing /\ drops[c].of \in SUBSET Envs /\ left \in SUBSET {"file", "socket"}
        /\ UNCHANGED <<kind, env, info, crashes>>
    BY <1>0, <1>3 DEF Delete
  <2>1. /\ file' \in [Envs -> [by : Keepers, names : Keepers]] /\ sock' \in [Envs -> Keepers]
        /\ \A e \in Envs : file'[e] = file[e] \/ file'[e] = NoFile
    BY <2>0, DeletedFrame
  <2>k. /\ pc[c] \in {"clean", "look", "connect", "remove"} => keeper[c] = "none"
        /\ pc[c] = "connect" => kind[c] = "install"
        /\ pc[c] = "remove" => kind[c] = "stop"
        /\ pc[c] \in {"clean", "look", "poll", "connect", "remove"}
        /\ pc[c] = "clean" \/ drops[c].of = {env[c]}
    BY <1>0, <2>0 DEF ClientFrame
  <2>2. CASE left # {} /\ Drop(c, left, drops[c].of) /\ UNCHANGED <<pc, machines, disturbed>>
    <3>1. /\ drops' \in [Clients -> [parts : SUBSET {"file", "socket"}, of : SUBSET Envs]]
          /\ \A d \in Clients : d # c => drops'[d] = drops[d]
          /\ drops'[c].of = drops[c].of
      BY <1>0, <2>0, <2>2, DroppingType DEF Drop
    <3>2. pc' = [pc EXCEPT ![c] = pc[c]]
      BY <1>0, <2>2
    <3>3. /\ pc[c] \in PcValues /\ info' \in [Clients -> Keepers] /\ disturbed' \subseteq Envs
          /\ UNCHANGED <<kind, env, info, machines, crashes>>
      BY <1>0, <2>0, <2>2
    <3> HIDE DEF left
    <3> QED BY <2>1, <2>k, <3>1, <3>2, <3>3, MoveFrame
  <2>3. CASE /\ drops' = [drops EXCEPT ![c] = Nothing]
             /\ CASE pc[c] = "clean" -> Go(c, "look") /\ UNCHANGED <<machines, disturbed>>
                  [] pc[c] = "remove" -> Go(c, "done") /\ UNCHANGED <<machines, disturbed>>
                  [] OTHER -> FoundNone(c)
    <3>1. /\ drops' \in [Clients -> [parts : SUBSET {"file", "socket"}, of : SUBSET Envs]]
          /\ drops'[c] = Nothing /\ \A d \in Clients : d # c => drops'[d] = drops[d]
      BY <1>0, <1>n, <2>3
    <3>2. CASE pc[c] \in {"clean", "remove"}
      <4>1. PICK to \in {"look", "done"} : pc' = [pc EXCEPT ![c] = to] /\ UNCHANGED <<machines, disturbed>>
        BY <2>3, <3>2 DEF Go
      <4> QED BY <1>0, <2>0, <2>1, <2>k, <3>1, <3>2, <4>1, MoveFrame DEF PcValues
    <3>3. CASE Forks(c)
      BY <1>0, <2>0, <2>1, <3>1, <3>3, ForkFrame
    <3>4. CASE Quiet(c)
      <4>1. PICK to \in {"done", "poll"} : pc' = [pc EXCEPT ![c] = to] /\ (to = "poll" => pc[c] = "poll")
        BY <1>0, <3>4 DEF Quiet
      <4> QED BY <1>0, <2>0, <2>1, <3>1, <3>4, <4>1, MoveFrame DEF Quiet, PcValues
    <3> QED BY <2>3, <3>2, <3>3, <3>4, FoundNoneCases
  <2> QED BY <1>3, <2>2, <2>3 DEF Delete
<1>4. CASE GiveUp(c)
  BY <1>0, <1>4, MoveFrame DEF GiveUp, Go, PcValues
<1>5. CASE Send(c)
  <2> DEFINE k == sock[env[c]]
  <2>0. /\ pc[c] = "send" /\ k \in Keepers
        /\ waiting' = IF Listens(k) THEN [waiting EXCEPT ![k] = Append(@, c)] ELSE waiting
        /\ UNCHANGED <<kind, env, drops, keeper, vm, asked, opened, file, sock, crashes, disturbed>>
        /\ kind[c] \in {"stop", "install"} /\ keeper[c] = "none" /\ drops[c] = Nothing
    BY <1>0, <1>5 DEF Send, ClientFrame, Kinds
  <2>1. PICK to \in {"term", "reply", "done"} :
           /\ pc' = [pc EXCEPT ![c] = to] /\ (to = "term" => kind[c] = "stop" /\ info' = info)
           /\ info' \in [Clients -> Keepers] /\ \A d \in Clients : d # c => info'[d] = info[d]
    BY <1>0, <1>5, <2>0 DEF Send, Go
  <2>2. /\ waiting' \in [Clients -> Seq(Clients)]
        /\ \A j \in Clients : waiting[j] # <<>> => waiting'[j] # <<>>
    <3>1. CASE Listens(k)
      <4>1. k \in Clients /\ waiting[k] \in Seq(Clients)
        BY <2>0, <3>1 DEF Listens, Keepers, TypeOK
      <4>2. Append(waiting[k], c) \in Seq(Clients) /\ Append(waiting[k], c) # <<>>
        BY <4>1, AppendProperties
      <4> QED BY <2>0, <3>1, <4>1, <4>2 DEF TypeOK
    <3>2. CASE ~Listens(k)
      BY <2>0, <3>2 DEF TypeOK
    <3> QED BY <3>1, <3>2
  <2>3. TypeOK'
    BY <1>0, <2>0, <2>1, <2>2 DEF TypeOK
  <2>4. ASSUME NEW d \in Clients PROVE ClientFrame(d)'
    <3>1. /\ ClientFrame(d) /\ pc'[c] = to /\ (d # c => pc'[d] = pc[d] /\ info'[d] = info[d])
          /\ waiting[d] # <<>> => waiting'[d] # <<>>
      BY <1>0, <2>1, <2>2 DEF Frame
    <3>2. CASE d # c
      BY <2>0, <3>1, <3>2 DEF ClientFrame, On, Alive
    <3>3. CASE d = c
      <4>1. kind[c] = "stop" => info[c] # Nobody
        BY <1>0, <2>0 DEF ClientFrame
      <4> QED BY <2>0, <2>1, <3>1, <3>3, <4>1 DEF ClientFrame, On, Alive
    <3> QED BY <3>2, <3>3
  <2>5. \A e \in Envs : FileFrame(e)'
    BY <2>0, FilesKept
  <2> QED BY <2>3, <2>4, <2>5 DEF Frame
<1>6. CASE Reply(c)
  <2>1. info' \in [Clients -> Keepers] /\ (\A d \in Clients : d # c => info'[d] = info[d]) /\ drops[c] = Nothing
    BY <1>0, <1>6 DEF Reply, ClientFrame
  <2> QED BY <1>0, <1>6, <2>1, MoveFrame DEF Reply, Go, PcValues
<1>7. CASE Terminate(c) \/ Await(c)
  <2> DEFINE dropping == [drops EXCEPT ![c] = [parts |-> {"file", "socket"}, of |-> {env[c]}]]
  <2>0. /\ pc[c] \in {"term", "wait"} /\ info[c] \in Clients /\ kind[c] = "stop" /\ drops[c] = Nothing
        /\ UNCHANGED <<kind, env, file, sock, crashes, disturbed>> /\ keeper[c] = "none"
    BY <1>0, <1>7 DEF Terminate, Await, ClientFrame, Keepers
  <2>1. PICK to \in {"wait", "remove"} :
           /\ pc' = [pc EXCEPT ![c] = to]
           /\ to = "wait" => UNCHANGED <<drops, info>>
           /\ to = "remove" => drops' = dropping /\ info' = [info EXCEPT ![c] = Nobody]
    BY <1>7 DEF Terminate, Await, Go, Drop
  <2>2. /\ drops' \in [Clients -> [parts : SUBSET {"file", "socket"}, of : SUBSET Envs]]
        /\ info' \in [Clients -> Keepers]
        /\ \A d \in Clients : d # c => drops'[d] = drops[d] /\ info'[d] = info[d]
        /\ to = "wait" => drops'[c] = Nothing /\ info'[c] # Nobody
        /\ to = "remove" => drops'[c].of = {env[c]}
    <3>1. /\ dropping \in [Clients -> [parts : SUBSET {"file", "socket"}, of : SUBSET Envs]] /\ dropping[c].of = {env[c]}
          /\ \A d \in Clients : d # c => dropping[d] = drops[d]
      BY <1>0, DroppingType
    <3> HIDE DEF dropping
    <3>2. CASE to = "wait"
      BY <1>0, <2>0, <2>1, <3>2
    <3>3. CASE to = "remove"
      <4>1. drops' = dropping /\ info' = [info EXCEPT ![c] = Nobody]
        BY <2>1, <3>3
      <4>2. info' \in [Clients -> Keepers] /\ \A d \in Clients : d # c => info'[d] = info[d]
        BY <1>0, <4>1
      <4> QED BY <3>1, <3>3, <4>1, <4>2
    <3> QED BY <3>2, <3>3
  <2> HIDE DEF dropping
  <2>3. CASE UNCHANGED machines
    BY <1>0, <2>0, <2>1, <2>2, <2>3, MoveFrame DEF PcValues
  <2>a. ASSUME NEW d \in Clients
        PROVE  ClientFrame(d) /\ pc'[c] = to /\ (d # c => pc'[d] = pc[d] /\ drops'[d] = drops[d] /\ info'[d] = info[d])
    BY <1>0, <2>1, <2>2 DEF Frame
  <2>4. CASE asked' = asked \cup (IF On(info[c]) THEN {info[c]} ELSE {}) /\ UNCHANGED <<keeper, vm, waiting, opened>>
    <3>1. asked' \subseteq Clients
      BY <2>0, <2>4 DEF TypeOK
    <3>2. TypeOK'
      BY <2>0, <2>1, <2>2, <2>4, <3>1 DEF TypeOK
    <3>3. ASSUME NEW d \in Clients PROVE ClientFrame(d)'
      BY <2>0, <2>2, <2>4, <2>a DEF ClientFrame, On, Alive
    <3>4. \A e \in Envs : FileFrame(e)'
      BY <2>0, <2>4, FilesKept
    <3> QED BY <3>2, <3>3, <3>4 DEF Frame
  <2>5. CASE Alive(info[c]) /\ Kill(info[c])
    <3>1. /\ keeper' \in [Clients -> KeeperValues]
          /\ vm' \in [Clients -> {"off", "booting", "listening", "idle", "busy"}]
          /\ waiting' \in [Clients -> Seq(Clients)]
          /\ asked' \subseteq Clients /\ opened' \in [Clients -> Keepers]
          /\ keeper'[info[c]] = "gone" /\ vm'[info[c]] = "off"
          /\ \A j \in Clients : j # info[c] => /\ keeper'[j] = keeper[j] /\ vm'[j] = vm[j]
                                               /\ waiting'[j] = waiting[j] /\ opened'[j] = opened[j]
      BY <2>0, <2>5, Killing
    <3>2. TypeOK'
      BY <2>0, <2>1, <2>2, <3>1 DEF TypeOK, KeeperValues
    <3>3. ASSUME NEW d \in Clients PROVE ClientFrame(d)'
      <4>1. CASE d = c
        <5>1. info[c] # c /\ keeper'[c] = "none" /\ vm'[c] = vm[c]
          BY <2>0, <2>5, <3>1 DEF Alive
        <5>2. vm[c] = "off"
          BY <1>0, <2>0 DEF ClientFrame, On
        <5>3. /\ pc'[c] \in {"wait", "remove"} /\ kind'[c] = "stop" /\ env'[c] = env[c]
              /\ pc'[c] = "wait" => drops'[c] = Nothing /\ info'[c] # Nobody
              /\ pc'[c] = "remove" => drops'[c].of = {env[c]}
          BY <2>0, <2>2, <2>a
        <5> QED BY <4>1, <5>1, <5>2, <5>3 DEF ClientFrame, On
      <4>2. CASE d # c
        <5>1. pc'[d] = pc[d] /\ drops'[d] = drops[d] /\ info'[d] = info[d] /\ kind'[d] = kind[d] /\ env'[d] = env[d] /\ ClientFrame(d)
          BY <2>0, <2>a, <4>2
        <5>2. CASE d # info[c]
          BY <3>1, <5>1, <5>2 DEF ClientFrame, On
        <5>3. CASE d = info[c]
          <6>1. keeper'[d] = "gone" /\ vm'[d] = "off" /\ keeper[d] # "none"
            BY <2>5, <3>1, <5>3 DEF Alive
          <6> QED BY <5>1, <6>1 DEF ClientFrame, On
        <5> QED BY <5>2, <5>3
      <4> QED BY <4>1, <4>2
    <3>4. \A e \in Envs : FileFrame(e)'
      BY <2>0, <3>1, FilesKept
    <3> QED BY <3>2, <3>3, <3>4 DEF Frame
  <2>6. UNCHANGED machines \/ (asked' = asked \cup (IF On(info[c]) THEN {info[c]} ELSE {}) /\ UNCHANGED <<keeper, vm, waiting, opened>>)
        \/ (Alive(info[c]) /\ Kill(info[c]))
    <3>1. CASE Await(c)
      BY <3>1 DEF Await
    <3>2. CASE Terminate(c)
      BY <3>2 DEF Terminate, Alive
    <3> QED BY <1>7, <3>1, <3>2
  <2> QED BY <2>3, <2>4, <2>5, <2>6
<1> QED BY <1>1, <1>2, <1>3, <1>4, <1>5, <1>6, <1>7 DEF Client

LEMMA NextFrame ==
  ASSUME TypeOK, Frame, [Next]_vars
  PROVE  TypeOK' /\ Frame'
<1>1. CASE Begin
  <2>1. PICK c \in Clients : pc[c] = "none" /\ Go(c, "clean")
    BY <1>1 DEF Begin
  <2>2. disturbed' \subseteq Envs
    BY <1>1 DEF Begin, TypeOK, Overlapping, Active
  <2>3. keeper[c] = "none" /\ drops[c] = Nothing
    BY <2>1 DEF Frame, ClientFrame
  <2>4. /\ UNCHANGED <<kind, env, drops, info, machines, file, sock, crashes>>
        /\ info \in [Clients -> Keepers] /\ file \in [Envs -> [by : Keepers, names : Keepers]] /\ sock \in [Envs -> Keepers]
        /\ drops \in [Clients -> [parts : SUBSET {"file", "socket"}, of : SUBSET Envs]]
    BY <1>1 DEF Begin, TypeOK
  <2>5. pc' = [pc EXCEPT ![c] = "clean"] /\ "clean" \in PcValues
    BY <2>1 DEF Go, PcValues
  <2> QED BY <2>2, <2>3, <2>4, <2>5, MoveFrame
<1>2. ASSUME NEW c \in Clients, Client(c) \/ Keeper(c) \/ Guest(c) \/ Crash(c) PROVE TypeOK' /\ Frame'
  BY <1>2, ClientsFrame, KeeperFrame, GuestFrame
<1>3. CASE UNCHANGED vars
  BY <1>3 DEF vars, clients, machines, TypeOK, Frame, ClientFrame, FileFrame, On, Alive
<1> QED BY <1>1, <1>2, <1>3 DEF Next

-----------------------------------------------------------------------------
(* What holds of an environment that is not disturbed.                      *)

Calm(e) == e \notin disturbed

(* A keeper has its place until it has begun to remove its session.         *)
Holds(k) == Alive(k) /\ keeper[k] # "leaving"
Lives(k, e) == env[k] = e /\ Holds(k)

(* A start in a calm environment is the only command there is. *)
Solo == \A c \in Active : kind[c] = "start" /\ Calm(env[c]) => Active = {c}

(* A calm environment has one living keeper at most. *)
OneLiving == \A j, k \in Clients : env[j] = env[k] /\ Holds(j) /\ Holds(k) /\ Calm(env[k]) => j = k

(* Once the start that forked it has returned, a living keeper can be found; *)
(* until then nobody else has made a socket in its place.                   *)
Registered(k) == Holds(k) /\ Calm(env[k]) /\ pc[k] # "poll" => file[env[k]].names = k /\ sock[env[k]] = k
OwnSocket(k) == Holds(k) /\ keeper[k] # "setup" /\ Calm(env[k]) => sock[env[k]] \in {k, Nobody}

(* A start waits for the only keeper; a stop has read of the only one; and  *)
(* what commands and keepers delete otherwise are the files of environments *)
(* without one.                                                             *)
Polling(c) == pc[c] = "poll" /\ Calm(env[c]) => \A k \in Clients : Lives(k, env[c]) => k = c
Stopping(c) ==
  pc[c] \in {"send", "term", "wait"} /\ kind[c] = "stop" /\ Calm(env[c]) =>
    \A k \in Clients : Lives(k, env[c]) => k = info[c]
Dropping(c) ==
  drops[c] # Nothing /\ pc[c] # "poll" =>
    \A e \in drops[c].of : Calm(e) => \A k \in Clients : ~Lives(k, e)
Leaving(k) ==
  keeper[k] = "leaving" /\ Calm(env[k]) => \A j \in Clients : ~Lives(j, env[k])

CalmInv == /\ Solo /\ OneLiving
           /\ \A c \in Clients : Registered(c) /\ OwnSocket(c) /\ Polling(c) /\ Stopping(c) /\ Dropping(c) /\ Leaving(c)

(* Nothing of it speaks of VMs and connections. *)
LEMMA UndisturbedKept ==
  ASSUME CalmInv, UNCHANGED <<clients, keeper, file, sock, disturbed>>
  PROVE  CalmInv'
BY DEF CalmInv, clients, Calm, Lives, Solo, OneLiving, Registered, OwnSocket, Polling, Stopping, Dropping, Leaving, Holds, Alive, Active

(* A step that forks no keeper and begins no command. *)
Shrinking ==
  /\ UNCHANGED <<kind, env>> /\ disturbed \subseteq disturbed'
  /\ \A k \in Clients : Holds(k)' => Holds(k)
  /\ \A c \in Clients : c \in Active' => c \in Active

LEMMA ShrinkingKept ==
  ASSUME TypeOK, CalmInv, Shrinking
  PROVE  Solo' /\ OneLiving'
<1>1. Active' \subseteq Active
  BY DEF Shrinking, Active
<1>2. \A e \in Envs : Calm(e)' => Calm(e)
  BY DEF Calm, Shrinking
<1>3. UNCHANGED <<kind, env>> /\ \A k \in Clients : env[k] \in Envs /\ (Holds(k)' => Holds(k))
  BY DEF Shrinking, TypeOK
<1>4. Solo'
  <2> SUFFICES ASSUME NEW c \in Active', kind'[c] = "start", Calm(env[c])' PROVE Active' = {c}
    BY <1>3 DEF Solo, Calm
  <2>1. c \in Active /\ c \in Clients /\ Calm(env[c])
    BY <1>1, <1>2, <1>3 DEF Active
  <2>2. Active = {c}
    BY <1>3, <2>1 DEF CalmInv, Solo
  <2> QED BY <1>1, <2>2
<1>5. OneLiving'
  BY <1>2, <1>3 DEF CalmInv, OneLiving, Calm
<1> QED BY <1>4, <1>5

(* The rest is kept for a client that does not take a step, whose files and *)
(* sockets are left alone.                                                  *)
LEMMA OthersKept ==
  ASSUME TypeOK, CalmInv, Shrinking, NEW c \in Clients, pc'[c] = pc[c], info'[c] = info[c], drops'[c] = drops[c]
  PROVE  Polling(c)' /\ Stopping(c)' /\ Dropping(c)'
<1>1. \A e \in Envs : Calm(e)' => Calm(e)
  BY DEF Calm, Shrinking
<1>2. UNCHANGED <<kind, env>> /\ env[c] \in Envs /\ drops[c].of \subseteq Envs /\ \A k \in Clients : \A e \in Envs : Lives(k, e)' => Lives(k, e)
  BY DEF Shrinking, TypeOK, Lives
<1>3. Polling(c) /\ Stopping(c) /\ Dropping(c)
  BY DEF CalmInv
<1>4. Polling(c)'
  BY <1>1, <1>2, <1>3 DEF Polling
<1>5. Stopping(c)'
  BY <1>1, <1>2, <1>3 DEF Stopping
<1>6. Dropping(c)'
  BY <1>1, <1>2, <1>3 DEF Dropping
<1> QED BY <1>4, <1>5, <1>6

LEMMA LeaversKept ==
  ASSUME TypeOK, CalmInv, Shrinking, NEW k \in Clients, keeper'[k] = "leaving" => keeper[k] = "leaving"
  PROVE  Leaving(k)'
<1>1. /\ \A e \in Envs : (Calm(e)' => Calm(e)) /\ \A j \in Clients : Lives(j, e)' => Lives(j, e)
      /\ env[k] \in Envs /\ env' = env /\ Leaving(k)
  BY DEF Calm, Shrinking, Lives, TypeOK, CalmInv
<1> QED BY <1>1 DEF Leaving

LEMMA KeepersKept ==
  ASSUME TypeOK, CalmInv, Shrinking, NEW k \in Clients,
         keeper'[k] # "setup" => keeper[k] # "setup",
         pc'[k] # "poll" => pc[k] # "poll",
         Lives(k, env[k])' /\ Calm(env[k])' /\ pc'[k] # "poll" =>
           file'[env[k]].names = file[env[k]].names /\ sock'[env[k]] = sock[env[k]],
         Lives(k, env[k])' /\ Calm(env[k])' => sock'[env[k]] \in {sock[env[k]], Nobody}
  PROVE  Registered(k)' /\ OwnSocket(k)'
<1>1. Calm(env[k])' => Calm(env[k])
  BY DEF Calm, Shrinking
<1>2. env' = env /\ (Holds(k)' => Holds(k)) /\ Registered(k) /\ OwnSocket(k)
  BY DEF Shrinking, CalmInv
<1> QED BY <1>1, <1>2 DEF Registered, OwnSocket, Lives

(* A command that looks at an environment sees the living keeper: if the    *)
(* start that forked it had not returned, there would be no other command.  *)
LEMMA Seen ==
  ASSUME TypeOK, Frame, CalmInv, NEW c \in Clients, pc[c] \notin {"none", "poll", "done"},
         NEW e \in Envs, Calm(e), NEW k \in Clients, Lives(k, e)
  PROVE  file[e].names = k /\ sock[e] = k
<1>1. pc[k] # "poll"
  <2> SUFFICES ASSUME pc[k] = "poll" PROVE FALSE
    OBVIOUS
  <2>1. k \in Active /\ c \in Active /\ kind[k] = "start" /\ Calm(env[k])
    BY DEF Active, Frame, ClientFrame, Lives
  <2> QED BY <2>1 DEF CalmInv, Solo
<1> QED BY <1>1 DEF CalmInv, Registered, Lives

-----------------------------------------------------------------------------
(* The keeper's steps.                                                      *)

LEMMA StartedOnly ==
  ASSUME TypeOK, Frame, CalmInv, NEW k \in Clients, Holds(k), keeper[k] \notin {"wait", "deaf", "armed", "ending"}, Calm(env[k])
  PROVE  pc[k] = "poll"
<1> SUFFICES ASSUME pc[k] # "poll" PROVE FALSE
  OBVIOUS
<1>1. file[env[k]].names = k
  BY DEF CalmInv, Registered
<1>2. k # Nobody /\ env[k] \in Envs
  BY ClientsAreSome DEF TypeOK
<1>3. keeper[k] \in {"wait", "deaf", "armed", "ending", "leaving", "gone"}
  BY <1>1, <1>2 DEF Frame, FileFrame
<1> QED BY <1>3 DEF Holds, Alive

LEMMA KeeperCalm ==
  ASSUME TypeOK, Frame, CalmInv, NEW k \in Clients, Keeper(k) \/ Crash(k)
  PROVE  CalmInv'
<1>0. UNCHANGED clients /\ env[k] \in Envs
  BY DEF Keeper, Setup, Ready, BootFails, Open, Write, Handle, Arm, Unregister, UnlinkSocket, UnlinkFile, Crash, TypeOK
<1>1. Alive(k) /\ \A j \in Clients : j # k => keeper'[j] = keeper[j]
  BY DEF Keeper, Setup, Ready, BootFails, Open, Write, Handle, Arm, Unregister, UnlinkSocket, UnlinkFile, Crash, TypeOK, Kill, Alive
<1>2. disturbed \subseteq disturbed'
  BY DEF Keeper, Setup, Ready, BootFails, Open, Write, Handle, Arm, Unregister, UnlinkSocket, UnlinkFile, Crash
<1>h. /\ Holds(k)' => Holds(k)
      /\ keeper'[k] = "leaving" => keeper[k] \in {"armed", "ending"}
  BY DEF Keeper, Setup, Ready, BootFails, Open, Write, Handle, Arm, Unregister, UnlinkSocket, UnlinkFile, Crash, TypeOK, Kill, Holds, Alive
<1>3. Shrinking
  <2>1. \A j \in Clients : Holds(j)' => Holds(j)
    BY <1>1, <1>h DEF Holds, Alive
  <2> QED BY <1>0, <1>2, <2>1 DEF Shrinking, clients, Active
<1>4. \A c \in Clients : Polling(c)' /\ Stopping(c)' /\ Dropping(c)'
  BY <1>0, <1>3, OthersKept DEF clients
<1>5. Solo' /\ OneLiving'
  BY <1>3, ShrinkingKept
<1>s. \A e \in Envs : Calm(e)' => Calm(e)
  BY <1>2 DEF Calm
<1>o. \A j \in Clients : j # k /\ Lives(j, env[j])' /\ Calm(env[j])' => env[j] # env[k]
  <2> SUFFICES ASSUME NEW j \in Clients, j # k, Lives(j, env[j])', Calm(env[j])', env[j] = env[k] PROVE FALSE
    OBVIOUS
  <2>1. Calm(env[k]) /\ Holds(j)
    BY <1>0, <1>1, <1>s DEF Lives, Holds, Alive, clients, Calm
  <2>2. CASE keeper[k] = "leaving"
    BY <2>1, <2>2 DEF CalmInv, Leaving, Lives
  <2>3. CASE keeper[k] # "leaving"
    BY <1>1, <2>1, <2>3 DEF CalmInv, OneLiving, Holds
  <2> QED BY <2>2, <2>3
<1>l. ASSUME NEW j \in Clients PROVE Leaving(j)'
  <2>1. CASE keeper'[j] = "leaving" => keeper[j] = "leaving"
    BY <1>3, <2>1, LeaversKept
  <2>2. CASE j = k /\ keeper'[k] = "leaving"
    <3> SUFFICES ASSUME Calm(env[k])', NEW i \in Clients, Lives(i, env[k])' PROVE FALSE
      BY <1>0, <2>2 DEF Leaving, clients, Calm, Lives
    <3>1. i # k
      BY <2>2 DEF Lives, Holds
    <3>2. env[i] = env[k] /\ Lives(i, env[i])' /\ Calm(env[i])'
      BY <1>0 DEF Lives, clients, Calm
    <3> QED BY <1>o, <3>1, <3>2
  <2> QED BY <1>1, <2>1, <2>2
<1>6. ASSUME NEW j \in Clients PROVE Registered(j)' /\ OwnSocket(j)'
  <2>0. pc' = pc /\ env' = env /\ env[j] \in Envs
    BY <1>0 DEF clients, TypeOK
  <2>1. CASE Setup(k)
    <3>1. CASE j = k
      <4>1. Calm(env[k]) => pc[k] = "poll"
        BY <1>1, <2>1, StartedOnly DEF Setup, Holds
      <4>2. sock'[env[k]] = k
        BY <1>0, <2>1 DEF Setup
      <4> QED BY <1>s, <2>0, <3>1, <4>1, <4>2 DEF Registered, OwnSocket, Calm
    <3>2. CASE j # k
      <4>1. ~(Holds(j)' /\ Calm(env[j])')
        <5> SUFFICES ASSUME Holds(j)', Calm(env[j])' PROVE FALSE
          OBVIOUS
        <5>1. env[j] # env[k] /\ Alive(j)
          BY <1>1, <1>o, <2>0, <3>2 DEF Lives, Holds, Alive
        <5>2. env[j] \in disturbed'
          BY <2>1, <5>1 DEF Setup
        <5> QED BY <2>0, <5>2 DEF Calm
      <4> QED BY <2>0, <4>1 DEF Registered, OwnSocket, Calm
    <3> QED BY <3>1, <3>2
  <2>2. CASE Ready(k) \/ BootFails(k) \/ Handle(k) \/ Arm(k) \/ Unregister(k) \/ Crash(k)
    <3>1. UNCHANGED <<file, sock>>
      BY <2>2 DEF Ready, BootFails, Handle, Arm, Unregister, Crash
    <3>2. keeper'[j] # "setup" => keeper[j] # "setup"
      BY <1>1, <2>2 DEF Ready, BootFails, Handle, Arm, Unregister, Crash
    <3> QED BY <1>3, <2>0, <3>1, <3>2, KeepersKept
  <2>3. CASE Open(k) \/ Write(k)
    <3>1. sock' = sock /\ \A e \in Envs : e # env[k] => file'[e] = file[e]
      BY <1>0, <2>3 DEF Open, Write, TypeOK
    <3>2. keeper'[j] # "setup" => keeper[j] # "setup"
      BY <1>1, <2>3 DEF Open, Write
    <3>3. j = k /\ Calm(env[k])' => pc[k] = "poll"
      <4>1. Calm(env[k])' => Calm(env[k])
        BY <1>0, <1>s, <2>0 DEF Calm
      <4> QED BY <1>1, <2>3, <4>1, StartedOnly DEF Open, Write, Holds
    <3>4. Lives(j, env[j])' /\ Calm(env[j])' /\ pc'[j] # "poll" => file'[env[j]].names = file[env[j]].names
      BY <1>o, <2>0, <3>1, <3>3 DEF Calm
    <3> QED BY <1>3, <2>0, <3>1, <3>2, <3>4, KeepersKept
  <2>4. CASE UnlinkSocket(k) \/ UnlinkFile(k)
    <3>1. CASE j = k
      <4>1. ~Holds(k)'
        BY <2>4 DEF UnlinkSocket, UnlinkFile, Holds, Alive, TypeOK
      <4> QED BY <3>1, <4>1 DEF Registered, OwnSocket
    <3>2. CASE j # k
      <4>1. \A e \in Envs : e # env[k] => file'[e] = file[e] /\ sock'[e] = sock[e]
        BY <2>4 DEF UnlinkSocket, UnlinkFile, Deleted
      <4>2. keeper'[j] = keeper[j]
        BY <1>1, <3>2
      <4>3. Lives(j, env[j])' /\ Calm(env[j])' => file'[env[j]] = file[env[j]] /\ sock'[env[j]] = sock[env[j]]
        BY <1>o, <2>0, <3>2, <4>1 DEF Calm
      <4> QED BY <1>3, <2>0, <4>2, <4>3, KeepersKept
    <3> QED BY <3>1, <3>2
  <2> QED BY <2>1, <2>2, <2>3, <2>4 DEF Keeper
<1> QED BY <1>4, <1>5, <1>6, <1>l DEF CalmInv

-----------------------------------------------------------------------------
(* The commands' steps.                                                     *)

(* A step of a command that forks no keeper. *)
LEMMA StepCalm ==
  ASSUME TypeOK, Frame, CalmInv, NEW c \in Clients, c \in Active,
         \A d \in Clients : d # c => pc'[d] = pc[d] /\ info'[d] = info[d] /\ drops'[d] = drops[d],
         UNCHANGED <<kind, env>>, disturbed \subseteq disturbed',
         \A k \in Clients : keeper'[k] = keeper[k] \/ keeper'[k] = "gone",
         Polling(c)', Stopping(c)', Dropping(c)',
         \A k \in Clients : Lives(k, env[k])' /\ Calm(env[k])' /\ pc[k] # "poll" =>
              file'[env[k]].names = file[env[k]].names /\ sock'[env[k]] = sock[env[k]],
         \A k \in Clients : Lives(k, env[k])' /\ Calm(env[k])' => sock'[env[k]] \in {sock[env[k]], Nobody},
         pc[c] = "poll" => pc'[c] = "poll" \/ Registered(c)'
  PROVE  CalmInv'
<1>1. Shrinking
  <2>1. \A d \in Clients : d \in Active' => d \in Active
    BY DEF Active
  <2> QED BY <2>1 DEF Shrinking, Holds, Alive
<1>2. Solo' /\ OneLiving'
  BY <1>1, ShrinkingKept
<1>3. \A d \in Clients : Polling(d)' /\ Stopping(d)' /\ Dropping(d)'
  BY <1>1, OthersKept
<1>4. ASSUME NEW k \in Clients PROVE Registered(k)' /\ OwnSocket(k)'
  <2>0. Calm(env[k])' => Calm(env[k])
    BY <1>1 DEF Shrinking, Calm
  <2>1. Registered(k) /\ OwnSocket(k) /\ (Holds(k)' => Holds(k)) /\ (keeper'[k] # "setup" /\ Holds(k)' => keeper[k] # "setup")
    BY <1>1 DEF CalmInv, Shrinking, Holds, Alive
  <2>2. OwnSocket(k)'
    BY <2>0, <2>1 DEF OwnSocket, Lives
  <2>3. Registered(k)'
    <3>1. CASE pc[k] # "poll"
      BY <2>0, <2>1, <3>1 DEF Registered, Lives
    <3>2. CASE pc'[k] = "poll"
      BY <3>2 DEF Registered
    <3> QED BY <3>1, <3>2
  <2> QED BY <2>2, <2>3
<1>5. \A k \in Clients : Leaving(k)'
  BY <1>1, LeaversKept
<1> QED BY <1>2, <1>3, <1>4, <1>5 DEF CalmInv

(* The fork: there is no living keeper, and no other command. *)
LEMMA ForkCalm ==
  ASSUME TypeOK, Frame, CalmInv, NEW c \in Clients, Forks(c),
         UNCHANGED <<kind, env, info>>,
         drops'[c] = Nothing, \A d \in Clients : d # c => drops'[d] = drops[d],
         Calm(env[c]) => \A k \in Clients : ~Lives(k, env[c]),
         \A k \in Clients : Lives(k, env[k]) /\ Calm(env[k]) => file'[env[k]] = file[env[k]] /\ sock'[env[k]] = sock[env[k]]
  PROVE  CalmInv'
<1>0. /\ keeper[c] = "none" /\ keeper'[c] = "setup" /\ pc'[c] = "poll" /\ c \in Active
      /\ \A d \in Clients : d # c => keeper'[d] = keeper[d] /\ pc'[d] = pc[d]
  BY DEF Forks, Frame, ClientFrame, TypeOK, Active
<1>1. Active' = Active
  BY <1>0 DEF Active
<1>2. \A k \in Clients : k # c => (Holds(k)' <=> Holds(k))
  BY <1>0 DEF Holds, Alive
<1>3. /\ \A e : Calm(e)' => Calm(e)
      /\ \A k \in Clients : keeper[k] = "leaving" /\ env[k] = env[c] => ~Calm(env[c])'
  BY DEF Calm, Forks, Leavers
<1>4. Calm(env[c]) => Active = {c}
  BY <1>0 DEF CalmInv, Solo, Forks
<1>5. Solo'
  BY <1>1, <1>3 DEF CalmInv, Solo, Calm
<1>6. OneLiving'
  BY <1>2, <1>3 DEF CalmInv, OneLiving, Calm, Lives
<1>7. ASSUME NEW d \in Clients PROVE Registered(d)' /\ OwnSocket(d)' /\ Polling(d)' /\ Stopping(d)' /\ Dropping(d)' /\ Leaving(d)'
  <2>0. Registered(d) /\ OwnSocket(d) /\ Polling(d) /\ Stopping(d) /\ Dropping(d) /\ Leaving(d)
    BY DEF CalmInv
  <2>1. CASE d = c
    <3>1. Registered(d)' /\ OwnSocket(d)' /\ Stopping(d)' /\ Dropping(d)' /\ Leaving(d)'
      BY <1>0, <2>1 DEF Registered, OwnSocket, Stopping, Dropping, Leaving
    <3>2. Polling(d)'
      BY <1>2, <1>3, <2>1 DEF Polling, Lives, Calm
    <3> QED BY <3>1, <3>2
  <2>2. CASE d # c
    <3>0. pc'[d] = pc[d] /\ keeper'[d] = keeper[d] /\ (Holds(d)' <=> Holds(d)) /\ info'[d] = info[d] /\ drops'[d] = drops[d] /\ UNCHANGED <<kind, env>>
      BY <1>0, <1>2, <2>2
    <3>1. Registered(d)' /\ OwnSocket(d)'
      BY <1>3, <2>0, <3>0 DEF Registered, OwnSocket, Calm, Lives
    <3>2. d \in Active => ~Calm(env[c])
      BY <1>4, <2>2
    <3>3. \A e : d \in Active /\ Calm(e) => \A k \in Clients : Lives(k, e)' => Lives(k, e)
      BY <1>2, <3>2 DEF Lives
    <3>4. pc[d] \in {"poll", "send", "term", "wait"} => d \in Active
      BY DEF Active
    <3>5. drops[d] # Nothing => d \in Active
      BY DEF Active, Frame, ClientFrame
    <3>6. Polling(d)'
      BY <1>3, <2>0, <3>0, <3>3, <3>4 DEF Polling
    <3>7. Stopping(d)'
      BY <1>3, <2>0, <3>0, <3>3, <3>4 DEF Stopping
    <3>8. Dropping(d)'
      BY <1>3, <2>0, <3>0, <3>3, <3>5 DEF Dropping
    <3>9. Leaving(d)'
      <4> SUFFICES ASSUME keeper[d] = "leaving", Calm(env[d])', NEW k \in Clients, Lives(k, env[d])' PROVE FALSE
        BY <3>0 DEF Leaving, Calm, Lives
      <4>1. Calm(env[d]) /\ env[d] # env[c]
        BY <1>3, <3>0 DEF Calm
      <4>2. Lives(k, env[d])
        BY <1>2, <3>0, <4>1 DEF Lives
      <4> QED BY <2>0, <4>1, <4>2 DEF Leaving
    <3> QED BY <3>1, <3>6, <3>7, <3>8, <3>9
  <2> QED BY <2>1, <2>2
<1> QED BY <1>5, <1>6, <1>7 DEF CalmInv

LEMMA UselessMeans ==
  ASSUME TypeOK, NEW e \in Envs, Useless(e) # {}
  PROVE  file[e].names = Nobody \/ ~Answers(file[e].names) \/ sock[e] = Nobody
BY DEF Useless

LEMMA UsefulMeans ==
  ASSUME TypeOK, NEW e \in Envs, file[e].by # Nobody, Useless(e) = {}
  PROVE  file[e].names # Nobody /\ Answers(file[e].names) /\ sock[e] # Nobody
BY DEF Useless

(* A step that leaves processes and files alone. *)
LEMMA LookCalm ==
  ASSUME TypeOK, Frame, CalmInv, NEW c \in Clients, c \in Active,
         \A d \in Clients : d # c => pc'[d] = pc[d] /\ info'[d] = info[d] /\ drops'[d] = drops[d],
         UNCHANGED <<kind, env, keeper, file, sock>>, disturbed \subseteq disturbed',
         Polling(c)', Stopping(c)', Dropping(c)',
         pc[c] = "poll" => pc'[c] = "poll" \/ Registered(c)'
  PROVE  CalmInv'
BY StepCalm

LEMMA ClientCalm ==
  ASSUME TypeOK, Frame, CalmInv, NEW c \in Clients, Client(c)
  PROVE  CalmInv'
<1> USE ClientsAreSome
<1>0. /\ ClientFrame(c) /\ env[c] \in Envs /\ FileFrame(env[c])
      /\ pc \in [Clients -> PcValues] /\ kind[c] \in Kinds /\ drops \in [Clients -> [parts : SUBSET {"file", "socket"}, of : SUBSET Envs]]
      /\ info \in [Clients -> Keepers] /\ Dropping(c) /\ Stopping(c) /\ Polling(c) /\ OwnSocket(c)
  BY DEF Frame, TypeOK, PcValues, CalmInv
<1>a. c \in Active
  BY <1>0 DEF Active, Client, CleanStale, Discover, Delete, GiveUp, Send, Reply, Terminate, Await, ClientFrame
<1>e. UNCHANGED <<kind, env>> /\ disturbed \subseteq disturbed'
  <2>1. FoundNone(c) => disturbed \subseteq disturbed'
    BY FoundNoneCases DEF Forks, Quiet
  <2>2. Found(c) => disturbed' = disturbed
    BY DEF Found
  <2> QED BY <2>1, <2>2 DEF Client, CleanStale, Discover, Delete, GiveUp, Send, Reply, Terminate, Await
<1>1. CASE CleanStale(c)
  <2>0. UNCHANGED <<info, machines, file, sock>> /\ pc[c] = "clean" /\ drops[c] = Nothing
    BY <1>1 DEF CleanStale
  <2>1. CASE Go(c, "look") /\ UNCHANGED drops
    <3>1. /\ pc'[c] = "look" /\ drops'[c] = Nothing
          /\ \A d \in Clients : d # c => pc'[d] = pc[d] /\ info'[d] = info[d] /\ drops'[d] = drops[d]
      BY <1>0, <2>0, <2>1 DEF Go
    <3>2. Polling(c)' /\ Stopping(c)' /\ Dropping(c)'
      BY <3>1 DEF Polling, Stopping, Dropping
    <3> QED BY <1>a, <1>e, <2>0, <3>1, <3>2, LookCalm DEF machines
  <2>2. CASE Drop(c, {"file", "socket"}, {e \in Envs : file[e].names # Nobody /\ ~Answers(file[e].names)}) /\ UNCHANGED pc
    <3> DEFINE stale == {e \in Envs : file[e].names # Nobody /\ ~Answers(file[e].names)}
    <3>1. drops'[c].of = stale /\ \A d \in Clients : d # c => drops'[d] = drops[d]
      BY <1>0, <2>2 DEF Drop
    <3>2. ASSUME NEW e \in Envs, e \in stale, Calm(e)', NEW k \in Clients PROVE ~Lives(k, e)'
      <4>1. Calm(e) /\ (Lives(k, e)' => Lives(k, e))
        BY <1>e, <2>0, <3>2 DEF Calm, Lives, Holds, Alive, machines
      <4>2. Lives(k, e) => file[e].names = k
        BY <2>0, <4>1, Seen
      <4> QED BY <3>2, <4>1, <4>2 DEF Lives, Holds, Answers
    <3>3. Dropping(c)'
      BY <3>1, <3>2 DEF Dropping
    <3>4. Polling(c)' /\ Stopping(c)'
      BY <2>0, <2>2 DEF Polling, Stopping
    <3> QED BY <1>a, <1>e, <2>0, <2>2, <3>1, <3>3, <3>4, LookCalm DEF machines
  <2> QED BY <1>1, <2>1, <2>2 DEF CleanStale
<1>2. CASE Discover(c)
  <2>0. /\ pc[c] \in {"look", "poll", "connect"} /\ drops[c] = Nothing
        /\ UNCHANGED <<kind, env, file, sock, crashes>>
    BY <1>2 DEF Discover
  <2>1. CASE Useless(env[c]) # {} /\ Drop(c, Useless(env[c]), {env[c]}) /\ UNCHANGED <<pc, info, machines, disturbed>>
    <3>1. drops'[c].of = {env[c]} /\ \A d \in Clients : d # c => drops'[d] = drops[d]
      BY <1>0, <2>1 DEF Drop
    <3>2. ASSUME pc[c] # "poll", Calm(env[c]), NEW k \in Clients PROVE ~Lives(k, env[c])
      <4>1. Lives(k, env[c]) => file[env[c]].names = k /\ sock[env[c]] = k
        BY <1>0, <2>0, <3>2, Seen
      <4> QED BY <1>0, <2>1, <4>1, UselessMeans DEF Lives, Holds, Answers
    <3>3. Dropping(c)'
      BY <2>0, <2>1, <3>1, <3>2 DEF Dropping, Calm, Lives, Holds, Alive, machines
    <3>4. Polling(c)' /\ Stopping(c)'
      BY <1>0, <2>0, <2>1 DEF Polling, Stopping, Calm, Lives, Holds, Alive, machines
    <3> QED BY <1>a, <1>e, <2>0, <2>1, <3>1, <3>3, <3>4, LookCalm DEF machines
  <2>2. CASE file[env[c]].by = Nobody /\ FoundNone(c) /\ UNCHANGED <<info, drops>>
    <3>1. CASE Forks(c)
      <4>1. ASSUME Calm(env[c]), NEW k \in Clients PROVE ~Lives(k, env[c])
        <5>1. Lives(k, env[c]) => file[env[c]].names = k
          BY <1>0, <2>0, <3>1, <4>1, Seen DEF Forks
        <5> QED BY <1>0, <2>2, <5>1 DEF FileFrame
      <4> QED BY <2>0, <2>2, <3>1, <4>1, ForkCalm
    <3>2. CASE Quiet(c)
      <4>1. /\ pc'[c] = "done" \/ pc'[c] = pc[c]
            /\ \A d \in Clients : d # c => pc'[d] = pc[d]
            /\ UNCHANGED <<machines, disturbed>>
        BY <1>0, <3>2 DEF Quiet
      <4>2. Polling(c)' /\ Stopping(c)' /\ Dropping(c)'
        BY <1>0, <2>0, <2>2, <4>1 DEF Polling, Stopping, Dropping, Calm, Lives, Holds, Alive, machines
      <4>3. pc[c] = "poll" => pc'[c] = "poll"
        BY <2>2, <3>2 DEF FoundNone
      <4> QED BY <1>a, <2>0, <2>2, <4>1, <4>2, <4>3, LookCalm DEF machines
    <3> QED BY <2>2, <3>1, <3>2, FoundNoneCases
  <2>3. CASE file[env[c]].by # Nobody /\ Useless(env[c]) = {} /\ Found(c) /\ UNCHANGED drops
    <3>1. /\ UNCHANGED <<machines, disturbed>>
          /\ info' = [info EXCEPT ![c] = IF kind[c] = "stop" THEN file[env[c]].names ELSE Nobody]
          /\ \/ kind[c] = "install" /\ pc[c] = "look" /\ pc' = [pc EXCEPT ![c] = "connect"]
             \/ (kind[c] = "stop" \/ pc[c] = "connect") /\ pc' = [pc EXCEPT ![c] = "send"]
             \/ pc' = [pc EXCEPT ![c] = "done"]
      BY <2>0, <2>3, FoundCases
    <3>2. /\ pc'[c] \in {"connect", "send", "done"}
          /\ \A d \in Clients : d # c => pc'[d] = pc[d] /\ info'[d] = info[d]
          /\ kind[c] = "stop" => info'[c] = file[env[c]].names
      BY <1>0, <3>1
    <3>3. file[env[c]].names # Nobody /\ Answers(file[env[c]].names) /\ sock[env[c]] # Nobody
      BY <1>0, <2>3, UsefulMeans
    <3>4. Polling(c)' /\ Dropping(c)'
      BY <2>0, <2>3, <3>2 DEF Polling, Dropping
    <3>5. Stopping(c)'
      <4>1. pc[c] # "poll" /\ Calm(env[c]) => \A k \in Clients : Lives(k, env[c]) => file[env[c]].names = k
        BY <1>0, <2>0, Seen
      <4>2. kind[c] = "stop" => pc[c] # "poll"
        BY <1>0 DEF ClientFrame
      <4> QED BY <2>0, <3>1, <3>2, <4>1, <4>2 DEF Stopping, Calm, Lives, Holds, Alive, machines
    <3>6. pc[c] = "poll" => Registered(c)'
      <4> DEFINE k == file[env[c]].names
      <4> SUFFICES ASSUME pc[c] = "poll", Holds(c), Calm(env[c]) PROVE k = c /\ sock[env[c]] = c
        BY <2>0, <3>1 DEF Registered, Calm, Holds, Alive, machines
      <4>1. /\ env[k] = env[c] /\ k \in Clients
            /\ keeper[k] \in {"wait", "deaf", "armed", "ending", "leaving", "gone"}
        BY <1>0, <3>3 DEF FileFrame, TypeOK, Keepers
      <4>2. Answers(k) /\ sock[env[c]] # Nobody
        BY <3>3
      <4> HIDE DEF k
      <4>3. keeper[k] # "leaving"
        BY <4>1 DEF CalmInv, Leaving, Lives
      <4>4. ~(k # c /\ pc[k] = "poll")
        <5> SUFFICES ASSUME k # c, pc[k] = "poll" PROVE FALSE
          OBVIOUS
        <5>1. k \in Active /\ c \in Active /\ kind[k] = "start"
          BY <1>a, <4>1 DEF Active, Frame, ClientFrame
        <5> QED BY <4>1, <5>1 DEF CalmInv, Solo
      <4>5. k = c
        <5>1. CASE Holds(k)
          BY <1>0, <4>1, <5>1 DEF Polling, Lives
        <5>2. CASE ~Holds(k)
          BY <4>2, <4>3, <4>4, <5>2 DEF Holds, Answers
        <5> QED BY <5>1, <5>2
      <4>6. sock[env[c]] \in {c, Nobody}
        BY <1>0, <4>1, <4>5 DEF OwnSocket
      <4> QED BY <4>2, <4>5, <4>6
    <3> QED BY <1>a, <2>0, <2>3, <3>1, <3>2, <3>4, <3>5, <3>6, LookCalm DEF machines
  <2> QED BY <1>2, <2>1, <2>2, <2>3 DEF Discover
<1>3. CASE Delete(c)
  <2> DEFINE part == IF "file" \in drops[c].parts THEN "file" ELSE "socket"
             left == drops[c].parts \ {part}
  <2>0. /\ drops[c] # Nothing /\ Deleted(drops[c].of, part)
        /\ UNCHANGED <<kind, env, info, crashes>>
    BY <1>3 DEF Delete
  <2>2. ASSUME NEW k \in Clients, Lives(k, env[k]), Calm(env[k]), pc[k] # "poll"
        PROVE  file'[env[k]] = file[env[k]] /\ sock'[env[k]] = sock[env[k]]
    <3>0. env[k] \in Envs
      BY DEF TypeOK
    <3>1. env[k] \notin drops[c].of
      <4>1. CASE pc[c] # "poll"
        BY <1>0, <2>0, <2>2, <4>1 DEF Dropping
      <4>2. CASE pc[c] = "poll"
        <5>1. drops[c].of = {env[c]}
          BY <1>0, <2>0, <4>2 DEF ClientFrame
        <5> QED BY <1>0, <2>2, <4>2, <5>1 DEF Polling, Lives
      <4> QED BY <4>1, <4>2
    <3> QED BY <2>0, <3>0, <3>1 DEF Deleted
  <2>3. \A k \in Clients : sock'[env[k]] \in {sock[env[k]], Nobody}
    BY <2>0 DEF Deleted, TypeOK
  <2>p. pc[c] \in {"clean", "look", "poll", "connect", "remove"}
    BY <1>0, <2>0 DEF ClientFrame
  <2>4. CASE left # {} /\ Drop(c, left, drops[c].of) /\ UNCHANGED <<pc, machines, disturbed>>
    <3>1. drops'[c].of = drops[c].of /\ \A d \in Clients : d # c => drops'[d] = drops[d]
      BY <1>0, <2>4 DEF Drop
    <3> HIDE DEF left, part
    <3>2. Polling(c)' /\ Stopping(c)' /\ Dropping(c)'
      BY <1>0, <2>0, <2>4, <3>1 DEF Polling, Stopping, Dropping, Calm, Lives, Holds, Alive, machines
    <3>3. UNCHANGED keeper /\ \A k \in Clients : Lives(k, env[k])' /\ Calm(env[k])' => Lives(k, env[k]) /\ Calm(env[k])
      BY <2>0, <2>4 DEF Lives, Calm, Holds, Alive, machines
    <3> QED BY <1>a, <1>e, <2>0, <2>2, <2>3, <2>4, <3>1, <3>2, <3>3, StepCalm
  <2>5. CASE /\ drops' = [drops EXCEPT ![c] = Nothing]
             /\ CASE pc[c] = "clean" -> Go(c, "look") /\ UNCHANGED <<machines, disturbed>>
                  [] pc[c] = "remove" -> Go(c, "done") /\ UNCHANGED <<machines, disturbed>>
                  [] OTHER -> FoundNone(c)
    <3>0. drops'[c] = Nothing /\ \A d \in Clients : d # c => drops'[d] = drops[d]
      BY <1>0, <2>5
    <3>1. CASE Quiet(c) \/ \E to \in {"look", "done"} : Go(c, to) /\ pc[c] \in {"clean", "remove"} /\ UNCHANGED <<machines, disturbed>>
      <4>1. /\ pc'[c] \in {"done", "look"} \/ pc'[c] = pc[c]
            /\ \A d \in Clients : d # c => pc'[d] = pc[d]
            /\ UNCHANGED <<machines, disturbed>>
        BY <1>0, <3>1 DEF Quiet, Go
      <4>2. pc[c] = "poll" => pc'[c] = "poll"
        BY <2>5 DEF FoundNone
      <4>3. Polling(c)' /\ Stopping(c)' /\ Dropping(c)'
        BY <1>0, <2>0, <2>p, <3>0, <4>1 DEF Polling, Stopping, Dropping, Calm, Lives, Holds, Alive, machines
      <4>4. UNCHANGED keeper /\ \A k \in Clients : Lives(k, env[k])' /\ Calm(env[k])' => Lives(k, env[k]) /\ Calm(env[k])
        BY <2>0, <4>1 DEF Lives, Calm, Holds, Alive, machines
      <4> HIDE DEF left, part
      <4> QED BY <1>a, <1>e, <2>0, <2>2, <2>3, <3>0, <4>1, <4>2, <4>3, <4>4, StepCalm
    <3>2. CASE Forks(c)
      <4>1. drops[c].of = {env[c]} /\ pc[c] = "look"
        BY <1>0, <2>0, <3>2 DEF Forks, ClientFrame
      <4>2. Calm(env[c]) => \A k \in Clients : ~Lives(k, env[c])
        BY <1>0, <2>0, <4>1 DEF Dropping
      <4>3. ASSUME NEW k \in Clients, Lives(k, env[k]), Calm(env[k])
            PROVE  file'[env[k]] = file[env[k]] /\ sock'[env[k]] = sock[env[k]]
        <5>1. env[k] # env[c] /\ env[k] \in Envs
          BY <4>2, <4>3 DEF TypeOK
        <5> QED BY <2>0, <4>1, <5>1 DEF Deleted
      <4> HIDE DEF left, part
      <4> QED BY <2>0, <3>0, <3>2, <4>2, <4>3, ForkCalm
    <3> QED BY <2>5, <3>1, <3>2, FoundNoneCases
  <2> QED BY <1>3, <2>4, <2>5 DEF Delete
<1>4. CASE GiveUp(c)
  <2>1. /\ pc'[c] = "done" /\ drops'[c] = Nothing /\ env[c] \in disturbed' /\ UNCHANGED <<drops, info, machines, file, sock>>
        /\ \A d \in Clients : d # c => pc'[d] = pc[d]
    BY <1>0, <1>4 DEF GiveUp, Go
  <2>2. Polling(c)' /\ Stopping(c)' /\ Dropping(c)'
    BY <2>1 DEF Polling, Stopping, Dropping
  <2>3. Registered(c)'
    BY <1>e, <2>1 DEF Registered, Calm
  <2> QED BY <1>a, <1>e, <2>1, <2>2, <2>3, LookCalm DEF machines
<1>5. CASE Send(c) \/ Reply(c)
  <2>1. /\ pc[c] \in {"send", "reply"} /\ UNCHANGED <<drops, keeper, file, sock, disturbed>> /\ drops[c] = Nothing
        /\ pc'[c] \in {"term", "reply", "done"}
        /\ pc'[c] = "term" => kind[c] = "stop" /\ pc[c] = "send" /\ info' = info
        /\ \A d \in Clients : d # c => pc'[d] = pc[d] /\ info'[d] = info[d]
    BY <1>0, <1>5 DEF Send, Reply, Go, ClientFrame, machines
  <2>2. Polling(c)' /\ Dropping(c)'
    BY <2>1 DEF Polling, Dropping
  <2>3. Stopping(c)'
    BY <1>0, <1>e, <2>1 DEF Stopping, Calm, Lives, Holds, Alive
  <2> QED BY <1>a, <1>e, <2>1, <2>2, <2>3, LookCalm
<1>7. CASE Terminate(c) \/ Await(c)
  <2>0. /\ pc[c] \in {"term", "wait"} /\ info[c] \in Clients /\ kind[c] = "stop" /\ drops[c] = Nothing
        /\ UNCHANGED <<file, sock, disturbed>>
        /\ pc'[c] = (IF pc[c] = "term" THEN "wait" ELSE "remove")
        /\ pc[c] = "term" => UNCHANGED <<drops, info>>
        /\ pc[c] = "wait" => drops'[c].of = {env[c]}
        /\ \A d \in Clients : d # c => pc'[d] = pc[d] /\ info'[d] = info[d] /\ drops'[d] = drops[d]
    BY <1>0, <1>7 DEF Terminate, Await, ClientFrame, Keepers, Go, Drop
  <2>1. \A k \in Clients : keeper'[k] = keeper[k] \/ keeper'[k] = "gone"
    BY <1>7, <2>0 DEF Terminate, Await, Kill, machines, TypeOK
  <2>2. pc[c] = "wait" => keeper'[info[c]] \in {"none", "gone"}
    BY <1>7, <2>0 DEF Terminate, Await, Kill, machines, TypeOK, Alive
  <2>3. Calm(env[c]) => \A k \in Clients : Lives(k, env[c])' => k = info[c]
    BY <1>0, <1>e, <2>0, <2>1 DEF Stopping, Lives, Holds, Alive
  <2>4. Polling(c)' /\ Stopping(c)'
    BY <1>e, <2>0, <2>3 DEF Polling, Stopping, Calm, Lives, Holds, Alive
  <2>5. Dropping(c)'
    BY <1>e, <2>0, <2>2, <2>3 DEF Dropping, Calm, Lives, Holds, Alive
  <2> QED BY <1>a, <1>e, <2>0, <2>1, <2>4, <2>5, StepCalm
<1> QED BY <1>1, <1>2, <1>3, <1>4, <1>5, <1>7 DEF Client

LEMMA BeginCalm ==
  ASSUME TypeOK, Frame, CalmInv, Begin
  PROVE  CalmInv'
<1>1. PICK c \in Clients : /\ pc[c] = "none" /\ Go(c, "clean")
                           /\ disturbed' = disturbed \cup {env[d] : d \in Overlapping(c)}
  BY DEF Begin
<1>2. /\ UNCHANGED <<kind, env, drops, info, keeper, file, sock>> /\ keeper[c] = "none" /\ drops[c] = Nothing
      /\ pc'[c] = "clean" /\ \A d \in Clients : d # c => pc'[d] = pc[d]
  BY <1>1 DEF Begin, machines, Frame, ClientFrame, Go, TypeOK
<1>3. Active' = Active \cup {c}
  BY <1>2 DEF Active
<1>4. \A e : Calm(e)' => Calm(e)
  BY <1>1 DEF Calm
<1>5. Solo'
  <2> SUFFICES ASSUME NEW d \in Active', kind[d] = "start", Calm(env[d])' PROVE Active' = {d}
    BY <1>2 DEF Solo
  <2>1. CASE Active = {}
    BY <1>3, <2>1
  <2>2. CASE Active # {}
    <3>1. d \in Overlapping(c)
      BY <1>3, <2>2 DEF Overlapping
    <3> QED BY <1>1, <1>2, <3>1 DEF Calm
  <2> QED BY <2>1, <2>2
<1>6. OneLiving'
  BY <1>2, <1>4 DEF CalmInv, OneLiving, Holds, Alive, Calm
<1>7. ASSUME NEW d \in Clients PROVE Registered(d)' /\ OwnSocket(d)' /\ Polling(d)' /\ Stopping(d)' /\ Dropping(d)' /\ Leaving(d)'
  <2>0. Registered(d) /\ OwnSocket(d) /\ Polling(d) /\ Stopping(d) /\ Dropping(d) /\ Leaving(d)
    BY DEF CalmInv
  <2>1. CASE d = c
    BY <1>2, <2>1 DEF Registered, OwnSocket, Polling, Stopping, Dropping, Leaving, Holds, Alive
  <2>2. CASE d # c
    <3>1. pc'[d] = pc[d] /\ (Calm(env[d])' => Calm(env[d])) /\ \A e \in drops[d].of : Calm(e)' => Calm(e)
      BY <1>2, <1>4, <2>2 DEF Calm
    <3> QED BY <1>2, <2>0, <3>1 DEF Registered, OwnSocket, Polling, Stopping, Dropping, Leaving, Holds, Alive, Lives
  <2> QED BY <2>1, <2>2
<1> QED BY <1>5, <1>6, <1>7 DEF CalmInv

-----------------------------------------------------------------------------
IInv == TypeOK /\ Frame /\ CalmInv

LEMMA InitIInv == Init => IInv
<1> SUFFICES ASSUME Init PROVE IInv
  OBVIOUS
<1>1. TypeOK /\ Frame
  BY InitFrame
<1>2. Active = {} /\ \A k \in Clients : ~Holds(k) /\ keeper[k] = "none" /\ pc[k] = "none" /\ drops[k] = Nothing
  BY DEF Init, Active, Holds, Alive
<1>3. CalmInv
  BY <1>2 DEF CalmInv, Solo, OneLiving, Registered, OwnSocket, Polling, Stopping, Dropping, Leaving
<1> QED BY <1>1, <1>3 DEF IInv

LEMMA NextIInv == IInv /\ [Next]_vars => IInv'
<1> SUFFICES ASSUME IInv, [Next]_vars PROVE IInv'
  OBVIOUS
<1>1. TypeOK' /\ Frame'
  BY NextFrame DEF IInv
<1>2. CalmInv'
  <2>1. CASE Begin
    BY <2>1, BeginCalm DEF IInv
  <2>2. ASSUME NEW c \in Clients, Client(c) \/ Keeper(c) \/ Crash(c) PROVE CalmInv'
    BY <2>2, ClientCalm, KeeperCalm DEF IInv
  <2>3. ASSUME NEW c \in Clients, Guest(c) PROVE CalmInv'
    BY <2>3, UndisturbedKept DEF Guest, Accept, Serve, IdleTimeout, Obey, IInv
  <2>4. CASE UNCHANGED vars
    BY <2>4, UndisturbedKept DEF vars, machines, IInv
  <2> QED BY <2>1, <2>2, <2>3, <2>4 DEF Next
<1> QED BY <1>1, <1>2 DEF IInv

(* The inductive invariant holds in every run. *)
THEOREM Invariant == Spec => []IInv
BY InitIInv, NextIInv, PTL DEF Spec

(* Variables keep their types (VmSessionInfo, vm/session.rs, and the states  *)
(* of commands, keepers and guests).                                        *)
THEOREM TypeCorrect == Spec => []TypeOK
<1>1. IInv => TypeOK
  BY DEF IInv
<1> QED BY <1>1, Invariant, PTL

(* "ONE active VM per env_root" (vm/session.rs:6): discover_vm_session keeps *)
(* a start from forking a second keeper as long as starts do not overlap    *)
(* with other commands and are not given up.                                *)
THEOREM OneVmPerEnvironment == Spec => []OneVm
<1>1. IInv => OneVm
  BY DEF IInv, Frame, ClientFrame, CalmInv, OneLiving, Calm, Holds, Alive, OneVm
<1> QED BY <1>1, Invariant, PTL

(* No discover_vm_session, cleanup_stale_vm_sessions, cmd_vm_stop or         *)
(* unregister_vm_session deletes the session file or the socket of a keeper *)
(* that has registered and lives, under the same provisos.                  *)
THEOREM VmCanBeFound == Spec => []Findable
<1>1. IInv => Findable
  <2> SUFFICES ASSUME IInv, Active = {}, NEW k \in Clients, keeper[k] \in {"wait", "deaf", "armed"}, env[k] \notin disturbed
               PROVE  file[env[k]].names = k /\ sock[env[k]] = k
    BY DEF Findable
  <2>1. Holds(k) /\ pc[k] # "poll"
    BY DEF Holds, Alive, Active
  <2> QED BY <2>1 DEF IInv, CalmInv, Registered, Calm
<1> QED BY <1>1, Invariant, PTL

-----------------------------------------------------------------------------
(* The machines settle (Settles), as far as it is about safety.              *)

(* What a stop has read is a keeper of its environment. *)
StopsItsOwn ==
  \A c \in Clients : pc[c] \in {"send", "term", "wait"} /\ kind[c] = "stop" => env[info[c]] = env[c]

(* Until a keeper is killed from outside, a session file has a living keeper, *)
(* or one that is about to write its name, or a stop that will delete it.   *)
Removes(c, e) == env[c] = e /\ (pc[c] = "wait" \/ (pc[c] = "remove" /\ "file" \in drops[c].parts))
Owned(e) ==
  \/ file[e].names # Nobody /\ Alive(file[e].names)
  \/ \E k \in Clients : keeper[k] = "write" /\ env[k] = e /\ opened[k] = file[e].by
  \/ \E c \in Clients : Removes(c, e)
FilesOwned == crashes = 0 => \A e \in Envs : file[e].by # Nobody => Owned(e)

(* A command connects once, to a guest that goes on until it has finished    *)
(* with it or cuts it off.                                                   *)
Connected(k) ==
  /\ keeper[k] = "setup" => vm[k] = "off"
  /\ waiting[k] # <<>> => vm[k] \in {"listening", "idle", "busy"}
  /\ \A i, j \in DOMAIN waiting[k] : waiting[k][i] = waiting[k][j] => i = j
  /\ \A i \in DOMAIN waiting[k] : pc[waiting[k][i]] \in {"reply", "term", "wait", "remove", "done"}
  /\ pc[k] = "reply" => info[k] \in Clients
Settling == StopsItsOwn /\ FilesOwned /\ \A k \in Clients : Connected(k)

(* A command that moves on, which may fork its keeper. *)
LEMMA MoveSettling ==
  ASSUME TypeOK, Frame, Settling, NEW c \in Clients, UNCHANGED <<kind, env, vm, waiting, opened, crashes>>,
         \A d \in Clients : d # c => pc'[d] = pc[d] /\ info'[d] = info[d] /\ drops'[d] = drops[d],
         \A e \in Envs : file'[e] = file[e] \/ file'[e] = NoFile,
         \A k \in Clients : keeper'[k] = keeper[k] \/ (keeper[k] = "none" /\ keeper'[k] = "setup"),
         pc'[c] # "reply",
         pc[c] \in {"reply", "term", "wait", "remove", "done"} => pc'[c] \in {"reply", "term", "wait", "remove", "done"},
         Removes(c, env[c]) => Removes(c, env[c])' \/ file'[env[c]] = NoFile,
         pc'[c] \in {"send", "term", "wait"} /\ kind[c] = "stop" => env[info'[c]] = env[c]
  PROVE  Settling'
<1>1. StopsItsOwn'
  BY DEF Settling, StopsItsOwn
<1>3. ASSUME crashes' = 0, NEW e \in Envs, file'[e].by # Nobody PROVE Owned(e)'
  <2>1. file'[e] = file[e] /\ Owned(e)
    BY <1>3 DEF Settling, FilesOwned, NoFile
  <2>2. CASE file[e].names # Nobody /\ Alive(file[e].names)
    <3>1. file[e].names \in Clients
      BY <2>2 DEF TypeOK, Keepers
    <3> QED BY <2>1, <2>2, <3>1 DEF Owned, Alive
  <2>3. CASE \E k \in Clients : keeper[k] = "write" /\ env[k] = e /\ opened[k] = file[e].by
    BY <2>1, <2>3 DEF Owned
  <2>4. CASE \E d \in Clients : Removes(d, e)
    <3>1. PICK d \in Clients : Removes(d, e)
      BY <2>4
    <3>2. Removes(d, e)'
      BY <1>3, <3>1 DEF NoFile, Removes
    <3> QED BY <3>2 DEF Owned
  <2> QED BY <2>1, <2>2, <2>3, <2>4 DEF Owned
<1>4. ASSUME NEW k \in Clients PROVE Connected(k)'
  <2>1. Connected(k) /\ ClientFrame(k)
    BY DEF Settling, Frame
  <2>2. \A i \in DOMAIN waiting[k] : waiting[k][i] \in Clients
    BY DEF TypeOK
  <2>3. \A i \in DOMAIN waiting[k] : pc'[waiting[k][i]] \in {"reply", "term", "wait", "remove", "done"}
    BY <2>1, <2>2 DEF Connected
  <2>4. pc'[k] = "reply" => info'[k] \in Clients
    BY <2>1 DEF Connected
  <2> QED BY <2>1, <2>3, <2>4 DEF Connected, ClientFrame, On, Alive
<1> QED BY <1>1, <1>3, <1>4 DEF Settling, FilesOwned

(* A stop that ends its keeper. *)
LEMMA KillSettling ==
  ASSUME TypeOK, Frame, Settling, NEW c \in Clients, UNCHANGED <<kind, env, file, crashes>>,
         pc[c] \in {"term", "wait"}, pc'[c] \in {"wait", "remove"}, Removes(c, env[c])',
         pc'[c] = "wait" => info'[c] = info[c],
         \A d \in Clients : d # c => pc'[d] = pc[d] /\ info'[d] = info[d] /\ drops'[d] = drops[d],
         info[c] \in Clients, Kill(info[c]), env[info[c]] = env[c]
  PROVE  Settling'
<1> DEFINE k0 == info[c]
<1>0. /\ keeper'[k0] = "gone" /\ vm'[k0] = "off" /\ waiting'[k0] = <<>>
      /\ \A j \in Clients : j # k0 => /\ keeper'[j] = keeper[j] /\ vm'[j] = vm[j]
                                      /\ waiting'[j] = waiting[j] /\ opened'[j] = opened[j]
  BY Killing DEF Kill, TypeOK
<1>1. StopsItsOwn'
  <2> SUFFICES ASSUME NEW d \in Clients, pc'[d] \in {"send", "term", "wait"}, kind'[d] = "stop"
               PROVE  env'[info'[d]] = env'[d]
    BY DEF StopsItsOwn
  <2>1. CASE d = c
    BY <2>1
  <2>2. CASE d # c
    BY <2>2 DEF Settling, StopsItsOwn
  <2> QED BY <2>1, <2>2
<1>3. ASSUME crashes' = 0, NEW e \in Envs, file'[e].by # Nobody PROVE Owned(e)'
  <2>1. file'[e] = file[e] /\ Owned(e) /\ FileFrame(e)
    BY <1>3 DEF Settling, FilesOwned, Frame
  <2>2. CASE e = env[c]
    BY <2>2 DEF Owned
  <2>3. CASE e # env[c] /\ file[e].names # Nobody /\ Alive(file[e].names)
    <3>1. file[e].names \in Clients /\ file[e].names # k0
      BY <2>1, <2>3 DEF TypeOK, Keepers, FileFrame
    <3> QED BY <1>0, <2>1, <2>3, <3>1 DEF Owned, Alive
  <2>4. CASE e # env[c] /\ \E k \in Clients : keeper[k] = "write" /\ env[k] = e /\ opened[k] = file[e].by
    <3>1. PICK k \in Clients : keeper[k] = "write" /\ env[k] = e /\ opened[k] = file[e].by
      BY <2>4
    <3>2. k # k0
      BY <2>4, <3>1
    <3> QED BY <1>0, <2>1, <3>1, <3>2 DEF Owned
  <2>5. CASE e # env[c] /\ \E d \in Clients : Removes(d, e)
    <3>1. PICK d \in Clients : Removes(d, e) /\ d # c
      BY <2>5 DEF Removes
    <3> QED BY <3>1 DEF Owned, Removes
  <2> QED BY <2>1, <2>2, <2>3, <2>4, <2>5 DEF Owned
<1>4. ASSUME NEW k \in Clients PROVE Connected(k)'
  <2>1. Connected(k)
    BY DEF Settling
  <2>2. CASE k = k0
    <3>1. DOMAIN waiting'[k] = {}
      BY <1>0, <2>2
    <3>2. pc'[k] = "reply" => pc[k] = "reply" /\ info'[k] = info[k]
      OBVIOUS
    <3> QED BY <1>0, <2>1, <2>2, <3>1, <3>2 DEF Connected
  <2>3. CASE k # k0
    <3>1. \A i \in DOMAIN waiting[k] : waiting[k][i] \in Clients
      BY DEF TypeOK
    <3>2. \A i \in DOMAIN waiting[k] : pc'[waiting[k][i]] \in {"reply", "term", "wait", "remove", "done"}
      BY <2>1, <3>1 DEF Connected
    <3>3. pc'[k] = "reply" => pc[k] = "reply" /\ info'[k] = info[k]
      OBVIOUS
    <3> QED BY <1>0, <2>1, <2>3, <3>2, <3>3 DEF Connected
  <2> QED BY <2>2, <2>3
<1> QED BY <1>1, <1>3, <1>4 DEF Settling, FilesOwned

LEMMA SendSettling ==
  ASSUME TypeOK, Frame, Settling, NEW c \in Clients, Send(c)
  PROVE  Settling'
<1> DEFINE k0 == sock[env[c]]
<1>0. /\ pc[c] = "send" /\ k0 \in Keepers /\ kind[c] \in {"stop", "install"}
      /\ waiting' = IF Listens(k0) THEN [waiting EXCEPT ![k0] = Append(@, c)] ELSE waiting
      /\ UNCHANGED <<kind, env, drops, keeper, vm, asked, opened, file, sock, crashes, disturbed>>
      /\ \A d \in Clients : d # c => pc'[d] = pc[d] /\ info'[d] = info[d]
      /\ pc'[c] \in {"reply", "term", "done"}
      /\ pc'[c] = "term" => info' = info
      /\ pc'[c] = "reply" => info'[c] = k0 /\ Listens(k0)
  <2>1. pc[c] = "send" /\ kind[c] \in {"stop", "install"} /\ k0 \in Keepers
    BY DEF Send, TypeOK, Frame, ClientFrame, Kinds
  <2>2. CASE kind[c] = "stop"
    <3>1. Go(c, "term") /\ UNCHANGED info
      BY <2>2 DEF Send
    <3> QED BY <2>1, <2>2, <3>1 DEF Send, Go, TypeOK
  <2>3. CASE kind[c] = "install" /\ Listens(k0)
    <3>1. Go(c, "reply") /\ info' = [info EXCEPT ![c] = k0]
      BY <2>3 DEF Send
    <3> QED BY <2>1, <2>3, <3>1 DEF Send, Go, TypeOK
  <2>4. CASE kind[c] = "install" /\ ~Listens(k0)
    <3>1. Go(c, "done") /\ UNCHANGED info
      BY <2>4 DEF Send
    <3> QED BY <2>1, <2>4, <3>1 DEF Send, Go, TypeOK
  <2> QED BY <2>1, <2>2, <2>3, <2>4
<1> HIDE DEF k0
<1>1. StopsItsOwn'
  BY <1>0 DEF Settling, StopsItsOwn
<1>3. FilesOwned'
  <2>1. \A e \in Envs : Owned(e) => Owned(e)'
    <3>1. \A d \in Clients : \A e \in Envs : Removes(d, e) => Removes(d, e)'
      BY <1>0 DEF Removes
    <3> QED BY <1>0, <3>1 DEF Owned, Alive
  <2> QED BY <1>0, <2>1 DEF Settling, FilesOwned
<1>4. ASSUME NEW k \in Clients PROVE Connected(k)'
  <2>1. Connected(k) /\ waiting[k] \in Seq(Clients)
    BY DEF Settling, TypeOK
  <2>2. pc'[k] = "reply" => info'[k] \in Clients
    BY <1>0, <2>1 DEF Connected, Listens, Keepers
  <2>3. \A i \in DOMAIN waiting[k] : waiting[k][i] # c /\ pc'[waiting[k][i]] \in {"reply", "term", "wait", "remove", "done"}
    <3>1. \A i \in DOMAIN waiting[k] : waiting[k][i] \in Clients
      BY <2>1
    <3> QED BY <1>0, <2>1, <3>1 DEF Connected
  <2>4. CASE waiting'[k] = waiting[k]
    <3>1. \A i, j \in DOMAIN waiting'[k] : waiting'[k][i] = waiting'[k][j] => i = j
      BY <2>1, <2>4 DEF Connected
    <3>2. \A i \in DOMAIN waiting'[k] : pc'[waiting'[k][i]] \in {"reply", "term", "wait", "remove", "done"}
      BY <2>3, <2>4
    <3>3. waiting'[k] # <<>> => vm'[k] \in {"listening", "idle", "busy"}
      BY <1>0, <2>1, <2>4 DEF Connected
    <3>4. keeper'[k] = "setup" => vm'[k] = "off"
      BY <1>0, <2>1 DEF Connected
    <3> QED BY <2>2, <3>1, <3>2, <3>3, <3>4 DEF Connected
  <2>5. CASE waiting'[k] = Append(waiting[k], c) /\ Listens(k)
    <3>1. /\ DOMAIN waiting'[k] = 1..(Len(waiting[k]) + 1) /\ DOMAIN waiting[k] = 1..Len(waiting[k])
          /\ \A i \in 1..Len(waiting[k]) : waiting'[k][i] = waiting[k][i]
          /\ waiting'[k][Len(waiting[k]) + 1] = c /\ Len(waiting[k]) \in Nat
      BY <2>1, <2>5
    <3>2. \A i, j \in DOMAIN waiting'[k] : waiting'[k][i] = waiting'[k][j] => i = j
      <4> SUFFICES ASSUME NEW i \in 1..(Len(waiting[k]) + 1), NEW j \in 1..(Len(waiting[k]) + 1),
                          waiting'[k][i] = waiting'[k][j]
                   PROVE  i = j
        BY <3>1
      <4>1. /\ i \in 1..Len(waiting[k]) \/ i = Len(waiting[k]) + 1
            /\ j \in 1..Len(waiting[k]) \/ j = Len(waiting[k]) + 1
        BY <3>1
      <4>2. \A l \in 1..Len(waiting[k]) : waiting'[k][l] = waiting[k][l] /\ waiting[k][l] # c
        BY <2>3, <3>1
      <4>3. \A l, m \in 1..Len(waiting[k]) : waiting[k][l] = waiting[k][m] => l = m
        BY <2>1, <3>1 DEF Connected
      <4> QED BY <3>1, <4>1, <4>2, <4>3
    <3>3. \A i \in DOMAIN waiting'[k] : pc'[waiting'[k][i]] \in {"reply", "term", "wait", "remove", "done"}
      BY <1>0, <2>3, <3>1
    <3>4. vm'[k] \in {"listening", "idle", "busy"}
      BY <1>0, <2>5 DEF Listens
    <3>5. keeper'[k] = "setup" => vm'[k] = "off"
      BY <1>0, <2>1 DEF Connected
    <3> QED BY <2>2, <3>2, <3>3, <3>4, <3>5 DEF Connected
  <2>6. waiting'[k] = waiting[k] \/ (waiting'[k] = Append(waiting[k], c) /\ Listens(k))
    BY <1>0 DEF TypeOK
  <2> QED BY <2>4, <2>5, <2>6
<1> QED BY <1>1, <1>3, <1>4 DEF Settling

LEMMA ClientSettling ==
  ASSUME TypeOK, Frame, Settling, NEW c \in Clients, Client(c)
  PROVE  Settling'
<1>0. /\ pc \in [Clients -> PcValues] /\ info \in [Clients -> Keepers] /\ kind[c] \in Kinds /\ env[c] \in Envs
      /\ drops \in [Clients -> [parts : SUBSET {"file", "socket"}, of : SUBSET Envs]]
      /\ ClientFrame(c) /\ FileFrame(env[c]) /\ StopsItsOwn
      /\ \A e \in Envs : file[e].names \in Clients \cup {Nobody}
  BY DEF TypeOK, PcValues, Frame, Settling, Keepers
<1>1. CASE CleanStale(c)
  <2>1. CASE Go(c, "look") /\ UNCHANGED drops
    BY <1>0, <1>1, <2>1, MoveSettling DEF CleanStale, Go, machines, Removes
  <2>2. CASE \E stale \in SUBSET Envs : Drop(c, {"file", "socket"}, stale) /\ UNCHANGED pc
    <3>1. PICK stale \in SUBSET Envs : Drop(c, {"file", "socket"}, stale) /\ UNCHANGED pc
      BY <2>2
    <3>2. drops'[c].parts = {"file", "socket"} /\ \A d \in Clients : d # c => drops'[d] = drops[d]
      BY <1>0, <3>1 DEF Drop
    <3> QED BY <1>0, <1>1, <3>1, <3>2, MoveSettling DEF CleanStale, machines, Removes
  <2> QED BY <1>1, <2>1, <2>2 DEF CleanStale
<1>2. CASE Discover(c)
  <2>0. /\ pc[c] \in {"look", "poll", "connect"} /\ drops[c] = Nothing
        /\ UNCHANGED <<kind, env, file, sock, crashes>> /\ ~Removes(c, env[c])
    BY <1>2 DEF Discover, Removes
  <2>1. CASE Useless(env[c]) # {} /\ Drop(c, Useless(env[c]), {env[c]}) /\ UNCHANGED <<pc, info, machines, disturbed>>
    <3>1. drops'[c].parts = Useless(env[c]) /\ \A d \in Clients : d # c => drops'[d] = drops[d]
      BY <1>0, <2>1 DEF Drop
    <3> QED BY <1>0, <2>0, <2>1, <3>1, MoveSettling DEF machines
  <2>2. CASE file[env[c]].by = Nobody /\ FoundNone(c) /\ UNCHANGED <<info, drops>>
    <3>1. CASE Forks(c)
      <4>1. /\ pc'[c] = "poll" /\ \A d \in Clients : d # c => pc'[d] = pc[d]
            /\ \A k \in Clients : keeper'[k] = keeper[k] \/ (keeper[k] = "none" /\ keeper'[k] = "setup")
        BY <1>0, <3>1 DEF Forks, TypeOK, ClientFrame
      <4> QED BY <1>0, <2>0, <2>2, <3>1, <4>1, MoveSettling DEF Forks
    <3>2. CASE Quiet(c)
      <4>1. /\ pc'[c] \in {"done", "poll"} /\ \A d \in Clients : d # c => pc'[d] = pc[d]
            /\ UNCHANGED machines
        BY <1>0, <3>2 DEF Quiet
      <4> QED BY <1>0, <2>0, <2>2, <4>1, MoveSettling DEF machines
    <3> QED BY <2>2, <3>1, <3>2, FoundNoneCases
  <2>3. CASE file[env[c]].by # Nobody /\ Useless(env[c]) = {} /\ Found(c) /\ UNCHANGED drops
    <3>1. /\ UNCHANGED <<machines, disturbed>>
          /\ info' = [info EXCEPT ![c] = IF kind[c] = "stop" THEN file[env[c]].names ELSE Nobody]
          /\ \/ kind[c] = "install" /\ pc[c] = "look" /\ pc' = [pc EXCEPT ![c] = "connect"]
             \/ (kind[c] = "stop" \/ pc[c] = "connect") /\ pc' = [pc EXCEPT ![c] = "send"]
             \/ pc' = [pc EXCEPT ![c] = "done"]
      BY <2>0, <2>3, FoundCases
    <3>2. /\ pc'[c] \in {"connect", "send", "done"}
          /\ \A d \in Clients : d # c => pc'[d] = pc[d] /\ info'[d] = info[d]
          /\ kind[c] = "stop" => info'[c] = file[env[c]].names
      BY <1>0, <3>1
    <3>3. env[file[env[c]].names] = env[c]
      BY <1>0, <2>3, UsefulMeans DEF FileFrame
    <3> QED BY <1>0, <2>0, <2>3, <3>1, <3>2, <3>3, MoveSettling DEF machines
  <2> QED BY <1>2, <2>1, <2>2, <2>3 DEF Discover
<1>3. CASE Delete(c)
  <2> DEFINE part == IF "file" \in drops[c].parts THEN "file" ELSE "socket"
             left == drops[c].parts \ {part}
  <2>0. /\ Deleted(drops[c].of, part) /\ drops[c].of \in SUBSET Envs
        /\ UNCHANGED <<kind, env, info, crashes>> /\ pc[c] \in {"clean", "look", "poll", "connect", "remove"}
        /\ pc[c] = "remove" => drops[c].of = {env[c]}
    BY <1>0, <1>3 DEF Delete, ClientFrame
  <2>1. \A e \in Envs : file'[e] = file[e] \/ file'[e] = NoFile
    BY <1>0, <2>0, DeletedFrame
  <2>2. Removes(c, env[c]) => file'[env[c]] = NoFile
    BY <1>0, <2>0 DEF Removes, Deleted
  <2> HIDE DEF part
  <2>3. CASE Drop(c, left, drops[c].of) /\ UNCHANGED <<pc, machines, disturbed>>
    <3>1. \A d \in Clients : d # c => drops'[d] = drops[d]
      BY <1>0, <2>3 DEF Drop
    <3> HIDE DEF left
    <3> QED BY <1>0, <2>0, <2>1, <2>2, <2>3, <3>1, MoveSettling DEF machines
  <2>4. CASE /\ drops' = [drops EXCEPT ![c] = Nothing]
             /\ CASE pc[c] = "clean" -> Go(c, "look") /\ UNCHANGED <<machines, disturbed>>
                  [] pc[c] = "remove" -> Go(c, "done") /\ UNCHANGED <<machines, disturbed>>
                  [] OTHER -> FoundNone(c)
    <3>0. drops'[c] = Nothing /\ \A d \in Clients : d # c => drops'[d] = drops[d]
      BY <1>0, <2>4
    <3>1. CASE \E to \in {"look", "done"} : Go(c, to) /\ (to = "look" => pc[c] = "clean") /\ UNCHANGED <<machines, disturbed>>
      <4>1. PICK to \in {"look", "done"} : Go(c, to) /\ (to = "look" => pc[c] = "clean") /\ UNCHANGED <<machines, disturbed>>
        BY <3>1
      <4> QED BY <1>0, <2>0, <2>1, <2>2, <3>0, <4>1, MoveSettling DEF Go, machines
    <3>2. CASE Forks(c)
      <4>1. /\ pc'[c] = "poll" /\ \A d \in Clients : d # c => pc'[d] = pc[d]
            /\ \A k \in Clients : keeper'[k] = keeper[k] \/ (keeper[k] = "none" /\ keeper'[k] = "setup")
        BY <1>0, <3>2 DEF Forks, TypeOK, ClientFrame
      <4> QED BY <1>0, <2>0, <2>1, <2>2, <3>0, <3>2, <4>1, MoveSettling DEF Forks
    <3>3. CASE Quiet(c)
      <4>1. /\ pc'[c] \in {"done", "poll"} /\ \A d \in Clients : d # c => pc'[d] = pc[d]
            /\ UNCHANGED machines /\ (pc[c] = "remove" => pc'[c] = "done")
        BY <1>0, <3>3 DEF Quiet
      <4> QED BY <1>0, <2>0, <2>1, <2>2, <3>0, <4>1, MoveSettling DEF machines
    <3> QED BY <2>4, <3>1, <3>2, <3>3, FoundNoneCases
  <2>5. \/ Drop(c, left, drops[c].of) /\ UNCHANGED <<pc, machines, disturbed>>
        \/ /\ drops' = [drops EXCEPT ![c] = Nothing]
           /\ CASE pc[c] = "clean" -> Go(c, "look") /\ UNCHANGED <<machines, disturbed>>
                [] pc[c] = "remove" -> Go(c, "done") /\ UNCHANGED <<machines, disturbed>>
                [] OTHER -> FoundNone(c)
    BY <1>3, Zenon DEF Delete, part
  <2> QED BY <2>3, <2>4, <2>5
<1>4. CASE GiveUp(c)
  BY <1>0, <1>4, MoveSettling DEF GiveUp, Go, machines, Removes
<1>5. CASE Send(c)
  BY <1>5, SendSettling
<1>6. CASE Reply(c)
  <2>1. drops[c] = Nothing
    BY <1>0, <1>6 DEF Reply, ClientFrame
  <2> QED BY <1>0, <1>6, <2>1, MoveSettling DEF Reply, Go, machines, Removes
<1>7. CASE Terminate(c) \/ Await(c)
  <2>0. /\ pc[c] \in {"term", "wait"} /\ info[c] \in Clients /\ env[info[c]] = env[c] /\ kind[c] = "stop"
        /\ UNCHANGED <<kind, env, file, sock, crashes, disturbed>>
        /\ pc'[c] \in {"wait", "remove"}
        /\ pc'[c] = "wait" => UNCHANGED <<drops, info>>
        /\ pc'[c] = "remove" => drops'[c].parts = {"file", "socket"}
        /\ \A d \in Clients : d # c => pc'[d] = pc[d] /\ info'[d] = info[d] /\ drops'[d] = drops[d]
    BY <1>0, <1>7 DEF Terminate, Await, ClientFrame, Keepers, Go, Drop, StopsItsOwn
  <2>r. Removes(c, env[c])'
    BY <2>0 DEF Removes
  <2>1. CASE Kill(info[c])
    BY <2>0, <2>1, <2>r, KillSettling
  <2>2. CASE UNCHANGED <<keeper, vm, waiting, opened>>
    BY <2>0, <2>2, <2>r, MoveSettling
  <2> QED BY <1>7, <2>1, <2>2 DEF Terminate, Await, machines
<1> QED BY <1>1, <1>2, <1>3, <1>4, <1>5, <1>6, <1>7 DEF Client

LEMMA BeginSettling ==
  ASSUME TypeOK, Frame, Settling, Begin
  PROVE  Settling'
<1>1. PICK c \in Clients : pc[c] = "none" /\ Go(c, "clean")
  BY DEF Begin
<1>2. /\ pc'[c] = "clean" /\ (\A d \in Clients : d # c => pc'[d] = pc[d])
      /\ UNCHANGED <<kind, env, drops, info, machines, file, sock, crashes>>
  BY <1>1 DEF Begin, Go, TypeOK
<1> QED BY <1>1, <1>2, MoveSettling DEF machines, Settling, Removes

(* A keeper that is no owner of a file, or whose file is gone. *)
LEMMA OwnersKept ==
  ASSUME TypeOK, Frame, Settling, UNCHANGED clients, NEW k \in Clients, NEW e \in Envs,
         \A j \in Clients : j # k => keeper'[j] = keeper[j] /\ opened'[j] = opened[j],
         file'[e] = file[e], file[e].by # Nobody, crashes = 0,
         (file[e].names = k /\ Alive(k)) => keeper'[k] \notin {"none", "gone"},
         keeper[k] # "write"
  PROVE  Owned(e)'
<1>1. Owned(e)
  BY DEF Settling, FilesOwned
<1>2. CASE file[e].names # Nobody /\ Alive(file[e].names)
  <2>1. file[e].names \in Clients
    BY <1>2 DEF TypeOK, Keepers
  <2> QED BY <1>2, <2>1 DEF Owned, Alive
<1>3. CASE \E j \in Clients : keeper[j] = "write" /\ env[j] = e /\ opened[j] = file[e].by
  <2>1. PICK j \in Clients : keeper[j] = "write" /\ env[j] = e /\ opened[j] = file[e].by
    BY <1>3
  <2>2. j # k
    BY <2>1
  <2> QED BY <2>1, <2>2 DEF Owned, clients
<1>4. CASE \E c \in Clients : Removes(c, e)
  BY <1>4 DEF Owned, Removes, clients
<1> QED BY <1>1, <1>2, <1>3, <1>4 DEF Owned

LEMMA KeeperSettling ==
  ASSUME TypeOK, Frame, Settling, NEW k \in Clients, Keeper(k) \/ Crash(k)
  PROVE  Settling'
<1> USE ClientsAreSome
<1>0. UNCHANGED clients /\ \A j \in Clients : Connected(j) /\ ClientFrame(j)
  BY DEF Keeper, Setup, Ready, BootFails, Open, Write, Handle, Arm, Unregister, UnlinkSocket, UnlinkFile, Crash, Settling, Frame
<1>a. StopsItsOwn'
  BY <1>0 DEF Settling, StopsItsOwn, clients
<1>b. SUFFICES /\ crashes' = 0 => \A e \in Envs : file'[e].by # Nobody => Owned(e)'
               /\ \A j \in Clients : Connected(j)'
  BY <1>a DEF Settling, FilesOwned
<1>1. CASE Setup(k) \/ Ready(k) \/ Handle(k) \/ Arm(k)
  <2>1. /\ keeper[k] \in {"setup", "boot", "wait", "deaf"} /\ keeper'[k] \in {"boot", "open", "deaf", "armed"}
        /\ (\A j \in Clients : j # k => keeper'[j] = keeper[j] /\ vm'[j] = vm[j])
        /\ UNCHANGED <<waiting, opened, file, crashes>>
    BY <1>1 DEF Setup, Ready, Handle, Arm, TypeOK
  <2>2. \A e \in Envs : crashes' = 0 /\ file'[e].by # Nobody => Owned(e)'
    BY <1>0, <2>1, OwnersKept
  <2>3. waiting[k] # <<>> => vm'[k] \in {"listening", "idle", "busy"}
    BY <1>0, <1>1 DEF Setup, Ready, Handle, Arm, TypeOK, Connected
  <2>4. ASSUME NEW j \in Clients PROVE Connected(j)'
    <3>1. UNCHANGED <<pc, info, waiting>>
      BY <1>0, <2>1 DEF clients
    <3>2. keeper'[j] = "setup" => vm'[j] = "off"
      BY <1>0, <2>1 DEF Connected
    <3>3. waiting[j] # <<>> => vm'[j] \in {"listening", "idle", "busy"}
      BY <1>0, <2>1, <2>3 DEF Connected
    <3> QED BY <1>0, <3>1, <3>2, <3>3 DEF Connected
  <2> QED BY <2>2, <2>4
<1>2. CASE BootFails(k) \/ Crash(k)
  <2>1. /\ Kill(k) /\ file' = file /\ keeper[k] # "none"
        /\ (crashes' = crashes /\ keeper[k] = "boot") \/ crashes' = crashes + 1
    BY <1>2 DEF BootFails, Crash
  <2>2. /\ keeper'[k] = "gone" /\ vm'[k] = "off" /\ waiting'[k] = <<>>
        /\ \A j \in Clients : j # k => /\ keeper'[j] = keeper[j] /\ vm'[j] = vm[j]
                                       /\ waiting'[j] = waiting[j] /\ opened'[j] = opened[j]
    BY <2>1, Killing DEF Kill, TypeOK
  <2>3. \A e \in Envs : crashes' = 0 /\ file'[e].by # Nobody => Owned(e)'
    <3> SUFFICES ASSUME NEW e \in Envs, crashes' = 0, file'[e].by # Nobody PROVE Owned(e)'
      OBVIOUS
    <3>1. crashes = 0 /\ keeper[k] = "boot"
      BY <2>1 DEF TypeOK
    <3>2. ~(file[e].names = k /\ Alive(k))
      BY <3>1 DEF Frame, FileFrame
    <3> QED BY <1>0, <2>1, <2>2, <3>1, <3>2, OwnersKept
  <2>4. ASSUME NEW j \in Clients PROVE Connected(j)'
    <3>1. UNCHANGED <<pc, info>> /\ DOMAIN waiting'[k] = {}
      BY <1>0, <2>2 DEF clients
    <3> QED BY <1>0, <2>2, <3>1 DEF Connected
  <2> QED BY <2>3, <2>4
<1>3. CASE Open(k) \/ Write(k) \/ Unregister(k) \/ UnlinkSocket(k) \/ UnlinkFile(k)
  <2>1. /\ keeper[k] \in {"open", "write", "armed", "ending", "leaving"}
        /\ keeper'[k] \in {"write", "wait", "ending", "leaving", "gone"}
        /\ (\A j \in Clients : j # k => keeper'[j] = keeper[j] /\ opened'[j] = opened[j])
        /\ UNCHANGED <<vm, waiting, crashes>>
    BY <1>3 DEF Open, Write, Unregister, UnlinkSocket, UnlinkFile, TypeOK
  <2>2. \A j \in Clients : Connected(j)'
    BY <1>0, <2>1 DEF clients, Connected
  <2>3. ASSUME NEW e \in Envs, crashes' = 0, file'[e].by # Nobody PROVE Owned(e)'
    <3>0. crashes = 0 /\ env[k] \in Envs /\ env' = env /\ FileFrame(e)
      BY <1>0, <2>1, <2>3 DEF TypeOK, clients, Frame
    <3>1. CASE Open(k)
      <4> DEFINE id == IF file[env[k]].by = Nobody THEN k ELSE file[env[k]].by
      <4>1. opened'[k] = id /\ file' = [file EXCEPT ![env[k]] = [by |-> id, names |-> Nobody]] /\ keeper[k] = "open" /\ keeper'[k] = "write"
        BY <3>1 DEF Open, TypeOK
      <4> HIDE DEF id
      <4>2. CASE e = env[k]
        <5>1. keeper'[k] = "write" /\ env'[k] = e /\ opened'[k] = file'[e].by
          BY <3>0, <4>1, <4>2 DEF TypeOK
        <5> QED BY <5>1 DEF Owned
      <4>3. CASE e # env[k]
        <5>1. file'[e] = file[e]
          BY <4>1, <4>3 DEF TypeOK
        <5> QED BY <1>0, <2>1, <2>3, <3>0, <4>1, <5>1, OwnersKept
      <4> QED BY <4>2, <4>3
    <3>2. CASE Write(k)
      <4>1. /\ keeper[k] = "write" /\ keeper'[k] = "wait" /\ (\A d \in Envs : d # env[k] => file'[d] = file[d])
            /\ file'[env[k]] = IF file[env[k]].by = opened[k] THEN [file[env[k]] EXCEPT !.names = k] ELSE file[env[k]]
        BY <3>0, <3>2 DEF Write, TypeOK
      <4>2. CASE e = env[k] /\ file[e].by = opened[k]
        <5>1. file'[e].names = k /\ k # Nobody
          BY <4>1, <4>2 DEF TypeOK
        <5> QED BY <4>1, <5>1 DEF Owned, Alive
      <4>3. CASE ~(e = env[k] /\ file[e].by = opened[k])
        <5>1. file'[e] = file[e] /\ Owned(e)
          BY <2>3, <3>0, <4>1, <4>3 DEF Settling, FilesOwned
        <5>2. CASE file[e].names # Nobody /\ Alive(file[e].names)
          <6>1. file[e].names \in Clients
            BY <5>2 DEF TypeOK, Keepers
          <6> QED BY <2>1, <4>1, <5>1, <5>2, <6>1 DEF Owned, Alive
        <5>3. CASE \E j \in Clients : keeper[j] = "write" /\ env[j] = e /\ opened[j] = file[e].by
          <6>1. PICK j \in Clients : keeper[j] = "write" /\ env[j] = e /\ opened[j] = file[e].by
            BY <5>3
          <6>2. j # k
            BY <4>3, <6>1
          <6> QED BY <2>1, <3>0, <5>1, <6>1, <6>2 DEF Owned
        <5>4. CASE \E c \in Clients : Removes(c, e)
          BY <1>0, <5>4 DEF Owned, Removes, clients
        <5> QED BY <5>1, <5>2, <5>3, <5>4 DEF Owned
      <4> QED BY <4>2, <4>3
    <3>3. CASE Unregister(k) \/ UnlinkSocket(k)
      <4>1. file'[e] = file[e] /\ keeper[k] \in {"armed", "ending"}
        BY <3>3 DEF Unregister, UnlinkSocket, Deleted
      <4>2. file[e].names = k => keeper'[k] # "gone"
        <5> SUFFICES ASSUME file[e].names = k, Unregister(k) PROVE keeper'[k] # "gone"
          BY <3>3 DEF UnlinkSocket, TypeOK
        <5>1. env[k] = e /\ file[e].by # Nobody
          BY <2>3, <3>0, <4>1 DEF FileFrame, Nobody
        <5> QED BY <5>1 DEF Unregister, TypeOK
      <4> QED BY <1>0, <2>1, <2>3, <3>0, <4>1, <4>2, OwnersKept
    <3>4. CASE UnlinkFile(k)
      <4>1. file'[env[k]] = NoFile /\ keeper[k] = "leaving" /\ \A d \in Envs : d # env[k] => file'[d] = file[d]
        BY <3>0, <3>4 DEF UnlinkFile, Deleted, TypeOK
      <4>2. e # env[k] /\ file'[e] = file[e]
        BY <2>3, <4>1 DEF NoFile
      <4>3. file[e].names # k
        BY <3>0, <4>2 DEF FileFrame, Nobody
      <4> QED BY <1>0, <2>1, <2>3, <3>0, <4>1, <4>2, <4>3, OwnersKept
    <3> QED BY <1>3, <3>1, <3>2, <3>3, <3>4
  <2> QED BY <2>2, <2>3
<1> QED BY <1>1, <1>2, <1>3 DEF Keeper

LEMMA GuestSettling ==
  ASSUME TypeOK, Frame, Settling, NEW k \in Clients, Guest(k)
  PROVE  Settling'
<1>0. UNCHANGED <<clients, keeper, opened, file, crashes>> /\ \A j \in Clients : Connected(j) /\ ClientFrame(j)
  BY DEF Guest, Accept, Serve, IdleTimeout, Obey, Settling, Frame
<1>1. StopsItsOwn' /\ FilesOwned'
  <2>1. \A e \in Envs : Owned(e) => Owned(e)'
    BY <1>0 DEF Owned, Removes, Alive, clients
  <2> QED BY <1>0, <2>1 DEF Settling, StopsItsOwn, FilesOwned, clients
<1>2. /\ vm[k] \in {"listening", "idle", "busy", "booting"} /\ keeper[k] # "setup"
      /\ \A j \in Clients : j # k => vm'[j] = vm[j] /\ waiting'[j] = waiting[j]
  <2>1. vm[k] # "off"
    BY DEF Guest, Accept, Serve, IdleTimeout, Obey, On
  <2> QED BY <1>0, <2>1 DEF Guest, Accept, Serve, IdleTimeout, Obey, PowerOff, TypeOK, Connected
<1>3. ASSUME NEW j \in Clients, j # k PROVE Connected(j)'
  BY <1>0, <1>2, <1>3 DEF Connected, clients
<1>4. CASE PowerOff(k)
  <2>1. vm'[k] = "off" /\ waiting'[k] = <<>> /\ DOMAIN waiting'[k] = {}
    BY <1>4 DEF PowerOff, TypeOK
  <2>2. Connected(k)'
    BY <1>0, <1>2, <2>1 DEF Connected, clients
  <2> QED BY <1>1, <1>3, <2>2 DEF Settling
<1>5. CASE vm' = [vm EXCEPT ![k] = "busy"] /\ UNCHANGED waiting
  <2>1. Connected(k)'
    BY <1>0, <1>2, <1>5 DEF Connected, clients, TypeOK
  <2> QED BY <1>1, <1>3, <2>1 DEF Settling
<1>6. CASE vm' = [vm EXCEPT ![k] = "idle"] /\ waiting' = [waiting EXCEPT ![k] = Tail(@)] /\ vm[k] = "busy"
  <2>0. waiting[k] \in Seq(Clients) /\ waiting[k] # <<>> /\ vm'[k] = "idle" /\ waiting'[k] = Tail(waiting[k])
    BY <1>0, <1>6 DEF ClientFrame, TypeOK
  <2>1. /\ Len(waiting[k]) \in Nat /\ DOMAIN waiting[k] = 1..Len(waiting[k]) /\ DOMAIN waiting'[k] = 1..(Len(waiting[k]) - 1)
        /\ \A i \in 1..(Len(waiting[k]) - 1) : waiting'[k][i] = waiting[k][i + 1]
    BY <2>0
  <2>2. /\ \A i, j \in DOMAIN waiting'[k] : waiting'[k][i] = waiting'[k][j] => i = j
        /\ \A i \in DOMAIN waiting'[k] : pc[waiting'[k][i]] \in {"reply", "term", "wait", "remove", "done"}
    <3>1. ASSUME NEW i \in DOMAIN waiting'[k] PROVE i + 1 \in DOMAIN waiting[k] /\ i \in Nat /\ waiting'[k][i] = waiting[k][i + 1]
      BY <2>1
    <3> QED BY <1>0, <3>1 DEF Connected
  <2>3. Connected(k)'
    BY <1>0, <1>2, <2>0, <2>2 DEF Connected, clients
  <2> QED BY <1>1, <1>3, <2>3 DEF Settling
<1> QED BY <1>4, <1>5, <1>6 DEF Guest, Accept, Serve, IdleTimeout, Obey

LEMMA SettlingInvariant ==
  /\ Init => Settling
  /\ IInv /\ Settling /\ [Next]_vars => Settling'
<1>1. ASSUME Init PROVE Settling
  BY <1>1 DEF Init, Settling, StopsItsOwn, FilesOwned, Connected, NoFile
<1>2. ASSUME IInv, Settling, [Next]_vars PROVE Settling'
  <2>1. TypeOK /\ Frame
    BY <1>2 DEF IInv
  <2>2. CASE Begin
    BY <1>2, <2>1, <2>2, BeginSettling
  <2>3. ASSUME NEW c \in Clients, Client(c) \/ Keeper(c) \/ Guest(c) \/ Crash(c) PROVE Settling'
    BY <1>2, <2>1, <2>3, ClientSettling, KeeperSettling, GuestSettling
  <2>4. CASE UNCHANGED vars
    <3>1. \A e \in Envs : Owned(e) => Owned(e)'
      BY <2>4 DEF vars, clients, machines, Owned, Removes, Alive
    <3>2. \A k \in Clients : Connected(k) => Connected(k)'
      BY <2>4 DEF vars, clients, machines, Connected
    <3> QED BY <1>2, <2>4, <3>1, <3>2 DEF vars, clients, machines, Settling, StopsItsOwn, FilesOwned
  <2> QED BY <1>2, <2>2, <2>3, <2>4 DEF Next
<1> QED BY <1>1, <1>2

SettlingInv == IInv /\ Settling

LEMMA AlwaysSettling == Spec => []SettlingInv
<1>1. Init => SettlingInv
  BY InitIInv, SettlingInvariant DEF SettlingInv
<1>2. SettlingInv /\ [Next]_vars => SettlingInv'
  BY NextIInv, SettlingInvariant DEF SettlingInv
<1> QED BY <1>1, <1>2, PTL DEF Spec

(* When all commands have returned and no keeper is writing, a session file  *)
(* that is left names a living keeper, unless one was killed.                *)
NoStaleFile ==
  crashes = 0 /\ Active = {} /\ (\A k \in Clients : keeper[k] # "write") =>
    \A e \in Envs : file[e].by # Nobody => file[e].names # Nobody /\ Alive(file[e].names)

(* The second half of Settles: stop.rs:41-43 deletes the file and the socket *)
(* of the keeper it has ended, whichever of the two comes first, and          *)
(* unregister_vm_session the file of the keeper that ends by itself, so that  *)
(* a file outlives its keeper only where the keeper was killed.               *)
THEOREM NoFileIsStale == Spec => []NoStaleFile
<1>1. SettlingInv => NoStaleFile
  <2> SUFFICES ASSUME Settling, crashes = 0, Active = {}, \A k \in Clients : keeper[k] # "write",
                      NEW e \in Envs, file[e].by # Nobody
               PROVE  file[e].names # Nobody /\ Alive(file[e].names)
    BY DEF NoStaleFile, SettlingInv
  <2>1. Owned(e)
    BY DEF Settling, FilesOwned
  <2>2. \A c \in Clients : pc[c] \in {"none", "done"}
    BY DEF Active
  <2> QED BY <2>1, <2>2 DEF Owned, Removes
<1> QED BY <1>1, AlwaysSettling, PTL

(* An install that waits for its answer waits for a guest that is on, and    *)
(* that has its connection to take up or to finish with.                     *)
AnswerComes ==
  \A c \in Clients : pc[c] = "reply" /\ c \in Range(waiting[info[c]]) =>
    /\ info[c] \in Clients /\ Alive(info[c])
    /\ vm[info[c]] \in {"listening", "idle", "busy"} /\ waiting[info[c]] # <<>>

(* Nobody waits for a guest that is gone: the end of a VM, by power off,     *)
(* idle timeout, SIGTERM or death of its keeper, cuts off the connections    *)
(* that run_vsock_server has not finished with.                              *)
THEOREM AnswersCome == Spec => []AnswerComes
<1>1. SettlingInv => AnswerComes
  <2> SUFFICES ASSUME TypeOK, Frame, Settling, NEW c \in Clients, pc[c] = "reply", c \in Range(waiting[info[c]])
               PROVE  /\ info[c] \in Clients /\ Alive(info[c])
                      /\ vm[info[c]] \in {"listening", "idle", "busy"} /\ waiting[info[c]] # <<>>
    BY DEF AnswerComes, SettlingInv, IInv
  <2>1. info[c] \in Clients
    BY DEF Settling, Connected
  <2>2. waiting[info[c]] # <<>>
    <3> SUFFICES ASSUME waiting[info[c]] = <<>> PROVE FALSE
      OBVIOUS
    <3>1. DOMAIN waiting[info[c]] = {}
      OBVIOUS
    <3> QED BY <3>1 DEF Range
  <2>3. vm[info[c]] \in {"listening", "idle", "busy"}
    BY <2>1, <2>2 DEF Settling, Connected
  <2> QED BY <2>1, <2>2, <2>3 DEF Frame, ClientFrame, On, Alive
<1> QED BY <1>1, AlwaysSettling, PTL

-----------------------------------------------------------------------------
(* Of what is finite, in the order in which a step that takes from one may   *)
(* add to those after it: the steps of commands, those of keepers, VMs,      *)
(* session files, decisions to delete, connections, and guests at leisure.   *)
StepsOf(p) == CASE p = "none" -> 8 [] p = "clean" -> 7 [] p = "look" -> 6
                [] p \in {"poll", "connect"} -> 5 [] p = "send" -> 4
                [] p \in {"reply", "term"} -> 3 [] p = "wait" -> 2 [] p = "remove" -> 1 [] OTHER -> 0
StagesOf(s) == CASE s = "none" -> 10 [] s = "setup" -> 9 [] s = "boot" -> 8 [] s = "open" -> 7
                 [] s = "write" -> 6 [] s = "wait" -> 5 [] s = "deaf" -> 4 [] s = "armed" -> 3
                 [] s = "ending" -> 2 [] s = "leaving" -> 1 [] OTHER -> 0

(* Before a deletion of a socket that leaves a command where it is, there   *)
(* may be a new file, which makes it decide again.                          *)
DropsOf(c) ==
  LET there == file[env[c]].by # Nobody
  IN  CASE drops[c] = Nothing -> IF pc[c] = "clean" \/ there THEN 3 ELSE 0
        [] drops[c] # Nothing /\ "file" \in drops[c].parts -> 2
        [] OTHER -> IF pc[c] # "clean" /\ there THEN 4 ELSE 1

CommandsLeft == {p \in Clients \X (1..8) : p[2] =< StepsOf(pc[p[1]])}
KeepersLeft == {p \in Clients \X (1..10) : p[2] =< StagesOf(keeper[p[1]])}
VmsLeft == {k \in Clients : On(k)}
FilesLeft == {e \in Envs : file[e].by # Nobody}
DropsLeft == {p \in Clients \X (1..4) : p[2] =< DropsOf(p[1])}
ConnectionsLeft == {p \in Clients \X Clients : p[2] \in Range(waiting[p[1]])}
AtLeisure == {k \in Clients : vm[k] # "busy"}
SessionsLeft == <<CommandsLeft, KeepersLeft, VmsLeft, FilesLeft, DropsLeft, ConnectionsLeft, AtLeisure>>

LeftFinite == \A i \in 1..7 : IsFiniteSet(SessionsLeft[i])
Fewer(S, T) == S \subseteq T /\ S # T
LessLeft(s, t) == \E i \in 1..7 : Fewer(s[i], t[i]) /\ \A j \in 1..(i - 1) : s[j] = t[j]

(* The list of what is left, one by one, before and after a step. *)
LEMMA TheLeft ==
  /\ SessionsLeft[1] = CommandsLeft /\ SessionsLeft[2] = KeepersLeft /\ SessionsLeft[3] = VmsLeft
  /\ SessionsLeft[4] = FilesLeft /\ SessionsLeft[5] = DropsLeft /\ SessionsLeft[6] = ConnectionsLeft
  /\ SessionsLeft[7] = AtLeisure
  /\ SessionsLeft'[1] = CommandsLeft' /\ SessionsLeft'[2] = KeepersLeft' /\ SessionsLeft'[3] = VmsLeft'
  /\ SessionsLeft'[4] = FilesLeft' /\ SessionsLeft'[5] = DropsLeft' /\ SessionsLeft'[6] = ConnectionsLeft'
  /\ SessionsLeft'[7] = AtLeisure'
BY DEF SessionsLeft

LEMMA LessAt ==
  ASSUME NEW s, NEW t, NEW i \in 1..7, Fewer(s[i], t[i]), \A j \in 1..(i - 1) : s[j] = t[j]
  PROVE  LessLeft(s, t)
BY DEF LessLeft

LEMMA StepUses ==
  ASSUME \/ Fewer(CommandsLeft', CommandsLeft)
         \/ /\ CommandsLeft' = CommandsLeft
            /\ \/ Fewer(KeepersLeft', KeepersLeft)
               \/ /\ KeepersLeft' = KeepersLeft
                  /\ \/ Fewer(VmsLeft', VmsLeft)
                     \/ /\ VmsLeft' = VmsLeft
                        /\ \/ Fewer(FilesLeft', FilesLeft)
                           \/ /\ FilesLeft' = FilesLeft
                              /\ \/ Fewer(DropsLeft', DropsLeft)
                                 \/ /\ DropsLeft' = DropsLeft
                                    /\ \/ Fewer(ConnectionsLeft', ConnectionsLeft)
                                       \/ /\ ConnectionsLeft' = ConnectionsLeft
                                          /\ Fewer(AtLeisure', AtLeisure)
  PROVE  LessLeft(SessionsLeft', SessionsLeft)
<1> DEFINE same(n) == \A j \in 1..n : SessionsLeft'[j] = SessionsLeft[j]
           less(n) == Fewer(SessionsLeft'[n], SessionsLeft[n]) /\ same(n - 1)
<1>1. /\ 1..(1 - 1) = {} /\ 1..(2 - 1) = {1} /\ 1..(3 - 1) = {1, 2} /\ 1..(4 - 1) = {1, 2, 3}
      /\ 1..(5 - 1) = {1, 2, 3, 4} /\ 1..(6 - 1) = {1, 2, 3, 4, 5} /\ 1..(7 - 1) = {1, 2, 3, 4, 5, 6}
  OBVIOUS
<1>2. less(1) \/ less(2) \/ less(3) \/ less(4) \/ less(5) \/ less(6) \/ less(7)
  BY <1>1, TheLeft
<1>3. \E n \in 1..7 : less(n)
  BY <1>2
<1>4. PICK n \in 1..7 : less(n)
  BY <1>3
<1> QED BY <1>4, LessAt

(* A command that goes on. *)
LEMMA CommandUses ==
  ASSUME TypeOK, NEW c \in Clients, \A d \in Clients : d # c => pc'[d] = pc[d],
         StepsOf(pc'[c]) < StepsOf(pc[c])
  PROVE  LessLeft(SessionsLeft', SessionsLeft)
<1>1. StepsOf(pc[c]) \in 1..8 /\ StepsOf(pc'[c]) \in 0..8
  BY DEF StepsOf
<1>2. CommandsLeft' \subseteq CommandsLeft
  BY <1>1 DEF CommandsLeft
<1>3. <<c, StepsOf(pc[c])>> \in CommandsLeft /\ <<c, StepsOf(pc[c])>> \notin CommandsLeft'
  BY <1>1 DEF CommandsLeft
<1> QED BY <1>2, <1>3, StepUses DEF Fewer

(* A keeper that goes on, or ends. *)
LEMMA KeeperUses ==
  ASSUME TypeOK, NEW k \in Clients, UNCHANGED clients, \A j \in Clients : j # k => keeper'[j] = keeper[j],
         StagesOf(keeper'[k]) < StagesOf(keeper[k])
  PROVE  LessLeft(SessionsLeft', SessionsLeft)
<1>1. StagesOf(keeper[k]) \in 1..10 /\ StagesOf(keeper'[k]) \in 0..10
  BY DEF StagesOf
<1>2. KeepersLeft' \subseteq KeepersLeft
  BY <1>1 DEF KeepersLeft
<1>3. <<k, StagesOf(keeper[k])>> \in KeepersLeft /\ <<k, StagesOf(keeper[k])>> \notin KeepersLeft'
  BY <1>1 DEF KeepersLeft
<1>4. CommandsLeft' = CommandsLeft
  BY DEF CommandsLeft, clients
<1> QED BY <1>2, <1>3, <1>4, StepUses DEF Fewer

LEMMA GuestUses ==
  ASSUME TypeOK, Frame, Settling, NEW k \in Clients, Guest(k)
  PROVE  LessLeft(SessionsLeft', SessionsLeft)
<1>0. UNCHANGED <<clients, keeper, opened, file, crashes>> /\ Connected(k) /\ ClientFrame(k) /\ On(k)
  BY DEF Guest, Accept, Serve, IdleTimeout, Obey, Settling, Frame, On
<1>1. CommandsLeft' = CommandsLeft /\ KeepersLeft' = KeepersLeft /\ FilesLeft' = FilesLeft /\ DropsLeft' = DropsLeft
  BY <1>0 DEF CommandsLeft, KeepersLeft, FilesLeft, DropsLeft, DropsOf, clients
<1>2. CASE PowerOff(k)
  <2>1. vm'[k] = "off" /\ \A j \in Clients : j # k => vm'[j] = vm[j]
    BY <1>2 DEF PowerOff, TypeOK
  <2>2. Fewer(VmsLeft', VmsLeft)
    BY <1>0, <2>1 DEF VmsLeft, Fewer, On
  <2> QED BY <1>1, <2>2, StepUses
<1>3. CASE vm' = [vm EXCEPT ![k] = "busy"] /\ UNCHANGED waiting /\ vm[k] \in {"listening", "idle"}
  <2>1. vm'[k] = "busy" /\ \A j \in Clients : j # k => vm'[j] = vm[j]
    BY <1>3 DEF TypeOK
  <2>2. VmsLeft' = VmsLeft /\ ConnectionsLeft' = ConnectionsLeft /\ Fewer(AtLeisure', AtLeisure)
    BY <1>3, <2>1 DEF VmsLeft, ConnectionsLeft, AtLeisure, Fewer, On
  <2> QED BY <1>1, <2>2, StepUses
<1>4. CASE vm' = [vm EXCEPT ![k] = "idle"] /\ waiting' = [waiting EXCEPT ![k] = Tail(@)] /\ vm[k] = "busy"
  <2>1. /\ vm'[k] = "idle" /\ waiting'[k] = Tail(waiting[k])
        /\ \A j \in Clients : j # k => vm'[j] = vm[j] /\ waiting'[j] = waiting[j]
    BY <1>4 DEF TypeOK
  <2>2. VmsLeft' = VmsLeft
    BY <1>4, <2>1 DEF VmsLeft, On
  <2>3. waiting[k] \in Seq(Clients) /\ waiting[k] # <<>>
    BY <1>0, <1>4 DEF ClientFrame, TypeOK
  <2>4. /\ Len(waiting[k]) \in Nat /\ 1 \in DOMAIN waiting[k] /\ DOMAIN waiting[k] = 1..Len(waiting[k])
        /\ DOMAIN waiting'[k] = 1..(Len(waiting[k]) - 1)
        /\ \A i \in 1..(Len(waiting[k]) - 1) : waiting'[k][i] = waiting[k][i + 1]
        /\ waiting[k][1] \in Clients
    BY <2>1, <2>3
  <2>5. \A i \in DOMAIN waiting'[k] : i + 1 \in DOMAIN waiting[k] /\ waiting'[k][i] = waiting[k][i + 1] /\ i + 1 # 1
    BY <2>4
  <2>6. \A i \in DOMAIN waiting[k] : waiting[k][i] = waiting[k][1] => i = 1
    BY <1>0, <2>4 DEF Connected
  <2>7. Range(waiting'[k]) \subseteq Range(waiting[k]) /\ waiting[k][1] \in Range(waiting[k])
    BY <2>4, <2>5 DEF Range
  <2>8. waiting[k][1] \notin Range(waiting'[k])
    BY <2>5, <2>6 DEF Range
  <2>9. ConnectionsLeft' \subseteq ConnectionsLeft
    BY <2>1, <2>7 DEF ConnectionsLeft
  <2>10. <<k, waiting[k][1]>> \in ConnectionsLeft /\ <<k, waiting[k][1]>> \notin ConnectionsLeft'
    BY <2>4, <2>7, <2>8 DEF ConnectionsLeft
  <2> QED BY <1>1, <2>2, <2>9, <2>10, StepUses DEF Fewer
<1> QED BY <1>2, <1>3, <1>4 DEF Guest, Accept, Serve, IdleTimeout, Obey

(* A command that decides what to delete, or deletes it.                    *)
LEMMA DecisionUses ==
  ASSUME TypeOK, NEW c \in Clients, UNCHANGED <<pc, env, keeper, vm, file>>,
         \A d \in Clients : d # c => drops'[d] = drops[d],
         DropsOf(c)' < DropsOf(c)
  PROVE  LessLeft(SessionsLeft', SessionsLeft)
<1>1. CommandsLeft' = CommandsLeft /\ KeepersLeft' = KeepersLeft /\ VmsLeft' = VmsLeft /\ FilesLeft' = FilesLeft
  BY DEF CommandsLeft, KeepersLeft, VmsLeft, FilesLeft, On
<1>2. DropsOf(c) \in 1..4 /\ DropsOf(c)' \in 0..4 /\ \A d \in Clients : d # c => DropsOf(d)' = DropsOf(d)
  BY DEF DropsOf
<1> DEFINE m == DropsOf(c)
<1>3. m \in 1..4 /\ DropsOf(c)' < m
  BY <1>2
<1>4. <<c, m>> \in DropsLeft
  BY <1>3 DEF DropsLeft
<1> HIDE DEF m
<1>5. <<c, m>> \notin DropsLeft'
  BY <1>2, <1>3 DEF DropsLeft
<1>6. DropsLeft' \subseteq DropsLeft
  <2> SUFFICES ASSUME NEW d \in Clients, NEW i \in 1..4, i =< DropsOf(d)' PROVE i =< DropsOf(d)
    BY DEF DropsLeft
  <2> QED BY <1>2
<1> QED BY <1>1, <1>4, <1>5, <1>6, StepUses DEF Fewer

LEMMA ClientUses ==
  ASSUME TypeOK, Frame, Settling, NEW c \in Clients, Client(c)
  PROVE  UNCHANGED vars \/ LessLeft(SessionsLeft', SessionsLeft)
<1>0. /\ pc \in [Clients -> PcValues] /\ ClientFrame(c) /\ env[c] \in Envs
      /\ drops \in [Clients -> [parts : SUBSET {"file", "socket"}, of : SUBSET Envs]]
      /\ file \in [Envs -> [by : Keepers, names : Keepers]] /\ kind[c] \in Kinds
  BY DEF TypeOK, PcValues, Frame
<1>c. ASSUME StepsOf(pc'[c]) < StepsOf(pc[c]), \A d \in Clients : d # c => pc'[d] = pc[d]
      PROVE  LessLeft(SessionsLeft', SessionsLeft)
  BY <1>c, CommandUses
<1>s. /\ StepsOf("clean") = 7 /\ StepsOf("look") = 6 /\ StepsOf("poll") = 5 /\ StepsOf("connect") = 5
      /\ StepsOf("send") = 4 /\ StepsOf("reply") = 3 /\ StepsOf("term") = 3 /\ StepsOf("wait") = 2
      /\ StepsOf("remove") = 1 /\ StepsOf("done") = 0
  BY DEF StepsOf
<1>1. CASE CleanStale(c)
  <2>1. CASE Go(c, "look") /\ UNCHANGED drops
    BY <1>1, <2>1, <1>0, <1>c, <1>s DEF CleanStale, Go
  <2>2. CASE \E stale \in SUBSET Envs : stale # {} /\ Drop(c, {"file", "socket"}, stale) /\ UNCHANGED pc
    <3>1. PICK stale \in SUBSET Envs : stale # {} /\ Drop(c, {"file", "socket"}, stale) /\ UNCHANGED pc
      BY <2>2
    <3>2. /\ drops'[c] = [parts |-> {"file", "socket"}, of |-> stale] /\ \A d \in Clients : d # c => drops'[d] = drops[d]
          /\ UNCHANGED <<env, machines, file>> /\ pc[c] = "clean" /\ drops[c] = Nothing
      BY <1>0, <1>1, <3>1 DEF Drop, CleanStale
    <3>3. drops'[c] # Nothing
      BY <3>1, <3>2 DEF Nothing
    <3>4. DropsOf(c) = 3 /\ DropsOf(c)' = 2
      BY <3>2, <3>3 DEF DropsOf
    <3> QED BY <3>1, <3>2, <3>4, DecisionUses DEF machines
  <2> QED BY <1>1, <2>1, <2>2 DEF CleanStale
<1>2. CASE Discover(c)
  <2>0. /\ pc[c] \in {"look", "poll", "connect"} /\ drops[c] = Nothing
        /\ UNCHANGED <<kind, env, file, sock, crashes>>
    BY <1>2 DEF Discover
  <2>1. CASE Useless(env[c]) # {} /\ Drop(c, Useless(env[c]), {env[c]}) /\ UNCHANGED <<pc, info, machines, disturbed>>
    <3>1. drops'[c] = [parts |-> Useless(env[c]), of |-> {env[c]}] /\ \A d \in Clients : d # c => drops'[d] = drops[d]
      BY <1>0, <2>1 DEF Drop
    <3>2. file[env[c]].by # Nobody /\ "file" \in Useless(env[c])
      BY <2>1 DEF Useless
    <3>3. drops'[c] # Nothing
      BY <3>1 DEF Nothing
    <3>4. DropsOf(c) = 3 /\ DropsOf(c)' = 2
      BY <2>0, <2>1, <3>1, <3>2, <3>3 DEF DropsOf
    <3> QED BY <2>0, <2>1, <3>1, <3>4, DecisionUses DEF machines
  <2>2. CASE file[env[c]].by = Nobody /\ FoundNone(c) /\ UNCHANGED <<info, drops>>
    <3>1. CASE Forks(c)
      BY <3>1, <1>0, <1>c, <1>s DEF Forks
    <3>2. CASE Quiet(c)
      <4>1. CASE pc' = [pc EXCEPT ![c] = "done"]
        BY <2>0, <4>1, <1>0, <1>c, <1>s
      <4>2. CASE pc' = pc
        BY <2>0, <2>2, <3>2, <4>2 DEF Quiet, vars, clients
      <4> QED BY <3>2, <4>1, <4>2 DEF Quiet
    <3> QED BY <2>2, <3>1, <3>2, FoundNoneCases
  <2>3. CASE file[env[c]].by # Nobody /\ Useless(env[c]) = {} /\ Found(c) /\ UNCHANGED drops
    <3>1. \/ kind[c] = "install" /\ pc[c] = "look" /\ pc' = [pc EXCEPT ![c] = "connect"]
          \/ (kind[c] = "stop" \/ pc[c] = "connect") /\ pc' = [pc EXCEPT ![c] = "send"]
          \/ pc' = [pc EXCEPT ![c] = "done"]
      BY <2>0, <2>3, FoundCases
    <3> QED BY <2>0, <3>1, <1>0, <1>c, <1>s
  <2> QED BY <1>2, <2>1, <2>2, <2>3 DEF Discover
<1>3. CASE Delete(c)
  <2> DEFINE part == IF "file" \in drops[c].parts THEN "file" ELSE "socket"
             left == drops[c].parts \ {part}
  <2>0. /\ drops[c] # Nothing /\ Deleted(drops[c].of, part) /\ UNCHANGED <<kind, env, info, crashes>>
        /\ pc[c] \in {"clean", "look", "poll", "connect", "remove"} /\ drops[c].of \in SUBSET Envs
        /\ pc[c] # "clean" => drops[c].of = {env[c]}
    BY <1>0, <1>3 DEF Delete, ClientFrame
  <2>d. /\ drops[c].parts \in SUBSET {"file", "socket"}
        /\ "file" \in drops[c].parts => part = "file" /\ left \subseteq {"socket"}
        /\ "file" \notin drops[c].parts => part = "socket" /\ left = {}
    BY <1>0
  <2> HIDE DEF part, left
  <2>1. CASE StepsOf(pc'[c]) < StepsOf(pc[c]) /\ \A d \in Clients : d # c => pc'[d] = pc[d]
    BY <1>c, <2>1
  <2>2. CASE /\ UNCHANGED <<pc, machines>> /\ \A d \in Clients : d # c => drops'[d] = drops[d]
             /\ \/ left # {} /\ drops'[c] = [parts |-> left, of |-> drops[c].of]
                \/ drops'[c] = Nothing /\ pc[c] = "poll"
    <3>1. \A e \in Envs : file'[e] = file[e] \/ file'[e] = NoFile
      BY <1>0, <2>0, DeletedFrame
    <3>2. CommandsLeft' = CommandsLeft /\ KeepersLeft' = KeepersLeft /\ VmsLeft' = VmsLeft
      BY <2>2 DEF CommandsLeft, KeepersLeft, VmsLeft, On, machines
    <3>3. FilesLeft' \subseteq FilesLeft
      BY <3>1 DEF FilesLeft, NoFile
    <3>4. CASE FilesLeft' # FilesLeft
      BY <3>2, <3>3, <3>4, StepUses DEF Fewer
    <3>5. CASE FilesLeft' = FilesLeft
      <4>1. /\ \A e \in Envs : file'[e].by = Nobody <=> file[e].by = Nobody
            /\ \A d \in Clients : env[d] \in Envs
        BY <3>5 DEF FilesLeft, TypeOK
      <4>2. \A d \in Clients : d # c => DropsOf(d)' = DropsOf(d)
        BY <2>0, <2>2, <4>1 DEF DropsOf
      <4>3. part = "file" /\ pc[c] # "clean" => file[env[c]].by = Nobody
        BY <1>0, <2>0, <4>1 DEF Deleted, NoFile
      <4>4. DropsOf(c)' < DropsOf(c)
        <5>1. CASE left # {} /\ drops'[c] = [parts |-> left, of |-> drops[c].of]
          <6>1. drops'[c] # Nothing /\ "file" \notin drops'[c].parts /\ part = "file" /\ "file" \in drops[c].parts
            BY <2>d, <5>1 DEF Nothing
          <6> QED BY <1>0, <2>0, <2>2, <4>1, <4>3, <6>1 DEF DropsOf
        <5>2. CASE drops'[c] = Nothing /\ pc[c] = "poll"
          BY <1>0, <2>0, <2>2, <2>d, <4>1, <4>3, <5>2 DEF DropsOf
        <5> QED BY <2>2, <5>1, <5>2
      <4>5. DropsOf(c) \in 1..4 /\ DropsOf(c)' \in 0..4
        BY <2>0 DEF DropsOf
      <4> DEFINE m == DropsOf(c)
      <4>6. m \in 1..4 /\ DropsOf(c)' < m /\ <<c, m>> \in DropsLeft
        BY <4>4, <4>5 DEF DropsLeft
      <4> HIDE DEF m
      <4>7. <<c, m>> \notin DropsLeft'
        BY <4>5, <4>6 DEF DropsLeft
      <4>8. DropsLeft' \subseteq DropsLeft
        <5> SUFFICES ASSUME NEW d \in Clients, NEW i \in 1..4, i =< DropsOf(d)' PROVE i =< DropsOf(d)
          BY DEF DropsLeft
        <5> QED BY <4>2, <4>4, <4>5
      <4> QED BY <3>2, <3>5, <4>6, <4>7, <4>8, StepUses DEF Fewer
    <3> QED BY <3>4, <3>5
  <2>3. CASE left # {} /\ Drop(c, left, drops[c].of) /\ UNCHANGED <<pc, machines, disturbed>>
    <3>1. drops'[c] = [parts |-> left, of |-> drops[c].of] /\ \A d \in Clients : d # c => drops'[d] = drops[d]
      BY <1>0, <2>3 DEF Drop
    <3> QED BY <2>2, <2>3, <3>1
  <2>4. CASE /\ drops' = [drops EXCEPT ![c] = Nothing]
             /\ CASE pc[c] = "clean" -> Go(c, "look") /\ UNCHANGED <<machines, disturbed>>
                  [] pc[c] = "remove" -> Go(c, "done") /\ UNCHANGED <<machines, disturbed>>
                  [] OTHER -> FoundNone(c)
    <3>0. drops'[c] = Nothing /\ \A d \in Clients : d # c => drops'[d] = drops[d]
      BY <1>0, <2>4
    <3>1. CASE pc[c] = "clean" /\ Go(c, "look")
      BY <3>1, <1>0, <1>c, <1>s DEF Go
    <3>2. CASE Forks(c)
      BY <3>2, <1>0, <1>c, <1>s DEF Forks
    <3>3. CASE pc[c] \in {"look", "poll", "connect", "remove"} /\ pc' = [pc EXCEPT ![c] = "done"]
      BY <3>3, <1>0, <1>c, <1>s
    <3>4. CASE pc[c] = "poll" /\ pc' = pc /\ UNCHANGED machines
      BY <2>2, <3>0, <3>4
    <3> QED BY <2>0, <2>4, <3>1, <3>2, <3>3, <3>4, FoundNoneCases DEF Quiet, Go
  <2> QED BY <1>3, <2>3, <2>4 DEF Delete, part, left
<1>4. CASE GiveUp(c)
  BY <1>4, <1>0, <1>c, <1>s DEF GiveUp, Go
<1>5. CASE Send(c)
  <2>1. pc[c] = "send" /\ \E to \in {"reply", "term", "done"} : Go(c, to)
    <3>1. CASE kind[c] = "stop"
      BY <1>5, <3>1 DEF Send
    <3>2. CASE kind[c] = "install" /\ Listens(sock[env[c]])
      BY <1>5, <3>2 DEF Send
    <3>3. CASE kind[c] # "stop" /\ ~(kind[c] = "install" /\ Listens(sock[env[c]]))
      BY <1>5, <3>3 DEF Send
    <3> QED BY <1>5, <3>1, <3>2, <3>3 DEF Send
  <2> QED BY <2>1, <1>0, <1>c, <1>s DEF Go
<1>6. CASE Reply(c) \/ Terminate(c) \/ Await(c)
  BY <1>6, <1>0, <1>c, <1>s DEF Reply, Terminate, Await, Go
<1> QED BY <1>1, <1>2, <1>3, <1>4, <1>5, <1>6 DEF Client

(* Every step of a command, a keeper or a guest, and every death, uses up    *)
(* something finite, in lexicographic order: a start polls as long as its    *)
(* session file is to come, but deletes what is useless there only as often  *)
(* as there is a file to delete (discover_vm_session), and what a guest has   *)
(* not finished with it finishes with or cuts off.  So the machines settle.   *)
THEOREM SessionsEnd ==
  ASSUME IsFiniteSet(Envs)
  PROVE  Spec => []LeftFinite /\ [][LessLeft(SessionsLeft', SessionsLeft)]_vars
<1>1. LeftFinite
  <2>1. IsFiniteSet(Clients) /\ IsFiniteSet(1..8) /\ IsFiniteSet(1..10) /\ IsFiniteSet(1..4)
    <3>1. \A n \in Nat : IsFiniteSet(1..n)
      BY FS_Interval
    <3> QED BY <3>1, VmSessionAssumption DEF Clients
  <2>2. /\ IsFiniteSet(Clients \X (1..8)) /\ IsFiniteSet(Clients \X (1..10))
        /\ IsFiniteSet(Clients \X (1..4)) /\ IsFiniteSet(Clients \X Clients)
    BY <2>1, FS_Product
  <2>3. /\ CommandsLeft \subseteq Clients \X (1..8) /\ KeepersLeft \subseteq Clients \X (1..10)
        /\ VmsLeft \subseteq Clients /\ FilesLeft \subseteq Envs /\ DropsLeft \subseteq Clients \X (1..4)
        /\ ConnectionsLeft \subseteq Clients \X Clients /\ AtLeisure \subseteq Clients
    BY DEF CommandsLeft, KeepersLeft, VmsLeft, FilesLeft, DropsLeft, ConnectionsLeft, AtLeisure
  <2>4. /\ IsFiniteSet(CommandsLeft) /\ IsFiniteSet(KeepersLeft) /\ IsFiniteSet(VmsLeft) /\ IsFiniteSet(FilesLeft)
        /\ IsFiniteSet(DropsLeft) /\ IsFiniteSet(ConnectionsLeft) /\ IsFiniteSet(AtLeisure)
    BY <2>1, <2>2, <2>3, FS_Subset
  <2>5. 1..7 = {1, 2, 3, 4, 5, 6, 7}
    OBVIOUS
  <2> QED BY <2>4, <2>5, TheLeft DEF LeftFinite
<1>2. SettlingInv /\ [Next]_vars => [LessLeft(SessionsLeft', SessionsLeft)]_vars
  <2> SUFFICES ASSUME TypeOK, Frame, Settling, Next, ~UNCHANGED vars PROVE LessLeft(SessionsLeft', SessionsLeft)
    BY DEF SettlingInv, IInv
  <2>1. CASE Begin
    <3>1. PICK c \in Clients : pc[c] = "none" /\ Go(c, "clean")
      BY <2>1 DEF Begin
    <3>2. pc'[c] = "clean" /\ \A d \in Clients : d # c => pc'[d] = pc[d]
      BY <3>1 DEF Go, TypeOK
    <3>3. StepsOf(pc'[c]) < StepsOf(pc[c])
      BY <3>1, <3>2 DEF StepsOf
    <3> QED BY <3>2, <3>3, CommandUses
  <2>2. ASSUME NEW k \in Clients, Keeper(k) \/ Crash(k) PROVE LessLeft(SessionsLeft', SessionsLeft)
    <3>1. UNCHANGED clients /\ \A j \in Clients : j # k => keeper'[j] = keeper[j]
      BY <2>2 DEF Keeper, Setup, Ready, BootFails, Open, Write, Handle, Arm, Unregister, UnlinkSocket, UnlinkFile, Crash, Kill, TypeOK
    <3>2. \/ keeper[k] = "setup" /\ keeper'[k] = "boot"
          \/ keeper[k] = "boot" /\ keeper'[k] = "open"
          \/ keeper[k] = "open" /\ keeper'[k] = "write"
          \/ keeper[k] = "write" /\ keeper'[k] = "wait"
          \/ keeper[k] = "wait" /\ keeper'[k] = "deaf"
          \/ keeper[k] = "deaf" /\ keeper'[k] = "armed"
          \/ keeper[k] = "armed" /\ keeper'[k] \in {"ending", "leaving"}
          \/ keeper[k] = "ending" /\ keeper'[k] = "leaving"
          \/ keeper[k] \in {"boot", "open", "write", "wait", "deaf", "armed", "ending", "leaving"} /\ keeper'[k] = "gone"
      BY <2>2 DEF Keeper, Setup, Ready, BootFails, Open, Write, Handle, Arm, Unregister, UnlinkSocket, UnlinkFile, Crash, Kill, TypeOK
    <3>3. StagesOf(keeper'[k]) < StagesOf(keeper[k])
      BY <3>2 DEF StagesOf
    <3> QED BY <3>1, <3>3, KeeperUses
  <2> QED BY <2>1, <2>2, ClientUses, GuestUses DEF Next
<1> QED BY <1>1, <1>2, AlwaysSettling, PTL DEF Spec
=============================================================================
