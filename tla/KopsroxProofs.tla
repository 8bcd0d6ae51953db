--------------------------- MODULE KopsroxProofs ----------------------------
(***************************************************************************)
(* Theorems about Kopsrox for every cluster size, operator and number of   *)
(* faults.  The first half says which VMs there are: types, what may come  *)
(* and go, the abstract promise.  The second says which cluster each of    *)
(* them belongs to and what m1's API lists: that the drift baseline is     *)
(* never ahead of the cluster, that a restore brings back the snapshot     *)
(* asked for, and that there is never a second cluster.                    *)
(***************************************************************************)
EXTENDS KopsroxProperties, FiniteSetTheorems, TLAPS

(******************************** Guests ***********************************)
\* The empty string is a token.
LEMMA NoTokenTyped == NoToken \in Token
  BY MaxIdAssumption DEF NoToken, Token

\* A guest with a field of the right type replaced is a guest.
LEMMA NodeFields ==
  ASSUME NEW n \in NodeState
  PROVE  /\ \A x \in {"absent", "stopped", "running"} : [n EXCEPT !.st = x] \in NodeState
         /\ \A x \in BOOLEAN : [n EXCEPT !.prepared = x] \in NodeState
         /\ \A x \in {"disabled", "starting", "active", "killed"} :
              [n EXCEPT !.unit = x] \in NodeState
         /\ \A x \in {"none", "init", "server", "agent"} : [n EXCEPT !.role = x] \in NodeState
         /\ \A x \in Token : [n EXCEPT !.tok = x] \in NodeState
         /\ \A x \in SUBSET Settings : [n EXCEPT !.opts = x] \in NodeState
         /\ \A x \in 0..MaxId : [n EXCEPT !.cl = x] \in NodeState
         /\ \A x \in SUBSET Id : [n EXCEPT !.known = x] \in NodeState
         /\ \A x \in BOOLEAN : [n EXCEPT !.manifest = x] \in NodeState
  BY DEF NodeState

\* What the calls do to one guest keeps its type.
LEMMA NodeOps ==
  ASSUME NEW n \in NodeState
  PROVE  /\ Started(n) \in NodeState /\ Booted(n) \in NodeState
         /\ Killed(n) \in NodeState /\ Wiped(n) \in NodeState
         /\ Prepared(n) \in NodeState /\ Unconfigured(n) \in NodeState
         /\ Reapplied(n) \in NodeState
<1>1. Started(n) \in NodeState /\ Killed(n) \in NodeState
  BY DEF NodeState, Started, Killed
<1>2. Wiped(n) \in NodeState
  <2>1. 0 \in 0..MaxId
    BY MaxIdAssumption
  <2>2. [n EXCEPT !.cl = 0] \in NodeState
    BY <2>1, NodeFields
  <2> QED BY <2>2, NodeFields DEF Wiped
<1>3. Prepared(n) \in NodeState /\ Reapplied(n) \in NodeState
  BY DEF NodeState, Prepared, Reapplied
<1>4. Unconfigured(n) \in NodeState
  BY NodeFields, NoTokenTyped DEF Unconfigured
<1>5. Booted(n) \in NodeState
  BY DEF NodeState, Booted
<1> QED BY <1>1, <1>2, <1>3, <1>4, <1>5

\* A fresh clone is a guest like any other, and so is no guest at all.
LEMMA AbsentTyped == Absent \in NodeState /\ Cloned \in NodeState
<1>1. 0 \in 0..MaxId
  BY MaxIdAssumption
<1>2. Absent \in NodeState
  BY <1>1, NoTokenTyped DEF Absent, NodeState
<1> QED BY <1>2, NodeFields DEF Cloned

\* Writing config.yaml keeps the type of the guest.
LEMMA ConfiguredTyped ==
  ASSUME NEW n \in NodeState, NEW r \in {"none", "init", "server", "agent"},
         NEW t \in Token, NEW o \in Settings
  PROVE  Configured(n, r, t, o) \in NodeState
  BY NodeFields DEF Configured

\* A guest in hand is replaced by a guest.
LEMMA OneGuest ==
  ASSUME GuestsTyped, NEW v \in Offset, NEW n \in NodeState,
         node' = [node EXCEPT ![v] = n]
  PROVE  node' \in [Offset -> NodeState]
  BY DEF GuestsTyped

\* What kubectl does to one cluster keeps its type.
LEMMA ClusterOps ==
  ASSUME NEW k \in ClusterState, NEW n \in Offset
  PROVE  /\ NodeDeleted(k, n) \in ClusterState
         /\ SecretDeleted(k, n) \in ClusterState
         /\ Cordoned(k, n) \in ClusterState
  BY DEF ClusterState, NodeDeleted, SecretDeleted, Cordoned

\* A cluster with some of its fields replaced is a cluster.
LEMMA ClusterFields ==
  ASSUME NEW k \in ClusterState
  PROVE  /\ \A x \in SUBSET Offset : [k EXCEPT !.members = x] \in ClusterState
         /\ \A x \in SUBSET Offset : [k EXCEPT !.ready = x] \in ClusterState
         /\ \A x, y \in SUBSET Offset, z \in BOOLEAN :
              [k EXCEPT !.reg = x, !.secrets = y, !.vip = z] \in ClusterState
  BY DEF ClusterState

\* One cluster is replaced by a cluster.
LEMMA OneClusterTyped ==
  ASSUME GuestsTyped, NEW c \in Id, NEW k \in ClusterState,
         clu' = [clu EXCEPT ![c] = k]
  PROVE  clu' \in [Id -> ClusterState]
  BY DEF GuestsTyped

\* cluster-init makes a cluster.
LEMMA NewClusterTyped ==
  ASSUME NEW p \in 0..MaxId, NEW v \in Offset
  PROVE  NewCluster(p, v) \in ClusterState
  BY DEF NewCluster, ClusterState

\* The guests start out typed: the image is there, nothing else is.
LEMMA GuestsInitTyped == GuestsInit => GuestsTyped
<1> SUFFICES ASSUME GuestsInit PROVE GuestsTyped
  OBVIOUS
<1>1. node \in [Offset -> NodeState]
  BY AbsentTyped, NodeFields DEF GuestsInit
<1>2. clu \in [Id -> ClusterState]
  <2>1. M1 \in Offset /\ 0 \in 0..MaxId
    BY LayoutAssumption, MaxIdAssumption DEF M1, Offset
  <2>2. NewCluster(0, M1) \in ClusterState
    BY <2>1, NewClusterTyped
  <2>3. [NewCluster(0, M1) EXCEPT !.members = {}] \in ClusterState
    BY <2>2, ClusterFields
  <2> QED BY <2>3 DEF GuestsInit
<1>3. ids \in 0..MaxId
  BY MaxIdAssumption DEF GuestsInit
<1> QED BY <1>1, <1>2, <1>3 DEF GuestsTyped

\* k3s at work, whichever guest gets further, keeps the types.
LEMMA ProgressTyped == GuestsTyped /\ Progress => GuestsTyped'
<1> SUFFICES ASSUME GuestsTyped, NEW v \in Offset,
                    Bootstrap(v) \/ (\E c \in Id : Join(v, c)) \/ Register(v) \/ Heartbeat(v)
             PROVE  GuestsTyped'
  BY DEF Progress
<1>n. node[v] \in NodeState
  BY DEF GuestsTyped
<1>m. Name(v) \in Offset
  BY LayoutAssumption DEF Name, Image, Offset
<1>1. CASE Bootstrap(v)
  <2>1. ids + 1 \in Id
    BY <1>1, MaxIdAssumption DEF Bootstrap, CanBootstrap, GuestsTyped, Id
  <2>2. node[v].tok.pw \in 0..MaxId
    BY <1>n DEF NodeState, Token
  <2>3. NewCluster(IF node[v].tok = NoToken THEN ids + 1 ELSE node[v].tok.pw, v)
          \in ClusterState
    BY <2>1, <2>2, NewClusterTyped, MaxIdAssumption DEF Id
  <2>4. [node[v] EXCEPT !.cl = ids + 1] \in NodeState
    <3>1. ids + 1 \in 0..MaxId
      BY <2>1, MaxIdAssumption DEF Id
    <3> QED BY <1>n, <3>1, NodeFields
  <2>5. node' \in [Offset -> NodeState]
    <3>1. node' = [node EXCEPT ![v] = [node[v] EXCEPT !.cl = ids + 1]]
      BY <1>1 DEF Bootstrap
    <3> QED BY <2>4, <3>1, OneGuest
  <2> QED BY <1>1, <2>1, <2>3, <2>5, OneClusterTyped, MaxIdAssumption
          DEF Bootstrap, GuestsTyped, Id
<1>2. ASSUME NEW c \in Id, Join(v, c) PROVE GuestsTyped'
  <2>1. clu[c] \in ClusterState /\ c \in 0..MaxId
    BY MaxIdAssumption DEF GuestsTyped, Id
  <2>2. [node[v] EXCEPT !.cl = c] \in NodeState
    BY <1>n, <2>1, NodeFields
  <2>3. [clu[c] EXCEPT !.members = IF node[v].role = "server" THEN @ \cup {v} ELSE @]
          \in ClusterState
    <3>1. (IF node[v].role = "server" THEN clu[c].members \cup {v} ELSE clu[c].members)
            \in SUBSET Offset
      BY <2>1 DEF ClusterState
    <3> QED BY <2>1, <3>1, ClusterFields
  <2> QED BY <1>2, <2>2, <2>3 DEF Join, GuestsTyped
<1>3. CASE Register(v)
  <2> DEFINE c == node[v].cl
  <2>1. c \in Id
    BY <1>3, <1>n, MaxIdAssumption DEF Register, CanRegister, NodeState, Id
  <2>2. clu[c] \in ClusterState
    BY <2>1 DEF GuestsTyped
  <2>3. [node[v] EXCEPT !.unit = "active", !.known = @ \cup {c}] \in NodeState
    <3>1. node[v].known \cup {c} \in SUBSET Id
      BY <1>n, <2>1 DEF NodeState
    <3>2. [node[v] EXCEPT !.unit = "active"] \in NodeState
      BY <1>n, NodeFields
    <3>3. [node[v] EXCEPT !.unit = "active"].known = node[v].known
      BY <1>n DEF NodeState
    <3> QED BY <3>1, <3>2, <3>3, NodeFields
  <2>4. [clu[c] EXCEPT !.reg = @ \cup {Name(v)}, !.secrets = @ \cup {Name(v)},
                       !.vip = @ \/ (node[v].role # "agent" /\ node[v].manifest)]
          \in ClusterState
    BY <1>m, <1>n, <2>2 DEF ClusterState, NodeState
  <2> QED BY <1>3, <2>1, <2>3, <2>4 DEF Register, GuestsTyped
<1>4. CASE Heartbeat(v)
  <2> DEFINE c == node[v].cl
  <2>1. c \in Id
    BY <1>4, <1>n, MaxIdAssumption DEF Heartbeat, CanHeartbeat, NodeState, Id
  <2>2. clu[c] \in ClusterState
    BY <2>1 DEF GuestsTyped
  <2>3. [clu[c] EXCEPT !.ready = @ \cup {Name(v)}] \in ClusterState
    BY <1>m, <2>2 DEF ClusterState
  <2> QED BY <1>4, <2>1, <2>3 DEF Heartbeat, GuestsTyped
<1> QED BY <1>1, <1>2, <1>3, <1>4

\* A node that stops answering, a power loss and a missed lease keep them too.
LEMMA GuestFaultTyped ==
  ASSUME GuestsTyped, NEW v \in Offset,
         (\E c \in Id : LeaseExpires(c, v)) \/ PowerLoss(v) \/ Flap(v)
  PROVE  GuestsTyped'
<1>1. ASSUME NEW c \in Id, LeaseExpires(c, v) PROVE GuestsTyped'
  <2>1. clu[c] \in ClusterState
    BY DEF GuestsTyped
  <2>2. [clu[c] EXCEPT !.ready = @ \ {v}] \in ClusterState
    BY <2>1 DEF ClusterState
  <2> QED BY <1>1, <2>2 DEF LeaseExpires, GuestsTyped
<1>2. CASE PowerLoss(v)
  <2>1. [node[v] EXCEPT !.st = "stopped"] \in NodeState
    BY NodeFields DEF GuestsTyped
  <2> QED BY <1>2, <2>1 DEF PowerLoss, GuestsTyped
<1>3. CASE Flap(v)
  <2> DEFINE d == node[v].cl
  <2>1. d \in Id
    BY <1>3, MaxIdAssumption DEF Flap, NodeState, Id, GuestsTyped
  <2>2. clu[d] \in ClusterState
    BY <2>1 DEF GuestsTyped
  <2>3. [clu[d] EXCEPT !.ready = @ \ {Name(v)}] \in ClusterState
    BY <2>2 DEF ClusterState
  <2> QED BY <1>3, <2>1, <2>3 DEF Flap, GuestsTyped
<1> QED BY <1>1, <1>2, <1>3

(****************************** The command line ***************************)
\* What a call in the middle of a procedure relies on: a loop knows which loop
\* it is, the snapshot that was found is in the bucket, and the token that is
\* being written exists.
Loops  == {"rm", "purge", "slaves", "demote", "workers", "extras"}
InHand == /\ At("idle") <=> cli.phase = "none"
          /\ At("next")  => cli.phase \in Loops
          /\ At("purge") => cli.phase = "purge"
          /\ At("wipe") \/ At("reset") => cli.snap \in DOMAIN s3
          /\ At("write") => node[M1].cl # 0
TypeInv == TypeOK /\ InHand

\* The roles of the layout are offsets.
LEMMA LayoutFacts ==
  /\ Image \in Offset /\ M1 \in Offset /\ Utility \in Offset
  /\ Masters \subseteq Offset /\ Protected \subseteq Offset
  /\ \A k \in Configs : /\ Slaves(k) \subseteq Offset
                        /\ WorkersOf(k) \subseteq Offset
                        /\ Target(k) \subseteq Offset
                        /\ Target(k) \cap Protected = {}
  BY LayoutAssumption DEF Offset, Image, M1, Utility, Masters, Protected,
     Configs, Slaves, WorkersOf, LastWorker, Target

\* A call that only moves on leaves the rest of the invocation alone.
LEMMA GotoTyped ==
  ASSUME CliTyped, NEW p \in Pcs, Goto(p)
  PROVE  /\ cli' \in CliState /\ cli' = [cli EXCEPT !.pc = p]
         /\ cli'.pc = p /\ cli'.phase = cli.phase /\ cli'.snap = cli.snap
  BY DEF CliTyped, CliState, Goto

\* A command that ends leaves an idle command line.
LEMMA IdleTyped == ASSUME NEW k \in Inis PROVE Idle(k) \in CliState
<1>1. 0 \in Offset /\ 0 \in 0..(LastOffset + MaxSnaps)
  BY LayoutAssumption, BoundAssumption DEF Offset
<1> QED BY <1>1 DEF Idle, CliState, Phases, Pcs

\* ... and a result that says which command it was.
LEMMA FinishTyped ==
  ASSUME CliTyped, NEW ok \in BOOLEAN, Finish(ok)
  PROVE  CliTyped' /\ cli'.pc = "idle" /\ cli'.phase = "none"
<1>1. cli' \in CliState /\ cli'.pc = "idle" /\ cli'.phase = "none"
  BY IdleTyped DEF Finish, CliTyped, CliState, Idle
<1>2. cli.cmd \in Commands \cup {"none"} /\ cli.arg \in Nat /\ cli.clean \in BOOLEAN
  BY LayoutAssumption, BoundAssumption DEF CliTyped, CliState
<1> QED BY <1>1, <1>2 DEF Finish, CliTyped

\* A loop starts on offsets.
LEMMA EnterTyped ==
  ASSUME CliTyped, NEW ph \in Phases, NEW p \in Pcs, NEW v \in Offset,
         NEW todo \in SUBSET Offset, Enter(ph, p, v, todo)
  PROVE  /\ cli' \in CliState
         /\ cli'.phase = ph /\ cli'.pc = p /\ cli'.cur = v /\ cli'.left = todo
         /\ cli'.cmd = cli.cmd /\ cli'.arg = cli.arg /\ cli'.cfg = cli.cfg
         /\ cli'.seen = cli.seen
  BY DEF CliTyped, CliState, Enter

\* Where a procedure returns to is a procedure, a loop or the end.
LEMMA ReturnTyped ==
  ASSUME CliTyped, InHand, ~At("idle"), Return
  PROVE  /\ CliTyped'
         /\ cli'.pc \in {"check", "purge", "next", "idle"}
         /\ cli'.pc = "next"  => cli'.phase \in Loops
         /\ cli'.pc = "purge" => cli'.phase = "purge"
         /\ cli'.pc = "idle" <=> cli'.phase = "none"
<1> USE LayoutFacts DEF Phases, Pcs, Loops
<1>0. cli.phase \in Phases \ {"none"}
  BY DEF InHand, CliTyped, CliState
<1>1. CASE cli.phase = "create"
  <2>1. Enter("update", "check", M1, {}) /\ UNCHANGED ghost
    BY <1>1 DEF Return
  <2> QED BY <2>1, EnterTyped, SMTT(20) DEF CliTyped, ghost
<1>2. CASE cli.phase = "restore"
  <2>1. Enter("purge", "purge", M1, {}) /\ UNCHANGED ghost
    BY <1>2 DEF Return
  <2> QED BY <2>1, EnterTyped DEF CliTyped, ghost
<1>3. CASE cli.phase = "update"
  <2>1. /\ cli' = [cli EXCEPT !.phase = "slaves", !.pc = "next", !.seen = Vms,
                              !.left = Slaves(cli.cfg)]
        /\ UNCHANGED ghost
    BY <1>3 DEF Return
  <2>2. Slaves(cli.cfg) \in SUBSET Offset /\ Vms \in SUBSET Offset
    BY InisAssumption DEF CliTyped, CliState, Vms
  <2>3. cli' \in CliState /\ cli'.pc = "next" /\ cli'.phase = "slaves"
    BY <2>1, <2>2 DEF CliTyped, CliState
  <2> QED BY <2>1, <2>3 DEF CliTyped, ghost
<1>4. CASE cli.phase = "node"
  <2>1. Finish(TRUE)
    BY <1>4 DEF Return
  <2> QED BY <2>1, FinishTyped
<1>5. CASE cli.phase \in Loops
  <2>1. Goto("next") /\ UNCHANGED ghost
    BY <1>5 DEF Return
  <2> QED BY <1>5, <2>1, GotoTyped DEF CliTyped, ghost
<1> QED BY <1>0, <1>1, <1>2, <1>3, <1>4, <1>5

\* A call that moves on to another call in the middle of a procedure.
LEMMA MovesOn ==
  ASSUME CliTyped, InHand, ~At("idle"),
         NEW p \in Pcs \ {"idle", "next", "purge", "wipe", "reset", "write"},
         Goto(p), UNCHANGED ghost
  PROVE  CliTyped' /\ InHand'
  BY GotoTyped DEF CliTyped, InHand, At, ghost

\* A procedure or a command that is done.
LEMMA IsDone ==
  ASSUME CliTyped, InHand, ~At("idle"),
         Return \/ (\E ok \in BOOLEAN : Finish(ok))
  PROVE  CliTyped' /\ InHand'
  BY ReturnTyped, FinishTyped DEF InHand, At

\* Nothing but the command line changes.
LEMMA OnlyCli ==
  ASSUME GuestsTyped, FilesTyped, UNCHANGED <<gvars, files>>
  PROVE  GuestsTyped' /\ FilesTyped'
  BY DEF GuestsTyped, FilesTyped, gvars, files

\* kubectl leaves clusters behind, and only of the identities there are.
LEMMA KubectlTyped ==
  ASSUME GuestsTyped, NEW v \in Offset, NEW k,
         clu[node[v].cl] \in ClusterState => k \in ClusterState,
         Kubectl(v, k), UNCHANGED <<node, ids>>
  PROVE  GuestsTyped'
<1>1. CASE ApiAt(v)
  <2>1. node[v].cl \in Id
    BY <1>1, MaxIdAssumption DEF ApiAt, GuestsTyped, NodeState, Id
  <2>2. k \in ClusterState
    BY <2>1 DEF GuestsTyped
  <2>3. clu' = [clu EXCEPT ![node[v].cl] = k]
    BY <1>1 DEF Kubectl
  <2> QED BY <2>1, <2>2, <2>3, OneClusterTyped DEF GuestsTyped
<1>2. CASE ~ApiAt(v)
  BY <1>2 DEF Kubectl, GuestsTyped
<1> QED BY <1>1, <1>2

\* kubectl runs in a master.
LEMMA RoutesTyped == Routes \subseteq Offset
  BY LayoutFacts DEF Routes, OtherMasters

\* One call on the node in hand.
LEMMA CurTyped ==
  ASSUME GuestsTyped, CliTyped, NEW n,
         node[cli.cur] \in NodeState => n \in NodeState,
         node' = [node EXCEPT ![cli.cur] = n], UNCHANGED <<clu, ids>>
  PROVE  GuestsTyped'
<1>1. cli.cur \in Offset
  BY DEF CliTyped, CliState
<1>2. n \in NodeState
  BY <1>1 DEF GuestsTyped
<1> QED BY <1>1, <1>2, OneGuest DEF GuestsTyped

\* Where the commands start, whatever their argument.
LEMMA EntryTyped ==
  ASSUME NEW c \in Commands, NEW a, a \in Takes(c)
  PROVE  /\ Entry(c, a)[1] \in Phases \ {"none"}
         /\ Entry(c, a)[2] \in Pcs \ {"idle", "purge", "wipe", "reset", "write"}
         /\ Entry(c, a)[3] \in Offset
         /\ Entry(c, a)[2] = "next" => Entry(c, a)[1] \in Loops
<1> USE CommandsAssumption, ArgsAssumption, LayoutFacts
        DEF Entry, Phases, Pcs, Loops
<1>1. CASE c \in {"node-destroy", "k3s-uninstall", "rejoin-slave"}
  <2>1. a \in Offset
    BY <1>1 DEF Takes
  <2> QED BY <1>1, <2>1
<1>2. CASE c \in {"create", "update", "restore", "destroy"}
  BY <1>2
<1>3. CASE c \in {"utility", "snapshot", "export-token"}
  BY <1>3
<1> QED BY <1>1, <1>2, <1>3

\* A command begins: what is off is powered on, a fresh invocation is in hand.
LEMMA BeginTyped ==
  ASSUME TypeInv, NEW c \in Commands, NEW a \in 0..(LastOffset + MaxSnaps),
         NEW k \in Inis, Begin(c, a, k)
  PROVE  TypeInv'
<1> USE DEF TypeInv, TypeOK
<1>1. GuestsTyped'
  <2>1. \A v \in Offset : node[v] \in NodeState /\ Booted(node[v]) \in NodeState
    BY NodeOps DEF GuestsTyped
  <2> QED BY <2>1 DEF Begin, PoweredOn, GuestsTyped
<1>2. CliTyped' /\ InHand'
  <2>1. /\ Entry(c, a)[1] \in Phases \ {"none"}
        /\ Entry(c, a)[2] \in Pcs \ {"idle", "purge", "wipe", "reset", "write"}
        /\ Entry(c, a)[3] \in Offset
        /\ Entry(c, a)[2] = "next" => Entry(c, a)[1] \in Loops
    BY EntryTyped DEF Begin
  <2>2. Removable \in SUBSET Offset
    BY DEF Removable, Vms
  <2>3. cli' = [cmd |-> c, arg |-> a, cfg |-> k, phase |-> Entry(c, a)[1],
                pc |-> Entry(c, a)[2], cur |-> Entry(c, a)[3], seen |-> {},
                left |-> IF c \in {"restore", "destroy"} THEN Removable ELSE {},
                snap |-> 0, clean |-> TRUE]
    BY DEF Begin
  <2>4. cli' \in CliState
    BY <2>1, <2>2, <2>3 DEF CliState
  <2>5. CliTyped'
    BY <2>4 DEF Begin, CliTyped
  <2> QED BY <2>1, <2>3, <2>5 DEF InHand, At
<1>3. FilesTyped'
  BY DEF Begin, files, FilesTyped
<1> QED BY <1>1, <1>2, <1>3

\* Every call keeps the types and what the next call relies on.
LEMMA StepTyped == ASSUME TypeInv, Step PROVE TypeInv'
<1> USE DEF TypeInv, TypeOK
<1>c. cli.cur \in Offset /\ cli.seen \subseteq Offset /\ cli.left \subseteq Offset
      /\ cli.cfg \in Inis /\ cli.cfg \in Configs
  BY InisAssumption DEF CliTyped, CliState
<1>n. node[cli.cur] \in NodeState
  BY <1>c DEF GuestsTyped
<1>1. CASE Refuse
  BY <1>1, IsDone, OnlyCli DEF Refuse, At
<1>2. ASSUME NEW v \in Offset, Pick(v) PROVE TypeInv'
  <2>1. Body(v) \in {"check", "clone", "delnode", "destroy", "cordon"}
    BY DEF Body
  <2>2. cli' = [cli EXCEPT !.pc = Body(v), !.cur = v, !.left = @ \ {v}]
    BY <1>2 DEF Pick
  <2>3. /\ cli' \in CliState /\ cli'.pc = Body(v) /\ cli'.phase = cli.phase
    BY <2>1, <2>2 DEF CliTyped, CliState, Pcs
  <2>4. CliTyped' /\ InHand'
    BY <1>2, <2>1, <2>3 DEF Pick, CliTyped, InHand, At, ghost
  <2> QED BY <1>2, <2>4, OnlyCli DEF Pick
<1>3. CASE LoopEnds
  <2> USE LayoutFacts DEF Phases, Pcs
  <2>1. cli.phase \in Loops
    BY <1>3 DEF LoopEnds, InHand
  <2>2. CASE cli.phase = "rm" /\ cli.cmd # "restore"
    BY <1>3, <2>2, IsDone, OnlyCli DEF LoopEnds, At
  <2>3. CASE ~(cli.phase = "rm" /\ cli.cmd # "restore")
    <3>1. \/ Enter("restore", "clone", M1, {})
          \/ Enter("update", "check", M1, {})
          \/ Enter("demote", "next", cli.cur, Demoted)
          \/ Enter("workers", "next", cli.cur, WorkersOf(cli.cfg))
          \/ Enter("extras", "next", cli.cur, Extras)
          \/ Enter("update", "stamp", M1, {})
      BY <1>3, <2>1, <2>3 DEF LoopEnds, Loops
    <3>2. Demoted \in SUBSET Offset /\ WorkersOf(cli.cfg) \in SUBSET Offset
          /\ Extras \in SUBSET Offset
      BY <1>c DEF Demoted, Extras
    <3>3. /\ cli' \in CliState /\ cli'.phase # "none"
          /\ cli'.pc \in {"clone", "check", "stamp", "next"}
          /\ cli'.pc = "next" => cli'.phase \in Loops
      BY <1>c, <3>1, <3>2, EnterTyped DEF Loops
    <3>4. CliTyped' /\ InHand'
      BY <1>3, <2>3, <3>3 DEF LoopEnds, CliTyped, InHand, At, ghost
    <3> QED BY <1>3, <3>4, OnlyCli DEF LoopEnds
  <2> QED BY <2>2, <2>3
<1>4. CASE Clone
  <2>1. CliTyped' /\ InHand'
    BY <1>4, MovesOn DEF Clone, At, Pcs
  <2> QED BY <1>4, <2>1, AbsentTyped, CurTyped DEF Clone, files, FilesTyped
<1>5. CASE Start
  <2>1. CliTyped' /\ InHand'
    BY <1>5, MovesOn DEF Start, At, Pcs
  <2> QED BY <1>5, <1>n, <2>1, NodeOps, CurTyped DEF Start, files, FilesTyped
<1>6. CASE Prepare
  <2>1. CliTyped' /\ InHand'
    BY <1>6, MovesOn DEF Prepare, At, Pcs
  <2> QED BY <1>6, <1>n, <2>1, NodeOps, CurTyped DEF Prepare, files, FilesTyped
<1>7. CASE CheckReady
  BY <1>7, IsDone, OnlyCli DEF CheckReady, At
<1>8. CASE CheckNotReady
  <2>1. CliTyped' /\ InHand'
    BY <1>8, MovesOn DEF CheckNotReady, At, Pcs
  <2> QED BY <1>8, <2>1, OnlyCli DEF CheckNotReady
<1>9. CASE K3sJoin
  <2>1. CliTyped' /\ InHand'
    BY <1>9, MovesOn DEF K3sJoin, At, Pcs
  <2>2. JoinToken \in Token /\ Role \in {"init", "server", "agent"}
        /\ cli.cfg.opts \in Settings
    BY <1>c, NoTokenTyped DEF JoinToken, SavedToken, Role, FilesTyped, Configs
  <2>3. Started(Configured(node[cli.cur], Role, JoinToken, cli.cfg.opts)) \in NodeState
    BY <1>n, <2>2, ConfiguredTyped, NodeOps
  <2> QED BY <1>9, <2>1, <2>3, CurTyped DEF K3sJoin, files, FilesTyped
<1>10. CASE WaitReady
  <2>1. CliTyped' /\ InHand'
    BY <1>10, MovesOn, IsDone DEF WaitReady, AfterWait, At, Pcs
  <2> QED BY <1>10, <2>1, OnlyCli DEF WaitReady
<1>11. CASE TimedOut
  BY <1>11, IsDone, OnlyCli DEF TimedOut, At
<1>12. CASE ListSnapshots
  <2> DEFINE found == Chosen \in DOMAIN s3
  <2>1. Chosen \in DOMAIN s3 => Chosen \in Nat
    BY DEF FilesTyped
  <2>2. cli' = [cli EXCEPT !.snap = IF found THEN Chosen ELSE 0,
                           !.pc = IF found THEN "wipe" ELSE "refuse"]
    BY <1>12 DEF ListSnapshots
  <2>3. /\ cli' \in CliState /\ cli'.phase = cli.phase
        /\ \/ cli'.pc = "wipe" /\ cli'.snap \in DOMAIN s3
           \/ cli'.pc = "refuse"
    BY <2>1, <2>2 DEF CliTyped, CliState, Pcs
  <2>4. CliTyped' /\ InHand'
    BY <1>12, <2>3 DEF ListSnapshots, CliTyped, InHand, At, files, ghost
  <2> QED BY <1>12, <2>4, OnlyCli DEF ListSnapshots
<1>13. CASE Wipe
  <2>1. CliTyped' /\ InHand'
    BY <1>13, GotoTyped DEF Wipe, CliTyped, InHand, At, Pcs, files, ghost
  <2> QED BY <1>13, <1>n, <2>1, NodeOps, CurTyped DEF Wipe, files, FilesTyped
<1>14. CASE Reset
  <2> DEFINE s == s3[cli.snap]
  <2>1. s \in Snapshot
    BY <1>14 DEF Reset, InHand, FilesTyped
  <2>2. CliTyped' /\ InHand'
    BY <1>14, MovesOn DEF Reset, At, Pcs
  <2>3. CASE Decrypts(s)
    <3>1. Restored(s, cli.cur) \in ClusterState
      BY <1>c, <2>1 DEF Snapshot, ClusterState, Restored
    <3>2. [node[cli.cur] EXCEPT !.cl = s.ca] \in NodeState
      BY <1>n, <2>1, NodeFields DEF Snapshot
    <3>3. GuestsTyped'
      BY <1>14, <2>3, <3>1, <3>2 DEF Reset, GuestsTyped
    <3> QED BY <1>14, <2>2, <3>3 DEF Reset, files, FilesTyped
  <2>4. CASE ~Decrypts(s)
    BY <1>14, <2>2, <2>4 DEF Reset, GuestsTyped, files, FilesTyped
  <2> QED BY <2>3, <2>4
<1>15. CASE Manifest
  <2>1. CliTyped' /\ InHand'
    BY <1>15, MovesOn DEF Manifest, At, Pcs
  <2> QED BY <1>15, <1>n, <2>1, NodeOps, CurTyped DEF Manifest, files, FilesTyped
<1>16. CASE Purge
  <2>1. Stale \in SUBSET Offset
    BY MaxIdAssumption, LayoutFacts
       DEF Stale, ApiAt, GuestsTyped, NodeState, ClusterState, Id
  <2>2. cli' = [cli EXCEPT !.pc = "next", !.left = Stale]
    BY <1>16 DEF Purge
  <2>3. cli' \in CliState /\ cli'.phase = cli.phase /\ cli'.pc = "next"
    BY <2>1, <2>2 DEF CliTyped, CliState, Pcs
  <2>4. CliTyped' /\ InHand'
    BY <1>16, <2>3 DEF Purge, CliTyped, InHand, At, ghost, Loops
  <2> QED BY <1>16, <2>4, OnlyCli DEF Purge
<1>m. node[M1].cl \in 0..MaxId
  BY LayoutFacts DEF GuestsTyped, NodeState
<1>l. node[M1].cl # 0 => LiveToken \in Token
  BY <1>m, MaxIdAssumption DEF LiveToken, Token, GuestsTyped, ClusterState, Id
<1>17. CASE Kubeconfig
  <2>1. CliTyped' /\ InHand'
    BY <1>17, MovesOn DEF Kubeconfig, At, Pcs
  <2> QED BY <1>17, <1>m, <2>1 DEF Kubeconfig, GuestsTyped, gvars, FilesTyped
<1>18. CASE ExportToken
  <2>1. CASE Goto("write") /\ tokenFile' = <<NoToken>> /\ node[M1].cl # 0
             /\ UNCHANGED <<kubeconfig, s3, stamp, ghost>>
    <3>1. CliTyped' /\ InHand'
      BY <1>18, <2>1, GotoTyped DEF ExportToken, CliTyped, InHand, At, Pcs, gvars, ghost
    <3> QED BY <1>18, <2>1, <3>1, NoTokenTyped
            DEF ExportToken, GuestsTyped, gvars, FilesTyped
  <2>2. CASE (Return \/ Finish(FALSE)) /\ UNCHANGED files
    BY <1>18, <2>2, IsDone, OnlyCli DEF ExportToken, At
  <2> QED BY <1>18, <2>1, <2>2 DEF ExportToken
<1>19. CASE WriteToken
  <2>1. CliTyped' /\ InHand'
    BY <1>19, IsDone DEF WriteToken, At
  <2> QED BY <1>19, <1>l, <2>1 DEF WriteToken, InHand, GuestsTyped, gvars, FilesTyped
<1>20. CASE Cordon
  <2>1. CliTyped' /\ InHand'
    BY <1>20, MovesOn DEF Cordon, At, Pcs
  <2>2. GuestsTyped'
    BY <1>20, <1>c, ClusterOps, RoutesTyped, KubectlTyped DEF Cordon, Api
  <2> QED BY <1>20, <2>1, <2>2 DEF Cordon, files, FilesTyped
<1>21. CASE DelNode
  <2>1. CliTyped' /\ InHand'
    BY <1>21, MovesOn DEF DelNode, At, Pcs
  <2>2. GuestsTyped'
    BY <1>21, <1>c, ClusterOps, RoutesTyped, KubectlTyped DEF DelNode, Api
  <2> QED BY <1>21, <2>1, <2>2 DEF DelNode, files, FilesTyped
<1>22. CASE DelSecret
  <2>1. CliTyped' /\ InHand'
    BY <1>22, MovesOn, IsDone DEF DelSecret, AfterSecret, At, Pcs
  <2>2. GuestsTyped'
    BY <1>22, <1>c, ClusterOps, RoutesTyped, KubectlTyped DEF DelSecret, Api
  <2> QED BY <1>22, <2>1, <2>2 DEF DelSecret, files, FilesTyped
<1>23. CASE Destroy
  <2>1. CliTyped' /\ InHand'
    BY <1>23, IsDone DEF Destroy, At
  <2> QED BY <1>23, <2>1, AbsentTyped, CurTyped DEF Destroy, FilesTyped
<1>24. CASE Stamp
  <2>1. CliTyped' /\ InHand'
    BY <1>24, MovesOn DEF Stamp, At, Pcs
  <2> QED BY <1>24, <1>c, <2>1 DEF Stamp, GuestsTyped, gvars, FilesTyped
<1>25. CASE Info
  BY <1>25, IsDone, OnlyCli DEF Info, At
<1>26. CASE Kill
  <2>1. CliTyped' /\ InHand'
    BY <1>26, MovesOn DEF Kill, At, Pcs
  <2> QED BY <1>26, <1>n, <2>1, NodeOps, CurTyped DEF Kill, files, FilesTyped
<1>27. CASE Unconfig
  <2>1. CliTyped' /\ InHand'
    BY <1>27, MovesOn, IsDone DEF Unconfig, At, Pcs
  <2>2. Unconfigured(Wiped(node[cli.cur])) \in NodeState
    BY <1>n, NodeOps
  <2> QED BY <1>27, <2>1, <2>2, CurTyped DEF Unconfig, files, FilesTyped
<1>28. CASE SaveSnapshot
  <2>1. CliTyped' /\ InHand'
    BY <1>28, IsDone DEF SaveSnapshot, At
  <2>2. ApiAt(M1) => Taken(node[M1].cl) \in Snapshot
    BY <1>m, MaxIdAssumption DEF ApiAt, Taken, Snapshot, GuestsTyped, ClusterState, Id
  <2>3. s3' \in Seq(Snapshot)
    <3>1. \A t \in Snapshot : Append(s3, t) \in Seq(Snapshot)
      BY DEF FilesTyped
    <3> QED BY <1>28, <2>2, <3>1 DEF SaveSnapshot, FilesTyped
  <2>4. FilesTyped'
    BY <1>28, <2>3 DEF SaveSnapshot, FilesTyped
  <2> QED BY <1>28, <2>1, <2>4 DEF SaveSnapshot, GuestsTyped, gvars
<1>29. CASE NoAnswer
  <2>1. ~At("idle")
    BY <1>29 DEF NoAnswer, Needs, At
  <2> QED BY <1>29, <2>1, IsDone, OnlyCli DEF NoAnswer
<1>30. CASE NoInternet
  BY <1>30, IsDone, OnlyCli DEF NoInternet, At
<1> QED
  BY <1>1, <1>2, <1>3, <1>4, <1>5, <1>6, <1>7, <1>8, <1>9, <1>10, <1>11, <1>12,
     <1>13, <1>14, <1>15, <1>16, <1>17, <1>18, <1>19, <1>20, <1>21, <1>22, <1>23,
     <1>24, <1>25, <1>26, <1>27, <1>28, <1>29, <1>30 DEF Step

\* Before the first invocation the types hold and nothing is in hand.
LEMMA InitTyped == Init => TypeInv
<1> SUFFICES ASSUME Init PROVE TypeInv
  OBVIOUS
<1>1. PICK k \in Inis : cli = Idle(k)
  BY DEF Init
<1>2. cli \in CliState /\ cli.pc = "idle" /\ cli.phase = "none"
  BY <1>1, IdleTyped DEF Idle
<1>3. CliTyped /\ InHand
  BY <1>2 DEF Init, CliTyped, InHand, At
<1>4. FilesTyped
  BY MaxIdAssumption DEF Init, FilesTyped
<1> QED BY <1>3, <1>4, GuestsInitTyped DEF Init, TypeInv, TypeOK

\* A process that is cut off leaves an idle command line.
LEMMA CutTyped ==
  ASSUME CliTyped, InHand, Cut, UNCHANGED cmds, faults' \in Nat
  PROVE  CliTyped' /\ InHand'
<1>1. cli' \in CliState /\ cli'.pc = "idle" /\ cli'.phase = "none"
  BY IdleTyped DEF Cut, CliTyped, CliState, Idle
<1>2. cli.cmd \in Commands \cup {"none"} /\ cli.arg \in Nat
  BY LayoutAssumption, BoundAssumption DEF CliTyped, CliState
<1>3. CliTyped'
  BY <1>1, <1>2 DEF Cut, CliTyped
<1> QED BY <1>1, <1>3 DEF InHand, At

\* A guest that has data does not lose it by getting further.
LEMMA DataStays ==
  ASSUME GuestsTyped, Progress
  PROVE  node[M1].cl # 0 => node'[M1].cl # 0
<1> SUFFICES ASSUME node[M1].cl # 0 PROVE node'[M1].cl # 0
  OBVIOUS
<1>1. ASSUME NEW v \in Offset, Bootstrap(v) PROVE node'[M1].cl # 0
  <2>1. v # M1
    BY <1>1 DEF Bootstrap, CanBootstrap
  <2> QED BY <1>1, <2>1 DEF Bootstrap, GuestsTyped
<1>2. ASSUME NEW v \in Offset, NEW c \in Id, Join(v, c) PROVE node'[M1].cl # 0
  <2>1. v # M1
    BY <1>2 DEF Join, CanJoin
  <2> QED BY <1>2, <2>1 DEF Join, GuestsTyped
<1>3. ASSUME NEW v \in Offset, Register(v) PROVE node'[M1].cl # 0
  <2>1. node'[M1].cl = node[M1].cl
    BY <1>3, LayoutFacts DEF Register, GuestsTyped, NodeState
  <2> QED BY <2>1
<1>4. ASSUME NEW v \in Offset, Heartbeat(v) PROVE node'[M1].cl # 0
  BY <1>4 DEF Heartbeat
<1> QED BY <1>1, <1>2, <1>3, <1>4 DEF Progress

\* The guests and the faults keep them as well, so every step does.
LEMMA NextTyped == TypeInv /\ [Next]_vars => TypeInv'
<1> SUFFICES ASSUME TypeInv, [Next]_vars PROVE TypeInv'
  OBVIOUS
<1> USE DEF TypeInv, TypeOK
<1>1. CASE Invoke
  BY <1>1, BeginTyped DEF Invoke
<1>2. CASE Step
  BY <1>2, StepTyped
<1>3. CASE GuestStep
  <2>1. GuestsTyped'
    BY <1>3, ProgressTyped, GuestFaultTyped DEF GuestStep
  <2>2. node[M1].cl # 0 => node'[M1].cl # 0
    BY <1>3, DataStays DEF GuestStep, LeaseExpires
  <2> QED BY <1>3, <2>1, <2>2
          DEF GuestStep, CliTyped, FilesTyped, InHand, At, files, ghost
<1>4. CASE Interrupt
  BY <1>4, CutTyped, OnlyCli DEF Interrupt, Fault, CliTyped
<1>5. CASE TooSlow
  BY <1>5, CutTyped, OnlyCli DEF TooSlow, Fault, CliTyped
<1>6. CASE GuestFault
  <2>1. GuestsTyped'
    BY <1>6, GuestFaultTyped DEF GuestFault
  <2>2. node[M1].cl # 0 => node'[M1].cl # 0
    BY <1>6, LayoutFacts DEF GuestFault, PowerLoss, Flap, GuestsTyped, NodeState
  <2>3. cli' = [cli EXCEPT !.clean = At("idle")]
    BY <1>6 DEF GuestFault
  <2>4. /\ cli' \in CliState /\ cli'.pc = cli.pc /\ cli'.phase = cli.phase
        /\ cli'.snap = cli.snap
    BY <2>3 DEF CliTyped, CliState, At
  <2>5. CliTyped' /\ InHand'
    BY <1>6, <2>2, <2>4 DEF GuestFault, Fault, CliTyped, InHand, At, files
  <2> QED BY <1>6, <2>1, <2>5 DEF GuestFault, FilesTyped, files
<1>7. CASE UNCHANGED vars
  BY <1>7 DEF vars, GuestsTyped, CliTyped, FilesTyped, InHand, At
<1> QED BY <1>1, <1>2, <1>3, <1>4, <1>5, <1>6, <1>7 DEF Next

\* Whatever commands are run with whatever kopsrox.ini, and whatever fails,
\* the nodes, clusters, files and the invocation keep their types: no loop is
\* handed a node that is not one of the cluster's ten.
THEOREM TypeCorrect == Spec => []TypeOK
<1>1. Spec => []TypeInv
  BY InitTyped, NextTyped, PTL DEF Spec
<1> QED BY <1>1, PTL DEF TypeInv

(************************* What comes and what goes ************************)
\* The calls of k3s_remove_node and prox_destroy.
Removing == cli.pc \in {"cordon", "delnode", "delsecret", "destroy"}

\* Which procedure a call that adds, removes or waits for a VM belongs to, and
\* on which node.
CallFits ==
  /\ Removing      => cli.phase \in {"rm", "demote", "extras", "purge", "node"}
  /\ At("destroy") => cli.phase # "purge"
  /\ Removing /\ cli.phase = "node" =>
       \/ cli.cmd = "node-destroy" /\ cli.cur = cli.arg
       \/ cli.cmd = "k3s-uninstall" /\ ~At("destroy")
  /\ cli.cmd = "k3s-uninstall"       => cli.phase = "node"
  /\ At("kill") \/ At("unconfig")    => cli.cmd = "k3s-uninstall"
  /\ cli.phase \in {"create", "restore", "update"} => cli.cur = M1
  /\ cli.phase \in {"slaves", "demote"} => cli.cur \in Masters
  /\ At("clone") => \/ cli.phase \in {"create", "restore", "slaves", "workers"}
                    \/ cli.phase = "node" /\ cli.cur = Utility
  /\ At("start") => cli.cur \in Vms
  /\ At("write") => M1 \in Vms

\* k3s_rm_cluster holds every VM it has yet to remove, and the one in hand is
\* the highest.
TeardownOrder == cli.phase = "rm" =>
  /\ cli.left \cap Protected = {}
  /\ IF Removing THEN /\ cli.cur \notin Protected
                      /\ Vms \ Protected \subseteq cli.left \cup {cli.cur}
                      /\ \A v \in cli.left : v <= cli.cur
                 ELSE Vms \ Protected \subseteq cli.left

\* What a loop that adds nodes has dealt with is there, and what is left is
\* above the node in hand.
Added(wanted) ==
  /\ wanted \ (cli.left \cup (IF At("clone") THEN {cli.cur} ELSE {})) \subseteq Vms
  /\ cli.left \subseteq wanted /\ (\A v \in cli.left : v > cli.cur)
  /\ At("next") \/ cli.cur \in wanted

\* The loops of k3s_update_cluster: the masters are there before the workers,
\* the workers before anything surplus is looked for.
BuildOrder ==
  /\ cli.phase \in {"slaves", "demote", "workers", "extras"} =>
       M1 \in Vms /\ cli.seen \cap Target(cli.cfg) \subseteq Vms
  /\ cli.phase = "slaves"  => Added(Slaves(cli.cfg))
  /\ cli.phase \in {"demote", "workers", "extras"} => Slaves(cli.cfg) \subseteq Vms
  /\ cli.phase = "workers" => Added(WorkersOf(cli.cfg))
  /\ cli.phase = "extras"  => WorkersOf(cli.cfg) \subseteq Vms

\* Only surplus masters are demoted and only surplus workers removed.
Surplus(ph) == IF ph = "demote" THEN {2, 3} \ Slaves(cli.cfg)
                                ELSE {v \in Offset : v > LastWorker(cli.cfg)}
SurplusOnly == cli.phase \in {"demote", "extras"} =>
  /\ cli.left \subseteq Surplus(cli.phase)
  /\ At("next") \/ cli.cur \in Surplus(cli.phase)

PlanInv == CallFits /\ TeardownOrder /\ BuildOrder /\ SurplusOnly

\* A call on one guest that leaves it there, or not there, keeps the set of VMs.
LEMMA SameSt ==
  ASSUME GuestsTyped, NEW x \in Offset, NEW n \in NodeState,
         node' = [node EXCEPT ![x] = n],
         (n.st = "absent") = (node[x].st = "absent")
  PROVE  Vms' = Vms
  BY DEF Vms, GuestsTyped

\* Only a boot turns a guest on, and only qm destroy takes it away.
LEMMA NodeOpsSt ==
  ASSUME NEW n \in NodeState
  PROVE  /\ Started(n).st = n.st /\ Killed(n).st = n.st /\ Wiped(n).st = n.st
         /\ Prepared(n).st = n.st /\ Unconfigured(n).st = n.st
         /\ Reapplied(n).st = n.st /\ Booted(n).st = "running"
         /\ \A r \in {"none", "init", "server", "agent"}, t \in Token, o \in Settings :
              Configured(n, r, t, o).st = n.st
<1>1. Started(n).st = n.st /\ Killed(n).st = n.st /\ Prepared(n).st = n.st
      /\ Reapplied(n).st = n.st /\ Booted(n).st = "running"
  BY DEF NodeState, Started, Killed, Prepared, Reapplied, Booted
<1>2. Wiped(n).st = n.st
  BY DEF NodeState, Wiped
<1>3. Unconfigured(n).st = n.st
  BY DEF NodeState, Unconfigured
<1>4. \A r \in {"none", "init", "server", "agent"}, t \in Token, o \in Settings :
        Configured(n, r, t, o).st = n.st
  BY DEF NodeState, Configured
<1> QED BY <1>1, <1>2, <1>3, <1>4

\* The units at work, and faults, neither add nor remove a VM.
LEMMA GuestsKeepVms ==
  ASSUME GuestsTyped, GuestStep \/ GuestFault
  PROVE  Vms' = Vms
<1>1. ASSUME NEW v \in Offset, Bootstrap(v) PROVE Vms' = Vms
  <2>1. \A u \in Offset : node'[u].st = node[u].st
    BY <1>1 DEF Bootstrap, GuestsTyped, NodeState
  <2> QED BY <2>1 DEF Vms
<1>2. ASSUME NEW v \in Offset, NEW c \in Id, Join(v, c) PROVE Vms' = Vms
  <2>1. \A u \in Offset : node'[u].st = node[u].st
    BY <1>2 DEF Join, GuestsTyped, NodeState
  <2> QED BY <2>1 DEF Vms
<1>3. ASSUME NEW v \in Offset, Register(v) PROVE Vms' = Vms
  <2>1. \A u \in Offset : node'[u].st = node[u].st
    BY <1>3 DEF Register, GuestsTyped, NodeState
  <2> QED BY <2>1 DEF Vms
<1>4. ASSUME NEW v \in Offset, PowerLoss(v) PROVE Vms' = Vms
  <2>1. \A u \in Offset : node'[u].st = (IF u = v THEN "stopped" ELSE node[u].st)
    BY <1>4 DEF PowerLoss, GuestsTyped, NodeState
  <2> QED BY <1>4, <2>1 DEF PowerLoss, Up, Vms
<1>5. ASSUME UNCHANGED node PROVE Vms' = Vms
  BY <1>5 DEF Vms
<1> QED BY <1>1, <1>2, <1>3, <1>4, <1>5
        DEF GuestStep, GuestFault, Progress, Heartbeat, LeaseExpires, Flap

\* A clone adds the node in hand and a destroy removes it.
LEMMA VmsChange ==
  ASSUME TypeInv
  PROVE  /\ Clone => Vms' = Vms \cup {cli.cur}
         /\ Destroy => Vms' = Vms \ {cli.cur}
<1>1. cli.cur \in Offset
  BY DEF TypeInv, TypeOK, CliTyped, CliState
<1>2. Absent.st = "absent" /\ Cloned.st = "stopped"
  BY DEF Absent, Cloned
<1> QED BY <1>1, <1>2 DEF Clone, Destroy, Vms, TypeInv, TypeOK, GuestsTyped

\* No other call does.
LEMMA CallsKeepVms ==
  ASSUME TypeInv, CallFits, Step, ~Clone, ~Destroy
  PROVE  Vms' = Vms
<1> USE DEF TypeInv, TypeOK
<1>1. CASE UNCHANGED node
  BY <1>1 DEF Vms
<1>2. cli.cur \in Offset /\ node[cli.cur] \in NodeState
      /\ cli.cfg \in Configs
  BY InisAssumption DEF CliTyped, CliState, GuestsTyped
<1>3. CASE Start
  <2>1. Booted(node[cli.cur]) \in NodeState /\ Booted(node[cli.cur]).st = "running"
    BY <1>2, NodeOps, NodeOpsSt
  <2>2. node[cli.cur].st # "absent"
    BY <1>3 DEF Start, CallFits, Vms
  <2> QED BY <1>2, <1>3, <2>1, <2>2, SameSt DEF Start
<1>4. CASE Prepare
  BY <1>2, <1>4, NodeOps, NodeOpsSt, SameSt DEF Prepare
<1>5. CASE K3sJoin
  <2>1. JoinToken \in Token /\ Role \in {"init", "server", "agent"}
        /\ cli.cfg.opts \in Settings
    BY <1>2, NoTokenTyped DEF JoinToken, SavedToken, Role, FilesTyped, Configs
  <2> DEFINE m == Configured(node[cli.cur], Role, JoinToken, cli.cfg.opts)
  <2>2. m \in NodeState /\ m.st = node[cli.cur].st
    <3>1. m \in NodeState
      BY <1>2, <2>1, ConfiguredTyped
    <3>2. m.st = node[cli.cur].st
      BY <1>2, <2>1, NodeOpsSt
    <3> QED BY <3>1, <3>2
  <2>3. Started(m) \in NodeState /\ Started(m).st = m.st
    BY <2>2, NodeOps, NodeOpsSt
  <2> HIDE DEF m
  <2>4. node' = [node EXCEPT ![cli.cur] = Started(m)]
    BY <1>5 DEF K3sJoin, m
  <2> QED BY <1>2, <2>2, <2>3, <2>4, SameSt
<1>6. CASE Wipe
  <2>1. Killed(node[cli.cur]) \in NodeState
    BY <1>2, NodeOps
  <2>2. /\ Wiped(Killed(node[cli.cur])) \in NodeState
        /\ Wiped(Killed(node[cli.cur])).st = node[cli.cur].st
    BY <1>2, <2>1, NodeOps, NodeOpsSt
  <2> QED BY <1>2, <1>6, <2>2, SameSt DEF Wipe
<1>7. CASE Reset
  <2> DEFINE s == s3[cli.snap]
  <2>1. s.ca \in 0..MaxId
    <3>1. s \in Snapshot
      BY <1>7 DEF Reset, InHand, FilesTyped
    <3> QED BY <3>1 DEF Snapshot
  <2>2. [node[cli.cur] EXCEPT !.cl = s.ca] \in NodeState
        /\ [node[cli.cur] EXCEPT !.cl = s.ca].st = node[cli.cur].st
    <3>1. [node[cli.cur] EXCEPT !.cl = s.ca] \in NodeState
      BY <1>2, <2>1, NodeFields
    <3>2. [node[cli.cur] EXCEPT !.cl = s.ca].st = node[cli.cur].st
      BY <1>2 DEF NodeState
    <3> QED BY <3>1, <3>2
  <2>3. \/ UNCHANGED node
        \/ node' = [node EXCEPT ![cli.cur] = [node[cli.cur] EXCEPT !.cl = s.ca]]
    BY <1>7 DEF Reset
  <2> QED BY <1>1, <1>2, <2>2, <2>3, SameSt
<1>8. CASE Manifest
  <2>1. Reapplied(node[cli.cur]) \in NodeState
    BY <1>2, NodeOps
  <2>2. /\ Started(Reapplied(node[cli.cur])) \in NodeState
        /\ Started(Reapplied(node[cli.cur])).st = node[cli.cur].st
    BY <1>2, <2>1, NodeOps, NodeOpsSt
  <2> QED BY <1>2, <1>8, <2>2, SameSt DEF Manifest
<1>9. CASE Kill
  BY <1>2, <1>9, NodeOps, NodeOpsSt, SameSt DEF Kill
<1>10. CASE Unconfig
  <2>1. Wiped(node[cli.cur]) \in NodeState
    BY <1>2, NodeOps
  <2>2. /\ Unconfigured(Wiped(node[cli.cur])) \in NodeState
        /\ Unconfigured(Wiped(node[cli.cur])).st = node[cli.cur].st
    BY <1>2, <2>1, NodeOps, NodeOpsSt
  <2> QED BY <1>2, <1>10, <2>2, SameSt DEF Unconfig
<1> QED BY <1>1, <1>3, <1>4, <1>5, <1>6, <1>7, <1>8, <1>9, <1>10
        DEF Step, Refuse, Pick, LoopEnds, CheckReady, CheckNotReady, WaitReady,
            TimedOut, ListSnapshots, Purge, Kubeconfig, ExportToken, WriteToken,
            Cordon, DelNode, DelSecret, Stamp, Info, SaveSnapshot, NoAnswer,
            NoInternet, gvars

\* Powering on what is off does not.
LEMMA BeginKeepsVms ==
  ASSUME GuestsTyped, NEW c, NEW a, NEW k, Begin(c, a, k)
  PROVE  Vms' = Vms
<1>1. \A v \in Offset : Booted(node[v]).st = "running"
  BY NodeOpsSt DEF GuestsTyped
<1> QED BY <1>1 DEF Begin, PoweredOn, Vms

\* An idle command line has no plan.
LEMMA IdleFits ==
  ASSUME cli'.cmd = "none", cli'.phase = "none", cli'.pc = "idle"
  PROVE  PlanInv'
  BY DEF PlanInv, CallFits, TeardownOrder, BuildOrder, SurplusOnly, Removing, At

\* That is how every command ends.
LEMMA EndsIdle ==
  ASSUME Cut \/ (\E ok \in BOOLEAN : Finish(ok))
  PROVE  cli' = Idle(cli.cfg) /\ cli'.cmd = "none" /\ cli'.phase = "none"
         /\ cli'.pc = "idle"
  BY DEF Cut, Finish, Idle

\* A step that changes neither the VMs nor the plan keeps it.
LEMMA SamePlan ==
  ASSUME PlanInv, Vms' = Vms, cli'.pc = cli.pc, cli'.phase = cli.phase,
         cli'.cmd = cli.cmd, cli'.arg = cli.arg, cli'.cfg = cli.cfg,
         cli'.cur = cli.cur, cli'.seen = cli.seen, cli'.left = cli.left
  PROVE  PlanInv'
<1>1. CallFits'
  BY DEF PlanInv, CallFits, Removing, At
<1>2. TeardownOrder'
  BY DEF PlanInv, TeardownOrder, Removing, At
<1>3. BuildOrder'
  BY DEF PlanInv, BuildOrder, Added, At
<1>4. SurplusOnly'
  BY DEF PlanInv, SurplusOnly, Surplus, At
<1> QED BY <1>1, <1>2, <1>3, <1>4 DEF PlanInv

\* Moving on to the next call on the node in hand.
LEMMA MoveFits ==
  ASSUME CliTyped, PlanInv, Vms' = Vms, ~Removing, ~At("next"), ~At("clone"),
         NEW p \in Pcs \ {"next", "clone", "start", "cordon", "destroy"},
         p \in {"delnode", "delsecret", "unconfig"} => At("kill") \/ At("unconfig"),
         p = "kill" => cli.cmd = "k3s-uninstall",
         p = "write" => M1 \in Vms,
         Goto(p)
  PROVE  PlanInv'
<1>1. cli' = [cli EXCEPT !.pc = p]
  BY DEF Goto
<1>2. /\ cli'.pc = p /\ cli'.phase = cli.phase /\ cli'.cmd = cli.cmd
      /\ cli'.arg = cli.arg /\ cli'.cfg = cli.cfg /\ cli'.cur = cli.cur
      /\ cli'.seen = cli.seen /\ cli'.left = cli.left
  BY <1>1 DEF CliTyped, CliState
<1>3. CallFits'
  BY <1>2 DEF PlanInv, CallFits, Removing, At
<1>4. TeardownOrder'
  BY <1>2 DEF PlanInv, TeardownOrder, CallFits, Removing, At
<1>5. BuildOrder'
  BY <1>2 DEF PlanInv, BuildOrder, Added, At
<1>6. SurplusOnly'
  BY <1>2 DEF PlanInv, SurplusOnly, Surplus, At
<1> QED BY <1>3, <1>4, <1>5, <1>6 DEF PlanInv

\* From one call of a removal to the next.
LEMMA RemovalFits ==
  ASSUME CliTyped, PlanInv, Vms' = Vms, Removing, NEW p \in {"delnode", "delsecret", "destroy"},
         p = "destroy" => cli.phase # "purge" /\ cli.cmd # "k3s-uninstall",
         Goto(p)
  PROVE  PlanInv'
<1>1. cli' = [cli EXCEPT !.pc = p]
  BY DEF Goto
<1>2. /\ cli'.pc = p /\ cli'.phase = cli.phase /\ cli'.cmd = cli.cmd
      /\ cli'.arg = cli.arg /\ cli'.cfg = cli.cfg /\ cli'.cur = cli.cur
      /\ cli'.seen = cli.seen /\ cli'.left = cli.left
  BY <1>1 DEF CliTyped, CliState
<1>3. CallFits'
  BY <1>2 DEF PlanInv, CallFits, Removing, At
<1>4. TeardownOrder'
  BY <1>2 DEF PlanInv, TeardownOrder, CallFits, Removing, At
<1>5. BuildOrder'
  BY <1>2 DEF PlanInv, BuildOrder, CallFits, Added, Removing, At
<1>6. SurplusOnly'
  BY <1>2 DEF PlanInv, SurplusOnly, Surplus, Removing, At
<1> QED BY <1>3, <1>4, <1>5, <1>6 DEF PlanInv

\* A procedure is done with the node in hand, which it has created or found, or
\* which, by the last two premises, is gone or has only left a cluster.
LEMMA ReturnFits ==
  ASSUME CliTyped, InHand, PlanInv, ~At("idle"), ~At("next"), ~At("clone"), Return,
         cli.phase = "update" => M1 \in Vms,
         ~Removing => Vms' = Vms,
         Removing => \/ At("destroy") /\ Vms' = Vms \ {cli.cur}
                     \/ Vms' = Vms /\ (cli.phase = "purge" \/ cli.cmd = "k3s-uninstall")
  PROVE  PlanInv'
<1>c. cli.cfg \in Configs /\ cli.phase \in Phases
  BY InisAssumption DEF CliTyped, CliState
<1>1. CASE cli.phase \in {"create", "restore"}
  <2>1. \E ph \in {"update", "purge"}, p \in {"check", "purge"} : Enter(ph, p, M1, {})
    BY <1>1 DEF Return
  <2>2. /\ cli'.phase \in {"update", "purge"} /\ cli'.pc \in {"check", "purge"}
        /\ cli'.cur = M1 /\ cli'.cmd = cli.cmd
    BY <2>1, EnterTyped, LayoutFacts DEF Phases, Pcs
  <2> QED BY <1>1, <2>2 DEF PlanInv, CallFits, TeardownOrder, BuildOrder, SurplusOnly,
              Removing, At
<1>2. CASE cli.phase = "update"
  <2>1. cli' = [cli EXCEPT !.phase = "slaves", !.pc = "next", !.seen = Vms,
                           !.left = Slaves(cli.cfg)]
    BY <1>2 DEF Return
  <2>2. /\ cli'.phase = "slaves" /\ cli'.pc = "next" /\ cli'.seen = Vms
        /\ cli'.left = Slaves(cli.cfg) /\ cli'.cmd = cli.cmd
        /\ cli'.cfg = cli.cfg /\ cli'.cur = cli.cur
    BY <2>1 DEF CliTyped, CliState
  <2>3. cli.cur = M1 /\ Vms' = Vms
    BY <1>2 DEF PlanInv, CallFits
  <2>4. CallFits'
    BY <1>2, <2>2, <2>3 DEF PlanInv, CallFits, Removing, At, Masters, M1
  <2>5. BuildOrder'
    <3>1. \A v \in Slaves(cli.cfg) : v > M1
      BY DEF Slaves, M1
    <3> QED BY <1>2, <2>2, <2>3, <3>1 DEF BuildOrder, Added, At
  <2> QED BY <2>2, <2>4, <2>5 DEF PlanInv, TeardownOrder, SurplusOnly
<1>3. CASE cli.phase = "node"
  BY <1>3, EndsIdle, IdleFits DEF Return
<1>4. CASE cli.phase \in Loops
  <2>1. cli' = [cli EXCEPT !.pc = "next"]
    BY <1>4 DEF Return, Goto, Loops
  <2>2. /\ cli'.pc = "next" /\ cli'.phase = cli.phase /\ cli'.cmd = cli.cmd
        /\ cli'.arg = cli.arg /\ cli'.cfg = cli.cfg /\ cli'.cur = cli.cur
        /\ cli'.seen = cli.seen /\ cli'.left = cli.left
    BY <2>1 DEF CliTyped, CliState
  <2>3. CallFits'
    BY <2>2 DEF PlanInv, CallFits, Removing, At
  <2>4. TeardownOrder'
    BY <1>4, <2>2 DEF PlanInv, CallFits, TeardownOrder, Removing, At
  <2>5. cli.phase \in {"demote", "extras"} => cli.cur \notin Target(cli.cfg)
    BY <1>c, LayoutAssumption DEF PlanInv, SurplusOnly, Surplus, Target, At, M1,
       Configs, Slaves, WorkersOf, LastWorker
  <2>6. BuildOrder'
    BY <1>4, <2>2, <2>5 DEF PlanInv, CallFits, BuildOrder, Added, Removing, At, Target
  <2>7. SurplusOnly'
    BY <2>2 DEF PlanInv, SurplusOnly, Surplus, At
  <2> QED BY <2>3, <2>4, <2>6, <2>7 DEF PlanInv
<1> QED BY <1>c, <1>1, <1>2, <1>3, <1>4 DEF Phases, Loops, InHand

\* The next node of a loop is the one its order asks for.
LEMMA PickFits ==
  ASSUME TypeInv, PlanInv, NEW v \in Offset, Pick(v)
  PROVE  PlanInv'
<1>1. cli' = [cli EXCEPT !.pc = Body(v), !.cur = v, !.left = @ \ {v}]
  BY DEF Pick
<1>2. /\ cli'.pc = Body(v) /\ cli'.cur = v /\ cli'.left = cli.left \ {v}
      /\ cli'.phase = cli.phase /\ cli'.cmd = cli.cmd /\ cli'.arg = cli.arg
      /\ cli'.cfg = cli.cfg /\ cli'.seen = cli.seen
  BY <1>1 DEF TypeInv, TypeOK, CliTyped, CliState
<1>3. /\ cli.phase \in Loops /\ v \in cli.left /\ Vms' = Vms
      /\ \A w \in cli.left : Before(v, w)
      /\ cli.left \subseteq Offset /\ cli.cfg \in Configs
  BY InisAssumption DEF Pick, TypeInv, TypeOK, InHand, CliTyped, CliState, gvars, Vms
<1>4. /\ cli.phase \in {"slaves", "workers"} =>
           Body(v) = IF v \in cli.seen THEN "check" ELSE "clone"
      /\ cli.phase = "purge" => Body(v) = "delnode"
      /\ cli.phase \in {"rm", "demote", "extras"} => Body(v) \in {"destroy", "cordon"}
  BY DEF Body
<1>5. CallFits'
  <2>1. cli.phase \in {"slaves", "demote"} => v \in Masters
    BY <1>3 DEF Pick, PlanInv, BuildOrder, SurplusOnly, Surplus, Added, Slaves, Masters
  <2> QED BY <1>2, <1>3, <1>4, <2>1 DEF PlanInv, CallFits, Removing, At, Loops
<1>6. TeardownOrder'
  <2>1. ~Removing
    BY DEF Pick, Removing, At
  <2>2. cli.phase = "rm" => \A w \in cli.left : w <= v
    BY <1>3 DEF Before, Offset
  <2> QED BY <1>2, <1>3, <1>4, <2>1, <2>2 DEF PlanInv, TeardownOrder, Removing
<1>7. BuildOrder'
  <2> DEFINE wanted == IF cli.phase = "slaves" THEN Slaves(cli.cfg) ELSE WorkersOf(cli.cfg)
  <2>1. CASE cli.phase \in {"slaves", "workers"}
    <3>1. Added(wanted) /\ cli.seen \cap Target(cli.cfg) \subseteq Vms
      BY <2>1 DEF PlanInv, BuildOrder
    <3>2. wanted \subseteq Target(cli.cfg) /\ wanted \subseteq Offset
      BY <1>3, LayoutFacts DEF Target
    <3>3. v \in wanted /\ (\A w \in cli.left \ {v} : w > v)
      BY <1>3, <2>1, <3>1, LayoutAssumption DEF Added, Before, Offset
    <3>4. wanted \ cli.left \subseteq Vms
      BY <3>1 DEF Added, Pick, At
    <3> HIDE DEF wanted
    <3>5. Added(wanted)'
      <4>1. wanted' = wanted
        BY <1>2 DEF wanted
      <4> QED BY <1>2, <1>3, <1>4, <2>1, <3>1, <3>2, <3>3, <3>4, <4>1 DEF Added, At
    <3> QED BY <1>2, <1>3, <2>1, <3>5 DEF PlanInv, BuildOrder, wanted
  <2>2. CASE cli.phase \notin {"slaves", "workers"}
    BY <1>2, <1>3, <2>2 DEF PlanInv, BuildOrder
  <2> QED BY <2>1, <2>2
<1>8. SurplusOnly'
  BY <1>2, <1>3 DEF PlanInv, SurplusOnly, Surplus
<1> QED BY <1>5, <1>6, <1>7, <1>8 DEF PlanInv

\* Where a loop ends the next begins, on what the last one has left.
LEMMA LoopEndsFits ==
  ASSUME TypeInv, PlanInv, LoopEnds
  PROVE  PlanInv'
<1>1. /\ cli.phase \in Loops /\ cli.left = {} /\ At("next") /\ Vms' = Vms
      /\ cli.cfg \in Configs /\ cli.cur \in Offset /\ cli.seen \subseteq Offset
  BY InisAssumption
     DEF LoopEnds, TypeInv, TypeOK, InHand, CliTyped, CliState, gvars, Vms
<1> USE LayoutFacts DEF Phases, Pcs
<1>2. CASE cli.phase = "rm" /\ cli.cmd # "restore"
  BY <1>2, EndsIdle, IdleFits DEF LoopEnds
<1>3. CASE cli.phase = "rm" /\ cli.cmd = "restore"
  <2>1. Enter("restore", "clone", M1, {})
    BY <1>3 DEF LoopEnds
  <2>2. /\ cli'.phase = "restore" /\ cli'.pc = "clone" /\ cli'.cur = M1
        /\ cli'.cmd = cli.cmd
    BY <2>1, EnterTyped DEF TypeInv, TypeOK
  <2> QED BY <1>3, <2>2 DEF PlanInv, CallFits, TeardownOrder, BuildOrder, SurplusOnly,
              Removing, At
<1>4. CASE cli.phase \in {"purge", "extras"}
  <2>1. \E p \in {"check", "stamp"} : Enter("update", p, M1, {})
    BY <1>4 DEF LoopEnds
  <2>2. /\ cli'.phase = "update" /\ cli'.pc \in {"check", "stamp"} /\ cli'.cur = M1
        /\ cli'.cmd = cli.cmd
    BY <2>1, EnterTyped DEF TypeInv, TypeOK
  <2> QED BY <1>4, <2>2 DEF PlanInv, CallFits, TeardownOrder, BuildOrder, SurplusOnly,
              Removing, At
<1>5. CASE cli.phase = "slaves"
  <2>1. Enter("demote", "next", cli.cur, Demoted)
    BY <1>5 DEF LoopEnds
  <2>2. Demoted \subseteq {2, 3} \ Slaves(cli.cfg)
    BY <1>1 DEF Demoted, Slaves
  <2>0. Demoted \subseteq Offset
    BY <1>1 DEF Demoted
  <2>3. /\ cli'.phase = "demote" /\ cli'.pc = "next" /\ cli'.cur = cli.cur
        /\ cli'.left = Demoted /\ cli'.cmd = cli.cmd /\ cli'.cfg = cli.cfg
        /\ cli'.seen = cli.seen
    BY <1>1, <2>0, <2>1, EnterTyped DEF TypeInv, TypeOK
  <2>4. CallFits'
    BY <1>5, <2>3 DEF PlanInv, CallFits, Removing, At
  <2>5. BuildOrder'
    BY <1>1, <1>5, <2>3 DEF PlanInv, BuildOrder, Added, At
  <2>6. SurplusOnly'
    BY <2>2, <2>3 DEF SurplusOnly, Surplus, At
  <2> QED BY <2>3, <2>4, <2>5, <2>6 DEF PlanInv, TeardownOrder
<1>6. CASE cli.phase = "demote"
  <2>1. Enter("workers", "next", cli.cur, WorkersOf(cli.cfg))
    BY <1>6 DEF LoopEnds
  <2>2. WorkersOf(cli.cfg) \subseteq Offset
    BY <1>1
  <2>3. /\ cli'.phase = "workers" /\ cli'.pc = "next" /\ cli'.cur = cli.cur
        /\ cli'.left = WorkersOf(cli.cfg) /\ cli'.cmd = cli.cmd
        /\ cli'.cfg = cli.cfg /\ cli'.seen = cli.seen
    BY <1>1, <2>1, <2>2, EnterTyped DEF TypeInv, TypeOK
  <2>4. \A v \in WorkersOf(cli.cfg) : v > cli.cur
    BY <1>1, <1>6 DEF PlanInv, CallFits, Masters, WorkersOf, LastWorker, Configs
  <2>5. CallFits'
    BY <1>6, <2>3 DEF PlanInv, CallFits, Removing, At
  <2>6. BuildOrder'
    BY <1>1, <1>6, <2>3, <2>4 DEF PlanInv, BuildOrder, Added, At
  <2> QED BY <2>3, <2>5, <2>6 DEF PlanInv, TeardownOrder, SurplusOnly
<1>7. CASE cli.phase = "workers"
  <2>1. Enter("extras", "next", cli.cur, Extras)
    BY <1>7 DEF LoopEnds
  <2>2. Extras \subseteq {v \in Offset : v > LastWorker(cli.cfg)}
    BY <1>1 DEF Extras
  <2>3. /\ cli'.phase = "extras" /\ cli'.pc = "next" /\ cli'.cur = cli.cur
        /\ cli'.left = Extras /\ cli'.cmd = cli.cmd /\ cli'.cfg = cli.cfg
        /\ cli'.seen = cli.seen
    BY <1>1, <2>1, <2>2, EnterTyped DEF TypeInv, TypeOK
  <2>4. CallFits'
    BY <1>7, <2>3 DEF PlanInv, CallFits, Removing, At
  <2>5. BuildOrder'
    BY <1>1, <1>7, <2>3 DEF PlanInv, BuildOrder, Added, At
  <2>6. SurplusOnly'
    BY <2>2, <2>3 DEF SurplusOnly, Surplus, At
  <2> QED BY <2>3, <2>4, <2>5, <2>6 DEF PlanInv, TeardownOrder
<1> QED BY <1>1, <1>2, <1>3, <1>4, <1>5, <1>6, <1>7 DEF Loops

\* A command starts with a plan that fits.
LEMMA BeginFits ==
  ASSUME TypeInv, NEW c \in Commands, NEW a, NEW k \in Inis, Begin(c, a, k)
  PROVE  PlanInv'
<1>1. cli' = [cmd |-> c, arg |-> a, cfg |-> k, phase |-> Entry(c, a)[1],
              pc |-> Entry(c, a)[2], cur |-> Entry(c, a)[3], seen |-> {},
              left |-> IF c \in {"restore", "destroy"} THEN Removable ELSE {},
              snap |-> 0, clean |-> TRUE]
  BY DEF Begin
<1>2. Vms' = Vms
  BY BeginKeepsVms DEF TypeInv, TypeOK
<1>3. /\ cli'.cmd = c /\ cli'.arg = a /\ cli'.phase = Entry(c, a)[1]
      /\ cli'.pc = Entry(c, a)[2] /\ cli'.cur = Entry(c, a)[3]
      /\ cli'.left = IF c \in {"restore", "destroy"} THEN Removable ELSE {}
  BY <1>1
<1>4. /\ Entry(c, a)[1] \in {"create", "update", "rm", "node"}
      /\ Entry(c, a)[1] = "rm" <=> c \in {"restore", "destroy"}
      /\ Entry(c, a)[1] = "rm" => Entry(c, a)[2] \in {"next", "refuse"}
  BY CommandsAssumption DEF Entry
<1>5. CallFits'
  BY <1>3, CommandsAssumption DEF CallFits, Entry, Removing, At
<1>6. TeardownOrder'
  BY <1>2, <1>3, <1>4 DEF TeardownOrder, Removing, At, Removable
<1> QED BY <1>3, <1>4, <1>5, <1>6 DEF PlanInv, BuildOrder, SurplusOnly

\* Every call keeps the plan.
LEMMA StepFits == ASSUME TypeInv, PlanInv, Step PROVE PlanInv'
<1> USE DEF TypeInv, TypeOK, Pcs
<1>v. ~Clone /\ ~Destroy => Vms' = Vms
  BY CallsKeepVms DEF PlanInv
<1>i. \A ok \in BOOLEAN : Finish(ok) => PlanInv'
  BY EndsIdle, IdleFits
<1>u. Up(M1) => M1 \in Vms
  BY LayoutFacts DEF Up, Vms
<1>c. cli.cur \in Offset
  BY DEF CliTyped, CliState
<1>1. CASE Refuse
  BY <1>1, <1>i DEF Refuse
<1>2. CASE \E v \in Offset : Pick(v)
  BY <1>2, PickFits
<1>3. CASE LoopEnds
  BY <1>3, LoopEndsFits
<1>4. CASE Clone
  <2>1. Vms' = Vms \cup {cli.cur}
    BY <1>4, VmsChange
  <2>2. cli' = [cli EXCEPT !.pc = "start"] /\ At("clone")
    BY <1>4 DEF Clone, Goto
  <2>3. /\ cli'.pc = "start" /\ cli'.phase = cli.phase /\ cli'.cmd = cli.cmd
        /\ cli'.arg = cli.arg /\ cli'.cfg = cli.cfg /\ cli'.cur = cli.cur
        /\ cli'.seen = cli.seen /\ cli'.left = cli.left
    BY <2>2 DEF CliTyped, CliState
  <2>4. CallFits'
    BY <2>1, <2>2, <2>3 DEF PlanInv, CallFits, Removing, At
  <2>5. BuildOrder'
    BY <2>1, <2>2, <2>3 DEF PlanInv, BuildOrder, Added, At
  <2>6. TeardownOrder' /\ SurplusOnly'
    BY <2>2, <2>3 DEF PlanInv, CallFits, TeardownOrder, SurplusOnly, Surplus, At
  <2> QED BY <2>4, <2>5, <2>6 DEF PlanInv
<1>5. CASE Start
  <2>1. At("start") /\ Goto("prepare") /\ ~Clone /\ ~Destroy
    BY <1>5 DEF Start, Clone, Destroy, At
  <2> QED BY <1>v, <2>1, MoveFits DEF Removing, At
<1>6. CASE Prepare
  <2>1. At("prepare") /\ (Goto("info") \/ Goto("check")) /\ ~Clone /\ ~Destroy
    BY <1>6 DEF Prepare, Clone, Destroy, At
  <2> QED BY <1>v, <2>1, MoveFits DEF Removing, At
<1>7. CASE CheckReady
  <2>1. At("check") /\ Return /\ M1 \in Vms /\ ~Clone /\ ~Destroy
    BY <1>7, <1>u DEF CheckReady, Clone, Destroy, At
  <2> QED BY <1>v, <2>1, ReturnFits DEF Removing, At
<1>8. CASE CheckNotReady
  <2>1. At("check") /\ (Goto("refuse") \/ Goto("join")) /\ ~Clone /\ ~Destroy
    BY <1>8 DEF CheckNotReady, Clone, Destroy, At
  <2> QED BY <1>v, <2>1, MoveFits DEF Removing, At
<1>9. CASE K3sJoin
  <2>1. At("join") /\ Goto("wait") /\ ~Clone /\ ~Destroy
    BY <1>9 DEF K3sJoin, Clone, Destroy, At
  <2> QED BY <1>v, <2>1, MoveFits DEF Removing, At
<1>10. CASE WaitReady
  <2>1. /\ cli.pc \in {"wait", "rewait"} /\ ~Clone /\ ~Destroy /\ M1 \in Vms
        /\ Goto("kubeconfig") \/ Goto("list") \/ Return
    BY <1>10, <1>u DEF WaitReady, AfterWait, Clone, Destroy, At
  <2> QED BY <1>v, <2>1, MoveFits, ReturnFits DEF Removing, At
<1>11. CASE TimedOut
  BY <1>11, <1>i DEF TimedOut
<1>12. CASE ListSnapshots
  <2>1. At("list") /\ ~Clone /\ ~Destroy
    BY <1>12 DEF ListSnapshots, Clone, Destroy, At
  <2> DEFINE found == Chosen \in DOMAIN s3
  <2>2. cli' = [cli EXCEPT !.snap = IF found THEN Chosen ELSE 0,
                           !.pc = IF found THEN "wipe" ELSE "refuse"]
    BY <1>12 DEF ListSnapshots
  <2>3. /\ cli'.pc \in {"wipe", "refuse"} /\ cli'.phase = cli.phase
        /\ cli'.cmd = cli.cmd /\ cli'.arg = cli.arg /\ cli'.cfg = cli.cfg
        /\ cli'.cur = cli.cur /\ cli'.seen = cli.seen /\ cli'.left = cli.left
    BY <2>2 DEF CliTyped, CliState
  <2>4. Vms' = Vms
    BY <1>v, <2>1
  <2>5. CallFits' /\ TeardownOrder'
    BY <2>1, <2>3, <2>4 DEF PlanInv, CallFits, TeardownOrder, Removing, At
  <2>6. BuildOrder' /\ SurplusOnly'
    BY <2>1, <2>3, <2>4 DEF PlanInv, BuildOrder, Added, SurplusOnly, Surplus, At
  <2> QED BY <2>5, <2>6 DEF PlanInv
<1>13. CASE Wipe
  <2>1. At("wipe") /\ Goto("reset") /\ ~Clone /\ ~Destroy
    BY <1>13 DEF Wipe, Clone, Destroy, At
  <2> QED BY <1>v, <2>1, MoveFits DEF Removing, At
<1>14. CASE Reset
  <2>1. At("reset") /\ (Goto("manifest") \/ Goto("refuse")) /\ ~Clone /\ ~Destroy
    BY <1>14 DEF Reset, Clone, Destroy, At
  <2> QED BY <1>v, <2>1, MoveFits DEF Removing, At
<1>15. CASE Manifest
  <2>1. At("manifest") /\ Goto("rewait") /\ ~Clone /\ ~Destroy
    BY <1>15 DEF Manifest, Clone, Destroy, At
  <2> QED BY <1>v, <2>1, MoveFits DEF Removing, At
<1>16. CASE Purge
  <2>1. At("purge") /\ ~Clone /\ ~Destroy /\ cli.phase = "purge"
    BY <1>16 DEF Purge, Clone, Destroy, At, InHand
  <2>2. cli' = [cli EXCEPT !.pc = "next", !.left = Stale]
    BY <1>16 DEF Purge
  <2>3. cli'.pc = "next" /\ cli'.phase = cli.phase /\ cli'.cmd = cli.cmd
    BY <2>2 DEF CliTyped, CliState
  <2> QED BY <2>1, <2>3 DEF PlanInv, CallFits, TeardownOrder, BuildOrder,
             SurplusOnly, Removing, At
<1>17. CASE Kubeconfig
  <2>1. At("kubeconfig") /\ Goto("export") /\ ~Clone /\ ~Destroy
    BY <1>17 DEF Kubeconfig, Clone, Destroy, At
  <2> QED BY <1>v, <2>1, MoveFits DEF Removing, At
<1>18. CASE ExportToken
  <2>1. /\ At("export") /\ ~Clone /\ ~Destroy /\ M1 \in Vms
        /\ Goto("write") \/ Return \/ Finish(FALSE)
    BY <1>18, <1>u DEF ExportToken, Clone, Destroy, At
  <2> QED BY <1>v, <1>i, <2>1, MoveFits, ReturnFits DEF Removing, At
<1>19. CASE WriteToken
  <2>1. At("write") /\ Return /\ M1 \in Vms /\ ~Clone /\ ~Destroy
    BY <1>19 DEF WriteToken, Clone, Destroy, At, PlanInv, CallFits
  <2> QED BY <1>v, <2>1, ReturnFits DEF Removing, At
<1>20. CASE Cordon
  <2>1. At("cordon") /\ Goto("delnode") /\ ~Clone /\ ~Destroy
    BY <1>20 DEF Cordon, Clone, Destroy, At
  <2> QED BY <1>v, <2>1, RemovalFits DEF Removing, At
<1>21. CASE DelNode
  <2>1. At("delnode") /\ Goto("delsecret") /\ ~Clone /\ ~Destroy
    BY <1>21 DEF DelNode, Clone, Destroy, At
  <2> QED BY <1>v, <2>1, RemovalFits DEF Removing, At
<1>22. CASE DelSecret
  <2>1. At("delsecret") /\ ~Clone /\ ~Destroy
    BY <1>22 DEF DelSecret, Clone, Destroy, At
  <2>2. CASE cli.phase = "purge" \/ cli.cmd = "k3s-uninstall"
    <3>1. Return /\ cli.phase # "update"
      BY <1>22, <2>1, <2>2 DEF DelSecret, AfterSecret, PlanInv, CallFits, Removing, At
    <3> QED BY <1>v, <2>1, <2>2, <3>1, ReturnFits DEF Removing, At
  <2>3. CASE ~(cli.phase = "purge" \/ cli.cmd = "k3s-uninstall")
    <3>1. Goto("destroy")
      BY <1>22, <2>3 DEF DelSecret, AfterSecret
    <3> QED BY <1>v, <2>1, <2>3, <3>1, RemovalFits DEF Removing, At
  <2> QED BY <2>2, <2>3
<1>23. CASE Destroy
  <2>1. /\ At("destroy") /\ Return /\ Vms' = Vms \ {cli.cur}
        /\ cli.phase # "update"
    BY <1>23, VmsChange DEF Destroy, PlanInv, CallFits, Removing, At
  <2> QED BY <2>1, ReturnFits DEF Removing, At
<1>24. CASE Stamp
  <2>1. At("stamp") /\ Goto("info") /\ ~Clone /\ ~Destroy
    BY <1>24 DEF Stamp, Clone, Destroy, At
  <2> QED BY <1>v, <2>1, MoveFits DEF Removing, At
<1>25. CASE Info
  BY <1>25, <1>i DEF Info
<1>26. CASE Kill
  <2>1. At("kill") /\ Goto("unconfig") /\ ~Clone /\ ~Destroy
    BY <1>26 DEF Kill, Clone, Destroy, At
  <2> QED BY <1>v, <2>1, MoveFits DEF Removing, At
<1>27. CASE Unconfig
  <2>1. At("unconfig") /\ (Goto("delnode") \/ Finish(TRUE)) /\ ~Clone /\ ~Destroy
    BY <1>27 DEF Unconfig, Clone, Destroy, At
  <2> QED BY <1>v, <1>i, <2>1, MoveFits DEF Removing, At
<1>28. CASE SaveSnapshot
  BY <1>28, <1>i DEF SaveSnapshot
<1>29. CASE NoAnswer
  BY <1>29, <1>i DEF NoAnswer
<1>30. CASE NoInternet
  BY <1>30, <1>i DEF NoInternet
<1> QED
  BY <1>1, <1>2, <1>3, <1>4, <1>5, <1>6, <1>7, <1>8, <1>9, <1>10, <1>11, <1>12,
     <1>13, <1>14, <1>15, <1>16, <1>17, <1>18, <1>19, <1>20, <1>21, <1>22, <1>23,
     <1>24, <1>25, <1>26, <1>27, <1>28, <1>29, <1>30 DEF Step

\* So does every step of the system.
LEMMA NextFits == TypeInv /\ PlanInv /\ [Next]_vars => PlanInv'
<1> SUFFICES ASSUME TypeInv, PlanInv, [Next]_vars PROVE PlanInv'
  OBVIOUS
<1>1. CASE Invoke
  BY <1>1, BeginFits DEF Invoke
<1>2. CASE Step
  BY <1>2, StepFits
<1>3. CASE GuestStep
  <2>1. Vms' = Vms
    BY <1>3, GuestsKeepVms DEF TypeInv, TypeOK
  <2> QED BY <1>3, <2>1, SamePlan DEF GuestStep
<1>4. CASE Interrupt \/ TooSlow
  BY <1>4, EndsIdle, IdleFits DEF Interrupt, TooSlow
<1>5. CASE GuestFault
  <2>1. Vms' = Vms
    BY <1>5, GuestsKeepVms DEF TypeInv, TypeOK
  <2>2. cli' = [cli EXCEPT !.clean = At("idle")]
    BY <1>5 DEF GuestFault
  <2>3. /\ cli'.pc = cli.pc /\ cli'.phase = cli.phase /\ cli'.cmd = cli.cmd
        /\ cli'.arg = cli.arg /\ cli'.cfg = cli.cfg /\ cli'.cur = cli.cur
        /\ cli'.seen = cli.seen /\ cli'.left = cli.left
    BY <2>2 DEF TypeInv, TypeOK, CliTyped, CliState
  <2> QED BY <2>1, <2>3, SamePlan
<1>6. CASE UNCHANGED vars
  BY <1>6, SamePlan DEF vars, Vms
<1> QED BY <1>1, <1>2, <1>3, <1>4, <1>5, <1>6 DEF Next

\* The invariant the theorems below rest on.
Inv == TypeInv /\ PlanInv

\* It holds in every reachable state.
LEMMA Invariant == Spec => []Inv
<1>1. Init => Inv
  <2>1. Init => PlanInv
    BY DEF Init, Idle, PlanInv, CallFits, TeardownOrder, BuildOrder, SurplusOnly,
           Removing, At
  <2> QED BY <2>1, InitTyped DEF Inv
<1>2. Inv /\ [Next]_vars => Inv'
  BY NextTyped, NextFits DEF Inv
<1> QED BY <1>1, <1>2, PTL DEF Spec

\* Only a clone and a destroy, each of the node in hand, change the set of VMs.
LEMMA OnlyInHand ==
  ASSUME Inv, [Next]_vars
  PROVE  \/ Vms' = Vms
         \/ Clone /\ Vms' = Vms \cup {cli.cur}
         \/ Destroy /\ Vms' = Vms \ {cli.cur}
<1> USE DEF Inv, TypeInv, TypeOK
<1>1. CASE Invoke
  BY <1>1, BeginKeepsVms DEF Invoke
<1>2. CASE Step
  BY <1>2, CallsKeepVms, VmsChange DEF PlanInv
<1>3. CASE GuestStep \/ GuestFault
  BY <1>3, GuestsKeepVms
<1>4. CASE Interrupt \/ TooSlow \/ UNCHANGED vars
  BY <1>4 DEF Interrupt, TooSlow, vars, gvars, Vms
<1> QED BY <1>1, <1>2, <1>3, <1>4 DEF Next

\* README.md:165, kopsrox_k3s.py:188-193: whatever is run and whatever fails, the
\* image template and the utility VM only go when `node destroy` names them; no
\* teardown, demotion or trimming of workers reaches them.
THEOREM ProtectedSafe == Spec => ProtectedKept
<1>1. Inv /\ [Next]_vars => [ProtectedStays]_vars
  <2> SUFFICES ASSUME Inv, [Next]_vars, NEW v \in Protected, Gone(v)
               PROVE  cli.cmd = "node-destroy" /\ cli.arg = v
    BY DEF ProtectedStays
  <2>1. Destroy /\ v = cli.cur
    BY OnlyInHand DEF Gone
  <2>2. Removing /\ At("destroy") /\ ~At("next")
    BY <2>1 DEF Destroy, Removing, At
  <2>3. cli.phase \notin {"rm", "purge"}
    BY <2>1, <2>2 DEF Inv, PlanInv, CallFits, TeardownOrder
  <2>4. cli.phase \notin {"demote", "extras"}
    <3>1. cli.cfg \in Configs
      BY InisAssumption DEF Inv, TypeInv, TypeOK, CliTyped, CliState
    <3>2. v \notin Surplus("demote") /\ v \notin Surplus("extras")
      BY <3>1, LayoutAssumption DEF Surplus, Protected, Image, Utility, LastWorker, Configs
    <3> QED BY <2>1, <2>2, <3>2 DEF Inv, PlanInv, SurplusOnly
  <2>5. cli.phase = "node"
    BY <2>2, <2>3, <2>4 DEF Inv, PlanInv, CallFits
  <2> QED BY <2>1, <2>2, <2>5 DEF Inv, PlanInv, CallFits
<1> QED BY <1>1, Invariant, PTL DEF Spec, ProtectedKept

(************************** The abstract promise ***************************)
\* The layout of the promise is the layout of the code.
LEMMA SameLayout ==
  /\ Promise!Offset = Offset /\ Promise!Masters = Masters
  /\ Promise!Protected = Protected /\ Promise!Utility = Utility
  /\ Promise!Image = Image
  /\ \A k : Promise!Target(k) = Target(k)
  BY DEF Promise!Offset, Promise!Masters, Promise!Protected, Promise!Utility,
     Promise!Image, Promise!M1, Promise!Target, Promise!Slaves, Promise!WorkersOf,
     Promise!LastWorker, Promise!Configs, Offset, Masters, Protected, Utility, Image,
     M1, Target, Slaves, WorkersOf, LastWorker

\* What a step does to the abstract command: it stays, or it stops.
Stays == Doing' = Doing /\ Goal' = Goal
Stops == Doing' = "idle" /\ Goal' = {}

\* A call that moves on is part of the same abstract command.
LEMMA MoveStays ==
  ASSUME CliTyped, NEW p \in Pcs, Goto(p)
  PROVE  Stays
<1>1. cli' = [cli EXCEPT !.pc = p]
  BY DEF Goto
<1>2. cli'.phase = cli.phase /\ cli'.cfg = cli.cfg /\ cli'.cur = cli.cur
  BY <1>1 DEF CliTyped, CliState
<1> QED BY <1>2 DEF Stays, Doing, Goal

\* A command that ends stops it.
LEMMA EndStops ==
  ASSUME Cut \/ (\E ok \in BOOLEAN : Finish(ok))
  PROVE  Stops
  BY EndsIdle DEF Stops, Doing, Goal

\* A procedure that returns goes on building, or goes on with its loop, or ends.
LEMMA ReturnStays ==
  ASSUME CliTyped, Return
  PROVE  IF cli.phase = "node" THEN Stops ELSE Stays
<1> USE LayoutFacts DEF Phases, Pcs
<1>1. CASE cli.phase = "create"
  <2>1. Enter("update", "check", M1, {})
    BY <1>1 DEF Return
  <2>2. cli'.phase = "update" /\ cli'.cfg = cli.cfg
    BY <2>1, EnterTyped
  <2> QED BY <1>1, <2>2 DEF Stays, Doing, Goal
<1>2. CASE cli.phase = "restore"
  <2>1. Enter("purge", "purge", M1, {})
    BY <1>2 DEF Return
  <2>2. cli'.phase = "purge" /\ cli'.cfg = cli.cfg
    BY <2>1, EnterTyped
  <2> QED BY <1>2, <2>2 DEF Stays, Doing, Goal
<1>3. CASE cli.phase = "update"
  <2>1. cli' = [cli EXCEPT !.phase = "slaves", !.pc = "next", !.seen = Vms,
                           !.left = Slaves(cli.cfg)]
    BY <1>3 DEF Return
  <2>2. cli'.phase = "slaves" /\ cli'.cfg = cli.cfg
    BY <2>1 DEF CliTyped, CliState
  <2> QED BY <1>3, <2>2 DEF Stays, Doing, Goal
<1>4. CASE cli.phase = "node"
  BY <1>4, EndStops DEF Return
<1>5. CASE cli.phase \notin {"create", "restore", "update", "node"}
  BY <1>5, MoveStays DEF Return
<1> QED BY <1>1, <1>2, <1>3, <1>4, <1>5

\* The calls go through the abstract commands one way: from a teardown to a
\* build, or to the end.
LEMMA StepTurns ==
  ASSUME Inv, Step
  PROVE  \/ Stays
         \/ Stops
         \/ Doing = "teardown" /\ Doing' = "build" /\ LoopEnds
<1> USE DEF Inv, TypeInv, TypeOK, Pcs
<1>1. ASSUME NEW v \in Offset, Pick(v) PROVE Stays
  <2>1. cli' = [cli EXCEPT !.pc = Body(v), !.cur = v, !.left = @ \ {v}]
    BY <1>1 DEF Pick
  <2>2. cli'.phase = cli.phase /\ cli'.cfg = cli.cfg /\ cli.phase \in Loops
    BY <1>1, <2>1 DEF Pick, InHand, CliTyped, CliState
  <2> QED BY <2>2 DEF Stays, Doing, Goal, Loops
<1>2. CASE LoopEnds
  <2> USE LayoutFacts DEF Phases, Loops
  <2>1. cli.phase \in Loops /\ cli.cur \in Offset
        /\ Demoted \in SUBSET Offset /\ WorkersOf(cli.cfg) \in SUBSET Offset
        /\ Extras \in SUBSET Offset
    BY <1>2, InisAssumption DEF LoopEnds, InHand, CliTyped, CliState, Demoted, Extras
  <2>2. CASE cli.phase = "rm" /\ cli.cmd # "restore"
    BY <1>2, <2>2, EndStops DEF LoopEnds
  <2>3. CASE cli.phase = "rm" /\ cli.cmd = "restore"
    <3>1. Enter("restore", "clone", M1, {})
      BY <1>2, <2>3 DEF LoopEnds
    <3>2. cli'.phase = "restore"
      BY <3>1, EnterTyped
    <3> QED BY <1>2, <2>3, <3>2 DEF Doing
  <2>4. CASE cli.phase # "rm"
    <3>1. \/ Enter("update", "check", M1, {})
          \/ Enter("demote", "next", cli.cur, Demoted)
          \/ Enter("workers", "next", cli.cur, WorkersOf(cli.cfg))
          \/ Enter("extras", "next", cli.cur, Extras)
          \/ Enter("update", "stamp", M1, {})
      BY <1>2, <2>1, <2>4 DEF LoopEnds
    <3>2. /\ cli'.phase \in {"update", "demote", "workers", "extras"}
          /\ cli'.cfg = cli.cfg
      BY <2>1, <3>1, EnterTyped
    <3> QED BY <2>1, <2>4, <3>2 DEF Stays, Doing, Goal
  <2> QED BY <2>2, <2>3, <2>4
<1>3. CASE ListSnapshots
  <2> DEFINE found == Chosen \in DOMAIN s3
  <2>1. cli' = [cli EXCEPT !.snap = IF found THEN Chosen ELSE 0,
                           !.pc = IF found THEN "wipe" ELSE "refuse"]
    BY <1>3 DEF ListSnapshots
  <2>2. cli'.phase = cli.phase /\ cli'.cfg = cli.cfg /\ cli'.cur = cli.cur
    BY <2>1 DEF CliTyped, CliState
  <2> QED BY <2>2 DEF Stays, Doing, Goal
<1>4. CASE Purge
  <2>1. cli' = [cli EXCEPT !.pc = "next", !.left = Stale]
    BY <1>4 DEF Purge
  <2>2. cli'.phase = cli.phase /\ cli'.cfg = cli.cfg /\ cli'.cur = cli.cur
    BY <2>1 DEF CliTyped, CliState
  <2> QED BY <2>2 DEF Stays, Doing, Goal
<1>5. ASSUME NEW p \in Pcs, Goto(p) PROVE Stays
  BY <1>5, MoveStays
<1>6. ASSUME Return \/ (\E ok \in BOOLEAN : Finish(ok)) PROVE Stays \/ Stops
  BY <1>6, ReturnStays, EndStops
<1>7. CASE \/ Refuse \/ Clone \/ Start \/ Prepare \/ CheckReady \/ CheckNotReady
           \/ K3sJoin \/ WaitReady \/ TimedOut \/ Wipe \/ Reset \/ Manifest
  BY <1>5, <1>6, <1>7
     DEF Refuse, Clone, Start, Prepare, CheckReady, CheckNotReady, K3sJoin,
         WaitReady, AfterWait, TimedOut, Wipe, Reset, Manifest
<1>8. CASE \/ Kubeconfig \/ ExportToken \/ WriteToken \/ Cordon \/ DelNode
           \/ DelSecret \/ Destroy \/ Stamp \/ Info \/ Kill \/ Unconfig
           \/ SaveSnapshot \/ NoAnswer \/ NoInternet
  BY <1>5, <1>6, <1>8
     DEF Kubeconfig, ExportToken, WriteToken, Cordon, DelNode, DelSecret, AfterSecret,
         Destroy, Stamp, Info, Kill, Unconfig, SaveSnapshot, NoAnswer, NoInternet
<1> QED BY <1>1, <1>2, <1>3, <1>4, <1>7, <1>8 DEF Step

\* A goal is one the promise knows.
LEMMA GoalKnown ==
  ASSUME CliTyped'
  PROVE  Goal' \in Promise!Goals \cup {{}}
<1>1. cli'.cfg \in Configs /\ cli'.cur \in Offset
  BY InisAssumption DEF CliTyped, CliState
<1>2. Goal' = {} \/ Goal' = Target(cli'.cfg) \/ Goal' = {cli'.cur}
  BY DEF Goal
<1>3. Target(cli'.cfg) \in Promise!Goals /\ {cli'.cur} \in Promise!Goals
  <2>1. Promise!Configs = Configs
    BY DEF Promise!Configs, Configs
  <2> QED BY <1>1, <2>1, SameLayout DEF Promise!Goals
<1> QED BY <1>2, <1>3

\* A step that leaves the VMs alone is a turn or a stutter.
LEMMA TurnsOrStutters ==
  ASSUME CliTyped', Vms' = Vms,
         \/ Stays
         \/ Stops
         \/ Doing = "teardown" /\ Doing' = "build"
         \/ Doing = "idle" /\ Doing' \in {"build", "teardown", "node"}
  PROVE  [Promise!PromiseNext]_(Promise!pvars)
<1>1. Goal' \in Promise!Goals \cup {{}}
  BY GoalKnown
<1>2. CASE Stays
  BY <1>2 DEF Stays, Promise!pvars
<1>3. CASE ~Stays
  <2>1. Promise!Turn
    BY <1>1, <1>3 DEF Stops, Promise!Turn, Promise!Doings
  <2> QED BY <2>1 DEF Promise!PromiseNext
<1> QED BY <1>2, <1>3

\* Below the node in hand a loop that adds has nothing left to do.
LEMMA BelowIsThere ==
  ASSUME NEW wanted \in SUBSET Offset, Added(wanted), cli.cur \in Offset,
         NEW w \in wanted, w < cli.cur
  PROVE  w \in Vms
<1>1. w \in Int /\ cli.cur \in Int
  BY LayoutAssumption DEF Offset
<1>2. w \notin cli.left /\ w # cli.cur
  BY <1>1, LayoutAssumption DEF Added, Offset
<1> QED BY <1>2 DEF Added

\* A clone adds what the command asks for, from the lowest id up.
LEMMA CloneAdds ==
  ASSUME Inv, Clone, cli.cur \notin Vms
  PROVE  Promise!PromiseNext
<1> USE DEF Inv, TypeInv, TypeOK
<1>1. /\ At("clone") /\ Vms' = Vms \cup {cli.cur} /\ cli.cur \in Offset
      /\ cli.cfg \in Configs
  BY VmsChange, InisAssumption DEF Clone, CliTyped, CliState
<1>2. Stays
  BY MoveStays DEF Clone, Pcs
<1>3. CASE cli.phase \in {"create", "restore", "slaves", "workers"}
  <2>1. Doing = "build" /\ Goal = Target(cli.cfg)
    BY <1>3 DEF Doing, Goal
  <2>2. CASE cli.phase \in {"create", "restore"}
    <3>1. cli.cur = M1
      BY <2>2 DEF PlanInv, CallFits
    <3>2. M1 \in Target(cli.cfg) /\ \A w \in Target(cli.cfg) : ~(w < M1)
      BY <1>1 DEF Target, Slaves, WorkersOf, LastWorker, Configs, M1
    <3>7. Promise!Add(cli.cur)
      BY <1>1, <1>2, <2>1, <3>1, <3>2, SameLayout DEF Promise!Add, Stays
    <3> QED BY <1>1, <3>7, SameLayout DEF Promise!PromiseNext
  <2>3. CASE cli.phase = "slaves"
    <3>1. M1 \in Vms /\ Added(Slaves(cli.cfg))
      BY <2>3 DEF PlanInv, BuildOrder
    <3>2. cli.cur \in Slaves(cli.cfg)
      BY <1>1, <3>1 DEF Added, At
    <3>3. \A w \in Slaves(cli.cfg) : w < cli.cur => w \in Vms
      BY <1>1, <3>1, BelowIsThere, LayoutFacts
    <3>4. \A w \in WorkersOf(cli.cfg) : ~(w < cli.cur)
      BY <1>1, <3>2 DEF Slaves, WorkersOf, LastWorker, Configs
    <3>5. \A w \in Target(cli.cfg) : w < cli.cur => w \in Vms
      BY <3>1, <3>3, <3>4 DEF Target
    <3>6. cli.cur \in Target(cli.cfg)
      BY <3>2 DEF Target
    <3>7. Promise!Add(cli.cur)
      BY <1>1, <1>2, <2>1, <3>5, <3>6, SameLayout DEF Promise!Add, Stays
    <3> QED BY <1>1, <3>7, SameLayout DEF Promise!PromiseNext
  <2>4. CASE cli.phase = "workers"
    <3>1. M1 \in Vms /\ Slaves(cli.cfg) \subseteq Vms /\ Added(WorkersOf(cli.cfg))
      BY <2>4 DEF PlanInv, BuildOrder
    <3>2. cli.cur \in WorkersOf(cli.cfg)
      BY <1>1, <3>1 DEF Added, At
    <3>3. \A w \in WorkersOf(cli.cfg) : w < cli.cur => w \in Vms
      BY <1>1, <3>1, BelowIsThere, LayoutFacts
    <3>5. \A w \in Target(cli.cfg) : w < cli.cur => w \in Vms
      BY <3>1, <3>3 DEF Target
    <3>6. cli.cur \in Target(cli.cfg)
      BY <3>2 DEF Target
    <3>7. Promise!Add(cli.cur)
      BY <1>1, <1>2, <2>1, <3>5, <3>6, SameLayout DEF Promise!Add, Stays
    <3> QED BY <1>1, <3>7, SameLayout DEF Promise!PromiseNext
  <2> QED BY <1>3, <2>2, <2>3, <2>4
<1>4. CASE cli.phase = "node"
  <2>1. cli.cur = Utility
    BY <1>1, <1>4 DEF PlanInv, CallFits
  <2>2. Doing = "node" /\ Goal = {Utility}
    BY <1>4, <2>1 DEF Doing, Goal
  <2>3. Promise!One(Utility)
    BY <1>1, <1>2, <2>1, <2>2, SameLayout DEF Promise!One, Stays
  <2> QED BY <2>3, SameLayout, LayoutFacts DEF Promise!PromiseNext
<1> QED BY <1>1, <1>3, <1>4 DEF PlanInv, CallFits

\* A destroy takes only what the command does not ask for: the highest id of a
\* teardown, a surplus node of a build, the node a node command names.
LEMMA DestroyDrops ==
  ASSUME Inv, Destroy, cli.cur \in Vms
  PROVE  Promise!PromiseNext
<1> USE DEF Inv, TypeInv, TypeOK
<1>1. /\ At("destroy") /\ ~At("next") /\ Removing /\ Return
      /\ Vms' = Vms \ {cli.cur} /\ cli.cur \in Offset /\ cli.cfg \in Configs
      /\ Vms \subseteq Offset
  BY VmsChange, InisAssumption DEF Destroy, Removing, At, CliTyped, CliState, Vms
<1>2. cli.phase \in {"rm", "demote", "extras", "node"}
  BY <1>1 DEF PlanInv, CallFits
<1>3. IF cli.phase = "node" THEN Stops ELSE Stays
  BY <1>1, ReturnStays
<1>4. CASE cli.phase = "rm"
  <2>1. /\ cli.cur \notin Protected /\ Vms \ Protected \subseteq cli.left \cup {cli.cur}
        /\ \A v \in cli.left : v <= cli.cur
    BY <1>1, <1>4 DEF PlanInv, TeardownOrder
  <2>2. \A w \in Vms \ Protected : w <= cli.cur
    BY <1>1, <2>1, LayoutAssumption DEF Offset
  <2>3. Promise!TearDown(cli.cur)
    BY <1>1, <1>3, <1>4, <2>1, <2>2, SameLayout DEF Promise!TearDown, Stays, Doing
  <2> QED BY <1>1, <2>3, SameLayout DEF Promise!PromiseNext
<1>5. CASE cli.phase \in {"demote", "extras"}
  <2>1. cli.cur \in Surplus(cli.phase)
    BY <1>1, <1>5 DEF PlanInv, SurplusOnly
  <2>2. cli.cur \notin Target(cli.cfg) \cup Protected
    BY <1>1, <1>5, <2>1 DEF Surplus, Target, Protected, Image, Utility, M1, Configs,
       Slaves, WorkersOf, LastWorker
  <2>3. cli.cur \in Masters \/ Target(cli.cfg) \subseteq Vms
    <3>1. CASE cli.phase = "demote"
      BY <2>1, <3>1 DEF Surplus, Masters
    <3>2. CASE cli.phase = "extras"
      BY <3>2 DEF PlanInv, BuildOrder, Target
    <3> QED BY <1>5, <3>1, <3>2
  <2>4. Promise!Drop(cli.cur)
    BY <1>1, <1>3, <1>5, <2>2, <2>3, SameLayout DEF Promise!Drop, Stays, Doing, Goal
  <2> QED BY <1>1, <2>4, SameLayout DEF Promise!PromiseNext
<1>6. CASE cli.phase = "node"
  <2>1. Doing = "node" /\ Goal = {cli.cur}
    BY <1>6 DEF Doing, Goal
  <2>2. Promise!One(cli.cur)
    BY <1>1, <1>3, <1>6, <2>1 DEF Promise!One, Stops
  <2> QED BY <1>1, <2>2, SameLayout DEF Promise!PromiseNext
<1> QED BY <1>2, <1>4, <1>5, <1>6

\* Every step of the system is a step of the promise or a stutter.
LEMMA StepKeepsPromise ==
  Inv /\ Inv' /\ [Next]_vars => [Promise!PromiseNext]_(Promise!pvars)
<1> SUFFICES ASSUME Inv, Inv', [Next]_vars
             PROVE  [Promise!PromiseNext]_(Promise!pvars)
  OBVIOUS
<1> USE DEF Inv, TypeInv, TypeOK
<1>1. CASE Invoke
  <2>1. PICK c \in Commands, a \in 0..(LastOffset + MaxSnaps), k \in Inis : Begin(c, a, k)
    BY <1>1 DEF Invoke
  <2>2. Vms' = Vms
    BY <2>1, BeginKeepsVms
  <2>3. Doing = "idle"
    BY <2>1 DEF Begin, InHand, Doing
  <2>4. cli'.phase \in {"create", "update", "rm", "node"}
    BY <2>1, CommandsAssumption DEF Begin, Entry
  <2>5. Doing' \in {"build", "teardown", "node"}
    BY <2>4 DEF Doing
  <2> QED BY <2>2, <2>3, <2>5, TurnsOrStutters
<1>2. CASE Step
  <2>1. CASE Vms' = Vms
    BY <1>2, <2>1, StepTurns, TurnsOrStutters
  <2>2. CASE Vms' # Vms
    <3>1. \/ Clone /\ cli.cur \notin Vms
          \/ Destroy /\ cli.cur \in Vms
      BY <2>2, OnlyInHand
    <3> QED BY <3>1, CloneAdds, DestroyDrops
  <2> QED BY <2>1, <2>2
<1>3. CASE GuestStep
  <2>1. Vms' = Vms /\ Stays
    BY <1>3, GuestsKeepVms DEF GuestStep, Stays, Doing, Goal
  <2> QED BY <2>1, TurnsOrStutters
<1>4. CASE Interrupt \/ TooSlow
  <2>1. Vms' = Vms /\ Stops
    BY <1>4, EndStops DEF Interrupt, TooSlow, gvars, Vms
  <2> QED BY <2>1, TurnsOrStutters
<1>5. CASE GuestFault
  <2>1. cli' = [cli EXCEPT !.clean = At("idle")]
    BY <1>5 DEF GuestFault
  <2>2. cli'.phase = cli.phase /\ cli'.cfg = cli.cfg /\ cli'.cur = cli.cur
    BY <2>1 DEF CliTyped, CliState
  <2>3. Vms' = Vms /\ Stays
    BY <1>5, <2>2, GuestsKeepVms DEF Stays, Doing, Goal
  <2> QED BY <2>3, TurnsOrStutters
<1>6. CASE UNCHANGED vars
  <2>1. Vms' = Vms /\ Stays
    BY <1>6 DEF vars, Vms, Stays, Doing, Goal
  <2> QED BY <2>1, TurnsOrStutters
<1> QED BY <1>1, <1>2, <1>3, <1>4, <1>5, <1>6 DEF Next

\* It starts where the promise starts, with the image template alone.
LEMMA InitKeepsPromise == Init => Promise!PromiseInit
<1> SUFFICES ASSUME Init PROVE Promise!PromiseInit
  OBVIOUS
<1>1. Vms = {Image}
  <2>1. \A v \in Offset : node[v] = IF v = Image THEN [Absent EXCEPT !.st = "stopped"]
                                                 ELSE Absent
    BY DEF Init, GuestsInit
  <2>2. Absent.st = "absent" /\ [Absent EXCEPT !.st = "stopped"].st = "stopped"
    BY DEF Absent
  <2> QED BY <2>1, <2>2, LayoutFacts DEF Vms
<1>2. Doing = "idle" /\ Goal = {}
  BY DEF Init, Idle, Doing, Goal
<1> QED BY <1>1, <1>2, SameLayout DEF Promise!PromiseInit

\* README.md:160-165: every behaviour of the command line, with every interrupt,
\* refusal, power loss and timeout on the way, keeps the promise about the VMs:
\* a build adds from the lowest id up and drops only what kopsrox.ini does not
\* ask for, a teardown takes the highest id first, m1 last.
THEOREM Refinement == Spec => KeepsPromise
<1>1. Spec => [][Promise!PromiseNext]_(Promise!pvars)
  BY Invariant, StepKeepsPromise, PTL DEF Spec
<1>2. Spec => Promise!PromiseInit
  BY InitKeepsPromise DEF Spec
<1> QED BY <1>1, <1>2 DEF KeepsPromise, Promise!PromiseSpec

(****************************** The procedures *****************************)
\* Which procedure call p belongs to, where that is not what CallFits says.
CallOf(p) ==
  /\ p \in {"list", "wipe", "reset", "manifest", "rewait"} => cli.phase = "restore"
  /\ p \in {"kubeconfig", "export", "write"} =>
       cli.phase \in {"create", "restore", "update"} \/ cli.cmd = "export-token"
  /\ p \in {"clone", "start", "prepare"} =>
       \/ cli.phase \in {"create", "restore", "slaves", "workers"}
       \/ cli.phase = "node" /\ cli.cur = Utility
  /\ p \in {"check", "join", "wait"} =>
       \/ cli.phase \in {"create", "restore", "update", "slaves", "workers"}
       \/ cli.cmd = "rejoin-slave" /\ cli.cur \in Args \cap Masters
  /\ p = "save"  => cli.cmd = "snapshot"
  /\ p = "stamp" => cli.phase = "update"
  /\ p = "info"  => cli.phase \in {"update", "node"}

\* Which command a procedure belongs to, and on which node.
Commanded ==
  /\ cli.phase = "node" <=> cli.cmd \in {"node-destroy", "k3s-uninstall", "rejoin-slave",
                                         "utility", "snapshot", "export-token"}
  /\ cli.phase = "rm"   => cli.cmd \in {"restore", "destroy"}
  /\ cli.phase \in {"restore", "purge"} => cli.cmd = "restore"
  /\ cli.cmd \in {"node-destroy", "k3s-uninstall", "rejoin-slave"} =>
       cli.arg \in Args /\ cli.cur = cli.arg

ControlInv == CallOf(cli.pc) /\ Commanded

\* A call that moves on leaves the rest of the invocation alone.
LEMMA GotoKeeps ==
  ASSUME CliTyped, NEW p, Goto(p)
  PROVE  /\ cli'.pc = p /\ cli'.cmd = cli.cmd /\ cli'.arg = cli.arg /\ cli'.cfg = cli.cfg
         /\ cli'.phase = cli.phase /\ cli'.cur = cli.cur /\ cli'.seen = cli.seen
         /\ cli'.left = cli.left /\ cli'.snap = cli.snap
  BY DEF CliTyped, CliState, Goto

\* It keeps to its procedure.
LEMMA GotoControl ==
  ASSUME CliTyped, ControlInv, NEW p, Goto(p), CallOf(p)
  PROVE  ControlInv'
  BY GotoKeeps DEF ControlInv, CallOf, Commanded

\* A command that is over belongs to none.
LEMMA OverControl ==
  ASSUME cli'.cmd = "none", cli'.phase = "none", cli'.pc = "idle"
  PROVE  ControlInv'
  BY DEF ControlInv, CallOf, Commanded

\* From a procedure to the one after it.
LEMMA ReturnControl ==
  ASSUME CliTyped, InHand, ControlInv, ~At("idle"), Return
  PROVE  ControlInv'
<1> USE LayoutFacts DEF Phases, Pcs
<1>0. cli.phase \in Phases \ {"none"}
  BY DEF InHand, CliTyped, CliState
<1>1. CASE cli.phase \in {"create", "restore"}
  <2>1. \/ cli.phase = "create"  /\ Enter("update", "check", M1, {})
        \/ cli.phase = "restore" /\ Enter("purge", "purge", M1, {})
    BY <1>1 DEF Return
  <2>2. /\ \/ cli'.phase = "update" /\ cli'.pc = "check"
           \/ cli'.phase = "purge" /\ cli'.pc = "purge" /\ cli.phase = "restore"
        /\ cli'.cmd = cli.cmd
    BY <2>1, EnterTyped
  <2> QED BY <1>1, <2>2 DEF ControlInv, CallOf, Commanded, At
<1>2. CASE cli.phase = "update"
  <2>1. cli' = [cli EXCEPT !.phase = "slaves", !.pc = "next", !.seen = Vms,
                           !.left = Slaves(cli.cfg)]
    BY <1>2 DEF Return
  <2>2. cli'.phase = "slaves" /\ cli'.pc = "next" /\ cli'.cmd = cli.cmd
    BY <2>1 DEF CliTyped, CliState
  <2> QED BY <1>2, <2>2 DEF ControlInv, CallOf, Commanded, At
<1>3. CASE cli.phase = "node"
  BY <1>3, EndsIdle, OverControl DEF Return
<1>4. CASE cli.phase \in Loops
  <2>1. Goto("next")
    BY <1>4 DEF Return, Loops
  <2> QED BY <2>1, GotoControl DEF CallOf
<1> QED BY <1>0, <1>1, <1>2, <1>3, <1>4 DEF Loops

\* From one loop to the next.
LEMMA LoopEndsControl ==
  ASSUME TypeInv, ControlInv, LoopEnds
  PROVE  ControlInv'
<1> USE LayoutFacts DEF Phases, Pcs
<1>1. /\ cli.phase \in Loops /\ cli.cur \in Offset /\ CliTyped
      /\ Demoted \subseteq Offset /\ WorkersOf(cli.cfg) \subseteq Offset
      /\ Extras \subseteq Offset
  BY InisAssumption DEF LoopEnds, TypeInv, TypeOK, InHand, CliTyped, CliState,
     Demoted, Extras
<1>2. CASE cli.phase = "rm" /\ cli.cmd # "restore"
  BY <1>2, EndsIdle, OverControl DEF LoopEnds
<1>3. CASE ~(cli.phase = "rm" /\ cli.cmd # "restore")
  <2>1. \/ cli.phase = "rm"      /\ Enter("restore", "clone", M1, {})
        \/ cli.phase = "purge"   /\ Enter("update", "check", M1, {})
        \/ cli.phase = "slaves"  /\ Enter("demote", "next", cli.cur, Demoted)
        \/ cli.phase = "demote"  /\ Enter("workers", "next", cli.cur, WorkersOf(cli.cfg))
        \/ cli.phase = "workers" /\ Enter("extras", "next", cli.cur, Extras)
        \/ cli.phase = "extras"  /\ Enter("update", "stamp", M1, {})
    BY <1>1, <1>3 DEF LoopEnds, Loops
  <2>2. /\ cli'.cmd = cli.cmd
        /\ \/ cli'.phase = "restore" /\ cli'.pc = "clone"
           \/ cli'.phase = "update" /\ cli'.pc \in {"check", "stamp"}
           \/ cli'.phase \in {"demote", "workers", "extras"} /\ cli'.pc = "next"
    BY <1>1, <2>1, EnterTyped, SMTT(20)
  <2>3. cli'.phase = "restore" => cli.phase = "rm"
    BY <1>1, <2>1, EnterTyped
  <2> QED BY <1>1, <1>3, <2>2, <2>3 DEF ControlInv, CallOf, Commanded, Loops
<1> QED BY <1>2, <1>3

\* Every command starts in a procedure of its own.
LEMMA BeginControl ==
  ASSUME TypeInv, NEW c \in Commands, NEW a, NEW k \in Inis, Begin(c, a, k)
  PROVE  ControlInv'
<1>1. /\ cli'.cmd = c /\ cli'.arg = a /\ cli'.phase = Entry(c, a)[1]
      /\ cli'.pc = Entry(c, a)[2] /\ cli'.cur = Entry(c, a)[3]
  BY DEF Begin
<1>2. CASE c \in {"create", "update", "restore", "destroy"}
  <2>1. /\ cli'.phase \in {"create", "update", "rm"}
        /\ cli'.phase = "rm" => c \in {"restore", "destroy"}
        /\ cli'.pc \in {"check", "clone", "next", "refuse"}
        /\ cli'.pc = "clone" => cli'.phase = "create"
        /\ cli'.pc = "check" => cli'.phase \in {"create", "update"}
    BY <1>1, <1>2 DEF Entry
  <2> QED BY <1>1, <1>2, <2>1 DEF ControlInv, CallOf, Commanded
<1>3. CASE c \in {"node-destroy", "k3s-uninstall", "rejoin-slave"}
  <2>1. a \in Args /\ (c = "rejoin-slave" => a \in Masters)
    BY <1>3 DEF Begin, Takes
  <2>2. /\ cli'.phase = "node" /\ cli'.cur = a
        /\ cli'.pc \in {"refuse", "destroy", "cordon", "kill", "check"}
        /\ cli'.pc = "check" => c = "rejoin-slave"
    BY <1>1, <1>3 DEF Entry
  <2> QED BY <1>1, <1>3, <2>1, <2>2 DEF ControlInv, CallOf, Commanded
<1>4. CASE c \in {"utility", "snapshot", "export-token"}
  <2>1. /\ cli'.phase = "node"
        /\ \/ c = "utility" /\ cli'.pc \in {"info", "clone"} /\ cli'.cur = Utility
           \/ c = "snapshot" /\ cli'.pc \in {"save", "refuse"}
           \/ c = "export-token" /\ cli'.pc = "export"
    BY <1>1, <1>4 DEF Entry
  <2> QED BY <1>1, <1>4, <2>1 DEF ControlInv, CallOf, Commanded
<1> QED BY <1>2, <1>3, <1>4, CommandsAssumption

\* Every call belongs to the procedure it is reached from.
LEMMA StepControl ==
  ASSUME TypeInv, PlanInv, ControlInv, Step
  PROVE  ControlInv'
<1> USE DEF TypeInv, TypeOK, At
<1>c. CliTyped /\ InHand /\ CallOf(cli.pc) /\ Commanded
  BY DEF ControlInv
<1>f. \A ok \in BOOLEAN : Finish(ok) => ControlInv'
  BY EndsIdle, OverControl
<1>r. Return /\ ~At("idle") => ControlInv'
  BY <1>c, ReturnControl
<1>1. CASE Refuse \/ TimedOut \/ Info \/ SaveSnapshot \/ NoAnswer \/ NoInternet
  BY <1>1, <1>f DEF Refuse, TimedOut, Info, SaveSnapshot, NoAnswer, NoInternet
<1>2. ASSUME NEW v \in Offset, Pick(v) PROVE ControlInv'
  <2>1. cli' = [cli EXCEPT !.pc = Body(v), !.cur = v, !.left = @ \ {v}]
    BY <1>2 DEF Pick
  <2>2. cli'.pc = Body(v) /\ cli'.phase = cli.phase /\ cli'.cmd = cli.cmd
    BY <1>c, <2>1 DEF CliTyped, CliState
  <2>3. /\ \/ Body(v) \in {"check", "clone"} /\ cli.phase \in {"slaves", "workers"}
           \/ Body(v) \in {"delnode", "destroy", "cordon"}
        /\ cli.phase # "node"
    BY <1>2, <1>c DEF Body, Pick, InHand, Loops
  <2> QED BY <1>c, <2>2, <2>3 DEF ControlInv, CallOf, Commanded
<1>3. CASE LoopEnds
  BY <1>3, LoopEndsControl
<1>4. CASE Clone \/ Start \/ CheckNotReady \/ K3sJoin
  <2>1. \E p \in {"start", "prepare", "refuse", "join", "wait"} : Goto(p) /\ CallOf(p)
    BY <1>c, <1>4 DEF Clone, Start, CheckNotReady, K3sJoin, CallOf
  <2> QED BY <1>c, <2>1, GotoControl
<1>5. CASE Prepare
  <2>1. cli.cur = Utility => cli.phase = "node"
    <3>1. cli.cfg \in Configs
      BY <1>c, InisAssumption DEF CliTyped, CliState
    <3>2. cli.phase \in {"create", "restore"} => cli.cur = M1
      BY DEF PlanInv, CallFits
    <3>3. cli.phase \in {"slaves", "workers"} =>
            cli.cur \in Slaves(cli.cfg) \cup WorkersOf(cli.cfg)
      BY <1>5 DEF PlanInv, BuildOrder, Added, Prepare
    <3> QED BY <1>c, <1>5, <3>1, <3>2, <3>3
            DEF Prepare, CallOf, Utility, M1, Slaves, WorkersOf, LastWorker, Configs
  <2>2. CASE cli.cur = Utility
    <3>1. Goto("info") /\ CallOf("info")
      BY <1>5, <2>1, <2>2 DEF Prepare, CallOf
    <3> QED BY <1>c, <3>1, GotoControl
  <2>3. CASE cli.cur # Utility
    <3>1. cli.phase \in {"create", "restore", "slaves", "workers"}
      BY <1>c, <1>5, <2>3 DEF Prepare, CallOf
    <3>2. Goto("check") /\ CallOf("check")
      BY <1>5, <2>3, <3>1 DEF Prepare, CallOf
    <3> QED BY <1>c, <3>2, GotoControl
  <2> QED BY <2>2, <2>3
<1>6. CASE CheckReady
  BY <1>6, <1>r DEF CheckReady
<1>7. CASE WaitReady
  <2>1. \/ Return
        \/ Goto("list") /\ CallOf("list")
        \/ Goto("kubeconfig") /\ CallOf("kubeconfig")
    <3>1. CASE At("rewait")
      BY <1>c, <1>7, <3>1 DEF WaitReady, AfterWait, CallOf
    <3>2. CASE At("wait")
      <4>1. CASE NodeType = "restore"
        <5>1. cli.phase = "restore"
          BY <4>1 DEF NodeType
        <5> QED BY <1>7, <3>2, <4>1, <5>1 DEF WaitReady, AfterWait, CallOf
      <4>2. CASE NodeType = "master"
        <5>1. cli.cmd # "rejoin-slave" /\ cli.cur \notin {2, 3} /\ ~(cli.cur > Utility)
          BY <4>2 DEF NodeType
        <5>2. cli.phase \in {"create", "restore", "update"}
          <6>1. cli.phase \in {"slaves", "workers"} =>
                  cli.cur \in Slaves(cli.cfg) \cup WorkersOf(cli.cfg)
            BY <3>2 DEF PlanInv, BuildOrder, Added
          <6>2. cli.cfg \in Configs
            BY <1>c, InisAssumption DEF CliTyped, CliState
          <6> QED BY <1>c, <3>2, <5>1, <6>1, <6>2
                  DEF CallOf, Utility, Slaves, WorkersOf, LastWorker, Configs
        <5> QED BY <1>7, <3>2, <4>2, <5>2 DEF WaitReady, AfterWait, CallOf
      <4>3. CASE NodeType \notin {"restore", "master"}
        BY <1>7, <3>2, <4>3 DEF WaitReady, AfterWait
      <4> QED BY <4>1, <4>2, <4>3
    <3> QED BY <1>7, <3>1, <3>2 DEF WaitReady
  <2> QED BY <1>c, <1>r, <1>7, <2>1, GotoControl DEF WaitReady
<1>8. CASE ListSnapshots
  <2> DEFINE found == Chosen \in DOMAIN s3
  <2>1. cli' = [cli EXCEPT !.snap = IF found THEN Chosen ELSE 0,
                           !.pc = IF found THEN "wipe" ELSE "refuse"]
    BY <1>8 DEF ListSnapshots
  <2>2. /\ cli'.pc \in {"wipe", "refuse"} /\ cli'.phase = cli.phase
        /\ cli'.cmd = cli.cmd /\ cli'.arg = cli.arg /\ cli'.cur = cli.cur
    BY <1>c, <2>1 DEF CliTyped, CliState
  <2> QED BY <1>c, <1>8, <2>2 DEF ListSnapshots, ControlInv, CallOf, Commanded
<1>9. CASE Wipe \/ Reset \/ Manifest \/ Kubeconfig
  <2>1. \E p \in {"reset", "manifest", "refuse", "rewait", "export"} : Goto(p) /\ CallOf(p)
    BY <1>c, <1>9 DEF Wipe, Reset, Manifest, Kubeconfig, CallOf
  <2> QED BY <1>c, <2>1, GotoControl
<1>10. CASE Purge
  <2>1. cli' = [cli EXCEPT !.pc = "next", !.left = Stale]
    BY <1>10 DEF Purge
  <2>2. /\ cli'.pc = "next" /\ cli'.phase = cli.phase
        /\ cli'.cmd = cli.cmd /\ cli'.arg = cli.arg /\ cli'.cur = cli.cur
    BY <1>c, <2>1 DEF CliTyped, CliState
  <2> QED BY <1>c, <1>10, <2>2 DEF ControlInv, CallOf, Commanded
<1>11. CASE ExportToken \/ WriteToken
  <2>1. \/ Return \/ Finish(FALSE)
        \/ Goto("write") /\ CallOf("write")
    BY <1>c, <1>11 DEF ExportToken, WriteToken, CallOf
  <2> QED BY <1>c, <1>f, <1>r, <1>11, <2>1, GotoControl DEF ExportToken, WriteToken
<1>12. CASE Cordon \/ DelNode \/ DelSecret \/ Destroy
  <2>1. Return \/ \E p \in {"delnode", "delsecret", "destroy"} : Goto(p) /\ CallOf(p)
    BY <1>12 DEF Cordon, DelNode, DelSecret, AfterSecret, Destroy, CallOf
  <2> QED BY <1>c, <1>r, <1>12, <2>1, GotoControl DEF Cordon, DelNode, DelSecret, Destroy
<1>13. CASE Stamp \/ Kill \/ Unconfig
  <2>1. CASE Stamp
    <3>1. Goto("info") /\ CallOf("info")
      BY <1>c, <2>1 DEF Stamp, CallOf
    <3> QED BY <1>c, <3>1, GotoControl
  <2>2. CASE Kill \/ Unconfig
    <3>1. Finish(TRUE) \/ \E p \in {"unconfig", "delnode"} : Goto(p) /\ CallOf(p)
      BY <2>2 DEF Kill, Unconfig, CallOf
    <3> QED BY <1>c, <1>f, <3>1, GotoControl
  <2> QED BY <1>13, <2>1, <2>2
<1> QED
  BY <1>1, <1>2, <1>3, <1>4, <1>5, <1>6, <1>7, <1>8, <1>9, <1>10, <1>11, <1>12, <1>13
     DEF Step

\* And every step of the system keeps it so.
LEMMA NextControl == Inv /\ ControlInv /\ [Next]_vars => ControlInv'
<1> SUFFICES ASSUME Inv, ControlInv, [Next]_vars PROVE ControlInv'
  OBVIOUS
<1> USE DEF Inv
<1>1. CASE Invoke
  BY <1>1, BeginControl DEF Invoke
<1>2. CASE Step
  BY <1>2, StepControl
<1>3. CASE GuestStep \/ UNCHANGED vars
  BY <1>3 DEF GuestStep, vars, ControlInv, CallOf, Commanded
<1>4. CASE Interrupt \/ TooSlow
  BY <1>4, EndsIdle, OverControl DEF Interrupt, TooSlow
<1>5. CASE GuestFault
  <2>1. cli' = [cli EXCEPT !.clean = At("idle")]
    BY <1>5 DEF GuestFault
  <2>2. /\ cli'.pc = cli.pc /\ cli'.phase = cli.phase /\ cli'.cmd = cli.cmd
        /\ cli'.arg = cli.arg /\ cli'.cur = cli.cur
    BY <2>1 DEF TypeInv, TypeOK, CliTyped, CliState
  <2> QED BY <2>2 DEF ControlInv, CallOf, Commanded
<1> QED BY <1>1, <1>2, <1>3, <1>4, <1>5 DEF Next

(******************************* Identities ********************************)
\* No guest and no snapshot is of an identity that has not been created, and
\* an API that says a node is Ready lists it.
Listed(k) == k.ready \subseteq k.reg
IdentityInv ==
  /\ \A v \in Offset : node[v].cl <= ids
  /\ \A i \in DOMAIN s3 : s3[i].ca \in 1..ids /\ Listed(s3[i])
  /\ \A c \in Id : Listed(clu[c])

\* Most steps leave the password of a cluster, and take no node off its list.
Kept(c) == /\ clu'[c].pw = clu[c].pw /\ clu[c].reg \subseteq clu'[c].reg
           /\ Listed(clu[c]) => Listed(clu'[c])
New(c)  == c = ids + 1 /\ ids' = ids + 1 /\ Listed(clu'[c])

\* The offsets are finitely many, so the members of a cluster can be counted.
LEMMA OffsetFinite == IsFiniteSet(Offset)
<1>1. 0 \in Int /\ LastOffset \in Int
  BY LayoutAssumption
<1>2. IsFiniteSet(0..LastOffset)
  BY ONLY <1>1, FS_Interval
<1> QED BY ONLY <1>2 DEF Offset

\* A cluster that has a quorum has a member that serves it.
LEMMA QuorumServes ==
  ASSUME GuestsTyped, NEW c \in Id, Quorum(c)
  PROVE  \E v \in clu[c].members : Serves(v, c)
<1> DEFINE up == {v \in clu[c].members : Serves(v, c)}
<1>1. IsFiniteSet(clu[c].members)
  BY OffsetFinite, FS_Subset DEF GuestsTyped, ClusterState
<1>2. Cardinality(clu[c].members) \in Nat
  BY <1>1, FS_CardinalityType
<1>3. up # {}
  <2> SUFFICES ASSUME up = {} PROVE FALSE
    OBVIOUS
  <2>1. Cardinality(up) = 0
    BY FS_EmptySet
  <2> QED BY <1>2, <2>1 DEF Quorum
<1> QED BY <1>3

\* The units at work, and faults, only add to a cluster, but for the one that
\* bootstraps, which is new.
LEMMA GuestClusters ==
  ASSUME GuestsTyped, GuestStep \/ GuestFault, NEW c \in Id
  PROVE  Kept(c) \/ New(c)
<1>0. clu[c] \in ClusterState
  BY DEF GuestsTyped
<1>1. ASSUME NEW v \in Offset, Bootstrap(v)
      PROVE  Kept(c) \/ New(c)
  <2>1. CASE c = ids + 1
    <3>1. \E p : clu'[c] = NewCluster(p, v)
      BY <1>1, <2>1 DEF Bootstrap, GuestsTyped
    <3> QED BY <1>1, <2>1, <3>1 DEF Bootstrap, New, NewCluster, Listed
  <2>2. CASE c # ids + 1
    BY <1>1, <2>2 DEF Bootstrap, GuestsTyped, Kept
  <2> QED BY <2>1, <2>2
<1>2. ASSUME NEW v \in Offset, NEW d \in Id, Join(v, d) PROVE Kept(c)
  <2>1. clu'[c].pw = clu[c].pw /\ clu'[c].reg = clu[c].reg /\ clu'[c].ready = clu[c].ready
    BY <1>0, <1>2 DEF Join, GuestsTyped, ClusterState
  <2> QED BY <2>1 DEF Kept, Listed
<1>3. ASSUME NEW v \in Offset, Register(v) PROVE Kept(c)
  <2>1. /\ clu'[c].pw = clu[c].pw /\ clu'[c].ready = clu[c].ready
        /\ clu[c].reg \subseteq clu'[c].reg
    BY <1>0, <1>3 DEF Register, GuestsTyped, ClusterState
  <2> QED BY <2>1 DEF Kept, Listed
<1>4. ASSUME NEW v \in Offset, Heartbeat(v) PROVE Kept(c)
  <2>1. clu' = [clu EXCEPT ![node[v].cl].ready = @ \cup {Name(v)}]
        /\ Name(v) \in clu[node[v].cl].reg
    BY <1>4 DEF Heartbeat, CanHeartbeat
  <2>2. /\ clu'[c].pw = clu[c].pw /\ clu'[c].reg = clu[c].reg
        /\ \/ clu'[c].ready = clu[c].ready
           \/ clu'[c].ready = clu[c].ready \cup {Name(v)} /\ Name(v) \in clu[c].reg
    BY <1>0, <2>1 DEF GuestsTyped, ClusterState
  <2> QED BY <2>2 DEF Kept, Listed
<1>5. ASSUME NEW d \in Id, NEW n, clu' = [clu EXCEPT ![d].ready = @ \ {n}] PROVE Kept(c)
  <2>1. /\ clu'[c].pw = clu[c].pw /\ clu'[c].reg = clu[c].reg
        /\ clu'[c].ready \subseteq clu[c].ready
    BY <1>0, <1>5 DEF GuestsTyped, ClusterState
  <2> QED BY <2>1 DEF Kept, Listed
<1>6. ASSUME NEW v \in Offset, Flap(v) PROVE Kept(c)
  <2>1. node[v].cl \in Id
    BY <1>6, MaxIdAssumption DEF Flap, GuestsTyped, NodeState, Id
  <2> QED BY <1>5, <1>6, <2>1 DEF Flap
<1>7. ASSUME NEW v \in Offset, PowerLoss(v) PROVE Kept(c)
  BY <1>7 DEF PowerLoss, Kept
<1> QED BY <1>1, <1>2, <1>3, <1>4, <1>5, <1>6, <1>7
        DEF GuestStep, GuestFault, Progress, LeaseExpires

\* Of the calls, only a deletion takes a node off a list, the one in hand off
\* m1's unless a node is being uninstalled; and a restore starts from a snapshot.
LEMMA CallClusters ==
  ASSUME TypeInv, Step, NEW c \in Id
  PROVE  \/ Kept(c)
         \/ /\ DelNode /\ clu'[c].pw = clu[c].pw
            /\ Listed(clu[c]) => Listed(clu'[c])
            /\ clu[c].reg \ {cli.cur} \subseteq clu'[c].reg
         \/ /\ Reset /\ At("reset") /\ Decrypts(s3[cli.snap]) /\ c = s3[cli.snap].ca
            /\ clu'[c] = Restored(s3[cli.snap], cli.cur)
<1> USE DEF TypeInv, TypeOK
<1>0. clu[c] \in ClusterState /\ clu[c] = clu[c]
  BY DEF GuestsTyped
<1>1. CASE clu' = clu
  BY <1>1 DEF Kept
<1>2. ASSUME NEW v, NEW k, Kubectl(v, k),
             node[v].cl = c => /\ k.pw = clu[c].pw /\ clu[c].reg \subseteq k.reg
                               /\ Listed(clu[c]) => Listed(k)
      PROVE  Kept(c)
  BY <1>2 DEF Kubectl, Kept, GuestsTyped
<1>3. CASE Cordon
  <2>1. PICK v \in Routes : Kubectl(v, Cordoned(Api(v), cli.cur))
    BY <1>3 DEF Cordon
  <2>2. Cordoned(clu[c], cli.cur).pw = clu[c].pw /\ Cordoned(clu[c], cli.cur).reg = clu[c].reg
        /\ Cordoned(clu[c], cli.cur).ready = clu[c].ready
    BY <1>0 DEF Cordoned, ClusterState
  <2> QED BY <1>2, <2>1, <2>2 DEF Api, Listed
<1>4. CASE DelSecret
  <2>1. PICK v \in Routes : Kubectl(v, SecretDeleted(Api(v), cli.cur))
    BY <1>4 DEF DelSecret
  <2>2. SecretDeleted(clu[c], cli.cur).pw = clu[c].pw
        /\ SecretDeleted(clu[c], cli.cur).reg = clu[c].reg
        /\ SecretDeleted(clu[c], cli.cur).ready = clu[c].ready
    BY <1>0 DEF SecretDeleted, ClusterState
  <2> QED BY <1>2, <2>1, <2>2 DEF Api, Listed
<1>5. CASE DelNode
  <2>1. PICK v \in Routes : Kubectl(v, NodeDeleted(Api(v), cli.cur))
    BY <1>5 DEF DelNode
  <2> DEFINE k == NodeDeleted(clu[c], cli.cur)
  <2>2. /\ k.pw = clu[c].pw /\ k.reg = clu[c].reg \ {cli.cur}
        /\ k.ready = clu[c].ready \/ k.ready = clu[c].ready \ {cli.cur}
        /\ cli.cur \notin clu[c].reg => k.ready = clu[c].ready
    BY <1>0 DEF NodeDeleted, ClusterState
  <2>3. clu'[c] = clu[c] \/ clu'[c] = k
    BY <2>1 DEF Kubectl, Api, GuestsTyped
  <2>4. Listed(clu[c]) => Listed(clu'[c])
    <3>1. Listed(clu[c]) => Listed(k)
      BY <1>0 DEF NodeDeleted, ClusterState, Listed
    <3> QED BY <2>3, <3>1
  <2> HIDE DEF k
  <2> QED BY <1>5, <2>2, <2>3, <2>4
<1>6. CASE Reset
  <2> DEFINE s == s3[cli.snap]
  <2>1. \/ UNCHANGED clu
        \/ Decrypts(s) /\ clu' = [clu EXCEPT ![s.ca] = Restored(s, cli.cur)]
    BY <1>6 DEF Reset
  <2>2. At("reset")
    BY <1>6 DEF Reset
  <2> QED BY <1>1, <1>6, <2>1, <2>2 DEF GuestsTyped, Kept
<1> QED BY <1>1, <1>3, <1>4, <1>5, <1>6
        DEF Step, Refuse, Pick, LoopEnds, Clone, Start, Prepare, CheckReady, CheckNotReady,
            K3sJoin, WaitReady, TimedOut, ListSnapshots, Wipe, Manifest, Purge, Kubeconfig,
            ExportToken, WriteToken, Destroy, Stamp, Info, Kill, Unconfig, SaveSnapshot,
            NoAnswer, NoInternet, gvars

\* The units at work write no configuration, and data only where there is none.
LEMMA GuestNodes ==
  ASSUME GuestsTyped, GuestStep \/ GuestFault, NEW v \in Offset
  PROVE  /\ node'[v].role = node[v].role
         /\ node'[v].unit = "disabled" <=> node[v].unit = "disabled"
         /\ \/ node'[v].cl = node[v].cl
            \/ Bootstrap(v) /\ node'[v].cl = ids + 1 /\ ids' = ids + 1
            \/ \E c \in Id : Join(v, c) /\ node'[v].cl = c
<1> DEFINE Fits(u) ==
      /\ node'[u].role = node[u].role
      /\ node'[u].unit = "disabled" <=> node[u].unit = "disabled"
      /\ \/ node'[u].cl = node[u].cl
         \/ Bootstrap(u) /\ node'[u].cl = ids + 1 /\ ids' = ids + 1
         \/ \E c \in Id : Join(u, c) /\ node'[u].cl = c
<1>0. node[v] \in NodeState
  BY DEF GuestsTyped
<1>1. ASSUME NEW u \in Offset, Bootstrap(u) PROVE Fits(v)
  <2>1. CASE u = v
    BY <1>0, <1>1, <2>1 DEF Bootstrap, GuestsTyped, NodeState
  <2>2. CASE u # v
    BY <1>1, <2>2 DEF Bootstrap, GuestsTyped
  <2> QED BY <2>1, <2>2
<1>2. ASSUME NEW u \in Offset, NEW c \in Id, Join(u, c) PROVE Fits(v)
  <2>1. CASE u = v
    BY <1>0, <1>2, <2>1 DEF Join, GuestsTyped, NodeState
  <2>2. CASE u # v
    BY <1>2, <2>2 DEF Join, GuestsTyped
  <2> QED BY <2>1, <2>2
<1>3. ASSUME NEW u \in Offset, Register(u) PROVE Fits(v)
  <2>1. CASE u = v
    <3>1. node[v].unit = "starting"
      BY <1>3, <2>1 DEF Register, CanRegister
    <3>2. node'[v].unit = "active" /\ node'[v].role = node[v].role /\ node'[v].cl = node[v].cl
      BY <1>0, <1>3, <2>1 DEF Register, GuestsTyped, NodeState
    <3> QED BY <3>1, <3>2
  <2>2. CASE u # v
    BY <1>3, <2>2 DEF Register, GuestsTyped
  <2> QED BY <2>1, <2>2
<1>4. ASSUME NEW u \in Offset, PowerLoss(u) PROVE Fits(v)
  <2>1. /\ node'[v].unit = node[v].unit /\ node'[v].role = node[v].role
        /\ node'[v].cl = node[v].cl
    BY <1>0, <1>4 DEF PowerLoss, GuestsTyped, NodeState
  <2> QED BY <2>1
<1>5. ASSUME node' = node PROVE Fits(v)
  BY <1>5
<1> QED BY <1>1, <1>2, <1>3, <1>4, <1>5
        DEF GuestStep, GuestFault, Progress, Heartbeat, LeaseExpires, Flap

\* What the calls do to the data, the configuration and the unit of a guest.
LEMMA NodeOpsData ==
  ASSUME NEW n \in NodeState
  PROVE  /\ Started(n).cl = n.cl /\ Started(n).role = n.role
         /\ Booted(n).cl = n.cl /\ Booted(n).role = n.role
         /\ Booted(n).unit = "disabled" <=> n.unit = "disabled"
         /\ Killed(n).cl = n.cl /\ Killed(n).role = n.role
         /\ Killed(n).unit = "disabled" <=> n.unit = "disabled"
         /\ Wiped(n).cl = 0 /\ Wiped(n).role = n.role /\ Wiped(n).unit = n.unit
         /\ Prepared(n).cl = n.cl /\ Prepared(n).role = n.role /\ Prepared(n).unit = n.unit
         /\ Reapplied(n).cl = n.cl /\ Reapplied(n).role = n.role
         /\ Unconfigured(n).cl = n.cl /\ Unconfigured(n).unit = n.unit
         /\ Unconfigured(n).role = IF n.role \in {"init", "server"} THEN "init" ELSE "none"
         /\ \A r \in {"none", "init", "server", "agent"}, t \in Token, o \in Settings :
              Configured(n, r, t, o).cl = n.cl /\ Configured(n, r, t, o).role = r
<1>1. /\ Started(n).cl = n.cl /\ Started(n).role = n.role
      /\ Killed(n).cl = n.cl /\ Killed(n).role = n.role
      /\ Killed(n).unit = "disabled" <=> n.unit = "disabled"
  BY DEF NodeState, Started, Killed
<1>2. /\ Booted(n).cl = n.cl /\ Booted(n).role = n.role
      /\ Booted(n).unit = "disabled" <=> n.unit = "disabled"
  BY DEF NodeState, Booted
<1>3. /\ Wiped(n).cl = 0 /\ Wiped(n).role = n.role /\ Wiped(n).unit = n.unit
      /\ Prepared(n).cl = n.cl /\ Prepared(n).role = n.role /\ Prepared(n).unit = n.unit
      /\ Reapplied(n).cl = n.cl /\ Reapplied(n).role = n.role
  BY DEF NodeState, Wiped, Prepared, Reapplied
<1>4. /\ Unconfigured(n).cl = n.cl /\ Unconfigured(n).unit = n.unit
      /\ Unconfigured(n).role = IF n.role \in {"init", "server"} THEN "init" ELSE "none"
  BY DEF NodeState, Unconfigured
<1>5. \A r \in {"none", "init", "server", "agent"}, t \in Token, o \in Settings :
        Configured(n, r, t, o).cl = n.cl /\ Configured(n, r, t, o).role = r
  BY DEF NodeState, Configured
<1> QED BY <1>1, <1>2, <1>3, <1>4, <1>5

\* A call reaches one guest, the one in hand.  It takes its data away, or puts a
\* snapshot's there; it configures it by k3s_init_node or not at all.
CallEffect ==
  /\ cli.cur \in Offset /\ ids' = ids
  /\ \A v \in Offset \ {cli.cur} : node'[v] = node[v]
  /\ \/ node'[cli.cur].cl = node[cli.cur].cl
     \/ node'[cli.cur].cl = 0 /\ (Clone \/ Destroy \/ Wipe \/ Unconfig)
     \/ Reset /\ Decrypts(s3[cli.snap]) /\ node'[cli.cur].cl = s3[cli.snap].ca
  /\ \/ node'[cli.cur].role = node[cli.cur].role
     \/ node'[cli.cur].role = "none"
     \/ K3sJoin /\ node'[cli.cur].role = Role
     \/ /\ Unconfig /\ node'[cli.cur].role = "init"
        /\ node[cli.cur].role \in {"init", "server"}
  /\ \/ node'[cli.cur].unit = "disabled" <=> node[cli.cur].unit = "disabled"
     \/ node'[cli.cur].unit = "disabled" /\ node'[cli.cur].cl = 0
     \/ K3sJoin \/ Manifest
  /\ Clone \/ Destroy => node'[cli.cur].unit = "disabled" /\ node'[cli.cur].cl = 0
                         /\ node'[cli.cur].role = "none"

\* That is all a call does to the guests.
LEMMA CallNodes ==
  ASSUME TypeInv, Step
  PROVE  CallEffect
<1> USE DEF TypeInv, TypeOK, CallEffect
<1> DEFINE n == node[cli.cur]
           m == node'[cli.cur]
           Same == m.cl = n.cl /\ m.role = n.role /\ (m.unit = "disabled" <=> n.unit = "disabled")
<1>0. cli.cur \in Offset /\ n \in NodeState /\ ids' = ids /\ cli.cfg \in Configs
  BY InisAssumption
     DEF CliTyped, CliState, GuestsTyped, Step, Refuse, Pick, LoopEnds, Clone, Start, Prepare,
         CheckReady, CheckNotReady, K3sJoin, WaitReady, TimedOut, ListSnapshots, Wipe, Reset,
         Manifest, Purge, Kubeconfig, ExportToken, WriteToken, Cordon, DelNode, DelSecret,
         Destroy, Stamp, Info, Kill, Unconfig, SaveSnapshot, NoAnswer, NoInternet, gvars
<1>1. ASSUME NEW x, node' = [node EXCEPT ![cli.cur] = x]
      PROVE  m = x /\ \A v \in Offset \ {cli.cur} : node'[v] = node[v]
  BY <1>0, <1>1 DEF GuestsTyped
<1>2. CASE Clone \/ Destroy
  <2>1. m \in {Absent, Cloned} /\ \A v \in Offset \ {cli.cur} : node'[v] = node[v]
    BY <1>1, <1>2 DEF Clone, Destroy
  <2>2. m.cl = 0 /\ m.role = "none" /\ m.unit = "disabled"
    BY <2>1 DEF Absent, Cloned
  <2> QED BY <1>0, <1>2, <2>1, <2>2
<1>3. ASSUME ~Clone, ~Destroy, Same, \A v \in Offset \ {cli.cur} : node'[v] = node[v]
      PROVE  CallEffect
  BY <1>0, <1>3
<1>4. CASE Start \/ Prepare \/ Kill
  <2>1. /\ m = Booted(n) \/ m = Prepared(n) \/ m = Killed(n)
        /\ \A v \in Offset \ {cli.cur} : node'[v] = node[v]
        /\ ~Clone /\ ~Destroy
    BY <1>1, <1>4 DEF Start, Prepare, Kill, Clone, Destroy, At
  <2>2. Same
    BY <1>0, <2>1, NodeOpsData
  <2> QED BY <1>3, <2>1, <2>2
<1>5. CASE K3sJoin \/ Manifest
  <2>1. /\ \A v \in Offset \ {cli.cur} : node'[v] = node[v]
        /\ ~Clone /\ ~Destroy
    BY <1>1, <1>5 DEF K3sJoin, Manifest, Clone, Destroy, At
  <2>2. CASE K3sJoin
    <3> DEFINE k == Configured(n, Role, JoinToken, cli.cfg.opts)
    <3>1. JoinToken \in Token /\ Role \in {"init", "server", "agent"}
          /\ cli.cfg.opts \in Settings
      BY <1>0, NoTokenTyped DEF JoinToken, SavedToken, Role, FilesTyped, Configs
    <3>2. k \in NodeState
      BY <1>0, <3>1, ConfiguredTyped
    <3>3. k.cl = n.cl /\ k.role = Role
      BY <1>0, <3>1, NodeOpsData
    <3>4. m = Started(k)
      BY <1>1, <2>2 DEF K3sJoin
    <3> HIDE DEF k
    <3>5. m.cl = n.cl /\ m.role = Role
      BY <3>2, <3>3, <3>4, NodeOpsData
    <3> QED BY <1>0, <2>1, <2>2, <3>5
  <2>3. CASE Manifest
    <3>1. Reapplied(n) \in NodeState
      BY <1>0, NodeOps
    <3>2. m = Started(Reapplied(n))
      BY <1>1, <2>3 DEF Manifest
    <3>3. m.cl = n.cl /\ m.role = n.role
      BY <1>0, <3>1, <3>2, NodeOpsData
    <3> QED BY <1>0, <2>1, <2>3, <3>3
  <2> QED BY <1>5, <2>2, <2>3
<1>6. CASE Wipe
  <2>1. /\ m = Wiped(Killed(n)) /\ Killed(n) \in NodeState
        /\ \A v \in Offset \ {cli.cur} : node'[v] = node[v]
        /\ ~Clone /\ ~Destroy
    BY <1>0, <1>1, <1>6, NodeOps DEF Wipe, Clone, Destroy, At
  <2>2. m.cl = 0 /\ m.role = n.role /\ (m.unit = "disabled" <=> n.unit = "disabled")
    BY <1>0, <2>1, NodeOpsData
  <2> QED BY <1>0, <1>6, <2>1, <2>2
<1>7. CASE Unconfig
  <2>1. /\ m = Unconfigured(Wiped(n)) /\ Wiped(n) \in NodeState
        /\ \A v \in Offset \ {cli.cur} : node'[v] = node[v]
        /\ ~Clone /\ ~Destroy
    BY <1>0, <1>1, <1>7, NodeOps DEF Unconfig, Clone, Destroy, At
  <2>2. /\ m.cl = 0 /\ m.unit = n.unit
        /\ m.role = IF n.role \in {"init", "server"} THEN "init" ELSE "none"
    BY <1>0, <2>1, NodeOpsData
  <2> QED BY <1>0, <1>7, <2>1, <2>2
<1>8. CASE Reset
  <2> DEFINE s == s3[cli.snap]
  <2>1. ~Clone /\ ~Destroy
    BY <1>8 DEF Reset, Clone, Destroy, At
  <2>2. CASE node' = node
    BY <1>3, <2>1, <2>2
  <2>3. CASE Decrypts(s) /\ node' = [node EXCEPT ![cli.cur] = [n EXCEPT !.cl = s.ca]]
    <3>1. m = [n EXCEPT !.cl = s.ca] /\ \A v \in Offset \ {cli.cur} : node'[v] = node[v]
      BY <1>1, <2>3
    <3>2. m.cl = s.ca /\ m.role = n.role /\ m.unit = n.unit
      BY <1>0, <3>1 DEF NodeState
    <3> QED BY <1>0, <1>8, <2>1, <2>3, <3>1, <3>2
  <2> QED BY <1>8, <2>2, <2>3 DEF Reset
<1>9. CASE node' = node /\ ~Clone /\ ~Destroy
  BY <1>3, <1>9
<1> QED BY <1>2, <1>4, <1>5, <1>6, <1>7, <1>8, <1>9
        DEF Step, Refuse, Pick, LoopEnds, CheckReady, CheckNotReady, WaitReady, TimedOut,
            ListSnapshots, Purge, Kubeconfig, ExportToken, WriteToken, Cordon, DelNode,
            DelSecret, Stamp, Info, SaveSnapshot, NoAnswer, NoInternet, gvars

\* The bucket only grows, by a snapshot of m1's cluster.
LEMMA CallSnapshots ==
  ASSUME TypeInv, Step
  PROVE  \/ s3' = s3
         \/ SaveSnapshot /\ ApiAt(M1) /\ s3' = Append(s3, Taken(node[M1].cl))
  BY DEF Step, Refuse, Pick, LoopEnds, Clone, Start, Prepare, CheckReady, CheckNotReady,
         K3sJoin, WaitReady, TimedOut, ListSnapshots, Wipe, Reset, Manifest, Purge, Kubeconfig,
         ExportToken, WriteToken, Cordon, DelNode, DelSecret, Destroy, Stamp, Info, Kill,
         Unconfig, SaveSnapshot, NoAnswer, NoInternet, files

\* Powering on does nothing to the data, the configuration or the units.
LEMMA BeginNodes ==
  ASSUME GuestsTyped, NEW c, NEW a, NEW k, Begin(c, a, k), NEW v \in Offset
  PROVE  /\ node'[v].cl = node[v].cl /\ node'[v].role = node[v].role
         /\ node'[v].unit = "disabled" <=> node[v].unit = "disabled"
<1>1. node[v] \in NodeState
  BY DEF GuestsTyped
<1>2. node'[v] = node[v] \/ node'[v] = Booted(node[v])
  BY DEF Begin, PoweredOn
<1> QED BY <1>1, <1>2, NodeOpsData

\* There is nothing to begin with.
LEMMA InitIdentity == Init => IdentityInv
<1> SUFFICES ASSUME Init PROVE IdentityInv
  OBVIOUS
<1>1. \A v \in Offset : node[v].cl = 0
  BY DEF Init, GuestsInit, Absent
<1>2. \A c \in Id : Listed(clu[c])
  BY DEF Init, GuestsInit, NewCluster, Listed
<1>3. DOMAIN s3 = {}
  BY DEF Init
<1>4. ids = 0
  BY DEF Init, GuestsInit
<1> QED BY <1>1, <1>2, <1>3, <1>4 DEF IdentityInv

\* Every call keeps to the identities there are.
LEMMA StepIdentity == ASSUME TypeInv, IdentityInv, Step PROVE IdentityInv'
<1> USE DEF TypeInv, TypeOK
<1>0. /\ ids \in 0..MaxId /\ MaxId \in Nat
      /\ \A c \in Id : clu[c] \in ClusterState
  BY MaxIdAssumption DEF GuestsTyped
<1>r. Reset => s3[cli.snap].ca \in 1..ids /\ Listed(s3[cli.snap])
  BY DEF Reset, At, InHand, IdentityInv
<1>1. ids' = ids /\ \A v \in Offset : node'[v].cl <= ids
  <2>1. CallEffect
    BY CallNodes
  <2>2. node'[cli.cur].cl <= ids
    BY <1>0, <1>r, <2>1 DEF CallEffect, IdentityInv
  <2> QED BY <2>1, <2>2 DEF CallEffect, IdentityInv
<1>2. \A c \in Id : Listed(clu'[c])
  <2> SUFFICES ASSUME NEW c \in Id PROVE Listed(clu'[c])
    OBVIOUS
  <2>1. CASE Reset /\ c = s3[cli.snap].ca /\ clu'[c] = Restored(s3[cli.snap], cli.cur)
    BY <1>r, <2>1 DEF Restored, Listed
  <2> QED BY <2>1, CallClusters DEF Kept, IdentityInv
<1>3. \A i \in DOMAIN s3' : s3'[i].ca \in 1..ids /\ Listed(s3'[i])
  <2>1. CASE s3' = s3
    BY <2>1 DEF IdentityInv
  <2>2. CASE ApiAt(M1) /\ s3' = Append(s3, Taken(node[M1].cl))
    <3> DEFINE c == node[M1].cl
    <3>1. c \in 1..ids
      BY <1>0, <2>2, LayoutFacts DEF ApiAt, IdentityInv, GuestsTyped, NodeState
    <3>2. c \in Id
      BY <1>0, <3>1 DEF Id
    <3>3. Taken(c).ca \in 1..ids /\ Listed(Taken(c))
      BY <3>1, <3>2 DEF Taken, Listed, IdentityInv
    <3>4. \A i \in DOMAIN s3' : \/ i \in DOMAIN s3 /\ s3'[i] = s3[i]
                               \/ s3'[i] = Taken(c)
      BY <2>2 DEF FilesTyped
    <3> QED BY <3>3, <3>4 DEF IdentityInv
  <2> QED BY <2>1, <2>2, CallSnapshots
<1> QED BY <1>1, <1>2, <1>3 DEF IdentityInv

\* So do the units: nobody joins a cluster that nobody serves.
LEMMA GuestIdentity ==
  ASSUME GuestsTyped, IdentityInv, GuestStep \/ GuestFault
  PROVE  IdentityInv'
<1>0. ids \in Nat /\ s3' = s3
  BY MaxIdAssumption DEF GuestsTyped, GuestStep, GuestFault, files
<1>1. ids' \in {ids, ids + 1}
  BY DEF GuestStep, GuestFault, Progress, Bootstrap, Join, Register, Heartbeat, LeaseExpires,
         PowerLoss, Flap
<1>2. ASSUME NEW v \in Offset PROVE node'[v].cl <= ids'
  <2>1. node[v].cl <= ids /\ node[v].cl \in Int
    BY MaxIdAssumption DEF IdentityInv, GuestsTyped, NodeState
  <2>2. ASSUME NEW c \in Id, Join(v, c) PROVE c <= ids
    <3>1. Quorum(c)
      BY <2>2 DEF Join, CanJoin, VipServes
    <3>2. PICK u \in clu[c].members : Serves(u, c)
      BY <3>1, QuorumServes
    <3> QED BY <3>2 DEF Serves, IdentityInv, GuestsTyped, ClusterState
  <2>3. \A c \in Id : c \in Int
    BY DEF Id
  <2> QED BY <1>0, <1>1, <2>1, <2>2, <2>3, GuestNodes
<1>3. \A c \in Id : Listed(clu'[c])
  BY GuestClusters DEF IdentityInv, Kept, New
<1>4. \A i \in DOMAIN s3' : s3'[i].ca \in 1..ids' /\ Listed(s3'[i])
  BY <1>0, <1>1 DEF IdentityInv
<1> QED BY <1>2, <1>3, <1>4 DEF IdentityInv

\* And everything else leaves them alone.
LEMMA NextIdentity == Inv /\ IdentityInv /\ [Next]_vars => IdentityInv'
<1> SUFFICES ASSUME Inv, IdentityInv, [Next]_vars PROVE IdentityInv'
  OBVIOUS
<1> USE DEF Inv, TypeInv, TypeOK
<1>1. ASSUME NEW c, NEW a, NEW k, Begin(c, a, k) PROVE IdentityInv'
  <2>1. UNCHANGED <<clu, ids, s3>> /\ \A v \in Offset : node'[v].cl = node[v].cl
    BY <1>1, BeginNodes DEF Begin, files
  <2> QED BY <2>1 DEF IdentityInv
<1>2. CASE Step
  BY <1>2, StepIdentity
<1>3. CASE GuestStep \/ GuestFault
  BY <1>3, GuestIdentity
<1>4. CASE Interrupt \/ TooSlow \/ UNCHANGED vars
  BY <1>4 DEF Interrupt, TooSlow, vars, gvars, files, IdentityInv
<1> QED BY <1>1, <1>2, <1>3, <1>4 DEF Next, Invoke

(************************** The nodes m1 has seen **************************)
\* Once it has been seen Ready, a node that is asked for stays listed until the
\* baseline is set: nothing in the loops of an update takes it out again.
UpdateLoops == {"slaves", "demote", "workers", "extras"}
Exports == {"kubeconfig", "export", "write"}
Api1 == clu[node[M1].cl].reg
Dealt(wanted) == wanted \ (cli.left \cup (IF At("next") THEN {} ELSE {cli.cur}))
MasterListed  == node[M1].cl # 0 /\ M1 \in Api1
NodesListed ==
  /\ cli.phase \in UpdateLoops \/ At("stamp") => MasterListed
  /\ cli.phase = "update" /\ cli.pc \in Exports => MasterListed
  /\ cli.phase = "slaves" => Dealt(Slaves(cli.cfg)) \subseteq Api1
  /\ cli.phase \in {"demote", "workers", "extras"} \/ At("stamp") =>
       Slaves(cli.cfg) \subseteq Api1
  /\ cli.phase = "workers" => Dealt(WorkersOf(cli.cfg)) \subseteq Api1
  /\ cli.phase = "extras" \/ At("stamp") => WorkersOf(cli.cfg) \subseteq Api1

\* And what is not asked for is gone when the baseline is set.
ToGo == cli.left \cup (IF Removing THEN {cli.cur} ELSE {})
NothingElse ==
  /\ cli.phase \in UpdateLoops => Vms \subseteq cli.seen \cup Target(cli.cfg)
  /\ cli.phase = "demote" => Vms \cap {2, 3} \subseteq Slaves(cli.cfg) \cup ToGo
  /\ cli.phase \in {"workers", "extras"} => Vms \cap {2, 3} \subseteq Slaves(cli.cfg)
  /\ cli.phase = "extras" => {v \in Vms : v > LastWorker(cli.cfg)} \subseteq ToGo
  /\ At("stamp") => Vms \ Protected = Target(cli.cfg)

StampInv == NodesListed /\ NothingElse

\* Nothing is asked of a command line that is not in the loops of an update.
LEMMA NotUpdating ==
  ASSUME cli'.phase \notin UpdateLoops, cli'.pc # "stamp",
         cli'.phase = "update" => cli'.pc \notin Exports
  PROVE  StampInv'
  BY DEF StampInv, NodesListed, NothingElse, UpdateLoops, At

\* A node that k3s_check finds Ready is listed.
LEMMA ReadyIsListed ==
  ASSUME TypeInv, IdentityInv, NEW v \in Offset, SeesReady(v)
  PROVE  node[M1].cl # 0 /\ v \in Api1
<1>1. node[M1].cl \in Id
  BY LayoutFacts, MaxIdAssumption
     DEF SeesReady, ApiAt, TypeInv, TypeOK, GuestsTyped, NodeState, Id
<1> QED BY <1>1 DEF SeesReady, ApiAt, IdentityInv, Listed, Api1

\* In the loops of an update nothing happens to m1's data, and to m1's list only
\* that a node which is no longer asked for is deleted.
LEMMA UpdateKeepsApi ==
  ASSUME TypeInv, PlanInv, ControlInv, Step, node[M1].cl # 0,
         cli.phase \in UpdateLoops \cup {"update"}
  PROVE  /\ node'[M1].cl = node[M1].cl
         /\ \A v \in Api1 : v \in Api1' \/ (DelNode /\ v = cli.cur)
<1> USE DEF TypeInv, TypeOK, At
<1>1. ~Reset /\ ~Wipe /\ ~Unconfig
  BY DEF ControlInv, CallOf, PlanInv, CallFits, Reset, Wipe, Unconfig, UpdateLoops
<1>2. Clone \/ Destroy => cli.cur # M1
  <2>1. cli.cfg \in Configs
    BY InisAssumption DEF CliTyped, CliState
  <2>2. CASE Clone
    <3>1. cli.phase \in {"slaves", "workers"}
      BY <2>2 DEF Clone, PlanInv, CallFits, UpdateLoops
    <3>2. cli.cur \in Slaves(cli.cfg) \cup WorkersOf(cli.cfg)
      BY <2>2, <3>1 DEF Clone, PlanInv, BuildOrder, Added
    <3> QED BY <2>1, <3>2 DEF Slaves, WorkersOf, LastWorker, M1, Configs
  <2>3. CASE Destroy
    <3>1. cli.phase \in {"demote", "extras"}
      BY <2>3 DEF Destroy, Removing, PlanInv, CallFits, UpdateLoops
    <3>2. cli.cur \in Surplus(cli.phase)
      BY <2>3, <3>1 DEF Destroy, PlanInv, SurplusOnly
    <3> QED BY <2>1, <3>1, <3>2 DEF Surplus, LastWorker, M1, Configs
  <2> QED BY <2>2, <2>3
<1>3. node'[M1].cl = node[M1].cl
  <2>1. CallEffect
    BY CallNodes
  <2> QED BY <1>1, <1>2, <2>1, LayoutFacts DEF CallEffect
<1>4. node[M1].cl \in Id
  BY LayoutFacts, MaxIdAssumption DEF GuestsTyped, NodeState, Id
<1> QED BY <1>1, <1>3, <1>4, CallClusters DEF Kept, Api1

\* The guests do nothing to either.
LEMMA GuestsKeepApi ==
  ASSUME GuestsTyped, IdentityInv, GuestStep \/ GuestFault, node[M1].cl # 0
  PROVE  node'[M1].cl = node[M1].cl /\ Api1 \subseteq Api1'
<1>1. node[M1].cl \in Id /\ ids \in Nat /\ M1 \in Offset
  BY LayoutFacts, MaxIdAssumption DEF GuestsTyped, NodeState, Id
<1>2. node'[M1].cl = node[M1].cl
  BY <1>1, GuestNodes DEF Bootstrap, CanBootstrap, Join, CanJoin
<1>3. node[M1].cl # ids + 1
  BY <1>1 DEF IdentityInv, Id
<1> QED BY <1>1, <1>2, <1>3, GuestClusters DEF Kept, New, Api1

\* The next node of a loop is one that was to be dealt with.
LEMMA PickStamp ==
  ASSUME TypeInv, ControlInv, StampInv, NEW v \in Offset, Pick(v)
  PROVE  StampInv'
<1> USE DEF TypeInv, TypeOK, At
<1>1. /\ At("next") /\ v \in cli.left
      /\ cli' = [cli EXCEPT !.pc = Body(v), !.cur = v, !.left = @ \ {v}]
      /\ UNCHANGED <<node, clu>>
  BY DEF Pick, gvars
<1>2. /\ cli'.pc = Body(v) /\ cli'.cur = v /\ cli'.left = cli.left \ {v}
      /\ cli'.phase = cli.phase /\ cli'.cfg = cli.cfg /\ cli'.seen = cli.seen
  BY <1>1 DEF CliTyped, CliState
<1>3. /\ Body(v) \notin {"next", "stamp"} \cup Exports
      /\ cli.phase \in {"demote", "extras"} => Body(v) = "cordon"
  BY DEF Body, Exports
<1>4. MasterListed' = MasterListed /\ Api1' = Api1 /\ Vms' = Vms
  BY <1>1 DEF MasterListed, Api1, Vms
<1>5. /\ ToGo' = ToGo \/ cli.phase \notin {"demote", "extras"}
      /\ \A w \in {Slaves(cli.cfg), WorkersOf(cli.cfg)} : Dealt(w)' = Dealt(w)
  BY <1>1, <1>2, <1>3 DEF ToGo, Removing, Dealt
<1>6. NodesListed'
  BY <1>1, <1>2, <1>3, <1>4, <1>5 DEF StampInv, NodesListed
<1>7. NothingElse'
  BY <1>1, <1>2, <1>3, <1>4, <1>5 DEF StampInv, NothingElse
<1> QED BY <1>6, <1>7 DEF StampInv

\* A loop leaves nothing behind that the next one relies on being done.
LEMMA LoopEndsStamp ==
  ASSUME TypeInv, PlanInv, StampInv, LoopEnds
  PROVE  StampInv'
<1> USE LayoutFacts DEF Phases, Pcs, At
<1>1. /\ At("next") /\ cli.phase \in Loops /\ cli.cur \in Offset /\ CliTyped
      /\ cli.left = {} /\ UNCHANGED <<node, clu>> /\ cli.cfg \in Configs
      /\ Demoted \subseteq Offset /\ WorkersOf(cli.cfg) \subseteq Offset
      /\ Extras \subseteq Offset
  BY InisAssumption DEF LoopEnds, gvars, TypeInv, TypeOK, InHand, CliTyped, CliState,
     Demoted, Extras
<1>2. /\ Api1' = Api1 /\ Vms' = Vms /\ MasterListed' = MasterListed /\ ToGo = {}
  BY <1>1 DEF Api1, Vms, MasterListed, ToGo, Removing
<1>3. CASE cli.phase \in {"rm", "purge"}
  <2>1. \/ cli'.phase = "none" /\ cli'.pc = "idle"
        \/ cli'.phase = "restore" /\ cli'.pc = "clone"
        \/ cli'.phase = "update" /\ cli'.pc = "check"
    <3>1. \/ Finish(TRUE) \/ Enter("restore", "clone", M1, {})
          \/ Enter("update", "check", M1, {})
      BY <1>3 DEF LoopEnds
    <3>2. CASE Finish(TRUE)
      BY <3>2, EndsIdle
    <3>3. CASE Enter("restore", "clone", M1, {})
      BY <1>1, <3>3, EnterTyped
    <3>4. CASE Enter("update", "check", M1, {})
      BY <1>1, <3>4, EnterTyped
    <3> QED BY <3>1, <3>2, <3>3, <3>4
  <2> QED BY <2>1, NotUpdating DEF UpdateLoops, Exports
<1>4. CASE cli.phase = "slaves"
  <2>1. Enter("demote", "next", cli.cur, Demoted)
    BY <1>4 DEF LoopEnds
  <2>2. /\ cli'.phase = "demote" /\ cli'.pc = "next" /\ cli'.left = Demoted
        /\ cli'.cfg = cli.cfg /\ cli'.seen = cli.seen
    BY <1>1, <2>1, EnterTyped
  <2>3. /\ MasterListed /\ Slaves(cli.cfg) \subseteq Api1
        /\ Vms \subseteq cli.seen \cup Target(cli.cfg)
    BY <1>1, <1>4 DEF StampInv, NodesListed, NothingElse, Dealt, UpdateLoops
  <2>4. Vms \cap {2, 3} \subseteq Slaves(cli.cfg) \cup Demoted
    BY <1>1, <2>3 DEF Demoted, Slaves, Target, WorkersOf, LastWorker, Configs, M1
  <2> QED BY <1>2, <2>2, <2>3, <2>4
          DEF StampInv, NodesListed, NothingElse, ToGo, UpdateLoops
<1>5. CASE cli.phase = "demote"
  <2>1. Enter("workers", "next", cli.cur, WorkersOf(cli.cfg))
    BY <1>5 DEF LoopEnds
  <2>2. /\ cli'.phase = "workers" /\ cli'.pc = "next" /\ cli'.left = WorkersOf(cli.cfg)
        /\ cli'.cfg = cli.cfg /\ cli'.seen = cli.seen
    BY <1>1, <2>1, EnterTyped
  <2>3. /\ MasterListed /\ Slaves(cli.cfg) \subseteq Api1
        /\ Vms \subseteq cli.seen \cup Target(cli.cfg)
        /\ Vms \cap {2, 3} \subseteq Slaves(cli.cfg)
    BY <1>2, <1>5 DEF StampInv, NodesListed, NothingElse, UpdateLoops
  <2>4. Dealt(WorkersOf(cli.cfg))' = {}
    BY <2>2 DEF Dealt
  <2> QED BY <1>2, <2>2, <2>3, <2>4 DEF StampInv, NodesListed, NothingElse, UpdateLoops
<1>6. CASE cli.phase = "workers"
  <2>1. Enter("extras", "next", cli.cur, Extras)
    BY <1>6 DEF LoopEnds
  <2>2. /\ cli'.phase = "extras" /\ cli'.pc = "next" /\ cli'.left = Extras
        /\ cli'.cfg = cli.cfg /\ cli'.seen = cli.seen
    BY <1>1, <2>1, EnterTyped
  <2>3. /\ MasterListed /\ Slaves(cli.cfg) \subseteq Api1
        /\ WorkersOf(cli.cfg) \subseteq Api1
        /\ Vms \subseteq cli.seen \cup Target(cli.cfg)
        /\ Vms \cap {2, 3} \subseteq Slaves(cli.cfg)
    BY <1>1, <1>6 DEF StampInv, NodesListed, NothingElse, Dealt, UpdateLoops
  <2>4. {v \in Vms : v > LastWorker(cli.cfg)} \subseteq Extras
    BY <1>1, <2>3 DEF Extras, Target, Slaves, WorkersOf, LastWorker, Configs, M1
  <2> QED BY <1>2, <2>2, <2>3, <2>4
          DEF StampInv, NodesListed, NothingElse, ToGo, UpdateLoops
<1>7. CASE cli.phase = "extras"
  <2>1. Enter("update", "stamp", M1, {})
    BY <1>7 DEF LoopEnds
  <2>2. cli'.phase = "update" /\ cli'.pc = "stamp" /\ cli'.cfg = cli.cfg
    BY <1>1, <2>1, EnterTyped
  <2>3. /\ MasterListed /\ Slaves(cli.cfg) \subseteq Api1
        /\ WorkersOf(cli.cfg) \subseteq Api1
        /\ Vms \cap {2, 3} \subseteq Slaves(cli.cfg)
        /\ {v \in Vms : v > LastWorker(cli.cfg)} = {}
    BY <1>2, <1>7 DEF StampInv, NodesListed, NothingElse, UpdateLoops
  <2>4. Target(cli.cfg) \subseteq Vms
    BY <1>7 DEF PlanInv, BuildOrder, Target
  <2>5. Vms \ Protected = Target(cli.cfg)
    <3>1. Vms \ Protected \subseteq Target(cli.cfg)
      <4> SUFFICES ASSUME NEW v \in Vms, v \notin Protected PROVE v \in Target(cli.cfg)
        OBVIOUS
      <4>1. v \in 0..9 /\ v # 0 /\ v # 4 /\ ~(v > LastWorker(cli.cfg))
            /\ (v \in {2, 3} => v \in Slaves(cli.cfg))
        BY <2>3, LayoutAssumption DEF Vms, Offset, Protected, Image, Utility
      <4>2. LastWorker(cli.cfg) \in 4..9
        BY <1>1, LayoutAssumption DEF LastWorker, Configs
      <4> QED BY <4>1, <4>2 DEF Target, WorkersOf, M1
    <3> QED BY <1>1, <2>4, <3>1
  <2> QED BY <1>2, <2>2, <2>3, <2>5
          DEF StampInv, NodesListed, NothingElse, UpdateLoops, Exports
<1> QED BY <1>1, <1>3, <1>4, <1>5, <1>6, <1>7 DEF Loops

\* A call that moves on within a loop, and neither adds nor removes a VM nor
\* deletes a node, leaves the loop where it was.
LEMMA MoveStamp ==
  ASSUME TypeInv, PlanInv, ControlInv, IdentityInv, StampInv, Step,
         ~At("next"), ~At("stamp"),
         NEW p, p \notin {"next", "stamp"}, Goto(p),
         p = "kubeconfig" /\ cli.phase = "update" => SeesReady(M1),
         p \in {"export", "write"} => cli.pc \in Exports,
         cli.phase \in {"demote", "extras"} => (Removing <=> Removing')
  PROVE  StampInv'
<1> USE DEF TypeInv, TypeOK
<1>1. /\ cli'.pc = p /\ cli'.cur = cli.cur /\ cli'.left = cli.left
      /\ cli'.phase = cli.phase /\ cli'.cfg = cli.cfg /\ cli'.seen = cli.seen
  BY GotoKeeps
<1>2. cli.cfg \in Configs
  BY InisAssumption DEF CliTyped, CliState
<1>3. CASE cli.phase = "update"
  <2>1. p \in Exports => MasterListed
    <3>1. p = "kubeconfig" => MasterListed
      BY <1>3, ReadyIsListed, LayoutFacts DEF MasterListed
    <3> QED BY <1>3, <3>1 DEF Exports, StampInv, NodesListed
  <2>2. p \in Exports => MasterListed'
    <3>1. ~DelNode
      BY <1>3 DEF DelNode, At, PlanInv, CallFits, Removing
    <3> QED BY <1>3, <2>1, <3>1, UpdateKeepsApi DEF MasterListed
  <2> QED BY <1>1, <1>3, <2>2 DEF StampInv, NodesListed, NothingElse, UpdateLoops, At
<1>4. CASE cli.phase \in UpdateLoops
  <2>1. /\ MasterListed /\ node'[M1].cl = node[M1].cl
        /\ \A v \in Api1 : v \in Api1' \/ (DelNode /\ v = cli.cur)
    BY <1>4, UpdateKeepsApi DEF StampInv, NodesListed, MasterListed
  <2>2. DelNode => cli.phase \in {"demote", "extras"} /\ cli.cur \in Surplus(cli.phase)
    BY <1>4 DEF DelNode, At, PlanInv, CallFits, SurplusOnly, Removing, UpdateLoops
  <2>3. \A v \in {M1} \cup Slaves(cli.cfg) : v \in Api1 => v \in Api1'
    BY <1>2, <2>1, <2>2 DEF Surplus, Slaves, LastWorker, Configs, M1
  <2>4. cli.phase # "demote" => \A v \in WorkersOf(cli.cfg) : v \in Api1 => v \in Api1'
    BY <1>2, <2>1, <2>2 DEF Surplus, WorkersOf, LastWorker, Configs
  <2>5. NodesListed'
    BY <1>1, <1>4, <2>1, <2>3, <2>4
       DEF StampInv, NodesListed, MasterListed, Dealt, UpdateLoops, At
  <2>6. \/ Vms' = Vms
        \/ Clone /\ Vms' = Vms \cup {cli.cur}
        \/ Destroy /\ Vms' = Vms \ {cli.cur}
    BY CallsKeepVms, VmsChange DEF PlanInv
  <2>7. Clone => /\ cli.phase \in {"slaves", "workers"} /\ cli.cur \in Target(cli.cfg)
                 /\ cli.phase = "workers" => cli.cur \notin {2, 3}
    <3> SUFFICES ASSUME Clone
                 PROVE /\ cli.phase \in {"slaves", "workers"} /\ cli.cur \in Target(cli.cfg)
                       /\ cli.phase = "workers" => cli.cur \notin {2, 3}
      OBVIOUS
    <3>1. cli.phase \in {"slaves", "workers"}
      BY <1>4 DEF Clone, At, PlanInv, CallFits, UpdateLoops
    <3>2. /\ cli.phase = "slaves" => cli.cur \in Slaves(cli.cfg)
          /\ cli.phase = "workers" => cli.cur \in WorkersOf(cli.cfg)
      BY <3>1 DEF Clone, At, PlanInv, BuildOrder, Added
    <3> QED BY <1>2, <3>1, <3>2 DEF Target, WorkersOf
  <2>8. cli.phase \in {"demote", "extras"} => ToGo' = ToGo
    BY <1>1 DEF ToGo, Removing
  <2>9. ~Destroy
    <3> SUFFICES ASSUME Destroy PROVE FALSE
      OBVIOUS
    <3>1. Goto("next")
      BY <1>4 DEF Destroy, Return, UpdateLoops
    <3> QED BY <1>1, <3>1, GotoKeeps
  <2>10. NothingElse'
    BY <1>1, <1>4, <2>6, <2>7, <2>8, <2>9 DEF StampInv, NothingElse, UpdateLoops, At
  <2> QED BY <2>5, <2>10 DEF StampInv
<1>5. CASE cli.phase \notin UpdateLoops \cup {"update"}
  BY <1>1, <1>5, NotUpdating
<1> QED BY <1>3, <1>4, <1>5

\* A node that the loop is done with: it has been seen Ready, or it is gone.
LEMMA DoneStamp ==
  ASSUME TypeInv, PlanInv, ControlInv, IdentityInv, StampInv, Step, ~At("next"),
         cli.phase \in UpdateLoops, Goto("next"),
         cli.phase \in {"slaves", "workers"} => cli.cur \in Api1 /\ Vms' = Vms /\ ~DelNode,
         cli.phase \in {"demote", "extras"} => Vms' = Vms \ {cli.cur} /\ ~DelNode
  PROVE  StampInv'
<1> USE DEF TypeInv, TypeOK
<1>1. /\ cli'.pc = "next" /\ cli'.cur = cli.cur /\ cli'.left = cli.left
      /\ cli'.phase = cli.phase /\ cli'.cfg = cli.cfg /\ cli'.seen = cli.seen
  BY GotoKeeps
<1>2. MasterListed' /\ Api1 \subseteq Api1'
  BY UpdateKeepsApi DEF StampInv, NodesListed, MasterListed, UpdateLoops
<1>3. NodesListed'
  BY <1>1, <1>2 DEF StampInv, NodesListed, Dealt, UpdateLoops, At
<1>4. NothingElse'
  <2>1. ~Removing' /\ ToGo' = cli.left
    BY <1>1 DEF ToGo, Removing
  <2>2. cli.phase \in {"demote", "extras"} => ToGo \subseteq ToGo' \cup {cli.cur}
    BY <2>1 DEF ToGo
  <2> QED BY <1>1, <2>1, <2>2 DEF StampInv, NothingElse, UpdateLoops, At
<1> QED BY <1>3, <1>4 DEF StampInv

\* m1 is there and Ready: the loops begin.
LEMMA LoopsBegin ==
  ASSUME TypeInv, cli.phase = "update", Return, MasterListed', UNCHANGED node
  PROVE  StampInv'
<1> USE DEF TypeInv, TypeOK
<1>1. cli' = [cli EXCEPT !.phase = "slaves", !.pc = "next", !.seen = Vms,
                         !.left = Slaves(cli.cfg)]
  BY DEF Return
<1>2. /\ cli'.phase = "slaves" /\ cli'.pc = "next" /\ cli'.seen = Vms
      /\ cli'.left = Slaves(cli.cfg) /\ cli'.cfg = cli.cfg
  BY <1>1 DEF CliTyped, CliState
<1>3. Vms' = Vms /\ Dealt(Slaves(cli.cfg))' = {}
  BY <1>2 DEF Vms, Dealt
<1> QED BY <1>2, <1>3 DEF StampInv, NodesListed, NothingElse, UpdateLoops, At

\* From a procedure to the one after it.
LEMMA ReturnStamp ==
  ASSUME TypeInv, PlanInv, ControlInv, IdentityInv, StampInv, Step,
         ~At("idle"), ~At("next"), ~DelNode, Return,
         cli.phase = "update" => MasterListed' /\ UNCHANGED node,
         cli.phase \in {"slaves", "workers"} => cli.cur \in Api1 /\ Vms' = Vms,
         cli.phase \in {"demote", "extras"} => Vms' = Vms \ {cli.cur}
  PROVE  StampInv'
<1> USE LayoutFacts DEF Phases, Pcs, TypeInv, TypeOK
<1>0. cli.phase \in Phases \ {"none"}
  BY DEF InHand, CliTyped, CliState
<1>1. CASE cli.phase = "create"
  <2>1. Enter("update", "check", M1, {})
    BY <1>1 DEF Return
  <2>2. cli'.phase = "update" /\ cli'.pc = "check"
    BY <2>1, EnterTyped
  <2> QED BY <2>2, NotUpdating DEF UpdateLoops, Exports
<1>2. CASE cli.phase = "restore"
  <2>1. Enter("purge", "purge", M1, {})
    BY <1>2 DEF Return
  <2>2. cli'.phase = "purge" /\ cli'.pc = "purge"
    BY <2>1, EnterTyped
  <2> QED BY <2>2, NotUpdating DEF UpdateLoops
<1>3. CASE cli.phase = "update"
  BY <1>3, LoopsBegin
<1>4. CASE cli.phase = "node"
  <2>1. cli'.phase = "none" /\ cli'.pc = "idle"
    BY <1>4, EndsIdle DEF Return
  <2> QED BY <2>1, NotUpdating DEF UpdateLoops
<1>5. CASE cli.phase \in {"rm", "purge"}
  <2>1. Goto("next")
    BY <1>5 DEF Return
  <2>2. cli'.phase = cli.phase /\ cli'.pc = "next"
    BY <2>1, GotoKeeps
  <2> QED BY <1>5, <2>2, NotUpdating DEF UpdateLoops
<1>6. CASE cli.phase \in UpdateLoops
  <2>1. Goto("next")
    BY <1>6 DEF Return, UpdateLoops
  <2> QED BY <1>6, <2>1, DoneStamp
<1> QED BY <1>0, <1>1, <1>2, <1>3, <1>4, <1>5, <1>6 DEF UpdateLoops

\* Every call keeps m1's list of what has been seen Ready.
LEMMA StepStamp ==
  ASSUME TypeInv, PlanInv, ControlInv, IdentityInv, StampInv, Step
  PROVE  StampInv'
<1> USE DEF TypeInv, TypeOK, At
<1>c. CliTyped /\ InHand /\ CallOf(cli.pc) /\ Commanded /\ CallFits /\ cli.cur \in Offset
  BY DEF ControlInv, PlanInv, CliTyped, CliState
<1>f. (\E ok \in BOOLEAN : Finish(ok)) => StampInv'
  BY EndsIdle, NotUpdating DEF UpdateLoops
<1>1. CASE Refuse \/ TimedOut \/ Info \/ SaveSnapshot \/ NoAnswer \/ NoInternet
  BY <1>1, <1>f DEF Refuse, TimedOut, Info, SaveSnapshot, NoAnswer, NoInternet
<1>2. CASE \E v \in Offset : Pick(v)
  BY <1>2, PickStamp
<1>3. CASE LoopEnds
  BY <1>3, LoopEndsStamp
<1>4. CASE Clone \/ Start \/ Prepare \/ CheckNotReady \/ K3sJoin
  <2>1. \E p \in {"start", "prepare", "info", "check", "refuse", "join", "wait"} : Goto(p)
    BY <1>4 DEF Clone, Start, Prepare, CheckNotReady, K3sJoin
  <2>2. cli.phase \notin {"demote", "extras"}
    <3>1. cli.pc \in {"clone", "start", "prepare", "check", "join"}
      BY <1>4 DEF Clone, Start, Prepare, CheckNotReady, K3sJoin
    <3> QED BY <1>c, <3>1 DEF CallOf, Commanded
  <2>3. ~At("next") /\ ~At("stamp")
    BY <1>4 DEF Clone, Start, Prepare, CheckNotReady, K3sJoin
  <2> QED BY <2>1, <2>2, <2>3, MoveStamp
<1>5. CASE (CheckReady \/ WaitReady) /\ Return
  <2>1. SeesReady(cli.cur) /\ UNCHANGED <<node, clu>> /\ cli.pc \in {"check", "wait", "rewait"}
    BY <1>5 DEF CheckReady, WaitReady, gvars
  <2>2. cli.phase \notin {"demote", "extras"}
    BY <1>c, <2>1 DEF CallOf, Commanded
  <2>3. cli.cur \in Api1 /\ Vms' = Vms /\ node[M1].cl # 0
    BY <1>c, <2>1, ReadyIsListed DEF Vms
  <2>4. cli.phase = "update" => MasterListed'
    BY <1>c, <2>1, <2>3 DEF CallFits, MasterListed, Api1
  <2>5. ~At("idle") /\ ~At("next") /\ ~DelNode
    BY <2>1 DEF DelNode
  <2> QED BY <1>5, <2>1, <2>2, <2>3, <2>4, <2>5, ReturnStamp
<1>6. CASE WaitReady /\ ~Return
  <2>1. /\ SeesReady(cli.cur) /\ cli.pc \in {"wait", "rewait"}
        /\ \E p \in {"kubeconfig", "list"} : Goto(p)
    BY <1>6 DEF WaitReady, AfterWait
  <2>2. cli.phase \notin {"demote", "extras"}
    BY <1>c, <2>1 DEF CallOf, Commanded
  <2>3. cli.phase = "update" => SeesReady(M1)
    BY <1>c, <2>1 DEF CallFits
  <2> QED BY <2>1, <2>2, <2>3, MoveStamp
<1>7. CASE ListSnapshots \/ Purge
  <2>1. cli.phase \in {"restore", "purge"}
    BY <1>c, <1>7 DEF ListSnapshots, Purge, CallOf, InHand
  <2>2. cli'.phase = cli.phase /\ cli'.pc \in {"wipe", "refuse", "next"}
    BY <1>c, <1>7 DEF ListSnapshots, Purge, CliTyped, CliState
  <2> QED BY <2>1, <2>2, NotUpdating DEF UpdateLoops
<1>8. CASE Wipe \/ Reset \/ Manifest \/ Kubeconfig
  <2>1. \E p \in {"reset", "manifest", "refuse", "rewait", "export"} :
          Goto(p) /\ (p = "export" => At("kubeconfig"))
    BY <1>8 DEF Wipe, Reset, Manifest, Kubeconfig
  <2>2. cli.pc \in {"wipe", "reset", "manifest", "kubeconfig"}
    BY <1>8 DEF Wipe, Reset, Manifest, Kubeconfig
  <2>3. cli.phase \notin {"demote", "extras"}
    BY <1>c, <2>2 DEF CallOf, Commanded
  <2> QED BY <2>1, <2>2, <2>3, MoveStamp DEF Exports
<1>9. CASE ExportToken \/ WriteToken
  <2>1. /\ cli.pc \in {"export", "write"} /\ UNCHANGED <<node, clu>>
        /\ Return \/ Goto("write") \/ Finish(FALSE)
    BY <1>9 DEF ExportToken, WriteToken, gvars
  <2>2. cli.phase \notin UpdateLoops
    BY <1>c, <2>1 DEF CallOf, Commanded, UpdateLoops
  <2>3. CASE Return
    <3>1. cli.phase = "update" => MasterListed'
      BY <2>1 DEF StampInv, NodesListed, MasterListed, Api1, Exports
    <3>2. ~At("idle") /\ ~At("next") /\ ~DelNode
      BY <2>1 DEF DelNode
    <3> QED BY <2>1, <2>2, <2>3, <3>1, <3>2, ReturnStamp DEF UpdateLoops
  <2>4. CASE Goto("write")
    BY <2>1, <2>2, <2>4, MoveStamp DEF Exports, UpdateLoops
  <2> QED BY <1>f, <2>1, <2>3, <2>4
<1>10. CASE Cordon \/ DelNode \/ (DelSecret /\ ~Return)
  <2>1. /\ cli.pc \in {"cordon", "delnode", "delsecret"}
        /\ \E p \in {"delnode", "delsecret", "destroy"} : Goto(p)
    BY <1>10 DEF Cordon, DelNode, DelSecret, AfterSecret
  <2>2. PICK p \in {"delnode", "delsecret", "destroy"} : Goto(p)
    BY <2>1
  <2>3. Removing /\ Removing'
    BY <1>c, <2>1, <2>2, GotoKeeps DEF Removing
  <2> QED BY <2>1, <2>2, <2>3, MoveStamp
<1>11. CASE DelSecret /\ Return
  <2>1. Removing /\ At("delsecret") /\ ~DelNode
    BY <1>11 DEF DelSecret, Removing, DelNode
  <2>2. cli.phase \in {"purge", "node"}
    <3>1. CASE AfterSecret /\ Goto("destroy")
      <4>1. cli'.pc = "destroy"
        BY <1>c, <3>1, GotoKeeps
      <4>2. cli'.pc \in {"check", "purge", "next", "idle"}
        BY <1>c, <1>11, <2>1, ReturnTyped
      <4> QED BY <4>1, <4>2
    <3>2. CASE ~Goto("destroy")
      BY <1>c, <1>11, <3>2 DEF DelSecret, AfterSecret, CallFits
    <3> QED BY <1>11, <3>1, <3>2 DEF DelSecret
  <2> QED BY <1>11, <2>1, <2>2, ReturnStamp
<1>12. CASE Destroy
  <2>1. Removing /\ ~DelNode /\ At("destroy") /\ Return
    BY <1>12 DEF Destroy, Removing, DelNode
  <2>2. cli.phase \in {"rm", "demote", "extras", "purge", "node"}
    BY <1>c, <2>1 DEF CallFits
  <2> QED BY <1>12, <2>1, <2>2, VmsChange, ReturnStamp
<1>13. CASE Stamp
  <2>1. Goto("info") /\ cli.phase = "update"
    BY <1>c, <1>13 DEF Stamp, CallOf
  <2>2. cli'.phase = "update" /\ cli'.pc = "info"
    BY <1>c, <2>1, GotoKeeps
  <2> QED BY <2>2, NotUpdating DEF UpdateLoops, Exports
<1>14. CASE Kill \/ Unconfig
  <2>1. /\ cli.phase = "node"
        /\ (\E ok \in BOOLEAN : Finish(ok)) \/ (\E p \in {"unconfig", "delnode"} : Goto(p))
    BY <1>c, <1>14 DEF Kill, Unconfig, CallFits
  <2>2. CASE \E p \in {"unconfig", "delnode"} : Goto(p)
    <3>1. cli'.phase = "node" /\ cli'.pc \in {"unconfig", "delnode"}
      BY <1>c, <2>1, <2>2, GotoKeeps
    <3> QED BY <3>1, NotUpdating DEF UpdateLoops
  <2> QED BY <1>f, <2>1, <2>2
<1> QED
  BY <1>1, <1>2, <1>3, <1>4, <1>5, <1>6, <1>7, <1>8, <1>9, <1>10, <1>11, <1>12, <1>13, <1>14
     DEF Step, CheckReady

\* And so does everything else.
LEMMA NextStamp ==
  Inv /\ ControlInv /\ IdentityInv /\ StampInv /\ [Next]_vars => StampInv'
<1> SUFFICES ASSUME Inv, ControlInv, IdentityInv, StampInv, [Next]_vars PROVE StampInv'
  OBVIOUS
<1> USE DEF Inv, TypeInv, TypeOK
<1>1. ASSUME NEW c \in Commands, NEW a, NEW k \in Inis, Begin(c, a, k) PROVE StampInv'
  <2>1. cli'.phase = Entry(c, a)[1] /\ cli'.pc = Entry(c, a)[2]
    BY <1>1 DEF Begin
  <2>2. /\ cli'.phase \in {"create", "update", "rm", "node"} /\ cli'.pc # "stamp"
        /\ cli'.phase = "update" => cli'.pc = "check"
    BY <2>1, CommandsAssumption DEF Entry
  <2> QED BY <2>2, NotUpdating DEF UpdateLoops, Exports
<1>2. CASE Step
  BY <1>2, StepStamp
<1>3. CASE GuestStep \/ GuestFault
  <2>1. /\ cli'.pc = cli.pc /\ cli'.cur = cli.cur /\ cli'.left = cli.left
        /\ cli'.phase = cli.phase /\ cli'.cfg = cli.cfg /\ cli'.seen = cli.seen
    BY <1>3 DEF GuestStep, GuestFault, CliTyped, CliState
  <2>2. Vms' = Vms /\ ToGo' = ToGo
    BY <1>3, <2>1, GuestsKeepVms DEF ToGo, Removing
  <2>3. MasterListed => MasterListed' /\ Api1 \subseteq Api1'
    BY <1>3, GuestsKeepApi DEF MasterListed
  <2>4. \A w \in {Slaves(cli.cfg), WorkersOf(cli.cfg)} : Dealt(w)' = Dealt(w)
    BY <2>1 DEF Dealt, At
  <2>5. NodesListed'
    BY <2>1, <2>3, <2>4 DEF StampInv, NodesListed, UpdateLoops, At
  <2>6. NothingElse'
    BY <2>1, <2>2 DEF StampInv, NothingElse, At
  <2> QED BY <2>5, <2>6 DEF StampInv
<1>4. CASE Interrupt \/ TooSlow
  <2>1. cli'.phase = "none" /\ cli'.pc = "idle"
    BY <1>4, EndsIdle DEF Interrupt, TooSlow
  <2> QED BY <2>1, NotUpdating DEF UpdateLoops
<1>5. CASE UNCHANGED vars
  BY <1>5 DEF vars, StampInv, NodesListed, NothingElse, MasterListed, Dealt, ToGo, Removing,
     Api1, Vms, At
<1> QED BY <1>1, <1>2, <1>3, <1>4, <1>5 DEF Next, Invoke

\* Only the call that sets the baseline sets it.
LEMMA OnlyStampStamps ==
  ASSUME [Next]_vars, stamp' # stamp, stamp' # <<>>
  PROVE  Stamp
<1>1. ~Invoke /\ ~GuestStep /\ ~Interrupt /\ ~TooSlow /\ ~GuestFault /\ ~UNCHANGED vars
  BY DEF Invoke, Begin, GuestStep, Interrupt, TooSlow, GuestFault, files, vars
<1>2. Step
  BY <1>1 DEF Next
<1> QED
  BY <1>2
     DEF Step, Refuse, Pick, LoopEnds, Clone, Start, Prepare, CheckReady, CheckNotReady,
         K3sJoin, WaitReady, TimedOut, ListSnapshots, Wipe, Reset, Manifest, Purge, Kubeconfig,
         ExportToken, WriteToken, Cordon, DelNode, DelSecret, Destroy, Info, Kill, Unconfig,
         SaveSnapshot, NoAnswer, NoInternet, files

\* The invariant of every step a command can take.
BaseInv == Inv /\ ControlInv /\ IdentityInv

\* It holds in every reachable state.
LEMMA Base == Spec => []BaseInv
<1>1. Init => ControlInv
  BY DEF Init, Idle, ControlInv, CallOf, Commanded
<1>2. Init => BaseInv
  <2>1. Init => PlanInv
    BY DEF Init, Idle, PlanInv, CallFits, TeardownOrder, BuildOrder, SurplusOnly, Removing, At
  <2> QED BY <1>1, <2>1, InitTyped, InitIdentity DEF Inv, BaseInv
<1>3. BaseInv /\ [Next]_vars => BaseInv'
  BY NextTyped, NextFits, NextControl, NextIdentity DEF Inv, BaseInv
<1> QED BY <1>2, <1>3, PTL DEF Spec

\* kopsrox_k3s.py:279-281: whatever was cut short before and
\* whatever fails meanwhile, when the drift baseline is written the VMs are the
\* ones kopsrox.ini asks for and m1's API lists every one of them.
THEOREM StampTrue == Spec => StampIsTrue
<1> DEFINE Honest == stamp' # stamp /\ stamp' # <<>> => Registered
<1>1. Init => StampInv
  BY DEF Init, Idle, StampInv, NodesListed, NothingElse, UpdateLoops, At
<1>2. BaseInv /\ StampInv /\ [Next]_vars => StampInv'
  BY NextStamp DEF BaseInv
<1>3. BaseInv /\ StampInv /\ [Next]_vars => [Honest]_vars
  <2> SUFFICES ASSUME BaseInv, StampInv, [Next]_vars, stamp' # stamp, stamp' # <<>>
               PROVE  Registered
    OBVIOUS
  <2>1. At("stamp")
    BY OnlyStampStamps DEF Stamp
  <2>2. /\ MasterListed /\ Slaves(cli.cfg) \subseteq Api1 /\ WorkersOf(cli.cfg) \subseteq Api1
        /\ Vms \ Protected = Target(cli.cfg)
    BY <2>1 DEF StampInv, NodesListed, NothingElse
  <2> QED BY <2>2 DEF Registered, MasterListed, Target, Api1
<1> QED BY <1>1, <1>2, <1>3, Base, PTL DEF Spec, StampIsTrue

(******************************** A restore ********************************)
\* From the reset to its end a restore works on the snapshot it was asked for,
\* and until then it has nothing that could pass for it.
Recovered == cli.snap = Chosen /\ Chosen \in DOMAIN s3 /\ node[M1].cl = s3[Chosen].ca
AfterReset == \/ cli.phase \in {"purge", "update"} \cup UpdateLoops
              \/ cli.pc \in {"manifest", "rewait"} \cup Exports
RestoreInv == cli.cmd = "restore" =>
  /\ cli.phase # "create"
  /\ cli.phase = "restore" /\ cli.pc \in {"start", "prepare", "check"} =>
       node[M1].cl = 0 /\ node[M1].role = "none"
  /\ cli.pc \in {"wipe", "reset"} => cli.snap = Chosen
  /\ AfterReset => Recovered

\* What a call can do to the invocation.
LEMMA Moves ==
  ASSUME Step
  PROVE  \/ \E ok \in BOOLEAN : Finish(ok)
         \/ Return
         \/ \E p : Goto(p)
         \/ \E v \in Offset : Pick(v)
         \/ LoopEnds \/ ListSnapshots \/ Purge
  BY DEF Step, Refuse, Clone, Start, Prepare, CheckReady, CheckNotReady, K3sJoin, WaitReady,
         AfterWait, TimedOut, Wipe, Reset, Manifest, Kubeconfig, ExportToken, WriteToken,
         Cordon, DelNode, DelSecret, AfterSecret, Destroy, Stamp, Info, Kill, Unconfig,
         SaveSnapshot, NoAnswer, NoInternet

\* An invocation is over or goes on with its command, in the same procedure or
\* in the one after it.
LEMMA Onwards ==
  ASSUME TypeInv, Step, ~\E ok \in BOOLEAN : Finish(ok)
  PROVE  /\ cli'.cmd = cli.cmd /\ cli'.arg = cli.arg
         /\ ListSnapshots \/ cli'.snap = cli.snap
         /\ \/ cli'.phase = cli.phase
            \/ cli.phase = "create" /\ cli'.phase = "update"
            \/ cli.phase = "rm" /\ cli'.phase = "restore" /\ cli'.pc = "clone"
            \/ cli.phase = "restore" /\ cli'.phase = "purge" /\ Return
            \/ cli.phase = "purge" /\ cli'.phase = "update" /\ cli'.pc = "check"
            \/ /\ cli.phase \in {"update"} \cup UpdateLoops
               /\ cli'.phase \in {"update"} \cup UpdateLoops
<1> USE DEF TypeInv, TypeOK
<1>1. CASE \E p : Goto(p)
  BY <1>1, GotoKeeps
<1>2. ASSUME NEW ph, NEW p, NEW v, NEW todo, Enter(ph, p, v, todo)
      PROVE  /\ cli'.cmd = cli.cmd /\ cli'.arg = cli.arg /\ cli'.snap = cli.snap
             /\ cli'.phase = ph /\ cli'.pc = p
  BY <1>2 DEF Enter, CliTyped, CliState
<1>3. CASE Return
  <2>1. CASE cli.phase = "create"
    BY <1>2, <1>3, <2>1 DEF Return
  <2>2. CASE cli.phase = "restore"
    BY <1>2, <1>3, <2>2 DEF Return
  <2>3. CASE cli.phase = "update"
    BY <1>3, <2>3 DEF Return, CliTyped, CliState, UpdateLoops
  <2>4. CASE cli.phase \notin {"create", "restore", "update"}
    BY <1>1, <1>3, <2>4 DEF Return
  <2> QED BY <2>1, <2>2, <2>3, <2>4
<1>4. CASE (\E v \in Offset : Pick(v)) \/ ListSnapshots \/ Purge
  BY <1>4 DEF Pick, ListSnapshots, Purge, CliTyped, CliState
<1>5. CASE LoopEnds
  <2>1. cli.phase \in Loops
    BY <1>5 DEF LoopEnds, InHand
  <2>2. \/ cli.phase = "rm"      /\ Enter("restore", "clone", M1, {})
        \/ cli.phase = "purge"   /\ Enter("update", "check", M1, {})
        \/ cli.phase = "slaves"  /\ Enter("demote", "next", cli.cur, Demoted)
        \/ cli.phase = "demote"  /\ Enter("workers", "next", cli.cur, WorkersOf(cli.cfg))
        \/ cli.phase = "workers" /\ Enter("extras", "next", cli.cur, Extras)
        \/ cli.phase = "extras"  /\ Enter("update", "stamp", M1, {})
    BY <1>5, <2>1 DEF LoopEnds, Loops
  <2>3. \/ cli.phase = "rm" /\ cli'.phase = "restore" /\ cli'.pc = "clone"
        \/ cli.phase = "purge" /\ cli'.phase = "update" /\ cli'.pc = "check"
        \/ cli.phase \in UpdateLoops /\ cli'.phase \in {"update"} \cup UpdateLoops
    BY <1>2, <2>2 DEF UpdateLoops
  <2>4. cli'.cmd = cli.cmd /\ cli'.arg = cli.arg /\ cli'.snap = cli.snap
    BY <1>2, <2>2
  <2> QED BY <2>3, <2>4
<1> QED BY <1>1, <1>3, <1>4, <1>5, Moves

\* Nothing takes the recovered data away again.
LEMMA RecoveredStays ==
  ASSUME TypeInv, PlanInv, ControlInv, IdentityInv, Step, cli.cmd = "restore",
         AfterReset, Recovered,
         s3' = s3, cli'.snap = cli.snap, cli'.arg = cli.arg
  PROVE  Recovered'
<1> USE DEF TypeInv, TypeOK, At
<1>1. node[M1].cl # 0
  BY MaxIdAssumption DEF Recovered, IdentityInv, GuestsTyped
<1>2. CASE cli.phase \in {"update"} \cup UpdateLoops
  BY <1>1, <1>2, UpdateKeepsApi DEF Recovered, Chosen
<1>3. CASE cli.phase \notin {"update"} \cup UpdateLoops
  <2>1. ~Clone /\ ~Destroy /\ ~Wipe /\ ~Unconfig /\ ~Reset
    BY <1>3 DEF AfterReset, Exports, Clone, Destroy, Wipe, Unconfig, Reset, Removing,
       ControlInv, CallOf, PlanInv, CallFits
  <2>2. node'[M1].cl = node[M1].cl
    <3>1. CallEffect
      BY CallNodes
    <3> QED BY <2>1, <3>1, LayoutFacts DEF CallEffect
  <2> QED BY <2>2 DEF Recovered, Chosen
<1> QED BY <1>2, <1>3

\* Every call of a restore works towards the snapshot it was asked for.
LEMMA StepRestore ==
  ASSUME TypeInv, PlanInv, ControlInv, IdentityInv, RestoreInv, Step
  PROVE  RestoreInv'
<1> USE DEF TypeInv, TypeOK, At
<1> SUFFICES ASSUME cli'.cmd = "restore" PROVE RestoreInv'
  BY DEF RestoreInv
<1>1. ~\E ok \in BOOLEAN : Finish(ok)
  BY EndsIdle
<1>2. /\ cli.cmd = "restore" /\ cli'.arg = cli.arg
      /\ ListSnapshots \/ cli'.snap = cli.snap
  BY <1>1, Onwards
<1>3. s3' = s3 /\ Chosen' = Chosen
  <2>1. ~SaveSnapshot
    BY <1>2 DEF SaveSnapshot, ControlInv, CallOf
  <2>2. s3' = s3
    BY <2>1, CallSnapshots
  <2> QED BY <1>2, <2>2 DEF Chosen
<1>4. /\ cli'.pc \in {"list", "wipe", "reset", "manifest", "rewait"} => cli'.phase = "restore"
      /\ cli'.pc \in Exports => cli'.phase \in {"create", "restore", "update"}
  BY StepControl DEF ControlInv, CallOf, Exports
<1>5. CASE cli.phase \in {"none", "rm"}
  <2>1. \/ cli'.phase = cli.phase
        \/ cli'.phase = "restore" /\ cli'.pc = "clone"
    BY <1>1, <1>5, Onwards DEF UpdateLoops
  <2> QED BY <1>4, <1>5, <2>1 DEF RestoreInv, AfterReset, Exports, UpdateLoops
<1>6. CASE cli.phase \in {"purge", "update"} \cup UpdateLoops
  <2>1. cli'.phase \in {"purge", "update"} \cup UpdateLoops
    BY <1>1, <1>6, Onwards DEF UpdateLoops
  <2>2. ~ListSnapshots
    BY <1>6 DEF ListSnapshots, ControlInv, CallOf, UpdateLoops
  <2>3. Recovered'
    BY <1>2, <1>3, <1>6, <2>2, RecoveredStays DEF RestoreInv, AfterReset
  <2> QED BY <1>4, <2>1, <2>3 DEF RestoreInv, UpdateLoops
<1>7. CASE cli.phase = "restore" /\ AfterReset
  <2>1. cli.pc \in {"manifest", "rewait"} \cup Exports
    BY <1>7 DEF AfterReset, UpdateLoops
  <2>2. (\E p \in {"rewait", "kubeconfig", "export", "write"} : Goto(p)) \/ Return
    <3>1. \/ Manifest \/ Kubeconfig \/ ExportToken \/ WriteToken \/ TimedOut \/ NoAnswer
          \/ WaitReady /\ At("rewait")
      BY <2>1
         DEF Step, Refuse, Pick, LoopEnds, Clone, Start, Prepare, CheckReady, CheckNotReady,
             K3sJoin, WaitReady, ListSnapshots, Wipe, Reset, Purge, Cordon, DelNode, DelSecret,
             Destroy, Stamp, Info, Kill, Unconfig, SaveSnapshot, NoInternet, Exports
    <3>2. CASE WaitReady /\ At("rewait")
      BY <3>2 DEF WaitReady, AfterWait
    <3> QED BY <1>1, <3>1, <3>2 DEF Manifest, Kubeconfig, ExportToken, WriteToken, TimedOut,
                                   NoAnswer
  <2>3. Recovered' /\ ~ListSnapshots
    BY <1>2, <1>3, <1>7, <2>1, RecoveredStays DEF RestoreInv, ListSnapshots, Exports
  <2>4. CASE \E p \in {"rewait", "kubeconfig", "export", "write"} : Goto(p)
    <3>1. cli'.pc \in {"rewait", "kubeconfig", "export", "write"} /\ cli'.phase = "restore"
      BY <1>7, <2>4, GotoKeeps
    <3> QED BY <2>3, <3>1 DEF RestoreInv
  <2>5. CASE Return
    <3>1. Enter("purge", "purge", M1, {})
      BY <1>7, <2>5 DEF Return
    <3>2. cli'.phase = "purge" /\ cli'.pc = "purge"
      BY <3>1 DEF Enter, CliTyped, CliState
    <3> QED BY <2>3, <3>2 DEF RestoreInv
  <2> QED BY <2>2, <2>4, <2>5
<1>8. CASE cli.phase = "restore" /\ ~AfterReset
  <2>0. cli.cur = M1 /\ M1 \in Offset /\ CallEffect
    BY <1>8, CallNodes, LayoutFacts DEF PlanInv, CallFits
  <2>1. CASE Clone \/ Start \/ Prepare
    <3>1. cli'.pc \in {"start", "prepare", "check"} /\ cli'.phase = "restore"
      <4>1. \E p \in {"start", "prepare", "check"} : Goto(p)
        BY <2>0, <2>1 DEF Clone, Start, Prepare, M1, Utility
      <4> QED BY <1>8, <4>1, GotoKeeps
    <3>2. node'[M1].cl = 0 /\ node'[M1].role = "none"
      <4>1. CASE Clone
        BY <2>0, <4>1 DEF CallEffect
      <4>2. CASE Start \/ Prepare
        <5>1. node[M1].cl = 0 /\ node[M1].role = "none"
          BY <1>2, <1>8, <4>2 DEF Start, Prepare, RestoreInv
        <5>2. ~K3sJoin /\ ~Unconfig /\ ~Reset
          BY <4>2 DEF Start, Prepare, K3sJoin, Unconfig, Reset
        <5> QED BY <2>0, <5>1, <5>2 DEF CallEffect
      <4> QED BY <2>1, <4>1, <4>2
    <3> QED BY <3>1, <3>2 DEF RestoreInv, AfterReset, UpdateLoops, Exports
  <2>2. ~CheckReady
    BY <1>2, <1>8 DEF CheckReady, RestoreInv, SeesReady, ApiAt
  <2>3. CASE CheckNotReady \/ K3sJoin \/ WaitReady
    <3>1. \E p \in {"refuse", "join", "wait", "list"} : Goto(p)
      <4>1. NodeType = "restore" /\ ~At("rewait")
        BY <1>2, <1>8, <2>0 DEF NodeType, AfterReset, M1, Utility
      <4>2. CASE CheckNotReady \/ K3sJoin
        BY <4>2 DEF CheckNotReady, K3sJoin
      <4>3. CASE WaitReady
        BY <4>1, <4>3 DEF WaitReady, AfterWait
      <4> QED BY <2>3, <4>2, <4>3
    <3>2. cli'.pc \in {"refuse", "join", "wait", "list"} /\ cli'.phase = "restore"
      BY <1>8, <3>1, GotoKeeps
    <3> QED BY <3>2 DEF RestoreInv, AfterReset, UpdateLoops, Exports
  <2>4. CASE ListSnapshots
    <3>1. /\ cli'.phase = "restore" /\ cli'.pc \in {"wipe", "refuse"}
          /\ cli'.pc = "wipe" => cli'.snap = Chosen
      BY <1>8, <2>4 DEF ListSnapshots, CliTyped, CliState
    <3> QED BY <1>3, <3>1 DEF RestoreInv, AfterReset, UpdateLoops, Exports
  <2>5. CASE Wipe
    <3>1. Goto("reset") /\ ~ListSnapshots /\ At("wipe")
      BY <2>5 DEF Wipe, ListSnapshots
    <3>2. cli'.pc = "reset" /\ cli'.phase = "restore" /\ cli'.snap = Chosen
      BY <1>2, <1>8, <3>1, GotoKeeps DEF RestoreInv
    <3> QED BY <1>3, <3>2 DEF RestoreInv, AfterReset, UpdateLoops, Exports
  <2>6. CASE Reset
    <3>1. cli.snap = Chosen /\ cli.snap \in DOMAIN s3
      BY <1>2, <2>6 DEF Reset, RestoreInv, InHand
    <3>2. CASE Decrypts(s3[cli.snap])
      <4>1. Goto("manifest") /\ node' = [node EXCEPT ![cli.cur].cl = s3[cli.snap].ca]
        BY <2>6, <3>2 DEF Reset
      <4>2. cli'.pc = "manifest" /\ cli'.phase = "restore" /\ cli'.snap = cli.snap
        BY <1>8, <4>1, GotoKeeps
      <4>3. node'[M1].cl = s3[cli.snap].ca
        BY <2>0, <4>1 DEF GuestsTyped, NodeState
      <4> QED BY <1>3, <3>1, <4>2, <4>3 DEF RestoreInv, Recovered
    <3>3. CASE ~Decrypts(s3[cli.snap])
      <4>1. Goto("refuse")
        BY <2>6, <3>3 DEF Reset
      <4>2. cli'.pc = "refuse" /\ cli'.phase = "restore"
        BY <1>8, <4>1, GotoKeeps
      <4> QED BY <4>2 DEF RestoreInv, AfterReset, UpdateLoops, Exports
    <3> QED BY <3>2, <3>3
  <2>7. /\ ~Manifest /\ ~Kubeconfig /\ ~ExportToken /\ ~WriteToken /\ ~Purge
        /\ ~(\E v \in Offset : Pick(v)) /\ ~LoopEnds
        /\ ~Cordon /\ ~DelNode /\ ~DelSecret /\ ~Destroy /\ ~Stamp /\ ~Kill /\ ~Unconfig
    <3>1. /\ cli.pc \notin {"manifest", "kubeconfig", "export", "write", "purge", "next", "stamp"}
          /\ cli.pc \notin {"kill", "unconfig"} /\ ~Removing
      BY <1>2, <1>8
         DEF AfterReset, Exports, InHand, Loops, ControlInv, CallOf, PlanInv, CallFits
    <3> QED BY <3>1
            DEF Manifest, Kubeconfig, ExportToken, WriteToken, Purge, Pick, LoopEnds, Cordon,
                DelNode, DelSecret, Destroy, Stamp, Kill, Unconfig, Removing
  <2> QED BY <1>1, <2>1, <2>2, <2>3, <2>4, <2>5, <2>6, <2>7
          DEF Step, Refuse, TimedOut, Info, SaveSnapshot, NoAnswer, NoInternet
<1>9. cli.phase \in {"none", "rm", "restore", "purge", "update"} \cup UpdateLoops
  BY <1>2 DEF RestoreInv, ControlInv, Commanded, CliTyped, CliState, Phases, UpdateLoops
<1> QED BY <1>5, <1>6, <1>7, <1>8, <1>9

\* And nothing else gets in its way.
LEMMA NextRestore == BaseInv /\ RestoreInv /\ [Next]_vars => RestoreInv'
<1> SUFFICES ASSUME BaseInv, RestoreInv, [Next]_vars PROVE RestoreInv'
  OBVIOUS
<1> USE DEF BaseInv, Inv, TypeInv, TypeOK
<1>1. ASSUME NEW c \in Commands, NEW a, NEW k \in Inis, Begin(c, a, k) PROVE RestoreInv'
  <2>1. cli'.cmd = c /\ cli'.phase = Entry(c, a)[1] /\ cli'.pc = Entry(c, a)[2]
    BY <1>1 DEF Begin
  <2>2. c = "restore" => cli'.phase = "rm" /\ cli'.pc \in {"next", "refuse"}
    BY <2>1 DEF Entry
  <2> QED BY <2>1, <2>2 DEF RestoreInv, AfterReset, UpdateLoops, Exports
<1>2. CASE Step
  BY <1>2, StepRestore
<1>3. CASE GuestStep \/ GuestFault
  <2>1. /\ cli'.pc = cli.pc /\ cli'.arg = cli.arg /\ cli'.snap = cli.snap
        /\ cli'.phase = cli.phase /\ cli'.cmd = cli.cmd /\ s3' = s3
    BY <1>3 DEF GuestStep, GuestFault, CliTyped, CliState, files
  <2>2. node[M1].cl # 0 => node'[M1].cl = node[M1].cl
    BY <1>3, GuestsKeepApi
  <2>3. node[M1].role = "none" => node'[M1].role = "none" /\ node'[M1].cl = node[M1].cl
    BY <1>3, GuestNodes, LayoutFacts DEF Bootstrap, CanBootstrap, Join, CanJoin
  <2>4. Recovered => Recovered'
    <3>1. Recovered => node[M1].cl # 0
      BY MaxIdAssumption DEF Recovered, IdentityInv, GuestsTyped
    <3> QED BY <2>1, <2>2, <3>1 DEF Recovered, Chosen
  <2> QED BY <2>1, <2>3, <2>4 DEF RestoreInv, AfterReset, Chosen
<1>4. CASE Interrupt \/ TooSlow
  BY <1>4, EndsIdle DEF Interrupt, TooSlow, RestoreInv
<1>5. CASE UNCHANGED vars
  BY <1>5 DEF vars, RestoreInv, AfterReset, Recovered, Chosen
<1> QED BY <1>1, <1>2, <1>3, <1>4, <1>5 DEF Next, Invoke

\* A command that builds ends well after its update, and nowhere else.
LEMMA BuildEnds ==
  ASSUME BaseInv, [Next]_vars, Ended, last'.ok, cli.cmd \in {"create", "update", "restore"}
  PROVE  Info /\ cli.phase = "update"
<1> USE DEF BaseInv, Inv, TypeInv, TypeOK, At
<1>1. cli.cmd # "none" /\ cli'.cmd = "none" /\ last'.ok
  BY DEF Ended
<1>2. ~Interrupt /\ ~TooSlow
  BY <1>1 DEF Interrupt, TooSlow, Cut
<1>3. ~GuestStep /\ ~GuestFault /\ ~Invoke /\ ~UNCHANGED vars
  <2>1. ~GuestFault
    BY <1>1 DEF GuestFault, CliTyped, CliState
  <2>2. ~Invoke
    BY <1>1, CommandsAssumption DEF Invoke, Begin
  <2> QED BY <1>1, <2>1, <2>2 DEF GuestStep, vars
<1>4. Step
  BY <1>2, <1>3 DEF Next
<1>5. /\ cli.phase # "node" /\ cli.pc # "save" /\ cli.pc # "unconfig"
      /\ cli.phase = "rm" => cli.cmd = "restore"
  BY DEF ControlInv, Commanded, CallOf, PlanInv, CallFits
<1>6. ~Finish(FALSE) /\ ~(\E p : Goto(p))
  BY <1>1, GotoKeeps DEF Finish
<1>7. ASSUME NEW ph, NEW p, NEW v, NEW todo, Enter(ph, p, v, todo) PROVE FALSE
  BY <1>1, <1>7 DEF Enter, CliTyped, CliState
<1>8. ~Return
  <2>1. cli.phase \in {"create", "restore"} => ~Return
    BY <1>7 DEF Return
  <2>2. cli.phase = "update" => ~Return
    BY <1>1 DEF Return, CliTyped, CliState
  <2>3. cli.phase \notin {"create", "restore", "update"} => ~Return
    BY <1>5, <1>6 DEF Return
  <2> QED BY <2>1, <2>2, <2>3
<1>9. ~LoopEnds
  <2>1. LoopEnds => \E ph, p, v, todo : Enter(ph, p, v, todo)
    BY <1>5 DEF LoopEnds, InHand, Loops
  <2> QED BY <1>7, <2>1
<1>10. ~(\E v \in Offset : Pick(v)) /\ ~ListSnapshots /\ ~Purge
  BY <1>1 DEF Pick, ListSnapshots, Purge, CliTyped, CliState
<1>11. Info
  BY <1>4, <1>5, <1>6, <1>8, <1>9, <1>10
     DEF Step, Refuse, Clone, Start, Prepare, CheckReady, CheckNotReady, K3sJoin, WaitReady,
         AfterWait, TimedOut, Wipe, Reset, Manifest, Kubeconfig, ExportToken, WriteToken,
         Cordon, DelNode, DelSecret, AfterSecret, Destroy, Stamp, Kill, Unconfig,
         SaveSnapshot, NoAnswer, NoInternet
<1> QED BY <1>5, <1>11 DEF Info, ControlInv, CallOf

\* README.md:163, kopsrox_k3s.py:76-96: a restore that ends well has brought back
\* the identity of the snapshot that was named, or of the newest, whatever was
\* in the cluster before and whatever the guests did meanwhile.
THEOREM RestoreIsRight == Spec => RestoreRecovers
<1> DEFINE Right == EndsOk("restore") =>
             node[M1].cl = s3[IF cli.arg = 0 THEN Len(s3) ELSE cli.arg].ca
<1>1. Init => RestoreInv
  BY DEF Init, Idle, RestoreInv
<1>2. BaseInv /\ RestoreInv /\ [Next]_vars => [Right]_vars
  <2> SUFFICES ASSUME BaseInv, RestoreInv, [Next]_vars, EndsOk("restore")
               PROVE  node[M1].cl = s3[IF cli.arg = 0 THEN Len(s3) ELSE cli.arg].ca
    OBVIOUS
  <2>1. cli.phase = "update" /\ cli.cmd = "restore"
    BY BuildEnds DEF EndsOk, BaseInv
  <2> QED BY <2>1 DEF RestoreInv, AfterReset, Recovered, Chosen
<1> QED BY <1>1, <1>2, NextRestore, Base, PTL DEF Spec, RestoreRecovers

(******************************* One cluster *******************************)
\* m1 is never named to a command on one node, and no master is uninstalled.
MastersStay == M1 \notin Args /\ ("k3s-uninstall" \in Commands => Args \cap Masters = {})

\* All data is of m1's cluster, and only m1 would start one: a VM that is not
\* there, the template and the utility VM do not run k3s, and whenever m1 loses
\* its data no other node has any.
Inert(v) == node[v].cl = 0 /\ node[v].unit = "disabled"
OneInv ==
  /\ \A v \in Offset : node[v].cl # 0 => node[v].cl = node[M1].cl
  /\ \A v \in Offset : node[v].role = "init" => v = M1
  /\ \A v \in Offset : node[v].role = "server" => v \in {2, 3}
  /\ \A v \in Offset : v \in Protected \/ v \notin Vms => Inert(v)
  /\ cli.phase = "restore" => Vms \ Protected \subseteq {M1}
  /\ cli.phase = "create" /\ At("clone") => M1 \notin Vms

\* The three steps that start, or take away, what m1 has.
M1Loses == cli.cur = M1 /\ (Clone \/ Destroy \/ Wipe \/ Unconfig \/ Reset)

\* They only happen when no other node has anything.
LEMMA OthersEmpty ==
  ASSUME MastersStay, TypeInv, PlanInv, ControlInv, OneInv, Step, M1Loses
  PROVE  \A v \in Offset \ {M1} : node[v].cl = 0
<1> USE DEF TypeInv, TypeOK, At
<1>1. CASE cli.phase = "restore"
  BY <1>1 DEF OneInv, Inert
<1>2. CASE Clone /\ cli.phase # "restore"
  <2>1. cli.cfg \in Configs
    BY InisAssumption DEF CliTyped, CliState
  <2>2. cli.phase \in {"slaves", "workers"} => cli.cur \in Slaves(cli.cfg) \cup WorkersOf(cli.cfg)
    BY <1>2 DEF Clone, PlanInv, BuildOrder, Added
  <2>3. M1 \notin Slaves(cli.cfg) \cup WorkersOf(cli.cfg)
    BY <2>1 DEF Slaves, WorkersOf, LastWorker, M1, Configs
  <2>4. cli.phase = "create"
    BY <1>2, <2>2, <2>3 DEF Clone, M1Loses, PlanInv, CallFits, M1, Utility
  <2>5. node[M1].cl = 0
    BY <1>2, <2>4, LayoutFacts DEF Clone, OneInv, Inert
  <2> QED BY <2>5 DEF OneInv
<1>3. CASE Destroy
  <2>1. Removing /\ At("destroy")
    BY <1>3 DEF Destroy, Removing
  <2>2. cli.phase \notin {"demote", "extras"}
    <3>1. cli.cfg \in Configs
      BY InisAssumption DEF CliTyped, CliState
    <3> QED BY <2>1, <3>1 DEF M1Loses, PlanInv, SurplusOnly, Surplus, LastWorker, Configs, M1
  <2>3. cli.phase = "node" => cli.cur \in Args
    BY <2>1 DEF PlanInv, CallFits, ControlInv, Commanded
  <2>4. cli.phase = "rm"
    BY <2>1, <2>2, <2>3 DEF M1Loses, MastersStay, PlanInv, CallFits
  <2>5. Vms \ Protected \subseteq {M1}
    <3>1. /\ cli.left \cap Protected = {} /\ Vms \ Protected \subseteq cli.left \cup {M1}
          /\ \A v \in cli.left : v <= M1
      BY <2>1, <2>4 DEF M1Loses, PlanInv, TeardownOrder
    <3>2. \A v \in cli.left : v \in 0..9
      BY LayoutAssumption DEF CliTyped, CliState, Offset
    <3>3. \A v \in cli.left : v = M1
      BY <3>1, <3>2 DEF M1, Protected, Image
    <3> QED BY <3>1, <3>3
  <2> QED BY <2>5 DEF OneInv, Inert
<1>4. CASE Wipe \/ Reset
  BY <1>1, <1>4 DEF Wipe, Reset, ControlInv, CallOf
<1>5. ~Unconfig
  BY DEF M1Loses, Unconfig, PlanInv, CallFits, ControlInv, Commanded, MastersStay, CliTyped,
     CliState, Masters, M1
<1> QED BY <1>1, <1>2, <1>3, <1>4, <1>5 DEF M1Loses

\* k3s_init_node configures a cluster-init for m1 alone, joining servers for the
\* other masters, and the template and the utility VM not at all.
LEMMA JoinRole ==
  ASSUME MastersStay, TypeInv, PlanInv, ControlInv, K3sJoin
  PROVE  /\ cli.cur \in Vms \ Protected
         /\ Role = "init" => cli.cur = M1
         /\ Role = "server" => cli.cur \in {2, 3}
<1> USE DEF TypeInv, TypeOK, At
<1>1. cli.cfg \in Configs /\ cli.cur \in 0..9 /\ cli.cur \in Vms
  BY InisAssumption, LayoutAssumption DEF CliTyped, CliState, Offset, K3sJoin, Up, Vms
<1>2. CASE cli.phase \in {"create", "restore", "update"}
  <2>1. cli.cur = M1 /\ cli.cmd # "rejoin-slave"
    BY <1>2 DEF PlanInv, CallFits, ControlInv, Commanded
  <2> QED BY <1>1, <2>1 DEF Role, NodeType, M1, Utility, Protected, Image
<1>3. CASE cli.phase \in {"slaves", "workers"}
  <2>1. cli.cur \in Slaves(cli.cfg) \cup WorkersOf(cli.cfg) /\ cli.cmd # "rejoin-slave"
    BY <1>3 DEF K3sJoin, PlanInv, BuildOrder, Added, ControlInv, Commanded
  <2>2. cli.cur \in {2, 3} \/ cli.cur > Utility
    BY <1>1, <2>1 DEF Slaves, WorkersOf, LastWorker, Configs, Utility
  <2> QED BY <1>1, <1>3, <2>1, <2>2 DEF Role, NodeType, Utility, Protected, Image
<1>4. CASE cli.cmd = "rejoin-slave"
  <2>1. cli.cur \in {2, 3} /\ cli.phase = "node"
    BY <1>4 DEF K3sJoin, ControlInv, CallOf, Commanded, MastersStay, Masters, M1
  <2> QED BY <1>1, <1>4, <2>1 DEF Role, NodeType, Utility, Protected, Image
<1> QED BY <1>2, <1>3, <1>4 DEF K3sJoin, ControlInv, CallOf

\* Only a procedure or a loop that begins leads to a clone.
LEMMA ToClone ==
  ASSUME TypeInv, Step, cli'.pc = "clone"
  PROVE  (\E ok \in BOOLEAN : Finish(ok)) \/ Return \/ (\E v \in Offset : Pick(v)) \/ LoopEnds
<1> USE DEF TypeInv, TypeOK, At
<1>1. cli \in CliState
  BY DEF CliTyped
<1>2. ASSUME NEW p, Goto(p) PROVE p = "clone"
  BY <1>2, GotoKeeps
<1>3. ~ListSnapshots /\ ~Purge
  BY <1>1 DEF ListSnapshots, Purge, CliState
<1>4. ~Clone /\ ~Start /\ ~Prepare /\ ~CheckNotReady /\ ~K3sJoin
  BY <1>2 DEF Clone, Start, Prepare, CheckNotReady, K3sJoin
<1>5. ~Wipe /\ ~Reset /\ ~Manifest /\ ~Kubeconfig /\ ~Cordon /\ ~DelNode /\ ~Stamp /\ ~Kill
  BY <1>2 DEF Wipe, Reset, Manifest, Kubeconfig, Cordon, DelNode, Stamp, Kill
<1>6. WaitReady => Return
  BY <1>2 DEF WaitReady, AfterWait
<1>7. ExportToken \/ DelSecret \/ Unconfig => Return \/ \E ok \in BOOLEAN : Finish(ok)
  BY <1>2 DEF ExportToken, DelSecret, AfterSecret, Unconfig
<1> QED BY <1>3, <1>4, <1>5, <1>6, <1>7
        DEF Step, Refuse, CheckReady, TimedOut, WriteToken, Destroy, Info, SaveSnapshot,
            NoAnswer, NoInternet

\* Every call keeps the data in one cluster.
LEMMA StepOne ==
  ASSUME MastersStay, TypeInv, PlanInv, ControlInv, OneInv, Step
  PROVE  OneInv'
<1> USE DEF TypeInv, TypeOK, At
<1>0. CallEffect /\ M1 \in Offset /\ cli.cur \in Offset
  BY CallNodes, LayoutFacts DEF CallEffect
<1>r. Reset \/ Manifest => cli.cur = M1 /\ M1 \in Vms \ Protected
  BY <1>0 DEF Reset, Manifest, Up, Vms, ControlInv, CallOf, PlanInv, CallFits, M1, Protected,
     Image, Utility
<1>1. \A v \in Offset : node'[v].cl # 0 => node'[v].cl = node'[M1].cl
  <2>1. CASE M1Loses
    <3>1. \A v \in Offset \ {M1} : node'[v] = node[v] /\ node[v].cl = 0
      BY <1>0, <2>1, OthersEmpty DEF CallEffect, M1Loses
    <3> QED BY <3>1
  <2>2. CASE ~M1Loses
    <3>1. node'[M1].cl = node[M1].cl
      BY <1>0, <2>2 DEF CallEffect, M1Loses
    <3>2. node'[cli.cur].cl \in {0, node[cli.cur].cl}
      BY <1>0, <1>r, <2>2 DEF CallEffect, M1Loses
    <3> QED BY <1>0, <3>1, <3>2 DEF CallEffect, OneInv
  <2> QED BY <2>1, <2>2
<1>2. ~(Unconfig /\ node[cli.cur].role \in {"init", "server"})
  <2>1. Unconfig => cli.cur \notin Masters
    BY DEF Unconfig, PlanInv, CallFits, ControlInv, Commanded, MastersStay, CliTyped, CliState
  <2> QED BY <1>0, <2>1 DEF OneInv, Masters, M1
<1>3. \A v \in Offset : /\ node'[v].role = "init" => v = M1
                        /\ node'[v].role = "server" => v \in {2, 3}
  <2>1. /\ node'[cli.cur].role = "init" => cli.cur = M1
        /\ node'[cli.cur].role = "server" => cli.cur \in {2, 3}
    BY <1>0, <1>2, JoinRole DEF CallEffect, OneInv
  <2> QED BY <1>0, <2>1 DEF CallEffect, OneInv
<1>4. \A v \in Offset : v \in Protected \/ v \notin Vms' => Inert(v)'
  <2> SUFFICES ASSUME NEW v \in Offset, v \in Protected \/ v \notin Vms'
               PROVE  node'[v].cl = 0 /\ node'[v].unit = "disabled"
    BY DEF Inert
  <2>1. CASE v = cli.cur /\ (Clone \/ Destroy)
    BY <1>0, <2>1 DEF CallEffect
  <2>2. CASE ~(v = cli.cur /\ (Clone \/ Destroy))
    <3>1. Vms' \ {cli.cur} = Vms \ {cli.cur} /\ (~Clone /\ ~Destroy => Vms' = Vms)
      BY CallsKeepVms, VmsChange DEF PlanInv
    <3>2. Inert(v)
      BY <2>2, <3>1 DEF OneInv
    <3>3. ~(v = cli.cur /\ (K3sJoin \/ Manifest \/ Reset))
      BY <1>r, <2>2, <3>1, JoinRole
    <3> QED BY <1>0, <3>2, <3>3 DEF CallEffect, Inert
  <2> QED BY <2>1, <2>2
<1>5. cli'.phase = "restore" => Vms' \ Protected \subseteq {M1}
  <2> SUFFICES ASSUME cli'.phase = "restore" PROVE Vms' \ Protected \subseteq {M1}
    OBVIOUS
  <2>1. ~\E ok \in BOOLEAN : Finish(ok)
    BY EndsIdle
  <2>2. \/ cli.phase = "restore"
        \/ cli.phase = "rm" /\ cli'.pc = "clone"
    BY <2>1, Onwards DEF UpdateLoops
  <2>3. CASE cli.phase = "restore"
    <3>1. cli.cur = M1
      BY <2>3 DEF PlanInv, CallFits
    <3> QED BY <2>3, <3>1, CallsKeepVms, VmsChange DEF OneInv, PlanInv
  <2>4. CASE cli.phase = "rm" /\ cli'.pc = "clone"
    <3>1. TeardownOrder /\ TypeInv'
      BY StepTyped DEF PlanInv
    <3>2. LoopEnds
      <4>1. /\ ~(\E p : Goto(p)) /\ ~(\E v \in Offset : Pick(v))
            /\ ~ListSnapshots /\ ~Purge
        <5>1. ASSUME NEW p, Goto(p) PROVE FALSE
          BY <2>4, <5>1, GotoKeeps
        <5>2. ASSUME NEW v \in Offset, Pick(v) PROVE FALSE
          BY <2>4, <5>2 DEF Pick, CliTyped, CliState
        <5>3. ~ListSnapshots /\ ~Purge
          BY <2>4 DEF ListSnapshots, Purge, CliTyped, CliState
        <5> QED BY <5>1, <5>2, <5>3
      <4>2. ~Return
        BY <2>4, <4>1 DEF Return
      <4> QED BY <2>1, <4>1, <4>2, Moves
    <3>3. Vms' = Vms /\ Vms \ Protected \subseteq {}
      BY <2>4, <3>1, <3>2 DEF LoopEnds, gvars, Vms, TeardownOrder, Removing
    <3> QED BY <3>3
  <2> QED BY <2>2, <2>3, <2>4
<1>6. ~(cli'.phase = "create" /\ cli'.pc = "clone")
  <2> SUFFICES ASSUME cli'.phase = "create", cli'.pc = "clone" PROVE FALSE
    OBVIOUS
  <2>1. ~\E ok \in BOOLEAN : Finish(ok)
    BY EndsIdle
  <2>2. cli.phase = "create"
    BY <2>1, Onwards DEF UpdateLoops
  <2>3. ~At("next") /\ ~At("list") /\ ~At("purge")
    BY <2>2 DEF InHand, Loops, ControlInv, CallOf
  <2>4. ~Return
    BY <2>2 DEF Return, Enter, CliTyped, CliState
  <2>5. ~(\E v \in Offset : Pick(v)) /\ ~LoopEnds
    BY <2>3, Zenon DEF Pick, LoopEnds
  <2> QED BY <2>1, <2>4, <2>5, ToClone
<1> QED BY <1>1, <1>3, <1>4, <1>5, <1>6 DEF OneInv

\* So do the units: only m1 bootstraps, and only when no other guest has data; a
\* cluster that can be joined is served by a guest, and so is m1's.
LEMMA GuestsOne ==
  ASSUME TypeInv, OneInv, GuestStep \/ GuestFault
  PROVE  OneInv'
<1> USE DEF TypeInv, TypeOK
<1>0. M1 \in Offset /\ Vms' = Vms /\ cli'.phase = cli.phase /\ cli'.pc = cli.pc
  BY LayoutFacts, GuestsKeepVms DEF GuestStep, GuestFault, CliTyped, CliState
<1>1. ASSUME NEW v \in Offset, NEW c \in Id, Join(v, c)
      PROVE  c = node[M1].cl /\ node[M1].cl # 0 /\ v # M1
  <2>1. Quorum(c) /\ node[v].cl = 0
    BY <1>1 DEF Join, CanJoin, VipServes
  <2>2. PICK u \in clu[c].members : Serves(u, c)
    BY <2>1, QuorumServes
  <2>3. u \in Offset /\ node[u].cl = c /\ c # 0
    BY <2>2 DEF Serves, GuestsTyped, ClusterState, Id
  <2> QED BY <2>1, <2>3 DEF OneInv
<1>2. ASSUME NEW v \in Offset, Bootstrap(v) PROVE v = M1 /\ node[M1].cl = 0
  BY <1>2 DEF Bootstrap, CanBootstrap, OneInv
<1>3. ASSUME NEW v \in Offset, node[v].unit = "disabled"
      PROVE  ~Bootstrap(v) /\ \A c \in Id : ~Join(v, c)
  BY <1>3 DEF Bootstrap, CanBootstrap, Join, CanJoin, Runs
<1>4. \A v \in Offset : node'[v].cl # 0 => node'[v].cl = node'[M1].cl
  <2>1. CASE node[M1].cl = 0
    <3>1. \A v \in Offset \ {M1} : node'[v].cl = node[v].cl /\ node[v].cl = 0
      BY <1>1, <1>2, <2>1, GuestNodes DEF OneInv
    <3> QED BY <3>1
  <2>2. CASE node[M1].cl # 0
    <3>1. \A v \in Offset : node'[v].cl \in {node[v].cl, node[M1].cl}
      BY <1>1, <1>2, <2>2, GuestNodes
    <3>2. node'[M1].cl = node[M1].cl
      BY <1>0, <1>1, <1>2, <2>2, GuestNodes
    <3> QED BY <3>1, <3>2 DEF OneInv
  <2> QED BY <2>1, <2>2
<1>5. \A v \in Offset : node'[v].role = node[v].role
  BY GuestNodes
<1>6. ASSUME NEW v \in Offset, Inert(v) PROVE Inert(v)'
  BY <1>3, <1>6, GuestNodes DEF Inert
<1> QED BY <1>0, <1>4, <1>5, <1>6 DEF OneInv, At

\* And every other step.
LEMMA NextOne ==
  ASSUME MastersStay
  PROVE  BaseInv /\ OneInv /\ [Next]_vars => OneInv'
<1> SUFFICES ASSUME BaseInv, OneInv, [Next]_vars PROVE OneInv'
  OBVIOUS
<1> USE DEF BaseInv, Inv
<1>1. ASSUME NEW c \in Commands, NEW a, NEW k, Begin(c, a, k) PROVE OneInv'
  <2>1. \A v \in Offset : /\ node'[v].cl = node[v].cl /\ node'[v].role = node[v].role
                          /\ node'[v].unit = "disabled" <=> node[v].unit = "disabled"
    BY <1>1, BeginNodes DEF TypeInv, TypeOK
  <2>2. Vms' = Vms
    BY <1>1, BeginKeepsVms DEF TypeInv, TypeOK
  <2>3. cli'.phase = Entry(c, a)[1] /\ cli'.pc = Entry(c, a)[2]
    BY <1>1 DEF Begin
  <2>4. cli'.phase # "restore" /\ (cli'.phase = "create" /\ cli'.pc = "clone" => M1 \notin Vms)
    <3>1. CASE c = "create"
      <4>1. Entry(c, a)[1] = "create" /\ Entry(c, a)[2] = IF M1 \in Vms THEN "check" ELSE "clone"
        BY <3>1 DEF Entry
      <4> QED BY <2>3, <4>1
    <3>2. CASE c # "create"
      <4>1. cli'.phase \in {"update", "rm", "node"}
        BY <2>3, <3>2, CommandsAssumption DEF Entry
      <4> QED BY <4>1
    <3> QED BY <3>1, <3>2
  <2>5. M1 \in Offset
    BY LayoutFacts
  <2> QED BY <2>1, <2>2, <2>4, <2>5 DEF OneInv, Inert, At
<1>2. CASE Step
  BY <1>2, StepOne
<1>3. CASE GuestStep \/ GuestFault
  BY <1>3, GuestsOne
<1>4. CASE Interrupt \/ TooSlow
  <2>1. cli'.phase = "none" /\ UNCHANGED gvars
    BY <1>4, EndsIdle DEF Interrupt, TooSlow
  <2> QED BY <2>1 DEF OneInv, Inert, Vms, gvars
<1>5. CASE UNCHANGED vars
  BY <1>5 DEF vars, OneInv, Inert, Vms, At
<1> QED BY <1>1, <1>2, <1>3, <1>4, <1>5 DEF Next, Invoke

\* The idempotence of cluster_create and the order of k3s_rm_cluster: whatever
\* is cut short or fails, no two k3s clusters ever run under one cluster_id.
THEOREM NoSecondCluster == ASSUME MastersStay PROVE Spec => []OneCluster
<1>1. Init => OneInv
  <2> SUFFICES ASSUME Init PROVE OneInv
    OBVIOUS
  <2>1. \A v \in Offset : node[v].cl = 0 /\ node[v].role = "none" /\ node[v].unit = "disabled"
    BY DEF Init, GuestsInit, Absent
  <2>2. cli.phase = "none"
    BY DEF Init, Idle
  <2> QED BY <2>1, <2>2 DEF OneInv, Inert
<1>2. BaseInv /\ OneInv => OneCluster
  <2> SUFFICES ASSUME OneInv PROVE OneCluster
    OBVIOUS
  <2>1. Serving \subseteq {node[M1].cl}
    BY DEF OneInv, Serving
  <2>2. IsFiniteSet({node[M1].cl}) /\ Cardinality({node[M1].cl}) = 1
    BY FS_Singleton
  <2>3. Cardinality(Serving) <= Cardinality({node[M1].cl})
    BY <2>1, <2>2, FS_Subset
  <2> QED BY <2>2, <2>3 DEF OneCluster
<1>3. BaseInv /\ OneInv /\ [Next]_vars => OneInv'
  BY NextOne
<1> QED BY <1>1, <1>2, <1>3, Base, PTL DEF Spec
=============================================================================
