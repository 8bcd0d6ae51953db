------------------------------- MODULE Guests -------------------------------
(***************************************************************************)
(* What kopsrox drives and does not implement: the VMs of one Proxmox host *)
(* and the k3s units baked into them.  It is modelled from how             *)
(* lib/kopsrox_k3s.py, lib/kopsrox_proxmox.py and lib/verb_node.py use it. *)
(*                                                                         *)
(* A k3s cluster has an IDENTITY: its CA and the password in its token.    *)
(* Every `cluster-init: true` on an empty data directory makes a new one,  *)
(* and an etcd reset brings back the identity of the snapshot.             *)
(***************************************************************************)
EXTENDS Layout

CONSTANT MaxId          \* bound: identities created in one behaviour

ASSUME MaxIdAssumption == MaxId \in Nat

VARIABLES
  node,  \* node[v]: VM v and what is on its disk
  clu,   \* clu[c]: the API objects and etcd membership of identity c
  ids    \* identities created so far

gvars == <<node, clu, ids>>

Id     == 1..MaxId
Token  == [ca : 0..MaxId, pw : 0..MaxId]
NoToken == [ca |-> 0, pw |-> 0]      \* the empty string

(***************************************************************************)
(* st       the VM: no config file, powered off, powered on                *)
(* prepared node_prepare has run: hostname, address, machine-id            *)
(* unit     the k3s unit: not enabled, enabled and trying to register,     *)
(*          registered, enabled but killed                                 *)
(* role, tok, opts    config.yaml: what the unit does when it starts       *)
(* cl       the identity its data directory belongs to, 0 when empty       *)
(* known    identities that hold this guest's node password                *)
(* manifest the kube-vip manifest is in the data directory                 *)
(***************************************************************************)
NodeState ==
  [st : {"absent", "stopped", "running"}, prepared : BOOLEAN,
   unit : {"disabled", "starting", "active", "killed"},
   role : {"none", "init", "server", "agent"}, tok : Token,
   opts : SUBSET Settings, cl : 0..MaxId, known : SUBSET Id,
   manifest : BOOLEAN]

ClusterState ==
  [pw : 0..MaxId, members : SUBSET Offset, reg : SUBSET Offset,
   ready : SUBSET Offset, secrets : SUBSET Offset,
   cordoned : SUBSET Offset, vip : BOOLEAN]

Absent == [st |-> "absent", prepared |-> FALSE, unit |-> "disabled",
           role |-> "none", tok |-> NoToken, opts |-> {}, cl |-> 0,
           known |-> {}, manifest |-> TRUE]

NewCluster(p, v) == [pw |-> p, members |-> {v}, reg |-> {}, ready |-> {},
                     secrets |-> {}, cordoned |-> {}, vip |-> FALSE]

GuestsInit ==
  /\ node = [v \in Offset |->
               IF v = Image THEN [Absent EXCEPT !.st = "stopped"] ELSE Absent]
  /\ clu = [c \in Id |-> [NewCluster(0, M1) EXCEPT !.members = {}]]
  /\ ids = 0

(*********************************** State *********************************)
Vms     == {v \in Offset : node[v].st # "absent"}
Up(v)   == node[v].st = "running"
Runs(v) == Up(v) /\ node[v].unit \in {"starting", "active"}

\* The name a guest registers under: the template's until it is prepared.
Name(v) == IF node[v].prepared THEN v ELSE Image

Serves(v, c) == Runs(v) /\ node[v].cl = c /\ v \in clu[c].members
Quorum(c)    == 2 * Cardinality({v \in clu[c].members : Serves(v, c)})
                  > Cardinality(clu[c].members)

\* kubectl inside guest v reaches an API server that can read and write etcd.
ApiAt(v) == node[v].cl # 0 /\ Serves(v, node[v].cl) /\ Quorum(node[v].cl)

\* The registration address in every joining config.yaml: kube-vip's VIP.
VipServes(c) == clu[c].vip /\ Quorum(c)

PasswordFits(v, c) == Name(v) \notin clu[c].secrets \/ c \in node[v].known

(**************************** Changes to a guest ***************************)
Configured(n, r, t, o) == [n EXCEPT !.role = r, !.tok = t, !.opts = {o}]

\* `systemctl enable --now` and `systemctl start`: nothing if it is running.
Started(n) == [n EXCEPT !.unit = IF @ = "active" THEN @ ELSE "starting"]

\* An enabled unit starts at boot, whatever stopped it before.
Booted(n) == [n EXCEPT !.st = "running",
                       !.unit = IF @ = "disabled" THEN @ ELSE "starting"]

Killed(n) == [n EXCEPT !.unit = IF @ = "disabled" THEN @ ELSE "killed"]

\* rm -rf /var/lib/rancher: the data directory, the manifest in it included.
Wiped(n) == [n EXCEPT !.cl = 0, !.manifest = FALSE]

(*************************** Changes to a cluster **************************)
\* Deleting a Node also takes the member of its name out of etcd.
NodeDeleted(k, n) ==
  IF n \in k.reg THEN [k EXCEPT !.reg = @ \ {n}, !.ready = @ \ {n},
                                !.members = @ \ {n}, !.cordoned = @ \ {n}]
                 ELSE k
\* Mutant of SecretDeleted: the password secret outlives its node.
SecretKept(k, n)    == k
SecretDeleted(k, n) == [k EXCEPT !.secrets = @ \ {n}]
Cordoned(k, n)      == [k EXCEPT !.cordoned = @ \cup ({n} \cap k.reg)]

(***************************** k3s at work *********************************)
CanBootstrap(v) ==
  /\ Runs(v) /\ node[v].unit = "starting"
  /\ node[v].role = "init" /\ node[v].cl = 0 /\ ids < MaxId

CanJoin(v, c) ==
  /\ Runs(v) /\ node[v].unit = "starting"
  /\ node[v].role \in {"server", "agent"} /\ node[v].cl = 0
  /\ VipServes(c) /\ node[v].tok = [ca |-> c, pw |-> clu[c].pw]
  /\ node[v].role = "server" => v \notin clu[c].members

CanRegister(v) ==
  LET c == node[v].cl IN
  /\ Runs(v) /\ node[v].unit = "starting" /\ c # 0
  /\ IF node[v].role = "agent" THEN VipServes(c) ELSE ApiAt(v)
  /\ PasswordFits(v, c)

CanHeartbeat(v) ==
  LET c == node[v].cl IN
  /\ Runs(v) /\ node[v].unit = "active" /\ c # 0
  /\ IF node[v].role = "agent" THEN VipServes(c) ELSE ApiAt(v)
  /\ Name(v) \in clu[c].reg \ clu[c].ready

\* cluster-init on an empty data directory: a new CA, and the password of the
\* configured token or a random one.
Bootstrap(v) ==
  /\ CanBootstrap(v)
  /\ ids' = ids + 1
  /\ node' = [node EXCEPT ![v].cl = ids + 1]
  /\ clu' = [clu EXCEPT ![ids + 1] =
               NewCluster(IF node[v].tok = NoToken THEN ids + 1
                                                   ELSE node[v].tok.pw, v)]

Join(v, c) ==
  /\ CanJoin(v, c)
  /\ node' = [node EXCEPT ![v].cl = c]
  /\ clu' = [clu EXCEPT ![c].members =
               IF node[v].role = "server" THEN @ \cup {v} ELSE @]
  /\ UNCHANGED ids

\* The kubelet creates its Node, and its password secret if there is none.
Register(v) ==
  /\ CanRegister(v)
  /\ LET c == node[v].cl IN
     /\ clu' = [clu EXCEPT ![c].reg = @ \cup {Name(v)},
                           ![c].secrets = @ \cup {Name(v)},
                           ![c].vip = @ \/ (node[v].role # "agent" /\ node[v].manifest)]
     /\ node' = [node EXCEPT ![v].unit = "active", ![v].known = @ \cup {c}]
  /\ UNCHANGED ids

Heartbeat(v) ==
  /\ CanHeartbeat(v)
  /\ clu' = [clu EXCEPT ![node[v].cl].ready = @ \cup {Name(v)}]
  /\ UNCHANGED <<node, ids>>

\* The node controller marks a silent node NotReady, some time after it died.
LeaseExpires(c, n) ==
  /\ n \in clu[c].ready /\ Quorum(c)
  /\ \A v \in Offset : ~(Runs(v) /\ node[v].cl = c /\ Name(v) = n)
  /\ clu' = [clu EXCEPT ![c].ready = @ \ {n}]
  /\ UNCHANGED <<node, ids>>

Progress == \E v \in Offset : \/ Bootstrap(v)
                              \/ \E c \in Id : Join(v, c)
                              \/ Register(v)
                              \/ Heartbeat(v)

\* No guest can get any further on its own.
Quiescent == \A v \in Offset : /\ ~CanBootstrap(v) /\ ~CanRegister(v)
                               /\ ~CanHeartbeat(v)
                               /\ \A c \in Id : ~CanJoin(v, c)

\* Faults of a guest: the power goes; or a running kubelet misses its lease.
PowerLoss(v) == /\ Up(v)
                /\ node' = [node EXCEPT ![v].st = "stopped"]
                /\ UNCHANGED <<clu, ids>>

Flap(v) == LET c == node[v].cl IN
           /\ Runs(v) /\ c # 0 /\ Name(v) \in clu[c].ready
           /\ clu' = [clu EXCEPT ![c].ready = @ \ {Name(v)}]
           /\ UNCHANGED <<node, ids>>
=============================================================================
