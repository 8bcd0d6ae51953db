------------------------- MODULE KopsroxProperties --------------------------
(***************************************************************************)
(* What the kopsrox command line is checked for, and in KopsroxProofs      *)
(* proved to do.                                                           *)
(***************************************************************************)
EXTENDS Kopsrox

\* Every variable has its type; the lists of nodes name nodes that exist.
GuestsTyped == /\ node \in [Offset -> NodeState]
               /\ clu \in [Id -> ClusterState]
               /\ ids \in 0..MaxId
CliTyped    == /\ cli \in CliState
               /\ last \in [cmd : Commands \cup {"none"}, arg : Nat,
                            ok : BOOLEAN, clean : BOOLEAN]
               /\ cmds \in Nat /\ faults \in Nat
FilesTyped  == /\ tokenFile \in {<<>>} \cup {<<t>> : t \in Token}
               /\ kubeconfig \in 0..MaxId
               /\ s3 \in Seq(Snapshot)
               /\ stamp \in {<<>>} \cup {<<k>> : k \in Inis}
TypeOK == GuestsTyped /\ CliTyped /\ FilesTyped

(***************************** What is observed ****************************)
Ended     == cli.cmd # "none" /\ cli'.cmd = "none"
EndsOk(c) == Ended /\ cli.cmd = c /\ last'.ok
Gone(v)   == v \in Vms /\ v \notin Vms'
ApiUp     == \E m \in Masters : ApiAt(m)
Serving   == {node[v].cl : v \in {u \in Offset : node[u].cl # 0 /\ Serves(u, node[u].cl)}}

\* The VMs are the ones kopsrox.ini asks for, and m1's API lists them all.
Registered == /\ Vms \ Protected = Target(cli.cfg) /\ node[M1].cl # 0
              /\ Target(cli.cfg) \subseteq clu[node[M1].cl].reg
\* ... and the guests behind those names are in m1's cluster, and nothing else.
Reconciled == /\ Registered
              /\ \A v \in Target(cli.cfg) : node[v].cl = node[M1].cl
              /\ clu[node[M1].cl].reg = Target(cli.cfg)
Exported == tokenFile = <<LiveToken>> /\ kubeconfig = node[M1].cl

(***************************** Build and update ****************************)
\* README.md:160-163: a create, update or restore that ends well leaves exactly
\* the nodes of kopsrox.ini, all joined to m1's cluster, its credentials saved
\* and the drift baseline set.
BuiltAsAsked == [][Ended /\ last'.ok /\ cli.cmd \in {"create", "update", "restore"}
                     => Reconciled /\ Exported /\ stamp = <<cli.cfg>>]_vars

\* kopsrox_k3s.py:279-281: however often commands were cut short before, the
\* drift baseline is only moved once every node asked for is there and listed.
StampIsTrue == [][stamp' # stamp /\ stamp' # <<>> => Registered]_vars

\* Nothing ever runs two k3s clusters under one cluster_id: m1 is cloned and
\* given cluster-init only when no other node is left, which takes the order of
\* k3s_rm_cluster (m1 last) and the idempotence of cluster_create together.
OneCluster == Cardinality(Serving) <= 1

\* kopsrox_k3s.py:159-160: no guest is turned away because the cluster still
\* holds the node password of an earlier guest of its name.
NoRejectedGuest == \A v \in Offset :
  Runs(v) /\ node[v].cl # 0 => PasswordFits(v, node[v].cl)

\* Growing to three masters and shrinking to one, m1's API answers throughout:
\* members leave etcd before their VM goes.
QuorumKept == [][ApiAt(M1) /\ cli.phase \notin {"rm", "restore"} => ApiAt(M1)']_vars

\* A command nothing disturbed ends well, whatever commands came before it; the
\* refusals left are the ones the code states.
ExpectedRefusal ==
  CASE cli.cmd \in {"update", "snapshot", "export-token"} -> M1 \notin Vms
    [] cli.cmd = "restore" -> tokenFile = <<>> \/ Chosen \notin DOMAIN s3
    [] OTHER               -> FALSE
CleanEnds == [][Ended /\ last'.clean /\ ~last'.ok => ExpectedRefusal]_vars

\* Every command ends: all loops and polls are bounded, and whoever waits for a
\* guest is answered or times out.
CommandsEnd == cli.cmd # "none" ~> cli.cmd = "none"

(***************************** Backup and restore **************************)
\* kopsrox_k3s.py:83-85: the saved token opens every snapshot in the bucket.
SnapshotsDecryptable == ~At("write") =>
  \A i \in DOMAIN s3 : s3[i].pw = SavedToken.pw

\* README.md:163: without an argument the newest snapshot comes back, otherwise
\* the one named.
RestoreRecovers == [][EndsOk("restore") =>
  node[M1].cl = s3[IF cli.arg = 0 THEN Len(s3) ELSE cli.arg].ca]_vars

(********************************* Removal *********************************)
\* README.md:165: the image template and the utility VM survive every command
\* but a `node destroy` that names them.
ProtectedStays == \A v \in Protected :
  Gone(v) => cli.cmd = "node-destroy" /\ cli.arg = v
ProtectedKept == [][ProtectedStays]_vars

\* The VMs come and go as ClusterPromise says, whatever fails.
Doing == CASE cli.phase = "none" -> "idle"
           [] cli.phase = "rm"   -> "teardown"
           [] cli.phase = "node" -> "node"
           [] OTHER              -> "build"
Goal == CASE Doing = "build" -> Target(cli.cfg)
          [] Doing = "node"  -> {cli.cur}
          [] OTHER           -> {}
Promise == INSTANCE ClusterPromise WITH vms <- Vms, doing <- Doing, goal <- Goal
KeepsPromise == Promise!PromiseSpec

(**************************** Re-adding a master ***************************)
\* README.md:191: a rejoined master serves the cluster the other masters serve.
Rejoined == [][EndsOk("rejoin-slave") =>
  /\ ApiAt(cli.arg) /\ cli.arg \in clu[node[cli.arg].cl].reg
  /\ \A m \in Masters : ApiAt(m) => node[m].cl = node[cli.arg].cl]_vars

\* README.md:225: taking k3s off one node leaves the API up as long as another
\* master is healthy.
UninstallKeepsApi == [][cli.cmd = "k3s-uninstall"
  /\ (\E m \in Masters \ {cli.arg} : ApiAt(m)) => ApiUp']_vars

(********************* Statements the code does not keep *******************)
\* README.md:160: `cluster create` is safe to re-run: left alone, it ends well.
SafeToRerun == [][Ended /\ cli.cmd = "create" /\ last'.clean => last'.ok]_vars

\* verb_cluster.py:14-15: a restore without the token destroys nothing.
KeyCheckedFirst == [][cli.cmd = "restore" /\ (\E v \in Offset : Gone(v))
                        => SavedToken # NoToken]_vars
=============================================================================
