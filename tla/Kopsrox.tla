------------------------------ MODULE Kopsrox -------------------------------
(***************************************************************************)
(* The kopsrox command line.  Every invocation runs one command to its end *)
(* or to the first failing external call (kabort exits, nothing is undone) *)
(* and leaves its state in Proxmox, in the guests, in the bucket and in    *)
(* the files of the working directory.  One step of the model is one call  *)
(* with an effect another actor, or the next invocation, can see.          *)
(*                                                                         *)
(* pc     the next call                                                    *)
(* phase  the procedure or loop it belongs to                              *)
(***************************************************************************)
EXTENDS Guests, Sequences

CONSTANTS
  Commands,    \* the commands the operator uses
  Inis,        \* the versions of kopsrox.ini the operator uses
  Args,        \* the hostnames the operator names
  Careful,     \* the operator restores only what `etcd list` shows
  MaxCmds,     \* bound: invocations in one behaviour
  MaxSnaps,    \* bound: snapshots in the bucket
  FaultKinds,  \* the kinds of fault that may happen
  MaxFaults    \* bound: faults in one behaviour

ASSUME CommandsAssumption ==
  Commands \subseteq {"create", "update", "restore", "destroy", "node-destroy",
                      "k3s-uninstall", "rejoin-slave", "utility",
                      "snapshot", "export-token"}
ASSUME InisAssumption  == Inis \subseteq Configs /\ Inis # {}
ASSUME ArgsAssumption  == Args \subseteq Offset /\ Careful \in BOOLEAN
ASSUME BoundAssumption == MaxCmds \in Nat /\ MaxSnaps \in Nat /\ MaxFaults \in Nat
ASSUME FaultAssumption == FaultKinds \subseteq {"interrupt", "power", "flap", "slow"}

VARIABLES
  cli,         \* the invocation that runs
  tokenFile,   \* <cluster>.k3stoken: <<>> or <<its content>>
  kubeconfig,  \* <cluster>.kubeconfig: the identity it authenticates to, or 0
  s3,          \* the snapshots in the bucket, oldest first
  stamp,       \* config_hash in m1's description: <<>> or <<what was hashed>>
  last,        \* how the last invocation ended
  cmds,        \* invocations so far
  faults       \* faults so far

vars == <<node, clu, ids, cli, tokenFile, kubeconfig, s3, stamp, last, cmds, faults>>
files == <<tokenFile, kubeconfig, s3, stamp>>
ghost == <<last, cmds, faults>>

Pcs == {"idle", "refuse", "next", "clone", "start", "prepare", "check", "join",
        "wait", "list", "wipe", "reset", "manifest", "rewait", "kubeconfig",
        "export", "write", "purge", "cordon", "delnode", "delsecret", "destroy",
        "stamp", "info", "kill", "unconfig", "save"}
Phases == {"none", "create", "restore", "purge", "update", "slaves", "demote",
           "workers", "extras", "rm", "node"}

Snapshot == [ca : 0..MaxId, pw : 0..MaxId, reg : SUBSET Offset,
             ready : SUBSET Offset, secrets : SUBSET Offset]

\* clean: no fault has happened since the command began.
CliState == [cmd : Commands \cup {"none"}, arg : 0..(LastOffset + MaxSnaps),
             cfg : Inis, phase : Phases, pc : Pcs, cur : Offset,
             seen : SUBSET Offset, left : SUBSET Offset, snap : Nat,
             clean : BOOLEAN]

Idle(cfg) == [cmd |-> "none", arg |-> 0, cfg |-> cfg, phase |-> "none",
              pc |-> "idle", cur |-> 0, seen |-> {}, left |-> {}, snap |-> 0,
              clean |-> TRUE]

Init ==
  /\ GuestsInit
  /\ cli \in {Idle(k) : k \in Inis}
  /\ tokenFile = <<>> /\ kubeconfig = 0 /\ s3 = <<>> /\ stamp = <<>>
  /\ last = [cmd |-> "none", arg |-> 0, ok |-> TRUE, clean |-> TRUE]
  /\ cmds = 0 /\ faults = 0

(******************************** Helpers **********************************)
At(p)   == cli.pc = p
Goto(p) == cli' = [cli EXCEPT !.pc = p]
Finish(ok) == /\ cli' = Idle(cli.cfg)
              /\ last' = [cmd |-> cli.cmd, arg |-> cli.arg, ok |-> ok, clean |-> cli.clean]
              /\ UNCHANGED <<cmds, faults>>

\* k3s_check: asked of m1, whichever node is in question.
SeesReady(v) == ApiAt(M1) /\ v \in clu[node[M1].cl].ready

\* What k3s_join writes: get_k3s_token() or ''.
SavedToken == IF tokenFile = <<>> THEN NoToken ELSE tokenFile[1]
LiveToken  == [ca |-> node[M1].cl, pw |-> clu[node[M1].cl].pw]

\* k3s_init_node's nodetype for the node in hand.  Mutant: a master that is
\* re-added is initialised as the master its name says.
TypeByName == CASE cli.phase = "restore" -> "restore"
                [] cli.cur \in {2, 3}    -> "slave"
                [] cli.cur > Utility     -> "worker"
                [] OTHER                 -> "master"
NodeType == CASE cli.phase = "restore"                   -> "restore"
              [] cli.cmd = "rejoin-slave"                -> "slave"
              [] cli.cur \in {2, 3}                      -> "slave"
              [] cli.cur > Utility                       -> "worker"
              [] OTHER                                   -> "master"
Role == CASE NodeType = "worker" -> "agent"
          [] NodeType = "slave"  -> "server"
          [] OTHER               -> "init"
\* Mutant of JoinToken: a new cluster is not pinned to the saved token.
UnpinnedToken == IF NodeType \in {"restore", "master"} THEN NoToken ELSE SavedToken
JoinToken == IF NodeType = "restore" THEN NoToken ELSE SavedToken

\* other_master: the first of m1, m2, m3 that has a VM and is not the node.
\* Mutant: the node may be asked to forget itself.
AnyMaster(v)    == Masters \cap Vms
OtherMasters(v) == (Masters \cap Vms) \ {v}

\* The guest kubectl runs in: m1, or for k3s-uninstall the other master.
Routes == IF cli.cmd = "k3s-uninstall"
            THEN {m \in OtherMasters(cli.cur) : \A w \in OtherMasters(cli.cur) : m <= w}
            ELSE {M1}

\* The token file has to exist before a restore destroys anything.
MayRestore == tokenFile # <<>>

\* k3s_rm_cluster goes from the highest id down, every other loop upwards.
\* Mutant: the list is not reversed.
Ascending(v, w) == v <= w
Before(v, w) == IF cli.phase = "rm" THEN v >= w ELSE v <= w

(***************************** The procedures ******************************)
\* Where a command starts: its phase, the first call and the node in hand.
\* Mutant of Removable: i0 and u1 are not skipped.
EveryVm   == Vms
Removable == Vms \ Protected
Entry(c, a) ==
  CASE c = "create"        -> <<"create", IF M1 \in Vms THEN "check" ELSE "clone", M1>>
    [] c = "update"        -> <<"update", "check", M1>>
    [] c = "restore"       -> <<"rm", IF MayRestore THEN "next" ELSE "refuse", M1>>
    [] c = "destroy"       -> <<"rm", "next", M1>>
    [] c = "node-destroy"  -> <<"node", IF a \notin Vms THEN "refuse" ELSE
                                        IF a = M1 THEN "destroy" ELSE "cordon", a>>
    [] c = "k3s-uninstall" -> <<"node", IF a \in Vms THEN "kill" ELSE "refuse", a>>
    [] c = "rejoin-slave"  -> <<"node", IF a \in Vms THEN "check" ELSE "refuse", a>>
    [] c = "utility"       -> <<"node", IF Utility \in Vms THEN "info" ELSE "clone", Utility>>
    [] c = "snapshot"      -> <<"node", IF M1 \in Vms THEN "save" ELSE "refuse", M1>>
    [] c = "export-token"  -> <<"node", "export", M1>>

\* The arguments a command takes: a hostname, a snapshot (0 for the latest).
Takes(c) == CASE c \in {"node-destroy", "k3s-uninstall"} -> Args
              [] c = "rejoin-slave" -> Args \cap Masters
              [] c = "restore"      -> IF Careful /\ s3 = <<>> THEN {} ELSE
                                       {0} \cup IF Careful THEN DOMAIN s3 ELSE 1..MaxSnaps
              [] c = "snapshot"     -> IF Len(s3) < MaxSnaps THEN {0} ELSE {}
              [] OTHER              -> {0}

\* What a loop does first with a node, and what comes after the loop.
\* Mutants: a demoted master is destroyed without leaving the cluster; one
\* worker too many is kept.
BodyNoDelete(v) == CASE cli.phase \in {"slaves", "workers"} ->
                          IF v \in cli.seen THEN "check" ELSE "clone"
                     [] cli.phase = "purge" -> "delnode"
                     [] OTHER               -> "destroy"
Body(v) == CASE cli.phase \in {"slaves", "workers"} ->
                  IF v \in cli.seen THEN "check" ELSE "clone"
             [] cli.phase = "purge"     -> "delnode"
             [] cli.phase = "rm" /\ v = M1 -> "destroy"
             [] OTHER                   -> "cordon"
Demoted == IF cli.cfg.masters = 1 THEN cli.seen \cap {2, 3} ELSE {}
ExtrasButOne == {v \in cli.seen : v > LastWorker(cli.cfg) + 1}
Extras  == {v \in cli.seen : v > LastWorker(cli.cfg)}
Enter(ph, p, v, todo) ==
  cli' = [cli EXCEPT !.phase = ph, !.pc = p, !.cur = v, !.left = todo]

\* k3s_init_node, k3s_remove_node or clone is done with the node in hand.
Return ==
  CASE cli.phase = "create" ->
         Enter("update", "check", M1, {}) /\ UNCHANGED ghost
    [] cli.phase = "restore" ->
         Enter("purge", "purge", M1, {}) /\ UNCHANGED ghost
    [] cli.phase = "update" ->
         /\ cli' = [cli EXCEPT !.phase = "slaves", !.pc = "next", !.seen = Vms,
                               !.left = Slaves(cli.cfg)]
         /\ UNCHANGED ghost
    [] cli.phase = "node" -> Finish(TRUE)
    [] OTHER -> Goto("next") /\ UNCHANGED ghost

(******************************* Invocation ********************************)
\* kopsrox_config.init: without the template only image and config commands
\* run, and every stopped VM but the template is powered on.
PoweredOn == [v \in Offset |-> IF v # Image /\ node[v].st = "stopped"
                                 THEN Booted(node[v]) ELSE node[v]]
Begin(c, a, k) ==
  /\ At("idle") /\ cmds < MaxCmds /\ Image \in Vms /\ a \in Takes(c)
  /\ node' = PoweredOn
  /\ cli' = [cmd |-> c, arg |-> a, cfg |-> k, phase |-> Entry(c, a)[1],
             pc |-> Entry(c, a)[2], cur |-> Entry(c, a)[3], seen |-> {},
             left |-> IF c \in {"restore", "destroy"} THEN Removable ELSE {},
             snap |-> 0, clean |-> TRUE]
  /\ cmds' = cmds + 1
  /\ UNCHANGED <<clu, ids, files, last, faults>>

Refuse == At("refuse") /\ Finish(FALSE) /\ UNCHANGED <<gvars, files>>

\* Mutant of Pick: the loop counter is not advanced.
PickAgain(v) ==
  /\ At("next") /\ v \in cli.left /\ \A w \in cli.left : Before(v, w)
  /\ cli' = [cli EXCEPT !.pc = Body(v), !.cur = v]
  /\ UNCHANGED <<gvars, files, ghost>>

\* The next node of a loop, and the next loop.
Pick(v) ==
  /\ At("next") /\ v \in cli.left /\ \A w \in cli.left : Before(v, w)
  /\ cli' = [cli EXCEPT !.pc = Body(v), !.cur = v, !.left = @ \ {v}]
  /\ UNCHANGED <<gvars, files, ghost>>

LoopEnds ==
  /\ At("next") /\ cli.left = {}
  /\ IF cli.phase = "rm" /\ cli.cmd # "restore" THEN Finish(TRUE) ELSE
       /\ UNCHANGED ghost
       /\ CASE cli.phase = "rm"      -> Enter("restore", "clone", M1, {})
            [] cli.phase = "purge"   -> Enter("update", "check", M1, {})
            [] cli.phase = "slaves"  -> Enter("demote", "next", cli.cur, Demoted)
            [] cli.phase = "demote"  -> Enter("workers", "next", cli.cur,
                                              WorkersOf(cli.cfg))
            [] cli.phase = "workers" -> Enter("extras", "next", cli.cur, Extras)
            [] cli.phase = "extras"  -> Enter("update", "stamp", M1, {})
  /\ UNCHANGED <<gvars, files>>

(******************************** clone ************************************)
Cloned  == [Absent EXCEPT !.st = "stopped"]
Prepared(n) == [n EXCEPT !.prepared = TRUE]

Clone == /\ At("clone") /\ Goto("start")
         /\ node' = [node EXCEPT ![cli.cur] = Cloned]
         /\ UNCHANGED <<clu, ids, files, ghost>>

Start == /\ At("start") /\ Goto("prepare")
         /\ node' = [node EXCEPT ![cli.cur] = Booted(@)]
         /\ UNCHANGED <<clu, ids, files, ghost>>

Prepare == /\ At("prepare") /\ Up(cli.cur)
           /\ Goto(IF cli.cur = Utility THEN "info" ELSE "check")
           /\ node' = [node EXCEPT ![cli.cur] = Prepared(@)]
           /\ UNCHANGED <<clu, ids, files, ghost>>

(***************************** k3s_init_node *******************************)
CheckReady == /\ At("check") /\ Up(cli.cur) /\ Up(M1) /\ SeesReady(cli.cur)
              /\ Return
              /\ UNCHANGED <<gvars, files>>

CheckNotReady ==
  /\ At("check") /\ Up(cli.cur) /\ Up(M1) /\ ~SeesReady(cli.cur)
  /\ Goto(IF NodeType = "restore" /\ SavedToken = NoToken THEN "refuse" ELSE "join")
  /\ UNCHANGED <<gvars, files, ghost>>

\* k3s_join: the configuration is written, the unit is started if it is not.
K3sJoin == /\ At("join") /\ Up(cli.cur) /\ Goto("wait")
           /\ node' = [node EXCEPT ![cli.cur] =
                         Started(Configured(@, Role, JoinToken, cli.cfg.opts))]
           /\ UNCHANGED <<clu, ids, files, ghost>>

AfterWait == CASE At("wait") /\ NodeType = "restore" -> Goto("list") /\ UNCHANGED ghost
               [] At("rewait") \/ NodeType = "master" -> Goto("kubeconfig") /\ UNCHANGED ghost
               [] OTHER                               -> Return

WaitReady == /\ (At("wait") \/ At("rewait")) /\ Up(M1) /\ SeesReady(cli.cur)
             /\ AfterWait
             /\ UNCHANGED <<gvars, files>>

\* 20 polls and still not Ready: nothing is under way that could change it.
TimedOut == /\ (At("wait") \/ At("rewait")) /\ Up(M1)
            /\ ~SeesReady(cli.cur) /\ Quiescent
            /\ Finish(FALSE)
            /\ UNCHANGED <<gvars, files>>

(********************************* restore *********************************)
\* Without a name the last of the sorted list.  Mutant: the first.
Oldest == IF cli.arg = 0 THEN 1 ELSE cli.arg
Chosen == IF cli.arg = 0 THEN Len(s3) ELSE cli.arg
ListSnapshots ==
  /\ At("list") /\ Up(cli.cur)
  /\ cli' = [cli EXCEPT !.snap = IF Chosen \in DOMAIN s3 THEN Chosen ELSE 0,
                        !.pc = IF Chosen \in DOMAIN s3 THEN "wipe" ELSE "refuse"]
  /\ UNCHANGED <<gvars, files, ghost>>

Wipe == /\ At("wipe") /\ Up(cli.cur) /\ Goto("reset")
        /\ node' = [node EXCEPT ![cli.cur] = Wiped(Killed(@))]
        /\ UNCHANGED <<clu, ids, files, ghost>>

\* k3s server --cluster-reset with the saved token: the snapshot's bootstrap
\* data opens only with the password it was taken under.
Decrypts(s) == s.pw = SavedToken.pw
Restored(s, v) == [pw |-> s.pw, members |-> {v}, reg |-> s.reg, ready |-> s.ready,
                   secrets |-> s.secrets \ {v}, cordoned |-> {}, vip |-> FALSE]
Reset ==
  LET s == s3[cli.snap] IN
  /\ At("reset") /\ Up(cli.cur)
  /\ IF Decrypts(s)
       THEN /\ Goto("manifest")
            /\ node' = [node EXCEPT ![cli.cur].cl = s.ca]
            /\ clu' = [clu EXCEPT ![s.ca] = Restored(s, cli.cur)]
       ELSE Goto("refuse") /\ UNCHANGED <<node, clu>>
  /\ UNCHANGED <<ids, files, ghost>>

\* The reset wiped the kube-vip manifest.  Mutant: it is not written again.
NotReapplied(n) == n
Reapplied(n) == [n EXCEPT !.manifest = TRUE]
Manifest == /\ At("manifest") /\ Up(cli.cur) /\ Goto("rewait")
            /\ node' = [node EXCEPT ![cli.cur] = Started(Reapplied(@))]
            /\ UNCHANGED <<clu, ids, files, ghost>>

\* Everything the restored API still lists, the restored master excepted.
\* Mutant: the restored objects are left alone.
NoStale == {}
Stale == IF ApiAt(M1) THEN clu[node[M1].cl].reg \ {M1} ELSE {}
Purge == /\ At("purge") /\ Up(M1)
         /\ cli' = [cli EXCEPT !.pc = "next", !.left = Stale]
         /\ UNCHANGED <<gvars, files, ghost>>

(****************************** the exports ********************************)
Kubeconfig == /\ At("kubeconfig") /\ Up(M1) /\ Goto("export")
              /\ kubeconfig' = node[M1].cl
              /\ UNCHANGED <<gvars, tokenFile, s3, stamp, ghost>>

\* export_k3s_token opens the file for writing, which empties it, and then
\* writes.  An empty saved token has no password field: the comparison fails.
\* Mutant of PasswordsDiffer: the file is always overwritten.
NeverDiffer == FALSE
PasswordsDiffer == cli.phase # "restore" /\ tokenFile # <<>>
                     /\ SavedToken.pw # LiveToken.pw
ExportToken ==
  /\ At("export") /\ Up(M1)
  /\ CASE node[M1].cl = 0 -> Finish(FALSE) /\ UNCHANGED files
       [] node[M1].cl # 0 /\ tokenFile = <<LiveToken>> -> Return /\ UNCHANGED files
       [] node[M1].cl # 0 /\ tokenFile # <<LiveToken>> /\ PasswordsDiffer ->
            Finish(FALSE) /\ UNCHANGED files
       [] OTHER -> /\ Goto("write") /\ tokenFile' = <<NoToken>>
                   /\ UNCHANGED <<kubeconfig, s3, stamp, ghost>>
  /\ UNCHANGED gvars

WriteToken == /\ At("write") /\ Return
              /\ tokenFile' = <<LiveToken>>
              /\ UNCHANGED <<gvars, kubeconfig, s3, stamp>>

(*************************** removing a node *******************************)
\* kubectl in guest v: without an API server behind it nothing happens, and
\* nobody looks at the result.
Kubectl(v, k) == clu' = IF ApiAt(v) THEN [clu EXCEPT ![node[v].cl] = k] ELSE clu
Api(v)        == clu[node[v].cl]

Cordon == /\ At("cordon") /\ Goto("delnode")
          /\ \E v \in Routes : Up(v) /\ Kubectl(v, Cordoned(Api(v), cli.cur))
          /\ UNCHANGED <<node, ids, files, ghost>>

DelNode == /\ At("delnode") /\ Goto("delsecret")
           /\ \E v \in Routes : Up(v) /\ Kubectl(v, NodeDeleted(Api(v), cli.cur))
           /\ UNCHANGED <<node, ids, files, ghost>>

AfterSecret == IF cli.phase = "purge" \/ cli.cmd = "k3s-uninstall"
                 THEN Return ELSE Goto("destroy") /\ UNCHANGED ghost
DelSecret == /\ At("delsecret") /\ AfterSecret
             /\ \E v \in Routes : Up(v) /\ Kubectl(v, SecretDeleted(Api(v), cli.cur))
             /\ UNCHANGED <<node, ids, files>>

Destroy == /\ At("destroy") /\ Return
           /\ node' = [node EXCEPT ![cli.cur] = Absent]
           /\ stamp' = IF cli.cur = M1 THEN <<>> ELSE stamp
           /\ UNCHANGED <<clu, ids, tokenFile, kubeconfig, s3>>

(************************* stamp, k3s-uninstall, etcd **********************)
Stamp == /\ At("stamp") /\ M1 \in Vms /\ Goto("info")
         /\ stamp' = <<cli.cfg>>
         /\ UNCHANGED <<gvars, tokenFile, kubeconfig, s3, ghost>>

Info == /\ At("info") /\ Up(M1) /\ Finish(TRUE) /\ UNCHANGED <<gvars, files>>

Kill == /\ At("kill") /\ Up(cli.cur) /\ Goto("unconfig")
        /\ node' = [node EXCEPT ![cli.cur] = Killed(@)]
        /\ UNCHANGED <<clu, ids, files, ghost>>

\* Both rancher directories go.  The server unit without a configuration is a
\* k3s server of its own; an agent unit, or none at all, is nothing.
Unconfigured(n) == [n EXCEPT !.role = IF @ \in {"init", "server"} THEN "init" ELSE "none",
                             !.tok = NoToken, !.opts = {}]
Unconfig ==
  /\ At("unconfig") /\ Up(cli.cur)
  /\ node' = [node EXCEPT ![cli.cur] = Unconfigured(Wiped(@))]
  /\ IF OtherMasters(cli.cur) = {} THEN Finish(TRUE)
                                   ELSE Goto("delnode") /\ UNCHANGED ghost
  /\ UNCHANGED <<clu, ids, files>>

Taken(c) == [ca |-> c, pw |-> clu[c].pw, reg |-> clu[c].reg,
             ready |-> clu[c].ready, secrets |-> clu[c].secrets]
SaveSnapshot ==
  /\ At("save") /\ Up(M1)
  /\ IF ApiAt(M1)
       THEN Finish(TRUE) /\ s3' = Append(s3, Taken(node[M1].cl))
       ELSE Finish(FALSE) /\ UNCHANGED s3
  /\ UNCHANGED <<gvars, tokenFile, kubeconfig, stamp>>

(******************************** failures *********************************)
\* The guests a call goes through; qa_exec gives up on one that does not answer.
Needs == CASE At("check") -> {cli.cur, M1}
           [] cli.pc \in {"prepare", "join", "list", "wipe", "reset", "manifest",
                          "kill", "unconfig"}           -> {cli.cur}
           [] cli.pc \in {"cordon", "delnode", "delsecret"} -> Routes
           [] cli.pc \in {"purge", "kubeconfig", "export", "info", "save",
                          "wait", "rewait"}             -> {M1}
           [] OTHER -> {}
NoAnswer == /\ (\E v \in Needs : ~Up(v)) \/ (At("stamp") /\ M1 \notin Vms)
            /\ Finish(FALSE)
            /\ UNCHANGED <<gvars, files>>

\* internet_check: a guest without its static address may have no way out.
NoInternet == /\ At("check") /\ Up(cli.cur) /\ ~node[cli.cur].prepared
              /\ Finish(FALSE)
              /\ UNCHANGED <<gvars, files>>

Fault(kind) == /\ kind \in FaultKinds /\ faults < MaxFaults
               /\ faults' = faults + 1 /\ UNCHANGED cmds

Cut == /\ cli' = Idle(cli.cfg)
       /\ last' = [cmd |-> cli.cmd, arg |-> cli.arg, ok |-> FALSE, clean |-> FALSE]

\* Ctrl-C, a lost session, a failing qm call: the process ends where it is.
Interrupt == /\ Fault("interrupt") /\ ~At("idle")
             /\ Cut
             /\ UNCHANGED <<gvars, files>>

\* The polls ran out before a guest that was still getting there.
TooSlow == /\ Fault("slow") /\ (At("wait") \/ At("rewait"))
           /\ ~SeesReady(cli.cur) /\ ~Quiescent
           /\ Cut
           /\ UNCHANGED <<gvars, files>>

GuestFault == /\ \E v \in Offset : \/ Fault("power") /\ PowerLoss(v)
                                   \/ Fault("flap") /\ Flap(v)
              /\ cli' = [cli EXCEPT !.clean = At("idle")]
              /\ UNCHANGED <<files, last>>

(***************************** The specification ***************************)
Step ==
  \/ Refuse \/ (\E v \in Offset : Pick(v)) \/ LoopEnds
  \/ Clone \/ Start \/ Prepare
  \/ CheckReady \/ CheckNotReady \/ K3sJoin \/ WaitReady \/ TimedOut
  \/ ListSnapshots \/ Wipe \/ Reset \/ Manifest \/ Purge
  \/ Kubeconfig \/ ExportToken \/ WriteToken
  \/ Cordon \/ DelNode \/ DelSecret \/ Destroy
  \/ Stamp \/ Info \/ Kill \/ Unconfig \/ SaveSnapshot
  \/ NoAnswer \/ NoInternet

Invoke == \E c \in Commands, a \in 0..(LastOffset + MaxSnaps), k \in Inis : Begin(c, a, k)

GuestStep == /\ Progress \/ (\E c \in Id, n \in Offset : LeaseExpires(c, n))
             /\ UNCHANGED <<cli, files, ghost>>

Next == Invoke \/ Step \/ GuestStep \/ Interrupt \/ TooSlow \/ GuestFault

Spec == Init /\ [][Next]_vars
=============================================================================
