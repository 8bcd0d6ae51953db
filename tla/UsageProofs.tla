---------------------------- MODULE UsageProofs -----------------------------
(***************************************************************************)
(* Theorems about ways of using kopsrox.  Commands that are cut short and  *)
(* begun again never replace a saved password.  Commands nothing disturbs, *)
(* in whatever order they are given, build what kopsrox.ini asks for, end  *)
(* well or are refused for a stated reason, turn no guest away, keep the   *)
(* API up and every snapshot readable.  Masters that are taken out and put *)
(* back one after the other, m1 too, serve the cluster they left.          *)
(***************************************************************************)
EXTENDS KopsroxProofs, MCRetry

(******************************* The password ******************************)
\* Whatever is in the file is what was last saved or nothing, and so is what is
\* about to be written.
PasswordInv ==
  /\ tokenFile = <<>> => saved = 0
  /\ SavedToken.pw \in {0, saved}
  /\ At("write") /\ saved # 0 => LiveToken.pw \in {0, saved}
  /\ cli.phase = "restore" /\ cli.pc \in {"manifest", "rewait", "kubeconfig", "export"} =>
       node[M1].cl # 0 /\ SavedToken.pw = LiveToken.pw

\* The calls a procedure can hand over to.
LEMMA ReturnPc ==
  ASSUME CliTyped, Return
  PROVE  cli'.pc \in {"check", "purge", "next", "idle"}
<1>1. ASSUME NEW ph, NEW p, NEW v, NEW todo, Enter(ph, p, v, todo) PROVE cli'.pc = p
  BY <1>1 DEF Enter, CliTyped, CliState
<1>2. CASE cli.phase = "create"
  BY <1>1, <1>2 DEF Return
<1>3. CASE cli.phase = "restore"
  BY <1>1, <1>3 DEF Return
<1>4. CASE cli.phase = "update"
  BY <1>4 DEF Return, CliTyped, CliState
<1>5. CASE cli.phase = "node"
  BY <1>5, EndsIdle DEF Return
<1>6. CASE cli.phase \notin {"create", "restore", "update", "node"}
  BY <1>6, GotoKeeps DEF Return
<1> QED BY <1>2, <1>3, <1>4, <1>5, <1>6

\* Where the calls that write a cluster's credentials out come from.
LEMMA ToExport ==
  ASSUME TypeInv, PlanInv, ControlInv, Step
  PROVE  /\ cli'.pc = "manifest"   => Reset /\ Decrypts(s3[cli.snap])
         /\ cli'.pc = "rewait"     => Manifest
         /\ cli'.pc = "kubeconfig" => WaitReady /\ ~(At("wait") /\ cli.phase = "restore")
         /\ cli'.pc = "export"     => Kubeconfig
         /\ cli'.pc = "write"      => ExportToken
<1> USE DEF TypeInv, TypeOK
<1> DEFINE Here == {"manifest", "rewait", "kubeconfig", "export", "write"}
<1>1. ASSUME NEW p, Goto(p) PROVE cli'.pc = p
  BY <1>1, GotoKeeps
<1>2. ASSUME NEW ok \in BOOLEAN, Finish(ok) PROVE cli'.pc \notin Here
  BY <1>2, EndsIdle
<1>3. ASSUME NEW ph, NEW p, NEW v, NEW todo, Enter(ph, p, v, todo) PROVE cli'.pc = p
  BY <1>3 DEF Enter, CliTyped, CliState
<1>4. Return => cli'.pc \notin Here
  BY ReturnPc
<1>5. ASSUME NEW v \in Offset, Pick(v) PROVE cli'.pc \notin Here
  <2>1. cli'.pc = Body(v)
    BY <1>5 DEF Pick, CliTyped, CliState
  <2> QED BY <2>1 DEF Body
<1>6. ASSUME LoopEnds PROVE cli'.pc \notin Here
  <2>1. cli.phase \in Loops
    BY <1>6 DEF LoopEnds, InHand
  <2>2. \/ Finish(TRUE)
        \/ Enter("restore", "clone", M1, {}) \/ Enter("update", "check", M1, {})
        \/ Enter("demote", "next", cli.cur, Demoted)
        \/ Enter("workers", "next", cli.cur, WorkersOf(cli.cfg))
        \/ Enter("extras", "next", cli.cur, Extras)
        \/ Enter("update", "stamp", M1, {})
    BY <1>6, <2>1 DEF LoopEnds, Loops
  <2> QED BY <1>2, <1>3, <2>2
<1>7. ListSnapshots \/ Purge => cli'.pc \notin Here
  BY DEF ListSnapshots, Purge, CliTyped, CliState
<1>8. Reset => \/ cli'.pc = "manifest" /\ Decrypts(s3[cli.snap])
               \/ cli'.pc = "refuse"
  BY <1>1 DEF Reset
<1>9. WaitReady => \/ cli'.pc \notin Here
                   \/ cli'.pc = "kubeconfig" /\ ~(At("wait") /\ cli.phase = "restore")
  <2>1. CASE At("wait") /\ cli.phase = "restore"
    <3>1. cli.cur = M1 /\ cli.cmd = "restore"
      BY <2>1 DEF PlanInv, CallFits, ControlInv, Commanded
    <3>2. NodeType = "restore"
      BY <2>1, <3>1 DEF NodeType, M1, Utility
    <3>3. AfterWait => Goto("list")
      BY <2>1, <3>2 DEF AfterWait, At
    <3> QED BY <1>1, <3>3 DEF WaitReady
  <2>2. CASE ~(At("wait") /\ cli.phase = "restore")
    <3>1. AfterWait => Goto("list") \/ Goto("kubeconfig") \/ Return
      BY DEF AfterWait
    <3> QED BY <1>1, <1>4, <2>2, <3>1 DEF WaitReady
  <2> QED BY <2>1, <2>2
<1>10. ExportToken => cli'.pc \notin Here \/ cli'.pc = "write"
  <2>1. ExportToken => Finish(FALSE) \/ Return \/ Goto("write")
    BY DEF ExportToken
  <2> QED BY <1>1, <1>2, <1>4, <2>1
<1>11. DelSecret \/ Unconfig \/ WriteToken \/ Destroy \/ CheckReady => cli'.pc \notin Here
  <2>1. DelSecret \/ Unconfig \/ WriteToken \/ Destroy \/ CheckReady =>
          Finish(TRUE) \/ Return \/ Goto("destroy") \/ Goto("delnode")
    BY DEF DelSecret, AfterSecret, Unconfig, WriteToken, Destroy, CheckReady
  <2> QED BY <1>1, <1>2, <1>4, <2>1
<1>12. Clone \/ Start \/ Prepare \/ CheckNotReady \/ K3sJoin \/ Wipe => cli'.pc \notin Here
  BY <1>1 DEF Clone, Start, Prepare, CheckNotReady, K3sJoin, Wipe
<1>13. Cordon \/ DelNode \/ Stamp \/ Kill => cli'.pc \notin Here
  BY <1>1 DEF Cordon, DelNode, Stamp, Kill
<1>14. (Manifest => cli'.pc = "rewait") /\ (Kubeconfig => cli'.pc = "export")
  BY <1>1 DEF Manifest, Kubeconfig
<1>15. Refuse \/ TimedOut \/ Info \/ SaveSnapshot \/ NoAnswer \/ NoInternet => cli'.pc \notin Here
  BY <1>2 DEF Refuse, TimedOut, Info, SaveSnapshot, NoAnswer, NoInternet
<1> QED BY <1>5, <1>6, <1>7, <1>8, <1>9, <1>10, <1>11, <1>12, <1>13, <1>14, <1>15 DEF Step

\* The units at work never change the credentials of a cluster m1 belongs to.
LEMMA LiveStays ==
  ASSUME TypeInv, IdentityInv, GuestStep \/ GuestFault, node[M1].cl # 0
  PROVE  node'[M1].cl = node[M1].cl /\ LiveToken' = LiveToken
<1> USE DEF TypeInv, TypeOK
<1>1. M1 \in Offset /\ node[M1] \in NodeState
  BY LayoutFacts DEF GuestsTyped
<1>2. node'[M1].cl = node[M1].cl
  BY <1>1, GuestNodes DEF Bootstrap, CanBootstrap, Join, CanJoin
<1>3. node[M1].cl \in Id /\ node[M1].cl <= ids /\ ids \in Int
  BY <1>1, MaxIdAssumption DEF IdentityInv, Id, NodeState, GuestsTyped
<1>4. clu'[node[M1].cl].pw = clu[node[M1].cl].pw
  BY <1>3, GuestClusters DEF Kept, New
<1> QED BY <1>2, <1>4 DEF LiveToken

\* What a call leaves of m1's credentials: everything, or m1 is what it works on.
LEMMA CallsKeepLive ==
  ASSUME TypeInv, Step, ~Clone, ~Destroy, ~Wipe, ~Unconfig, ~Reset
  PROVE  node'[M1].cl = node[M1].cl /\ (node[M1].cl # 0 => LiveToken' = LiveToken)
<1> USE DEF TypeInv, TypeOK
<1>1. M1 \in Offset /\ node[M1] \in NodeState
  BY LayoutFacts DEF GuestsTyped
<1>2. node'[M1].cl = node[M1].cl
  BY <1>1, CallNodes DEF CallEffect
<1>3. node[M1].cl # 0 => node[M1].cl \in Id
  BY <1>1, MaxIdAssumption DEF Id, NodeState
<1>4. node[M1].cl # 0 => clu'[node[M1].cl].pw = clu[node[M1].cl].pw
  BY <1>3, CallClusters DEF Kept
<1> QED BY <1>2, <1>4 DEF LiveToken

\* Only an export touches the file.
LEMMA OnlyExports ==
  ASSUME Step, tokenFile' # tokenFile
  PROVE  ExportToken \/ WriteToken
<1>1. ~Refuse /\ ~(\E v \in Offset : Pick(v)) /\ ~LoopEnds /\ ~CheckReady /\ ~CheckNotReady
  BY Zenon DEF Refuse, Pick, LoopEnds, CheckReady, CheckNotReady, files
<1>2. ~Clone /\ ~Start /\ ~Prepare /\ ~K3sJoin /\ ~WaitReady /\ ~TimedOut /\ ~ListSnapshots
  BY Zenon DEF Clone, Start, Prepare, K3sJoin, WaitReady, TimedOut, ListSnapshots, files
<1>3. ~Wipe /\ ~Reset /\ ~Manifest /\ ~Purge /\ ~Kubeconfig /\ ~Cordon /\ ~DelNode /\ ~DelSecret
  BY Zenon DEF Wipe, Reset, Manifest, Purge, Kubeconfig, Cordon, DelNode, DelSecret, files
<1>4. ~Destroy /\ ~Stamp /\ ~Info /\ ~Kill /\ ~Unconfig /\ ~SaveSnapshot
      /\ ~NoAnswer /\ ~NoInternet
  BY Zenon DEF Destroy, Stamp, Info, Kill, Unconfig, SaveSnapshot, NoAnswer, NoInternet, files
<1> QED BY <1>1, <1>2, <1>3, <1>4 DEF Step

\* It empties it when nothing is in it, when the password is the one it holds
\* already, or after a restore that opened the snapshot with that password.
LEMMA FileChanges ==
  ASSUME TypeInv, PasswordInv, Step, Remember
  PROVE  \/ /\ tokenFile' = tokenFile /\ saved' = saved
            /\ ~(ExportToken /\ cli'.pc = "write")
         \/ /\ ExportToken /\ cli'.pc = "write" /\ node[M1].cl # 0
            /\ tokenFile' = <<NoToken>> /\ saved' = saved
            /\ saved # 0 => LiveToken.pw = SavedToken.pw
         \/ /\ WriteToken /\ tokenFile' = <<LiveToken>>
            /\ saved' = IF LiveToken.pw = 0 THEN saved ELSE LiveToken.pw
<1> USE DEF TypeInv, TypeOK
<1>1. CASE tokenFile' = tokenFile /\ ~(ExportToken /\ cli'.pc = "write")
  <2>1. SavedToken' = SavedToken
    BY <1>1 DEF SavedToken
  <2> QED BY <1>1, <2>1 DEF Remember, PasswordInv
<1>2. ExportToken => \/ tokenFile' = tokenFile /\ cli'.pc # "write"
                     \/ /\ tokenFile' = <<NoToken>> /\ cli'.pc = "write"
                        /\ ~PasswordsDiffer /\ node[M1].cl # 0
  <2>1. ExportToken => \/ tokenFile' = tokenFile /\ (Finish(FALSE) \/ Return)
                       \/ /\ tokenFile' = <<NoToken>> /\ Goto("write")
                          /\ ~PasswordsDiffer /\ node[M1].cl # 0
    BY DEF ExportToken, files
  <2>2. Finish(FALSE) => cli'.pc # "write"
    BY EndsIdle
  <2> QED BY <2>1, <2>2, ReturnPc, GotoKeeps
<1>3. CASE ExportToken /\ cli'.pc = "write"
  <2>1. SavedToken'.pw = 0
    BY <1>2, <1>3 DEF SavedToken, NoToken
  <2>2. cli.pc = "export"
    BY <1>3 DEF ExportToken, At
  <2>3. saved # 0 => LiveToken.pw = SavedToken.pw
    BY <1>2, <1>3, <2>2 DEF PasswordsDiffer, PasswordInv
  <2> QED BY <1>2, <1>3, <2>1, <2>3 DEF Remember
<1>4. CASE WriteToken
  <2>1. tokenFile' = <<LiveToken>>
    BY <1>4 DEF WriteToken
  <2>2. SavedToken' = LiveToken
    BY <2>1 DEF SavedToken
  <2> QED BY <1>4, <2>1, <2>2 DEF Remember
<1> QED BY <1>1, <1>2, <1>3, <1>4, OnlyExports

\* Every call keeps to the password that was saved.
LEMMA StepPassword ==
  ASSUME TypeInv, PlanInv, ControlInv, IdentityInv, PasswordInv, Step, Remember
  PROVE  PasswordInv' /\ (saved # 0 => saved' = saved)
<1> USE DEF TypeInv, TypeOK, At
<1>1. /\ tokenFile' = <<>> => saved' = 0
      /\ SavedToken'.pw \in {0, saved'}
      /\ saved # 0 => saved' = saved
  <2>1. tokenFile' = tokenFile /\ saved' = saved => SavedToken' = SavedToken
    BY DEF SavedToken
  <2>2. tokenFile' = <<NoToken>> => SavedToken'.pw = 0 /\ tokenFile' # <<>>
    BY DEF SavedToken, NoToken
  <2>3. tokenFile' = <<LiveToken>> => SavedToken' = LiveToken /\ tokenFile' # <<>>
    BY DEF SavedToken
  <2>4. WriteToken => cli.pc = "write"
    BY DEF WriteToken
  <2> QED BY <2>1, <2>2, <2>3, <2>4, FileChanges DEF PasswordInv
<1>2. cli'.pc = "write" /\ saved' # 0 => LiveToken'.pw \in {0, saved'}
  <2> SUFFICES ASSUME cli'.pc = "write", saved' # 0 PROVE LiveToken'.pw \in {0, saved'}
    OBVIOUS
  <2>1. ExportToken
    BY ToExport
  <2>3. LiveToken' = LiveToken
    BY <2>1 DEF ExportToken, gvars, LiveToken
  <2>4. saved' = saved /\ (saved # 0 => LiveToken.pw = SavedToken.pw)
    <3>1. ~WriteToken
      BY <2>1 DEF ExportToken, WriteToken
    <3> QED BY <2>1, <3>1, FileChanges
  <2> QED BY <2>3, <2>4 DEF PasswordInv
<1>3. cli'.phase = "restore" /\ cli'.pc \in {"manifest", "rewait", "kubeconfig", "export"} =>
        node'[M1].cl # 0 /\ SavedToken'.pw = LiveToken'.pw
  <2> SUFFICES ASSUME cli'.phase = "restore",
                      cli'.pc \in {"manifest", "rewait", "kubeconfig", "export"}
               PROVE  node'[M1].cl # 0 /\ SavedToken'.pw = LiveToken'.pw
    OBVIOUS
  <2>1. Reset \/ Manifest \/ WaitReady \/ Kubeconfig
    BY ToExport
  <2>2. SavedToken' = SavedToken
    BY <2>1 DEF Reset, Manifest, WaitReady, Kubeconfig, files, SavedToken
  <2>3. cli.phase = "restore" /\ cli.cur = M1
    <3>1. ~\E ok \in BOOLEAN : Finish(ok)
      BY EndsIdle
    <3>2. cli'.pc # "clone"
      OBVIOUS
    <3>3. cli.phase = "restore"
      BY <3>1, <3>2, Onwards DEF UpdateLoops
    <3> QED BY <3>3 DEF PlanInv, CallFits
  <2>4. CASE Reset
    <3> DEFINE s == s3[cli.snap]
    <3>1. cli'.pc = "manifest" /\ Decrypts(s)
      BY <2>4, GotoKeeps, ToExport DEF Reset, Manifest, WaitReady, Kubeconfig
    <3>2. node' = [node EXCEPT ![cli.cur].cl = s.ca]
          /\ clu' = [clu EXCEPT ![s.ca] = Restored(s, cli.cur)]
      BY <2>4, <3>1 DEF Reset
    <3>3. s.ca \in Id /\ s.ca # 0
      BY <2>4, MaxIdAssumption DEF Reset, InHand, IdentityInv, Id, GuestsTyped
    <3>4. node'[M1].cl = s.ca
      BY <2>3, <3>2, LayoutFacts DEF GuestsTyped, NodeState
    <3>5. clu'[s.ca].pw = s.pw
      BY <3>2, <3>3 DEF GuestsTyped, Restored
    <3> QED BY <2>2, <3>1, <3>3, <3>4, <3>5 DEF Decrypts, LiveToken
  <2>5. CASE Manifest \/ WaitReady \/ Kubeconfig
    <3>1. cli.pc \in {"manifest", "rewait", "kubeconfig"}
      BY <2>3, <2>5, ToExport DEF Manifest, WaitReady, Kubeconfig, Reset
    <3>2. node[M1].cl # 0 /\ SavedToken.pw = LiveToken.pw
      BY <2>3, <3>1 DEF PasswordInv
    <3>3. ~Clone /\ ~Destroy /\ ~Wipe /\ ~Unconfig /\ ~Reset
      BY <3>1 DEF Clone, Destroy, Wipe, Unconfig, Reset
    <3>4. node'[M1].cl = node[M1].cl /\ LiveToken' = LiveToken
      BY <3>2, <3>3, CallsKeepLive
    <3> QED BY <2>2, <3>2, <3>4
  <2> QED BY <2>1, <2>4, <2>5
<1> QED BY <1>1, <1>2, <1>3 DEF PasswordInv

\* And no other step touches the file, or the credentials it was checked against.
LEMMA NextPassword ==
  BaseInv /\ PasswordInv /\ [Next /\ Remember]_retryVars
    => PasswordInv' /\ (saved # 0 => saved' = saved)
<1> SUFFICES ASSUME BaseInv, PasswordInv, [Next /\ Remember]_retryVars
             PROVE  PasswordInv' /\ (saved # 0 => saved' = saved)
  OBVIOUS
<1> USE DEF BaseInv, Inv
<1>1. CASE Step /\ Remember
  BY <1>1, StepPassword
<1>2. ASSUME tokenFile' = tokenFile, Remember
      PROVE  SavedToken' = SavedToken /\ saved' = saved
  <2>1. SavedToken' = SavedToken
    BY <1>2 DEF SavedToken
  <2> QED BY <1>2, <2>1 DEF Remember, PasswordInv
<1>3. ASSUME NEW c \in Commands, NEW a, NEW k, Begin(c, a, k), Remember
      PROVE  PasswordInv' /\ saved' = saved
  <2>1. cli'.phase = Entry(c, a)[1] /\ cli'.pc = Entry(c, a)[2]
    BY <1>3 DEF Begin
  <2>2. cli'.phase \in {"create", "update", "rm", "node"} /\ cli'.pc # "write"
    <3>1. cli'.phase \in {"create", "update", "rm", "node"}
      BY <2>1, CommandsAssumption DEF Entry
    <3>2. cli'.pc # "write"
      BY <2>1, CommandsAssumption DEF Entry
    <3> QED BY <3>1, <3>2
  <2>3. tokenFile' = tokenFile
    BY <1>3 DEF Begin, files
  <2> QED BY <1>2, <1>3, <2>2, <2>3 DEF PasswordInv, At
<1>4. CASE (GuestStep \/ GuestFault) /\ Remember
  <2>1. tokenFile' = tokenFile /\ cli'.pc = cli.pc /\ cli'.phase = cli.phase
    BY <1>4 DEF GuestStep, GuestFault, files, TypeInv, TypeOK, CliTyped, CliState
  <2>2. SavedToken' = SavedToken /\ saved' = saved
    BY <1>2, <1>4, <2>1
  <2>3. node[M1].cl # 0 => node'[M1].cl = node[M1].cl /\ LiveToken' = LiveToken
    BY <1>4, LiveStays
  <2>4. At("write") => node[M1].cl # 0
    BY DEF TypeInv, InHand
  <2> QED BY <2>1, <2>2, <2>3, <2>4 DEF PasswordInv, At
<1>5. CASE (Interrupt \/ TooSlow) /\ Remember
  <2>1. tokenFile' = tokenFile /\ cli'.pc = "idle" /\ cli'.phase = "none"
    BY <1>5, EndsIdle DEF Interrupt, TooSlow, files
  <2> QED BY <1>2, <1>5, <2>1 DEF PasswordInv, At
<1>6. CASE UNCHANGED retryVars
  BY <1>6 DEF retryVars, vars, PasswordInv, SavedToken, LiveToken, At
<1> QED BY <1>1, <1>3, <1>4, <1>5, <1>6 DEF Next, Invoke

\* kopsrox_k3s.py:354-355: once a token has been saved, no command, cut short or
\* not, ever replaces it by one with another password, a file left empty by an
\* interrupted export and a restore of another cluster's snapshot included.
THEOREM PasswordSafe == RetrySpec => PasswordKept
<1> DEFINE Safe == saved # 0 => saved' = saved
<1>1. Init /\ saved = 0 => PasswordInv
  <2> SUFFICES ASSUME Init, saved = 0 PROVE PasswordInv
    OBVIOUS
  <2>1. tokenFile = <<>> /\ cli.pc = "idle"
    BY DEF Init, Idle
  <2> QED BY <2>1 DEF PasswordInv, SavedToken, NoToken, At
<1>2. BaseInv /\ PasswordInv /\ [Next /\ Remember]_retryVars => PasswordInv' /\ [Safe]_retryVars
  BY NextPassword
<1>3. [Next /\ Remember]_retryVars => [Next]_vars
  BY DEF retryVars
<1>4. RetrySpec => Spec
  BY <1>3, PTL DEF RetrySpec, Spec
<1> QED BY <1>1, <1>2, <1>4, Base, PTL DEF RetrySpec, PasswordKept

(**************************** Undisturbed commands *************************)
\* Nothing fails but a kubelet that misses its lease, the operator restores what
\* `etcd list` shows, and the bound on identities is no tighter than the one on
\* invocations.
Undisturbed == FaultKinds \subseteq {"flap"} /\ Careful /\ MaxCmds <= MaxId

\* Nobody takes k3s off a node or destroys m1 alone.
Orderly == /\ cli.cmd \notin {"k3s-uninstall", "rejoin-slave"}
           /\ cli.cmd = "node-destroy" => cli.arg # M1

\* m1's identity, and the nodes beside m1.
Cl     == node[M1].cl
Others == Vms \ (Protected \cup {M1})
RightRole(v) == IF v \in {2, 3} THEN "server" ELSE "agent"
Leaving(v)   == v # M1 /\ v = cli.cur /\ cli.pc \in {"delsecret", "destroy"}

\* A node beside m1 is settled in m1's cluster, or it is the one in hand: cloned
\* and not joined yet, or joining.
Blank(n) == n.unit = "disabled" /\ n.cl = 0 /\ n.role = "none" /\ n.manifest
Fresh(v) == /\ v = cli.cur /\ Blank(node[v])
            /\ \/ At("start")
               \/ At("prepare") /\ Up(v)
               \/ cli.pc \in {"check", "join"} /\ Up(v) /\ node[v].prepared
Settled(v) == /\ Up(v) /\ node[v].prepared /\ node[v].unit = "active"
              /\ node[v].role = RightRole(v) /\ node[v].cl = Cl /\ Cl \in node[v].known
              /\ v \in clu[Cl].reg \/ Leaving(v)
Joining(v) == /\ v = cli.cur /\ At("wait")
              /\ Up(v) /\ node[v].prepared /\ node[v].unit = "starting"
              /\ node[v].role = RightRole(v) /\ node[v].tok = LiveToken
              /\ node[v].cl \in {0, Cl} /\ v \notin clu[Cl].reg
OthersInv == /\ \A v \in Offset : v \in Protected \/ v \notin Vms => Inert(v)
             /\ \A v \in Others : Cl # 0 /\ (Settled(v) \/ Fresh(v) \/ Joining(v))
             /\ cli.phase \in {"restore", "purge"} => Others = {}
             /\ cli.phase = "rm" => cli.left \subseteq Vms /\ (Removing => cli.cur \in Vms)
             /\ cli.phase = "purge" /\ ~At("purge") => M1 \notin cli.left
             /\ Removing => cli.cur \notin cli.left /\ (At("destroy") \/ cli.cur # M1)

\* No loop clones a VM that is there.
SeenInv == /\ cli.phase \in {"slaves", "workers"} => cli.left \cap Vms \subseteq cli.seen
           /\ cli.phase \in {"slaves", "demote"} => WorkersOf(cli.cfg) \cap Vms \subseteq cli.seen
           /\ cli.phase \in {"slaves", "workers"} /\ At("clone") => cli.cur \notin Vms
           /\ At("start") /\ cli.cur \in Others => Fresh(cli.cur)

\* The API lists and etcd counts those that are there, but for the ones a
\* restored snapshot brought back and the purge has yet to delete; passwords are
\* kept for nobody else.
ClusterInv == Cl # 0 =>
  /\ \A v \in Offset : v \in clu[Cl].members <=>
       v \in Masters /\ node[v].cl = Cl /\ ~Leaving(v)
  /\ \A v \in clu[Cl].reg :
       \/ cli.phase \in {"restore", "purge"}
       \/ v = M1
       \/ v \in Others /\ node[v].unit = "active" /\ ~Leaving(v)
  /\ cli.phase = "purge" /\ ~At("purge") =>
       clu[Cl].reg \subseteq {M1} \cup cli.left \cup (IF At("delnode") THEN {cli.cur} ELSE {})
  /\ clu[Cl].secrets \subseteq clu[Cl].reg \cup (IF At("delsecret") THEN {cli.cur} ELSE {})
  /\ clu[Cl].pw # 0

\* m1 has no data only while it is being created or restored.
Booting  == /\ Up(M1) /\ node[M1].prepared /\ node[M1].unit = "starting"
            /\ node[M1].role = "init" /\ node[M1].manifest
            /\ At("wait") /\ node[M1].tok = JoinToken
WipedOut == /\ Up(M1) /\ node[M1].prepared /\ node[M1].unit = "killed" /\ node[M1].role = "init"
            /\ cli.phase = "restore" /\ At("reset")
MasterNew == cli.phase \in {"create", "restore"} /\ (Fresh(M1) \/ Booting \/ WipedOut)
MasterBack ==
  /\ Up(M1) /\ node[M1].prepared /\ node[M1].role = "init"
  /\ IF At("manifest") THEN node[M1].unit = "killed"
                       ELSE node[M1].unit \in {"starting", "active"} /\ node[M1].manifest
  /\ node[M1].unit = "active" => clu[Cl].vip /\ M1 \in clu[Cl].reg /\ Cl \in node[M1].known
  /\ M1 \in clu[Cl].secrets => Cl \in node[M1].known
  /\ cli.phase \notin {"create", "restore"} \/ cli.pc \in Exports => M1 \in clu[Cl].reg
  /\ cli.phase \in {"create", "restore"} => cli.pc \notin {"clone", "start", "prepare"}
  /\ cli.phase = "restore" => cli.pc \notin {"check", "join", "reset"}
MasterInv ==
  /\ M1 \in Vms => IF Cl = 0 THEN MasterNew ELSE MasterBack
  /\ M1 \notin Vms => /\ cli.phase \notin {"purge"} \cup UpdateLoops
                      /\ cli.phase = "update" => At("check") /\ cli.cmd = "update"
                      /\ cli.phase \in {"create", "restore"} => At("clone")
  /\ cli.phase \in {"create", "restore"} /\ At("clone") => M1 \notin Vms

\* The saved token is that of the cluster and of every snapshot.
Restoring == cli.phase = "restore" /\ cli.pc \in {"wait", "list", "wipe"}
Renewing  == cli.phase \in {"create", "restore"}
                /\ cli.pc \in {"wait", "list", "wipe", "reset", "manifest", "rewait"} \cup Exports
TokenInv ==
  /\ \A i \in DOMAIN s3 : s3[i].pw # 0 /\ s3[i].secrets \subseteq s3[i].reg
  /\ tokenFile = <<>> => s3 = <<>>
  /\ ~At("write") => /\ tokenFile # <<>> => SavedToken.pw # 0
                     /\ \A i \in DOMAIN s3 : s3[i].pw = SavedToken.pw
  /\ At("write") => \A i \in DOMAIN s3 : s3[i].pw = LiveToken.pw
  /\ Cl # 0 => /\ tokenFile = <<>> => cli.phase = "create"
               /\ tokenFile # <<>> /\ ~At("write") /\ ~Restoring => LiveToken.pw = SavedToken.pw
               /\ ~Renewing /\ ~At("write") => Exported
               /\ cli.pc \in {"export", "write"} => kubeconfig = Cl

\* Every invocation starts at most one cluster.
Pending == \/ cli.phase = "rm" /\ cli.cmd = "restore"
           \/ /\ cli.phase \in {"create", "restore"} /\ Cl = 0
              /\ cli.pc \in {"clone", "start", "prepare", "check", "join", "wait"}
CountInv == ids <= cmds /\ cmds <= MaxCmds /\ (Pending => ids < cmds)

\* The calls of the commands on one node.
NodeInv ==
  /\ cli.cmd = "node-destroy" => Removing \/ At("refuse")
  /\ cli.cmd = "snapshot"     => cli.pc \in {"save", "refuse"}
  /\ cli.cmd = "export-token" => cli.pc \in {"export", "write"}
  /\ cli.cmd = "utility"      => cli.pc \in {"clone", "start", "prepare", "info"}

\* A restore finds its snapshot; what is refused is refused at once.
RestoresInv ==
  /\ cli.cmd = "restore" => Chosen \in DOMAIN s3 /\ (At("refuse") \/ tokenFile # <<>>)
  /\ At("refuse") => \/ cli.cmd = "restore" /\ cli.phase = "rm" /\ tokenFile = <<>>
                     \/ cli.cmd = "snapshot" /\ M1 \notin Vms
                     \/ cli.cmd = "node-destroy"
InfoInv == At("info") /\ cli.phase = "update" =>
             stamp = <<cli.cfg>> /\ Vms \ Protected = Target(cli.cfg)

QuietInv == /\ Orderly /\ OthersInv /\ SeenInv /\ ClusterInv /\ MasterInv /\ TokenInv
            /\ CountInv /\ RestoresInv /\ InfoInv /\ NodeInv

\* What the type invariant says of the guest and the cluster in question.
LEMMA Here ==
  ASSUME TypeInv
  PROVE  /\ cli.cur \in Offset /\ cli.left \subseteq Offset /\ cli.seen \subseteq Offset
         /\ M1 \in Offset /\ Others \subseteq Offset /\ M1 \notin Protected
         /\ Cl \in 0..MaxId /\ (Cl # 0 <=> Cl \in Id)
         /\ \A v \in Offset : node[v] \in NodeState
         /\ Cl # 0 => /\ clu[Cl] \in ClusterState /\ clu[Cl].members \subseteq Offset
                      /\ clu[Cl].reg \subseteq Offset /\ clu[Cl].secrets \subseteq Offset
<1>1. cli.cur \in Offset /\ cli.left \subseteq Offset /\ cli.seen \subseteq Offset
  BY DEF TypeInv, TypeOK, CliTyped, CliState
<1>2. M1 \in Offset /\ Others \subseteq Offset /\ M1 \notin Protected
  BY LayoutFacts DEF Others, Vms, M1, Protected, Image, Utility
<1>3. \A v \in Offset : node[v] \in NodeState
  BY DEF TypeInv, TypeOK, GuestsTyped
<1>4. Cl \in 0..MaxId /\ (Cl # 0 <=> Cl \in Id)
  BY <1>2, <1>3, MaxIdAssumption DEF Cl, NodeState, Id
<1>5. Cl # 0 => clu[Cl] \in ClusterState
  BY <1>4 DEF TypeInv, TypeOK, GuestsTyped
<1> QED BY <1>1, <1>2, <1>3, <1>4, <1>5 DEF ClusterState

\* A cluster all of whose members run has a quorum.
LEMMA AllServe ==
  ASSUME GuestsTyped, NEW c \in Id, clu[c].members # {},
         \A v \in clu[c].members : Serves(v, c)
  PROVE  Quorum(c)
<1> DEFINE up == {v \in clu[c].members : Serves(v, c)}
<1>1. up = clu[c].members
  OBVIOUS
<1>2. IsFiniteSet(clu[c].members)
  BY OffsetFinite, FS_Subset DEF GuestsTyped, ClusterState
<1>3. Cardinality(clu[c].members) \in Nat /\ Cardinality(clu[c].members) # 0
  BY <1>2, FS_CardinalityType, FS_EmptySet
<1>4. Quorum(c) <=> 2 * Cardinality(up) > Cardinality(clu[c].members)
  BY DEF Quorum
<1> HIDE DEF up
<1> QED BY <1>1, <1>3, <1>4

\* As long as m1 has data, but for the moment after a reset, its API answers.
LEMMA MasterAnswers ==
  ASSUME TypeInv, OthersInv, ClusterInv, MasterInv, Cl # 0, ~At("manifest")
  PROVE  /\ M1 \in Vms /\ Up(M1) /\ ApiAt(M1) /\ Quorum(Cl)
         /\ \A v \in clu[Cl].members : Serves(v, Cl) /\ v \in Others \cup {M1}
<1> USE Here
<1>1. M1 \in Vms /\ MasterBack
  BY DEF OthersInv, Inert, MasterInv, Cl
<1>2. Runs(M1) /\ M1 \in clu[Cl].members
  <2>1. Runs(M1)
    BY <1>1 DEF MasterBack, Runs
  <2>2. M1 \in Masters /\ ~Leaving(M1)
    BY DEF M1, Masters, Leaving
  <2> QED BY <2>1, <2>2 DEF ClusterInv, Cl
<1>3. \A v \in clu[Cl].members : Serves(v, Cl) /\ v \in Others \cup {M1}
  <2> SUFFICES ASSUME NEW v \in clu[Cl].members, v # M1
               PROVE  Serves(v, Cl) /\ v \in Others
    BY <1>2 DEF Serves, Cl
  <2>1. node[v].cl = Cl /\ v \in Offset
    BY DEF ClusterInv
  <2>2. v \in Others
    BY <2>1 DEF OthersInv, Inert, Others
  <2>3. Runs(v)
    BY <2>1, <2>2 DEF OthersInv, Settled, Joining, Fresh, Blank, Runs
  <2> QED BY <2>1, <2>2, <2>3 DEF Serves
<1>4. Quorum(Cl)
  BY <1>2, <1>3, AllServe DEF TypeInv, TypeOK
<1> QED BY <1>1, <1>2, <1>3, <1>4 DEF ApiAt, Serves, Cl, MasterBack

\* The node a loop adds is one of those beside m1.
LEMMA AddedOther ==
  ASSUME TypeInv, PlanInv, cli.phase \in {"slaves", "workers"}, ~At("next"), ~At("clone")
  PROVE  cli.cur \in Others /\ (cli.cur \in {2, 3} <=> cli.phase = "slaves")
<1>1. cli.cfg \in Configs
  BY InisAssumption DEF TypeInv, TypeOK, CliTyped, CliState
<1>2. /\ cli.phase = "slaves"  => cli.cur \in Slaves(cli.cfg) /\ cli.cur \in Vms
      /\ cli.phase = "workers" => cli.cur \in WorkersOf(cli.cfg) /\ cli.cur \in Vms
  <2>1. ASSUME NEW wanted, Added(wanted) PROVE cli.cur \in wanted /\ cli.cur \in Vms
    BY <2>1, Here, LayoutAssumption DEF Added, Offset
  <2> QED BY <2>1 DEF PlanInv, BuildOrder
<1> QED BY <1>1, <1>2 DEF Others, Slaves, WorkersOf, LastWorker, Configs, Protected, Image,
           Utility, M1

\* Whoever waits for a node waits for somebody who can get further.
LEMMA NotTimedOut ==
  ASSUME TypeInv, PlanInv, ControlInv, Undisturbed, QuietInv
  PROVE  ~TimedOut
<1> SUFFICES ASSUME TimedOut PROVE FALSE
  OBVIOUS
<1> USE Here DEF QuietInv, At
<1>1. M1 \in Vms /\ cli.pc \in {"wait", "rewait"} /\ ~SeesReady(cli.cur) /\ Quiescent
  BY DEF TimedOut, Up, Vms
<1>2. Cl # 0
  <2> SUFFICES ASSUME Cl = 0 PROVE CanBootstrap(M1)
    BY <1>1 DEF Quiescent
  <2>1. Booting /\ cli.phase \in {"create", "restore"} /\ At("wait")
    BY <1>1 DEF MasterInv, MasterNew, Fresh, WipedOut, Booting
  <2>2. ids < MaxId
    <3>1. ids < cmds /\ cmds <= MaxCmds /\ MaxCmds <= MaxId
      BY <2>1 DEF CountInv, Pending, Undisturbed
    <3> QED BY <3>1, BoundAssumption, MaxIdAssumption DEF TypeInv, TypeOK, CliTyped, GuestsTyped
  <2> QED BY <2>1, <2>2 DEF Booting, CanBootstrap, Runs, Cl
<1>3. /\ ApiAt(M1) /\ Quorum(Cl) /\ MasterBack
      /\ \A v \in clu[Cl].members : Serves(v, Cl)
  BY <1>1, <1>2, MasterAnswers DEF MasterInv
<1>4. Name(M1) = M1 /\ Runs(M1)
  BY <1>1, <1>3 DEF MasterBack, Name, Runs
<1>5. node[M1].unit = "active"
  <2> SUFFICES ASSUME node[M1].unit = "starting" PROVE CanRegister(M1)
    BY <1>1, <1>3 DEF Quiescent, MasterBack
  <2>1. PasswordFits(M1, Cl)
    BY <1>3, <1>4 DEF PasswordFits, MasterBack
  <2> QED BY <1>2, <1>3, <1>4, <2>1 DEF CanRegister, MasterBack, Cl
<1>6. VipServes(Cl) /\ M1 \in clu[Cl].reg
  BY <1>3, <1>5 DEF VipServes, MasterBack
<1>7. cli.cur # M1
  <2> SUFFICES ASSUME cli.cur = M1 PROVE CanHeartbeat(M1)
    BY <1>1 DEF Quiescent
  <2>1. M1 \notin clu[Cl].ready
    BY <1>1, <1>3 DEF SeesReady, Cl
  <2> QED BY <1>2, <1>3, <1>4, <1>5, <1>6, <2>1 DEF CanHeartbeat, MasterBack, Cl
<1>8. cli.phase \in {"slaves", "workers"}
  BY <1>1, <1>7 DEF ControlInv, CallOf, PlanInv, CallFits, Orderly
<1>9. cli.cur \in Others
  BY <1>1, <1>8, AddedOther
<1> DEFINE v == cli.cur
<1>v. v \in Offset /\ v \notin clu[Cl].ready
  BY <1>1, <1>3 DEF SeesReady, Cl
<1>10. CASE Settled(v)
  <2>1. v \in clu[Cl].reg /\ Name(v) = v /\ Runs(v) /\ node[v].cl = Cl
    BY <1>1, <1>10 DEF Settled, Leaving, Name, Runs
  <2>2. node[v].role # "agent" => ApiAt(v)
    <3> SUFFICES ASSUME node[v].role # "agent" PROVE ApiAt(v)
      OBVIOUS
    <3>1. v \in clu[Cl].members
      BY <1>1, <1>2, <1>10, <2>1 DEF Settled, RightRole, ClusterInv, Leaving, Masters
    <3> QED BY <1>2, <1>3, <2>1, <3>1 DEF ApiAt
  <2>3. CanHeartbeat(v)
    BY <1>2, <1>6, <1>10, <1>v, <2>1, <2>2 DEF CanHeartbeat, Settled
  <2> QED BY <1>1, <1>v, <2>3 DEF Quiescent
<1>11. CASE Joining(v)
  <2>1. Name(v) = v /\ Runs(v) /\ node[v].tok = [ca |-> Cl, pw |-> clu[Cl].pw]
    BY <1>11 DEF Joining, Name, Runs, LiveToken, Cl
  <2>2. v \in clu[Cl].members <=> v \in Masters /\ node[v].cl = Cl
    BY <1>1, <1>2, <1>11 DEF ClusterInv, Leaving, Joining
  <2>3. CASE node[v].cl = 0
    <3>1. CanJoin(v, Cl)
      BY <1>2, <1>6, <1>11, <2>1, <2>2, <2>3 DEF CanJoin, Joining, RightRole
    <3> QED BY <1>1, <1>2, <1>v, <3>1 DEF Quiescent
  <2>4. CASE node[v].cl = Cl
    <3>1. PasswordFits(v, Cl)
      BY <1>1, <1>2, <1>11, <2>1 DEF PasswordFits, ClusterInv, Joining
    <3>2. node[v].role # "agent" => ApiAt(v)
      BY <1>2, <1>3, <1>11, <2>2, <2>4 DEF ApiAt, Joining, RightRole, Masters
    <3>3. CanRegister(v)
      BY <1>2, <1>6, <1>11, <2>1, <2>4, <3>1, <3>2 DEF CanRegister, Joining
    <3> QED BY <1>1, <1>v, <3>3 DEF Quiescent
  <2> QED BY <1>11, <2>3, <2>4 DEF Joining
<1>12. ~Fresh(v)
  BY <1>1 DEF Fresh
<1> QED BY <1>9, <1>10, <1>11, <1>12 DEF OthersInv

\* m1 answers whenever it is asked, unless it is not there.
LEMMA MasterUpThere ==
  ASSUME TypeInv, MasterInv, M1 \in Vms, ~At("start")
  PROVE  Up(M1)
  BY DEF MasterInv, MasterNew, MasterBack, Fresh, Booting, WipedOut, At

\* Without m1 there is no cluster.
LEMMA NoMaster ==
  ASSUME TypeInv, OthersInv, M1 \notin Vms
  PROVE  Cl = 0 /\ Others = {}
  BY Here DEF OthersInv, Inert, Cl

\* Every guest has its address by the time it is asked for the way out.
LEMMA NotOffline ==
  ASSUME TypeInv, PlanInv, ControlInv, QuietInv
  PROVE  ~NoInternet
<1> SUFFICES ASSUME NoInternet PROVE FALSE
  OBVIOUS
<1> USE Here DEF QuietInv, At
<1>1. At("check") /\ Up(cli.cur) /\ ~node[cli.cur].prepared
  BY DEF NoInternet
<1>2. CASE cli.cur = M1
  <2>1. M1 \in Vms
    BY <1>1, <1>2 DEF Up, Vms
  <2> QED BY <1>1, <1>2, <2>1 DEF MasterInv, MasterNew, MasterBack, Fresh, Booting, WipedOut
<1>3. CASE cli.cur # M1
  <2>1. cli.cur \in Others
    BY <1>1, <1>3, AddedOther DEF ControlInv, CallOf, PlanInv, CallFits, Orderly
  <2> QED BY <1>1, <2>1 DEF OthersInv, Settled, Fresh, Joining
<1> QED BY <1>2, <1>3

\* No guest fails to answer but m1 that is not there, and only an update or a
\* command on one node asks it then.
LEMMA NoAnswerWhy ==
  ASSUME TypeInv, PlanInv, ControlInv, QuietInv, NoAnswer
  PROVE  /\ cli.phase = "node" \/ (cli.phase = "update" /\ cli.cmd = "update" /\ At("check"))
         /\ cli.cmd = "utility" \/ M1 \notin Vms
<1> USE Here DEF QuietInv, At
<1>1. \/ \E v \in Needs : ~Up(v)
      \/ At("stamp") /\ M1 \notin Vms
  BY DEF NoAnswer
<1>2. cli.pc \notin {"kill", "unconfig", "idle", "start", "clone", "next", "refuse", "write",
                    "destroy"}
  BY <1>1 DEF Needs, CallFits, PlanInv, Orderly
<1>3. cli.cmd # "utility" => M1 \notin Vms
  <2> SUFFICES ASSUME M1 \in Vms, cli.cmd # "utility" PROVE FALSE
    OBVIOUS
  <2>1. Up(M1)
    BY <1>2, MasterUpThere
  <2>2. PICK v \in Needs : ~Up(v)
    BY <1>1
  <2>3. v = cli.cur /\ v # M1
        /\ cli.pc \in {"prepare", "check", "join", "list", "wipe", "reset", "manifest"}
    BY <1>2, <2>1, <2>2 DEF Needs, Routes, Orderly
  <2>4. cli.phase \in {"slaves", "workers"}
    BY <2>3 DEF ControlInv, CallOf, Commanded, PlanInv, CallFits, Orderly, NodeInv, Removing
  <2>5. v \in Others
    BY <2>3, <2>4, AddedOther
  <2> QED BY <2>2, <2>3, <2>5 DEF OthersInv, Settled, Fresh, Joining
<1>4. CASE M1 \notin Vms
  <2>1. Others = {}
    BY <1>4, NoMaster
  <2>2. cli.phase # "rm"
    <3> SUFFICES ASSUME cli.phase = "rm" PROVE FALSE
      OBVIOUS
    <3>1. Removing
      BY <1>2 DEF ControlInv, CallOf, Commanded, Removing, TypeInv, TypeOK, CliTyped,
         CliState, Pcs, InHand
    <3> QED BY <1>4, <2>1, <3>1 DEF OthersInv, PlanInv, TeardownOrder, Others
  <2>3. cli.phase # "none"
    BY <1>2 DEF TypeInv, InHand
  <2> QED BY <1>2, <1>4, <2>2, <2>3 DEF MasterInv, TypeInv, TypeOK, CliTyped, CliState, Phases,
             UpdateLoops
<1> QED BY <1>3, <1>4 DEF ControlInv, Commanded

\* The calls that only look, and those that only write a file.
Calm == \/ Refuse \/ (\E v \in Offset : Pick(v)) \/ LoopEnds
        \/ CheckReady \/ WaitReady \/ ListSnapshots \/ Purge
        \/ Kubeconfig \/ ExportToken \/ WriteToken
        \/ Stamp \/ Info \/ SaveSnapshot \/ NoAnswer

\* A node that k3s_check finds Ready is settled.
LEMMA ReadyIsSettled ==
  ASSUME TypeInv, IdentityInv, QuietInv, NEW v \in Offset, SeesReady(v)
  PROVE  /\ Cl # 0 /\ v \in clu[Cl].reg
         /\ v \in Others => Settled(v) /\ ~Leaving(v)
<1> USE Here DEF QuietInv
<1>1. Cl # 0 /\ v \in clu[Cl].reg
  BY ReadyIsListed DEF Cl, Api1
<1>2. v \in Others => node[v].unit = "active" /\ ~Leaving(v)
  BY <1>1, LayoutFacts DEF ClusterInv, OthersInv, Others
<1>3. v \in Others => Settled(v)
  BY <1>2 DEF OthersInv, Fresh, Joining, Blank
<1> QED BY <1>1, <1>2, <1>3

\* When they are made every node is settled.
LEMMA CalmBefore ==
  ASSUME TypeInv, PlanInv, ControlInv, IdentityInv, QuietInv, Calm
  PROVE  /\ UNCHANGED gvars
         /\ \A v \in Others : Settled(v)
         /\ Cl # 0 => (\A v \in Offset : ~Leaving(v)) /\ ~At("delsecret") /\ ~At("manifest")
         /\ M1 \in Vms => Cl # 0 /\ MasterBack
<1> USE Here DEF QuietInv, At
<1>1. UNCHANGED gvars
  BY DEF Calm, Refuse, Pick, LoopEnds, CheckReady, WaitReady, ListSnapshots, Purge, Kubeconfig,
     ExportToken, WriteToken, Stamp, Info, SaveSnapshot, NoAnswer, gvars
<1>2. CASE NoAnswer
  <2>1. cli.cmd = "utility" \/ M1 \notin Vms
    BY <1>2, NoAnswerWhy
  <2>2. CASE M1 \notin Vms
    BY <1>1, <2>2, NoMaster
  <2>3. CASE cli.cmd = "utility"
    <3>1. cli.phase = "node" /\ cli.pc \in {"clone", "start", "prepare", "info"}
          /\ (At("prepare") => cli.cur = Utility) /\ ~At("start")
      BY <1>2, <2>3 DEF ControlInv, CallOf, Commanded, NodeInv, NoAnswer, Needs
    <3>2. \A v \in Others : Settled(v)
      BY <3>1 DEF OthersInv, Fresh, Joining, Others, Protected
    <3> QED BY <1>1, <3>1, <3>2 DEF MasterInv, MasterNew, Leaving
  <2> QED BY <2>1, <2>2, <2>3
<1>3. CASE ~NoAnswer
  <2>1. /\ cli.pc \in {"refuse", "next", "check", "wait", "rewait", "list", "purge", "kubeconfig",
                       "export", "write", "stamp", "info", "save"}
        /\ cli.pc \in {"check", "wait", "rewait"} => SeesReady(cli.cur)
    BY <1>3 DEF Calm, Refuse, Pick, LoopEnds, CheckReady, WaitReady, ListSnapshots, Purge,
       Kubeconfig, ExportToken, WriteToken, Stamp, Info, SaveSnapshot
  <2>2. \A v \in Others : Settled(v)
    BY <2>1, ReadyIsSettled DEF OthersInv, Fresh, Joining
  <2>3. M1 \in Vms => Cl # 0
    BY <2>1, ReadyIsSettled DEF MasterInv, MasterNew, Fresh, Booting, WipedOut
  <2> QED BY <1>1, <2>1, <2>2, <2>3 DEF MasterInv, Leaving
<1> QED BY <1>2, <1>3

\* Where a procedure returns to.
Onward(ph, p, v, todo, seen) ==
  /\ cli'.phase = ph /\ cli'.pc = p /\ cli'.cur = v /\ cli'.left = todo /\ cli'.seen = seen
  /\ cli'.cmd = cli.cmd /\ cli'.arg = cli.arg /\ cli'.cfg = cli.cfg
Over == cli'.cmd = "none" /\ cli'.phase = "none" /\ cli'.pc = "idle" /\ cli'.cfg = cli.cfg
LEMMA ReturnMoves ==
  ASSUME TypeInv, ~At("idle"), Return
  PROVE  \/ cli.phase = "create"  /\ Onward("update", "check", M1, {}, cli.seen)
         \/ cli.phase = "restore" /\ Onward("purge", "purge", M1, {}, cli.seen)
         \/ cli.phase = "update"  /\ Onward("slaves", "next", cli.cur, Slaves(cli.cfg), Vms)
         \/ cli.phase = "node"    /\ Over
         \/ cli.phase \in Loops   /\ Onward(cli.phase, "next", cli.cur, cli.left, cli.seen)
<1> USE DEF TypeInv, TypeOK, Onward
<1>1. CASE cli.phase = "create"
  BY <1>1 DEF Return, Enter, CliTyped, CliState
<1>2. CASE cli.phase = "restore"
  BY <1>2 DEF Return, Enter, CliTyped, CliState
<1>3. CASE cli.phase = "update"
  BY <1>3 DEF Return, CliTyped, CliState
<1>4. CASE cli.phase = "node"
  <2>1. Finish(TRUE)
    BY <1>4 DEF Return
  <2> QED BY <1>4, <2>1 DEF Over, Finish, Idle
<1>5. CASE cli.phase \notin {"create", "restore", "update", "node"}
  <2>1. cli.phase \in Loops /\ Goto("next")
    BY <1>5 DEF Return, CliTyped, CliState, Phases, Loops, InHand
  <2> QED BY <2>1, GotoKeeps
<1> QED BY <1>1, <1>2, <1>3, <1>4, <1>5

\* Where a loop hands over to.
LEMMA LoopMoves ==
  ASSUME TypeInv, LoopEnds
  PROVE  \/ cli.phase = "rm" /\ Over
         \/ /\ cli.phase = "rm" /\ cli.cmd = "restore"
            /\ Onward("restore", "clone", M1, {}, cli.seen)
         \/ cli.phase = "purge"   /\ Onward("update", "check", M1, {}, cli.seen)
         \/ cli.phase = "slaves"  /\ Onward("demote", "next", cli.cur, Demoted, cli.seen)
         \/ /\ cli.phase = "demote"
            /\ Onward("workers", "next", cli.cur, WorkersOf(cli.cfg), cli.seen)
         \/ cli.phase = "workers" /\ Onward("extras", "next", cli.cur, Extras, cli.seen)
         \/ cli.phase = "extras"  /\ Onward("update", "stamp", M1, {}, cli.seen)
<1> USE DEF TypeInv, TypeOK
<1>1. cli.phase \in Loops
  BY DEF LoopEnds, InHand
<1>2. ASSUME NEW ph, NEW p, NEW v, NEW todo, Enter(ph, p, v, todo)
      PROVE  Onward(ph, p, v, todo, cli.seen)
  BY <1>2 DEF Enter, Onward, CliTyped, CliState
<1>3. CASE cli.phase = "rm" /\ cli.cmd # "restore"
  <2>1. Finish(TRUE)
    BY <1>3 DEF LoopEnds
  <2> QED BY <1>3, <2>1 DEF Finish, Idle, Over
<1>4. CASE ~(cli.phase = "rm" /\ cli.cmd # "restore")
  <2>1. \/ cli.phase = "rm"      /\ Enter("restore", "clone", M1, {})
        \/ cli.phase = "purge"   /\ Enter("update", "check", M1, {})
        \/ cli.phase = "slaves"  /\ Enter("demote", "next", cli.cur, Demoted)
        \/ cli.phase = "demote"  /\ Enter("workers", "next", cli.cur, WorkersOf(cli.cfg))
        \/ cli.phase = "workers" /\ Enter("extras", "next", cli.cur, Extras)
        \/ cli.phase = "extras"  /\ Enter("update", "stamp", M1, {})
    BY <1>1, <1>4 DEF LoopEnds, Loops
  <2> QED BY <1>2, <1>4, <2>1
<1> QED BY <1>3, <1>4

\* An export in hand either is done or writes the token: the saved password is
\* never another one.
LEMMA ExportMoves ==
  ASSUME TypeInv, PlanInv, ControlInv, QuietInv, ExportToken
  PROVE  /\ M1 \in Vms /\ Cl # 0
         /\ \/ tokenFile = <<LiveToken>> /\ Return /\ UNCHANGED files
            \/ /\ tokenFile # <<LiveToken>> /\ Goto("write") /\ tokenFile' = <<NoToken>>
               /\ UNCHANGED <<kubeconfig, s3, stamp, ghost>>
<1> USE Here DEF QuietInv, At
<1>1. M1 \in Vms /\ At("export")
  BY DEF ExportToken, Up, Vms
<1>2. Cl # 0
  BY <1>1 DEF MasterInv, MasterNew, Fresh, Booting, WipedOut
<1>3. ~PasswordsDiffer
  BY <1>1, <1>2 DEF PasswordsDiffer, TokenInv, Restoring
<1> QED BY <1>1, <1>2, <1>3 DEF ExportToken, Cl

\* What such a call does to the invocation.
Moving(p) == Onward(cli.phase, p, cli.cur, cli.left, cli.seen)
CalmMove ==
  \/ Over /\ cli.phase \in {"rm", "node", "update"}
  \/ \E v \in Offset : Pick(v)
  \/ LoopEnds /\ ~Over
  \/ /\ Return /\ cli.phase # "node" /\ (SeesReady(cli.cur) \/ cli.pc \in Exports)
     /\ cli.pc \in {"check", "wait", "rewait", "export", "write"}
     /\ cli.pc \in {"wait", "rewait"} => cli.phase \in {"slaves", "workers"}
  \/ /\ SeesReady(cli.cur)
     /\ \/ At("wait") /\ cli.phase = "restore" /\ Moving("list")
        \/ /\ cli.phase \in {"create", "restore", "update"} /\ Moving("kubeconfig")
           /\ cli.pc \in {"wait", "rewait"} /\ ~(At("wait") /\ cli.phase = "restore")
  \/ At("list") /\ cli.phase = "restore" /\ Moving("wipe")
  \/ At("kubeconfig") /\ Moving("export")
  \/ At("export") /\ Moving("write")
  \/ At("stamp") /\ Moving("info")
  \/ At("purge") /\ cli.phase = "purge" /\ Onward("purge", "next", cli.cur, Stale, cli.seen)
LEMMA CalmMoves ==
  ASSUME TypeInv, PlanInv, ControlInv, QuietInv, Calm
  PROVE  CalmMove
<1> USE Here DEF QuietInv, TypeInv, TypeOK
<1>f. ASSUME NEW ok \in BOOLEAN, Finish(ok) PROVE Over
  BY <1>f DEF Finish, Over, Idle
<1>g. ASSUME NEW p, Goto(p) PROVE Moving(p)
  BY <1>g, GotoKeeps DEF Moving, Onward
<1>r. ASSUME Return, ~At("idle"), SeesReady(cli.cur) \/ cli.pc \in Exports,
             cli.pc \in {"check", "wait", "rewait", "export", "write"},
             cli.pc \in {"wait", "rewait"} => cli.phase \in {"slaves", "workers"}
      PROVE  CalmMove
  <2>1. CASE cli.phase = "node"
    BY <1>r, <2>1, ReturnMoves DEF CalmMove, Loops
  <2>2. CASE cli.phase # "node"
    BY <1>r, <2>2, Zenon DEF CalmMove
  <2> QED BY <2>1, <2>2
<1>1. CASE Refuse
  <2>1. At("refuse") /\ Finish(FALSE)
    BY <1>1 DEF Refuse
  <2>2. cli.phase \in {"rm", "node"}
    BY <2>1 DEF RestoresInv, ControlInv, Commanded, At
  <2> QED BY <1>f, <2>1, <2>2 DEF CalmMove
<1>2. CASE (\E v \in Offset : Pick(v)) \/ LoopEnds
  <2>1. LoopEnds /\ Over => cli.phase = "rm"
    BY LoopMoves DEF Over, Onward
  <2> QED BY <1>2, <2>1 DEF CalmMove
<1>3. CASE CheckReady
  BY <1>3, <1>r DEF CheckReady, At
<1>4. CASE WaitReady
  <2>1. SeesReady(cli.cur) /\ cli.pc \in {"wait", "rewait"} /\ AfterWait
    BY <1>4 DEF WaitReady, At
  <2>2. cli.phase \in {"create", "restore", "update", "slaves", "workers"}
        /\ (At("rewait") => cli.phase = "restore")
    BY <2>1 DEF ControlInv, CallOf, Orderly, At
  <2>3. CASE At("wait") /\ cli.phase = "restore"
    <3>1. NodeType = "restore"
      BY <2>3 DEF NodeType, Orderly, PlanInv, CallFits, M1, Utility
    <3>2. Goto("list")
      BY <2>1, <2>3, <3>1 DEF AfterWait, At
    <3> QED BY <1>g, <2>1, <2>3, <3>2 DEF CalmMove
  <2>4. CASE cli.phase \in {"create", "update"} \/ At("rewait")
    <3>1. cli.cur = M1
      BY <2>2, <2>4 DEF PlanInv, CallFits
    <3>2. At("rewait") \/ NodeType = "master"
      BY <2>4, <3>1 DEF NodeType, Orderly, M1, Utility
    <3>3. Goto("kubeconfig")
      BY <2>1, <3>2 DEF AfterWait, At
    <3> QED BY <1>g, <2>1, <2>2, <2>4, <3>3 DEF CalmMove, At
  <2>5. CASE cli.phase \in {"slaves", "workers"}
    <3>1. cli.cur \in Others /\ (cli.cur \in {2, 3} <=> cli.phase = "slaves")
      BY <2>1, <2>5, AddedOther DEF At
    <3>2. cli.cur > Utility \/ cli.cur \in {2, 3}
      BY <3>1, LayoutAssumption DEF Others, Offset, Protected, Image, Utility, M1
    <3>3. NodeType \in {"slave", "worker"}
      BY <2>5, <3>2 DEF NodeType, Orderly
    <3>4. Return
      BY <2>1, <2>2, <2>5, <3>3 DEF AfterWait
    <3> QED BY <1>r, <2>1, <2>5, <3>4 DEF At
  <2> QED BY <2>1, <2>2, <2>3, <2>4, <2>5 DEF At
<1>5. CASE ListSnapshots
  <2>1. At("list") /\ cli.phase = "restore" /\ cli.cmd = "restore"
    BY <1>5 DEF ListSnapshots, ControlInv, CallOf, Commanded, At
  <2>2. Moving("wipe")
    BY <1>5, <2>1 DEF ListSnapshots, RestoresInv, Moving, Onward, CliTyped, CliState
  <2> QED BY <2>1, <2>2 DEF CalmMove
<1>6. CASE Purge
  <2>1. At("purge") /\ cli.phase = "purge"
    BY <1>6 DEF Purge, InHand
  <2>2. Onward("purge", "next", cli.cur, Stale, cli.seen)
    BY <1>6, <2>1 DEF Purge, Onward, CliTyped, CliState
  <2> QED BY <2>1, <2>2 DEF CalmMove
<1>7. CASE Kubeconfig
  BY <1>7, <1>g DEF Kubeconfig, CalmMove
<1>8. CASE ExportToken
  <2>1. At("export") /\ (Return \/ Goto("write"))
    BY <1>8, ExportMoves DEF ExportToken
  <2> QED BY <1>g, <1>r, <2>1 DEF CalmMove, Exports, At
<1>9. CASE WriteToken
  BY <1>9, <1>r DEF WriteToken, Exports, At
<1>10. CASE Stamp
  BY <1>10, <1>g DEF Stamp, CalmMove
<1>11. CASE Info \/ SaveSnapshot
  <2>1. cli.phase \in {"node", "update"}
    BY <1>11 DEF Info, SaveSnapshot, ControlInv, CallOf, Commanded, At
  <2> QED BY <1>11, <1>f, <2>1 DEF Info, SaveSnapshot, CalmMove
<1>12. CASE NoAnswer
  <2>1. cli.phase \in {"node", "update"}
    BY <1>12, NoAnswerWhy
  <2> QED BY <1>12, <1>f, <2>1 DEF NoAnswer, CalmMove
<1> QED BY <1>1, <1>2, <1>3, <1>4, <1>5, <1>6, <1>7, <1>8, <1>9, <1>10, <1>11, <1>12 DEF Calm

\* The next node of a loop, and what is done with it first.
LEMMA PickMoves ==
  ASSUME TypeInv, NEW v \in Offset, Pick(v)
  PROVE  /\ Onward(cli.phase, Body(v), v, cli.left \ {v}, cli.seen)
         /\ At("next") /\ v \in cli.left /\ cli.phase \in Loops
         /\ cli.phase \in {"slaves", "workers"} =>
              Body(v) = IF v \in cli.seen THEN "check" ELSE "clone"
         /\ cli.phase = "purge" => Body(v) = "delnode"
         /\ cli.phase = "rm" => Body(v) = IF v = M1 THEN "destroy" ELSE "cordon"
         /\ cli.phase \in {"demote", "extras"} => Body(v) = "cordon"
<1>1. Onward(cli.phase, Body(v), v, cli.left \ {v}, cli.seen)
  BY DEF Pick, Onward, TypeInv, TypeOK, CliTyped, CliState
<1>2. At("next") /\ v \in cli.left /\ cli.phase \in Loops
  BY DEF Pick, TypeInv, InHand
<1> QED BY <1>1, <1>2 DEF Body

\* The nodes stay settled, and the loops in order.
LEMMA CalmOthers ==
  ASSUME TypeInv, PlanInv, ControlInv, IdentityInv, QuietInv, Calm
  PROVE  OthersInv' /\ SeenInv'
<1> USE Here DEF QuietInv
<1>0. /\ UNCHANGED gvars /\ CalmMove
      /\ \A v \in Others : Settled(v)
      /\ Cl # 0 => \A v \in Offset : ~Leaving(v)
  BY CalmBefore, CalmMoves
<1>1. Vms' = Vms /\ Others' = Others /\ Cl' = Cl
  BY <1>0 DEF gvars, Vms, Others, Cl
<1>2. \A v \in Offset : v \in Protected \/ v \notin Vms' => Inert(v)'
  BY <1>0, <1>1 DEF gvars, Inert, OthersInv
<1>3. \A v \in Others : Cl # 0 /\ Settled(v)'
  BY <1>0, <1>1 DEF gvars, OthersInv, Settled, Up
<1>m. \A p : Moving(p) =>
        /\ cli'.phase = cli.phase /\ cli'.pc = p /\ cli'.cur = cli.cur /\ cli'.left = cli.left
        /\ cli'.seen = cli.seen /\ cli'.cfg = cli.cfg
  BY DEF Moving, Onward
<1>e. cli.pc \in Exports \/ At("stamp") => cli.phase \notin Loops
  BY DEF Exports, Loops, At, ControlInv, CallOf, Commanded
<1>4. /\ cli'.phase \in {"restore", "purge"} => Others = {}
      /\ cli'.phase = "rm" => cli'.left \subseteq Vms /\ (Removing' => cli'.cur \in Vms)
  <2>1. CASE Over
    BY <2>1 DEF Over
  <2>2. ASSUME NEW v \in Offset, Pick(v)
        PROVE  /\ cli'.phase \in {"restore", "purge"} => Others = {}
               /\ cli'.phase = "rm" => cli'.left \subseteq Vms /\ (Removing' => cli'.cur \in Vms)
    BY <2>2, PickMoves DEF Onward, OthersInv
  <2>3. CASE LoopEnds /\ ~Over
    <3>1. cli.phase = "rm" => Others = {}
      BY <2>3 DEF LoopEnds, PlanInv, TeardownOrder, Removing, At, Others
    <3> QED BY <2>3, <3>1, LoopMoves DEF Onward
  <2>4. CASE Return /\ cli.phase # "node" /\ ~At("idle") /\ ~At("next")
    BY <2>4, ReturnMoves DEF Onward, OthersInv, Removing
  <2>5. CASE \E p : Moving(p) /\ p \notin {"cordon", "delnode", "delsecret", "destroy"}
    BY <2>5, <1>m DEF OthersInv, Removing
  <2>6. CASE cli.phase = "purge" /\ Onward("purge", "next", cli.cur, Stale, cli.seen)
    BY <2>6 DEF Onward, OthersInv
  <2> QED BY <1>0, <2>1, <2>2, <2>3, <2>4, <2>5, <2>6 DEF CalmMove, At, Exports
<1>5. SeenInv'
  <2>1. CASE Over
    BY <2>1 DEF Over, SeenInv, At
  <2>2. ASSUME NEW v \in Offset, Pick(v) PROVE SeenInv'
    <3>1. cli'.pc # "start"
      BY <2>2, PickMoves DEF Onward, Loops
    <3> QED BY <1>1, <2>2, <3>1, PickMoves DEF Onward, SeenInv, At
  <2>3. CASE LoopEnds /\ ~Over
    BY <1>1, <2>3, LoopMoves DEF Onward, SeenInv, At
  <2>4. CASE Return /\ cli.phase # "node" /\ ~At("idle")
    BY <1>1, <2>4, ReturnMoves DEF Onward, SeenInv, At
  <2>5. CASE \E p : Moving(p) /\ p \notin {"clone", "start"}
    BY <1>1, <2>5, <1>m DEF SeenInv, At
  <2>6. CASE cli.phase = "purge" /\ Onward("purge", "next", cli.cur, Stale, cli.seen)
    BY <2>6 DEF Onward, SeenInv, At
  <2> QED BY <1>0, <2>1, <2>2, <2>3, <2>4, <2>5, <2>6 DEF CalmMove, At, Exports
<1> DEFINE Loop == /\ cli'.phase = "purge" /\ cli'.pc # "purge" => M1 \notin cli'.left
                   /\ Removing' => /\ cli'.cur \notin cli'.left
                                 /\ (cli'.pc = "destroy" \/ cli'.cur # M1)
<1>6. Loop
  <2>1. CASE Over
    BY <2>1 DEF Over, Removing
  <2>2. ASSUME NEW v \in Offset, Pick(v)
        PROVE  Loop
    <3>1. cli.phase \in {"demote", "extras"} => v # M1
      <4>1. cli.cfg \in Configs
        BY InisAssumption DEF TypeInv, TypeOK, CliTyped, CliState
      <4>2. M1 \notin Surplus(cli.phase)
        BY <4>1, LayoutAssumption DEF Configs, LastWorker, Surplus, M1
      <4> QED BY <2>2, <4>2, PickMoves DEF PlanInv, SurplusOnly
    <3>2. cli.phase = "purge" => M1 \notin cli.left
      BY <2>2, PickMoves DEF OthersInv, At
    <3>3. Removing' => cli'.cur \notin cli'.left
      BY <2>2, PickMoves DEF Onward
    <3>4. Removing' => cli'.pc = "destroy" \/ cli'.cur # M1
      BY <2>2, <3>1, <3>2, PickMoves DEF Onward, Removing, Loops
    <3> QED BY <2>2, <3>2, <3>3, <3>4, PickMoves DEF Onward
  <2>3. CASE LoopEnds /\ ~Over
    BY <2>3, LoopMoves DEF Onward, Removing
  <2>4. CASE /\ Return /\ cli.phase # "node"
             /\ cli.pc \in {"check", "wait", "rewait", "export", "write"}
    BY <2>4, ReturnMoves DEF Onward, Removing, OthersInv, At
  <2>5. CASE /\ \E p : Moving(p) /\ p \notin {"cordon", "delnode", "delsecret", "destroy"}
             /\ cli.phase # "purge"
    BY <2>5, <1>m DEF OthersInv, Removing
  <2>6. CASE cli.phase = "purge" /\ Onward("purge", "next", cli.cur, Stale, cli.seen)
    BY <2>6 DEF Onward, Stale, Removing
  <2>7. cli.pc \in {"wait", "rewait", "list", "kubeconfig", "export", "stamp"} => cli.phase # "purge"
    BY <1>e DEF ControlInv, CallOf, Commanded, Orderly, Exports, Loops, At
  <2>8. ASSUME NEW p, Moving(p), cli.phase # "purge",
               p \notin {"cordon", "delnode", "delsecret", "destroy"}
        PROVE  Loop
    BY <2>5, <2>8
  <2> HIDE DEF Loop
  <2> QED BY <1>0, <2>1, <2>2, <2>3, <2>4, <2>6, <2>7, <2>8 DEF CalmMove, At
<1> QED BY <1>1, <1>2, <1>3, <1>4, <1>5, <1>6 DEF OthersInv, At

\* Where a call that only looks can leave the invocation.
LEMMA CalmAfter ==
  ASSUME TypeInv, PlanInv, ControlInv, IdentityInv, QuietInv, Calm
  PROVE  /\ cli'.pc \notin {"start", "prepare", "join", "delsecret", "reset", "manifest"}
         /\ cli'.pc = "destroy" => cli'.cur = M1
         /\ \/ Over /\ cli.phase \in {"rm", "node", "update"}
            \/ /\ cli.phase = "rm" /\ cli'.phase = "restore" /\ cli'.pc = "clone"
               /\ Vms \ Protected = {}
            \/ /\ cli.phase = "create" /\ cli'.phase = "update" /\ cli'.pc = "check"
               /\ SeesReady(M1) \/ cli.pc \in Exports
            \/ /\ cli.phase = "restore" /\ cli'.phase = "purge" /\ cli'.pc = "purge"
               /\ SeesReady(M1) \/ cli.pc \in Exports
            \/ /\ cli.phase = "purge" /\ cli'.phase = "update" /\ cli'.pc = "check"
               /\ cli.left = {} /\ At("next")
            \/ /\ cli.phase \in {"update"} \cup UpdateLoops
               /\ cli'.phase \in {"update"} \cup UpdateLoops
               /\ M1 \in Vms
            \/ /\ cli.phase \in {"create", "restore"} /\ cli'.phase = cli.phase
               /\ cli'.pc \in {"list", "wipe"} \cup Exports
               /\ cli'.pc = "kubeconfig" => SeesReady(M1)
               /\ cli'.pc \in {"export", "write"} => cli.pc \in Exports
               /\ ~At("check") /\ ~At("clone")
            \/ /\ cli.phase \in {"rm", "node", "purge"} /\ cli'.phase = cli.phase
               /\ ~Over
<1> USE DEF QuietInv, At, Exports
<1>0. CalmMove
  BY CalmMoves
<1>c. cli.phase \in {"create", "restore", "update"} => cli.cur = M1
  BY DEF PlanInv, CallFits
<1>e. cli.pc \in {"kubeconfig", "export", "write"} =>
        cli.phase \in {"create", "restore", "update", "node"}
  BY DEF ControlInv, CallOf, Commanded
<1>m. \A p : Moving(p) => cli'.phase = cli.phase /\ cli'.pc = p
  BY DEF Moving, Onward
<1>s. SeesReady(cli.cur) => M1 \in Vms
  <2>1. M1 \notin Vms => Cl = 0
    BY NoMaster
  <2> QED BY <2>1, ReadyIsSettled, Here
<1>u. /\ cli.phase \in UpdateLoops => M1 \in Vms
      /\ cli.phase = "update" /\ ~At("check") => M1 \in Vms
  BY DEF MasterInv
<1>1. CASE Over /\ cli.phase \in {"rm", "node", "update"}
  BY <1>1 DEF Over
<1>2. ASSUME NEW v \in Offset, Pick(v)
      PROVE  /\ cli'.phase = cli.phase /\ cli.phase \in Loops
             /\ cli'.pc \in {"check", "clone", "delnode", "destroy", "cordon"}
             /\ cli'.pc = "destroy" => cli'.cur = M1
  BY <1>2, PickMoves DEF Onward, Loops
<1>3. CASE LoopEnds /\ ~Over
  <2>1. cli.phase = "rm" => Vms \ Protected = {}
    BY <1>3 DEF LoopEnds, PlanInv, TeardownOrder, Removing
  <2>2. cli.left = {} /\ At("next")
    BY <1>3 DEF LoopEnds
  <2> QED BY <1>3, <1>u, <2>1, <2>2, LoopMoves DEF Onward, UpdateLoops
<1>4. CASE /\ Return /\ cli.phase # "node"
           /\ SeesReady(cli.cur) \/ cli.pc \in Exports
           /\ cli.pc \in {"check", "wait", "rewait", "export", "write"}
           /\ cli.pc \in {"wait", "rewait"} => cli.phase \in {"slaves", "workers"}
  <2>1. cli.phase \in {"create", "restore", "update", "slaves", "workers"}
    BY <1>4 DEF ControlInv, CallOf, Commanded, Orderly
  <2> QED BY <1>4, <1>c, <1>s, <1>u, <2>1, ReturnMoves DEF Onward, UpdateLoops, Loops
<1>5. CASE /\ SeesReady(cli.cur)
           /\ \/ At("wait") /\ cli.phase = "restore" /\ Moving("list")
              \/ /\ cli.phase \in {"create", "restore", "update"} /\ Moving("kubeconfig")
                 /\ cli.pc \in {"wait", "rewait"} /\ ~(At("wait") /\ cli.phase = "restore")
  BY <1>5, <1>c, <1>m, <1>s DEF Over
<1>6. CASE At("list") /\ cli.phase = "restore" /\ Moving("wipe")
  BY <1>6, <1>m
<1>7. CASE \/ At("kubeconfig") /\ Moving("export")
           \/ At("export") /\ Moving("write")
  BY <1>7, <1>e, <1>m, <1>u DEF Over
<1>8. CASE At("stamp") /\ Moving("info")
  BY <1>8, <1>m, <1>u DEF ControlInv, CallOf
<1>9. CASE At("purge") /\ cli.phase = "purge" /\ Onward("purge", "next", cli.cur, Stale, cli.seen)
  BY <1>9 DEF Onward, Over
<1>10. CASE \E v \in Offset : Pick(v)
  BY <1>2, <1>10, <1>u DEF Over, Loops, UpdateLoops
<1> QED BY <1>0, <1>1, <1>3, <1>4, <1>5, <1>6, <1>7, <1>8, <1>9, <1>10 DEF CalmMove

\* Nobody leaves or joins m1's cluster, and what its API lists is as before.
LEMMA CalmCluster ==
  ASSUME TypeInv, PlanInv, ControlInv, IdentityInv, QuietInv, Calm
  PROVE  ClusterInv'
<1> SUFFICES ASSUME Cl' # 0 PROVE ClusterInv'
  BY DEF ClusterInv
<1> USE Here DEF QuietInv
<1>0. /\ UNCHANGED gvars /\ CalmMove
      /\ Cl # 0 => (\A v \in Offset : ~Leaving(v)) /\ ~At("delsecret") /\ ~At("manifest")
  BY CalmBefore, CalmMoves
<1>1. Others' = Others /\ Cl' = Cl /\ clu'[Cl'] = clu[Cl] /\ node' = node
  BY <1>0 DEF gvars, Vms, Others, Cl
<1>a. /\ cli'.pc # "delsecret" /\ (cli'.pc = "destroy" => cli'.cur = M1)
      /\ cli'.phase \in {"restore", "purge"} \/ cli.phase \notin {"restore", "purge"}
           \/ (cli.phase = "purge" /\ cli.left = {} /\ At("next"))
  BY CalmAfter DEF Over, UpdateLoops
<1>2. \A v \in Offset : ~Leaving(v)'
  BY <1>a DEF Leaving
<1>3. \A v \in Offset : v \in clu'[Cl'].members <=>
        v \in Masters /\ node'[v].cl = Cl' /\ ~Leaving(v)'
  BY <1>0, <1>1, <1>2 DEF ClusterInv
<1>4. ASSUME NEW v \in clu'[Cl'].reg
      PROVE  \/ cli'.phase \in {"restore", "purge"}
             \/ v = M1
             \/ v \in Others' /\ node'[v].unit = "active" /\ ~Leaving(v)'
  BY <1>1, <1>2, <1>4, <1>a DEF ClusterInv, At
<1>5. ASSUME cli'.phase = "purge", cli'.pc # "purge"
      PROVE  clu'[Cl'].reg \subseteq {M1} \cup cli'.left
                                   \cup (IF cli'.pc = "delnode" THEN {cli'.cur} ELSE {})
  <2>0. cli.phase = "purge"
    BY <1>5, CalmAfter DEF Over, UpdateLoops
  <2>1. CASE At("purge")
    <3>1. ApiAt(M1) /\ cli'.left = Stale
      BY <1>0, <1>1, <2>0, <2>1, MasterAnswers DEF CalmMove, Onward, Over, Pick, LoopEnds, At
    <3> QED BY <1>1, <3>1 DEF Stale, Cl
  <2>2. ASSUME NEW v \in Offset, Pick(v)
        PROVE  cli'.pc = "delnode" /\ cli'.cur = v /\ cli'.left = cli.left \ {v} /\ At("next")
    BY <1>5, <2>0, <2>2, PickMoves DEF Onward
  <2>3. ~At("purge") => \E v \in Offset : Pick(v)
    <3>1. ~LoopEnds
      BY <1>5, <2>0, LoopMoves DEF Onward, Over
    <3>2. cli.pc \notin {"check", "wait", "rewait", "list", "kubeconfig", "export", "write", "stamp"}
      BY <2>0 DEF ControlInv, CallOf, Commanded, Orderly
    <3> QED BY <1>0, <2>0, <3>1, <3>2 DEF CalmMove, At
  <2> QED BY <1>1, <2>0, <2>1, <2>2, <2>3 DEF ClusterInv, At
<1>6. clu'[Cl'].secrets \subseteq clu'[Cl'].reg /\ clu'[Cl'].pw # 0
  BY <1>0, <1>1 DEF ClusterInv
<1> QED BY <1>3, <1>4, <1>5, <1>6 DEF ClusterInv, At

\* m1 is where it was.
LEMMA CalmMaster ==
  ASSUME TypeInv, PlanInv, ControlInv, IdentityInv, QuietInv, Calm
  PROVE  MasterInv'
<1> USE Here DEF QuietInv
<1>0. /\ UNCHANGED gvars
      /\ M1 \in Vms => Cl # 0 /\ MasterBack /\ ~At("manifest")
  BY CalmBefore
<1>1. /\ Vms' = Vms /\ Cl' = Cl /\ clu'[Cl'] = clu[Cl] /\ node' = node
  BY <1>0 DEF gvars, Vms, Cl
<1>2. cli'.phase \in {"create", "restore"} /\ cli'.pc = "clone" => M1 \notin Vms
  BY CalmAfter DEF Over, UpdateLoops, Exports
<1>3. ASSUME M1 \in Vms
      PROVE  MasterBack'
  <2>1. SeesReady(M1) => M1 \in clu[Cl].reg
    BY ReadyIsSettled
  <2>2. cli'.phase \notin {"create", "restore"} \/ cli'.pc \in Exports => M1 \in clu[Cl].reg
    BY <1>0, <1>3, <2>1, CalmAfter DEF MasterBack, Over, UpdateLoops, Exports
  <2>3. /\ cli'.phase \in {"create", "restore"} => cli'.pc \notin {"clone", "start", "prepare"}
        /\ cli'.phase = "restore" => cli'.pc \notin {"check", "join", "reset"}
        /\ cli'.pc # "manifest"
    BY <1>3, CalmAfter DEF Over, UpdateLoops, Exports, Protected, M1, Image, Utility
  <2> QED BY <1>0, <1>1, <1>3, <2>2, <2>3 DEF MasterBack, Up, At
<1>4. ASSUME M1 \notin Vms
      PROVE  /\ cli'.phase \notin {"purge", "update"} \cup UpdateLoops
             /\ cli'.phase \in {"create", "restore"} => cli'.pc = "clone"
  <2>1. ~SeesReady(M1)
    BY <1>4, NoMaster, ReadyIsSettled
  <2>2. cli.phase \notin {"purge"} \cup UpdateLoops
        /\ (cli.phase \in {"create", "restore"} => At("clone"))
    BY <1>4 DEF MasterInv
  <2> QED BY <1>4, <2>1, <2>2, CalmAfter DEF Over, UpdateLoops, Exports, At
<1> QED BY <1>0, <1>1, <1>2, <1>3, <1>4 DEF MasterInv, At

\* No call is a new invocation.
LEMMA CallCounts ==
  ASSUME TypeInv, Step
  PROVE  cmds' = cmds /\ faults' = faults /\ ids' = ids
<1>1. ids' = ids
  BY CallNodes DEF CallEffect
<1>2. ASSUME NEW ok \in BOOLEAN, Finish(ok) PROVE cmds' = cmds /\ faults' = faults
  BY <1>2 DEF Finish
<1>3. Return => cmds' = cmds /\ faults' = faults
  BY <1>2 DEF Return, ghost
<1>4. AfterWait => cmds' = cmds /\ faults' = faults
  BY <1>3 DEF AfterWait, ghost
<1>5. AfterSecret => cmds' = cmds /\ faults' = faults
  BY <1>3 DEF AfterSecret, ghost
<1>6. (\E ok \in BOOLEAN : Finish(ok)) \/ Return \/ AfterWait \/ AfterSecret \/ UNCHANGED ghost
  BY DEF Step, Refuse, Pick, LoopEnds, Clone, Start, Prepare, CheckReady, CheckNotReady, K3sJoin,
     WaitReady, TimedOut, ListSnapshots, Wipe, Reset, Manifest, Purge, Kubeconfig, ExportToken,
     WriteToken, Cordon, DelNode, DelSecret, Destroy, Stamp, Info, Kill, Unconfig, SaveSnapshot,
     NoAnswer, NoInternet, ghost
<1> QED BY <1>1, <1>2, <1>3, <1>4, <1>5, <1>6 DEF ghost

\* Calls that only look leave the files, and what they say of the cluster, alone;
\* those that write them write what m1 has.
LEMMA CalmTokens ==
  ASSUME TypeInv, PlanInv, ControlInv, IdentityInv, QuietInv, Calm
  PROVE  TokenInv'
<1> USE Here DEF QuietInv, At
<1>0. /\ UNCHANGED gvars
      /\ M1 \in Vms => Cl # 0
      /\ CalmMove
  BY CalmBefore, CalmMoves
<1>1. Cl' = Cl /\ LiveToken' = LiveToken /\ (Cl # 0 => M1 \in Vms)
  BY <1>0, NoMaster DEF gvars, Cl, LiveToken
<1>n. Cl # 0 => LiveToken.pw # 0
  BY DEF ClusterInv, LiveToken, Cl
<1>m. \A p : Moving(p) => cli'.phase = cli.phase /\ cli'.pc = p
  BY DEF Moving, Onward
<1>2. CASE ExportToken
  <2>1. Cl # 0 /\ At("export")
    BY <1>2, ExportMoves DEF ExportToken
  <2>2. CASE tokenFile = <<LiveToken>> /\ Return /\ UNCHANGED files
    <3>1. cli'.pc \notin {"export", "write"}
      BY <2>2, ReturnPc DEF TypeInv, TypeOK
    <3>2. SavedToken = LiveToken /\ Exported /\ Exported' /\ SavedToken' = SavedToken
      BY <1>0, <1>1, <2>1, <2>2 DEF SavedToken, Exported, TokenInv, Cl, files, gvars
    <3> QED BY <1>1, <1>n, <2>1, <2>2, <3>1, <3>2 DEF TokenInv, files
  <2>3. CASE /\ Goto("write") /\ tokenFile' = <<NoToken>>
             /\ UNCHANGED <<kubeconfig, s3, stamp, ghost>>
    <3>1. cli'.pc = "write" /\ cli'.phase = cli.phase
      BY <2>3, GotoKeeps DEF TypeInv, TypeOK
    <3>2. tokenFile = <<>> \/ LiveToken.pw = SavedToken.pw
      BY <2>1 DEF TokenInv, Restoring
    <3> QED BY <1>1, <2>1, <2>3, <3>1, <3>2 DEF TokenInv, Renewing
  <2> QED BY <1>2, <2>2, <2>3, ExportMoves
<1>3. CASE WriteToken
  <2>1. At("write") /\ Cl # 0 /\ tokenFile' = <<LiveToken>> /\ UNCHANGED <<kubeconfig, s3>>
    BY <1>0, <1>3 DEF WriteToken, PlanInv, CallFits
  <2>2. cli'.pc \notin {"export", "write"}
    BY <1>3, ReturnPc DEF WriteToken, TypeInv, TypeOK
  <2>3. SavedToken' = LiveToken /\ Exported'
    BY <1>0, <1>1, <2>1 DEF SavedToken, Exported, TokenInv, Cl, gvars
  <2> QED BY <1>1, <1>n, <2>1, <2>2, <2>3 DEF TokenInv
<1>4. CASE Kubeconfig
  <2>1. /\ At("kubeconfig") /\ Goto("export") /\ kubeconfig' = Cl /\ UNCHANGED <<tokenFile, s3>>
    BY <1>4 DEF Kubeconfig, Cl
  <2>2. cli'.pc = "export" /\ cli'.phase = cli.phase /\ SavedToken' = SavedToken
    BY <2>1, GotoKeeps DEF TypeInv, TypeOK, SavedToken
  <2>3. Cl # 0 /\ ~Renewing' => Exported'
    BY <1>0, <1>1, <2>1, <2>2 DEF TokenInv, Renewing, Exported, Cl, Exports, gvars
  <2> QED BY <1>1, <2>1, <2>2, <2>3 DEF TokenInv, Restoring
<1>5. CASE SaveSnapshot
  <2>1. /\ At("save") /\ cli.phase = "node" /\ Over /\ UNCHANGED <<tokenFile, kubeconfig>>
        /\ s3' = s3 \/ (Cl # 0 /\ s3' = Append(s3, Taken(Cl)))
    <3>1. \/ ApiAt(M1) /\ s3' = Append(s3, Taken(Cl))
          \/ s3' = s3
      BY <1>5 DEF SaveSnapshot, Cl
    <3>2. ApiAt(M1) => Cl # 0
      BY DEF ApiAt, Cl
    <3> QED BY <1>5, <3>1, <3>2 DEF SaveSnapshot, Over, Finish, Idle, ControlInv, CallOf, Commanded
  <2>2. Cl # 0 => Exported /\ SavedToken = LiveToken /\ tokenFile # <<>>
    BY <2>1 DEF TokenInv, Renewing, Exports, Exported, SavedToken
  <2>3. SavedToken' = SavedToken /\ Exported' = Exported
    BY <1>0, <1>1, <2>1 DEF SavedToken, Exported, gvars
  <2>4. \A i \in DOMAIN s3' : \/ i \in DOMAIN s3 /\ s3'[i] = s3[i]
                              \/ Cl # 0 /\ s3'[i] = Taken(Cl)
    BY <2>1 DEF TypeInv, TypeOK, FilesTyped
  <2>5. Cl # 0 => Taken(Cl).pw = LiveToken.pw /\ Taken(Cl).secrets \subseteq Taken(Cl).reg
    BY <2>1 DEF Taken, LiveToken, ClusterInv, Cl
  <2>6. tokenFile' = <<>> => s3' = <<>>
    BY <2>1, <2>2 DEF TokenInv
  <2>7. \A i \in DOMAIN s3' : /\ s3'[i].pw # 0 /\ s3'[i].secrets \subseteq s3'[i].reg
                             /\ s3'[i].pw = SavedToken'.pw
    BY <1>n, <2>1, <2>2, <2>3, <2>4, <2>5 DEF TokenInv
  <2> QED BY <1>1, <2>1, <2>2, <2>3, <2>6, <2>7 DEF TokenInv, Over
<1>6. CASE ~(ExportToken \/ WriteToken \/ Kubeconfig \/ SaveSnapshot)
  <2>1. UNCHANGED <<tokenFile, kubeconfig, s3>>
    BY <1>6 DEF Calm, Refuse, Pick, LoopEnds, CheckReady, WaitReady, ListSnapshots, Purge, Stamp,
       Info, NoAnswer, files
  <2>2. cli.pc \in {"kubeconfig", "export", "write"} => NoAnswer /\ ~At("write") /\ M1 \notin Vms
    <3>1. NoAnswer => cli.pc # "write" /\ (cli.pc \in {"kubeconfig", "export"} => M1 \notin Vms)
      BY NoAnswerWhy DEF NodeInv, NoAnswer, Needs
    <3> QED BY <1>6, <3>1 DEF Calm, Refuse, Pick, LoopEnds, CheckReady, WaitReady,
               ListSnapshots, Purge, Stamp, Info
  <2>3. SavedToken' = SavedToken /\ Exported' = Exported
    BY <1>0, <1>1, <2>1 DEF SavedToken, Exported, gvars
  <2>4. CASE Over
    <3>1. cli.phase \in {"rm", "node", "update"} /\ ~At("write")
      BY <2>2, <2>4, CalmAfter DEF Over, UpdateLoops
    <3> QED BY <1>1, <2>1, <2>3, <2>4, <3>1 DEF TokenInv, Renewing, Restoring, Over
  <2>5. CASE ~Over
    <3>1. cli.pc \notin {"kubeconfig", "export", "write"}
      <4>1. NoAnswer => Over
        BY DEF NoAnswer, Finish, Over, Idle
      <4> QED BY <2>2, <2>5, <4>1
    <3>2. /\ cli'.pc \notin {"export", "write"}
          /\ Cl # 0 => /\ Renewing => Renewing' \/ cli.phase \notin {"create", "restore"}
                       /\ Restoring => Restoring'
                       /\ cli.phase = "create" => cli'.phase = "create" \/ ~Renewing
      <4>1. ASSUME NEW v \in Offset, Pick(v)
            PROVE  cli.phase \in Loops /\ cli'.pc \notin {"export", "write"}
        BY <4>1, PickMoves DEF Onward, Loops
      <4>2. LoopEnds => cli.phase \in Loops /\ cli'.pc \notin {"export", "write"}
        BY <2>5, LoopMoves DEF Onward, Loops
      <4>3. Return => cli'.pc \notin {"export", "write"}
        BY ReturnPc DEF TypeInv, TypeOK
      <4>4. At("stamp") => cli.phase = "update"
        BY DEF ControlInv, CallOf
      <4> QED BY <1>0, <1>m, <2>5, <3>1, <4>1, <4>2, <4>3, <4>4
              DEF CalmMove, Renewing, Restoring, Exports, Loops, Onward
    <3>3. cli.phase \notin {"create", "restore"} => ~Renewing /\ ~Restoring
      BY DEF Renewing, Restoring
    <3>4. /\ \A i \in DOMAIN s3' : s3'[i].pw # 0 /\ s3'[i].secrets \subseteq s3'[i].reg
          /\ tokenFile' = <<>> => s3' = <<>>
          /\ tokenFile' # <<>> => SavedToken'.pw # 0
          /\ \A i \in DOMAIN s3' : s3'[i].pw = SavedToken'.pw
      BY <2>1, <2>3, <3>1 DEF TokenInv
    <3>5. ASSUME Cl # 0 PROVE ~Renewing' => Exported'
      BY <2>3, <3>1, <3>2, <3>3, <3>5, Zenon DEF TokenInv
    <3>6. ASSUME Cl # 0, tokenFile = <<>> PROVE cli'.phase = "create"
      BY <3>1, <3>2, <3>3, <3>6 DEF TokenInv, Exported
    <3>7. ASSUME Cl # 0, tokenFile # <<>>, ~Restoring' PROVE LiveToken.pw = SavedToken.pw
      BY <3>1, <3>2, <3>3, <3>7 DEF TokenInv
    <3> QED BY <1>1, <2>1, <2>3, <3>1, <3>2, <3>4, <3>5, <3>6, <3>7, Zenon DEF TokenInv, At
  <2> QED BY <2>4, <2>5
<1> QED BY <1>2, <1>3, <1>4, <1>5, <1>6

\* What they leave of the invocation itself.
LEMMA CalmKeeps ==
  ASSUME TypeInv, PlanInv, ControlInv, IdentityInv, QuietInv, Calm, ~Over
  PROVE  /\ cli'.cmd = cli.cmd /\ cli'.arg = cli.arg /\ cli'.cfg = cli.cfg
         /\ cli'.pc # "refuse"
         /\ cli'.phase = "node" => cli.pc \in Exports /\ cli'.pc \in {"export", "write"}
         /\ cli'.pc = "info" => At("stamp") /\ ~NoAnswer
         /\ cli'.phase = "restore" /\ cli.phase # "restore" => cli.phase = "rm" /\ LoopEnds
         /\ cli'.phase = "create" => cli.phase = "create"
         /\ cli'.phase = "rm" => cli.phase = "rm"
<1> USE DEF Onward, At
<1>0. CalmMove
  BY CalmMoves
<1>1. ASSUME NEW v \in Offset, Pick(v)
      PROVE  /\ cli'.cmd = cli.cmd /\ cli'.arg = cli.arg /\ cli'.cfg = cli.cfg
             /\ cli'.phase = cli.phase /\ cli.phase \in Loops
             /\ cli'.pc \in {"check", "clone", "delnode", "destroy", "cordon"}
  BY <1>1, PickMoves DEF Loops
<1>2. CASE LoopEnds
  BY <1>2, LoopMoves DEF Loops
<1>3. CASE Return /\ cli.phase # "node" /\ ~At("idle")
  BY <1>3, ReturnMoves DEF Loops
<1>4. ASSUME NEW p, Moving(p)
      PROVE  /\ cli'.cmd = cli.cmd /\ cli'.arg = cli.arg /\ cli'.cfg = cli.cfg
             /\ cli'.phase = cli.phase /\ cli'.pc = p
  BY <1>4 DEF Moving
<1>5. NoAnswer => Over
  BY DEF NoAnswer, Finish, Over, Idle
<1>6. At("stamp") => cli.phase = "update"
  BY DEF ControlInv, CallOf
<1> QED BY <1>0, <1>1, <1>2, <1>3, <1>4, <1>5, <1>6 DEF CalmMove, Exports, Loops

\* The invariant holds after each of these calls.
LEMMA CalmQuiet ==
  ASSUME TypeInv, PlanInv, ControlInv, IdentityInv, StampInv, QuietInv, Calm
  PROVE  QuietInv'
<1> USE Here DEF QuietInv
<1>0. /\ UNCHANGED gvars
      /\ cmds' = cmds /\ faults' = faults /\ ids' = ids
  <2>1. Step
    BY DEF Calm, Step
  <2> QED BY <2>1, CalmBefore, CallCounts
<1>1. Cl' = Cl /\ Vms' = Vms
  BY <1>0 DEF gvars, Vms, Cl
<1>2. CASE Over
  <2>1. Orderly' /\ RestoresInv' /\ InfoInv' /\ NodeInv'
    BY <1>2 DEF Over, Orderly, RestoresInv, InfoInv, NodeInv, At
  <2>2. CountInv'
    BY <1>0, <1>2 DEF Over, CountInv, Pending
  <2> QED BY <2>1, <2>2, CalmOthers, CalmCluster, CalmMaster, CalmTokens
<1>3. CASE ~Over
  <2>0. /\ cli'.cmd = cli.cmd /\ cli'.arg = cli.arg /\ cli'.cfg = cli.cfg
        /\ cli'.pc # "refuse"
        /\ cli'.phase = "node" => cli.pc \in Exports /\ cli'.pc \in {"export", "write"}
        /\ cli'.pc = "info" => At("stamp") /\ ~NoAnswer
        /\ cli'.phase = "restore" /\ cli.phase # "restore" => cli.phase = "rm" /\ LoopEnds
        /\ cli'.phase = "create" => cli.phase = "create"
        /\ cli'.phase = "rm" => cli.phase = "rm"
    BY <1>3, CalmKeeps
  <2>1. Orderly'
    BY <2>0 DEF Orderly
  <2>2. UNCHANGED s3 /\ (tokenFile # <<>> => tokenFile' # <<>>)
    <3>1. ~SaveSnapshot /\ ~NoAnswer
      BY <1>3 DEF SaveSnapshot, NoAnswer, Finish, Over, Idle
    <3>2. CASE ExportToken
      BY <3>2, ExportMoves DEF files
    <3>3. CASE WriteToken \/ Kubeconfig \/ Stamp
      BY <3>3 DEF WriteToken, Kubeconfig, Stamp
    <3>4. CASE ~(ExportToken \/ WriteToken \/ Kubeconfig \/ Stamp)
      BY <3>1, <3>4 DEF Calm, Refuse, Pick, LoopEnds, CheckReady, WaitReady, ListSnapshots,
         Purge, Info, files
    <3> QED BY <3>2, <3>3, <3>4
  <2>3. RestoresInv'
    <3>1. cli.cmd = "restore" => ~At("refuse")
      BY <1>3, CalmMoves DEF CalmMove, Pick, LoopEnds, Exports, At
    <3> QED BY <2>0, <2>2, <3>1 DEF RestoresInv, Chosen, At
  <2>4. InfoInv'
    <3> SUFFICES ASSUME cli'.pc = "info"
                 PROVE  stamp' = <<cli'.cfg>> /\ Vms' \ Protected = Target(cli'.cfg)
      BY DEF InfoInv, At
    <3>1. At("stamp") /\ ~NoAnswer
      BY <2>0
    <3>2. Stamp
      BY <3>1 DEF Calm, Refuse, Pick, LoopEnds, CheckReady, WaitReady, ListSnapshots, Purge, Info,
         Kubeconfig, ExportToken, WriteToken, SaveSnapshot, At
    <3> QED BY <1>1, <2>0, <3>1, <3>2 DEF Stamp, StampInv, NothingElse
  <2>5. NodeInv'
    <3>1. cli.cmd \in {"node-destroy", "snapshot", "export-token", "utility"} =>
            cli.phase = "node" /\ cli'.phase = "node"
      <4>1. cli.cmd \in {"node-destroy", "snapshot", "export-token", "utility"} => cli.phase = "node"
        BY DEF ControlInv, Commanded
      <4>2. cli.phase = "node" => cli'.phase = "node"
        BY <1>3, CalmAfter DEF UpdateLoops
      <4> QED BY <4>1, <4>2
    <3> QED BY <2>0, <3>1 DEF NodeInv, Removing, Exports, At
  <2>6. CountInv'
    <3>1. ~Pending' \/ Pending
      <4>1. cli.phase = "rm" /\ LoopEnds => cli.cmd = "restore"
        BY <1>3, LoopMoves DEF Onward, Loops
      <4>2. cli'.phase \in {"create", "restore"} /\ cli.phase = cli'.phase => cli'.pc \in {"list", "wipe"} \cup Exports
        BY <1>3, CalmAfter DEF UpdateLoops
      <4> QED BY <1>1, <2>0, <4>1, <4>2 DEF Pending, Exports
    <3> QED BY <1>0, <3>1 DEF CountInv
  <2> QED BY <2>1, <2>3, <2>4, <2>5, <2>6, CalmOthers, CalmCluster, CalmMaster, CalmTokens
<1> QED BY <1>2, <1>3

(**************************** The other calls ******************************)
\* What is assumed of the state before each of them.
QuietBase == /\ TypeInv /\ PlanInv /\ ControlInv /\ IdentityInv /\ StampInv /\ QuietInv

\* One call after the other, when nothing is refused.
Follows(q, p) == \/ q = "clone"   /\ p = "start"
                 \/ q = "start"   /\ p = "prepare"
                 \/ q = "prepare" /\ p \in {"check", "info"}
                 \/ q = "check"   /\ p = "join"
                 \/ q = "join"    /\ p = "wait"
                 \/ q = "wipe"    /\ p = "reset"
                 \/ q = "reset"   /\ p = "manifest"
                 \/ q = "manifest"  /\ p = "rewait"
                 \/ q = "cordon"    /\ p = "delnode"
                 \/ q = "delnode"   /\ p = "delsecret"
                 \/ q = "delsecret" /\ p \in {"destroy", "next"}
                 \/ q = "destroy"   /\ p = "next"

\* What a call that goes on to the next one keeps, whatever it does to the guests.
LEMMA GotoRest ==
  ASSUME QuietBase, Step, NEW p, Goto(p), Follows(cli.pc, p),
         UNCHANGED <<s3, tokenFile>>,
         At("prepare") => (p = "info" <=> cli.cur = Utility),
         Cl' = 0 /\ p \notin {"reset", "next"} => Cl = 0, p = "next" => cli.phase # "node"
  PROVE  /\ Orderly' /\ CountInv' /\ RestoresInv' /\ InfoInv' /\ NodeInv'
         /\ Moving(p) /\ p \notin {"refuse", "export", "write", "clone"}
<1> USE Here DEF QuietBase, QuietInv, Follows, At
<1>1. Moving(p)
  BY GotoKeeps DEF Moving, Onward, TypeInv, TypeOK
<1>2. Orderly'
  BY <1>1 DEF Orderly, Moving, Onward
<1>3. RestoresInv'
  BY <1>1 DEF RestoresInv, Chosen, Moving, Onward
<1>4. InfoInv' /\ NodeInv'
  <2>1. At("prepare") /\ p = "info" => cli.phase = "node"
    BY LayoutAssumption, AddedOther DEF ControlInv, CallOf, PlanInv, CallFits, Others, Protected,
       M1, Utility
  <2>2. At("prepare") /\ cli.cmd = "utility" => p = "info"
    BY DEF ControlInv, CallOf, Commanded
  <2>3. InfoInv'
    BY <1>1, <2>1 DEF InfoInv, Moving, Onward
  <2>4. NodeInv'
    <3>1. cli.cmd = "node-destroy" => cli.phase = "node"
      BY DEF ControlInv, Commanded
    <3> QED BY <1>1, <2>2, <3>1 DEF NodeInv, Removing, Moving, Onward
  <2> QED BY <2>3, <2>4
<1>5. CountInv'
  <2>1. cmds' = cmds /\ ids' = ids
    BY CallCounts
  <2>2. Pending' => Pending
    BY <1>1 DEF Pending, Moving, Onward
  <2> QED BY <2>1, <2>2 DEF CountInv
<1> QED BY <1>1, <1>2, <1>3, <1>4, <1>5

\* The files stay right as long as m1 keeps what it has, or loses it.
LEMMA GotoToken ==
  ASSUME QuietBase, NEW p, Goto(p), Follows(cli.pc, p),
         UNCHANGED <<s3, tokenFile, kubeconfig>>,
         At("wipe") => Cl' = 0,
         Cl' # 0 => Cl' = Cl /\ LiveToken' = LiveToken
  PROVE  TokenInv'
<1> USE Here DEF QuietBase, QuietInv, Follows, At
<1>1. Moving(p) /\ p \notin {"export", "write"} /\ cli.pc \notin {"export", "write"}
  BY GotoKeeps DEF Moving, Onward, TypeInv, TypeOK
<1>2. SavedToken' = SavedToken
  BY DEF SavedToken
<1>3. /\ \A i \in DOMAIN s3' : s3'[i].pw # 0 /\ s3'[i].secrets \subseteq s3'[i].reg
      /\ tokenFile' = <<>> => s3' = <<>>
      /\ tokenFile' # <<>> => SavedToken'.pw # 0
      /\ \A i \in DOMAIN s3' : s3'[i].pw = SavedToken'.pw
  BY <1>1, <1>2 DEF TokenInv
<1>4. ASSUME Cl' # 0
      PROVE  /\ tokenFile = <<>> => cli'.phase = "create"
             /\ tokenFile # <<>> /\ ~Restoring' => LiveToken'.pw = SavedToken'.pw
  BY <1>1, <1>2, <1>4 DEF TokenInv, Moving, Onward, Restoring
<1>5. ASSUME Cl' # 0 PROVE ~Renewing' => Exported'
  <2>1. ~Renewing' => Exported
    <3>1. Renewing => Renewing'
      BY <1>1, <1>5 DEF Moving, Onward, Renewing, Exports
    <3> QED BY <1>1, <1>5, <3>1, Zenon DEF TokenInv
  <2>2. Exported' = Exported
    BY <1>5 DEF Exported, Cl
  <2> QED BY <2>1, <2>2
<1> QED BY <1>1, <1>3, <1>4, <1>5, Zenon DEF TokenInv, Moving, Onward

\* The calls that lead from a clone to a unit at work.
LEMMA BuildMove ==
  ASSUME QuietBase, Step, NEW p, Goto(p), Follows(cli.pc, p),
         cli.pc \in {"clone", "start", "prepare", "check", "join"},
         UNCHANGED <<clu, files>>,
         At("prepare") => (p = "info" <=> cli.cur = Utility),
         \A w \in Offset \ {cli.cur} : node'[w] = node[w],
         node'[cli.cur].cl = node[cli.cur].cl, node'[cli.cur].st # "absent",
         node[cli.cur].unit = "active" => node'[cli.cur].unit = "active",
         cli.cur = Utility => node'[Utility].unit = "disabled",
         cli.cur \in Others' =>
           Cl # 0 /\ cli.cur \notin Protected /\ (Settled(cli.cur)' \/ Fresh(cli.cur)' \/ Joining(cli.cur)'),
         cli.cur = M1 => IF Cl = 0 THEN MasterNew' ELSE MasterBack',
         cli.cur # Image, At("clone") \/ cli.cur \in Vms, p = "start" => Fresh(cli.cur)'
  PROVE  QuietInv'
<1> USE Here DEF QuietBase, QuietInv, Follows, At
<1>1. Cl' = Cl /\ LiveToken' = LiveToken
  <2>1. node'[M1].cl = node[M1].cl
    BY DEF Cl
  <2> QED BY <2>1 DEF Cl, LiveToken
<1>2. /\ Orderly' /\ CountInv' /\ RestoresInv' /\ InfoInv' /\ NodeInv'
      /\ Moving(p) /\ p \notin {"refuse", "export", "write", "clone"}
  BY <1>1, GotoRest DEF files
<1>3. TokenInv'
  BY <1>1, GotoToken DEF files
<1>m. /\ cli'.phase = cli.phase /\ cli'.pc = p /\ cli'.cur = cli.cur /\ cli'.left = cli.left
      /\ cli'.seen = cli.seen /\ cli'.cfg = cli.cfg
      /\ p \in {"start", "prepare", "check", "info", "join", "wait"}
  BY <1>2 DEF Moving, Onward
<1>v. Vms' = Vms \cup {cli.cur} /\ Others \subseteq Others'
  BY DEF Vms, Others
<1>r. ~Removing /\ ~Removing'
  BY <1>m DEF Removing
<1>4. OthersInv'
  <2>1. ASSUME NEW v \in Offset, v \in Protected \/ v \notin Vms' PROVE Inert(v)'
    <3>1. v # cli.cur => node'[v] = node[v] /\ (v \in Protected \/ v \notin Vms)
      BY <1>v, <2>1
    <3>2. v = cli.cur => v = Utility
      BY <1>v, <2>1 DEF Protected
    <3>3. v = cli.cur => Inert(v)
      BY <2>1, <3>2 DEF OthersInv, Protected
    <3> QED BY <2>1, <3>1, <3>2, <3>3 DEF OthersInv, Inert
  <2>2. ASSUME NEW v \in Others', v # cli.cur
        PROVE  Cl' # 0 /\ (Settled(v)' \/ Fresh(v)' \/ Joining(v)')
    <3>1. v \in Others /\ node'[v] = node[v]
      BY <1>v, <2>2 DEF Others
    <3>2. Cl # 0 /\ Settled(v)
      BY <2>2, <3>1 DEF OthersInv, Fresh, Joining
    <3> QED BY <1>1, <1>m, <2>2, <3>1, <3>2 DEF Settled, Up, Leaving
  <2>3. cli'.phase \in {"restore", "purge"} => Others' = {}
    <3>1. cli.phase \in {"restore", "purge"} => Others = {} /\ cli.cur = M1
      BY DEF OthersInv, ControlInv, CallOf, Commanded, PlanInv, CallFits, Orderly
    <3> QED BY <1>m, <1>v, <3>1 DEF Others
  <2>4. cli'.phase = "rm" => cli'.left \subseteq Vms'
    BY <1>m, <1>v DEF OthersInv
  <2>5. cli.phase # "purge"
    BY DEF ControlInv, CallOf, Commanded, Orderly
  <2> QED BY <1>1, <1>m, <1>r, <2>1, <2>2, <2>3, <2>4, <2>5 DEF OthersInv
<1>5. SeenInv'
  <2>1. CASE ~At("clone")
    <3>1. Vms' = Vms
      BY <1>v, <2>1
    <3> QED BY <1>m, <3>1 DEF SeenInv
  <2>2. CASE At("clone")
    <3>1. cli.phase \in {"slaves", "workers"} => cli.cur \notin cli.left
      BY DEF PlanInv, BuildOrder, Added, TypeInv, TypeOK, CliTyped, CliState, Offset
    <3>2. cli.phase = "slaves" => cli.cur \notin WorkersOf(cli.cfg)
      BY DEF PlanInv, CallFits, Masters, WorkersOf
    <3>3. cli.phase # "demote"
      BY <2>2 DEF PlanInv, CallFits
    <3> QED BY <1>m, <1>v, <2>2, <3>1, <3>2, <3>3 DEF SeenInv
  <2> QED BY <2>1, <2>2
<1>6. ClusterInv'
  <2> SUFFICES ASSUME Cl # 0 PROVE ClusterInv'
    BY <1>1 DEF ClusterInv
  <2>1. \A v \in Offset : node'[v].cl = node[v].cl /\ ~Leaving(v) /\ ~Leaving(v)'
                          /\ (node[v].unit = "active" => node'[v].unit = "active")
    BY <1>m DEF Leaving
  <2>2. \A v \in Offset : v \in clu'[Cl'].members <=>
          v \in Masters /\ node'[v].cl = Cl' /\ ~Leaving(v)'
    BY <1>1, <2>1 DEF ClusterInv
  <2>3. \A v \in clu'[Cl'].reg : \/ cli'.phase \in {"restore", "purge"}
                                 \/ v = M1
                                 \/ v \in Others' /\ node'[v].unit = "active" /\ ~Leaving(v)'
    BY <1>1, <1>m, <1>v, <2>1 DEF ClusterInv
  <2> QED BY <1>1, <1>m, <2>2, <2>3 DEF ClusterInv
<1>7. MasterInv'
  <2>1. CASE cli.cur = M1
    BY <1>1, <1>m, <1>v, <2>1 DEF MasterInv
  <2>2. CASE cli.cur # M1
    <3>1. cli.phase \notin {"create", "restore", "update"} /\ node'[M1] = node[M1]
      BY <2>2 DEF PlanInv, CallFits
    <3>2. M1 \in Vms' <=> M1 \in Vms
      BY <1>v, <2>2
    <3>3. Cl # 0 /\ M1 \in Vms => MasterBack /\ MasterBack'
      BY <1>1, <1>m, <3>1 DEF MasterInv, MasterBack, Up, Exports
    <3>4. Cl = 0 => M1 \notin Vms
      BY <3>1 DEF MasterInv, MasterNew
    <3> QED BY <1>1, <1>m, <3>1, <3>2, <3>3, <3>4 DEF MasterInv
  <2> QED BY <2>1, <2>2
<1> QED BY <1>2, <1>3, <1>4, <1>5, <1>6, <1>7

\* Which node those calls are about.
LEMMA Builds ==
  ASSUME QuietBase, cli.pc \in {"clone", "start", "prepare", "check", "join"}
  PROVE  /\ cli.cur \in Offset /\ cli.cur # Image
         /\ \/ cli.phase \in {"create", "restore", "update"} /\ cli.cur = M1
            \/ /\ cli.phase \in {"slaves", "workers"} /\ Cl # 0
               /\ cli.cur \in Offset \ (Protected \cup {M1})
               /\ (cli.cur \in {2, 3} <=> cli.phase = "slaves")
               /\ At("clone") \/ cli.cur \in Others
            \/ /\ cli.phase = "node" /\ cli.cur = Utility
               /\ cli.pc \in {"clone", "start", "prepare"}
<1> USE Here DEF QuietBase, QuietInv, At
<1>1. \/ cli.phase \in {"create", "restore", "update", "slaves", "workers"}
      \/ cli.phase = "node" /\ cli.cur = Utility /\ cli.pc \in {"clone", "start", "prepare"}
  BY DEF ControlInv, CallOf, Orderly
<1>2. CASE cli.phase \in {"create", "restore", "update"}
  BY <1>2 DEF PlanInv, CallFits, M1, Image
<1>3. CASE cli.phase \in {"slaves", "workers"}
  <2>1. Cl # 0
    <3>1. M1 \in Vms
      BY <1>3 DEF PlanInv, BuildOrder
    <3> QED BY <1>3, <3>1 DEF MasterInv, MasterNew
  <2>2. cli.cfg \in Configs
    BY InisAssumption DEF TypeInv, TypeOK, CliTyped, CliState
  <2>3. cli.cur \in IF cli.phase = "slaves" THEN Slaves(cli.cfg) ELSE WorkersOf(cli.cfg)
    BY <1>3 DEF PlanInv, BuildOrder, Added
  <2>4. cli.cur \in Offset \ (Protected \cup {M1}) /\ (cli.cur \in {2, 3} <=> cli.phase = "slaves")
    BY <1>3, <2>2, <2>3 DEF Slaves, WorkersOf, LastWorker, Configs, Protected, Image, Utility, M1
  <2>5. ~At("clone") => cli.cur \in Others
    BY <1>3, AddedOther
  <2> QED BY <1>3, <2>1, <2>4, <2>5 DEF Protected
<1>4. CASE cli.phase = "node"
  BY <1>1, <1>4 DEF Utility, Image
<1> QED BY <1>1, <1>2, <1>3, <1>4

\* And what k3s_init_node makes of it.
LEMMA JoinsAs ==
  ASSUME QuietBase, cli.pc \in {"check", "join"}
  PROVE  /\ NodeType = "restore" <=> cli.phase = "restore"
         /\ cli.cur = M1 => Role = "init"
         /\ cli.cur # M1 => Role = RightRole(cli.cur) /\ JoinToken = SavedToken
<1> USE Here DEF QuietBase, QuietInv, At
<1>1. CASE cli.phase \in {"create", "restore", "update"} /\ cli.cur = M1
  <2>1. NodeType = IF cli.phase = "restore" THEN "restore" ELSE "master"
    BY <1>1 DEF NodeType, Orderly, M1, Utility
  <2> QED BY <1>1, <2>1 DEF Role
<1>2. CASE cli.phase \in {"slaves", "workers"} /\ cli.cur \in Others
           /\ (cli.cur \in {2, 3} <=> cli.phase = "slaves")
  <2>1. cli.cur \notin {2, 3} => cli.cur > Utility
    BY <1>2, LayoutAssumption DEF Others, Offset, Protected, Image, Utility, M1
  <2>2. NodeType = IF cli.phase = "slaves" THEN "slave" ELSE "worker"
    <3>1. cli.phase # "restore" /\ cli.cmd # "rejoin-slave"
      BY <1>2 DEF Orderly
    <3>2. CASE cli.cur \in {2, 3}
      <4>1. ~(cli.cur > Utility)
        BY <3>2 DEF Utility
      <4> QED BY <1>2, <3>1, <3>2, <4>1 DEF NodeType
    <3>3. CASE cli.cur \notin {2, 3}
      BY <1>2, <2>1, <3>1, <3>3 DEF NodeType
    <3> QED BY <3>2, <3>3
  <2>3. cli.cur # M1
    BY <1>2 DEF Others
  <2> QED BY <1>2, <2>2, <2>3 DEF Role, RightRole, JoinToken
<1> QED BY <1>1, <1>2, Builds

\* A node that is not Ready is given its configuration: a restore has a token.
LEMMA CheckNotReadyQuiet ==
  ASSUME QuietBase, CheckNotReady
  PROVE  QuietInv'
<1> USE Here DEF QuietBase, QuietInv, At
<1>1. /\ At("check") /\ Up(cli.cur) /\ UNCHANGED <<gvars, files>>
      /\ Goto(IF NodeType = "restore" /\ SavedToken = NoToken THEN "refuse" ELSE "join")
      /\ cli.cur \in Vms /\ Step
  BY DEF CheckNotReady, Up, Vms, Step
<1>2. Goto("join")
  <2>1. cli.phase = "restore" => SavedToken # NoToken
    BY <1>1 DEF TokenInv, RestoresInv, ControlInv, Commanded, NoToken
  <2> QED BY <1>1, <2>1, JoinsAs
<1>m. cli'.pc = "join" /\ cli'.phase = cli.phase /\ cli'.cur = cli.cur /\ cli'.cmd = cli.cmd
  BY <1>2, GotoKeeps DEF TypeInv, TypeOK
<1>3. node' = node /\ clu' = clu /\ Vms' = Vms /\ Others' = Others /\ Cl' = Cl
  BY <1>1 DEF gvars, Vms, Others, Cl
<1>4. ASSUME cli.cur \in Others'
      PROVE  Cl # 0 /\ cli.cur \notin Protected
             /\ (Settled(cli.cur)' \/ Fresh(cli.cur)' \/ Joining(cli.cur)')
  <2>1. Settled(cli.cur) => Settled(cli.cur)'
    BY <1>1, <1>3, <1>m DEF Settled, Up, Leaving
  <2>2. Fresh(cli.cur) => Fresh(cli.cur)'
    BY <1>1, <1>3, <1>m DEF Fresh, Up, Blank
  <2> QED BY <1>1, <1>3, <1>4, <2>1, <2>2 DEF OthersInv, Joining, Others
<1>5. cli.cur = M1 => IF Cl = 0 THEN MasterNew' ELSE MasterBack'
  <2>1. CASE Cl = 0 /\ cli.cur = M1
    <3>1. cli.phase \in {"create", "restore"} /\ Fresh(M1)
      BY <1>1, <2>1 DEF MasterInv, MasterNew, Booting, WipedOut
    <3>2. Fresh(M1)'
      BY <1>1, <1>3, <1>m, <3>1 DEF Fresh, Up, Blank
    <3> QED BY <1>m, <2>1, <3>1, <3>2 DEF MasterNew
  <2>2. CASE Cl # 0 /\ cli.cur = M1
    BY <1>1, <1>3, <1>m, <2>2 DEF MasterInv, MasterBack, Up, Exports
  <2> QED BY <2>1, <2>2
<1>6. cli.cur # Image /\ cli.cur # Utility
  BY <1>1, Builds DEF Utility, M1, Protected
<1> QED BY <1>1, <1>2, <1>3, <1>4, <1>5, <1>6, BuildMove DEF Follows, Vms

\* A clone is a new node beside m1, or m1 itself.
LEMMA CloneQuiet ==
  ASSUME QuietBase, Clone
  PROVE  QuietInv'
<1> USE Here DEF QuietBase, QuietInv, At
<1>1. /\ At("clone") /\ Goto("start") /\ node' = [node EXCEPT ![cli.cur] = Cloned]
      /\ UNCHANGED <<clu, files>> /\ Step
  BY DEF Clone, Step
<1>m. cli'.pc = "start" /\ cli'.phase = cli.phase /\ cli'.cur = cli.cur
  BY <1>1, GotoKeeps DEF TypeInv, TypeOK
<1>2. cli.cur # Utility => cli.cur \notin Vms
  BY <1>1, Builds DEF SeenInv, MasterInv, PlanInv, CallFits, ControlInv, CallOf
<1>3. Inert(cli.cur)
  BY <1>1, <1>2, Builds DEF OthersInv, Protected
<1>4. /\ \A w \in Offset \ {cli.cur} : node'[w] = node[w]
      /\ node'[cli.cur] = Cloned
  BY <1>1 DEF TypeInv, TypeOK, GuestsTyped
<1>5. Cloned.st = "stopped" /\ Cloned.unit = "disabled" /\ Cloned.cl = 0 /\ Blank(Cloned)
  BY DEF Cloned, Absent, Blank
<1>6. Fresh(cli.cur)'
  BY <1>4, <1>5, <1>m DEF Fresh, Blank
<1>7. cli.cur \in Others' => Cl # 0 /\ cli.cur \notin Protected
  BY <1>1, Builds DEF Others, Protected, Utility, M1
<1>8. cli.cur = M1 => Cl = 0 /\ MasterNew'
  BY <1>1, <1>2, <1>6, <1>m, NoMaster, Builds DEF MasterNew, MasterInv, M1, Utility
<1>9. cli.cur # Image
  BY <1>1, Builds
<1> QED BY <1>1, <1>3, <1>4, <1>5, <1>6, <1>7, <1>8, <1>9, BuildMove DEF Follows, Inert

\* It is powered on ...
LEMMA StartQuiet ==
  ASSUME QuietBase, Start
  PROVE  QuietInv'
<1> USE Here DEF QuietBase, QuietInv, At
<1>1. /\ At("start") /\ Goto("prepare") /\ node' = [node EXCEPT ![cli.cur] = Booted(@)]
      /\ UNCHANGED <<clu, files>> /\ Step /\ cli.cur \in Vms
  BY DEF Start, Step, PlanInv, CallFits
<1>m. cli'.pc = "prepare" /\ cli'.phase = cli.phase /\ cli'.cur = cli.cur
  BY <1>1, GotoKeeps DEF TypeInv, TypeOK
<1>2. /\ \A w \in Offset \ {cli.cur} : node'[w] = node[w]
      /\ node'[cli.cur] = Booted(node[cli.cur])
  BY <1>1 DEF TypeInv, TypeOK, GuestsTyped
<1>3. cli.cur # M1 => cli.cur \in {Utility} \cup Others
  BY <1>1, Builds
<1>4. cli.cur = M1 => Cl = 0 /\ Fresh(M1) /\ cli.phase \in {"create", "restore"}
  <2>1. cli.cur = M1 => cli.phase \in {"create", "restore"}
    BY <1>1, Builds DEF ControlInv, CallOf, Utility, M1
  <2> QED BY <1>1, <2>1 DEF MasterInv, MasterNew, MasterBack, Booting, WipedOut
<1>5. cli.cur # Utility => Fresh(cli.cur)
  BY <1>1, <1>3, <1>4 DEF SeenInv
<1>6. node[cli.cur].unit = "disabled" /\ node[cli.cur].cl = 0
  BY <1>5 DEF Fresh, Blank, OthersInv, Inert, Protected
<1>7. LET n == node[cli.cur] IN
      /\ Booted(n).st = "running" /\ Booted(n).unit = "disabled" /\ Booted(n).cl = 0
      /\ Booted(n).role = n.role /\ Booted(n).manifest = n.manifest
  BY <1>6 DEF Booted, NodeState
<1>8. cli.cur # Utility => Fresh(cli.cur)'
  BY <1>2, <1>5, <1>7, <1>m DEF Fresh, Blank, Up
<1>9. cli.cur \in Others' => Cl # 0 /\ cli.cur \notin Protected
  BY <1>1, <1>3, Builds DEF Others, Protected, Utility, M1, OthersInv
<1>10. cli.cur = M1 => Cl = 0 /\ MasterNew'
  BY <1>4, <1>8, <1>m DEF MasterNew, M1, Utility
<1>11. cli.cur # Image
  BY <1>1, Builds
<1> QED BY <1>1, <1>2, <1>6, <1>7, <1>8, <1>9, <1>10, <1>11, BuildMove DEF Follows, Protected

\* ... and given its name and address.
LEMMA PrepareQuiet ==
  ASSUME QuietBase, Prepare
  PROVE  QuietInv'
<1> USE Here DEF QuietBase, QuietInv, At
<1> DEFINE p == IF cli.cur = Utility THEN "info" ELSE "check"
<1>1. /\ At("prepare") /\ Goto(p) /\ Up(cli.cur) /\ cli.cur \in Vms
      /\ node' = [node EXCEPT ![cli.cur] = Prepared(@)]
      /\ UNCHANGED <<clu, files>> /\ Step
  BY DEF Prepare, Step, Up, Vms
<1>m. cli'.pc = p /\ cli'.phase = cli.phase /\ cli'.cur = cli.cur
  BY <1>1, GotoKeeps DEF TypeInv, TypeOK
<1>2. /\ \A w \in Offset \ {cli.cur} : node'[w] = node[w]
      /\ node'[cli.cur] = Prepared(node[cli.cur])
  BY <1>1 DEF TypeInv, TypeOK, GuestsTyped
<1>3. cli.cur # M1 => cli.cur \in {Utility} \cup Others
  BY <1>1, Builds
<1>4. cli.cur = M1 => Cl = 0 /\ Fresh(M1) /\ cli.phase \in {"create", "restore"}
  <2>1. cli.cur = M1 => cli.phase \in {"create", "restore"}
    BY <1>1, Builds DEF ControlInv, CallOf, Utility, M1
  <2> QED BY <1>1, <2>1 DEF MasterInv, MasterNew, MasterBack, Booting, WipedOut
<1>5. LET n == node[cli.cur] IN
      /\ Prepared(n).st = n.st /\ Prepared(n).unit = n.unit /\ Prepared(n).cl = n.cl
      /\ Prepared(n).role = n.role /\ Prepared(n).manifest = n.manifest /\ Prepared(n).prepared
      /\ Prepared(n).known = n.known
  BY DEF Prepared, NodeState
<1>6. ASSUME cli.cur # Utility, Fresh(cli.cur) PROVE Fresh(cli.cur)'
  BY <1>1, <1>2, <1>5, <1>6, <1>m DEF Fresh, Blank, Up
<1>7. ASSUME cli.cur # Utility, Settled(cli.cur), cli.cur # M1 PROVE Settled(cli.cur)'
  <2>1. Cl' = Cl
    BY <1>2, <1>7 DEF Cl
  <2>2. node'[cli.cur].prepared
    BY <1>2, <1>5
  <2> QED BY <1>1, <1>2, <1>5, <1>7, <1>m, <2>1, <2>2 DEF Settled, Up, Leaving
<1>8. ASSUME cli.cur \in Others'
      PROVE  Cl # 0 /\ cli.cur \notin Protected
             /\ (Settled(cli.cur)' \/ Fresh(cli.cur)' \/ Joining(cli.cur)')
  <2>1. cli.cur \in Others /\ cli.cur # Utility /\ cli.cur \notin Protected /\ cli.cur # M1
    BY <1>1, <1>8 DEF Others, Protected
  <2> QED BY <1>1, <1>6, <1>7, <2>1 DEF OthersInv, Joining
<1>9. cli.cur = M1 => Cl = 0 /\ MasterNew'
  BY <1>4, <1>6, <1>m DEF MasterNew, M1, Utility
<1>10. cli.cur # Image
  BY <1>1, Builds
<1>11. node[Utility].unit = "disabled"
  BY LayoutFacts DEF OthersInv, Inert, Protected
<1>12. /\ node'[cli.cur].cl = node[cli.cur].cl /\ node'[cli.cur].st # "absent"
       /\ node'[cli.cur].unit = node[cli.cur].unit
  BY <1>1, <1>2, <1>5 DEF Up
<1> QED BY <1>1, <1>2, <1>8, <1>9, <1>10, <1>11, <1>12, BuildMove DEF Follows

\* A node that joins has the token of the cluster; m1 on its first start makes
\* the cluster.
LEMMA K3sJoinQuiet ==
  ASSUME QuietBase, K3sJoin
  PROVE  QuietInv'
<1> USE Here DEF QuietBase, QuietInv, At
<1> SUFFICES ASSUME NEW v, v = cli.cur PROVE QuietInv'
  OBVIOUS
<1> DEFINE m == Started(Configured(node[v], Role, JoinToken, cli.cfg.opts))
<1>1. /\ At("join") /\ Goto("wait") /\ Up(v) /\ v \in Vms
      /\ node' = [node EXCEPT ![v] = m]
      /\ UNCHANGED <<clu, files>> /\ Step
  BY DEF K3sJoin, Step, Up, Vms
<1>m. cli'.pc = "wait" /\ cli'.phase = cli.phase /\ cli'.cur = v /\ cli'.cmd = cli.cmd
  BY <1>1, GotoKeeps DEF TypeInv, TypeOK
<1>2. (\A w \in Offset \ {v} : node'[w] = node[w]) /\ node'[v] = m
  BY <1>1 DEF TypeInv, TypeOK, GuestsTyped
<1>3. /\ m.st = node[v].st /\ m.prepared = node[v].prepared /\ m.cl = node[v].cl /\ m.known = node[v].known
      /\ m.manifest = node[v].manifest /\ m.role = Role /\ m.tok = JoinToken
      /\ m.unit = IF node[v].unit = "active" THEN "active" ELSE "starting"
  BY DEF Started, Configured, NodeState
<1> HIDE DEF m
<1>4. JoinToken' = JoinToken
  BY <1>1, <1>m DEF JoinToken, NodeType, SavedToken, files
<1>5. v # Image /\ v # Utility
  BY <1>1, Builds DEF Utility, M1, Protected
<1>6. ASSUME v \in Others'
      PROVE  Cl # 0 /\ v \notin Protected /\ (Settled(v)' \/ Fresh(v)' \/ Joining(v)')
  <2>1. v \in Others /\ v # M1 /\ v \notin Protected
    BY <1>1, <1>6 DEF Others
  <2>2. Cl # 0 /\ Cl' = Cl /\ Role = RightRole(v) /\ JoinToken = SavedToken
        /\ cli.phase \in {"slaves", "workers"}
    BY <1>1, <1>2, <2>1, Builds, JoinsAs DEF Cl, Utility, Protected
  <2>3. ASSUME Settled(v) PROVE Settled(v)'
    BY <1>1, <1>2, <1>3, <1>m, <2>2, <2>3 DEF Settled, Up, Leaving
  <2>4. ASSUME Fresh(v) PROVE Joining(v)'
    <3>1. SavedToken = LiveToken
      <4>1. ~Renewing
        BY <2>2 DEF Renewing
      <4>2. Exported
        BY <1>1, <2>2, <4>1, Zenon DEF TokenInv
      <4> QED BY <4>2 DEF Exported, SavedToken
    <3>2. LiveToken' = LiveToken
      BY <1>1, <1>2, <2>1 DEF LiveToken
    <3>3. v \notin clu[Cl].reg
      BY <2>1, <2>2, <2>4 DEF ClusterInv, Fresh, Blank
    <3>4. node[v].prepared /\ node[v].cl = 0 /\ node[v].unit # "active"
      BY <1>1, <2>4 DEF Fresh, Blank
    <3> QED BY <1>1, <1>2, <1>3, <1>m, <2>2, <3>1, <3>2, <3>3, <3>4 DEF Joining, Up
  <2> QED BY <1>1, <2>1, <2>2, <2>3, <2>4 DEF OthersInv, Joining
<1>7. v = M1 => IF Cl = 0 THEN MasterNew' ELSE MasterBack'
  <2>1. CASE v = M1 /\ Cl = 0
    <3>1. cli.phase \in {"create", "restore"} /\ Fresh(M1)
      BY <1>1, <2>1 DEF MasterInv, MasterNew, Booting, WipedOut
    <3>2. node[v].prepared /\ node[v].unit = "disabled" /\ node[v].manifest /\ Role = "init"
      BY <1>1, <2>1, <3>1, JoinsAs DEF Fresh, Blank
    <3>3. Booting'
      BY <1>1, <1>2, <1>3, <1>4, <1>m, <2>1, <3>2 DEF Booting, Up
    <3> QED BY <1>m, <2>1, <3>1, <3>3 DEF MasterNew
  <2>2. CASE v = M1 /\ Cl # 0
    <3>1. MasterBack /\ cli.phase # "restore" /\ Role = "init" /\ Cl' = Cl
      BY <1>1, <1>2, <1>3, <2>2, JoinsAs DEF MasterInv, MasterBack, Cl
    <3>2. node[v].prepared /\ node[v].manifest /\ node[v].unit \in {"starting", "active"}
      BY <1>1, <2>2, <3>1 DEF MasterBack
    <3>3. Up(M1)' /\ node'[M1].prepared /\ node'[M1].role = "init" /\ node'[M1].manifest
          /\ node'[M1].unit = node[v].unit /\ node'[M1].known = node[v].known
      <4>1. node'[M1] = m /\ v = M1
        BY <1>2, <2>2, Zenon
      <4>2. m.prepared /\ m.role = "init" /\ m.manifest /\ m.unit = node[v].unit
            /\ m.known = node[v].known /\ m.st = "running"
        <5>1. node[v].st = "running"
          BY <1>1, Zenon DEF Up
        <5>2. node[v].unit = "starting" \/ node[v].unit = "active"
          BY <3>2, Zenon
        <5>3. m.unit = node[v].unit
          BY <1>3, <5>2, SMTT(20)
        <5>4. node[v].prepared
          BY <3>2, Zenon
        <5> QED BY <1>3, <3>1, <3>2, <5>1, <5>3, <5>4, Zenon
      <4> QED BY <4>1, <4>2, Zenon DEF Up
    <3> QED BY <1>1, <1>m, <2>2, <3>1, <3>2, <3>3 DEF MasterBack, Exports
  <2> QED BY <2>1, <2>2
<1>8. node[v].unit = "active" => m.unit = "active"
  BY <1>3
<1>9. m.st # "absent"
  BY <1>1, <1>3 DEF Up
<1>10. ASSUME cli.cur \in Others'
       PROVE  Settled(cli.cur)' \/ Fresh(cli.cur)' \/ Joining(cli.cur)'
  <2>1. Settled(v)' \/ Fresh(v)' \/ Joining(v)'
    BY <1>6, <1>10
  <2> QED BY <1>m, <2>1 DEF Settled, Fresh, Joining, Leaving
<1> QED BY <1>1, <1>2, <1>3, <1>5, <1>6, <1>7, <1>8, <1>9, <1>10, BuildMove DEF Follows

\* A restore works on m1, which is alone.
LEMMA RestoreMove ==
  ASSUME QuietBase, Step, NEW p, Goto(p), Follows(cli.pc, p),
         cli.pc \in {"wipe", "reset", "manifest"}, UNCHANGED files,
         \A w \in Offset \ {M1} : node'[w] = node[w], Up(M1), Up(M1)',
         ClusterInv', MasterInv', TokenInv', Cl' = 0 /\ p # "reset" => Cl = 0
  PROVE  QuietInv'
<1> USE Here DEF QuietBase, QuietInv, Follows, At
<1>1. cli.phase = "restore"
  BY DEF ControlInv, CallOf
<1>2. /\ Orderly' /\ CountInv' /\ RestoresInv' /\ InfoInv' /\ NodeInv'
      /\ Moving(p) /\ p \notin {"refuse", "export", "write", "clone"}
  BY GotoRest DEF files
<1>m. cli'.phase = cli.phase /\ cli'.pc = p /\ p \in {"reset", "manifest", "rewait"}
  BY <1>2 DEF Moving, Onward
<1>3. Vms' = Vms /\ Others' = {}
  BY <1>1 DEF Vms, Up, OthersInv, Others
<1>4. OthersInv'
  <2>1. \A v \in Offset : v \in Protected \/ v \notin Vms' => Inert(v)'
    BY <1>3 DEF OthersInv, Inert, Up, Vms
  <2> QED BY <1>1, <1>3, <1>m, <2>1 DEF OthersInv, Removing
<1>5. SeenInv'
  BY <1>1, <1>m DEF SeenInv
<1> QED BY <1>2, <1>4, <1>5

\* The data of the cluster that was started to restore into is removed.
LEMMA WipeQuiet ==
  ASSUME QuietBase, Wipe
  PROVE  QuietInv'
<1> USE Here DEF QuietBase, QuietInv, At
<1> DEFINE m == Wiped(Killed(node[M1]))
<1>1. /\ At("wipe") /\ Goto("reset") /\ cli.phase = "restore" /\ cli.cur = M1 /\ Up(M1)
      /\ node' = [node EXCEPT ![M1] = m] /\ UNCHANGED <<clu, files>> /\ Step
  BY DEF Wipe, Step, ControlInv, CallOf, PlanInv, CallFits
<1>m. cli'.pc = "reset" /\ cli'.phase = "restore" /\ cli'.cur = M1
  BY <1>1, GotoKeeps DEF TypeInv, TypeOK
<1>2. (\A w \in Offset \ {M1} : node'[w] = node[w]) /\ node'[M1] = m
  BY <1>1 DEF TypeInv, TypeOK, GuestsTyped
<1>3. MasterBack
  <2>1. M1 \in Vms /\ ~MasterNew
    BY <1>1 DEF Up, Vms, MasterNew, Fresh, Booting, WipedOut
  <2> QED BY <2>1 DEF MasterInv
<1>4. /\ m.st = node[M1].st /\ m.prepared = node[M1].prepared /\ m.role = node[M1].role
      /\ m.cl = 0 /\ m.unit = "killed"
  <2>1. node[M1] \in NodeState /\ node[M1].unit # "disabled"
    BY <1>1, <1>3 DEF MasterBack
  <2> QED BY <2>1 DEF Wiped, Killed, NodeState
<1> HIDE DEF m
<1>5. Cl' = 0
  BY <1>2, <1>4 DEF Cl
<1>6. Up(M1)' /\ WipedOut'
  BY <1>1, <1>2, <1>3, <1>4, <1>m DEF Up, WipedOut, MasterBack
<1>7. MasterInv'
  BY <1>5, <1>6, <1>m DEF MasterInv, MasterNew, Up, Vms
<1>8. ClusterInv'
  BY <1>5 DEF ClusterInv
<1>9. TokenInv'
  BY <1>1, <1>5, GotoToken DEF Follows, files
<1> QED BY <1>1, <1>2, <1>5, <1>6, <1>7, <1>8, <1>9, RestoreMove DEF Follows

\* The reset succeeds: every snapshot was taken under the saved password.
LEMMA ResetQuiet ==
  ASSUME QuietBase, Reset
  PROVE  QuietInv'
<1> USE Here DEF QuietBase, QuietInv, At
<1> DEFINE s == s3[cli.snap]
<1>1. /\ At("reset") /\ cli.phase = "restore" /\ cli.cmd = "restore" /\ cli.cur = M1 /\ Up(M1)
      /\ UNCHANGED files /\ Step
  BY DEF Reset, Step, ControlInv, CallOf, Commanded, PlanInv, CallFits
<1>2. cli.snap \in DOMAIN s3 /\ tokenFile # <<>> /\ Decrypts(s)
  BY <1>1 DEF TypeInv, InHand, RestoresInv, TokenInv, Decrypts
<1>3. /\ s.ca \in Id /\ s.ca # 0 /\ s.pw # 0 /\ s.secrets \subseteq s.reg
      /\ s \in Snapshot
  <2>1. s \in Snapshot
    BY <1>2 DEF TypeInv, TypeOK, FilesTyped
  <2>2. s.ca \in 1..ids /\ ids \in 0..MaxId
    BY <1>2 DEF IdentityInv, TypeInv, TypeOK, GuestsTyped
  <2> QED BY <1>2, <2>1, <2>2, MaxIdAssumption DEF TokenInv, Id
<1> HIDE DEF s
<1>4. /\ Goto("manifest") /\ node' = [node EXCEPT ![M1].cl = s.ca]
      /\ clu' = [clu EXCEPT ![s.ca] = Restored(s, M1)]
  BY <1>1, <1>2 DEF Reset, s
<1>m. cli'.pc = "manifest" /\ cli'.phase = "restore" /\ cli'.cur = M1
  BY <1>1, <1>4, GotoKeeps DEF TypeInv, TypeOK
<1>5. WipedOut /\ Others = {}
  <2>1. M1 \in Vms /\ ~MasterBack
    BY <1>1 DEF Up, Vms, MasterBack
  <2> QED BY <1>1, <2>1 DEF MasterInv, MasterNew, Fresh, Booting, OthersInv
<1>6. /\ \A w \in Offset \ {M1} : node'[w] = node[w]
      /\ Cl' = s.ca /\ node'[M1].st = node[M1].st /\ node'[M1].prepared = node[M1].prepared
      /\ node'[M1].role = node[M1].role /\ node'[M1].unit = node[M1].unit
  BY <1>4 DEF TypeInv, TypeOK, GuestsTyped, NodeState, Cl
<1>7. /\ clu'[Cl'].members = {M1} /\ clu'[Cl'].reg = s.reg /\ clu'[Cl'].secrets = s.secrets \ {M1}
      /\ clu'[Cl'].pw = s.pw
  BY <1>3, <1>4, <1>6 DEF Restored, TypeInv, TypeOK, GuestsTyped
<1>8. MasterInv'
  <2>1. Up(M1)' /\ MasterBack'
    BY <1>5, <1>6, <1>7, <1>m DEF WipedOut, MasterBack, Up, Exports
  <2> QED BY <1>3, <1>6, <1>m, <2>1 DEF MasterInv, Up, Vms
<1>9. ClusterInv'
  <2>1. \A v \in Offset : v \in {M1} <=> v \in Masters /\ node'[v].cl = Cl' /\ ~Leaving(v)'
    <3>1. ASSUME NEW v \in Offset, v # M1 PROVE node'[v].cl = 0
      BY <1>5, <1>6, <3>1 DEF OthersInv, Inert, Others
    <3>2. M1 \in Masters /\ ~Leaving(M1)'
      BY DEF M1, Masters, Leaving
    <3> QED BY <1>3, <1>6, <3>1, <3>2 DEF Cl
  <2> QED BY <1>3, <1>7, <1>m, <2>1 DEF ClusterInv
<1>10. TokenInv'
  <2>1. SavedToken' = SavedToken /\ LiveToken'.pw = s.pw /\ SavedToken.pw = s.pw
    BY <1>1, <1>2, <1>6, <1>7 DEF SavedToken, LiveToken, Decrypts, files, Cl
  <2>2. Renewing'
    BY <1>m DEF Renewing
  <2>3. /\ \A i \in DOMAIN s3' : s3'[i].pw # 0 /\ s3'[i].secrets \subseteq s3'[i].reg
        /\ tokenFile' # <<>> /\ SavedToken'.pw # 0
        /\ \A i \in DOMAIN s3' : s3'[i].pw = SavedToken'.pw
    BY <1>1, <1>2, <2>1 DEF TokenInv, files
  <2> QED BY <1>m, <2>1, <2>2, <2>3 DEF TokenInv
<1>11. Up(M1)'
  BY <1>1, <1>6 DEF Up
<1>12. Cl' # 0
  BY <1>3, <1>6
<1> QED BY <1>1, <1>4, <1>6, <1>8, <1>9, <1>10, <1>11, <1>12, RestoreMove DEF Follows

\* m1 starts again, with the manifest the reset took away.
LEMMA ManifestQuiet ==
  ASSUME QuietBase, Manifest
  PROVE  QuietInv'
<1> USE Here DEF QuietBase, QuietInv, At
<1> DEFINE m == Started(Reapplied(node[M1]))
<1>1. /\ At("manifest") /\ Goto("rewait") /\ cli.phase = "restore" /\ cli.cur = M1 /\ Up(M1)
      /\ node' = [node EXCEPT ![M1] = m] /\ UNCHANGED <<clu, files>> /\ Step
  BY DEF Manifest, Step, ControlInv, CallOf, PlanInv, CallFits
<1>m. cli'.pc = "rewait" /\ cli'.phase = "restore" /\ cli'.cur = M1
  BY <1>1, GotoKeeps DEF TypeInv, TypeOK
<1>2. (\A w \in Offset \ {M1} : node'[w] = node[w]) /\ node'[M1] = m
  BY <1>1 DEF TypeInv, TypeOK, GuestsTyped
<1>3. MasterBack /\ Cl # 0
  <2>1. M1 \in Vms /\ ~MasterNew
    BY <1>1 DEF Up, Vms, MasterNew, Fresh, Booting, WipedOut
  <2> QED BY <2>1 DEF MasterInv
<1>4. /\ m.st = node[M1].st /\ m.prepared = node[M1].prepared /\ m.role = node[M1].role
      /\ m.cl = node[M1].cl /\ m.unit = "starting" /\ m.manifest /\ m.known = node[M1].known
  <2>1. node[M1] \in NodeState /\ node[M1].unit # "active"
    BY <1>1, <1>3 DEF MasterBack
  <2>2. m.manifest = TRUE
    BY <2>1 DEF Started, Reapplied, NodeState
  <2>3. /\ m.st = node[M1].st /\ m.prepared = node[M1].prepared /\ m.role = node[M1].role
        /\ m.cl = node[M1].cl /\ m.unit = "starting" /\ m.known = node[M1].known
    BY <2>1 DEF Started, Reapplied, NodeState
  <2> QED BY <2>2, <2>3
<1> HIDE DEF m
<1>5. Cl' = Cl /\ LiveToken' = LiveToken /\ clu' = clu
  BY <1>1, <1>2, <1>4 DEF Cl, LiveToken
<1>6. Up(M1)' /\ MasterBack'
  BY <1>1, <1>2, <1>3, <1>4, <1>5, <1>m DEF Up, MasterBack, Exports
<1>7. MasterInv'
  BY <1>3, <1>5, <1>6, <1>m DEF MasterInv, Up, Vms
<1>8. ClusterInv'
  <2>1. \A v \in Offset : node'[v].cl = node[v].cl /\ ~Leaving(v) /\ ~Leaving(v)'
    BY <1>1, <1>2, <1>4, <1>m DEF Leaving
  <2>2. \A v \in Offset : v \in clu[Cl].members <=>
          v \in Masters /\ node'[v].cl = Cl /\ ~Leaving(v)'
    BY <1>3, <2>1 DEF ClusterInv
  <2>3. clu[Cl].secrets \subseteq clu[Cl].reg /\ clu[Cl].pw # 0
    BY <1>1, <1>3 DEF ClusterInv
  <2> QED BY <1>5, <1>m, <2>2, <2>3 DEF ClusterInv
<1>9. TokenInv'
  BY <1>1, <1>5, GotoToken DEF Follows, files
<1> QED BY <1>1, <1>2, <1>3, <1>5, <1>6, <1>7, <1>8, <1>9, RestoreMove DEF Follows

\* A removal that goes on keeps what is said of the invocation and of the files.
LEMMA RemovalRest ==
  ASSUME QuietBase, Step, NEW p, Goto(p), Follows(cli.pc, p), Removing,
         p = "next" => cli.phase # "node", UNCHANGED <<tokenFile, kubeconfig, s3>>,
         Vms' \subseteq Vms, Cl' = 0 /\ p # "next" => Cl = 0,
         Cl' # 0 => Cl' = Cl /\ LiveToken' = LiveToken
  PROVE  /\ Orderly' /\ CountInv' /\ RestoresInv' /\ InfoInv' /\ NodeInv'
         /\ TokenInv' /\ SeenInv' /\ Moving(p)
<1> USE Here DEF QuietBase, QuietInv, Follows, At, Removing
<1>1. /\ Orderly' /\ CountInv' /\ RestoresInv' /\ InfoInv' /\ NodeInv'
      /\ Moving(p) /\ p \notin {"refuse", "export", "write", "clone", "start"}
  BY GotoRest
<1>2. TokenInv'
  BY GotoToken
<1>3. SeenInv'
  BY <1>1 DEF SeenInv, Moving, Onward
<1> QED BY <1>1, <1>2, <1>3

\* m1's API is asked, about another node.
LEMMA AsksM1 ==
  ASSUME QuietBase, cli.pc \in {"cordon", "delnode", "delsecret"}
  PROVE  /\ Routes = {M1} /\ cli.cur # M1 /\ cli.cmd # "k3s-uninstall"
         /\ (Cl # 0 <=> ApiAt(M1))
         /\ \A v \in Others : Settled(v)
         /\ cli.phase \in {"rm", "demote", "extras", "purge", "node"}
<1> USE Here DEF QuietBase, QuietInv, At
<1>1. Routes = {M1} /\ cli.cmd # "k3s-uninstall"
  BY DEF Routes, Orderly
<1>2. Cl # 0 <=> ApiAt(M1)
  BY MasterAnswers DEF ApiAt, Cl
<1>3. \A v \in Others : Settled(v)
  BY DEF OthersInv, Fresh, Joining
<1>4. cli.cur # M1 /\ cli.phase \in {"rm", "demote", "extras", "purge", "node"}
  BY DEF OthersInv, Removing, PlanInv, CallFits
<1> QED BY <1>1, <1>2, <1>3, <1>4

\* What kubectl takes away of a node leaves everybody else where they are.
LEMMA KubectlQuiet ==
  ASSUME QuietBase, Step, NEW p, Goto(p), Follows(cli.pc, p),
         cli.pc \in {"cordon", "delnode", "delsecret"}, p = "next" => cli.phase = "purge",
         UNCHANGED <<node, files>>,
         Cl # 0 => /\ clu'[Cl].pw = clu[Cl].pw /\ clu'[Cl].vip = clu[Cl].vip
                   /\ clu'[Cl].reg = IF At("delnode") THEN clu[Cl].reg \ {cli.cur} ELSE clu[Cl].reg
                   /\ clu'[Cl].secrets = IF At("delsecret") THEN clu[Cl].secrets \ {cli.cur}
                                                            ELSE clu[Cl].secrets
                   /\ clu'[Cl].members = IF At("delnode") /\ cli.cur \in clu[Cl].reg
                                           THEN clu[Cl].members \ {cli.cur} ELSE clu[Cl].members
  PROVE  QuietInv'
<1> USE Here DEF QuietBase, QuietInv, Follows, At
<1>1. /\ cli.cur # M1 /\ \A v \in Others : Settled(v)
      /\ cli.phase \in {"rm", "demote", "extras", "purge", "node"}
  BY AsksM1
<1>2. Cl' = Cl /\ Vms' = Vms /\ Others' = Others /\ (Cl # 0 => LiveToken' = LiveToken)
  BY DEF Cl, Vms, Others, LiveToken
<1>3. /\ Orderly' /\ CountInv' /\ RestoresInv' /\ InfoInv' /\ NodeInv'
      /\ TokenInv' /\ SeenInv' /\ Moving(p)
  BY <1>2, RemovalRest DEF Removing, files
<1>m. /\ cli'.phase = cli.phase /\ cli'.pc = p /\ cli'.cur = cli.cur /\ cli'.left = cli.left
      /\ p \in {"delnode", "delsecret", "destroy", "next"}
  BY <1>3 DEF Moving, Onward
<1>p. cli.phase = "purge" => Others = {} /\ ~At("purge")
  BY DEF OthersInv
<1>4. ASSUME NEW v \in Others PROVE Settled(v)'
  <2>1. /\ Up(v)' /\ node'[v].prepared /\ node'[v].unit = "active"
        /\ node'[v].role = RightRole(v) /\ node'[v].cl = Cl' /\ Cl' \in node'[v].known
    BY <1>1, <1>2 DEF Settled, Up
  <2>2. v \in clu'[Cl'].reg \/ Leaving(v)'
    <3>1. Cl # 0 /\ (v \in clu[Cl].reg \/ Leaving(v)) /\ cli.phase # "purge"
      BY <1>1, <1>p DEF Settled, OthersInv
    <3> QED BY <1>1, <1>2, <1>m, <3>1 DEF Leaving
  <2> QED BY <2>1, <2>2 DEF Settled
<1>5. OthersInv'
  <2>1. \A v \in Offset : v \in Protected \/ v \notin Vms' => Inert(v)'
    BY <1>2 DEF OthersInv, Inert
  <2>2. /\ cli'.phase = "rm" => cli'.left \subseteq Vms' /\ cli'.cur \in Vms'
        /\ cli'.phase = "purge" => M1 \notin cli'.left
        /\ cli'.cur \notin cli'.left /\ cli'.cur # M1
    BY <1>1, <1>2, <1>m, <1>p DEF OthersInv, Removing
  <2>3. cli'.phase \in {"restore", "purge"} => Others' = {}
    BY <1>1, <1>2, <1>m, <1>p
  <2>4. \A v \in Others' : Cl' # 0
    BY <1>2 DEF OthersInv
  <2> QED BY <1>2, <1>4, <2>1, <2>2, <2>3, <2>4 DEF OthersInv
<1>6. ClusterInv'
  <2> SUFFICES ASSUME Cl # 0 PROVE ClusterInv'
    BY <1>2 DEF ClusterInv
  <2>0. ASSUME NEW v \in Offset, v \notin Others, v # M1 PROVE node[v].cl = 0
    BY <2>0 DEF OthersInv, Inert, Others
  <2>1. ASSUME NEW v \in Offset
        PROVE  v \in clu'[Cl].members <=> v \in Masters /\ node[v].cl = Cl /\ ~Leaving(v)'
    <3>1. v \in clu[Cl].members <=> v \in Masters /\ node[v].cl = Cl /\ ~Leaving(v)
      BY DEF ClusterInv
    <3>2. CASE v # cli.cur
      BY <1>m, <3>1, <3>2 DEF Leaving
    <3>3. CASE v = cli.cur /\ v \in Others
      <4>1. Settled(v) /\ cli.phase # "purge"
        BY <1>1, <1>p, <3>3
      <4> QED BY <1>1, <1>m, <3>1, <3>3, <4>1 DEF Settled, Leaving
    <3>4. CASE v = cli.cur /\ v \notin Others
      BY <1>1, <2>0, <3>1, <3>4
    <3> QED BY <3>2, <3>3, <3>4
  <2>2. ASSUME NEW v \in clu'[Cl].reg
        PROVE  \/ cli'.phase \in {"restore", "purge"}
               \/ v = M1
               \/ v \in Others /\ node[v].unit = "active" /\ ~Leaving(v)'
    BY <1>1, <1>m, <2>2 DEF ClusterInv, Leaving
  <2>3. cli'.phase = "purge" =>
          clu'[Cl].reg \subseteq {M1} \cup cli'.left \cup (IF p = "delnode" THEN {cli'.cur} ELSE {})
    BY <1>m, <1>p DEF ClusterInv
  <2>4. /\ clu'[Cl].secrets \subseteq
             clu'[Cl].reg \cup (IF p = "delsecret" THEN {cli'.cur} ELSE {})
        /\ clu'[Cl].pw # 0
    BY <1>m DEF ClusterInv
  <2> QED BY <1>2, <1>m, <2>1, <2>2, <2>3, <2>4 DEF ClusterInv
<1>7. MasterInv'
  <2>1. CASE M1 \in Vms
    <3>1. Cl # 0 /\ MasterBack
      BY <1>1, <2>1 DEF MasterInv, MasterNew
    <3>2. MasterBack'
      BY <1>1, <1>2, <1>m, <3>1 DEF MasterBack, Up, Exports
    <3> QED BY <1>1, <1>2, <1>m, <2>1, <3>1, <3>2 DEF MasterInv
  <2>2. CASE M1 \notin Vms
    BY <1>1, <1>2, <1>m, <2>2 DEF MasterInv
  <2> QED BY <2>1, <2>2
<1> QED BY <1>3, <1>5, <1>6, <1>7

\* Cordoning changes nothing that is counted on.
LEMMA CordonQuiet ==
  ASSUME QuietBase, Cordon
  PROVE  QuietInv'
<1> USE Here DEF QuietBase, QuietInv, At
<1>1. /\ At("cordon") /\ Goto("delnode") /\ UNCHANGED <<node, files>> /\ Step
      /\ Kubectl(M1, Cordoned(Api(M1), cli.cur))
  <2>1. Routes = {M1}
    BY AsksM1 DEF Cordon
  <2> QED BY <2>1 DEF Cordon, Step
<1>2. Cl # 0 => clu[Cl] \in ClusterState /\ Api(M1) = clu[Cl] /\ ApiAt(M1)
  BY <1>1, AsksM1 DEF Api, Cl
<1>3. Cl # 0 => clu'[Cl] = Cordoned(clu[Cl], cli.cur)
  BY <1>1, <1>2 DEF Kubectl, TypeInv, TypeOK, GuestsTyped, Cl
<1>4. Cl # 0 => /\ clu'[Cl].pw = clu[Cl].pw /\ clu'[Cl].vip = clu[Cl].vip
                /\ clu'[Cl].reg = clu[Cl].reg /\ clu'[Cl].secrets = clu[Cl].secrets
                /\ clu'[Cl].members = clu[Cl].members
  BY <1>2, <1>3 DEF Cordoned, ClusterState
<1> QED BY <1>1, <1>4, KubectlQuiet DEF Follows

\* Deleting a Node takes it off m1's list and its member out of etcd.
LEMMA DelNodeQuiet ==
  ASSUME QuietBase, DelNode
  PROVE  QuietInv'
<1> USE Here DEF QuietBase, QuietInv, At
<1>1. /\ At("delnode") /\ Goto("delsecret") /\ UNCHANGED <<node, files>> /\ Step
      /\ Kubectl(M1, NodeDeleted(Api(M1), cli.cur))
  <2>1. Routes = {M1}
    BY AsksM1 DEF DelNode
  <2> QED BY <2>1 DEF DelNode, Step
<1>2. Cl # 0 => clu[Cl] \in ClusterState /\ Api(M1) = clu[Cl] /\ ApiAt(M1)
  BY <1>1, AsksM1 DEF Api, Cl
<1>3. Cl # 0 => clu'[Cl] = NodeDeleted(clu[Cl], cli.cur)
  BY <1>1, <1>2 DEF Kubectl, TypeInv, TypeOK, GuestsTyped, Cl
<1>4. Cl # 0 => /\ clu'[Cl].pw = clu[Cl].pw /\ clu'[Cl].vip = clu[Cl].vip
                /\ clu'[Cl].reg = clu[Cl].reg \ {cli.cur} /\ clu'[Cl].secrets = clu[Cl].secrets
                /\ clu'[Cl].members = IF cli.cur \in clu[Cl].reg
                                        THEN clu[Cl].members \ {cli.cur} ELSE clu[Cl].members
  BY <1>2, <1>3 DEF NodeDeleted, ClusterState
<1> QED BY <1>1, <1>4, KubectlQuiet DEF Follows

\* Its password goes too.
LEMMA DelSecretQuiet ==
  ASSUME QuietBase, DelSecret
  PROVE  QuietInv'
<1> USE Here DEF QuietBase, QuietInv, At
<1>1. /\ At("delsecret") /\ AfterSecret /\ UNCHANGED <<node, files>> /\ Step
      /\ Kubectl(M1, SecretDeleted(Api(M1), cli.cur))
  <2>1. Routes = {M1}
    BY AsksM1 DEF DelSecret
  <2> QED BY <2>1 DEF DelSecret, Step
<1>2. Cl # 0 => clu[Cl] \in ClusterState /\ Api(M1) = clu[Cl] /\ ApiAt(M1)
  BY <1>1, AsksM1 DEF Api, Cl
<1>3. Cl # 0 => clu'[Cl] = SecretDeleted(clu[Cl], cli.cur)
  BY <1>1, <1>2 DEF Kubectl, TypeInv, TypeOK, GuestsTyped, Cl
<1>4. Cl # 0 => /\ clu'[Cl].pw = clu[Cl].pw /\ clu'[Cl].vip = clu[Cl].vip
                /\ clu'[Cl].reg = clu[Cl].reg
                /\ clu'[Cl].secrets = clu[Cl].secrets \ {cli.cur}
                /\ clu'[Cl].members = clu[Cl].members
  BY <1>2, <1>3 DEF SecretDeleted, ClusterState
<1>5. \E p \in {"destroy", "next"} : Goto(p) /\ (p = "next" => cli.phase = "purge")
  BY <1>1, AsksM1 DEF AfterSecret, Return
<1> QED BY <1>1, <1>4, <1>5, KubectlQuiet DEF Follows

\* m1 is destroyed last of a cluster; any other node has left it before.
LEMMA DestroyQuiet ==
  ASSUME QuietBase, Destroy
  PROVE  QuietInv'
<1> USE Here DEF QuietBase, QuietInv, At
<1>1. /\ At("destroy") /\ Return /\ node' = [node EXCEPT ![cli.cur] = Absent]
      /\ UNCHANGED <<clu, ids, tokenFile, kubeconfig, s3>> /\ Step
  BY DEF Destroy, Step
<1>2. (\A w \in Offset \ {cli.cur} : node'[w] = node[w]) /\ node'[cli.cur] = Absent
  BY <1>1 DEF TypeInv, TypeOK, GuestsTyped
<1>3. Absent.st = "absent" /\ Absent.cl = 0 /\ Absent.unit = "disabled"
  BY DEF Absent
<1>v. Vms' = Vms \ {cli.cur} /\ Others' = Others \ {cli.cur}
  BY <1>2, <1>3 DEF Vms, Others
<1>p. cli.phase \in {"rm", "demote", "extras", "node"}
  BY <1>1 DEF PlanInv, CallFits, Removing
<1>w. cli.cur = M1 => cli.phase = "rm" /\ Others = {} /\ cli.left = {}
  <2>1. cli.phase \in {"demote", "extras"} => cli.cur # M1
    <3>1. cli.cfg \in Configs
      BY InisAssumption DEF TypeInv, TypeOK, CliTyped, CliState
    <3>2. M1 \notin Surplus(cli.phase)
      BY <3>1, LayoutAssumption DEF Configs, LastWorker, Surplus, M1
    <3> QED BY <1>1, <3>2 DEF PlanInv, SurplusOnly
  <2>2. cli.phase = "node" => cli.cur # M1
    BY <1>1 DEF PlanInv, CallFits, Removing, Orderly
  <2>3. cli.phase = "rm" /\ cli.cur = M1 => cli.left = {}
    <3>1. cli.phase = "rm" /\ cli.cur = M1 =>
            /\ cli.left \cap Protected = {} /\ \A v \in cli.left : v <= M1
            /\ M1 \notin cli.left
      BY <1>1 DEF PlanInv, TeardownOrder, Removing, OthersInv
    <3> QED BY <3>1 DEF Offset, M1, Protected, Image
  <2>4. cli.phase = "rm" /\ cli.cur = M1 => Others = {}
    BY <1>1, <2>3 DEF PlanInv, TeardownOrder, Removing, Others
  <2> QED BY <1>p, <2>1, <2>2, <2>3, <2>4
<1>m. /\ cli'.cfg = cli.cfg /\ cli'.pc \in {"next", "idle"}
      /\ \/ Over /\ cli.phase = "node"
         \/ cli.phase # "node" /\ Goto("next") /\ Moving("next")
  <2>1. CASE cli.phase = "node"
    BY <1>1, <2>1, ReturnMoves DEF Over, Loops
  <2>2. CASE cli.phase # "node"
    <3>1. Goto("next")
      BY <1>1, <1>p, <2>2 DEF Return
    <3> QED BY <2>2, <3>1, GotoKeeps DEF Moving, Onward, TypeInv, TypeOK
  <2> QED BY <2>1, <2>2
<1>c. cli.cur # M1 => Cl' = Cl /\ LiveToken' = LiveToken /\ node'[M1] = node[M1]
  BY <1>1, <1>2 DEF Cl, LiveToken
<1>d. cli.cur = M1 => Cl' = 0
  BY <1>2, <1>3 DEF Cl
<1>4. ASSUME NEW v \in Others' PROVE Cl' # 0 /\ Settled(v)'
  <2>1. v \in Others /\ v # cli.cur /\ Cl # 0 /\ Settled(v) /\ ~Leaving(v)
    BY <1>1, <1>v DEF OthersInv, Fresh, Joining, Leaving
  <2>2. Cl' = Cl
    BY <1>c, <1>w, <2>1
  <2> QED BY <1>1, <1>2, <2>1, <2>2 DEF Settled, Up
<1>5. OthersInv'
  <2>1. \A v \in Offset : v \in Protected \/ v \notin Vms' => Inert(v)'
    BY <1>2, <1>3, <1>v DEF OthersInv, Inert
  <2>2. /\ cli'.phase \notin {"restore", "purge"} /\ ~Removing'
        /\ cli'.phase = "rm" => cli'.left \subseteq Vms'
    <3>1. cli.phase = "rm" => cli.left \subseteq Vms /\ cli.cur \notin cli.left
      BY <1>1 DEF OthersInv, Removing
    <3> QED BY <1>m, <1>p, <1>v, <3>1 DEF Over, Moving, Onward, Removing
  <2> QED BY <1>4, <2>1, <2>2 DEF OthersInv
<1>6. ClusterInv'
  <2> SUFFICES ASSUME Cl' # 0 PROVE ClusterInv'
    BY DEF ClusterInv
  <2>1. Cl # 0 /\ Cl' = Cl /\ clu' = clu /\ cli.cur # M1
    BY <1>1, <1>c, <1>d
  <2>2. /\ \A v \in Offset : ~Leaving(v)' /\ (Leaving(v) <=> v = cli.cur)
        /\ cli'.phase # "purge" /\ cli.phase # "purge"
    BY <1>1, <1>m, <1>p, <2>1 DEF Leaving, Over, Moving, Onward
  <2>3. ASSUME NEW v \in Offset
        PROVE  v \in clu[Cl].members <=> v \in Masters /\ node'[v].cl = Cl
    BY <1>2, <1>3, <2>1, <2>2 DEF ClusterInv
  <2>4. ASSUME NEW v \in clu[Cl].reg
        PROVE  v = M1 \/ (v \in Others' /\ node'[v].unit = "active")
    BY <1>2, <1>p, <1>v, <2>1, <2>2 DEF ClusterInv
  <2>5. clu[Cl].secrets \subseteq clu[Cl].reg /\ clu[Cl].pw # 0
    BY <1>1, <2>1 DEF ClusterInv
  <2> QED BY <2>1, <2>2, <2>3, <2>4, <2>5 DEF ClusterInv
<1>7. MasterInv'
  <2>1. cli'.phase \notin {"create", "restore", "purge"} /\ cli'.phase # "update"
    BY <1>m, <1>p DEF Over, Moving, Onward
  <2>2. CASE cli.cur = M1
    <3>1. M1 \notin Vms' /\ cli'.phase = "rm"
      BY <1>m, <1>v, <1>w, <2>2 DEF Moving, Onward
    <3> QED BY <3>1 DEF MasterInv, UpdateLoops
  <2>3. CASE cli.cur # M1 /\ M1 \in Vms
    <3>1. Cl # 0 /\ MasterBack
      BY <1>p, <2>3 DEF MasterInv, MasterNew
    <3>2. MasterBack'
      BY <1>1, <1>c, <1>m, <1>p, <2>1, <2>3, <3>1 DEF MasterBack, Up, Exports
    <3> QED BY <1>c, <1>m, <2>1, <2>3, <3>1, <3>2 DEF MasterInv, Vms
  <2>4. CASE M1 \notin Vms
    <3>1. cli'.phase \notin UpdateLoops /\ M1 \notin Vms'
      BY <1>m, <1>v, <2>4 DEF MasterInv, Over, Moving, Onward, UpdateLoops
    <3> QED BY <2>1, <3>1 DEF MasterInv
  <2> QED BY <2>2, <2>3, <2>4
<1>8. CASE Over /\ cli.phase = "node"
  <2>1. Orderly' /\ RestoresInv' /\ InfoInv' /\ NodeInv' /\ SeenInv'
    BY <1>8 DEF Over, Orderly, RestoresInv, InfoInv, NodeInv, SeenInv
  <2>2. CountInv'
    BY <1>1, <1>8, CallCounts DEF Over, CountInv, Pending
  <2>3. cli.cur # M1
    BY <1>8, <1>w
  <2>4. SavedToken' = SavedToken /\ Exported' = Exported
    BY <1>1, <1>c, <2>3 DEF SavedToken, Exported, Cl
  <2>5. ~Renewing /\ ~Restoring /\ Cl' = Cl /\ LiveToken' = LiveToken
    BY <1>8, <1>c, <2>3 DEF Renewing, Restoring
  <2>6. /\ \A i \in DOMAIN s3' : s3'[i].pw # 0 /\ s3'[i].secrets \subseteq s3'[i].reg
        /\ tokenFile' = <<>> => s3' = <<>>
        /\ tokenFile' # <<>> => SavedToken'.pw # 0
        /\ \A i \in DOMAIN s3' : s3'[i].pw = SavedToken'.pw
    BY <1>1, <2>4 DEF TokenInv
  <2>7. ASSUME Cl' # 0 PROVE Exported' /\ (tokenFile' # <<>> => LiveToken'.pw = SavedToken'.pw)
                             /\ tokenFile' # <<>>
    <3>1. Exported
      BY <1>1, <2>5, <2>7, Zenon DEF TokenInv
    <3> QED BY <1>1, <2>4, <2>5, <3>1 DEF Exported, SavedToken
  <2>8. TokenInv'
    BY <1>8, <2>6, <2>7, Zenon DEF TokenInv, Over
  <2> QED BY <1>5, <1>6, <1>7, <2>1, <2>2, <2>8
<1>9. CASE cli.phase # "node" /\ Goto("next")
  BY <1>1, <1>5, <1>6, <1>7, <1>9, <1>c, <1>d, <1>v, RemovalRest DEF Follows, Removing
<1> QED BY <1>m, <1>8, <1>9

\* One call of a command: calm, or one that builds, restores or removes a node.
LEMMA StepQuiet ==
  ASSUME QuietBase, Undisturbed, Step
  PROVE  QuietInv'
<1> USE DEF QuietBase
<1>1. ~TimedOut /\ ~NoInternet
  BY NotTimedOut, NotOffline
<1>2. ~Kill /\ ~Unconfig
  BY DEF Kill, Unconfig, At, QuietInv, Orderly, PlanInv, CallFits
<1>3. CASE Calm
  BY <1>3, CalmQuiet
<1>4. CASE Clone \/ Start \/ Prepare \/ CheckNotReady \/ K3sJoin
  BY <1>4, CloneQuiet, StartQuiet, PrepareQuiet, CheckNotReadyQuiet, K3sJoinQuiet
<1>5. CASE Wipe \/ Reset \/ Manifest
  BY <1>5, WipeQuiet, ResetQuiet, ManifestQuiet
<1>6. CASE Cordon \/ DelNode \/ DelSecret \/ Destroy
  BY <1>6, CordonQuiet, DelNodeQuiet, DelSecretQuiet, DestroyQuiet
<1> QED BY <1>1, <1>2, <1>3, <1>4, <1>5, <1>6, Zenon DEF Step, Calm

\* Between two commands every node is settled, and a new one finds them as the
\* last one left them: there is nothing to power on but the utility VM.
LEMMA BeginFinds ==
  ASSUME QuietBase, NEW c \in Commands, NEW a, NEW k \in Inis, Begin(c, a, k)
  PROVE  /\ Vms' = Vms /\ Others' = Others /\ Cl' = Cl /\ UNCHANGED <<clu, ids, files, faults>>
         /\ \A v \in Offset \ {Utility} : node'[v] = node[v]
         /\ node'[Utility].cl = node[Utility].cl /\ node'[Utility].unit = node[Utility].unit
         /\ \A v \in Others : Settled(v) /\ ~Leaving(v)
         /\ M1 \in Vms => Cl # 0 /\ MasterBack /\ node[M1].unit # "killed"
         /\ cli.phase = "none" /\ cli.pc = "idle"
<1> USE Here DEF QuietBase, QuietInv, At
<1>1. /\ cli.phase = "none" /\ cli.pc = "idle" /\ UNCHANGED <<clu, ids, files, faults>>
      /\ \A v \in Offset : node'[v] = IF v # Image /\ node[v].st = "stopped"
                                         THEN Booted(node[v]) ELSE node[v]
  BY DEF Begin, TypeInv, InHand, PoweredOn
<1>2. \A v \in Others : Settled(v) /\ ~Leaving(v)
  BY <1>1 DEF OthersInv, Fresh, Joining, Leaving
<1>3. M1 \in Vms => Cl # 0 /\ MasterBack /\ node[M1].unit # "killed"
  BY <1>1 DEF MasterInv, MasterNew, MasterBack
<1>4. \A v \in Offset : v \in Protected \/ v \notin Vms => Inert(v)
  BY DEF OthersInv
<1>5. \A v \in Offset \ {Utility} : node'[v] = node[v]
  <2> SUFFICES ASSUME NEW v \in Offset \ {Utility}, v # Image, node[v].st = "stopped"
               PROVE  FALSE
    BY <1>1
  <2>1. v \in Others \cup {M1} /\ v \in Vms
    BY DEF Others, Vms, Protected
  <2> QED BY <1>2, <1>3, <2>1 DEF Settled, MasterBack, Up
<1>6. Utility \in Offset /\ M1 # Utility /\ node[Utility] \in NodeState /\ node[Utility].unit = "disabled"
  BY <1>4, LayoutFacts DEF Protected, Utility, M1, Inert
<1>7. /\ node'[Utility].cl = node[Utility].cl /\ node'[Utility].unit = node[Utility].unit
      /\ (node'[Utility].st = "absent" <=> node[Utility].st = "absent")
  BY <1>1, <1>6, NodeOpsSt, NodeOpsData
<1>8. Vms' = Vms /\ Others' = Others /\ Cl' = Cl
  BY <1>5, <1>6, <1>7 DEF Vms, Others, Cl
<1> QED BY <1>1, <1>2, <1>3, <1>5, <1>7, <1>8

\* The call a command begins with.
LEMMA BeginCalls ==
  ASSUME TypeInv, NEW c \in Commands, NEW a, NEW k \in Inis, Begin(c, a, k), Orderly'
  PROVE  /\ cli'.cmd = c /\ cli'.arg = a /\ cli'.cfg = k /\ cli'.seen = {} /\ cmds' = cmds + 1
         /\ cli'.left \subseteq Vms \ Protected /\ c \notin {"k3s-uninstall", "rejoin-slave"}
         /\ cli'.phase # "rm" => cli'.left = {}
         /\ \/ c = "create" /\ cli'.phase = "create"
               /\ cli'.pc = IF M1 \in Vms THEN "check" ELSE "clone"
            \/ c = "update" /\ cli'.phase = "update" /\ cli'.pc = "check"
            \/ c = "restore" /\ cli'.phase = "rm"
               /\ cli'.pc = IF MayRestore THEN "next" ELSE "refuse"
            \/ c = "destroy" /\ cli'.phase = "rm" /\ cli'.pc = "next"
            \/ c = "node-destroy" /\ cli'.phase = "node" /\ cli'.pc \in {"refuse", "cordon"}
               /\ cli'.cur = a /\ a # M1
            \/ c = "utility" /\ cli'.phase = "node" /\ cli'.pc \in {"info", "clone"}
               /\ cli'.cur = Utility
            \/ c = "snapshot" /\ cli'.phase = "node"
               /\ cli'.pc = IF M1 \in Vms THEN "save" ELSE "refuse"
            \/ c = "export-token" /\ cli'.phase = "node" /\ cli'.pc = "export"
<1>1. /\ cli'.cmd = c /\ cli'.arg = a /\ cli'.cfg = k /\ cli'.seen = {} /\ cmds' = cmds + 1
      /\ cli'.phase = Entry(c, a)[1] /\ cli'.pc = Entry(c, a)[2] /\ cli'.cur = Entry(c, a)[3]
      /\ cli'.left = IF c \in {"restore", "destroy"} THEN Removable ELSE {}
  BY DEF Begin
<1>2. c \notin {"k3s-uninstall", "rejoin-slave"} /\ (c = "node-destroy" => a # M1)
  BY <1>1 DEF Orderly
<1>3. cli'.left \subseteq Vms \ Protected
  BY <1>1 DEF Removable
<1>4. CASE c \in {"create", "update"}
  BY <1>1, <1>2, <1>3, <1>4 DEF Entry
<1>5. CASE c \in {"restore", "destroy"}
  BY <1>1, <1>2, <1>3, <1>5 DEF Entry
<1>6. CASE c \in {"node-destroy", "utility"}
  BY <1>1, <1>2, <1>3, <1>6 DEF Entry
<1>7. CASE c \in {"snapshot", "export-token"}
  BY <1>1, <1>2, <1>3, <1>7 DEF Entry
<1> QED BY <1>2, <1>4, <1>5, <1>6, <1>7, CommandsAssumption

\* A command begins.
LEMMA BeginQuiet ==
  ASSUME QuietBase, Undisturbed, Orderly',
         NEW c \in Commands, NEW a, NEW k \in Inis, Begin(c, a, k)
  PROVE  QuietInv'
<1> USE Here DEF QuietBase, QuietInv, At
<1>1. /\ Vms' = Vms /\ Others' = Others /\ Cl' = Cl /\ UNCHANGED <<clu, ids, files>>
      /\ \A v \in Offset \ {Utility} : node'[v] = node[v]
      /\ node'[Utility].cl = node[Utility].cl /\ node'[Utility].unit = node[Utility].unit
      /\ \A v \in Others : Settled(v) /\ ~Leaving(v)
      /\ M1 \in Vms => Cl # 0 /\ MasterBack /\ node[M1].unit # "killed"
      /\ cli.phase = "none" /\ cli.pc = "idle"
  BY BeginFinds
<1>2. /\ cli'.left \subseteq Vms \ Protected /\ (cli'.phase # "rm" => cli'.left = {})
      /\ cli'.phase \in {"create", "update", "rm", "node"}
      /\ cli'.pc \in {"check", "clone", "next", "refuse", "cordon", "info", "save", "export"}
      /\ cli'.pc = "cordon" => cli'.cur # M1 /\ cli'.phase = "node"
      /\ cli'.phase = "rm" => cli'.pc \in {"next", "refuse"}
  BY BeginCalls
<1>3. OthersInv'
  <2>1. Utility \in Protected /\ M1 # Utility
    BY DEF Protected
  <2>2. ASSUME NEW v \in Others' PROVE Cl' # 0 /\ Settled(v)'
    BY <1>1, <2>1, <2>2 DEF OthersInv, Settled, Up, Others
  <2>3. ASSUME NEW v \in Offset, v \in Protected \/ v \notin Vms' PROVE Inert(v)'
    BY <1>1, <2>3 DEF OthersInv, Inert
  <2> QED BY <1>1, <1>2, <2>2, <2>3 DEF OthersInv, Removing
<1>4. SeenInv'
  BY <1>2 DEF SeenInv
<1>5. ClusterInv'
  <2> SUFFICES ASSUME Cl # 0 PROVE ClusterInv'
    BY <1>1 DEF ClusterInv
  <2>1. \A v \in Offset : node'[v].cl = node[v].cl /\ node'[v].unit = node[v].unit
    BY <1>1
  <2>2. \A v \in Offset : ~Leaving(v)' /\ ~Leaving(v)
    BY <1>1, <1>2 DEF Leaving
  <2> QED BY <1>1, <1>2, <2>1, <2>2 DEF ClusterInv
<1>6. MasterInv'
  <2>1. CASE M1 \in Vms
    <3>1. node'[M1] = node[M1]
      BY <1>1 DEF Protected
    <3>2. \/ cli'.phase = "node"
          \/ /\ cli'.phase # "restore"
             /\ cli'.pc \notin {"manifest", "start", "prepare", "clone"}
      BY <2>1, BeginCalls
    <3>3. MasterBack'
      BY <1>1, <1>2, <2>1, <3>1, <3>2 DEF MasterBack, Up
    <3>4. cli'.phase \in {"create", "restore"} => cli'.pc # "clone"
      BY <2>1, BeginCalls
    <3> QED BY <1>1, <2>1, <3>3, <3>4 DEF MasterInv
  <2>2. CASE M1 \notin Vms
    <3>1. /\ cli'.phase \notin {"restore", "purge"} \cup UpdateLoops
          /\ cli'.phase = "create" => cli'.pc = "clone"
          /\ cli'.phase = "update" => cli'.pc = "check" /\ cli'.cmd = "update"
      BY <2>2, BeginCalls DEF UpdateLoops
    <3> QED BY <1>1, <2>2, <3>1 DEF MasterInv
  <2> QED BY <2>1, <2>2
<1>7. TokenInv'
  <2>1. /\ \A i \in DOMAIN s3 : s3[i].pw # 0 /\ s3[i].secrets \subseteq s3[i].reg
        /\ tokenFile = <<>> => s3 = <<>>
        /\ tokenFile # <<>> => SavedToken.pw # 0
        /\ \A i \in DOMAIN s3 : s3[i].pw = SavedToken.pw
    BY <1>1 DEF TokenInv
  <2>2. SavedToken' = SavedToken /\ cli'.pc # "write"
    BY <1>1, <1>2 DEF SavedToken, files
  <2>3. ASSUME Cl # 0
        PROVE  /\ tokenFile' # <<>> /\ LiveToken'.pw = SavedToken'.pw /\ Exported'
               /\ kubeconfig' = Cl'
    <3>1. Exported
      BY <1>1, <2>3, Zenon DEF TokenInv, Renewing
    <3>2. LiveToken' = LiveToken
      BY <1>1 DEF LiveToken, Cl
    <3>3. tokenFile' = tokenFile /\ kubeconfig' = kubeconfig /\ tokenFile = <<LiveToken>> /\ kubeconfig = Cl
      BY <1>1, <3>1 DEF Exported, Cl, files
    <3>4. Exported'
      BY <1>1, <3>2, <3>3 DEF Exported, Cl
    <3> QED BY <1>1, <2>2, <3>2, <3>3, <3>4 DEF SavedToken
  <2>4. s3' = s3 /\ tokenFile' = tokenFile /\ Cl' = Cl
    BY <1>1 DEF files
  <2> QED BY <2>1, <2>2, <2>3, <2>4, Zenon DEF TokenInv
<1>8. CountInv'
  <2>1. cmds \in Nat /\ ids \in 0..MaxId /\ cmds < MaxCmds /\ cmds' = cmds + 1 /\ ids' = ids
    BY <1>1 DEF Begin, TypeInv, TypeOK, CliTyped, GuestsTyped
  <2> QED BY <2>1, BoundAssumption, MaxIdAssumption DEF CountInv
<1>9. RestoresInv'
  <2>1. c = "restore" => Chosen' \in DOMAIN s3'
    <3> SUFFICES ASSUME c = "restore" PROVE Chosen' \in DOMAIN s3'
      OBVIOUS
    <3>1. s3 # <<>> /\ a \in {0} \cup DOMAIN s3 /\ cli'.arg = a
      BY BeginCalls DEF Begin, Takes, Undisturbed
    <3>2. s3 \in Seq(Snapshot) /\ s3' = s3
      BY <1>1 DEF TypeInv, TypeOK, FilesTyped, files
    <3> QED BY <3>1, <3>2 DEF Chosen
  <2>2. /\ cli'.cmd = "restore" => cli'.phase = "rm" /\ (cli'.pc = "refuse" <=> tokenFile = <<>>)
        /\ cli'.pc = "refuse" => \/ cli'.cmd = "restore"
                                 \/ cli'.cmd = "snapshot" /\ M1 \notin Vms
                                 \/ cli'.cmd = "node-destroy"
    BY BeginCalls DEF MayRestore
  <2> QED BY <1>1, <2>1, <2>2, BeginCalls DEF RestoresInv, files
<1>10. InfoInv' /\ NodeInv'
  BY BeginCalls DEF InfoInv, NodeInv, Removing
<1> QED BY <1>3, <1>4, <1>5, <1>6, <1>7, <1>8, <1>9, <1>10

\* Meanwhile the guests go on: the invocation stays where it is.
SameCall == /\ cli'.cmd = cli.cmd /\ cli'.arg = cli.arg /\ cli'.cfg = cli.cfg
            /\ cli'.phase = cli.phase /\ cli'.pc = cli.pc /\ cli'.cur = cli.cur
            /\ cli'.left = cli.left /\ cli'.seen = cli.seen
            /\ cmds' = cmds /\ files' = files

\* What a guest that runs cannot disturb.
LEMMA GuestRest ==
  ASSUME QuietBase, SameCall, Vms' = Vms,
         \A v \in Offset : node[v].unit = "disabled" => node'[v] = node[v]
  PROVE  /\ Orderly' /\ SeenInv' /\ RestoresInv' /\ InfoInv' /\ NodeInv' /\ Others' = Others
         /\ \A v \in Offset : v \in Protected \/ v \notin Vms' => Inert(v)'
<1> USE Here DEF QuietBase, QuietInv, At, SameCall
<1>1. \A v \in Offset : Inert(v) => Inert(v)'
  BY DEF Inert
<1>2. Others' = Others
  BY DEF Others
<1>3. \A v \in Offset : v \in Protected \/ v \notin Vms' => Inert(v)'
  BY <1>1 DEF OthersInv
<1>4. SeenInv'
  <2>1. At("start") /\ cli.cur \in Others => node'[cli.cur] = node[cli.cur]
    BY DEF SeenInv, Fresh, Blank
  <2>2. (At("start") /\ cli.cur \in Others)' => Fresh(cli.cur)'
    BY <1>2, <2>1 DEF SeenInv, Fresh, Up
  <2> QED BY <1>2, <2>2 DEF SeenInv
<1>5. Orderly' /\ RestoresInv' /\ InfoInv' /\ NodeInv'
  BY DEF Orderly, RestoresInv, InfoInv, NodeInv, files, Chosen, Removing
<1> QED BY <1>2, <1>3, <1>4, <1>5

\* What stays as long as m1's data and password do.
LEMMA GuestTokens ==
  ASSUME QuietBase, SameCall, Cl' = Cl, Cl # 0 => clu'[Cl].pw = clu[Cl].pw
  PROVE  TokenInv'
<1> USE Here DEF QuietBase, QuietInv, At, SameCall
<1>1. /\ s3' = s3 /\ tokenFile' = tokenFile /\ kubeconfig' = kubeconfig
      /\ SavedToken' = SavedToken
  BY DEF files, SavedToken
<1>2. Cl # 0 => LiveToken' = LiveToken
  BY DEF LiveToken, Cl
<1>3. Cl # 0 => (Exported' <=> Exported)
  BY <1>1, <1>2, Zenon DEF Exported, Cl
<1>4. (Renewing' <=> Renewing) /\ (Restoring' <=> Restoring)
  BY DEF Renewing, Restoring
<1>5. At("write") => Cl # 0
  BY DEF TypeInv, InHand, Cl
<1>6. /\ \A i \in DOMAIN s3' : s3'[i].pw # 0 /\ s3'[i].secrets \subseteq s3'[i].reg
      /\ tokenFile' = <<>> => s3' = <<>>
      /\ ~At("write")' => /\ tokenFile' # <<>> => SavedToken'.pw # 0
                          /\ \A i \in DOMAIN s3' : s3'[i].pw = SavedToken'.pw
      /\ At("write")' => \A i \in DOMAIN s3' : s3'[i].pw = LiveToken'.pw
  BY <1>1, <1>2, <1>5 DEF TokenInv
<1>7. Cl' # 0 =>
         /\ tokenFile' = <<>> => cli'.phase = "create"
         /\ tokenFile' # <<>> /\ ~At("write")' /\ ~Restoring' => LiveToken'.pw = SavedToken'.pw
         /\ ~Renewing' /\ ~At("write")' => Exported'
         /\ cli'.pc \in {"export", "write"} => kubeconfig' = Cl'
  BY <1>1, <1>2, <1>3, <1>4, Zenon DEF TokenInv
<1> QED BY <1>6, <1>7, Zenon DEF TokenInv

\* The steps that only change who is Ready.
LEMMA ReadyQuiet ==
  ASSUME QuietBase, SameCall, UNCHANGED <<node, ids>>,
         NEW c \in Id, NEW ready, clu' = [clu EXCEPT ![c].ready = ready]
  PROVE  QuietInv'
<1> USE Here DEF QuietBase, QuietInv, At, SameCall
<1>1. clu \in [Id -> ClusterState]
  BY DEF TypeInv, TypeOK, GuestsTyped
<1>2. \A k \in Id : /\ clu'[k].pw = clu[k].pw /\ clu'[k].members = clu[k].members
                    /\ clu'[k].reg = clu[k].reg /\ clu'[k].secrets = clu[k].secrets
                    /\ clu'[k].vip = clu[k].vip
  BY <1>1 DEF ClusterState
<1>3. Vms' = Vms /\ Cl' = Cl /\ Others' = Others
  BY DEF Vms, Cl, Others
<1>4. \A v \in Offset : (Leaving(v)' <=> Leaving(v)) /\ (Fresh(v)' <=> Fresh(v))
  BY DEF Leaving, Fresh, Up
<1>5. OthersInv'
  <2>1. ASSUME NEW v \in Others PROVE Cl' # 0 /\ (Settled(v)' \/ Fresh(v)' \/ Joining(v)')
    <3>1. Cl # 0 /\ LiveToken' = LiveToken
      BY <1>2, <1>3 DEF OthersInv, LiveToken, Cl
    <3>2. (Settled(v)' <=> Settled(v)) /\ (Joining(v)' <=> Joining(v))
      BY <1>2, <1>3, <1>4, <3>1 DEF Settled, Joining, Up
    <3> QED BY <1>3, <1>4, <3>1, <3>2 DEF OthersInv
  <2>2. \A v \in Offset : v \in Protected \/ v \notin Vms' => Inert(v)'
    BY <1>3, GuestRest
  <2> QED BY <1>3, <2>1, <2>2 DEF OthersInv, Removing
<1>6. ClusterInv'
  BY <1>2, <1>3, <1>4 DEF ClusterInv
<1>7. MasterInv'
  <2>1. MasterNew' <=> MasterNew
    BY <1>4 DEF MasterNew, Booting, WipedOut, Up, JoinToken, NodeType, SavedToken, files
  <2>2. Cl # 0 => (MasterBack' <=> MasterBack)
    BY <1>2, <1>3 DEF MasterBack, Up
  <2> QED BY <1>3, <2>1, <2>2 DEF MasterInv
<1>8. CountInv'
  BY <1>3 DEF CountInv, Pending
<1>9. TokenInv'
  BY <1>2, <1>3, GuestTokens
<1> QED BY <1>3, <1>5, <1>6, <1>7, <1>8, <1>9, GuestRest

\* Who is starting: m1, or the node in hand.
LEMMA StartingWho ==
  ASSUME QuietBase, NEW v \in Offset, Runs(v), node[v].unit = "starting"
  PROVE  \/ v = M1 /\ M1 \in Vms /\ IF Cl = 0 THEN Booting /\ MasterNew ELSE MasterBack /\ ~At("manifest")
         \/ v \in Others /\ Joining(v) /\ Cl # 0 /\ cli.phase \in {"slaves", "workers"}
<1> USE Here DEF QuietBase, QuietInv, At
<1>1. v \in Vms /\ v \notin Protected
  BY LayoutFacts DEF Runs, Up, Vms, OthersInv, Inert
<1>2. CASE v = M1
  BY <1>1, <1>2 DEF MasterInv, MasterNew, Fresh, Blank, Booting, WipedOut, MasterBack
<1>3. CASE v # M1
  <2>1. v \in Others
    BY <1>1, <1>3 DEF Others
  <2>2. Joining(v) /\ Cl # 0
    BY <2>1 DEF OthersInv, Settled, Fresh, Blank
  <2>3. cli.phase \in {"slaves", "workers"}
    BY <1>3, <2>2 DEF Joining, ControlInv, CallOf, PlanInv, CallFits, Orderly
  <2> QED BY <2>1, <2>2, <2>3
<1> QED BY <1>2, <1>3

\* m1 gives itself an identity, with the saved token when there is one.
LEMMA BootstrapQuiet ==
  ASSUME QuietBase, SameCall, NEW v \in Offset, Bootstrap(v)
  PROVE  QuietInv'
<1> USE Here DEF QuietBase, QuietInv, At, SameCall
<1> DEFINE c == ids + 1
           p == IF node[v].tok = NoToken THEN c ELSE node[v].tok.pw
<1>1. /\ Runs(v) /\ node[v].unit = "starting" /\ node[v].role = "init" /\ node[v].cl = 0
      /\ ids < MaxId /\ ids' = c /\ node' = [node EXCEPT ![v].cl = c]
      /\ clu' = [clu EXCEPT ![c] = NewCluster(p, v)]
  BY DEF Bootstrap, CanBootstrap
<1>2. ids \in 0..MaxId /\ c \in Id /\ c # 0
  BY <1>1, MaxIdAssumption DEF TypeInv, TypeOK, GuestsTyped, Id
<1>3. v = M1 /\ M1 \in Vms /\ Cl = 0 /\ Booting /\ MasterNew
  <2>1. ~(v \in Others /\ Joining(v))
    BY <1>1 DEF Joining, RightRole
  <2>2. v = M1
    BY <1>1, <2>1, StartingWho
  <2> QED BY <1>1, <2>1, <2>2, StartingWho DEF Cl
<1>4. /\ \A w \in Offset \ {M1} : node'[w] = node[w]
      /\ node'[M1] = [node[M1] EXCEPT !.cl = c] /\ clu'[c] = NewCluster(p, M1)
  BY <1>1, <1>2, <1>3 DEF TypeInv, TypeOK, GuestsTyped
<1>5. /\ node'[M1].cl = c /\ node'[M1].st = node[M1].st /\ node'[M1].unit = "starting"
      /\ node'[M1].role = "init" /\ node'[M1].manifest /\ node'[M1].prepared
      /\ Cl' = c
  BY <1>1, <1>3, <1>4 DEF NodeState, Booting, Cl
<1>6. /\ clu'[c].members = {M1} /\ clu'[c].reg = {} /\ clu'[c].secrets = {} /\ clu'[c].pw = p
  BY <1>4 DEF NewCluster
<1>7. /\ Vms' = Vms /\ Others' = {} /\ Others = {}
      /\ \A w \in Offset : node[w].unit = "disabled" => node'[w] = node[w]
  <2> HIDE DEF c, p
  <2>0. \A w \in Offset : node'[w].st = node[w].st
    BY <1>4, <1>5
  <2>1. Vms' = Vms
    BY <2>0 DEF Vms
  <2>2. Others = {}
    BY <1>3 DEF OthersInv
  <2>3. Others' = Others
    BY <2>1 DEF Others
  <2> QED BY <1>1, <1>3, <1>4, <2>1, <2>2, <2>3
<1>8. /\ cli.phase \in {"create", "restore"} /\ At("wait")
      /\ cli.phase = "restore" => tokenFile # <<>> /\ cli.cmd = "restore"
      /\ cli.phase = "create" => node[M1].tok = SavedToken
  <2>1. cli.phase \in {"create", "restore"} /\ At("wait") /\ node[M1].tok = JoinToken
    BY <1>3 DEF MasterNew, Booting
  <2>2. cli.phase = "restore" => cli.cmd = "restore"
    BY DEF ControlInv, Commanded
  <2>3. cli.phase = "create" => JoinToken = SavedToken
    BY LayoutFacts DEF PlanInv, CallFits, JoinToken, NodeType, Orderly, M1, Utility
  <2> QED BY <2>1, <2>2, <2>3 DEF RestoresInv
<1>9. p # 0
  <2>1. CASE node[M1].tok = NoToken
    BY <1>2, <1>3, <2>1
  <2>2. CASE node[M1].tok # NoToken
    <3>1. tokenFile # <<>> /\ node[M1].tok = SavedToken
      <4>1. node[M1].tok = JoinToken
        BY <1>3 DEF Booting
      <4> QED BY <2>2, <4>1 DEF JoinToken, SavedToken
    <3>2. SavedToken.pw # 0
      BY <1>8, <3>1 DEF TokenInv
    <3> QED BY <1>3, <2>2, <3>1, <3>2
  <2> QED BY <2>1, <2>2
<1>10. OthersInv'
  BY <1>7, <1>8, GuestRest DEF OthersInv, Removing
<1>11. ClusterInv'
  <2>1. ASSUME NEW w \in Offset \ {M1} PROVE node'[w].cl # c
    <3>1. node[w].cl <= ids /\ node[w].cl \in 0..MaxId
      BY DEF IdentityInv, NodeState
    <3> QED BY <1>2, <1>4, <3>1
  <2>2. M1 \in Masters /\ ~Leaving(M1)'
    BY DEF M1, Masters, Leaving
  <2>3. clu'[Cl'] = clu'[c] /\ cli'.phase # "purge"
    BY <1>5, <1>8
  <2>4. \A w \in Offset : w \in clu'[c].members <=>
                            w \in Masters /\ node'[w].cl = c /\ ~Leaving(w)'
    BY <1>5, <1>6, <2>1, <2>2
  <2> HIDE DEF c, p
  <2> QED BY <1>5, <1>6, <1>9, <2>3, <2>4 DEF ClusterInv
<1>12. MasterInv'
  <2>1. MasterBack'
    BY <1>3, <1>5, <1>6, <1>8 DEF MasterBack, Booting, Up, Exports
  <2> QED BY <1>2, <1>3, <1>5, <1>7, <1>8, <2>1 DEF MasterInv
<1>13. CountInv'
  <2>1. ids < cmds /\ cmds \in Nat /\ cmds <= MaxCmds
    BY <1>3, <1>8 DEF CountInv, Pending, TypeInv, TypeOK, CliTyped
  <2>2. ~Pending'
    BY <1>2, <1>5, <1>8 DEF Pending
  <2> QED BY <1>1, <1>2, <2>1, <2>2 DEF CountInv
<1>14. TokenInv'
  <2>1. /\ s3' = s3 /\ tokenFile' = tokenFile /\ SavedToken' = SavedToken
    BY DEF files, SavedToken
  <2>2. /\ \A i \in DOMAIN s3 : s3[i].pw # 0 /\ s3[i].secrets \subseteq s3[i].reg
        /\ tokenFile = <<>> => s3 = <<>>
        /\ tokenFile # <<>> => SavedToken.pw # 0
        /\ \A i \in DOMAIN s3 : s3[i].pw = SavedToken.pw
    BY <1>8 DEF TokenInv
  <2>3. tokenFile # <<>> /\ cli.phase = "create" => LiveToken'.pw = SavedToken.pw
    <3> SUFFICES ASSUME tokenFile # <<>>, cli.phase = "create" PROVE LiveToken'.pw = SavedToken.pw
      OBVIOUS
    <3>1. node[M1].tok = SavedToken /\ SavedToken.pw # 0
      BY <1>8, <2>2
    <3>2. node[M1].tok # NoToken
      BY <3>1 DEF NoToken
    <3> QED BY <1>3, <1>5, <1>6, <3>1, <3>2 DEF LiveToken
  <2>4. Renewing' /\ (cli.phase = "restore" => Restoring')
    BY <1>8 DEF Renewing, Restoring
  <2>5. cli'.pc = "wait" /\ cli'.phase = cli.phase
    BY <1>8
  <2>6. tokenFile = <<>> => cli.phase = "create"
    BY <1>8
  <2> HIDE DEF c, p
  <2> QED BY <1>8, <2>1, <2>2, <2>3, <2>4, <2>5, <2>6, Zenon DEF TokenInv
<1> QED BY <1>7, <1>10, <1>11, <1>12, <1>13, <1>14, GuestRest

\* The node in hand finds m1's cluster and becomes a member.
LEMMA JoinQuiet ==
  ASSUME QuietBase, SameCall, NEW v \in Offset, NEW c \in Id, Join(v, c)
  PROVE  QuietInv'
<1> USE Here DEF QuietBase, QuietInv, At, SameCall
<1>1. /\ Runs(v) /\ node[v].unit = "starting" /\ node[v].role \in {"server", "agent"}
      /\ node[v].cl = 0 /\ node[v].tok = [ca |-> c, pw |-> clu[c].pw] /\ c # 0
      /\ node' = [node EXCEPT ![v].cl = c] /\ UNCHANGED ids
      /\ clu' = [clu EXCEPT ![c].members = IF node[v].role = "server" THEN @ \cup {v} ELSE @]
  BY MaxIdAssumption DEF Join, CanJoin, Id
<1>2. v \in Others /\ Joining(v) /\ Cl # 0 /\ cli.phase \in {"slaves", "workers"} /\ v # M1
  BY <1>1, StartingWho DEF Booting, MasterBack, Others
<1>3. c = Cl /\ v = cli.cur /\ At("wait")
  BY <1>1, <1>2 DEF Joining, LiveToken, Cl
<1>4. /\ \A w \in Offset \ {v} : node'[w] = node[w]
      /\ node'[v] = [node[v] EXCEPT !.cl = Cl] /\ node[v] \in NodeState
  BY <1>1, <1>3 DEF TypeInv, TypeOK, GuestsTyped
<1>5. /\ node'[v].cl = Cl /\ node'[v].st = node[v].st /\ node'[v].unit = node[v].unit
      /\ node'[v].role = node[v].role /\ node'[v].prepared = node[v].prepared
      /\ node'[v].tok = node[v].tok
  BY <1>4 DEF NodeState
<1>6. /\ clu'[Cl].members = IF v \in {2, 3} THEN clu[Cl].members \cup {v} ELSE clu[Cl].members
      /\ clu'[Cl].reg = clu[Cl].reg /\ clu'[Cl].secrets = clu[Cl].secrets
      /\ clu'[Cl].pw = clu[Cl].pw /\ clu'[Cl].vip = clu[Cl].vip
  <2>1. clu \in [Id -> ClusterState]
    BY DEF TypeInv, TypeOK, GuestsTyped
  <2>2. node[v].role = "server" <=> v \in {2, 3}
    BY <1>2 DEF Joining, RightRole
  <2> QED BY <1>1, <1>3, <2>1, <2>2 DEF ClusterState
<1>7. Vms' = Vms /\ Others' = Others /\ Cl' = Cl /\ node'[M1] = node[M1]
  <2>1. \A w \in Offset : node'[w].st = node[w].st
    BY <1>4, <1>5
  <2>2. Vms' = Vms
    BY <2>1 DEF Vms
  <2>3. node'[M1] = node[M1]
    BY <1>2, <1>4
  <2> QED BY <2>2, <2>3 DEF Others, Cl
<1>8. \A w \in Offset : node[w].unit = "disabled" => node'[w] = node[w]
  BY <1>1, <1>4
<1>9. OthersInv'
  <2>1. LiveToken' = LiveToken
    BY <1>6, <1>7 DEF LiveToken, Cl
  <2>2. Joining(v)'
    BY <1>2, <1>3, <1>5, <1>6, <1>7, <2>1 DEF Joining, Up
  <2>3. ASSUME NEW w \in Others, w # v PROVE Settled(w)'
    <3>1. Settled(w) /\ ~Leaving(w)
      BY <1>3, <2>3 DEF OthersInv, Fresh, Joining, Leaving
    <3> QED BY <1>3, <1>4, <1>6, <1>7, <2>3, <3>1 DEF Settled, Up, Leaving
  <2> QED BY <1>2, <1>3, <1>7, <1>8, <2>2, <2>3, GuestRest DEF OthersInv, Removing
<1>10. ClusterInv'
  <2>1. \A w \in Offset : ~Leaving(w) /\ ~Leaving(w)'
    BY <1>3 DEF Leaving
  <2>2. ASSUME NEW w \in Offset
        PROVE  w \in clu'[Cl].members <=> w \in Masters /\ node'[w].cl = Cl
    <3>1. w \in clu[Cl].members <=> w \in Masters /\ node[w].cl = Cl
      BY <1>2, <2>1 DEF ClusterInv
    <3>2. v \in Masters <=> v \in {2, 3}
      BY <1>2 DEF Masters, M1
    <3> QED BY <1>1, <1>4, <1>5, <1>6, <3>1, <3>2
  <2>3. \A w \in Offset : node'[w].unit = node[w].unit
    BY <1>4, <1>5
  <2> QED BY <1>2, <1>3, <1>6, <1>7, <2>1, <2>2, <2>3 DEF ClusterInv
<1>11. MasterInv'
  <2>1. MasterBack
    BY <1>2 DEF OthersInv, MasterInv, Inert, Cl
  <2>2. MasterBack'
    BY <1>2, <1>6, <1>7, <2>1 DEF MasterBack, Up
  <2> QED BY <1>2, <1>7, <2>2 DEF MasterInv, Vms
<1>12. CountInv' /\ TokenInv'
  BY <1>1, <1>6, <1>7, GuestTokens DEF CountInv, Pending
<1> QED BY <1>7, <1>8, <1>9, <1>10, <1>11, <1>12, GuestRest

\* It, or m1, enters the API's list and leaves its password there.
LEMMA RegisterQuiet ==
  ASSUME QuietBase, SameCall, NEW v \in Offset, Register(v)
  PROVE  QuietInv'
<1> USE Here DEF QuietBase, QuietInv, At, SameCall
<1>1. /\ Runs(v) /\ node[v].unit = "starting" /\ node[v].cl # 0
  BY DEF Register, CanRegister
<1>2. /\ Cl # 0 /\ MasterBack /\ node[v].cl = Cl /\ node[v].prepared
      /\ \/ v = M1 /\ M1 \in Vms /\ ~At("manifest")
         \/ /\ v \in Others /\ Joining(v) /\ cli.phase \in {"slaves", "workers"} /\ v # M1
            /\ v = cli.cur /\ At("wait")
  <2>1. CASE v = M1
    <3>1. ~(v \in Others)
      BY <2>1 DEF Others
    <3> QED BY <1>1, <2>1, <3>1, StartingWho DEF Cl, MasterBack
  <2>2. CASE v # M1
    <3>1. v \in Others /\ Joining(v) /\ Cl # 0 /\ cli.phase \in {"slaves", "workers"}
      BY <1>1, <2>2, StartingWho
    <3>2. MasterBack
      BY <3>1 DEF OthersInv, MasterInv, Inert, Cl
    <3> QED BY <1>1, <2>2, <3>1, <3>2 DEF Joining
  <2> QED BY <2>1, <2>2
<1>3. /\ node' = [node EXCEPT ![v].unit = "active", ![v].known = @ \cup {Cl}]
      /\ clu' = [clu EXCEPT ![Cl].reg = @ \cup {v}, ![Cl].secrets = @ \cup {v},
                            ![Cl].vip = @ \/ (node[v].role # "agent" /\ node[v].manifest)]
      /\ UNCHANGED ids
  BY <1>2 DEF Register, Name
<1>4. /\ \A w \in Offset \ {v} : node'[w] = node[w]
      /\ node'[v] = [node[v] EXCEPT !.unit = "active", !.known = @ \cup {Cl}]
  BY <1>3 DEF TypeInv, TypeOK, GuestsTyped
<1>5. /\ node'[v].cl = Cl /\ node'[v].st = node[v].st /\ node'[v].unit = "active"
      /\ node'[v].role = node[v].role /\ node'[v].prepared = node[v].prepared
      /\ node'[v].tok = node[v].tok /\ Cl \in node'[v].known
      /\ node'[v].manifest = node[v].manifest
  <2> DEFINE n == node[v]
         m == [n EXCEPT !.unit = "active"]
  <2>2. n \in NodeState
    BY DEF TypeInv
  <2>3. /\ m.cl = n.cl /\ m.st = n.st /\ m.unit = "active" /\ m.role = n.role /\ m.tok = n.tok
        /\ m.prepared = n.prepared /\ m.manifest = n.manifest /\ m.known = n.known
        /\ m \in NodeState
    BY <2>2 DEF NodeState
  <2>4. node'[v] = [m EXCEPT !.known = n.known \cup {Cl}]
    BY <1>4, <2>2 DEF NodeState
  <2> HIDE DEF m
  <2>5. /\ node'[v].cl = m.cl /\ node'[v].st = m.st /\ node'[v].unit = m.unit
        /\ node'[v].role = m.role /\ node'[v].tok = m.tok
        /\ node'[v].prepared = m.prepared /\ node'[v].manifest = m.manifest
        /\ node'[v].known = n.known \cup {Cl}
    BY <2>3, <2>4 DEF NodeState
  <2> QED BY <1>2, <2>3, <2>5
<1>o. \A w \in Offset \ {v} : node'[w] = node[w]
  BY <1>4
<1>6. /\ clu'[Cl].members = clu[Cl].members /\ clu'[Cl].pw = clu[Cl].pw
      /\ clu'[Cl].reg = clu[Cl].reg \cup {v} /\ clu'[Cl].secrets = clu[Cl].secrets \cup {v}
  <2>1. clu \in [Id -> ClusterState]
    BY DEF TypeInv, TypeOK, GuestsTyped
  <2> QED BY <1>2, <1>3, <2>1 DEF ClusterState
<1>w. /\ clu[Cl].vip => clu'[Cl].vip
      /\ node[v].role # "agent" /\ node[v].manifest => clu'[Cl].vip
  <2>1. clu \in [Id -> ClusterState] /\ Cl \in Id
    BY <1>2 DEF TypeInv, TypeOK, GuestsTyped
  <2>2. clu'[Cl].vip = (clu[Cl].vip \/ (node[v].role # "agent" /\ node[v].manifest))
    BY <1>3, <2>1 DEF ClusterState
  <2> QED BY <2>2, Zenon
<1>7. Vms' = Vms /\ Others' = Others /\ Cl' = Cl
  <2>1. \A w \in Offset : node'[w].st = node[w].st /\ node'[w].cl = node[w].cl
    BY <1>2, <1>5, <1>o
  <2>2. Vms' = Vms
    BY <2>1 DEF Vms
  <2> QED BY <2>1, <2>2 DEF Others, Cl
<1>8. \A w \in Offset : node[w].unit = "disabled" => node'[w] = node[w]
  BY <1>1, <1>o
<1>t. LiveToken' = LiveToken
  BY <1>6, <1>7 DEF LiveToken, Cl
<1>9. OthersInv'
  <2>1. ASSUME NEW w \in Others, w # v PROVE Settled(w)' \/ Fresh(w)' \/ Joining(w)'
    <3>1. node'[w] = node[w]
      BY <1>o, <2>1
    <3>2. Settled(w) => Settled(w)'
      BY <1>6, <1>7, <3>1 DEF Settled, Up, Leaving
    <3>3. (Fresh(w) => Fresh(w)') /\ (Joining(w) => Joining(w)')
      BY <1>6, <1>7, <1>t, <2>1, <3>1 DEF Fresh, Joining, Up
    <3> QED BY <3>2, <3>3 DEF OthersInv
  <2>2. v \in Others => Settled(v)'
    <3> SUFFICES ASSUME v \in Others PROVE Settled(v)'
      OBVIOUS
    <3>1. Joining(v)
      BY <1>2 DEF Others
    <3> QED BY <1>2, <1>5, <1>6, <1>7, <3>1 DEF Settled, Joining, Up
  <2> QED BY <1>2, <1>7, <1>8, <2>1, <2>2, GuestRest DEF OthersInv, Removing
<1>10. ClusterInv'
  <2>1. \A w \in Offset : /\ node'[w].cl = node[w].cl /\ (Leaving(w)' <=> Leaving(w))
                          /\ node[w].unit = "active" => node'[w].unit = "active"
    BY <1>2, <1>5, <1>o DEF Leaving
  <2>2. v = M1 \/ (v \in Others' /\ node'[v].unit = "active" /\ ~Leaving(v)')
    BY <1>2, <1>5, <1>7 DEF Leaving
  <2>3. cli.phase = "purge" => v = M1
    BY <1>2
  <2> QED BY <1>2, <1>6, <1>7, <2>1, <2>2, <2>3 DEF ClusterInv
<1>11. MasterInv'
  <2>1. CASE v = M1
    <3>1. MasterBack'
      BY <1>2, <1>5, <1>6, <1>7, <1>w, <2>1 DEF MasterBack, Up
    <3> QED BY <1>2, <1>7, <2>1, <3>1 DEF MasterInv
  <2>2. CASE v # M1
    <3>1. node'[M1] = node[M1]
      BY <1>o, <2>2
    <3>2. MasterBack'
      BY <1>2, <1>6, <1>7, <1>w, <2>2, <3>1 DEF MasterBack, Up
    <3> QED BY <1>2, <1>7, <2>2, <3>2 DEF MasterInv, MasterBack, Up, Vms
  <2> QED BY <2>1, <2>2
<1>12. CountInv' /\ TokenInv'
  BY <1>3, <1>6, <1>7, GuestTokens DEF CountInv, Pending
<1> QED BY <1>7, <1>8, <1>9, <1>10, <1>11, <1>12, GuestRest

\* What the guests do while nothing worse happens than a missed lease.
LEMMA GuestSteps ==
  ASSUME TypeInv, Undisturbed, GuestStep \/ GuestFault
  PROVE  /\ SameCall /\ last' = last
         /\ \/ \E v \in Offset : Bootstrap(v) \/ Register(v) \/ (\E c \in Id : Join(v, c))
            \/ /\ UNCHANGED <<node, ids>>
               /\ \E c \in Id : \E ready : clu' = [clu EXCEPT ![c].ready = ready]
<1>1. SameCall /\ last' = last
  <2>1. cli \in CliState
    BY DEF TypeInv, TypeOK, CliTyped
  <2>2. CASE GuestStep
    BY <2>2 DEF GuestStep, SameCall, files, ghost
  <2>3. CASE GuestFault
    <3>1. cli' = [cli EXCEPT !.clean = At("idle")] /\ UNCHANGED <<files, last>>
      BY <2>3 DEF GuestFault
    <3>2. cmds' = cmds
      BY <2>3 DEF GuestFault, Fault
    <3> QED BY <2>1, <3>1, <3>2 DEF SameCall, CliState
  <2> QED BY <2>2, <2>3
<1>2. ASSUME NEW v \in Offset, Flap(v) \/ Heartbeat(v)
      PROVE  /\ UNCHANGED <<node, ids>>
             /\ \E c \in Id : \E ready : clu' = [clu EXCEPT ![c].ready = ready]
  <2>1. /\ node[v].cl \in Id /\ UNCHANGED <<node, ids>>
        /\ \/ clu' = [clu EXCEPT ![node[v].cl].ready = @ \ {Name(v)}]
           \/ clu' = [clu EXCEPT ![node[v].cl].ready = @ \cup {Name(v)}]
    BY <1>2, MaxIdAssumption
       DEF Flap, Heartbeat, CanHeartbeat, TypeInv, TypeOK, GuestsTyped, NodeState, Id
  <2>2. \/ clu' = [clu EXCEPT ![node[v].cl].ready = clu[node[v].cl].ready \ {Name(v)}]
        \/ clu' = [clu EXCEPT ![node[v].cl].ready = clu[node[v].cl].ready \cup {Name(v)}]
    BY <2>1
  <2> QED BY <2>1, <2>2
<1>3. CASE GuestFault
  <2>1. \E v \in Offset : Flap(v)
    BY <1>3 DEF GuestFault, Fault, Undisturbed
  <2> QED BY <1>1, <1>2, <2>1
<1>4. CASE GuestStep
  <2>1. CASE Progress
    <3>1. \E v \in Offset : \/ Bootstrap(v) \/ Register(v) \/ Heartbeat(v)
                            \/ \E c \in Id : Join(v, c)
      BY <2>1 DEF Progress
    <3> QED BY <1>1, <1>2, <3>1
  <2>2. ASSUME NEW c \in Id, NEW n \in Offset, LeaseExpires(c, n)
        PROVE  UNCHANGED <<node, ids>> /\ clu' = [clu EXCEPT ![c].ready = clu[c].ready \ {n}]
    BY <2>2 DEF LeaseExpires
  <2> QED BY <1>1, <1>4, <2>1, <2>2 DEF GuestStep
<1> QED BY <1>3, <1>4

\* One step of the guests, or a kubelet that misses its lease.
LEMMA GuestsQuiet ==
  ASSUME QuietBase, Undisturbed, GuestStep \/ GuestFault
  PROVE  QuietInv'
  BY GuestSteps, ReadyQuiet, BootstrapQuiet, JoinQuiet, RegisterQuiet DEF QuietBase

\* Whatever happens, as long as nothing else fails and every command is orderly.
LEMMA NextQuiet ==
  ASSUME Undisturbed
  PROVE  BaseInv /\ StampInv /\ QuietInv /\ [Next /\ Orderly']_vars => QuietInv'
<1> SUFFICES ASSUME BaseInv, StampInv, QuietInv, [Next /\ Orderly']_vars PROVE QuietInv'
  OBVIOUS
<1>b. QuietBase
  BY DEF QuietBase, BaseInv, Inv
<1>1. CASE Step
  BY <1>1, <1>b, StepQuiet
<1>2. CASE Invoke /\ Orderly'
  BY <1>2, <1>b, BeginQuiet DEF Invoke
<1>3. CASE GuestStep \/ GuestFault
  BY <1>3, <1>b, GuestsQuiet
<1>4. ~Interrupt /\ ~TooSlow
  BY DEF Undisturbed, Interrupt, TooSlow, Fault
<1>5. CASE UNCHANGED vars
  <2>1. SameCall /\ UNCHANGED gvars
    BY <1>5 DEF vars, SameCall, files, gvars
  <2>2. Vms' = Vms /\ Cl' = Cl /\ Others' = Others
    BY <2>1 DEF Vms, Cl, Others, gvars
  <2>3. /\ Orderly' /\ SeenInv' /\ RestoresInv' /\ InfoInv' /\ NodeInv'
    BY <1>b, <2>1, <2>2, GuestRest DEF gvars
  <2>4. TokenInv'
    BY <1>b, <2>1, <2>2, GuestTokens DEF gvars
  <2>5. CountInv'
    BY <1>5, <1>b, <2>2 DEF vars, CountInv, Pending, QuietBase, QuietInv, At
  <2>6. OthersInv'
    BY <1>5, <1>b, <2>2 DEF vars, OthersInv, QuietBase, QuietInv, At, Inert, Settled, Fresh,
       Joining, Up, Leaving, Removing, LiveToken
  <2>7. ClusterInv'
    BY <1>5, <1>b, <2>2 DEF vars, ClusterInv, QuietBase, QuietInv, At, Leaving
  <2>8. MasterInv'
    BY <1>5, <1>b, <2>2 DEF vars, MasterInv, QuietBase, QuietInv, At, MasterNew, MasterBack,
       Fresh, Booting, WipedOut, Up, JoinToken, NodeType, SavedToken
  <2> QED BY <2>3, <2>4, <2>5, <2>6, <2>7, <2>8 DEF QuietInv
<1> QED BY <1>1, <1>2, <1>3, <1>4, <1>5 DEF Next

\* At first there is nothing but the template.
LEMMA InitQuiet == Init => QuietInv
<1> SUFFICES ASSUME Init PROVE QuietInv
  OBVIOUS
<1> USE DEF At
<1>1. cli.cmd = "none" /\ cli.phase = "none" /\ cli.pc = "idle"
  BY DEF Init, Idle
<1>2. \A v \in Offset : /\ node[v].cl = 0 /\ node[v].unit = "disabled"
                        /\ v # Image => node[v].st = "absent"
  BY DEF Init, GuestsInit, Absent
<1>3. Vms \subseteq {Image} /\ M1 \notin Vms /\ Cl = 0 /\ Others = {}
  BY <1>2, LayoutFacts DEF Vms, Others, Cl, M1, Image, Protected
<1>4. ids = 0 /\ cmds = 0 /\ tokenFile = <<>> /\ s3 = <<>>
  BY DEF Init, GuestsInit
<1>5. Orderly /\ OthersInv /\ SeenInv /\ ClusterInv /\ MasterInv
  BY <1>1, <1>2, <1>3 DEF Orderly, OthersInv, SeenInv, ClusterInv, MasterInv, Inert, Removing,
     UpdateLoops
<1>6. TokenInv
  <2>1. \A i \in DOMAIN s3 : FALSE
    BY <1>4
  <2> QED BY <1>1, <1>3, <1>4, <2>1, Zenon DEF TokenInv
<1>7. CountInv /\ RestoresInv /\ InfoInv /\ NodeInv
  BY <1>1, <1>4, BoundAssumption DEF CountInv, Pending, RestoresInv, InfoInv, NodeInv
<1> QED BY <1>5, <1>6, <1>7 DEF QuietInv

\* Behaviours in which every command is orderly.
OrderlySpec == Init /\ [][Next /\ Orderly']_vars

\* In all of them the quiet invariant holds.
LEMMA Quiet ==
  ASSUME Undisturbed
  PROVE  OrderlySpec => Spec /\ [](BaseInv /\ StampInv /\ QuietInv)
<1>1. OrderlySpec => Spec
  <2>1. [Next /\ Orderly']_vars => [Next]_vars
    OBVIOUS
  <2> QED BY <2>1, PTL DEF OrderlySpec, Spec
<1>2. Init => StampInv
  BY DEF Init, Idle, StampInv, NodesListed, NothingElse, UpdateLoops, At
<1>3. BaseInv /\ StampInv /\ [Next]_vars => StampInv'
  BY NextStamp DEF BaseInv
<1>4. BaseInv /\ StampInv /\ QuietInv /\ [Next /\ Orderly']_vars => QuietInv'
  BY NextQuiet
<1> QED BY <1>1, <1>2, <1>3, <1>4, InitQuiet, Base, PTL DEF OrderlySpec, Spec

\* An operator who has none of the commands that are not orderly keeps to it.
LEMMA TameIsOrderly ==
  ASSUME Commands \cap {"k3s-uninstall", "rejoin-slave"} = {},
         "node-destroy" \in Commands => M1 \notin Args
  PROVE  Spec => OrderlySpec
<1>1. ASSUME BaseInv, BaseInv' PROVE Orderly'
  <2>1. cli' \in CliState /\ Commanded'
    BY <1>1 DEF BaseInv, Inv, TypeInv, TypeOK, CliTyped, ControlInv
  <2>2. cli'.cmd \in Commands \cup {"none"}
    BY <2>1 DEF CliState
  <2> QED BY <2>1, <2>2 DEF Commanded, Orderly
<1>2. BaseInv /\ BaseInv' /\ [Next]_vars => [Next /\ Orderly']_vars
  BY <1>1
<1> QED BY <1>2, Base, PTL DEF Spec, OrderlySpec

\* kopsrox_k3s.py:159-160: no guest is turned away because the cluster still
\* holds the password of an earlier guest of its name: whoever was removed left
\* no password behind, and no restored snapshot brings one back that stays.
THEOREM NobodyRejected == ASSUME Undisturbed PROVE OrderlySpec => []NoRejectedGuest
<1>1. QuietBase => NoRejectedGuest
  <2> SUFFICES ASSUME QuietBase, NEW v \in Offset, Runs(v), node[v].cl # 0
               PROVE  PasswordFits(v, node[v].cl)
    BY DEF NoRejectedGuest
  <2> USE Here DEF QuietBase, QuietInv, At
  <2>1. v \in Vms /\ v \notin Protected
    BY DEF Runs, Up, Vms, OthersInv, Inert
  <2>2. CASE v = M1
    BY <2>1, <2>2 DEF MasterInv, MasterBack, PasswordFits, Name, Cl
  <2>3. CASE v # M1
    <3>1. v \in Others
      BY <2>1, <2>3 DEF Others
    <3>2. CASE Settled(v)
      BY <3>2 DEF Settled, PasswordFits
    <3>3. CASE Joining(v)
      BY <3>1, <3>3 DEF Joining, PasswordFits, Name, OthersInv, ClusterInv
    <3>4. ~Fresh(v)
      BY DEF Fresh, Blank
    <3> QED BY <3>1, <3>2, <3>3, <3>4 DEF OthersInv
  <2> QED BY <2>2, <2>3
<1>2. BaseInv /\ StampInv /\ QuietInv => QuietBase
  BY DEF BaseInv, Inv, QuietBase
<1> QED BY <1>1, <1>2, Quiet, PTL

\* Outside a teardown and a restore m1 keeps its data.
LEMMA MasterStays ==
  ASSUME QuietBase, [Next /\ Orderly']_vars, Cl # 0, cli.phase \notin {"rm", "restore"},
         ~Interrupt, ~TooSlow
  PROVE  Cl' = Cl /\ ~At("manifest")'
<1> USE Here DEF QuietBase, QuietInv, At
<1>1. CASE Step
  <2>1. ~Wipe /\ ~Reset /\ ~Unconfig
    BY DEF Wipe, Reset, Unconfig, ControlInv, CallOf, PlanInv, CallFits, Orderly
  <2>2. ~At("manifest")'
    BY <1>1, <2>1, ToExport
  <2>3. CASE Clone \/ Destroy
    <3>1. cli.cur # M1
      <4>1. M1 \in Vms
        BY DEF OthersInv, Inert, Cl
      <4>2. Clone => cli.cur # M1
        <5>1. Clone /\ cli.cur = M1 => cli.phase \in {"create", "restore"}
          BY LayoutFacts, Builds, AddedOther DEF Clone, PlanInv, CallFits, Utility, M1
        <5> QED BY <4>1, <5>1 DEF Clone, MasterInv
      <4>3. Destroy => cli.cur # M1
        <5>1. cli.cfg \in Configs
          BY InisAssumption DEF TypeInv, TypeOK, CliTyped, CliState
        <5>2. cli.phase \in {"demote", "extras"} => M1 \notin Surplus(cli.phase)
          BY <5>1, LayoutAssumption DEF Configs, LastWorker, Surplus, M1
        <5>3. Destroy => cli.phase \in {"demote", "extras", "node"}
          BY DEF Destroy, PlanInv, CallFits, Removing
        <5> QED BY <5>2, <5>3 DEF Destroy, PlanInv, CallFits, SurplusOnly, Removing, Orderly
      <4> QED BY <2>3, <4>2, <4>3
    <3> QED BY <1>1, <2>2, <3>1, CallNodes DEF CallEffect, Cl
  <2>4. CASE ~Clone /\ ~Destroy
    BY <1>1, <2>1, <2>2, <2>4, CallsKeepLive DEF Cl
  <2> QED BY <2>3, <2>4
<1>2. CASE Invoke /\ Orderly'
  <2>1. PICK c \in Commands, a \in 0..(LastOffset + MaxSnaps), k \in Inis : Begin(c, a, k)
    BY <1>2 DEF Invoke
  <2>2. Cl' = Cl
    BY <2>1, BeginFinds
  <2>3. cli'.pc # "manifest"
    BY <1>2, <2>1, BeginCalls
  <2> QED BY <2>2, <2>3
<1>3. ~At("manifest")
  BY DEF ControlInv, CallOf
<1>4. CASE GuestStep \/ GuestFault
  <2>1. cli'.pc = cli.pc
    BY <1>4 DEF GuestStep, GuestFault, TypeInv, TypeOK, CliTyped, CliState
  <2> QED BY <1>3, <1>4, <2>1, LiveStays DEF Cl
<1>5. CASE UNCHANGED vars
  BY <1>3, <1>5 DEF vars, Cl
<1> QED BY <1>1, <1>2, <1>4, <1>5 DEF Next

\* kopsrox_k3s.py:260-276: m1's API answers throughout growing to three masters
\* and shrinking to one: a member leaves etcd before its VM goes, and a VM that
\* is one of the members is never cloned over.
THEOREM QuorumSafe == ASSUME Undisturbed PROVE OrderlySpec => QuorumKept
<1> DEFINE Kept1 == ApiAt(M1) /\ cli.phase \notin {"rm", "restore"} => ApiAt(M1)'
<1>1. QuietBase /\ QuietBase' /\ [Next /\ Orderly']_vars => [Kept1]_vars
  <2> SUFFICES ASSUME QuietBase, QuietBase', [Next /\ Orderly']_vars,
                      ApiAt(M1), cli.phase \notin {"rm", "restore"}
               PROVE  ApiAt(M1)'
    OBVIOUS
  <2>1. ~Interrupt /\ ~TooSlow
    BY DEF Undisturbed, Interrupt, TooSlow, Fault
  <2>2. Cl # 0 /\ Cl' = Cl /\ ~At("manifest")'
    BY <2>1, MasterStays DEF ApiAt, Cl
  <2>3. (TypeInv /\ OthersInv /\ ClusterInv /\ MasterInv)'
    BY DEF QuietBase, QuietInv
  <2>4. (TypeInv /\ OthersInv /\ ClusterInv /\ MasterInv /\ Cl # 0 /\ ~At("manifest")
           => ApiAt(M1))'
    BY MasterAnswers, PTL
  <2> QED BY <2>2, <2>3, <2>4
<1>2. BaseInv /\ StampInv /\ QuietInv => QuietBase
  BY DEF BaseInv, Inv, QuietBase
<1> QED BY <1>1, <1>2, Quiet, PTL DEF OrderlySpec, QuorumKept

\* Where it ends the cluster is what was asked for.
LEMMA EndsBuilt ==
  ASSUME QuietBase, Info, cli.phase = "update"
  PROVE  Reconciled /\ Exported /\ stamp = <<cli.cfg>>
<1> USE Here DEF QuietBase, QuietInv, At
<1>1. At("info") /\ M1 \in Vms
  BY DEF Info, Up, Vms
<1>2. stamp = <<cli.cfg>> /\ Vms \ Protected = Target(cli.cfg)
  BY <1>1 DEF InfoInv
<1>3. Cl # 0 /\ MasterBack
  BY <1>1 DEF MasterInv, MasterNew
<1>4. \A v \in Others : Settled(v) /\ ~Leaving(v)
  BY <1>1 DEF OthersInv, Fresh, Joining, Leaving
<1>5. Target(cli.cfg) = Others \cup {M1}
  BY <1>1, <1>2 DEF Others
<1>6. clu[Cl].reg = Target(cli.cfg)
  <2>1. clu[Cl].reg \subseteq Others \cup {M1}
    BY <1>3 DEF ClusterInv
  <2>2. M1 \in clu[Cl].reg
    BY <1>3 DEF MasterBack
  <2>3. Others \subseteq clu[Cl].reg
    BY <1>4 DEF Settled
  <2> QED BY <1>5, <2>1, <2>2, <2>3
<1>7. \A v \in Target(cli.cfg) : node[v].cl = Cl
  BY <1>4, <1>5 DEF Settled, Cl
<1>8. Exported
  BY <1>1, <1>3, Zenon DEF TokenInv, Renewing
<1> QED BY <1>2, <1>3, <1>6, <1>7, <1>8 DEF Reconciled, Registered, Cl

\* README.md:160-163: a create, update or restore that ends well leaves exactly
\* the nodes of kopsrox.ini, all of them in m1's cluster and its API's list, the
\* credentials saved and the drift baseline set, whatever commands came before.
THEOREM BuildsAsAsked == ASSUME Undisturbed PROVE OrderlySpec => BuiltAsAsked
<1> DEFINE Asked == Ended /\ last'.ok /\ cli.cmd \in {"create", "update", "restore"}
                      => Reconciled /\ Exported /\ stamp = <<cli.cfg>>
<1>1. BaseInv /\ StampInv /\ QuietInv /\ [Next]_vars => [Asked]_vars
  <2> SUFFICES ASSUME BaseInv, StampInv, QuietInv, [Next]_vars,
                      Ended, last'.ok, cli.cmd \in {"create", "update", "restore"}
               PROVE  Reconciled /\ Exported /\ stamp = <<cli.cfg>>
    OBVIOUS
  <2>1. QuietBase
    BY DEF BaseInv, Inv, QuietBase
  <2> QED BY <2>1, BuildEnds, EndsBuilt
<1> QED BY <1>1, Quiet, PTL DEF Spec, BuiltAsAsked

\* A command that fails although nothing disturbed it was refused for a reason
\* the code states.
LEMMA FailsWhy ==
  ASSUME QuietBase, Undisturbed, Step, Ended, ~last'.ok,
         cli.cmd \notin {"node-destroy", "utility"}
  PROVE  ExpectedRefusal
<1> USE Here DEF QuietBase, QuietInv, At
<1>1. cli.cmd # "none" /\ cli'.cmd = "none"
  BY DEF Ended
<1>2. ~TimedOut /\ ~NoInternet
  BY NotTimedOut, NotOffline
<1>3. CASE Refuse
  BY <1>3 DEF Refuse, RestoresInv, ExpectedRefusal
<1>4. CASE NoAnswer
  <2>1. M1 \notin Vms /\ (cli.phase = "node" \/ cli.cmd = "update")
    BY <1>4, NoAnswerWhy
  <2>2. cli.cmd \in {"snapshot", "export-token", "update"}
    BY <2>1 DEF ControlInv, Commanded, Orderly
  <2> QED BY <2>1, <2>2 DEF ExpectedRefusal
<1>f. ~Finish(TRUE) /\ ~(\E p : Goto(p))
  BY <1>1, GotoKeeps DEF Finish, TypeInv, TypeOK
<1>e. ASSUME NEW ph, NEW p, NEW v, NEW todo, Enter(ph, p, v, todo) PROVE FALSE
  BY <1>1, <1>e DEF Enter, TypeInv, TypeOK, CliTyped, CliState
<1>r. ~Return
  <2>1. cli.phase \in {"create", "restore"} => ~Return
    BY <1>e DEF Return
  <2>2. cli.phase = "update" => ~Return
    BY <1>1 DEF Return, TypeInv, TypeOK, CliTyped, CliState
  <2>3. cli.phase \notin {"create", "restore", "update"} => ~Return
    BY <1>f DEF Return
  <2> QED BY <2>1, <2>2, <2>3
<1>5. ~ExportToken
  BY <1>f, <1>r, ExportMoves
<1>6. ~SaveSnapshot
  <2> SUFFICES ASSUME SaveSnapshot PROVE FALSE
    OBVIOUS
  <2>1. At("save") /\ Up(M1)
    BY DEF SaveSnapshot
  <2>2. cli.phase = "node" /\ M1 \in Vms
    BY <2>1 DEF ControlInv, CallOf, Commanded, Up, Vms
  <2>3. Cl # 0
    BY <2>2 DEF MasterInv, MasterNew
  <2>4. ApiAt(M1)
    BY <2>1, <2>3, MasterAnswers
  <2> QED BY <1>f, <2>4 DEF SaveSnapshot
<1>7. ~LoopEnds
  <2>1. LoopEnds => Finish(TRUE) \/ \E ph, p, v, todo : Enter(ph, p, v, todo)
    BY DEF LoopEnds, TypeInv, InHand, Loops
  <2> QED BY <1>e, <1>f, <2>1
<1>8. ~(\E v \in Offset : Pick(v)) /\ ~ListSnapshots /\ ~Purge
  BY <1>1 DEF Pick, ListSnapshots, Purge, TypeInv, TypeOK, CliTyped, CliState
<1> QED
  BY <1>2, <1>3, <1>4, <1>f, <1>r, <1>5, <1>6, <1>7, <1>8, ZenonT(30)
     DEF Step, Clone, Start, Prepare, CheckReady, CheckNotReady, K3sJoin, WaitReady,
         AfterWait, Wipe, Reset, Manifest, Kubeconfig, WriteToken,
         Cordon, DelNode, DelSecret, AfterSecret, Destroy, Stamp, Info, Kill, Unconfig

\* A command nothing disturbed ends well, whatever commands came before it, or
\* is refused for a reason the code states: an update, a snapshot or an export
\* without m1, a restore without the saved token or the snapshot.
THEOREM EndsWell ==
  ASSUME Undisturbed,
         Commands \subseteq {"create", "update", "restore", "destroy", "snapshot", "export-token"}
  PROVE  Spec => CleanEnds
<1> DEFINE Clean == Ended /\ last'.clean /\ ~last'.ok => ExpectedRefusal
<1>1. BaseInv /\ StampInv /\ QuietInv /\ [Next]_vars => [Clean]_vars
  <2> SUFFICES ASSUME BaseInv, StampInv, QuietInv, [Next]_vars,
                      Ended, last'.clean, ~last'.ok
               PROVE  ExpectedRefusal
    OBVIOUS
  <2>1. QuietBase /\ cli \in CliState
    BY DEF BaseInv, Inv, QuietBase, TypeInv, TypeOK, CliTyped
  <2>2. cli.cmd \notin {"node-destroy", "utility"}
    BY <2>1 DEF CliState
  <2>3. ~Interrupt /\ ~TooSlow
    BY DEF Interrupt, TooSlow, Cut
  <2>4. ~Invoke /\ ~GuestFault /\ ~GuestStep /\ ~UNCHANGED vars
    <3>1. ~GuestFault
      BY <2>1 DEF Ended, GuestFault, CliState
    <3>2. ~Invoke
      BY CommandsAssumption DEF Ended, Invoke, Begin
    <3> QED BY <3>1, <3>2 DEF Ended, GuestStep, vars
  <2>5. Step
    BY <2>3, <2>4 DEF Next
  <2> QED BY <2>1, <2>2, <2>5, FailsWhy
<1>2. Spec => OrderlySpec
  BY TameIsOrderly
<1> QED BY <1>1, <1>2, Quiet, PTL DEF Spec, CleanEnds

\* Whatever is in the bucket was taken under the saved password, or there is
\* nothing in it: three masters are only taken apart and put back together.
DocumentedInv == IF cli.cfg.masters = 3 THEN s3 = <<>> /\ cli.cmd # "snapshot" ELSE QuietInv

\* Only the beginning of a command names one.
LEMMA SameCommand ==
  ASSUME BaseInv, [Next]_vars, ~Invoke
  PROVE  (cli'.cmd = cli.cmd /\ cli'.arg = cli.arg) \/ cli'.cmd = "none"
<1> USE DEF BaseInv, Inv, TypeInv, TypeOK
<1>1. CASE Step
  <2>1. CASE \E ok \in BOOLEAN : Finish(ok)
    BY <2>1, EndsIdle
  <2>2. CASE ~\E ok \in BOOLEAN : Finish(ok)
    BY <1>1, <2>2, Onwards
  <2> QED BY <2>1, <2>2
<1>2. CASE GuestStep \/ GuestFault
  BY <1>2 DEF GuestStep, GuestFault, CliTyped, CliState
<1>3. CASE Interrupt \/ TooSlow
  BY <1>3, EndsIdle DEF Interrupt, TooSlow
<1>4. CASE UNCHANGED vars
  BY <1>4 DEF vars
<1> QED BY <1>1, <1>2, <1>3, <1>4 DEF Next

\* So it is as long as the tool is used as the README says.
LEMMA Documented ==
  ASSUME Undisturbed
  PROVE  DocumentedSpec => Spec /\ [](BaseInv /\ StampInv /\ DocumentedInv)
<1>1. Init => DocumentedInv
  <2> SUFFICES ASSUME Init PROVE DocumentedInv
    OBVIOUS
  <2>1. s3 = <<>> /\ cli.cmd = "none"
    BY DEF Init, Idle
  <2> QED BY <2>1, InitQuiet DEF DocumentedInv
<1>2. BaseInv /\ StampInv /\ DocumentedInv /\ [Next /\ AsDocumented]_vars => DocumentedInv'
  <2> SUFFICES ASSUME BaseInv, StampInv, DocumentedInv, [Next /\ AsDocumented]_vars
               PROVE  DocumentedInv'
    OBVIOUS
  <2>1. cli'.cfg = cli.cfg
    BY DEF AsDocumented, vars
  <2>2. Invoke => cli.pc = "idle" /\ cli'.pc # "idle" /\ AsDocumented
    <3> SUFFICES ASSUME Invoke PROVE cli.pc = "idle" /\ cli'.pc # "idle" /\ AsDocumented
      OBVIOUS
    <3>1. PICK c \in Commands, a \in 0..(LastOffset + MaxSnaps), k \in Inis : Begin(c, a, k)
      BY DEF Invoke
    <3>2. cli.pc = "idle" /\ cli'.pc = Entry(c, a)[2] /\ cmds' # cmds
      BY <3>1 DEF Begin, At, BaseInv, Inv, TypeInv, TypeOK, CliTyped
    <3>3. cli'.pc # "idle"
      BY <3>2, CommandsAssumption DEF Entry
    <3> QED BY <3>2, <3>3 DEF vars
  <2>3. CASE cli.cfg.masters = 3
    <3>1. CASE Invoke
      BY <2>1, <2>2, <2>3, <3>1
         DEF AsDocumented, Readds, DocumentedInv, Invoke, Begin, files
    <3>2. CASE ~Invoke
      <4>1. cli'.cmd \in {cli.cmd, "none"}
        BY <3>2, SameCommand
      <4>2. s3' = s3
        <5>1. ~SaveSnapshot
          BY <2>3 DEF SaveSnapshot, DocumentedInv, BaseInv, ControlInv, CallOf, At
        <5>2. Step => s3' = s3
          BY <5>1, CallSnapshots DEF BaseInv, Inv
        <5>3. CASE GuestStep \/ GuestFault \/ UNCHANGED vars \/ Interrupt \/ TooSlow
          BY <5>3 DEF GuestStep, GuestFault, Interrupt, TooSlow, vars, files
        <5> QED BY <3>2, <5>2, <5>3 DEF Next
      <4> QED BY <2>1, <2>3, <4>1, <4>2 DEF DocumentedInv
    <3> QED BY <3>1, <3>2
  <2>4. CASE cli.cfg.masters # 3
    <3>1. Orderly'
      <4>1. CASE Invoke
        BY <2>2, <2>4, <4>1 DEF AsDocumented, BacksUp, Orderly
      <4>2. CASE ~Invoke
        BY <2>4, <4>2, SameCommand DEF DocumentedInv, QuietInv, Orderly
      <4> QED BY <4>1, <4>2
    <3> QED BY <2>1, <2>4, <3>1, NextQuiet DEF DocumentedInv
  <2> QED BY <2>3, <2>4
<1>3. Init => StampInv
  BY DEF Init, Idle, StampInv, NodesListed, NothingElse, UpdateLoops, At
<1>4. BaseInv /\ StampInv /\ [Next]_vars => StampInv'
  BY NextStamp DEF BaseInv
<1>5. DocumentedSpec => Spec
  <2>1. [Next /\ AsDocumented]_vars => [Next]_vars
    OBVIOUS
  <2> QED BY <2>1, PTL DEF DocumentedSpec, Spec
<1> QED BY <1>1, <1>2, <1>3, <1>4, <1>5, Base, PTL DEF DocumentedSpec, Spec

\* kopsrox_k3s.py:83-85: the saved token opens every snapshot in the bucket,
\* used as the README says: a cluster of one master is backed up, destroyed,
\* created again and restored, one of three has its masters re-added.
THEOREM AllDecryptable == ASSUME Undisturbed PROVE DocumentedSpec => []SnapshotsDecryptable
<1>1. DocumentedInv => SnapshotsDecryptable
  BY DEF DocumentedInv, QuietInv, TokenInv, SnapshotsDecryptable
<1> QED BY <1>1, Documented, PTL

(*************************** Re-adding a master ****************************)
\* The identity the saved token is of, and the node that is being taken out of
\* its cluster and put back: between two commands the one that was taken out.
Home   == SavedToken.ca
Victim == IF cli.cmd # "none" THEN cli.arg
          ELSE IF last.cmd = "k3s-uninstall" THEN last.arg ELSE Image

\* The others are in the cluster.  A master that was put back is a server, m1
\* too, and one that was not is what it was created as.
Place(v) == IF v > Utility THEN {"agent"} ELSE {"init", "server"}
InCluster(v) == /\ Up(v) /\ node[v].prepared /\ node[v].unit = "active"
                /\ node[v].role \in Place(v) /\ node[v].cl = Home /\ Home \in node[v].known
                /\ v \in clu[Home].reg

\* How far the one in hand has got.
Bare(v)     == Up(v) /\ node[v].prepared /\ node[v].unit = "killed" /\ node[v].cl = 0
Unlisted(v) == v \notin clu[Home].reg \cup clu[Home].secrets
Rejoining(v) ==
  /\ Up(v) /\ node[v].prepared /\ node[v].role = "server" /\ node[v].tok = SavedToken
  /\ InCluster(v) \/ (node[v].unit = "starting" /\ node[v].cl \in {0, Home} /\ Unlisted(v))
VictimInv ==
  \/ At("kill") /\ InCluster(Victim)
  \/ /\ At("unconfig") /\ Up(Victim) /\ node[Victim].prepared /\ node[Victim].unit = "killed"
     /\ node[Victim].cl = Home /\ Victim \in clu[Home].reg
  \/ At("delnode") /\ Bare(Victim) /\ Victim \in clu[Home].reg
  \/ At("delsecret") /\ Bare(Victim) /\ Victim \notin clu[Home].reg
  \/ cli.pc \in {"idle", "check", "join"} /\ Bare(Victim) /\ Unlisted(Victim)
  \/ At("wait") /\ Rejoining(Victim)

\* Whether etcd has lost it.
Lost == \/ cli.pc \in {"delsecret", "idle", "check", "join"}
        \/ At("wait") /\ node[Victim].cl = 0

\* The commands of the procedure, and their calls.
ReaddCalls ==
  /\ cli.cfg.masters = 3 /\ cmds > 0
  /\ \/ cli.cmd = "none" /\ At("idle")
     \/ cli.cmd = "k3s-uninstall" /\ cli.pc \in {"kill", "refuse", "unconfig", "delnode", "delsecret"}
     \/ cli.cmd = "rejoin-slave" /\ cli.pc \in {"check", "join", "wait"} /\ Victim \in Masters

\* The cluster that is left, whoever is taken out of it.
HomeInv ==
  /\ ReaddCalls /\ Victim \in Offset
  /\ tokenFile # <<>> /\ Home \in Id /\ SavedToken.pw = clu[Home].pw /\ clu[Home].vip
  /\ clu[Home].reg \subseteq Target(cli.cfg)
  /\ clu[Home].members \subseteq Masters
  /\ \A v \in Masters : v \in clu[Home].members <=> ~(v = Victim /\ Lost)
  /\ \A v \in Target(cli.cfg) \ {Victim} : InCluster(v)
  /\ \A v \in Offset \ Target(cli.cfg) : Inert(v)
  /\ Victim \in Target(cli.cfg) => VictimInv
HomeBase == TypeInv /\ PlanInv /\ ControlInv /\ IdentityInv /\ HomeInv

\* What the types say of them.
LEMMA HomeFacts ==
  ASSUME TypeInv, HomeInv
  PROVE  /\ cli.cfg \in Configs /\ Target(cli.cfg) \subseteq Offset
         /\ Masters \subseteq Target(cli.cfg) /\ Image \notin Target(cli.cfg)
         /\ \A v \in Offset : node[v] \in NodeState
         /\ clu[Home] \in ClusterState /\ Home # 0
         /\ \A v \in Masters : Place(v) = {"init", "server"}
         /\ \A v \in Target(cli.cfg) \ Masters : Place(v) = {"agent"}
         /\ SavedToken = [ca |-> Home, pw |-> clu[Home].pw]
<1>1. cli.cfg \in Configs /\ cli.cfg.masters = 3
  BY InisAssumption DEF TypeInv, TypeOK, CliTyped, CliState, HomeInv, ReaddCalls
<1>2. Target(cli.cfg) \subseteq Offset /\ Image \notin Target(cli.cfg)
  BY <1>1, LayoutFacts DEF Protected
<1>3. Target(cli.cfg) = Masters \cup WorkersOf(cli.cfg)
  BY <1>1 DEF Target, Slaves, Masters, M1
<1>4. \A v \in Masters : Place(v) = {"init", "server"}
  BY DEF Place, Masters, Utility
<1>5. \A v \in WorkersOf(cli.cfg) : Place(v) = {"agent"}
  BY <1>1, LayoutAssumption DEF Place, WorkersOf, LastWorker, Utility, Configs
<1>6. clu[Home] \in ClusterState /\ Home # 0 /\ \A v \in Offset : node[v] \in NodeState
  BY MaxIdAssumption DEF TypeInv, TypeOK, GuestsTyped, HomeInv, Id
<1>7. SavedToken \in Token
  BY NoTokenTyped DEF TypeInv, TypeOK, FilesTyped, SavedToken
<1>8. SavedToken = [ca |-> Home, pw |-> clu[Home].pw]
  BY <1>7 DEF Token, Home, HomeInv
<1> QED BY <1>1, <1>2, <1>3, <1>4, <1>5, <1>6, <1>8

\* Three masters less one are a quorum.
LEMMA TwoOfThree ==
  ASSUME NEW up, NEW all, up \subseteq all, all \subseteq Masters,
         NEW m, Masters \ {m} \subseteq up
  PROVE  2 * Cardinality(up) > Cardinality(all)
<1>1. IsFiniteSet(Masters) /\ Cardinality(Masters) = 3
  <2>1. IsFiniteSet({}) /\ Cardinality({}) = 0
    BY FS_EmptySet
  <2>2. IsFiniteSet({1}) /\ Cardinality({1}) = 1
    BY FS_Singleton
  <2>3. IsFiniteSet({1, 2}) /\ Cardinality({1, 2}) = 2
    <3>1. {1, 2} = {1} \cup {2} /\ 2 \notin {1}
      OBVIOUS
    <3> QED BY <2>2, <3>1, FS_AddElement
  <2>4. IsFiniteSet({1, 2} \cup {3}) /\ Cardinality({1, 2} \cup {3}) = 3
    <3>1. 3 \notin {1, 2}
      OBVIOUS
    <3> QED BY <2>3, <3>1, FS_AddElement
  <2>5. Masters = {1, 2} \cup {3}
    BY DEF Masters
  <2> QED BY <2>4, <2>5
<1>2. IsFiniteSet(all) /\ Cardinality(all) <= 3
  BY <1>1, FS_Subset
<1>3. IsFiniteSet(Masters \ {m}) /\ Cardinality(Masters \ {m}) >= 2
  <2>1. CASE m \in Masters
    BY <1>1, <2>1, FS_RemoveElement
  <2>2. CASE m \notin Masters
    <3>1. Masters \ {m} = Masters
      BY <2>2
    <3> QED BY <1>1, <3>1
  <2> QED BY <2>1, <2>2
<1>4. IsFiniteSet(up) /\ Cardinality(up) >= 2
  <2>1. IsFiniteSet(up)
    BY <1>2, FS_Subset
  <2>2. Cardinality(Masters \ {m}) <= Cardinality(up)
    BY <2>1, FS_Subset
  <2> QED BY <1>3, <2>1, <2>2, FS_CardinalityType
<1> QED BY <1>2, <1>4, FS_CardinalityType

\* So the API answers at every other master, and the VIP is served.
LEMMA HomeAnswers ==
  ASSUME TypeInv, HomeInv
  PROVE  /\ Quorum(Home) /\ VipServes(Home) /\ \A m \in Masters \ {Victim} : ApiAt(m)
         /\ \A m \in Masters : node[m].cl \in {0, Home}
         /\ \A m \in Masters : InCluster(m) /\ m \in clu[Home].members => ApiAt(m)
<1> USE HomeFacts
<1> DEFINE up == {v \in clu[Home].members : Serves(v, Home)}
<1>1. \A m \in Masters : InCluster(m) /\ m \in clu[Home].members => Serves(m, Home)
  BY DEF InCluster, Serves, Runs
<1>2. Masters \ {Victim} \subseteq up
  BY <1>1 DEF HomeInv
<1>3. 2 * Cardinality(up) > Cardinality(clu[Home].members)
  <2>1. up \subseteq clu[Home].members /\ clu[Home].members \subseteq Masters
    BY DEF HomeInv
  <2> HIDE DEF up
  <2> QED BY <1>2, <2>1, TwoOfThree
<1>4. Quorum(Home)
  BY <1>3 DEF Quorum
<1>5. \A m \in Masters : InCluster(m) /\ m \in clu[Home].members => ApiAt(m)
  BY <1>1, <1>4 DEF ApiAt, InCluster
<1>6. \A m \in Masters : node[m].cl \in {0, Home}
  <2>1. \A m \in Masters \ {Victim} : node[m].cl = Home
    BY DEF HomeInv, InCluster
  <2>2. Victim \in Masters => node[Victim].cl \in {0, Home}
    BY DEF HomeInv, VictimInv, InCluster, Bare, Rejoining
  <2> QED BY <2>1, <2>2
<1> QED BY <1>2, <1>4, <1>5, <1>6 DEF VipServes, HomeInv

\* Calls and guest steps that leave everybody but the one in hand alone.
LEMMA HomeKept ==
  ASSUME TypeInv, HomeInv, Victim' = Victim, tokenFile' = tokenFile, cli'.cfg = cli.cfg,
         ReaddCalls',
         \A v \in Offset \ {Victim} : node'[v] = node[v],
         Victim \in Target(cli.cfg) \/ Inert(Victim)',
         clu'[Home].pw = clu[Home].pw, clu'[Home].vip,
         clu'[Home].reg \subseteq Target(cli.cfg), clu'[Home].members \subseteq Masters,
         \A v \in Offset \ {Victim} : /\ v \in clu[Home].reg => v \in clu'[Home].reg
                                      /\ v \in clu[Home].members <=> v \in clu'[Home].members,
         Victim \in Masters => (Victim \in clu'[Home].members <=> ~Lost'),
         Victim \in Target(cli.cfg) => VictimInv'
  PROVE  HomeInv'
<1> USE HomeFacts
<1>1. SavedToken' = SavedToken /\ Home' = Home
  BY DEF SavedToken, Home
<1>2. \A v \in Target(cli.cfg) \ {Victim} : InCluster(v)'
  BY <1>1 DEF HomeInv, InCluster, Up, Place
<1>3. \A v \in Masters : v \in clu'[Home].members <=> ~(v = Victim /\ Lost')
  <2>1. \A v \in Masters \ {Victim} : v \in clu'[Home].members
    BY DEF HomeInv
  <2> QED BY <2>1
<1>4. \A v \in Offset \ Target(cli.cfg) : Inert(v)'
  BY DEF HomeInv, Inert
<1> QED BY <1>1, <1>2, <1>3, <1>4 DEF HomeInv

\* The guest that kubectl runs in is a master whose API answers.
LEMMA AsksAnother ==
  ASSUME TypeInv, HomeInv, cli.cmd = "k3s-uninstall", ControlInv
  PROVE  /\ cli.cur = Victim
         /\ \E m \in Masters : Routes = {m} /\ m # Victim /\ ApiAt(m) /\ node[m].cl = Home /\ Up(m)
<1> USE HomeFacts
<1>1. cli.cur = Victim
  BY DEF ControlInv, Commanded, Victim
<1>2. Masters \subseteq Vms
  <2>1. \A v \in Target(cli.cfg) : Up(v)
    BY DEF HomeInv, VictimInv, InCluster, Bare, Rejoining
  <2> QED BY <2>1 DEF Vms, Up
<1>3. OtherMasters(cli.cur) = Masters \ {Victim}
  BY <1>1, <1>2 DEF OtherMasters
<1>4. \E m \in Masters \ {Victim} : Routes = {m}
  <2>1. CASE Victim = 1
    <3>1. OtherMasters(cli.cur) = {2, 3}
      BY <1>3, <2>1 DEF Masters
    <3>2. Routes = {2}
      BY <3>1 DEF Routes
    <3> QED BY <2>1, <3>2 DEF Masters
  <2>2. CASE Victim # 1
    <3>1. 1 \in OtherMasters(cli.cur) /\ \A w \in OtherMasters(cli.cur) : w \in {1, 2, 3}
      BY <1>3, <2>2 DEF Masters
    <3>2. Routes = {1}
      BY <3>1 DEF Routes
    <3> QED BY <2>2, <3>2 DEF Masters
  <2> QED BY <2>1, <2>2
<1> QED BY <1>1, <1>4, HomeAnswers DEF HomeInv, InCluster

\* k3s-uninstall first stops the unit ...
LEMMA KillHome ==
  ASSUME HomeBase, Kill
  PROVE  HomeInv'
<1> USE HomeFacts DEF HomeBase, At
<1>1. cli.cmd = "k3s-uninstall" /\ cli.pc = "kill" /\ cli.cur = Victim
  BY AsksAnother DEF Kill, HomeInv, ReaddCalls
<1>2. /\ Goto("unconfig") /\ node' = [node EXCEPT ![Victim] = Killed(@)]
      /\ UNCHANGED <<clu, files, ghost>>
  BY <1>1 DEF Kill
<1>3. cli'.pc = "unconfig" /\ cli'.cmd = cli.cmd /\ cli'.arg = cli.arg /\ cli'.cfg = cli.cfg
  BY <1>2, GotoKeeps DEF TypeInv, TypeOK
<1>4. Victim' = Victim /\ ReaddCalls' /\ ~Lost'
  BY <1>1, <1>2, <1>3 DEF Victim, ReaddCalls, HomeInv, Lost, ghost
<1>5. /\ \A v \in Offset \ {Victim} : node'[v] = node[v]
      /\ node'[Victim] = Killed(node[Victim]) /\ Home' = Home /\ SavedToken' = SavedToken
  BY <1>2 DEF HomeInv, TypeInv, TypeOK, GuestsTyped, Home, SavedToken, files
<1>6. /\ node'[Victim].st = node[Victim].st /\ node'[Victim].prepared = node[Victim].prepared
      /\ node'[Victim].cl = node[Victim].cl
      /\ node'[Victim].unit = IF node[Victim].unit = "disabled" THEN "disabled" ELSE "killed"
  BY <1>5 DEF Killed, HomeInv, NodeState
<1>7. Victim \in Target(cli.cfg) => VictimInv'
  <2> SUFFICES ASSUME Victim \in Target(cli.cfg) PROVE VictimInv'
    OBVIOUS
  <2>1. InCluster(Victim)
    BY <1>1 DEF HomeInv, VictimInv
  <2> QED BY <1>2, <1>3, <1>4, <1>5, <1>6, <2>1 DEF InCluster, VictimInv, Up
<1>8. Victim \in Target(cli.cfg) \/ Inert(Victim)'
  BY <1>4, <1>6 DEF HomeInv, Inert
<1>9. Victim \in Masters => Victim \in clu[Home].members
  BY <1>1 DEF HomeInv, Lost
<1> QED BY <1>2, <1>3, <1>4, <1>5, <1>7, <1>8, <1>9, HomeKept DEF files, HomeInv

\* ... then deletes its directories ...
LEMMA UnconfigHome ==
  ASSUME HomeBase, Unconfig
  PROVE  HomeInv'
<1> USE HomeFacts DEF HomeBase, At
<1>1. cli.cmd = "k3s-uninstall" /\ cli.pc = "unconfig" /\ cli.cur = Victim
  BY AsksAnother DEF Unconfig, HomeInv, ReaddCalls
<1>2. /\ Goto("delnode") /\ node' = [node EXCEPT ![Victim] = Unconfigured(Wiped(@))]
      /\ UNCHANGED <<clu, files, ghost>>
  <2>1. OtherMasters(cli.cur) # {}
    BY <1>1, AsksAnother DEF Routes
  <2> QED BY <1>1, <2>1 DEF Unconfig
<1>3. cli'.pc = "delnode" /\ cli'.cmd = cli.cmd /\ cli'.arg = cli.arg /\ cli'.cfg = cli.cfg
  BY <1>2, GotoKeeps DEF TypeInv, TypeOK
<1>4. Victim' = Victim /\ ReaddCalls' /\ ~Lost'
  BY <1>1, <1>2, <1>3 DEF Victim, ReaddCalls, HomeInv, Lost, ghost
<1>5. /\ \A v \in Offset \ {Victim} : node'[v] = node[v]
      /\ node'[Victim] = Unconfigured(Wiped(node[Victim])) /\ Home' = Home
  BY <1>2 DEF HomeInv, TypeInv, TypeOK, GuestsTyped, Home, SavedToken, files
<1>6. /\ node'[Victim].st = node[Victim].st /\ node'[Victim].prepared = node[Victim].prepared
      /\ node'[Victim].cl = 0 /\ node'[Victim].unit = node[Victim].unit
  BY <1>5 DEF Unconfigured, Wiped, HomeInv, NodeState
<1>7. Victim \in Target(cli.cfg) => VictimInv'
  <2> SUFFICES ASSUME Victim \in Target(cli.cfg) PROVE VictimInv'
    OBVIOUS
  <2>1. /\ Up(Victim) /\ node[Victim].prepared /\ node[Victim].unit = "killed"
        /\ Victim \in clu[Home].reg
    BY <1>1 DEF HomeInv, VictimInv
  <2> QED BY <1>2, <1>3, <1>4, <1>5, <1>6, <2>1 DEF Bare, VictimInv, Up
<1>8. Victim \in Target(cli.cfg) \/ Inert(Victim)'
  BY <1>4, <1>6 DEF HomeInv, Inert
<1>9. Victim \in Masters => Victim \in clu[Home].members
  BY <1>1 DEF HomeInv, Lost
<1> QED BY <1>2, <1>3, <1>4, <1>5, <1>7, <1>8, <1>9, HomeKept DEF files, HomeInv

\* ... has another master forget the node, and etcd its member ...
LEMMA DelNodeHome ==
  ASSUME HomeBase, DelNode
  PROVE  HomeInv'
<1> USE HomeFacts DEF HomeBase, At
<1>1. cli.cmd = "k3s-uninstall" /\ cli.pc = "delnode"
  BY DEF DelNode, HomeInv, ReaddCalls
<1>2. PICK m \in Masters : Routes = {m} /\ ApiAt(m) /\ node[m].cl = Home /\ cli.cur = Victim
  BY <1>1, AsksAnother
<1>3. /\ Goto("delsecret") /\ UNCHANGED <<node, files, ghost>>
      /\ clu' = [clu EXCEPT ![Home] = NodeDeleted(clu[Home], Victim)]
  BY <1>2 DEF DelNode, Kubectl, Api
<1>4. cli'.pc = "delsecret" /\ cli'.cmd = cli.cmd /\ cli'.arg = cli.arg /\ cli'.cfg = cli.cfg
  BY <1>3, GotoKeeps DEF TypeInv, TypeOK
<1>5. Victim' = Victim /\ ReaddCalls' /\ Lost' /\ ~Lost /\ Home' = Home
  BY <1>1, <1>3, <1>4 DEF Victim, ReaddCalls, HomeInv, Lost, ghost, Home, SavedToken, files
<1>6. clu'[Home] = NodeDeleted(clu[Home], Victim)
  BY <1>3 DEF HomeInv, TypeInv, TypeOK, GuestsTyped
<1>7. /\ clu'[Home].pw = clu[Home].pw /\ clu'[Home].vip = clu[Home].vip
      /\ clu'[Home].reg = clu[Home].reg \ {Victim}
      /\ clu'[Home].members = IF Victim \in clu[Home].reg THEN clu[Home].members \ {Victim}
                                                         ELSE clu[Home].members
  BY <1>6 DEF NodeDeleted, ClusterState
<1>8. Victim \in Target(cli.cfg) => Bare(Victim) /\ Victim \in clu[Home].reg
  BY <1>1 DEF HomeInv, VictimInv
<1>9. Victim \in Target(cli.cfg) => VictimInv'
  BY <1>3, <1>4, <1>5, <1>7, <1>8 DEF VictimInv, Bare, Up
<1>10. Victim \in Target(cli.cfg) \/ Inert(Victim)'
  BY <1>3, <1>5 DEF HomeInv, Inert
<1>11. /\ Victim \in Masters => Victim \notin clu'[Home].members
       /\ clu'[Home].members \subseteq Masters
       /\ \A v \in Offset \ {Victim} : /\ v \in clu[Home].reg => v \in clu'[Home].reg
                                       /\ v \in clu[Home].members <=> v \in clu'[Home].members
  BY <1>7, <1>8 DEF HomeInv
<1>12. /\ clu'[Home].pw = clu[Home].pw /\ clu'[Home].vip
       /\ clu'[Home].reg \subseteq Target(cli.cfg)
       /\ \A v \in Offset \ {Victim} : node'[v] = node[v]
  BY <1>3, <1>7 DEF HomeInv
<1>13. Victim \in Masters => (Victim \in clu'[Home].members <=> ~Lost')
  BY <1>5, <1>11
<1>14. tokenFile' = tokenFile
  BY <1>3 DEF files
<1> QED BY <1>4, <1>5, <1>9, <1>10, <1>11, <1>12, <1>13, <1>14, HomeKept

\* ... and its password.
LEMMA DelSecretHome ==
  ASSUME HomeBase, DelSecret
  PROVE  HomeInv'
<1> USE HomeFacts DEF HomeBase, At
<1>1. cli.cmd = "k3s-uninstall" /\ cli.pc = "delsecret" /\ cli.phase = "node"
  BY DEF DelSecret, HomeInv, ReaddCalls, ControlInv, Commanded
<1>2. PICK m \in Masters : Routes = {m} /\ ApiAt(m) /\ node[m].cl = Home /\ cli.cur = Victim
  BY <1>1, AsksAnother
<1>3. /\ Finish(TRUE) /\ UNCHANGED <<node, files>>
      /\ clu' = [clu EXCEPT ![Home] = SecretDeleted(clu[Home], Victim)]
  <2>1. Return
    BY <1>1 DEF DelSecret, AfterSecret
  <2> QED BY <1>1, <1>2, <2>1 DEF DelSecret, Kubectl, Api, Return
<1>4. /\ cli'.pc = "idle" /\ cli'.cmd = "none" /\ cli'.cfg = cli.cfg /\ cmds' = cmds
      /\ last'.cmd = "k3s-uninstall" /\ last'.arg = cli.arg
  BY <1>1, <1>3 DEF Finish, Idle
<1>5. Victim' = Victim /\ ReaddCalls' /\ Lost' /\ Lost /\ Home' = Home
  BY <1>1, <1>3, <1>4 DEF Victim, ReaddCalls, HomeInv, Lost, Home, SavedToken, files
<1>6. clu'[Home] = SecretDeleted(clu[Home], Victim)
  BY <1>3 DEF HomeInv, TypeInv, TypeOK, GuestsTyped
<1>7. /\ clu'[Home].pw = clu[Home].pw /\ clu'[Home].vip = clu[Home].vip
      /\ clu'[Home].reg = clu[Home].reg /\ clu'[Home].members = clu[Home].members
      /\ clu'[Home].secrets = clu[Home].secrets \ {Victim}
  BY <1>6 DEF SecretDeleted, ClusterState
<1>8. Victim \in Target(cli.cfg) => Bare(Victim) /\ Victim \notin clu[Home].reg
  BY <1>1 DEF HomeInv, VictimInv
<1>9. Victim \in Target(cli.cfg) => VictimInv'
  BY <1>3, <1>4, <1>5, <1>7, <1>8 DEF VictimInv, Bare, Up, Unlisted
<1>10. Victim \in Target(cli.cfg) \/ Inert(Victim)'
  BY <1>3, <1>5 DEF HomeInv, Inert
<1> QED BY <1>3, <1>4, <1>5, <1>7, <1>8, <1>9, <1>10, HomeKept DEF files, HomeInv

\* Only what is not a node of the cluster is refused, or does not answer.
LEMMA RefusedHome ==
  ASSUME HomeBase, Refuse \/ NoAnswer
  PROVE  HomeInv' /\ Victim \notin Target(cli.cfg)
<1> USE HomeFacts, HomeAnswers DEF HomeBase, At
<1>1. ~At("idle") /\ ~At("stamp") /\ Finish(FALSE) /\ UNCHANGED <<gvars, files>>
  BY DEF Refuse, NoAnswer, Needs, HomeInv, ReaddCalls
<1>2. Victim \notin Target(cli.cfg)
  <2> SUFFICES ASSUME Victim \in Target(cli.cfg), NoAnswer PROVE FALSE
    BY DEF Refuse, HomeInv, VictimInv
  <2>1. VictimInv /\ Up(Victim)
    BY DEF HomeInv, VictimInv, InCluster, Bare, Rejoining
  <2>2. cli.cur = Victim
    BY <1>1 DEF HomeInv, ReaddCalls, ControlInv, Commanded, Victim
  <2>3. Up(M1)
    BY <2>1 DEF HomeInv, InCluster, Masters, M1
  <2>4. cli.cmd = "k3s-uninstall" => \A v \in Routes : Up(v)
    BY AsksAnother
  <2>5. \A v \in Needs : Up(v)
    BY <1>1, <2>1, <2>2, <2>3, <2>4 DEF Needs, HomeInv, ReaddCalls
  <2> QED BY <1>1, <2>5 DEF NoAnswer
<1>3. cli.cmd = "k3s-uninstall"
  BY <1>1, <1>2 DEF HomeInv, ReaddCalls
<1>4. /\ cli'.pc = "idle" /\ cli'.cmd = "none" /\ cli'.cfg = cli.cfg /\ cmds' = cmds
      /\ last'.cmd = "k3s-uninstall" /\ last'.arg = cli.arg
  BY <1>1, <1>3 DEF Finish, Idle
<1>5. Victim' = Victim /\ ReaddCalls' /\ Home' = Home
  BY <1>1, <1>3, <1>4 DEF Victim, ReaddCalls, HomeInv, Home, SavedToken, files
<1>6. Inert(Victim)'
  BY <1>1, <1>2, <1>5 DEF HomeInv, Inert, gvars
<1> QED BY <1>1, <1>2, <1>4, <1>5, <1>6, HomeKept DEF files, gvars, HomeInv

\* rejoin-slave finds the node not Ready, and joins it with the saved token ...
LEMMA CheckHome ==
  ASSUME HomeBase, CheckNotReady
  PROVE  HomeInv'
<1> USE HomeFacts DEF HomeBase, At
<1>1. cli.cmd = "rejoin-slave" /\ cli.pc = "check" /\ cli.phase = "node"
  BY DEF CheckNotReady, HomeInv, ReaddCalls, ControlInv, Commanded
<1>2. Goto("join") /\ UNCHANGED <<gvars, files, ghost>>
  BY <1>1 DEF CheckNotReady, NodeType
<1>3. cli'.pc = "join" /\ cli'.cmd = cli.cmd /\ cli'.arg = cli.arg /\ cli'.cfg = cli.cfg
  BY <1>2, GotoKeeps DEF TypeInv, TypeOK
<1>4. Victim' = Victim /\ ReaddCalls' /\ Lost' /\ Lost /\ Home' = Home
  BY <1>1, <1>2, <1>3
     DEF Victim, ReaddCalls, HomeInv, Lost, Home, SavedToken, files, ghost
<1>5. Victim \in Target(cli.cfg) /\ Bare(Victim) /\ Unlisted(Victim)
  BY <1>1 DEF HomeInv, VictimInv, ReaddCalls
<1>6. VictimInv'
  BY <1>2, <1>3, <1>4, <1>5 DEF VictimInv, Bare, Up, Unlisted, gvars
<1> QED BY <1>2, <1>3, <1>4, <1>5, <1>6, HomeKept DEF files, gvars, HomeInv

\* ... as a server of the cluster that is left ...
LEMMA K3sJoinHome ==
  ASSUME HomeBase, K3sJoin
  PROVE  HomeInv'
<1> USE HomeFacts DEF HomeBase, At
<1>1. cli.cmd = "rejoin-slave" /\ cli.pc = "join" /\ cli.phase = "node" /\ cli.cur = Victim
  BY DEF K3sJoin, HomeInv, ReaddCalls, ControlInv, Commanded, Victim
<1>2. Role = "server" /\ JoinToken = SavedToken
  <2>1. cli.cur \in Masters
    BY <1>1 DEF HomeInv, ReaddCalls
  <2>2. NodeType = "slave"
    BY <1>1, <2>1 DEF NodeType, Masters, Utility
  <2> QED BY <2>2 DEF Role, JoinToken
<1> DEFINE n == node[Victim]
           j == Started(Configured(n, "server", SavedToken, cli.cfg.opts))
<1>3. Goto("wait") /\ node' = [node EXCEPT ![Victim] = j] /\ UNCHANGED <<clu, files, ghost>>
  BY <1>1, <1>2 DEF K3sJoin
<1>4. cli'.pc = "wait" /\ cli'.cmd = cli.cmd /\ cli'.arg = cli.arg /\ cli'.cfg = cli.cfg
  BY <1>3, GotoKeeps DEF TypeInv, TypeOK
<1>5. Victim \in Target(cli.cfg) /\ Bare(Victim) /\ Unlisted(Victim) /\ n \in NodeState
  BY <1>1 DEF HomeInv, VictimInv, ReaddCalls
<1>6. /\ j.st = n.st /\ j.prepared = n.prepared /\ j.cl = 0 /\ j.unit = "starting"
      /\ j.role = "server" /\ j.tok = SavedToken
  <2>1. Configured(n, "server", SavedToken, cli.cfg.opts).unit = "killed"
    BY <1>5 DEF Configured, Bare, NodeState
  <2> QED BY <1>5, <2>1 DEF Started, Configured, Bare, NodeState
<1>7. (\A v \in Offset \ {Victim} : node'[v] = node[v]) /\ node'[Victim] = j
  BY <1>3 DEF HomeInv, TypeInv, TypeOK, GuestsTyped
<1> HIDE DEF j
<1>8. /\ Victim' = Victim /\ ReaddCalls' /\ Lost' /\ Lost
      /\ Home' = Home /\ SavedToken' = SavedToken
  BY <1>1, <1>3, <1>4, <1>6, <1>7
     DEF Victim, ReaddCalls, HomeInv, Lost, Home, SavedToken, files, ghost
<1>9. VictimInv'
  <2>1. Up(Victim)' /\ Unlisted(Victim)'
    BY <1>3, <1>5, <1>6, <1>7, <1>8 DEF Bare, Up, Unlisted
  <2>2. Rejoining(Victim)'
    BY <1>5, <1>6, <1>7, <1>8, <2>1 DEF Rejoining, Bare
  <2> QED BY <1>4, <1>8, <2>2 DEF VictimInv
<1> QED BY <1>3, <1>4, <1>5, <1>7, <1>8, <1>9, HomeKept DEF files, HomeInv

\* ... and waits until it is back.
LEMMA RejoinedThen ==
  ASSUME HomeBase, SeesReady(Victim), cli.cmd = "rejoin-slave"
  PROVE  /\ At("wait") /\ InCluster(Victim) /\ Victim \in Masters
         /\ Victim \in clu[Home].members /\ ApiAt(Victim)
<1> USE HomeFacts, HomeAnswers DEF HomeBase, At
<1>1. Victim \in Masters /\ M1 \in Masters
  BY DEF HomeInv, ReaddCalls, Masters, M1
<1>2. node[M1].cl = Home /\ Victim \in clu[Home].reg
  BY <1>1, ReadyIsListed DEF HomeInv, Api1
<1>3. At("wait") /\ InCluster(Victim)
  BY <1>1, <1>2 DEF HomeInv, VictimInv, ReaddCalls, Unlisted, Rejoining
<1>4. Victim \in clu[Home].members
  BY <1>1, <1>3 DEF HomeInv, Lost, InCluster
<1> QED BY <1>1, <1>3, <1>4

\* Then the command is over, with every node in the cluster again.
LEMMA WaitReadyHome ==
  ASSUME HomeBase, WaitReady \/ CheckReady
  PROVE  HomeInv' /\ WaitReady /\ cli.cmd = "rejoin-slave" /\ SeesReady(Victim)
<1> USE HomeFacts DEF HomeBase, At
<1>1. cli.cmd = "rejoin-slave" /\ cli.phase = "node" /\ cli.cur = Victim
  BY DEF WaitReady, CheckReady, HomeInv, ReaddCalls, ControlInv, Commanded, Victim
<1>2. SeesReady(Victim)
  BY <1>1 DEF WaitReady, CheckReady
<1>3. At("wait") /\ InCluster(Victim) /\ Victim \in Masters /\ Victim \in clu[Home].members
  BY <1>1, <1>2, RejoinedThen
<1>4. Finish(TRUE) /\ UNCHANGED <<gvars, files>>
  BY <1>1, <1>3 DEF WaitReady, CheckReady, AfterWait, NodeType, Return
<1>5. /\ cli'.pc = "idle" /\ cli'.cmd = "none" /\ cli'.cfg = cli.cfg /\ cmds' = cmds
      /\ last'.cmd = "rejoin-slave"
  BY <1>1, <1>4 DEF Finish, Idle
<1>6. Victim' = Image /\ ReaddCalls' /\ Home' = Home /\ SavedToken' = SavedToken
  BY <1>4, <1>5 DEF Victim, ReaddCalls, HomeInv, Home, SavedToken, files
<1>7. \A v \in Target(cli.cfg) : InCluster(v)'
  BY <1>3, <1>4, <1>6 DEF HomeInv, InCluster, Up, gvars, Place
<1>8. \A v \in Masters : v # Image /\ v \in clu[Home].members
  BY <1>3 DEF HomeInv
<1>9. HomeInv'
  BY <1>4, <1>5, <1>6, <1>7, <1>8, LayoutFacts DEF HomeInv, Inert, gvars, files
<1> QED BY <1>1, <1>2, <1>3, <1>9 DEF CheckReady

\* It does not wait in vain: whatever is unregistered can register.
LEMMA NotInVain ==
  ASSUME HomeBase
  PROVE  ~TimedOut /\ ~NoInternet
<1> USE HomeFacts, HomeAnswers DEF HomeBase, At
<1>1. (TimedOut \/ NoInternet) => /\ cli.cmd = "rejoin-slave" /\ cli.cur = Victim
                                  /\ Victim \in Masters /\ VictimInv
  BY DEF TimedOut, NoInternet, HomeInv, ReaddCalls, ControlInv, Commanded, Victim
<1>2. ~NoInternet
  BY <1>1 DEF NoInternet, VictimInv, Bare
<1>3. SUFFICES ASSUME TimedOut PROVE FALSE
  BY <1>2
<1>4. /\ At("wait") /\ ~SeesReady(Victim) /\ Rejoining(Victim) /\ Victim \in Masters
      /\ ~CanRegister(Victim) /\ ~CanHeartbeat(Victim) /\ ~CanJoin(Victim, Home)
  BY <1>1, <1>3 DEF TimedOut, HomeInv, ReaddCalls, VictimInv, Quiescent
<1>5. Victim \in clu[Home].members <=> node[Victim].cl # 0
  BY <1>4 DEF HomeInv, Lost
<1>6. Name(Victim) = Victim /\ node[Victim].role = "server"
  BY <1>4 DEF Rejoining, Name
<1>7. CASE node[Victim].unit = "starting" /\ node[Victim].cl = 0
  <2>1. Runs(Victim)
    BY <1>4, <1>7 DEF Rejoining, Runs
  <2> QED BY <1>4, <1>5, <1>6, <1>7, <2>1 DEF CanJoin, Rejoining
<1>8. CASE node[Victim].unit = "starting" /\ node[Victim].cl = Home /\ Unlisted(Victim)
  <2>1. Runs(Victim) /\ Serves(Victim, Home)
    BY <1>4, <1>5, <1>8 DEF Rejoining, Runs, Serves
  <2>2. ApiAt(Victim)
    BY <1>8, <2>1 DEF ApiAt
  <2>3. PasswordFits(Victim, Home)
    BY <1>6, <1>8 DEF PasswordFits, Unlisted
  <2> QED BY <1>4, <1>6, <1>8, <2>1, <2>2, <2>3 DEF CanRegister
<1>9. CASE InCluster(Victim)
  <2>1. Runs(Victim) /\ Victim \in clu[Home].reg
    BY <1>9 DEF InCluster, Runs
  <2>2. ApiAt(Victim)
    BY <1>4, <1>5, <1>9 DEF InCluster
  <2>3. Victim \notin clu[Home].ready
    <3>1. ApiAt(M1) /\ node[M1].cl = Home
      <4>1. CASE Victim = M1
        BY <1>9, <2>2, <4>1 DEF InCluster
      <4>2. CASE Victim # M1
        BY <4>2 DEF HomeInv, InCluster, Masters, M1
      <4> QED BY <4>1, <4>2
    <3> QED BY <1>4, <3>1 DEF SeesReady
  <2> QED BY <1>4, <1>6, <1>9, <2>1, <2>2, <2>3 DEF CanHeartbeat, InCluster
<1> QED BY <1>4, <1>7, <1>8, <1>9 DEF Rejoining

\* Every call of the procedure.
LEMMA StepHome ==
  ASSUME HomeBase, Step
  PROVE  HomeInv'
<1>1. cli.pc \in {"idle", "kill", "refuse", "unconfig", "delnode", "delsecret",
                  "check", "join", "wait"}
  BY DEF HomeBase, HomeInv, ReaddCalls, At
<1>2. ~TimedOut /\ ~NoInternet
  BY NotInVain
<1>3. CASE Kill \/ Unconfig \/ DelNode \/ DelSecret
  BY <1>3, KillHome, UnconfigHome, DelNodeHome, DelSecretHome
<1>4. CASE Refuse \/ NoAnswer
  BY <1>4, RefusedHome
<1>5. CASE CheckNotReady \/ K3sJoin \/ WaitReady \/ CheckReady
  BY <1>5, CheckHome, K3sJoinHome, WaitReadyHome
<1> QED BY <1>1, <1>2, <1>3, <1>4, <1>5, ZenonT(30)
     DEF Step, At, Pick, LoopEnds, Clone, Start, Prepare, ListSnapshots, Wipe, Reset, Manifest,
         Purge, Kubeconfig, ExportToken, WriteToken, Cordon, Destroy, Stamp, Info, SaveSnapshot

\* The guests go on meanwhile: the one that was put back joins ...
LEMMA JoinHome ==
  ASSUME HomeBase, SameCall, UNCHANGED <<last, cmds>>,
         NEW v \in Offset, NEW c \in Id, Join(v, c)
  PROVE  HomeInv'
<1> USE HomeFacts, HomeAnswers DEF HomeBase, SameCall
<1>1. CanJoin(v, c) /\ node[v].cl = 0 /\ node[v].unit = "starting"
  BY DEF Join, CanJoin
<1>2. v = Victim /\ v \in Target(cli.cfg)
  BY <1>1 DEF HomeInv, InCluster, Inert
<1>3. At("wait") /\ Rejoining(v) /\ Unlisted(v)
  BY <1>1, <1>2 DEF HomeInv, VictimInv, InCluster, Bare, Rejoining
<1>4. c = Home /\ v \in Masters
  <2>1. cli.cmd = "rejoin-slave"
    BY <1>3 DEF HomeInv, ReaddCalls, At
  <2> QED BY <1>1, <1>2, <1>3, <2>1 DEF CanJoin, Rejoining, HomeInv, ReaddCalls
<1>5. /\ node' = [node EXCEPT ![v].cl = Home]
      /\ clu' = [clu EXCEPT ![Home].members = @ \cup {v}]
  BY <1>3, <1>4 DEF Join, Rejoining
<1>6. /\ \A w \in Offset \ {v} : node'[w] = node[w]
      /\ node'[v] = [node[v] EXCEPT !.cl = Home]
      /\ clu'[Home] = [clu[Home] EXCEPT !.members = @ \cup {v}]
  BY <1>5 DEF HomeInv, TypeInv, TypeOK, GuestsTyped
<1>7. /\ node'[v].st = node[v].st /\ node'[v].prepared = node[v].prepared /\ node'[v].cl = Home
      /\ node'[v].unit = node[v].unit /\ node'[v].role = node[v].role
      /\ node'[v].tok = node[v].tok
      /\ clu'[Home].pw = clu[Home].pw /\ clu'[Home].vip = clu[Home].vip
      /\ clu'[Home].reg = clu[Home].reg /\ clu'[Home].secrets = clu[Home].secrets
      /\ clu'[Home].members = clu[Home].members \cup {v}
  BY <1>6 DEF NodeState, ClusterState
<1>8. /\ Victim' = Victim /\ ReaddCalls' /\ ~Lost'
      /\ Home' = Home /\ SavedToken' = SavedToken
  <2>1. Victim' = Victim /\ Home' = Home /\ SavedToken' = SavedToken
    BY DEF Victim, Home, SavedToken, files
  <2>2. ReaddCalls'
    BY <2>1 DEF ReaddCalls, HomeInv, At
  <2> QED BY <1>2, <1>3, <1>7, <2>1, <2>2 DEF Lost, At
<1>9. VictimInv'
  <2>1. Up(v)' /\ Unlisted(v)'
    BY <1>3, <1>7, <1>8 DEF Rejoining, Up, Unlisted
  <2>2. Rejoining(v)'
    BY <1>1, <1>3, <1>7, <1>8, <2>1 DEF Rejoining
  <2> QED BY <1>2, <1>3, <1>8, <2>2 DEF VictimInv, At
<1>10. /\ \A w \in Offset \ {Victim} : /\ w \in clu[Home].reg => w \in clu'[Home].reg
                                       /\ w \in clu[Home].members <=> w \in clu'[Home].members
       /\ clu'[Home].members \subseteq Masters /\ Victim \in clu'[Home].members
       /\ clu'[Home].reg \subseteq Target(cli.cfg) /\ clu'[Home].vip
       /\ \A w \in Offset \ {Victim} : node'[w] = node[w]
  BY <1>2, <1>4, <1>6, <1>7 DEF HomeInv
<1>11. tokenFile' = tokenFile /\ clu'[Home].pw = clu[Home].pw /\ cli'.cfg = cli.cfg
  BY <1>7 DEF files
<1> QED BY <1>2, <1>8, <1>9, <1>10, <1>11, HomeKept

\* ... and registers.
LEMMA RegisterHome ==
  ASSUME HomeBase, SameCall, UNCHANGED <<last, cmds>>, NEW v \in Offset, Register(v)
  PROVE  HomeInv'
<1>1. CanRegister(v) /\ node[v].cl # 0 /\ node[v].unit = "starting"
  BY DEF Register, CanRegister
<1> USE HomeFacts, HomeAnswers DEF HomeBase, SameCall
<1>2. v = Victim /\ v \in Target(cli.cfg)
  BY <1>1 DEF HomeInv, InCluster, Inert
<1>3. At("wait") /\ Rejoining(v) /\ node[v].cl = Home /\ Unlisted(v)
  BY <1>1, <1>2 DEF HomeInv, VictimInv, InCluster, Bare, Rejoining
<1>4. v \in Masters /\ Name(v) = v
  <2>1. cli.cmd = "rejoin-slave"
    BY <1>3 DEF HomeInv, ReaddCalls, At
  <2> QED BY <1>2, <1>3, <2>1 DEF Rejoining, HomeInv, ReaddCalls, Name
<1>5. /\ node' = [node EXCEPT ![v].unit = "active", ![v].known = @ \cup {Home}]
      /\ \E b : clu' = [clu EXCEPT ![Home].reg = @ \cup {v}, ![Home].secrets = @ \cup {v},
                                   ![Home].vip = @ \/ b]
  BY <1>3, <1>4 DEF Register
<1>6. /\ \A w \in Offset \ {v} : node'[w] = node[w]
      /\ node'[v] = [node[v] EXCEPT !.unit = "active", !.known = @ \cup {Home}]
      /\ \E b : clu'[Home] = [clu[Home] EXCEPT !.reg = @ \cup {v}, !.secrets = @ \cup {v},
                                               !.vip = @ \/ b]
  BY <1>5 DEF HomeInv, TypeInv, TypeOK, GuestsTyped
<1>7. /\ node'[v].st = node[v].st /\ node'[v].prepared = node[v].prepared /\ node'[v].cl = Home
      /\ node'[v].unit = "active" /\ node'[v].role = node[v].role
      /\ node'[v].tok = node[v].tok /\ Home \in node'[v].known
  BY <1>3, <1>6 DEF NodeState
<1>8. /\ clu'[Home].pw = clu[Home].pw /\ clu'[Home].vip
      /\ clu'[Home].reg = clu[Home].reg \cup {v} /\ clu'[Home].members = clu[Home].members
  BY <1>6 DEF ClusterState, HomeInv
<1>9. /\ Victim' = Victim /\ ReaddCalls' /\ ~Lost' /\ ~Lost
      /\ Home' = Home /\ SavedToken' = SavedToken
  <2>1. Victim' = Victim /\ Home' = Home /\ SavedToken' = SavedToken
    BY DEF Victim, Home, SavedToken, files
  <2>2. ReaddCalls'
    BY <2>1 DEF ReaddCalls, HomeInv, At
  <2> QED BY <1>2, <1>3, <1>7, <2>1, <2>2 DEF Lost, At
<1>10. VictimInv'
  <2>1. Up(v)' /\ v \in clu'[Home].reg
    BY <1>3, <1>7, <1>8 DEF Rejoining, Up
  <2>2. InCluster(v)'
    BY <1>3, <1>4, <1>7, <1>9, <2>1 DEF InCluster, Rejoining
  <2>3. Rejoining(v)'
    BY <1>3, <1>7, <1>9, <2>1, <2>2 DEF Rejoining
  <2> QED BY <1>2, <1>3, <1>9, <2>3 DEF VictimInv, At
<1>11. /\ \A w \in Offset \ {Victim} : /\ w \in clu[Home].reg => w \in clu'[Home].reg
                                       /\ w \in clu[Home].members <=> w \in clu'[Home].members
       /\ clu'[Home].members \subseteq Masters /\ Victim \in clu'[Home].members
       /\ clu'[Home].reg \subseteq Target(cli.cfg)
       /\ \A w \in Offset \ {Victim} : node'[w] = node[w]
  BY <1>2, <1>4, <1>6, <1>8, <1>9 DEF HomeInv
<1>12. tokenFile' = tokenFile /\ cli'.cfg = cli.cfg
  BY DEF files
<1> QED BY <1>2, <1>8, <1>9, <1>10, <1>11, <1>12, HomeKept

\* Who is Ready matters to no part of the invariant, and nobody starts a cluster.
LEMMA GuestsHome ==
  ASSUME HomeBase, Undisturbed, GuestStep \/ GuestFault
  PROVE  HomeInv'
<1> USE HomeFacts DEF HomeBase
<1>1. SameCall /\ UNCHANGED <<last, cmds>>
  BY GuestSteps DEF SameCall
<1>2. ASSUME NEW v \in Offset, Bootstrap(v) PROVE FALSE
  <2>1. node[v].unit = "starting" /\ node[v].role = "init"
    BY <1>2 DEF Bootstrap, CanBootstrap
  <2>2. v = Victim /\ v \in Target(cli.cfg)
    BY <2>1 DEF HomeInv, InCluster, Inert
  <2> QED BY <2>1, <2>2 DEF HomeInv, VictimInv, InCluster, Bare, Rejoining
<1>3. ASSUME UNCHANGED <<node, ids>>,
             NEW c \in Id, NEW ready, clu' = [clu EXCEPT ![c].ready = ready]
      PROVE  HomeInv'
  <2>1. /\ clu'[Home].pw = clu[Home].pw /\ clu'[Home].vip = clu[Home].vip
        /\ clu'[Home].reg = clu[Home].reg /\ clu'[Home].members = clu[Home].members
        /\ clu'[Home].secrets = clu[Home].secrets
    BY <1>3 DEF TypeInv, TypeOK, GuestsTyped, ClusterState, HomeInv
  <2>2. Victim' = Victim /\ Home' = Home /\ SavedToken' = SavedToken /\ cli'.cfg = cli.cfg
        /\ tokenFile' = tokenFile
    BY <1>1 DEF Victim, Home, SavedToken, files, SameCall
  <2>3. ReaddCalls' /\ (Lost' <=> Lost)
    BY <1>1, <1>3, <2>2 DEF ReaddCalls, HomeInv, At, SameCall, Lost
  <2>4. \A v \in Offset : /\ InCluster(v)' <=> InCluster(v)
                          /\ Bare(v)' <=> Bare(v)
                          /\ Unlisted(v)' <=> Unlisted(v)
    BY <1>3, <2>1, <2>2 DEF InCluster, Bare, Unlisted, Up, Place
  <2>5. Rejoining(Victim)' <=> Rejoining(Victim)
    BY <1>3, <2>2, <2>4 DEF Rejoining, Up, HomeInv
  <2>6. VictimInv' <=> VictimInv
    BY <1>1, <1>3, <2>1, <2>2, <2>4, <2>5 DEF VictimInv, At, SameCall, Up, HomeInv
  <2> QED BY <1>3, <2>1, <2>2, <2>3, <2>4, <2>6 DEF HomeInv, Inert
<1> QED BY <1>1, <1>2, <1>3, GuestSteps, JoinHome, RegisterHome

\* The next command takes a master out, or puts back the one that was taken out.
LEMMA BeginHome ==
  ASSUME HomeBase, NEW c \in Commands, NEW a, NEW k \in Inis, Begin(c, a, k), Readds, k = cli.cfg
  PROVE  HomeInv'
<1> USE HomeFacts DEF HomeBase, At
<1>1. /\ cli.cmd = "none" /\ cli.pc = "idle" /\ a \in Takes(c)
      /\ cli'.cmd = c /\ cli'.arg = a /\ cli'.cfg = cli.cfg /\ cmds' = cmds + 1 /\ cmds' > 0
      /\ cli'.pc = Entry(c, a)[2] /\ UNCHANGED <<clu, ids, files, last>> /\ node' = PoweredOn
  BY DEF Begin, HomeInv, ReaddCalls, TypeInv, TypeOK, CliTyped
<1>2. Home' = Home /\ SavedToken' = SavedToken /\ Victim' = a
  BY <1>1, CommandsAssumption DEF Home, SavedToken, Victim, files
<1>3. \A v \in Target(cli.cfg) : v \in Vms /\ Up(v)
  BY DEF HomeInv, VictimInv, InCluster, Bare, Rejoining, Up, Vms
<1>4. \A v \in Target(cli.cfg) : node'[v] = node[v]
  BY <1>1, <1>3 DEF PoweredOn, Up
<1>5. \A v \in Offset \ Target(cli.cfg) : Inert(v)'
  <2> SUFFICES ASSUME NEW v \in Offset \ Target(cli.cfg) PROVE Inert(v)'
    OBVIOUS
  <2>1. Inert(v) /\ node[v] \in NodeState
    BY DEF HomeInv
  <2>2. node'[v] \in {node[v], Booted(node[v])}
    BY <1>1 DEF PoweredOn
  <2> QED BY <2>1, <2>2 DEF Booted, Inert, NodeState
<1>6. cmds # 0
  BY DEF HomeInv, ReaddCalls
<1>7. \A v \in Target(cli.cfg) : InCluster(v) => InCluster(v)'
  BY <1>1, <1>2, <1>4 DEF InCluster, Up, Place
<1>8. CASE last.cmd = "k3s-uninstall"
  <2>1. c = "rejoin-slave" /\ a = Victim /\ a \in Masters
    BY <1>1, <1>6, <1>8 DEF Readds, Takes, Victim
  <2>2. cli'.pc = "check"
    BY <1>1, <1>3, <2>1 DEF Entry
  <2>3. Bare(a) /\ Unlisted(a) /\ Lost /\ Lost'
    BY <1>1, <2>1, <2>2 DEF HomeInv, VictimInv, Lost
  <2>4. Bare(a)' /\ Unlisted(a)'
    BY <1>1, <1>2, <1>4, <2>1, <2>3 DEF Bare, Unlisted, Up
  <2>5. VictimInv' /\ ReaddCalls'
    BY <1>1, <1>2, <2>1, <2>2, <2>4 DEF VictimInv, ReaddCalls, HomeInv
  <2> QED BY <1>1, <1>2, <1>5, <1>7, <2>1, <2>3, <2>5 DEF HomeInv, files
<1>9. CASE last.cmd # "k3s-uninstall"
  <2>1. c = "k3s-uninstall" /\ a \in Offset /\ Victim = Image
    BY <1>1, <1>6, <1>9, ArgsAssumption DEF Readds, Takes, Victim
  <2>2. cli'.pc = IF a \in Vms THEN "kill" ELSE "refuse"
    BY <1>1, <2>1 DEF Entry
  <2>3. (\A v \in Target(cli.cfg) : InCluster(v)) /\ Masters \subseteq clu[Home].members
    BY <2>1 DEF HomeInv
  <2>4. ReaddCalls' /\ ~Lost'
    BY <1>1, <2>1, <2>2 DEF ReaddCalls, HomeInv, Lost
  <2>5. a \in Target(cli.cfg) => VictimInv'
    BY <1>1, <1>2, <1>3, <1>7, <2>2, <2>3 DEF VictimInv
  <2> QED BY <1>1, <1>2, <1>5, <1>7, <2>1, <2>3, <2>4, <2>5 DEF HomeInv, files
<1> QED BY <1>8, <1>9

\* Before that the cluster is created: m1 registers once and is never restarted.
MasterOnce == Cl # 0 /\ M1 \in clu[Cl].reg => node[M1].unit = "active"
Creating   == /\ QuietInv /\ MasterOnce
              /\ cli.cmd = IF cmds = 0 THEN "none" ELSE "create"
              /\ cli.cmd = "none" <=> At("idle")
              /\ cmds = 0 => last.cmd = "none"

\* No call of the creation stops it, ...
LEMMA StepOnce ==
  ASSUME QuietBase, MasterOnce, Step, cli.cmd = "create"
  PROVE  MasterOnce'
<1> USE Here DEF QuietBase, QuietInv, At
<1>1. ASSUME Cl' = Cl, Cl # 0 => clu'[Cl].reg \subseteq clu[Cl].reg,
             node[M1].unit = "active" => node'[M1].unit = "active"
      PROVE  MasterOnce'
  BY <1>1 DEF MasterOnce
<1>2. ASSUME UNCHANGED gvars PROVE MasterOnce'
  BY <1>1, <1>2 DEF Cl, gvars
<1>3. CASE Calm \/ CheckNotReady \/ TimedOut \/ NoInternet
  BY <1>2, <1>3, CalmBefore DEF CheckNotReady, TimedOut, NoInternet, gvars
<1>4. CASE Clone \/ Destroy
  <2>1. clu' = clu
    BY <1>4 DEF Clone, Destroy
  <2>2. CASE cli.cur = M1
    BY <1>4, <2>2, CallNodes DEF CallEffect, MasterOnce, Cl
  <2>3. CASE cli.cur # M1
    BY <1>1, <2>1, <2>3, CallNodes DEF CallEffect, Cl
  <2> QED BY <2>2, <2>3
<1>5. CASE Start
  <2>1. /\ At("start") /\ node' = [node EXCEPT ![cli.cur] = Booted(@)] /\ clu' = clu
    BY <1>5 DEF Start
  <2>2. cli.cur = M1 => Cl = 0 /\ cli.cur \in Vms
    <3>1. cli.cur = M1 => cli.phase \in {"create", "restore"} /\ cli.cur \in Vms
      BY <2>1, Builds DEF ControlInv, CallOf, Utility, M1, PlanInv, CallFits
    <3> QED BY <2>1, <3>1 DEF MasterInv, MasterBack
  <2>3. CASE cli.cur = M1
    <3>1. node'[M1].cl = node[M1].cl
      BY <2>1, <2>3 DEF Booted, NodeState, TypeInv, TypeOK, GuestsTyped
    <3> QED BY <2>2, <2>3, <3>1 DEF MasterOnce, Cl
  <2>4. CASE cli.cur # M1
    <3>1. node'[M1] = node[M1]
      BY <2>1, <2>4
    <3> QED BY <1>1, <2>1, <3>1 DEF Cl
  <2> QED BY <2>3, <2>4
<1>6. CASE Prepare \/ K3sJoin
  <2>1. clu' = clu
    BY <1>6 DEF Prepare, K3sJoin
  <2>2. \/ node' = [node EXCEPT ![cli.cur] = Prepared(@)]
        \/ node' = [node EXCEPT ![cli.cur] =
                      Started(Configured(@, Role, JoinToken, cli.cfg.opts))]
    BY <1>6 DEF Prepare, K3sJoin
  <2>m. node[M1] \in NodeState
    OBVIOUS
  <2>n. \/ node'[M1] = node[M1]
        \/ node'[M1] = Prepared(node[M1])
        \/ node'[M1] = Started(Configured(node[M1], Role, JoinToken, cli.cfg.opts))
    BY <2>2 DEF TypeInv, TypeOK, GuestsTyped
  <2>3. /\ node'[M1].cl = node[M1].cl
        /\ node[M1].unit = "active" => node'[M1].unit = "active"
    <3>1. CASE node'[M1] = Prepared(node[M1])
      BY <2>m, <3>1 DEF Prepared, NodeState
    <3>2. CASE node'[M1] = Started(Configured(node[M1], Role, JoinToken, cli.cfg.opts))
      BY <2>m, <3>2 DEF Started, Configured, NodeState
    <3> QED BY <2>n, <3>1, <3>2
  <2> QED BY <1>1, <2>1, <2>3 DEF Cl
<1>7. CASE Cordon \/ DelNode \/ DelSecret
  <2>1. node' = node /\ Routes = {M1}
    BY <1>7 DEF Cordon, DelNode, DelSecret, Routes
  <2>2. \/ Kubectl(M1, Cordoned(Api(M1), cli.cur))
        \/ Kubectl(M1, NodeDeleted(Api(M1), cli.cur))
        \/ Kubectl(M1, SecretDeleted(Api(M1), cli.cur))
    BY <1>7, <2>1 DEF Cordon, DelNode, DelSecret
  <2>3. Cl # 0 => \/ clu'[Cl] = clu[Cl]
                  \/ clu'[Cl] = Cordoned(clu[Cl], cli.cur)
                  \/ clu'[Cl] = NodeDeleted(clu[Cl], cli.cur)
                  \/ clu'[Cl] = SecretDeleted(clu[Cl], cli.cur)
    BY <2>2 DEF Kubectl, Api, Cl, TypeInv, TypeOK, GuestsTyped
  <2>4. ASSUME NEW k \in ClusterState
        PROVE  /\ Cordoned(k, cli.cur).reg \subseteq k.reg
               /\ NodeDeleted(k, cli.cur).reg \subseteq k.reg
               /\ SecretDeleted(k, cli.cur).reg \subseteq k.reg
    BY DEF Cordoned, NodeDeleted, SecretDeleted, ClusterState
  <2>5. Cl # 0 => clu'[Cl].reg \subseteq clu[Cl].reg
    BY <2>3, <2>4
  <2> QED BY <1>1, <2>1, <2>5 DEF Cl
<1>8. ~Wipe /\ ~Reset /\ ~Manifest /\ ~Kill /\ ~Unconfig
  BY DEF Wipe, Reset, Manifest, Kill, Unconfig, ControlInv, CallOf, Commanded, PlanInv, CallFits
<1> QED BY <1>3, <1>4, <1>5, <1>6, <1>7, <1>8 DEF Step, Calm

\* ... and the guests do not either.
LEMMA GuestsOnce ==
  ASSUME QuietBase, Undisturbed, MasterOnce, GuestStep \/ GuestFault
  PROVE  MasterOnce'
<1> USE Here DEF QuietBase, QuietInv, At
<1>1. ASSUME Cl' = Cl, Cl # 0 /\ M1 \in clu'[Cl].reg => M1 \in clu[Cl].reg,
             node[M1].unit = "active" => node'[M1].unit = "active"
      PROVE  MasterOnce'
  BY <1>1 DEF MasterOnce
<1>2. ASSUME UNCHANGED <<node, ids>>,
             NEW c \in Id, NEW ready, clu' = [clu EXCEPT ![c].ready = ready]
      PROVE  MasterOnce'
  <2>1. Cl # 0 => clu'[Cl].reg = clu[Cl].reg
    BY <1>2 DEF TypeInv, TypeOK, GuestsTyped, ClusterState
  <2> QED BY <1>1, <1>2, <2>1 DEF Cl
<1>3. ASSUME NEW v \in Offset, Bootstrap(v) PROVE MasterOnce'
  <2>1. v = M1
    <3>1. Runs(v) /\ node[v].unit = "starting" /\ node[v].role = "init"
      BY <1>3 DEF Bootstrap, CanBootstrap
    <3> QED BY <3>1, StartingWho DEF Joining, RightRole
  <2>2. ids + 1 \in Id
    BY <1>3, MaxIdAssumption DEF Bootstrap, CanBootstrap, TypeInv, TypeOK, GuestsTyped, Id
  <2>3. node'[M1].cl = ids + 1 /\ clu'[ids + 1].reg = {}
    BY <1>3, <2>1, <2>2 DEF Bootstrap, NewCluster, TypeInv, TypeOK, GuestsTyped, NodeState
  <2> QED BY <2>3 DEF MasterOnce, Cl
<1>4. ASSUME NEW v \in Offset, NEW c \in Id, Join(v, c) PROVE MasterOnce'
  <2>1. v # M1
    <3>1. Runs(v) /\ node[v].unit = "starting" /\ node[v].role # "init" /\ node[v].cl = 0
      BY <1>4 DEF Join, CanJoin
    <3> QED BY <3>1, StartingWho DEF Booting, MasterBack, Cl, Others
  <2>2. node'[M1] = node[M1]
    BY <1>4, <2>1 DEF Join
  <2>3. Cl # 0 => clu'[Cl].reg = clu[Cl].reg
    BY <1>4 DEF Join, TypeInv, TypeOK, GuestsTyped, ClusterState
  <2> QED BY <1>1, <2>2, <2>3 DEF Cl
<1>5. ASSUME NEW v \in Offset, Register(v) PROVE MasterOnce'
  <2>1. Runs(v) /\ node[v].unit = "starting"
    BY <1>5 DEF Register, CanRegister
  <2>2. CASE v = M1
    <3>1. node'[M1].unit = "active"
      BY <1>5, <2>2 DEF Register, TypeInv, TypeOK, GuestsTyped, NodeState
    <3> QED BY <3>1 DEF MasterOnce
  <2>3. CASE v # M1
    <3>1. Name(v) = v
      BY <2>1, <2>3, StartingWho DEF Joining, Name
    <3>2. node'[M1] = node[M1]
      BY <1>5, <2>3 DEF Register, TypeInv, TypeOK, GuestsTyped
    <3>3. node[v].cl \in Id
      BY <1>5, MaxIdAssumption DEF Register, CanRegister, NodeState, Id
    <3>4. Cl # 0 => clu'[Cl].reg \subseteq clu[Cl].reg \cup {v}
      BY <1>5, <3>1, <3>3 DEF Register, TypeInv, TypeOK, GuestsTyped, ClusterState
    <3> QED BY <1>1, <2>3, <3>2, <3>4 DEF Cl
  <2> QED BY <2>2, <2>3
<1> QED BY <1>2, <1>3, <1>4, <1>5, GuestSteps

\* When it is over three masters serve the cluster the saved token is of.
LEMMA CreatedHome ==
  ASSUME QuietBase, Undisturbed, MasterOnce, Step, [Next]_vars,
         cli.cmd = "create", Ended, cli.cfg.masters = 3, cmds > 0
  PROVE  HomeInv'
<1> USE Here DEF QuietBase, QuietInv, At
<1>1. last'.ok
  BY FailsWhy DEF ExpectedRefusal
<1>2. Info /\ cli.phase = "update"
  BY <1>1, BuildEnds DEF BaseInv, Inv
<1>3. Reconciled /\ Exported
  BY <1>2, EndsBuilt
<1>4. /\ At("info") /\ M1 \in Vms /\ Finish(TRUE) /\ UNCHANGED <<gvars, files>>
  BY <1>2 DEF Info, Up, Vms
<1>5. /\ cli'.pc = "idle" /\ cli'.cmd = "none" /\ cli'.cfg = cli.cfg /\ cmds' = cmds
      /\ last'.cmd = "create"
  BY <1>4 DEF Finish, Idle
<1>6. Cl # 0 /\ MasterBack /\ clu[Cl].reg = Target(cli.cfg) /\ Vms \ Protected = Target(cli.cfg)
  BY <1>3, <1>4 DEF MasterInv, Reconciled, Registered, Cl
<1>7. /\ tokenFile # <<>> /\ Home = Cl /\ SavedToken = LiveToken /\ SavedToken.pw = clu[Cl].pw
  BY <1>3 DEF Exported, Home, SavedToken, LiveToken, Cl
<1>8. /\ Victim' = Image /\ ReaddCalls' /\ Home' = Home /\ SavedToken' = SavedToken
  BY <1>4, <1>5 DEF Victim, ReaddCalls, Home, SavedToken, files
<1>9. InCluster(M1) /\ clu[Cl].vip
  <2>1. M1 \in clu[Cl].reg
    BY <1>6 DEF Target
  <2>2. node[M1].unit = "active"
    BY <1>6, <2>1 DEF MasterOnce
  <2> QED BY <1>6, <1>7, <2>1, <2>2 DEF MasterBack, InCluster, Place, Cl, M1, Utility
<1>10. ASSUME NEW v \in Target(cli.cfg), v # M1 PROVE InCluster(v)
  <2>1. v \in Others /\ v \in Offset
    BY <1>6, <1>10 DEF Others, Vms
  <2>2. Settled(v) /\ ~Leaving(v)
    BY <1>4, <2>1 DEF OthersInv, Fresh, Joining, Leaving
  <2>3. node[v].role \in Place(v)
    <3>1. v \in {2, 3} => ~(v > Utility)
      BY DEF Utility
    <3>2. v \notin {2, 3} => v > Utility
      BY <2>1, LayoutAssumption DEF Others, Offset, Protected, Image, Utility, M1
    <3> QED BY <2>2, <3>1, <3>2 DEF Settled, RightRole, Place
  <2> QED BY <1>7, <2>2, <2>3 DEF Settled, InCluster
<1>11. \A v \in Masters : v \in Target(cli.cfg) /\ v # Image
  BY DEF Target, Slaves, Masters, M1, Image
<1>12. clu[Cl].members = Masters
  <2>1. \A v \in Offset : v \in clu[Cl].members <=> v \in Masters /\ node[v].cl = Cl
    BY <1>4, <1>6 DEF ClusterInv, Leaving
  <2>2. \A v \in Masters : node[v].cl = Cl /\ v \in Offset
    BY <1>7, <1>9, <1>10, <1>11, LayoutFacts DEF InCluster
  <2> QED BY <1>6, <2>1, <2>2
<1>13. \A v \in Offset \ Target(cli.cfg) : Inert(v)
  BY <1>6 DEF OthersInv
<1>14. Image \in Offset /\ Image \notin Target(cli.cfg)
  BY <1>6, LayoutFacts DEF Protected
<1>15. \A v \in Target(cli.cfg) : InCluster(v)'
  BY <1>4, <1>8, <1>9, <1>10 DEF InCluster, Up, gvars, Place
<1> QED BY <1>4, <1>5, <1>6, <1>7, <1>8, <1>9, <1>11, <1>12, <1>13, <1>14, <1>15
        DEF HomeInv, Inert, gvars, files

\* Three masters are created once, and from then on taken out and put back.
ReaddInv == cli.cfg.masters = 3 =>
              IF cmds = 0 \/ cli.cmd = "create" THEN Creating ELSE HomeInv

\* Between commands nothing is called.
LEMMA StepBusy == Step => ~At("idle")
  BY ZenonT(30)
  DEF At, Step, Refuse, Pick, LoopEnds, Clone, Start, Prepare, CheckReady, CheckNotReady,
     K3sJoin, WaitReady, TimedOut, ListSnapshots, Wipe, Reset, Manifest, Purge, Kubeconfig,
     ExportToken, WriteToken, Cordon, DelNode, DelSecret, Destroy, Stamp, Info, Kill, Unconfig,
     SaveSnapshot, NoAnswer, NoInternet, Needs

\* The commands come in the order of the README, one after the other.
LEMMA ReaddsNext ==
  ASSUME TypeInv, Invoke, [Next /\ AsDocumented]_vars, cli.cfg.masters = 3,
         At("idle") => cli.cmd = "none"
  PROVE  \E c \in Commands, a \in 0..(LastOffset + MaxSnaps) :
           /\ Begin(c, a, cli.cfg) /\ Readds /\ cli'.cfg = cli.cfg /\ cli.cfg \in Inis
           /\ cli'.cmd = c /\ cli.cmd = "none" /\ cmds' = cmds + 1 /\ cmds \in Nat
<1>1. PICK c \in Commands, a \in 0..(LastOffset + MaxSnaps), k \in Inis : Begin(c, a, k)
  BY DEF Invoke
<1>2. /\ cli.pc = "idle" /\ cli'.pc = Entry(c, a)[2] /\ cmds' = cmds + 1 /\ cmds \in Nat
      /\ cli'.cfg = k /\ cli'.cmd = c /\ cli.cmd = "none" /\ cli.cfg \in Inis
  BY <1>1 DEF Begin, At, TypeInv, InHand, TypeOK, CliTyped, CliState
<1>3. cli'.pc # "idle"
  BY <1>2, CommandsAssumption DEF Entry
<1>4. AsDocumented
  BY <1>2 DEF vars
<1>5. Readds /\ cli'.cfg = cli.cfg
  BY <1>2, <1>3, <1>4 DEF AsDocumented
<1> QED BY <1>1, <1>2, <1>5

\* So it goes on.
LEMMA ReaddNext ==
  ASSUME Undisturbed
  PROVE  BaseInv /\ StampInv /\ BaseInv' /\ ReaddInv /\ [Next /\ AsDocumented]_vars => ReaddInv'
<1> SUFFICES ASSUME BaseInv, BaseInv', StampInv, ReaddInv, [Next /\ AsDocumented]_vars
             PROVE  ReaddInv'
  OBVIOUS
<1> SUFFICES ASSUME cli'.cfg.masters = 3 PROVE ReaddInv'
  BY DEF ReaddInv
<1>1. cli'.cfg = cli.cfg /\ cli.cfg.masters = 3
  BY DEF AsDocumented, vars
<1>2. [Next]_vars /\ ~Interrupt /\ ~TooSlow
  BY DEF Undisturbed, Interrupt, TooSlow, Fault
<1>3. ~Invoke => /\ cmds' = cmds
                 /\ (cli'.cmd = cli.cmd /\ cli'.arg = cli.arg) \/ cli'.cmd = "none"
  <2>1. Step => cmds' = cmds
    BY CallCounts DEF BaseInv, Inv
  <2>2. GuestStep \/ GuestFault \/ UNCHANGED vars => cmds' = cmds
    BY DEF GuestStep, GuestFault, Fault, vars, ghost
  <2> QED BY <1>2, <2>1, <2>2, SameCommand DEF Next
<1>4. CASE cmds = 0 \/ cli.cmd = "create"
  <2>1. QuietBase /\ Creating
    BY <1>1, <1>4 DEF ReaddInv, QuietBase, BaseInv, Inv, Creating
  <2>2. CASE Invoke
    <3>1. PICK c \in Commands, a \in 0..(LastOffset + MaxSnaps) :
            /\ Begin(c, a, cli.cfg) /\ Readds /\ cli'.cfg = cli.cfg /\ cli.cfg \in Inis
            /\ cli'.cmd = c /\ cli.cmd = "none" /\ cmds' = cmds + 1 /\ cmds \in Nat
      BY <1>1, <2>1, <2>2, ReaddsNext DEF QuietBase, Creating
    <3>2. cli'.cmd = "create" /\ cmds' # 0
      BY <1>4, <2>1, <3>1 DEF Readds, Creating
    <3>0. cli'.pc # "idle"
      BY <3>1, CommandsAssumption DEF Begin, Entry
    <3>3. MasterOnce'
      BY <2>1, <3>1, BeginFinds, Here DEF MasterOnce, Creating, M1, Utility, Cl, QuietBase
    <3>4. QuietInv'
      BY <2>1, <3>1, <3>2, BeginQuiet DEF Orderly
    <3> QED BY <3>0, <3>2, <3>3, <3>4 DEF ReaddInv, Creating, At
  <2>3. CASE ~Invoke /\ cli'.cmd = cli.cmd
    <3>1. QuietInv'
      <4>1. Orderly' /\ [Next /\ Orderly']_vars
        BY <1>2, <2>1, <2>3 DEF Creating, Orderly
      <4> QED BY <2>1, <4>1, NextQuiet DEF Creating
    <3>2. MasterOnce'
      <4>1. CASE Step
        <5>1. cli.cmd = "create"
          BY <2>1, <4>1, StepBusy DEF Creating
        <5> QED BY <2>1, <4>1, <5>1, StepOnce DEF Creating
      <4>2. CASE GuestStep \/ GuestFault
        BY <2>1, <4>2, GuestsOnce DEF Creating
      <4>3. CASE UNCHANGED vars
        BY <2>1, <4>3 DEF Creating, MasterOnce, Cl, vars
      <4> QED BY <1>2, <2>3, <4>1, <4>2, <4>3 DEF Next
    <3>3. (cli.cmd = "none" <=> At("idle"))'
      <4>1. CASE Step
        <5>1. cli.cmd = "create" /\ cli.phase # "none"
          BY <2>1, <4>1, StepBusy DEF Creating, QuietBase, TypeInv, InHand
        <5>2. ~\E ok \in BOOLEAN : Finish(ok)
          BY <2>3, <5>1, EndsIdle
        <5>3. cli'.phase # "none"
          BY <2>1, <4>1, <5>1, <5>2, Onwards DEF QuietBase, UpdateLoops
        <5> QED BY <2>3, <5>1, <5>3 DEF BaseInv, Inv, TypeInv, InHand
      <4>2. CASE GuestStep \/ GuestFault
        BY <2>1, <2>3, <4>2, GuestSteps DEF Creating, SameCall, At, QuietBase
      <4>3. CASE UNCHANGED vars
        BY <2>1, <4>3 DEF Creating, vars, At
      <4> QED BY <1>2, <2>3, <4>1, <4>2, <4>3 DEF Next
    <3>4. cmds = 0 => last' = last
      <4>1. cmds = 0 => ~Step
        BY <2>1, StepBusy DEF Creating
      <4>2. GuestStep \/ GuestFault => last' = last
        BY <2>1, GuestSteps DEF QuietBase
      <4> QED BY <1>2, <2>3, <4>1, <4>2 DEF Next, vars
    <3> QED BY <1>3, <1>4, <2>1, <2>3, <3>1, <3>2, <3>3, <3>4 DEF ReaddInv, Creating
  <2>4. CASE ~Invoke /\ cli'.cmd # cli.cmd
    <3>1. cli'.cmd = "none" /\ cli.cmd = "create" /\ cmds # 0
      BY <1>3, <2>1, <2>4 DEF Creating
    <3>2. Step
      <4>1. ~GuestStep /\ ~GuestFault /\ ~UNCHANGED vars
        BY <2>1, <2>4 DEF GuestStep, GuestFault, vars, QuietBase, TypeInv, TypeOK, CliTyped, CliState
      <4> QED BY <1>2, <2>4, <4>1 DEF Next
    <3>3. cmds > 0
      BY <2>1, <3>1 DEF QuietBase, TypeInv, TypeOK, CliTyped
    <3>4. HomeInv'
      BY <1>1, <1>2, <2>1, <3>1, <3>2, <3>3, CreatedHome DEF Ended, Creating
    <3> QED BY <1>3, <2>4, <3>1, <3>4 DEF ReaddInv
  <2> QED BY <2>2, <2>3, <2>4
<1>5. CASE ~(cmds = 0 \/ cli.cmd = "create")
  <2>1. HomeBase
    BY <1>1, <1>5 DEF ReaddInv, HomeBase, BaseInv, Inv
  <2>2. HomeInv'
    <3>1. CASE Step
      BY <2>1, <3>1, StepHome
    <3>2. CASE GuestStep \/ GuestFault
      BY <2>1, <3>2, GuestsHome
    <3>3. CASE Invoke
      <4>1. PICK c \in Commands, a \in 0..(LastOffset + MaxSnaps) :
              Begin(c, a, cli.cfg) /\ Readds /\ cli.cfg \in Inis
        BY <1>1, <2>1, <3>3, ReaddsNext DEF HomeBase, HomeInv, ReaddCalls, At
      <4> QED BY <2>1, <4>1, BeginHome
    <3>4. CASE UNCHANGED vars
      <4>1. /\ UNCHANGED <<cli, last, cmds, node, clu, tokenFile>>
            /\ Home' = Home /\ SavedToken' = SavedToken /\ Victim' = Victim
        BY <3>4 DEF vars, Home, SavedToken, Victim
      <4>2. \A v : /\ InCluster(v)' <=> InCluster(v)
                   /\ Bare(v)' <=> Bare(v)
                   /\ Unlisted(v)' <=> Unlisted(v)
                   /\ Inert(v)' <=> Inert(v)
        BY <4>1 DEF InCluster, Bare, Unlisted, Inert, Up, Place
      <4>3. Rejoining(Victim)' <=> Rejoining(Victim)
        BY <4>1, <4>2 DEF Rejoining, Up
      <4>4. VictimInv' <=> VictimInv
        BY <4>1, <4>2, <4>3 DEF VictimInv, At, Up
      <4>5. (Lost' <=> Lost) /\ (ReaddCalls' <=> ReaddCalls)
        BY <4>1 DEF Lost, ReaddCalls, At
      <4> QED BY <2>1, <4>1, <4>2, <4>4, <4>5 DEF HomeBase, HomeInv
    <3> QED BY <1>2, <3>1, <3>2, <3>3, <3>4 DEF Next
  <2>3. cmds' # 0 /\ cli'.cmd # "create"
    BY <2>2 DEF HomeInv, ReaddCalls
  <2> QED BY <2>2, <2>3 DEF ReaddInv
<1> QED BY <1>4, <1>5

\* It holds throughout.
LEMMA Readd == ASSUME Undisturbed PROVE DocumentedSpec => Spec /\ [](BaseInv /\ StampInv /\ ReaddInv)
<1>1. Init => StampInv
  BY DEF Init, Idle, StampInv, NodesListed, NothingElse, UpdateLoops, At
<1>2. Init => ReaddInv
  <2> SUFFICES ASSUME Init PROVE ReaddInv
    OBVIOUS
  <2>1. MasterOnce /\ cmds = 0 /\ cli.cmd = "none" /\ At("idle") /\ last.cmd = "none"
    BY LayoutFacts DEF At, Init, GuestsInit, Idle, MasterOnce, Cl, Absent, M1, Image
  <2> QED BY <2>1, InitQuiet DEF ReaddInv, Creating
<1>3. BaseInv /\ StampInv /\ [Next]_vars => StampInv'
  BY NextStamp DEF BaseInv
<1>4. BaseInv /\ StampInv /\ BaseInv' /\ ReaddInv /\ [Next /\ AsDocumented]_vars => ReaddInv'
  BY ReaddNext
<1>5. DocumentedSpec => Spec
  <2>1. [Next /\ AsDocumented]_vars => [Next]_vars
    OBVIOUS
  <2> QED BY <2>1, PTL DEF DocumentedSpec, Spec
<1> QED BY <1>1, <1>2, <1>3, <1>4, <1>5, Base, PTL DEF DocumentedSpec, Spec

\* README.md:191: a master of three that was taken out and put back serves the
\* cluster the other masters serve, m1 too.
THEOREM Rejoins == ASSUME Undisturbed PROVE DocumentedSpec => Rejoined
<1> DEFINE Back == EndsOk("rejoin-slave") =>
             /\ ApiAt(cli.arg) /\ cli.arg \in clu[node[cli.arg].cl].reg
             /\ \A m \in Masters : ApiAt(m) => node[m].cl = node[cli.arg].cl
<1>1. BaseInv /\ StampInv /\ ReaddInv /\ DocumentedInv /\ [Next /\ AsDocumented]_vars => [Back]_vars
  <2> SUFFICES ASSUME BaseInv, StampInv, ReaddInv, DocumentedInv, [Next /\ AsDocumented]_vars,
                      EndsOk("rejoin-slave")
               PROVE  Back
    OBVIOUS
  <2>1. cli.cmd = "rejoin-slave" /\ cli'.cmd = "none" /\ last'.ok
    BY DEF EndsOk, Ended
  <2>2. cli.cfg.masters = 3
    BY <2>1 DEF DocumentedInv, QuietInv, Orderly
  <2>3. HomeBase
    <3>1. cmds # 0
      BY <2>1, <2>2 DEF ReaddInv, Creating
    <3> QED BY <2>1, <2>2, <3>1 DEF ReaddInv, HomeBase, BaseInv, Inv
  <2>4. Step
    <3>1. ~GuestStep /\ ~GuestFault /\ ~UNCHANGED vars
      BY <2>1, <2>3 DEF GuestStep, GuestFault, vars, HomeBase, TypeInv, TypeOK, CliTyped, CliState
    <3>2. ~Interrupt /\ ~TooSlow /\ ~Invoke
      BY <2>1, CommandsAssumption DEF Undisturbed, Interrupt, TooSlow, Fault, Invoke, Begin
    <3> QED BY <3>1, <3>2 DEF Next, vars, EndsOk, Ended
  <2>5. SeesReady(Victim)
    <3>1. cli.pc \in {"check", "join", "wait"}
      BY <2>1, <2>3 DEF HomeBase, HomeInv, ReaddCalls, At
    <3>2. ~TimedOut /\ ~NoInternet
      BY <2>3, NotInVain
    <3>3. ~CheckNotReady /\ ~K3sJoin
      BY <2>1, <2>3, GotoKeeps
         DEF CheckNotReady, K3sJoin, HomeBase, TypeInv, TypeOK
    <3>4. ~Refuse /\ ~NoAnswer
      BY <2>1 DEF Refuse, NoAnswer, Finish
    <3>5. WaitReady \/ CheckReady
      BY <2>4, <3>1, <3>2, <3>3, <3>4, ZenonT(30)
         DEF Step, At, Pick, LoopEnds, Clone, Start, Prepare, ListSnapshots, Wipe, Reset, Manifest,
             Purge, Kubeconfig, ExportToken, WriteToken, Cordon, DelNode, DelSecret, Destroy,
             Stamp, Info, Kill, Unconfig, SaveSnapshot
    <3> QED BY <2>3, <3>5, WaitReadyHome
  <2>6. InCluster(Victim) /\ ApiAt(Victim) /\ Victim = cli.arg
    BY <2>1, <2>3, <2>5, RejoinedThen DEF Victim
  <2>7. \A m \in Masters : node[m].cl \in {0, Home}
    BY <2>3, HomeAnswers DEF HomeBase
  <2> QED BY <2>6, <2>7 DEF InCluster, ApiAt
<1> QED BY <1>1, Readd, Documented, PTL DEF DocumentedSpec, Rejoined

\* README.md:225: taking k3s off a node leaves the API up.
THEOREM ApiStays == ASSUME Undisturbed PROVE DocumentedSpec => UninstallKeepsApi
<1>1. TypeInv /\ HomeInv => ApiUp
  <2> SUFFICES ASSUME TypeInv, HomeInv PROVE ApiUp
    OBVIOUS
  <2>1. \E m \in Masters : m # Victim
    <3>1. 1 \in Masters /\ 2 \in Masters
      BY DEF Masters
    <3> QED BY <3>1
  <2> QED BY <2>1, HomeAnswers DEF ApiUp
<1>2. BaseInv /\ ReaddInv /\ DocumentedInv /\ cli.cmd = "k3s-uninstall"
        => cli.cfg.masters = 3 /\ cmds # 0
  BY DEF ReaddInv, DocumentedInv, Creating, QuietInv, Orderly
<1>3. BaseInv /\ BaseInv' /\ ReaddInv /\ ReaddInv' /\ DocumentedInv /\ [Next /\ AsDocumented]_vars
        => [cli.cmd = "k3s-uninstall"
              /\ (\E m \in Masters \ {cli.arg} : ApiAt(m)) => ApiUp']_vars
  <2> SUFFICES ASSUME BaseInv, BaseInv', ReaddInv, ReaddInv', DocumentedInv,
                      [Next /\ AsDocumented]_vars, cli.cmd = "k3s-uninstall"
               PROVE  ApiUp'
    OBVIOUS
  <2>1. cli.cfg.masters = 3 /\ cmds # 0 /\ cli'.cfg = cli.cfg
    BY <1>2 DEF AsDocumented, vars
  <2>2. ~Invoke
    <3>1. HomeInv
      BY <2>1 DEF ReaddInv
    <3> QED BY <3>1 DEF Invoke, Begin, HomeInv, ReaddCalls, At
  <2>3. HomeInv' /\ TypeInv'
    <3>1. cmds' = cmds
      <4>1. CASE Step
        BY <4>1, CallCounts DEF BaseInv, Inv
      <4>2. CASE GuestStep \/ GuestFault \/ UNCHANGED vars \/ Interrupt \/ TooSlow
        BY <4>2 DEF GuestStep, GuestFault, Fault, vars, ghost, Interrupt, TooSlow
      <4> QED BY <2>2, <4>1, <4>2 DEF Next
    <3>2. cli'.cmd # "create"
      BY <2>2, SameCommand
    <3> QED BY <2>1, <3>1, <3>2 DEF ReaddInv, BaseInv, Inv
  <2>4. (TypeInv /\ HomeInv => ApiUp)'
    BY <1>1, PTL
  <2> QED BY <2>3, <2>4
<1> QED BY <1>3, Readd, Documented, PTL DEF DocumentedSpec, UninstallKeepsApi
=============================================================================
