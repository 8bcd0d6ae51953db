# kopsrox in TLA+

kopsrox is a command line that builds, changes, backs up and restores a k3s
cluster on one Proxmox host. It keeps no daemon and no database: every
invocation discovers the VMs, makes a chain of external calls, and either ends
well or stops at the first call that fails (`kabort` exits, nothing is undone).
All state lives elsewhere: in Proxmox, inside the guests, in the etcd of the
cluster, in an S3 bucket and in two small files. What is hard about it is
therefore not one function but what the NEXT invocation makes of whatever the
previous one left, while guests keep working, or stop, on their own.

## The system

| component | state | operations | hard behaviour |
|---|---|---|---|
| invocation (`kopsrox.py`, `kopsrox_schema`, `kopsrox_config.init`) | kopsrox.ini, the discovered VMs | write the ini, look up the words, validate, check the host and sudo, discover, power on, build prerequisites | the host is read once and used after it has changed; a check passes on something that expires |
| node creation (`kopsrox_proxmox.clone`, `node_prepare`) | the VM, its preparation mark | qm clone, set, resize, start, prepare script, internet check | a crash in the middle is taken for a finished node |
| k3s initialisation (`kopsrox_k3s.k3s_init_node`) | config.yaml, the unit, kubeconfig, token file | check Ready, join, wait, export | an early return at Ready skips the rest; Ready is what the API last heard |
| restore (`cluster_restore`, the `restore` branch) | data directory of m1 | throwaway master, list snapshots, wipe, reset, re-apply manifest, purge stale nodes | the cluster is gone before the snapshot is known to exist and to open |
| reconciliation (`k3s_update_cluster`) | list of VMs taken once | slaves, demotions, workers, extra workers, drift baseline | order of loops and quorum |
| removal (`k3s_remove_node`, `k3s_forget_node`, `k3s_rm_cluster`) | node object, password secret, etcd member, VM | cordon, delete node, delete secret, destroy | four calls whose failures nobody looks at |
| `cluster`, `node`, `etcd`, `k3s` verbs | none | which procedures a command runs | any order of commands is legal |
| guests (external) | VM, unit, config.yaml, data directory | k3s bootstrap, join, register, lease; power | run concurrently with the CLI |
| guest agent calls (`qa_exec`, `qa_write`, `node_reboot_wait`) | attempt, boot id | exec with one retry, write without, reboot and wait | a command that has run and whose answer is lost; a reboot between start and poll |
| upgrade (`k3s_upgrade_cluster`) | installed and running version of each node | installer, restart, wait, node by node | a Ready that is older than the restart; exit codes nobody reads |
| image build (`verb_image`, `config_drift`, `config check`) | VM and description of i0, drift baseline | destroy, build, install, bake, template, describe | a build cut off anywhere, and what the next command takes it for |
| bucket (`verb_etcd`, restore's choice) | snapshot names of all clusters | list, prune, choose the latest | names that are prefixes of names |
| progress and terminal (`kopsrox_kmsg`, `cluster_plan_total`) | PLAN, STEPS, LIVE, the lock | plan, tick, message, step, abort, cleanup, redraw thread | a total predicted before the work; two threads on one screen |

The CLI talks to the guests through `qm guest exec`; kubectl always runs inside
m1 (for `k3s-uninstall`: inside another master). Guests talk to each other
through the VIP that kube-vip holds on a master. Nothing locks anything.

What makes the system correct:

* a command that nothing disturbs ends well and leaves exactly the nodes of
  `kopsrox.ini`, joined to one cluster, the API up all the way;
* a command that is cut short never costs more than a repetition: no second
  cluster, no VM removed that was wanted, no drift baseline ahead of the cluster;
* the image template and the utility VM survive every command;
* the token file always opens the snapshots in the bucket.

## The modules

| module | models |
|---|---|
| `Layout` | the ten VM ids of a cluster as OFFSETS 0..9 (i0, m1..m3, u1, w1..w5), which stand for vmid and vmname; what a configuration asks for (`Target`) |
| `Guests` (external) | the VMs and their k3s units: `node` (per VM), `clu` (per cluster IDENTITY: API objects, etcd members), `ids`. An identity is a CA plus a token password; every `cluster-init` on an empty data directory makes a new one |
| `Kopsrox` | the CLI. `cli` is the running invocation: command, argument, configuration, `phase` (the procedure or loop), `pc` (the next external call), `cur` (the node in hand), `left` (what the loop has yet to do), `seen` (the VM list of `k3s_update_cluster`), `snap`. `tokenFile`, `kubeconfig`, `s3`, `stamp` (config_hash in m1's description) are the files |
| `ClusterPromise` | abstract specification: VMs come and go only as a build, a teardown or a node command may make them |
| `KopsroxProperties` | type invariant and all properties; the refinement mapping to `ClusterPromise` |
| `KopsroxProofs` | the theorems about every behaviour of `Kopsrox`: the VMs and the refinement; the clusters behind them (baseline, restore, second cluster) |
| `UsageProofs` | the theorems about ways of using it: repeated commands (over `MCRetry`), undisturbed ones, the procedures of the README (`DocumentedSpec`) |
| `MCKopsrox` | `kopsrox.ini` versions for TLC, the fair specification, the procedures the README gives (`DocumentedSpec`) |
| `MCRetry` | `Kopsrox` with a history variable for the password last saved |
| `PlanTotals`, `MCPlan` | `Kopsrox` with the progress plan beside it: `Announced` when a command begins, one tick for each action that ticks in the code |
| `GuestAgent` | one guest, one caller: `call` is the operation and the attempt under way, `guest` its boot and its pending reboot timer, `runs` how often the command has started |
| `AgentPromise` | abstract specification of a guest command: started at most as often as the call may try, truthfully reported, nothing starts after the answer |
| `GuestAgentProofs` | the theorems about `GuestAgent` |
| `UpgradeProofs`, `ImageBuildProofs`, `BucketProofs`, `StartupProofs`, `RendererProofs` | the theorems about the module each is named after |
| `Upgrade`, `MCUpgrade` | the rolling upgrade over `Guests`: `disk` and `rel` are the version installed and the version the unit was started with, `job` the node in hand and the ones left |
| `ImageBuild` | i0 step by step, with the nodes cloned from it (`fleet`) and the ini changing between commands |
| `Bucket`, `MCBucket` | several clusters and one bucket; a name is a sequence of pieces, so that one can be a prefix of another |
| `Startup`, `MCStartup` | an invocation from the shell to the verb: ini, command table, schema, sudo, discovery, power-on, prerequisites |
| `Renderer` | `kopsrox_kmsg`: the rows on the screen, LIVE, the reentrant lock, the program and the daemon thread |

`Kopsrox` starts where `Startup` ends and takes a guest command as one step;
`GuestAgent` is what that step hides. `Upgrade` shares `Guests` with `Kopsrox`;
`PlanTotals` extends `Kopsrox` and adds one variable to every step of it.

One step of `Kopsrox` is one external call with an effect another actor, or the
next invocation, can see. The correspondence, procedure by procedure (PROJECT.json
`map` gives the lines):

* `Begin`: image guard, discovery, power-on of everything stopped but the image.
* `clone` = `Clone`, `Start`, `Prepare`; `qm clone/set/resize` are one step.
* `k3s_init_node` = `CheckReady` (early return) or `CheckNotReady`, `K3sJoin`
  (config.yaml and `enable --now`), `WaitReady` or `TimedOut`, then for a master
  `Kubeconfig`, `ExportToken`, `WriteToken`; opening the token file truncates it,
  so an emptied file is a state of its own.
* the restore branch = `K3sJoin` with an empty token, `WaitReady`,
  `ListSnapshots`, `Wipe`, `Reset`, `Manifest`, `WaitReady`, exports, `Purge`.
* `k3s_remove_node` = `Cordon`, `DelNode`, `DelSecret`, `Destroy`; a kubectl
  without an API server behind it changes nothing and does not end the command,
  a guest without an agent does (`NoAnswer`).
* the loops = `Pick` and `LoopEnds`; `Return` is where a procedure returns to.
* faults: `Interrupt` at any call (Ctrl-C, lost session, failing `qm`),
  `GuestFault` (power loss, a missed lease), `TooSlow` (20 polls run out although
  the guest is still getting there). Without a `slow` fault a wait only times out
  when no guest can get any further.

In the other modules:

* `qa_exec` = `Send` (qm starts the command in the guest), `Collect` (qm polls for
  its end) or `CollectFails`, `Ping`, the second `Send`; `Fail` is `fail()`, quiet
  for the probes. `node_reboot_wait` = `Scheduled` twice, then `ProbeAgain` until
  `Rebooted` or `DidNotReboot`. 120 pings and 60 probes are modelled by what ends
  them: a guest that has settled without an answer.
* `k3s_upgrade_node` = `Install`, `Returns`, `WaitReady`; `InstallerFails` is an
  installer that changed nothing, or left a k3s that does not come up.
* `image_create` = `CheckKernel`, `DestroyOld`, `Patch`, `Build`, `Install`, `Bake`,
  `Template`, `Describe`, in that order; `Report` is `config check`.
* `Invoke` is kopsrox.py down to the import of kopsrox_config; `Validate`,
  `CheckHost`, `Discover`, `Decide`, `PowerOn`, `PingMaster`, `Build` are
  `init` from top to bottom. An option has one of six kinds of value, not a text.
* `etcd prune` = `AskPrune`, then `Prune` or `PruneFails`, which deletes some of what
  k3s was asked to and ends in `kabort`; a restore in the bucket is `Teardown`,
  `Choose` or `NoneFound`, `Reset`.
* `clear_live`, the write and `draw_live` are three steps and LIVE a fourth, taken
  under the lock; a resize comes between any two.

Data is abstracted: names are offsets, a token is (CA, password), a snapshot is
the API objects of one identity, an option value is a member of `Settings`.

## The runs

`LastOffset` = 5 or 6 keeps one or two workers; two masters more give three etcd
members, the smallest number with a quorum that is not all. Every bound only
limits how long a behaviour is: `MaxCmds` invocations, `MaxFaults` faults,
`MaxSnaps` snapshots, `MaxId` identities (at least as many as the commands can
create). Deadlock checking is off everywhere: the system may stop between
commands, and does when the bound on commands is reached.

| run | question | bounds, and why enough |
|---|---|---|
| `life` | `TypeOK`, `NoRejectedGuest`, `BuiltAsAsked`, `QuorumKept`, `CleanEnds`, `PlanExact`: do undisturbed commands do what the README says, in the steps they announce? | 4 commands, three sizes (1+1, 1+2, 3+1): create, grow, shrink, demote and restore at a different size fit |
| `documented` | `SnapshotsDecryptable`, `RestoreRecovers`, `Rejoined`, `UninstallKeepsApi`: the procedures the README gives for backups and for re-adding a master | 6 commands, one missed lease; 2 snapshots: two clusters with one worker, a snapshot of each, a restore of either; two full rounds of uninstall and rejoin on three masters |
| `faults` | `ProtectedKept`, `StampIsTrue`, `KeepsPromise`, and `CommandsEnd` under `FairSpec` | all ten commands, 3 in a row, one fault of any kind anywhere |
| `retry` | `OneCluster`, `PasswordKept`: can repeating a cut command make a second cluster or lose the token? | one master or three, 3 commands, two faults: a command, its repetition and the repetition of that; a file cut in the middle of writing, refused restores that leave another password live, exports after them |
| `agent` | `AgentTypeOK`, `AtMostTwice`, `KeepsAgentPromise`, `RebootWaits`, `CallsEnd` | 3 operations, 2 faults: a lost answer on either attempt, then another operation on what it left |
| `upgrade` | `OneDown`, `NoNewerAgent`, `AllUpgraded`, and `UpgradeEnds` under `FairUpgradeSpec` | three fleets, three upgrades, two mishaps of any kind: cut twice and begun again |
| `image` | `BaselineHonest`, `DriftReported`, `RebuildWorks`, `UpgradedTogether` | 4 commands, 2 troubles of any kind, two versions and two sets of options |
| `bucket` | `ListsOwn`, `RestoresLatest`, `NewestKept`, `PruneWorks` | the three names dev/test_etcd.py tries, 4 snapshots, 2 of them kept: enough for a prune to remove one and for a cluster to have as many as it may keep beside another's; interleaved restores and prunes, which may fail half-way |
| `renderer` | `AbortedStepsGone`, `NeverCreeps`, `TextKept`, and `GetsOut` under `FairRendererSpec` | 5 operations, steps nested twice, one resize |
| `startup` | `EveryVmUp`, `OnlyOurs`, `PlaceholdersGone` | every command line on every state of four VM ids, the next cluster's first one included, ten kinds of host, one intervention; the first use, six edits (the five required ones and one mistake in any order), two commands |
| `vrerun`, `vkey` | disagreements, below | the shortest behaviours that show them |

Between them the passing runs fire every action.

**Conditions.** Some properties hold only where nothing has happened that the code
does not handle; the models let it happen, and the property says until when it
holds. `Upgrade` and `ImageBuild` keep the kinds of fault met so far (`met`):
`OneDown` is claimed while only leases were missed, `NoNewerAgent`, `AllUpgraded`,
`BaselineHonest` and `DriftReported` while no installer failed. `NeverCreeps` and
`AbortedStepsGone` are claimed until the terminal is resized, `EveryVmUp` until
someone interferes with the host, `ListsOwn` and `RestoresLatest` for clusters whose
name does not begin another's. What happens beyond each of these is in the next
section.

**Fairness.** `FairSpec` (only in `faults`) is weak fairness of the CLI's steps: the
process is scheduled, and each external call has a timeout. Weak fairness of the
guests' progress: the units are `Restart=always` and retry until they are
registered; it is what ends the model's wait, which in the code is a count of
polls. Nothing is assumed about invocations or faults. `FairUpgradeSpec` is the
same for the upgrade. `FairAgentSpec` adds to the CLI's steps that a guest told to
reboot does and comes up again. `FairRendererSpec` needs strong fairness of the
program's steps: the lock it waits for is taken again and again by the thread,
which sleeps 0.1 s between two draws and holds it for a few writes.

**Mutants.** For each property PROJECT.json names a small change to the code that
breaks it, defined next to the operator it replaces: a loop that destroys in
ascending order, a secret that outlives its node, a demotion without `delete
node`, a token that is not pinned, a manifest that is not re-applied, and so on.

## What the code does otherwise than it says

Two runs show a statement of the repository that the code does not keep:

* `vrerun`: create cut between `qm clone` and `node_prepare`; every later create
  takes the bare clone for a node and fails ("Safe to re-run", README.md:160).
* `vkey`: a token file left empty by a cut export passes the check that is meant
  to come before a restore destroys everything (verb_cluster.py:14-15).

More came up while modelling, as behaviours of the same models. They are why the
properties have the conditions above and the runs the bounds they have:

* create is cut short, or times out, just before m1 is Ready; the next one finds it
  Ready, ends well and never exports kubeconfig and token (README.md:108, 160).
  `BuiltAsAsked` is therefore checked without faults.
* m1 of three masters is destroyed; create then starts a second cluster beside the
  working masters (README.md:160). `OneCluster` is checked without `node destroy`.
* update records the new option hash although Ready nodes keep their old
  config.yaml, so the notice that says "run cluster update to apply" goes away with
  nothing applied (kopsrox_config.py:98-99). `StampIsTrue` is about the nodes only.
* the guest goes down before qm has polled the schedule command; `qa_exec` sends it
  again, and the reboot ends well with a second one to come (README.md:188).
  `AtMostTwice` bounds the damage.
* init powers on a master that is off and the upgrade takes m1 down while it is
  still starting (kopsrox_k3s.py:301): the condition of `OneDown`.
* exit codes of the k3s installer are ignored: an upgrade reports success with a
  node left behind (kopsrox_k3s.py:310), an image without k3s is described as built
  and shows no drift (README.md:150).
* a half-built VM counts as the image in `config check` (README.md:150), and after
  an image create with a new version and before the upgrade it says that ini, image
  and cluster match (verb_config.py:38): `DriftReported` is about a finished image.
* a list or a restore of anchovy also finds anchovy2's snapshots (README.md:178,
  163): `ListsOwn` and `RestoresLatest` are claimed for names that begin no other's.
* a prune of anchovy takes the snapshots of a cluster anchovy-max with it
  (verb_etcd.py:73-74): `NewestKept` and `PruneWorks` hold for the names `bucket`
  uses, none of which is another's followed by `-m`.
* a terminal that narrows wraps the live rows (kopsrox_kmsg.py:69).
* six workers pass the schema (kopsrox_schema.py:94): `Layout` and `Configs` stop at
  the five the names allow.
* a cached sudo credential passes the check and expires; the next call waits for a
  password (README.md:34): `Startup` then stops in `Discover` or `PowerOn`.
* with m1 gone and another node left, a restore ends at the first `cordon`;
* `k3s-uninstall` stops a member before it leaves etcd; done to two of three masters
  without a rejoin between, the second takes the quorum with it although another
  master was healthy (README.md:225). `UninstallKeepsApi` is claimed for the
  procedure of the README, which rejoins each before the next (`documented`);
* after a power loss a wiped master may still be listed Ready, and `rejoin-slave`
  then does nothing and ends well (hence only missed leases in `documented`);
* a restore that names no existing snapshot leaves its throwaway master, whose
  later snapshots no saved token opens (hence `Careful` in `documented`);
* a master whose join was abandoned by an interrupt can join while a later update
  removes it, and take the quorum with it (hence no faults in `life`).
* the progress bar of a create that meets an m1 whose agent answers and whose k3s
  does not runs one step over (hence `PlanExact` without faults).
* changed upstream patches are noticed when the old image is already gone
  (`PatchFails` after `DestroyOld`).

## What is proved

Thirty-four theorems that matter, in eight modules; each states a property a run
checks, for every value of the constants: any set of `kopsrox.ini` versions, of
commands and arguments, any number of commands, snapshots, identities, clusters
and faults, every `LastOffset` up to the code's 9. Besides the named assumptions on
the constants some have a hypothesis, stated in the theorem:

* `MastersStay` (`NoSecondCluster`): no command on one node names m1, and no master
  is uninstalled. Without it the theorem is false: create after m1 alone was
  destroyed starts a second cluster (see above).
* `NamesApart` (`BucketProofs`): no two clusters have one name, and no name goes on
  with another's `-m`. kopsrox does not check it; without it a prune takes another
  cluster's snapshots (see above). The names of dev/test_etcd.py satisfy it.
* `Undisturbed` (`UsageProofs`): the only fault is a missed lease, a restore names a
  snapshot that is there (`Careful`), and the model has an identity for every
  command. The section above says what happens otherwise: a create that times out
  exports nothing, an abandoned join takes the quorum along. The constants of `life`
  and `documented` satisfy it.

Every theorem is got from an inductive invariant which TLC checked on the instance
of the run before it was proved.

### The command line: `KopsroxProofs`

* `TypeCorrect`: `Spec => []TypeOK`.
* `ProtectedSafe`: `Spec => ProtectedKept`, the image template and the utility VM
  are destroyed only by a `node destroy` that names them.
* `Refinement`: `Spec => KeepsPromise`, i.e. `Kopsrox` implements
  `ClusterPromise` under `vms <- Vms, doing <- Doing, goal <- Goal`.

The invariant is `Inv == TypeInv /\ PlanInv`.

* `TypeInv` is `TypeOK` and `InHand`. `TypeOK` alone is not inductive: that the
  reset reads a snapshot needs that `ListSnapshots` found it, that `WriteToken`
  writes a token needs that m1 still has its data, that a loop ends in the next
  one needs that `pc = "next"` only occurs in loops.
* `PlanInv` says what the control state knows about the VMs. `CallFits`: which
  procedure a destructive call belongs to, and on which node. `TeardownOrder`: in
  `k3s_rm_cluster` every VM left is in `left` or in hand and none is above the one
  in hand. `BuildOrder`: what a loop has passed is there, what it has left is above
  the node in hand, so each clone finds all lower wanted nodes in place.
  `SurplusOnly`: the two removal loops hold only what the configuration does not
  ask for.
* `OnlyInHand` then says that only a clone and a destroy of the node in hand
  change the set of VMs; the refinement splits on those two and shows every other
  step to be a `Turn` or a stutter (`StepTurns`).

### What is behind the VMs: `KopsroxProofs`

* `StampTrue`: `Spec => StampIsTrue`. The drift baseline is never ahead of the
  cluster.
* `RestoreIsRight`: `Spec => RestoreRecovers`. A restore that ends well has brought
  back the snapshot asked for.
* `NoSecondCluster`: `ASSUME MastersStay PROVE Spec => []OneCluster`.
* `PasswordSafe` (in `UsageProofs`): `RetrySpec => PasswordKept`.

All four stand on `BaseInv`: `Inv`, `ControlInv` (which procedure every call, and
which command every procedure belongs to) and `IdentityInv` (no guest and no snapshot
is of an identity that has not been created, and an API that has a node Ready lists
it). Two lemmas say what there is to know of a step: `CallEffect`, what any external
call does to the one guest it reaches, and its counterpart for what guests do on
their own. On top of that:

* `StampInv`: `NodesListed`, what the update loops have dealt with stays listed by
  m1's API although the guests go on working, and `NothingElse`, the surplus is in
  the loops still to come. Neither is about the state the baseline is set in; they
  carry what each loop has established through the ones after it.
* `RestoreInv`: until the reset m1 has no data that could pass for the snapshot's
  (that is why `CheckReady`'s early return is not taken), and from it on m1's data
  is that of the snapshot chosen.
* `OneInv`: all data is of m1's cluster, only m1 is configured to start one, and
  whatever takes m1's data finds no other node with any (`OthersEmpty`, from the
  order of the teardown in `PlanInv`). `OneCluster` itself is not inductive: a node
  without an API that has another cluster's data is a cluster in waiting.
* `PasswordInv`: what is in the file, and what is about to be written, has the
  password last saved or none; in a restore because the reset only takes a snapshot
  the saved token opens, elsewhere because the join was given that token.

### Commands nothing disturbs: `UsageProofs`

Under `Undisturbed`, for any number of commands, masters, workers and missed leases,
guests that join, register and renew at any moment:

* `NobodyRejected`: `OrderlySpec => []NoRejectedGuest`.
* `QuorumSafe`: `OrderlySpec => QuorumKept`.
* `BuildsAsAsked`: `OrderlySpec => BuiltAsAsked`.
* `EndsWell`: `Spec => CleanEnds`, for the commands create, update, restore, destroy,
  snapshot and export-token.
* `AllDecryptable`: `DocumentedSpec => []SnapshotsDecryptable`.
* `Rejoins`: `DocumentedSpec => Rejoined`.
* `ApiStays`: `DocumentedSpec => UninstallKeepsApi`.

`OrderlySpec` is `Spec` where nobody takes k3s off a node, puts it back or destroys m1
alone; `TameIsOrderly` says that `Spec` implies it for any set of commands that leaves
these out, as that of `life`. All of these make a cluster whose m1 is not the
one that the other commands expect. `EndsWell` leaves out `node destroy` and `node
utility` too: destroying a node that is not there and a utility VM without a cluster
are refused, and `CleanEnds` does not count those refusals as expected.

`QuietInv` is about the guests as much as about the CLI, because the question is
always when a wait may run out. It was checked on the instance of `life` (304019
states), and with missed leases, before it was proved.

* `OthersInv`: a node beside m1 is settled (it runs m1's cluster and is listed), just
  cloned, or joining with the live token and nobody's old password; only the node in
  hand is anything but settled. So a guest that has not registered can
  (`BootstrapQuiet`, `JoinQuiet`, `RegisterQuiet`), and a wait cannot run out on it.
* `ClusterInv`: etcd's members are the masters with data and nobody else, whoever has
  a password kept is listed, and after a reset what is listed and not there is what
  the purge has yet to delete. This makes every member one that serves, hence the
  quorum (`MasterAnswers`).
* `MasterInv`: what m1 has got to at every call of its creation and of a restore,
  between the wipe and the manifest included.
* `TokenInv`, `RestoresInv`: file, bucket and cluster have one password whenever they
  are compared, although a restore throws away m1's cluster, starts another and
  replaces that.
* `SeenInv`: the list of VMs an update works from was taken before its loops ran; a
  VM that a loop has yet to come to is in the list when it exists. `InfoInv`,
  `CountInv` and `NodeInv` say what a call is the last of.

`DocumentedInv` is `QuietInv` for one master, and an empty bucket for three, where the
README's procedure takes k3s off masters. For those `ReaddInv` is the invariant of the
last two theorems, checked first on the instance of `documented` with a worker more,
and with every hostname as an argument:

* While three masters are created it is `Creating`: `QuietInv`, and `MasterOnce`, that
  an m1 that is listed runs. A restore or a power loss breaks `MasterOnce`; a create
  does neither, so that all three masters run k3s when it ends (`CreatedHome`).
* From then on it is `HomeInv`, in which m1 has no part of its own. `Home` is the
  cluster the saved token is of, and `Victim` the node in hand, or between two commands
  the one that is out. Everybody but `Victim` is in `Home` (`InCluster`); `VictimInv`
  says how far the node in hand has got, call by call, and etcd's members are the
  masters but `Victim` once it is `Lost`. Two of three are a quorum (`TwoOfThree`), so
  the API answers at every other master whatever is being taken out (`HomeAnswers`),
  kubectl is asked of one of those (`AsksAnother`), the VIP is served when the node
  comes back, and its wait cannot run out (`NotInVain`).
* A rejoin ends where m1's API lists the node as Ready. A lease is missed at any time,
  and Ready may be old, but a node that is listed has registered again, since its entry
  was deleted with its data (`RejoinedThen`).

### Guest commands: `GuestAgentProofs`

* `AgentTypeCorrect`: `AgentSpec => []AgentTypeOK`.
* `RestartsBounded`: `AgentSpec => []AtMostTwice`.
* `RebootSafe`: `AgentSpec => RebootWaits`.
* `AgentRefinement`: `AgentSpec => KeepsAgentPromise`, i.e. `GuestAgent` implements
  `AgentPromise` under `tries <- Underway`.

Their invariant is `AgentInv`.
`AttemptInv`: while a command is under way nobody has been told anything, and every
attempt but the one in hand has started it at most once; it makes `Send` a step of
the promise. `BootInv`: the boot first asked for is no later than that of the
command, which is no later than the guest's; so a new id is a later one.
`BudgetInv`: boots so far, boots that are pending and schedule commands that may
still be started never add up to more than two per call; `AtMostTwice` alone is not
inductive, since a pending timer or an unspent attempt is a boot to come.

### The upgrade: `UpgradeProofs`

* `MastersFirst`: `UpgradeSpec => []NoNewerAgent`.
* `UpgradedMeansAll`: `UpgradeSpec => AllUpgraded`.
* `OneMasterDown`: `UpgradeSpec => OneDown`.

`UpgradeInv`: `FleetInv` (the guests stay who they are whatever they do on their own),
`LoopInv` (the loop goes upwards, so masters come first), `VersionInv` (what runs is
what was installed, and what the loop has dealt with is new) and `UpInv` (without a
fault but a missed lease the only master that is not up is the one whose installer
has not returned). `OneDown` speaks of one step; `UpInv` is what lasts in between, also
over the end of a command: an installer is only given up on when its node cannot get
up, and the members that are up are the quorum it needs.

### The image: `ImageBuildProofs`

* `BaselineTrue`: `ImageSpec => []BaselineHonest`.
* `RebuiltAlways`: `ImageSpec => RebuildWorks`.
* `UpgradedAlways`: `ImageSpec => UpgradedTogether`.
* `DriftTrue`: `ImageSpec => DriftReported`.

`ImageInv` adds to `BaselineHonest` how far a build is at each of its calls
(`HowFar`: nothing is left of the old image when the new one is built, there is no
description before the last call), which command a call belongs to, and that an
upgrade has been through the nodes before it comes to the image (`NodesFirst`).

### The bucket: `BucketProofs`

Under `NamesApart`, for any number of clusters, names and snapshots:

* `ListTrue`: `BucketSpec => []ListsOwn`.
* `NewestStay`: `BucketSpec => NewestKept`.
* `PruneLeavesNewest`: `BucketSpec => PruneWorks`. A prune that ends well has left its
  own cluster exactly the newest snapshots and the others all they had; in between
  others save, prune and restore.
* `LatestRestored`: `BucketSpec => RestoresLatest`.

The lemmas are about names as sequences (`FileNameIs`, `PrefixOfPrune`, `OwnMatches`):
the search by the name and `-m` finds a snapshot exactly when it is the cluster's
own, which is where `NamesApart` is needed; and about the newest members of a finite
set, by cardinality. `BucketInv` adds that no two snapshots have one time (else
"newest" would not be a set of the right size), that every object's name is what its
owner and time make it, and `ChosenInv`: the snapshot a restore has chosen stays in
the bucket, and stays the latest, until the reset.

### Before a command runs: `StartupProofs`

* `NoPlaceholderRuns`: `StartupSpec => []PlaceholdersGone`.
* `VmsAreUp`: `StartupSpec => []EveryVmUp`.
* `StartsOnlyOurs`: `StartupSpec => OnlyOurs`.

They hold for every set of first states and edits in which kopsrox.ini and the host
are ones there can be (`StartsAssumption`, `EditsAssumption`). `StartupInv` adds
`IniInv` (from the validation on the file is sound, since the user edits between
commands only), `FoundInv` (what discovery saw is ours, and still true where nobody
interferes) and `PowerInv` (what does not run yet is in the list still to be
started).

### The terminal: `RendererProofs`

* `AbortClears`: `RendererSpec => []AbortedStepsGone`.
* `LiveStaysBelow`: `RendererSpec => NeverCreeps`.

`ScreenInv`: `LockInv` is the mutual exclusion of the two threads under the reentrant
lock, `LiveInv` that between erasing and counting LIVE is 0, and `ShapeInv` the shape
of the screen at every step in between: all but its last rows are text, and how many
those are is LIVE or, between draw and count, what will be counted. `AbortInv` says
that no step is on the screen once an abort has reached its first redraw.

### Only model-checked

* Liveness (`CommandsEnd`, `CallsEnd`, `UpgradeEnds`, `GetsOut`): out of the prover's
  reach, together with ENABLED.
* `PlanExact`: a count over a whole command, that needs the number of calls each
  procedure will still make in terms of the guests' state.
* `TextKept`: it filters the screen with `SelectSeq`, a recursive definition about
  which induction over the data would be needed.

The proofs changed the models in three places. A second `k3s-uninstall` of a worker
made it a node that is to start a cluster: `Unconfigured` now gives that role to what
was a server only, since the code enables no `k3s` unit on a worker (verb_node.py).
The guards of `AfterWait`'s CASE did not exclude each other. `Startup` did not say
which files and hosts there can be.

## What is not modelled

* texts: generated manifests, config.yaml beyond role, token and options, messages;
* addresses: `vmip` is one addition, without a bound on the last octet;
* `rejoin-slave` of a node that is not a master; `terminal`, `ssh`, `exec` and
  `kubectl`, which hand over to another program or run what the operator typed;
  `check-config`, `reload-kubevip` and the `info` commands, which keep no state;
* the notices of `config check` about releases, kernels and the bucket: they print;
* `image create`'s constant plan of 7 (it takes four steps, and prints what it did);
* two invocations at the same time: nothing in the repository says what they
  should do to each other, and `list_kopsrox_vm` is read long before it is used, so
  there is no promise to check, only the hazard at kopsrox_config.py:173;
* the developer scripts and tests.

## The plan

Done, in the order of their importance: `Layout`, `Guests`, `Kopsrox`,
`ClusterPromise` with their proofs, since every command that changes a cluster goes
through them; `GuestAgent` and `AgentPromise` with theirs, since every step of
`Kopsrox` goes through them; `Upgrade` over `Guests`; `ImageBuild`; `Bucket`;
`Startup`; `PlanTotals` over `Kopsrox`; `Renderer`. Then the proofs: of every safety
property of the later modules but `TextKept`, of those of `Kopsrox` that hold
under faults, of those about undisturbed commands, and of those about the procedures
of the README. What is left:

1. `PlanExact`, from `EndsWell`'s invariant and the calls each procedure has left.
2. Two invocations at once, should the code come to promise anything about them.
