------------------------------ MODULE Upgrade -------------------------------
(***************************************************************************)
(* `k3s upgrade` on a cluster that is up: the k3s installer is run again   *)
(* on one node after the other, masters first, and restarts the unit.      *)
(* kopsrox goes on when m1's API says the node is Ready, which it may      *)
(* still say from before the restart; what the installer returned is not   *)
(* looked at.  (The image is rebuilt afterwards: see ImageBuild.)          *)
(***************************************************************************)
EXTENDS Guests

CONSTANTS
  Fleets,      \* the sets of k3s nodes an upgrade may meet
  Kinds,       \* the kinds of fault that may happen
  MaxUpgrades, \* bound: invocations
  MaxMishaps   \* bound: faults

ASSUME FleetsAssumption == /\ Fleets \subseteq SUBSET (Masters \cup Workers)
                           /\ \A f \in Fleets : M1 \in f
ASSUME KindsAssumption  == Kinds \subseteq {"flap", "power", "interrupt", "installer"}
ASSUME UpgradesAssumption == MaxUpgrades \in Nat /\ MaxMishaps \in Nat /\ MaxId >= 1

VARIABLES
  disk,     \* disk[v]: the k3s version installed in v
  rel,      \* rel[v]: the version its unit was last started with
  job,      \* the upgrade under way: pc, the node in hand, the nodes left
  verdict,  \* how the last upgrade ended
  upgrades, mishaps,
  met       \* the kinds of fault met so far

uvars == <<gvars, disk, rel, job, verdict, upgrades, mishaps, met>>
versions == <<disk, rel>>
count    == <<upgrades, mishaps, met>>
tally    == <<verdict, count>>

Old == 1
New == 2

Waiting == [pc |-> "idle", cur |-> M1, left |-> {}]

\* A cluster that has been built: every node of it registered and active.
Member(v) == [Absent EXCEPT !.st = "running", !.prepared = TRUE, !.unit = "active",
                            !.role = IF v \in Masters THEN "server" ELSE "agent",
                            !.cl = 1, !.known = {1}]
UpgradeInit ==
  \E fleet \in Fleets :
    /\ node = [v \in Offset |->
                 IF v \in fleet THEN Member(v)
                 ELSE IF v \in Protected THEN [Absent EXCEPT !.st = "stopped"] ELSE Absent]
    /\ clu = [c \in Id |-> [pw |-> c, members |-> fleet \cap Masters, reg |-> fleet,
                            ready |-> fleet, secrets |-> fleet, cordoned |-> {},
                            vip |-> TRUE]]
    /\ ids = MaxId
    /\ disk = [v \in Offset |-> Old] /\ rel = disk
    /\ job = Waiting /\ verdict = "none" /\ upgrades = 0 /\ mishaps = 0 /\ met = {}

(******************************** Helpers **********************************)
Doing(p) == job.pc = p
Then(p)  == job' = [job EXCEPT !.pc = p]
End(v)   == job' = Waiting /\ verdict' = v /\ UNCHANGED count

SeesReady(v) == ApiAt(M1) /\ v \in clu[1].ready

\* Every k3s node, but neither the image nor the utility VM.  Mutant: the
\* comparison that skips the utility VM skips w1 as well.
UpgradableButW1 == {v \in Vms : v \in Masters \/ v > Utility + 1}
Upgradable == {v \in Vms : v \in Masters \/ v > Utility}

\* Masters in the order of their ids, then workers.  Mutant: sorted downwards.
Downwards(v, w) == v >= w
InOrder(v, w)   == v <= w

(******************************* The upgrade *******************************)
\* kopsrox_config.init powers on what is stopped, and waits for m1's agent only.
Invoke ==
  LET boots == {v \in Vms \ {Image} : node[v].st = "stopped"} IN
  /\ Doing("idle") /\ upgrades < MaxUpgrades
  /\ node' = [v \in Offset |-> IF v \in boots THEN Booted(node[v]) ELSE node[v]]
  /\ rel'  = [v \in Offset |-> IF v \in boots THEN disk[v] ELSE rel[v]]
  /\ job' = [pc |-> "next", cur |-> M1, left |-> Upgradable]
  /\ upgrades' = upgrades + 1
  /\ UNCHANGED <<clu, ids, disk, verdict, mishaps, met>>

\* Mutant of NextNode: the loop does not advance.
SameNode(v) ==
  /\ Doing("next") /\ v \in job.left /\ \A w \in job.left : InOrder(v, w)
  /\ job' = [job EXCEPT !.pc = "install", !.cur = v]
  /\ UNCHANGED <<gvars, versions, tally>>

NextNode(v) ==
  /\ Doing("next") /\ v \in job.left /\ \A w \in job.left : InOrder(v, w)
  /\ job' = [pc |-> "install", cur |-> v, left |-> job.left \ {v}]
  /\ UNCHANGED <<gvars, versions, tally>>

\* The installer leaves a unit whose files did not change alone.
Restarted(n) == [n EXCEPT !.unit = "starting"]
Install ==
  /\ Doing("install") /\ Up(job.cur) /\ Then("restart")
  /\ disk' = [disk EXCEPT ![job.cur] = New]
  /\ IF disk[job.cur] = New THEN UNCHANGED <<node, rel>>
       ELSE /\ node' = [node EXCEPT ![job.cur] = Restarted(@)]
            /\ rel'  = [rel  EXCEPT ![job.cur] = New]
  /\ UNCHANGED <<clu, ids, tally>>

\* `systemctl restart` of a server comes back when it is up, of an agent at once.
\* Mutant of CameUp: the installer is run in the background.
AtOnce  == TRUE
CameUp  == job.cur \notin Masters \/ node[job.cur].unit = "active"
Returns == /\ Doing("restart") /\ Up(job.cur) /\ CameUp
           /\ Then("wait")
           /\ UNCHANGED <<gvars, versions, tally>>

WaitReady == /\ Doing("wait") /\ Up(M1) /\ SeesReady(job.cur)
             /\ Then("next")
             /\ UNCHANGED <<gvars, versions, tally>>

\* A poll that runs out, a guest that does not answer: kabort.
TimedOut == /\ Doing("wait") /\ Up(M1) /\ ~SeesReady(job.cur) /\ Quiescent
            /\ End("failed") /\ UNCHANGED <<gvars, versions>>
HangsOn  == /\ Doing("restart") /\ Up(job.cur) /\ ~CameUp /\ Quiescent
            /\ End("failed") /\ UNCHANGED <<gvars, versions>>
NoAnswer == /\ \/ Doing("install") /\ ~Up(job.cur)
               \/ Doing("restart") /\ ~Up(job.cur)
               \/ Doing("wait") /\ ~Up(M1)
               \/ Doing("next") /\ job.left = {} /\ ~Up(M1)
            /\ End("failed") /\ UNCHANGED <<gvars, versions>>

\* cluster_info asks m1 and the upgrade is over.
Done == /\ Doing("next") /\ job.left = {} /\ Up(M1)
        /\ End("upgraded") /\ UNCHANGED <<gvars, versions>>

(********************************* Faults **********************************)
Mishap(k) == /\ k \in Kinds /\ mishaps < MaxMishaps
             /\ mishaps' = mishaps + 1 /\ met' = met \cup {k} /\ UNCHANGED upgrades

\* No download, or a new version that does not come up: exit codes nobody sees.
InstallerFails ==
  /\ Mishap("installer") /\ Doing("install") /\ Up(job.cur) /\ Then("restart")
  /\ \/ UNCHANGED <<node, versions>>
     \/ /\ node' = [node EXCEPT ![job.cur] = Killed(@)]
        /\ disk' = [disk EXCEPT ![job.cur] = New]
        /\ UNCHANGED rel
  /\ UNCHANGED <<clu, ids, verdict>>

Interrupt == /\ Mishap("interrupt") /\ ~Doing("idle")
             /\ job' = Waiting /\ verdict' = "failed"
             /\ UNCHANGED <<gvars, versions>>

GuestMishap == /\ \E v \in Offset : \/ Mishap("power") /\ PowerLoss(v)
                                    \/ Mishap("flap") /\ Flap(v)
               /\ UNCHANGED <<versions, job, verdict>>

(***************************** The specification ***************************)
UpgradeStep == \/ (\E v \in Offset : NextNode(v)) \/ Install \/ Returns \/ WaitReady
               \/ TimedOut \/ HangsOn \/ NoAnswer \/ Done
GuestWork   == Progress /\ UNCHANGED <<versions, job, tally>>
Expiry      == /\ \E n \in Offset : LeaseExpires(1, n)
               /\ UNCHANGED <<versions, job, tally>>

UpgradeNext == \/ Invoke \/ UpgradeStep \/ GuestWork \/ Expiry
               \/ InstallerFails \/ Interrupt \/ GuestMishap

UpgradeSpec == UpgradeInit /\ [][UpgradeNext]_uvars

\* A scheduled CLI, and units that are retried until they are registered.
FairUpgradeSpec == UpgradeSpec /\ WF_uvars(UpgradeStep) /\ WF_uvars(GuestWork)

(******************************* Properties ********************************)
MastersDown == {m \in Masters : Up(m) /\ node[m].unit # "active"}

\* kopsrox_k3s.py:301: "never more than one master down at once": where no fault
\* but a missed lease was met, no k3s is taken down while that of another
\* running master is not up, although the Ready waited for may be stale.
OneDown == [][job.pc = "install" /\ job.cur \in MastersDown' /\ met \subseteq {"flap"}
                => MastersDown' = {job.cur}]_uvars

\* kopsrox_k3s.py:285: masters first.  As long as the installer works, no agent
\* is ever newer than a server, whatever is cut short, powered off or begun again.
NoNewerAgent == "installer" \notin met =>
  \A w \in Workers, m \in Masters :
    w \in Vms /\ m \in Vms /\ rel[w] = New => rel[m] = New

\* kopsrox_k3s.py:310: as long as the installer works, an upgrade that says so
\* has upgraded every k3s node, and no other VM.
AllUpgraded == [][job.pc # "idle" /\ verdict' = "upgraded" /\ job'.pc = "idle"
                    /\ "installer" \notin met
                  => \A v \in Vms : rel[v] = New <=> v \notin Protected]_uvars

\* kopsrox_k3s.py:55: the waits are bounded, so an upgrade ends.
UpgradeEnds == job.pc # "idle" ~> job.pc = "idle"
=============================================================================
