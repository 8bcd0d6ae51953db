---------------------------- MODULE UpgradeProofs ---------------------------
(***************************************************************************)
(* What is proved about `k3s upgrade`, for every size of the cluster, any  *)
(* number of upgrades and faults: that no agent is ever newer than a       *)
(* server, that an upgrade that says so has been everywhere, and that it   *)
(* never takes down one master while another is not up.                    *)
(***************************************************************************)
EXTENDS Upgrade, FiniteSetTheorems, TLAPS

(******************************** The types ********************************)
JobState == [pc : {"idle", "next", "install", "restart", "wait"}, cur : Offset,
             left : SUBSET Offset]
UpgradeTyped == /\ node \in [Offset -> NodeState] /\ clu \in [Id -> ClusterState]
                /\ ids = MaxId
                /\ disk \in [Offset -> {Old, New}] /\ rel \in [Offset -> {Old, New}]
                /\ job \in JobState

(****************************** The invariant ******************************)
\* The cluster that was built: the k3s nodes are of identity 1, which knows
\* their passwords and has the masters as its members; no other VM runs k3s.
FleetInv ==
  /\ M1 \in Vms /\ clu[1].members = Masters \cap Vms
  /\ \A v \in Offset : IF v \in Upgradable THEN node[v].cl = 1 /\ 1 \in node[v].known
                                           ELSE node[v].unit = "disabled"
  /\ \A v \in Offset : v \in Masters => node[v].role # "agent"

\* The loop goes through the k3s nodes upwards.
LoopInv == /\ job.left \subseteq Upgradable
           /\ job.pc \notin {"idle", "next"} =>
                job.cur \in Upgradable /\ \A w \in job.left : job.cur <= w

\* No other VM is touched; and as long as the installer works what runs is what
\* was installed, and a node the loop has dealt with is new.
DealtWith(v) == v \notin job.left /\ ~(v = job.cur /\ job.pc = "install")
VersionInv ==
  /\ \A v \in Protected : disk[v] = Old /\ rel[v] = Old
  /\ "installer" \notin met =>
       /\ disk = rel
       /\ job.pc # "idle" => \A v \in Upgradable : DealtWith(v) => rel[v] = New

\* Without a fault but a missed lease the only master that is not up is the one
\* whose installer has not returned.
UpInv == met \subseteq {"flap"} =>
  \A m \in Masters \cap Vms :
    /\ Up(m) /\ node[m].unit \in {"starting", "active"}
    /\ node[m].unit = "starting" => job.pc = "restart" /\ job.cur = m

UpgradeInv == /\ UpgradeTyped /\ FleetInv /\ LoopInv /\ VersionInv /\ UpInv
              /\ NoNewerAgent

(******************************** The guests *******************************)
\* The layout, and the identity of the cluster.
LEMMA Facts ==
  /\ M1 \in Offset /\ Utility \in Offset /\ Image \in Offset /\ 1 \in Id
  /\ Masters \subseteq Offset /\ Workers \subseteq Offset
  /\ Masters \cap Workers = {} /\ Masters \cap Protected = {} /\ Workers \cap Protected = {}
  /\ \A v \in Offset : v \in Int /\ (v \in Masters \/ v > Utility <=> v \notin Protected)
  /\ \A m \in Masters, w \in Workers : m < w
  BY LayoutAssumption, UpgradesAssumption, MaxIdAssumption
     DEF Offset, M1, Utility, Image, Id, Masters, Workers, Protected

\* What the units at work, the cluster and the faults do to a guest: they keep
\* what it belongs to, and a unit that is up stays up.
Keeps(v) ==
  /\ node'[v].cl = node[v].cl /\ node[v].known \subseteq node'[v].known
  /\ node'[v].role = node[v].role
  /\ node'[v].st = "absent" <=> node[v].st = "absent"
  /\ node'[v].unit = "disabled" <=> node[v].unit = "disabled"
  /\ node[v].unit = "active" => node'[v].unit = "active"
  /\ node[v].unit = "starting" => node'[v].unit \in {"starting", "active"}

\* A node keeps everything when nothing of it changes.
LEMMA Untouched == ASSUME NEW v, node'[v] = node[v] PROVE Keeps(v)
  BY DEF Keeps

\* Registering is all a unit of the cluster has left to do.
LEMMA Registering ==
  ASSUME UpgradeTyped, FleetInv, Progress
  PROVE  /\ node' \in [Offset -> NodeState] /\ clu' \in [Id -> ClusterState] /\ ids' = ids
         /\ clu'[1].members = clu[1].members
         /\ \A v \in Offset : Keeps(v) /\ node'[v].st = node[v].st
<1> USE Facts
<1>0. \A v \in Offset : node[v] \in NodeState
  BY DEF UpgradeTyped
<1>1. ASSUME NEW v \in Offset PROVE ~Bootstrap(v) /\ \A c \in Id : ~Join(v, c)
  BY DEF Bootstrap, CanBootstrap, Join, CanJoin, UpgradeTyped, FleetInv
<1>2. ASSUME NEW v \in Offset, Register(v)
      PROVE  /\ node' \in [Offset -> NodeState] /\ clu' \in [Id -> ClusterState] /\ ids' = ids
             /\ clu'[1].members = clu[1].members
             /\ \A u \in Offset : Keeps(u) /\ node'[u].st = node[u].st
  <2> DEFINE c == node[v].cl
             k == [clu[c] EXCEPT !.reg = @ \cup {Name(v)}, !.secrets = @ \cup {Name(v)},
                                 !.vip = @ \/ (node[v].role # "agent" /\ node[v].manifest)]
             n == [node[v] EXCEPT !.unit = "active", !.known = @ \cup {c}]
  <2>1. node[v].unit = "starting" /\ c \in Id
    BY <1>0, <1>2, MaxIdAssumption DEF Register, CanRegister, Id, NodeState
  <2>2. clu' = [clu EXCEPT ![c] = k] /\ node' = [node EXCEPT ![v] = n] /\ ids' = ids
    BY <1>2 DEF Register
  <2>3. /\ n \in NodeState /\ n.unit = "active" /\ n.cl = c /\ node[v].known \subseteq n.known
        /\ n.role = node[v].role /\ n.st = node[v].st
    BY <1>0, <2>1 DEF NodeState
  <2>4. k \in ClusterState /\ k.members = clu[c].members
    <3>1. clu[c] \in ClusterState
      BY <2>1 DEF UpgradeTyped
    <3>2. Name(v) \in Offset
      BY DEF Name
    <3> QED BY <3>1, <3>2 DEF ClusterState
  <2> HIDE DEF c, k, n
  <2>5. Keeps(v) /\ node'[v].st = node[v].st
    BY <2>1, <2>2, <2>3 DEF Keeps, UpgradeTyped, c
  <2>6. \A u \in Offset \ {v} : Keeps(u) /\ node'[u].st = node[u].st
    BY <2>2, Untouched DEF UpgradeTyped
  <2>7. node' \in [Offset -> NodeState] /\ clu' \in [Id -> ClusterState]
    BY <2>1, <2>2, <2>3, <2>4 DEF UpgradeTyped
  <2>8. clu'[1].members = clu[1].members
    BY <2>1, <2>2, <2>4 DEF UpgradeTyped
  <2> QED BY <2>2, <2>5, <2>6, <2>7, <2>8
<1>3. ASSUME NEW v \in Offset, Heartbeat(v)
      PROVE  /\ node' \in [Offset -> NodeState] /\ clu' \in [Id -> ClusterState] /\ ids' = ids
             /\ clu'[1].members = clu[1].members
             /\ \A u \in Offset : Keeps(u) /\ node'[u].st = node[u].st
  <2> DEFINE c == node[v].cl
             k == [clu[c] EXCEPT !.ready = @ \cup {Name(v)}]
  <2>1. c \in Id /\ clu' = [clu EXCEPT ![c] = k] /\ UNCHANGED <<node, ids>>
    BY <1>0, <1>3, MaxIdAssumption DEF Heartbeat, CanHeartbeat, Id, NodeState
  <2>2. k \in ClusterState /\ k.members = clu[c].members
    <3>1. clu[c] \in ClusterState
      BY <2>1 DEF UpgradeTyped
    <3>2. Name(v) \in Offset
      BY DEF Name
    <3> QED BY <3>1, <3>2 DEF ClusterState
  <2> HIDE DEF c, k
  <2> QED BY <2>1, <2>2, Untouched DEF UpgradeTyped
<1> QED BY <1>1, <1>2, <1>3 DEF Progress

\* A lease that runs out, a kubelet that misses one.
LEMMA Leases ==
  ASSUME UpgradeTyped,
         (\E n \in Offset : LeaseExpires(1, n)) \/ (\E v \in Offset : Flap(v))
  PROVE  /\ UNCHANGED <<node, ids>> /\ clu' \in [Id -> ClusterState]
         /\ clu'[1].members = clu[1].members
<1> USE Facts
<1>1. \E c \in Id, n \in Offset : /\ clu' = [clu EXCEPT ![c].ready = @ \ {n}]
                                 /\ UNCHANGED <<node, ids>>
  <2>1. CASE \E n \in Offset : LeaseExpires(1, n)
    BY <2>1 DEF LeaseExpires
  <2>2. ASSUME NEW v \in Offset, Flap(v)
        PROVE  \E c \in Id, n \in Offset : /\ clu' = [clu EXCEPT ![c].ready = @ \ {n}]
                                         /\ UNCHANGED <<node, ids>>
    <3>1. node[v] \in NodeState
      BY DEF UpgradeTyped
    <3>2. node[v].cl \in Id
      BY <2>2, <3>1, MaxIdAssumption DEF Flap, NodeState, Id
    <3>3. Name(v) \in Offset
      BY DEF Name
    <3> QED BY <2>2, <3>2, <3>3 DEF Flap
  <2> QED BY <2>1, <2>2
<1>2. PICK c \in Id, n \in Offset : /\ clu' = [clu EXCEPT ![c].ready = @ \ {n}]
                                 /\ UNCHANGED <<node, ids>>
  BY <1>1
<1>3. clu[c] \in ClusterState
  BY DEF UpgradeTyped
<1>4. [clu[c] EXCEPT !.ready = @ \ {n}] \in ClusterState
      /\ [clu[c] EXCEPT !.ready = @ \ {n}].members = clu[c].members
  BY <1>3 DEF ClusterState
<1> QED BY <1>2, <1>4 DEF UpgradeTyped

\* What is done to one VM: only it changes.
LEMMA OneVm ==
  ASSUME UpgradeTyped, NEW v \in Offset, NEW n \in NodeState, node' = [node EXCEPT ![v] = n]
  PROVE  node' \in [Offset -> NodeState] /\ node'[v] = n
         /\ \A u \in Offset \ {v} : node'[u] = node[u]
  BY DEF UpgradeTyped

\* The operations on a VM.
LEMMA VmOps ==
  ASSUME NEW n \in NodeState
  PROVE  /\ Booted(n) \in NodeState /\ Booted(n).cl = n.cl /\ Booted(n).known = n.known
         /\ Booted(n).role = n.role /\ Booted(n).st = "running"
         /\ Booted(n).unit = IF n.unit = "disabled" THEN "disabled" ELSE "starting"
         /\ Restarted(n) \in NodeState /\ Restarted(n).cl = n.cl /\ Restarted(n).known = n.known
         /\ Restarted(n).role = n.role /\ Restarted(n).st = n.st
         /\ Restarted(n).unit = "starting"
         /\ Killed(n) \in NodeState /\ Killed(n).cl = n.cl /\ Killed(n).known = n.known
         /\ Killed(n).role = n.role /\ Killed(n).st = n.st
         /\ n.unit = "disabled" => Killed(n).unit = "disabled"
<1>1. /\ Booted(n) \in NodeState /\ Booted(n).cl = n.cl /\ Booted(n).known = n.known
      /\ Booted(n).role = n.role /\ Booted(n).st = "running"
      /\ Booted(n).unit = IF n.unit = "disabled" THEN "disabled" ELSE "starting"
  BY DEF NodeState, Booted
<1>2. /\ Restarted(n) \in NodeState /\ Restarted(n).cl = n.cl /\ Restarted(n).known = n.known
      /\ Restarted(n).role = n.role /\ Restarted(n).st = n.st
      /\ Restarted(n).unit = "starting"
  BY DEF NodeState, Restarted
<1>3. /\ Killed(n) \in NodeState /\ Killed(n).cl = n.cl /\ Killed(n).known = n.known
      /\ Killed(n).role = n.role /\ Killed(n).st = n.st
      /\ n.unit = "disabled" => Killed(n).unit = "disabled"
  BY DEF NodeState, Killed
<1> QED BY <1>1, <1>2, <1>3

\* The cluster stays the one that was built as long as VMs and what they belong
\* to stay.
Belongs(v) ==
  /\ node'[v].cl = node[v].cl /\ node[v].known \subseteq node'[v].known
  /\ node'[v].role = node[v].role
  /\ node'[v].st = "absent" <=> node[v].st = "absent"
  /\ v \in Upgradable \/ (node[v].unit = "disabled" => node'[v].unit = "disabled")
\* Who belongs to the cluster does not change where nobody changes role or data.
LEMMA FleetStays ==
  ASSUME FleetInv, clu'[1].members = clu[1].members, \A v \in Offset : Belongs(v)
  PROVE  FleetInv' /\ Vms' = Vms /\ Upgradable' = Upgradable
<1>1. Vms' = Vms
  BY DEF Vms, Belongs
<1>2. Upgradable' = Upgradable
  BY <1>1 DEF Upgradable
<1> QED BY <1>1, <1>2, Facts DEF FleetInv, Belongs

(***************************** It holds at first ***************************)
\* A cluster that has been built, all of one version.
LEMMA Built == ASSUME UpgradeInit PROVE UpgradeInv
<1> USE Facts
<1>1. PICK fleet \in Fleets :
        /\ node = [v \in Offset |->
                     IF v \in fleet THEN Member(v)
                     ELSE IF v \in Protected THEN [Absent EXCEPT !.st = "stopped"] ELSE Absent]
        /\ clu = [c \in Id |-> [pw |-> c, members |-> fleet \cap Masters, reg |-> fleet,
                                ready |-> fleet, secrets |-> fleet, cordoned |-> {},
                                vip |-> TRUE]]
        /\ ids = MaxId
        /\ disk = [v \in Offset |-> Old] /\ rel = disk
        /\ job = Waiting /\ verdict = "none" /\ upgrades = 0 /\ mishaps = 0 /\ met = {}
  BY DEF UpgradeInit
<1>2. fleet \subseteq Masters \cup Workers /\ M1 \in fleet /\ fleet \subseteq Offset
  BY FleetsAssumption
<1>3. NoToken \in Token /\ 0 \in 0..MaxId /\ 1 \in 0..MaxId
  BY MaxIdAssumption, UpgradesAssumption DEF NoToken, Token
<1>4. Absent \in NodeState /\ [Absent EXCEPT !.st = "stopped"] \in NodeState
  BY <1>3 DEF Absent, NodeState
<1>5. \A v \in Offset : /\ Member(v) \in NodeState /\ Member(v).st = "running"
                        /\ Member(v).unit = "active" /\ Member(v).cl = 1
                        /\ Member(v).known = {1}
                        /\ Member(v).role = IF v \in Masters THEN "server" ELSE "agent"
  BY <1>3 DEF Absent, NodeState, Member
<1>6. /\ Absent.st = "absent" /\ Absent.unit = "disabled" /\ Absent.role = "none"
      /\ [Absent EXCEPT !.st = "stopped"].st = "stopped"
      /\ [Absent EXCEPT !.st = "stopped"].unit = "disabled"
      /\ [Absent EXCEPT !.st = "stopped"].role = "none"
  BY DEF Absent
<1> DEFINE n(v) == IF v \in fleet THEN Member(v)
                   ELSE IF v \in Protected THEN [Absent EXCEPT !.st = "stopped"] ELSE Absent
<1>7. \A v \in Offset :
        /\ node[v] = n(v) /\ node[v] \in NodeState
        /\ v \in fleet => /\ node[v].st = "running" /\ node[v].unit = "active"
                          /\ node[v].cl = 1 /\ node[v].known = {1}
                          /\ node[v].role = IF v \in Masters THEN "server" ELSE "agent"
        /\ v \notin fleet => /\ node[v].unit = "disabled" /\ node[v].role = "none"
                             /\ node[v].st = IF v \in Protected THEN "stopped" ELSE "absent"
  <2>1. \A v \in Offset : node[v] = n(v)
    BY <1>1
  <2>2. ASSUME NEW v \in Offset, v \in fleet PROVE n(v) = Member(v)
    BY <2>2
  <2>3. ASSUME NEW v \in Offset, v \notin fleet, v \in Protected
        PROVE n(v) = [Absent EXCEPT !.st = "stopped"]
    BY <2>3
  <2>4. ASSUME NEW v \in Offset, v \notin fleet, v \notin Protected PROVE n(v) = Absent
    BY <2>4
  <2> HIDE DEF n
  <2>5. ASSUME NEW v \in Offset, v \in fleet
        PROVE  /\ node[v] \in NodeState /\ node[v].st = "running" /\ node[v].unit = "active"
               /\ node[v].cl = 1 /\ node[v].known = {1}
               /\ node[v].role = IF v \in Masters THEN "server" ELSE "agent"
    BY <2>1, <2>2, <2>5, <1>5
  <2>6. ASSUME NEW v \in Offset, v \notin fleet
        PROVE  /\ node[v] \in NodeState /\ node[v].unit = "disabled"
               /\ node[v].role = "none"
               /\ node[v].st = IF v \in Protected THEN "stopped" ELSE "absent"
    BY <2>1, <2>3, <2>4, <2>6, <1>4, <1>6
  <2> QED BY <2>1, <2>5, <2>6
<1> HIDE DEF n
<1>8. Vms = fleet \cup Protected /\ Upgradable = fleet
  <2>1. Vms = fleet \cup Protected
    BY <1>2, <1>7 DEF Vms, Protected
  <2>2. fleet \cap Protected = {} /\ Protected \subseteq Offset
    BY <1>2 DEF Protected
  <2>3. Upgradable = {v \in Vms : v \notin Protected}
    BY DEF Upgradable, Vms
  <2> QED BY <2>1, <2>2, <2>3
<1>9. UpgradeTyped
  <2>1. node \in [Offset -> NodeState]
    BY <1>1, <1>7
  <2>2. [c \in Id |-> [pw |-> c, members |-> fleet \cap Masters, reg |-> fleet,
                       ready |-> fleet, secrets |-> fleet, cordoned |-> {},
                       vip |-> TRUE]] \in [Id -> ClusterState]
    BY <1>2, MaxIdAssumption DEF ClusterState, Id
  <2>3. Waiting \in JobState
    BY DEF Waiting, JobState
  <2> QED BY <1>1, <2>1, <2>2, <2>3 DEF UpgradeTyped
<1>10. FleetInv
  <2>1. clu[1].members = Masters \cap Vms
    BY <1>1, <1>8
  <2> QED BY <2>1, <1>2, <1>7, <1>8 DEF FleetInv
<1>11. LoopInv /\ job.pc = "idle"
  BY <1>1 DEF LoopInv, Waiting
<1>12. VersionInv /\ NoNewerAgent
  BY <1>1, <1>11 DEF VersionInv, NoNewerAgent, Old, New, Protected
<1>13. UpInv
  BY <1>2, <1>7, <1>8 DEF UpInv, Up
<1> QED BY <1>9, <1>10, <1>11, <1>12, <1>13 DEF UpgradeInv

(******************************* The guests work ***************************)
\* NoNewerAgent is lost only where a version starts to run.
LEMMA AgentsStay ==
  ASSUME NoNewerAgent, rel' = rel, Vms' = Vms, met \subseteq met'
  PROVE  NoNewerAgent'
BY DEF NoNewerAgent

\* Nothing of the loop moves: the units at work, a lease that runs out, a fault
\* of a guest.
LEMMA NodesOnly ==
  ASSUME UpgradeInv, node' \in [Offset -> NodeState], clu' \in [Id -> ClusterState],
         ids' = ids, clu'[1].members = clu[1].members, \A v \in Offset : Belongs(v),
         UNCHANGED <<versions, job>>, met \subseteq met',
         \/ ~(met' \subseteq {"flap"})
         \/ \A v \in Offset : Keeps(v) /\ node'[v].st = node[v].st
  PROVE  UpgradeInv'
<1> USE DEF UpgradeInv, versions
<1>1. UpgradeTyped'
  BY DEF UpgradeTyped
<1>2. FleetInv' /\ Vms' = Vms /\ Upgradable' = Upgradable
  BY FleetStays
<1>3. LoopInv'
  BY <1>2 DEF LoopInv
<1>4. VersionInv'
  BY <1>2 DEF VersionInv, DealtWith
<1>5. NoNewerAgent'
  BY <1>2, AgentsStay
<1>6. UpInv'
  <2>1. CASE ~(met' \subseteq {"flap"})
    BY <2>1 DEF UpInv
  <2>2. ASSUME \A v \in Offset : Keeps(v) /\ node'[v].st = node[v].st,
               met' \subseteq {"flap"}, NEW m \in Masters \cap Vms
        PROVE  /\ Up(m)' /\ node'[m].unit \in {"starting", "active"}
               /\ node'[m].unit = "starting" => job'.pc = "restart" /\ job'.cur = m
    <3>1. Up(m) /\ node[m].unit \in {"starting", "active"}
          /\ (node[m].unit = "starting" => job.pc = "restart" /\ job.cur = m)
      BY <2>2 DEF UpInv
    <3> QED BY <2>2, <3>1, Facts DEF Up, Keeps
  <2> QED BY <1>2, <2>1, <2>2 DEF UpInv
<1> QED BY <1>1, <1>2, <1>3, <1>4, <1>5, <1>6

\* What keeps its unit and its VM stays where it belongs.
LEMMA KeepsBelongs == ASSUME NEW v, Keeps(v) PROVE Belongs(v)
BY DEF Keeps, Belongs

\* What the guests do on their own: boot, register and elect.
LEMMA GuestWorkKeeps == ASSUME UpgradeInv, GuestWork PROVE UpgradeInv'
<1>1. /\ node' \in [Offset -> NodeState] /\ clu' \in [Id -> ClusterState] /\ ids' = ids
      /\ clu'[1].members = clu[1].members
      /\ \A v \in Offset : Keeps(v) /\ node'[v].st = node[v].st
  BY Registering DEF GuestWork, UpgradeInv
<1> QED BY <1>1, KeepsBelongs, NodesOnly DEF GuestWork, tally, count

\* A missed lease changes what the API has heard, and no guest.
LEMMA LeasesKeep ==
  ASSUME UpgradeInv, UNCHANGED <<versions, job>>, met \subseteq met',
         (\E n \in Offset : LeaseExpires(1, n)) \/ (\E v \in Offset : Flap(v))
  PROVE  UpgradeInv'
<1>1. /\ UNCHANGED <<node, ids>> /\ clu' \in [Id -> ClusterState]
      /\ clu'[1].members = clu[1].members
  BY Leases DEF UpgradeInv
<1>2. node' \in [Offset -> NodeState]
  BY <1>1 DEF UpgradeInv, UpgradeTyped
<1> QED BY <1>1, <1>2, Untouched, KeepsBelongs, NodesOnly

\* A lease that expires of itself is one of those.
LEMMA ExpiryKeeps == ASSUME UpgradeInv, Expiry PROVE UpgradeInv'
BY LeasesKeep DEF Expiry, tally, count

\* A power loss or a missed lease, from outside the command.
LEMMA GuestMishapKeeps == ASSUME UpgradeInv, GuestMishap PROVE UpgradeInv'
<1>1. UNCHANGED <<versions, job>>
  BY DEF GuestMishap
<1>2. ASSUME NEW v \in Offset, Mishap("flap"), Flap(v) PROVE UpgradeInv'
  BY <1>1, <1>2, LeasesKeep DEF Mishap
<1>3. ASSUME NEW v \in Offset, Mishap("power"), PowerLoss(v) PROVE UpgradeInv'
  <2> DEFINE n == [node[v] EXCEPT !.st = "stopped"]
  <2>1. node[v] \in NodeState
    BY DEF UpgradeInv, UpgradeTyped
  <2>2. /\ n \in NodeState /\ n.st = "stopped" /\ n.unit = node[v].unit /\ n.cl = node[v].cl
        /\ n.role = node[v].role /\ n.known = node[v].known
    BY <2>1 DEF NodeState
  <2>3. node' = [node EXCEPT ![v] = n] /\ node[v].st = "running" /\ UNCHANGED <<clu, ids>>
    BY <1>3 DEF PowerLoss, Up
  <2> HIDE DEF n
  <2>4. node' \in [Offset -> NodeState] /\ node'[v] = n
        /\ \A u \in Offset \ {v} : node'[u] = node[u]
    BY <2>2, <2>3, OneVm DEF UpgradeInv
  <2>5. \A u \in Offset : Belongs(u)
    BY <2>2, <2>3, <2>4, Untouched, KeepsBelongs DEF Belongs
  <2>6. ~(met' \subseteq {"flap"}) /\ met \subseteq met'
    BY <1>3 DEF Mishap
  <2> QED BY <1>1, <2>3, <2>4, <2>5, <2>6, NodesOnly DEF UpgradeInv, UpgradeTyped
<1> QED BY <1>2, <1>3 DEF GuestMishap

(*************************** The steps of the loop *************************)
\* A step of the loop itself changes no guest and no version.
LEMMA LoopOnly ==
  ASSUME UpgradeInv, UNCHANGED <<gvars, versions>>, job' \in JobState, met \subseteq met'
  PROVE  /\ UpgradeTyped' /\ FleetInv' /\ NoNewerAgent'
         /\ Vms' = Vms /\ Upgradable' = Upgradable
<1>1. UpgradeTyped' /\ clu'[1].members = clu[1].members
  BY DEF UpgradeInv, UpgradeTyped, gvars, versions
<1>2. \A v \in Offset : Belongs(v)
  BY Untouched, KeepsBelongs DEF gvars
<1> QED BY <1>1, <1>2, FleetStays, AgentsStay DEF UpgradeInv, versions

\* Nothing changes but where the loop is: no master starts unless one did.
LEMMA NobodyStarts ==
  ASSUME UpgradeInv, UNCHANGED gvars, Vms' = Vms,
         \/ ~(met' \subseteq {"flap"})
         \/ /\ met' = met
            /\ \A m \in Masters \cap Vms : Up(m) => node[m].unit # "starting"
  PROVE  UpInv'
BY DEF UpgradeInv, UpInv, Up, gvars

\* The loop takes the lowest node that is left.
LEMMA NextNodeKeeps ==
  ASSUME UpgradeInv, NEW v \in Offset, NextNode(v) PROVE UpgradeInv'
<1> USE Facts
<1>1. /\ job.pc = "next" /\ v \in job.left /\ \A w \in job.left : v <= w
      /\ job' = [pc |-> "install", cur |-> v, left |-> job.left \ {v}]
      /\ UNCHANGED <<gvars, versions, met>>
  BY DEF NextNode, Doing, InOrder, tally, count
<1>2. job' \in JobState /\ job'.pc = "install" /\ job'.cur = v /\ job'.left = job.left \ {v}
  BY <1>1 DEF UpgradeInv, UpgradeTyped, JobState
<1>3. /\ UpgradeTyped' /\ FleetInv' /\ NoNewerAgent'
      /\ Vms' = Vms /\ Upgradable' = Upgradable
  BY <1>1, <1>2, LoopOnly
<1>4. LoopInv'
  BY <1>1, <1>2, <1>3 DEF UpgradeInv, LoopInv
<1>5. VersionInv'
  <2>1. \A u \in Offset : DealtWith(u)' => DealtWith(u)
    BY <1>1, <1>2 DEF DealtWith
  <2> QED BY <1>1, <1>2, <1>3, <2>1 DEF UpgradeInv, VersionInv, versions, Upgradable, Vms
<1>6. UpInv'
  <2>1. met \subseteq {"flap"} =>
          \A m \in Masters \cap Vms : Up(m) => node[m].unit # "starting"
    BY <1>1 DEF UpgradeInv, UpInv
  <2> QED BY <1>1, <1>3, <2>1, NobodyStarts
<1> QED BY <1>3, <1>4, <1>5, <1>6 DEF UpgradeInv

\* The waits of the loop: only where it is changes, and the node in hand has
\* been installed.
LEMMA ReturnsKeeps == ASSUME UpgradeInv, Returns PROVE UpgradeInv'
<1> USE Facts
<1>1. /\ job.pc = "restart" /\ CameUp /\ job' = [job EXCEPT !.pc = "wait"]
      /\ UNCHANGED <<gvars, versions, met>>
  BY DEF Returns, Doing, Then, tally, count
<1>2. job' \in JobState /\ job'.pc = "wait" /\ job'.cur = job.cur /\ job'.left = job.left
  BY <1>1 DEF UpgradeInv, UpgradeTyped, JobState
<1>3. /\ UpgradeTyped' /\ FleetInv' /\ NoNewerAgent'
      /\ Vms' = Vms /\ Upgradable' = Upgradable
  BY <1>1, <1>2, LoopOnly
<1>4. LoopInv'
  BY <1>1, <1>2, <1>3 DEF UpgradeInv, LoopInv
<1>5. VersionInv'
  <2>1. \A u \in Offset : DealtWith(u)' => DealtWith(u)
    BY <1>1, <1>2 DEF DealtWith
  <2> QED BY <1>1, <1>2, <1>3, <2>1 DEF UpgradeInv, VersionInv, versions, Upgradable, Vms
<1>6. UpInv'
  <2>1. met \subseteq {"flap"} =>
          \A m \in Masters \cap Vms : Up(m) => node[m].unit # "starting"
    BY <1>1 DEF UpgradeInv, UpInv, CameUp
  <2> QED BY <1>1, <1>3, <2>1, NobodyStarts
<1> QED BY <1>3, <1>4, <1>5, <1>6 DEF UpgradeInv

\* The node is Ready and, without a lost lease, its k3s is up again.
LEMMA WaitReadyKeeps == ASSUME UpgradeInv, WaitReady PROVE UpgradeInv'
<1> USE Facts
<1>1. /\ job.pc = "wait" /\ job' = [job EXCEPT !.pc = "next"]
      /\ UNCHANGED <<gvars, versions, met>>
  BY DEF WaitReady, Doing, Then, tally, count
<1>2. job' \in JobState /\ job'.pc = "next" /\ job'.cur = job.cur /\ job'.left = job.left
  BY <1>1 DEF UpgradeInv, UpgradeTyped, JobState
<1>3. /\ UpgradeTyped' /\ FleetInv' /\ NoNewerAgent'
      /\ Vms' = Vms /\ Upgradable' = Upgradable
  BY <1>1, <1>2, LoopOnly
<1>4. LoopInv'
  BY <1>1, <1>2, <1>3 DEF UpgradeInv, LoopInv
<1>5. VersionInv'
  <2>1. \A u \in Offset : DealtWith(u)' => DealtWith(u)
    BY <1>1, <1>2 DEF DealtWith
  <2> QED BY <1>1, <1>2, <1>3, <2>1 DEF UpgradeInv, VersionInv, versions, Upgradable, Vms
<1>6. UpInv'
  <2>1. met \subseteq {"flap"} =>
          \A m \in Masters \cap Vms : Up(m) => node[m].unit # "starting"
    BY <1>1 DEF UpgradeInv, UpInv
  <2> QED BY <1>1, <1>3, <2>1, NobodyStarts
<1> QED BY <1>3, <1>4, <1>5, <1>6 DEF UpgradeInv

(**************************** The upgrade is over **************************)
\* An upgrade may end, or be cut short, wherever no master is starting.
LEMMA Ended ==
  ASSUME UpgradeInv, UNCHANGED <<gvars, versions>>, job' = Waiting, met \subseteq met',
         \/ ~(met' \subseteq {"flap"})
         \/ /\ met' = met
            /\ \A m \in Masters \cap Vms : Up(m) => node[m].unit # "starting"
  PROVE  UpgradeInv'
<1> USE Facts
<1>1. job' \in JobState /\ job'.pc = "idle" /\ job'.left = {}
  BY DEF Waiting, JobState
<1>2. /\ UpgradeTyped' /\ FleetInv' /\ NoNewerAgent'
      /\ Vms' = Vms /\ Upgradable' = Upgradable
  BY <1>1, LoopOnly
<1>3. LoopInv'
  BY <1>1 DEF LoopInv
<1>4. VersionInv'
  BY <1>1 DEF UpgradeInv, VersionInv, versions
<1>5. UpInv'
  BY <1>2, NobodyStarts
<1> QED BY <1>2, <1>3, <1>4, <1>5 DEF UpgradeInv

\* Without a fault but a missed lease all masters are up, so that etcd has its
\* quorum: a server that is starting can go on.
LEMMA ServerGoesOn ==
  ASSUME UpgradeInv, met \subseteq {"flap"}, NEW m \in Masters \cap Vms,
         node[m].unit = "starting"
  PROVE  ~Quiescent
<1> USE Facts
<1>1. \A v \in Masters \cap Vms :
        /\ v \in Upgradable /\ node[v].cl = 1 /\ 1 \in node[v].known
        /\ Runs(v) /\ v \in clu[1].members
  BY DEF UpgradeInv, FleetInv, UpInv, Runs, Upgradable
<1>2. clu[1].members = Masters \cap Vms
  BY DEF UpgradeInv, FleetInv
<1>3. {v \in clu[1].members : Serves(v, 1)} = clu[1].members
  BY <1>1, <1>2 DEF Serves
<1>4. Cardinality(clu[1].members) \in Nat /\ Cardinality(clu[1].members) # 0
  <2>1. IsFiniteSet(Masters \cap Vms)
    <3>1. IsFiniteSet({}) /\ IsFiniteSet({} \cup {1}) /\ IsFiniteSet(({} \cup {1}) \cup {2})
          /\ IsFiniteSet((({} \cup {1}) \cup {2}) \cup {3})
      BY FS_EmptySet, FS_AddElement
    <3>2. Masters = (({} \cup {1}) \cup {2}) \cup {3}
      BY DEF Masters
    <3> QED BY <3>1, <3>2, FS_Intersection
  <2> QED BY <1>2, <2>1, FS_CardinalityType, FS_EmptySet
<1>5. Quorum(1)
  <2> DEFINE all == Cardinality(clu[1].members)
  <2>1. Quorum(1) <=> 2 * all > all
    BY <1>3, Zenon DEF Quorum
  <2> HIDE DEF all
  <2>2. all \in Nat /\ all # 0
    BY <1>4 DEF all
  <2> QED BY <2>1, <2>2
<1>6. ApiAt(m) /\ PasswordFits(m, 1)
  BY <1>1, <1>5 DEF ApiAt, Serves, PasswordFits
<1>7. CanRegister(m)
  BY <1>1, <1>6 DEF CanRegister, UpgradeInv, FleetInv
<1> QED BY <1>7 DEF Quiescent

\* However the command ends, undisturbed, no k3s is still coming up.
LEMMA EndsKeep ==
  ASSUME UpgradeInv, TimedOut \/ HangsOn \/ NoAnswer \/ Done PROVE UpgradeInv'
<1> USE Facts
<1>1. job' = Waiting /\ UNCHANGED <<gvars, versions, met>>
  BY DEF TimedOut, HangsOn, NoAnswer, Done, End, count
<1>2. ASSUME met \subseteq {"flap"}, NEW m \in Masters \cap Vms, node[m].unit = "starting"
      PROVE  FALSE
  <2>1. job.pc = "restart" /\ job.cur = m /\ Up(m)
    BY <1>2 DEF UpgradeInv, UpInv
  <2>2. ~Quiescent
    BY <1>2, ServerGoesOn
  <2> QED BY <2>1, <2>2 DEF TimedOut, HangsOn, NoAnswer, Done, Doing
<1>3. \/ ~(met' \subseteq {"flap"})
      \/ /\ met' = met
         /\ \A m \in Masters \cap Vms : Up(m) => node[m].unit # "starting"
  BY <1>1, <1>2
<1> QED BY <1>1, <1>3, Ended

\* A cut leaves the versions as they were.
LEMMA InterruptKeeps == ASSUME UpgradeInv, Interrupt PROVE UpgradeInv'
<1>1. /\ job' = Waiting /\ UNCHANGED <<gvars, versions>>
      /\ met \subseteq met' /\ ~(met' \subseteq {"flap"})
  BY DEF Interrupt, Mishap
<1> QED BY <1>1, Ended

(****************************** The VMs change *****************************)
\* Whatever is stopped is powered on: its unit starts with what is installed.
LEMMA InvokeKeeps == ASSUME UpgradeInv, Invoke PROVE UpgradeInv'
<1> USE Facts
<1> DEFINE boots == {v \in Vms \ {Image} : node[v].st = "stopped"}
<1>1. /\ job.pc = "idle" /\ UNCHANGED <<clu, ids, disk, met>>
      /\ node' = [v \in Offset |-> IF v \in boots THEN Booted(node[v]) ELSE node[v]]
      /\ rel'  = [v \in Offset |-> IF v \in boots THEN disk[v] ELSE rel[v]]
      /\ job' = [pc |-> "next", cur |-> M1, left |-> Upgradable]
  BY DEF Invoke, Doing
<1>2. \A v \in Offset : node[v] \in NodeState
  BY DEF UpgradeInv, UpgradeTyped
<1>3. ASSUME NEW v \in Offset
      PROVE  node'[v] \in NodeState /\ Belongs(v)
             /\ (node[v].st = "running" => node'[v] = node[v])
  <2>1. CASE v \in boots
    <3>1. node'[v] = Booted(node[v]) /\ node[v].st = "stopped"
      BY <1>1, <2>1
    <3> QED BY <1>2, <3>1, VmOps DEF Belongs
  <2>2. CASE v \notin boots
    <3>1. node'[v] = node[v]
      BY <1>1, <2>2
    <3> QED BY <1>2, <3>1, Untouched, KeepsBelongs
  <2> QED BY <2>1, <2>2
<1>4. job' \in JobState /\ job'.pc = "next" /\ job'.left = Upgradable
  BY <1>1 DEF JobState, Upgradable, Vms
<1>5. rel' \in [Offset -> {Old, New}]
  BY <1>1 DEF UpgradeInv, UpgradeTyped
<1>6. UpgradeTyped'
  <2>1. node' \in [Offset -> NodeState]
    BY <1>1, <1>3
  <2> QED BY <1>1, <1>4, <1>5, <2>1 DEF UpgradeInv, UpgradeTyped
<1>7. FleetInv' /\ Vms' = Vms /\ Upgradable' = Upgradable
  BY <1>1, <1>3, FleetStays DEF UpgradeInv
<1>8. LoopInv'
  BY <1>4, <1>7 DEF LoopInv
<1>9. "installer" \notin met => rel' = rel
  BY <1>1 DEF UpgradeInv, UpgradeTyped, VersionInv
<1>10. VersionInv'
  <2>1. \A v \in Protected : disk'[v] = Old /\ rel'[v] = Old
    BY <1>1 DEF UpgradeInv, VersionInv, Protected
  <2>2. \A v \in Upgradable : ~DealtWith(v)'
    BY <1>4 DEF DealtWith
  <2> QED BY <1>1, <1>7, <1>9, <2>1, <2>2 DEF UpgradeInv, VersionInv
<1>11. NoNewerAgent'
  BY <1>1, <1>7, <1>9 DEF UpgradeInv, NoNewerAgent
<1>12. UpInv'
  <2>1. met \subseteq {"flap"} => \A m \in Masters \cap Vms : node'[m] = node[m]
    BY <1>3 DEF UpgradeInv, UpInv, Up
  <2> QED BY <1>1, <1>7, <2>1 DEF UpgradeInv, UpInv, Up
<1> QED BY <1>6, <1>7, <1>8, <1>10, <1>11, <1>12 DEF UpgradeInv

\* The installer works: every master is new before the first agent is.
LEMMA InstallKeeps == ASSUME UpgradeInv, Install PROVE UpgradeInv'
<1> USE Facts
<1> DEFINE v == job.cur
<1>1. /\ job.pc = "install" /\ Up(v) /\ job' = [job EXCEPT !.pc = "restart"]
      /\ disk' = [disk EXCEPT ![v] = New] /\ UNCHANGED <<clu, ids, met>>
      /\ \/ disk[v] = New /\ UNCHANGED <<node, rel>>
         \/ /\ node' = [node EXCEPT ![v] = Restarted(@)]
            /\ rel' = [rel EXCEPT ![v] = New]
  BY DEF Install, Doing, Then, tally, count
<1>2. v \in Upgradable /\ v \in Offset /\ v \notin Protected /\ node[v] \in NodeState
  BY <1>1 DEF UpgradeInv, UpgradeTyped, LoopInv, Upgradable, Vms
<1>3. /\ job' \in JobState /\ job'.pc = "restart" /\ job'.cur = v /\ job'.left = job.left
  BY <1>1 DEF UpgradeInv, UpgradeTyped, JobState
<1> HIDE DEF v
<1>4. disk' \in [Offset -> {Old, New}] /\ rel' \in [Offset -> {Old, New}]
  BY <1>1, <1>2 DEF UpgradeInv, UpgradeTyped
<1>5. /\ node' \in [Offset -> NodeState]
      /\ \A u \in Offset \ {v} : node'[u] = node[u]
      /\ node'[v] \in {node[v], Restarted(node[v])}
  <2>1. Restarted(node[v]) \in NodeState
    BY <1>2, VmOps
  <2> QED BY <1>1, <1>2, <2>1 DEF UpgradeInv, UpgradeTyped
<1>6. \A u \in Offset : Belongs(u)
  <2>1. Belongs(v)
    BY <1>2, <1>5, VmOps, Untouched, KeepsBelongs DEF Belongs
  <2> QED BY <1>5, <2>1, Untouched, KeepsBelongs
<1>7. UpgradeTyped'
  BY <1>1, <1>3, <1>4, <1>5 DEF UpgradeInv, UpgradeTyped
<1>8. FleetInv' /\ Vms' = Vms /\ Upgradable' = Upgradable
  BY <1>1, <1>6, FleetStays DEF UpgradeInv
<1>9. LoopInv'
  BY <1>1, <1>2, <1>3, <1>8 DEF UpgradeInv, LoopInv, v
<1>10. /\ \A u \in Offset \ {v} : rel'[u] = rel[u] /\ disk'[u] = disk[u]
       /\ disk'[v] = New
       /\ "installer" \notin met => rel'[v] = New
  BY <1>1, <1>2 DEF UpgradeInv, UpgradeTyped, VersionInv
<1>11. \A u \in Offset \ {v} : DealtWith(u)' => DealtWith(u)
  BY <1>1, <1>3 DEF DealtWith, v
<1>12. VersionInv'
  <2>1. \A u \in Protected : disk'[u] = Old /\ rel'[u] = Old
    BY <1>2, <1>10 DEF UpgradeInv, VersionInv, Protected
  <2>2. ASSUME "installer" \notin met PROVE disk' = rel'
    <3>1. \A u \in Offset : disk'[u] = rel'[u]
      BY <1>10, <2>2 DEF UpgradeInv, VersionInv
    <3> QED BY <1>4, <3>1
  <2>3. ASSUME "installer" \notin met, NEW u \in Upgradable, DealtWith(u)'
        PROVE  rel'[u] = New
    BY <1>1, <1>10, <1>11, <2>3 DEF UpgradeInv, VersionInv, Upgradable, Vms
  <2> QED BY <1>1, <1>8, <2>1, <2>2, <2>3 DEF VersionInv
<1>13. NoNewerAgent'
  <2>1. ASSUME "installer" \notin met, NEW w \in Workers, NEW m \in Masters,
               w \in Vms, m \in Vms, rel'[w] = New
        PROVE  rel'[m] = New
    <3>1. CASE w = v
      <4>1. DealtWith(m)' /\ m \in Upgradable
        BY <1>1, <1>3, <2>1, <3>1 DEF DealtWith, UpgradeInv, LoopInv, UpgradeTyped,
           JobState, Upgradable, v
      <4> QED BY <1>1, <1>3, <1>8, <1>12, <2>1, <4>1 DEF VersionInv
    <3>2. CASE w # v
      BY <1>10, <2>1, <3>2 DEF UpgradeInv, NoNewerAgent
    <3> QED BY <3>1, <3>2
  <2> QED BY <1>1, <1>8, <2>1 DEF NoNewerAgent
<1>14. UpInv'
  <2>1. ASSUME met \subseteq {"flap"}, NEW m \in Masters \cap Vms
        PROVE  /\ Up(m)' /\ node'[m].unit \in {"starting", "active"}
               /\ node'[m].unit = "starting" => job'.pc = "restart" /\ job'.cur = m
    <3>1. /\ Up(m) /\ node[m].unit \in {"starting", "active"}
          /\ node[m].unit # "starting"
      BY <1>1, <2>1 DEF UpgradeInv, UpInv
    <3>2. CASE m = v
      BY <1>1, <1>2, <1>3, <1>5, <3>1, <3>2, VmOps DEF Up
    <3>3. CASE m # v
      BY <1>5, <3>1, <3>3 DEF Up
    <3> QED BY <3>2, <3>3
  <2> QED BY <1>1, <1>8, <2>1 DEF UpInv
<1> QED BY <1>7, <1>8, <1>9, <1>12, <1>13, <1>14 DEF UpgradeInv

\* An installer that fails changes what is installed, and not what runs.
LEMMA InstallerFailsKeeps == ASSUME UpgradeInv, InstallerFails PROVE UpgradeInv'
<1> USE Facts
<1> DEFINE v == job.cur
<1>1. /\ job.pc = "install" /\ job' = [job EXCEPT !.pc = "restart"]
      /\ UNCHANGED <<clu, ids, rel>> /\ "installer" \in met'
      /\ \/ UNCHANGED <<node, disk>>
         \/ /\ node' = [node EXCEPT ![v] = Killed(@)]
            /\ disk' = [disk EXCEPT ![v] = New]
  BY DEF InstallerFails, Mishap, Doing, Then, versions
<1>2. v \in Upgradable /\ v \in Offset /\ v \notin Protected /\ node[v] \in NodeState
  BY <1>1 DEF UpgradeInv, UpgradeTyped, LoopInv, Upgradable, Vms
<1>3. /\ job' \in JobState /\ job'.pc = "restart" /\ job'.cur = v /\ job'.left = job.left
  BY <1>1 DEF UpgradeInv, UpgradeTyped, JobState
<1> HIDE DEF v
<1>4. disk' \in [Offset -> {Old, New}] /\ \A u \in Offset \ {v} : disk'[u] = disk[u]
  BY <1>1, <1>2 DEF UpgradeInv, UpgradeTyped
<1>5. /\ node' \in [Offset -> NodeState]
      /\ \A u \in Offset \ {v} : node'[u] = node[u]
      /\ node'[v] \in {node[v], Killed(node[v])}
  <2>1. Killed(node[v]) \in NodeState
    BY <1>2, VmOps
  <2> QED BY <1>1, <1>2, <2>1 DEF UpgradeInv, UpgradeTyped
<1>6. \A u \in Offset : Belongs(u)
  <2>1. Belongs(v)
    BY <1>2, <1>5, VmOps, Untouched, KeepsBelongs DEF Belongs
  <2> QED BY <1>5, <2>1, Untouched, KeepsBelongs
<1>7. UpgradeTyped'
  BY <1>1, <1>3, <1>4, <1>5 DEF UpgradeInv, UpgradeTyped
<1>8. FleetInv' /\ Vms' = Vms /\ Upgradable' = Upgradable
  BY <1>1, <1>6, FleetStays DEF UpgradeInv
<1>9. LoopInv'
  BY <1>1, <1>2, <1>3, <1>8 DEF UpgradeInv, LoopInv, v
<1>10. VersionInv'
  BY <1>1, <1>2, <1>4 DEF UpgradeInv, VersionInv, Protected
<1>11. NoNewerAgent' /\ UpInv'
  BY <1>1 DEF NoNewerAgent, UpInv
<1> QED BY <1>7, <1>8, <1>9, <1>10, <1>11 DEF UpgradeInv

(******************************* The theorems ******************************)
LEMMA StepKeeps == ASSUME UpgradeInv, [UpgradeNext]_uvars PROVE UpgradeInv'
<1>1. ASSUME UNCHANGED uvars PROVE UpgradeInv'
  BY <1>1 DEF uvars, gvars, UpgradeInv, UpgradeTyped, FleetInv, LoopInv, VersionInv, DealtWith,
     UpInv, NoNewerAgent, Upgradable, Vms, Up
<1>2. ASSUME UpgradeStep PROVE UpgradeInv'
  BY <1>2, NextNodeKeeps, InstallKeeps, ReturnsKeeps, WaitReadyKeeps, EndsKeep DEF UpgradeStep
<1> QED BY <1>1, <1>2, InvokeKeeps, GuestWorkKeeps, ExpiryKeeps, InstallerFailsKeeps,
           InterruptKeeps, GuestMishapKeeps DEF UpgradeNext

\* The invariant the others follow from.
THEOREM UpgradeInvariant == UpgradeSpec => []UpgradeInv
<1>1. UpgradeInit => UpgradeInv
  BY Built
<1>2. UpgradeInv /\ [UpgradeNext]_uvars => UpgradeInv'
  BY StepKeeps
<1> QED BY <1>1, <1>2, PTL DEF UpgradeSpec

\* kopsrox_k3s.py:285, masters first: where the installer works, and whatever is
\* cut short, powered off or begun again, no agent is ever newer than a server.
THEOREM MastersFirst == UpgradeSpec => []NoNewerAgent
<1>1. UpgradeInv => NoNewerAgent
  BY DEF UpgradeInv
<1> QED BY <1>1, UpgradeInvariant, PTL

\* kopsrox_k3s.py:310: where the installer works, an upgrade that says so has
\* been on every k3s node, and on no other VM.
THEOREM UpgradedMeansAll == UpgradeSpec => AllUpgraded
<1> DEFINE says == job.pc # "idle" /\ verdict' = "upgraded" /\ job'.pc = "idle"
                     /\ "installer" \notin met
                   => \A v \in Vms : rel[v] = New <=> v \notin Protected
<1>1. ASSUME UpgradeInv, Done PROVE says
  <2>1. job.pc = "next" /\ job.left = {}
    BY <1>1 DEF Done, Doing
  <2>2. \A v \in Vms : v \in Offset /\ (v \in Upgradable <=> v \notin Protected)
    BY Facts DEF Vms, Upgradable
  <2>3. \A v \in Upgradable : DealtWith(v)
    BY <2>1 DEF DealtWith
  <2> QED BY <1>1, <2>1, <2>2, <2>3 DEF UpgradeInv, VersionInv, Old, New
<1>2. ASSUME UpgradeInv, [UpgradeNext]_uvars, ~Done PROVE says
  <2>1. CASE UNCHANGED job
    BY <2>1
  <2>2. CASE verdict' = "failed"
    BY <2>2
  <2>3. CASE job'.pc # "idle"
    BY <2>3
  <2>4. \/ UNCHANGED job \/ verdict' = "failed" \/ job'.pc # "idle"
    <3>1. job \in JobState
      BY <1>2 DEF UpgradeInv, UpgradeTyped
    <3> QED BY <1>2, <3>1 DEF UpgradeNext, UpgradeStep, Invoke, NextNode, Install, Returns,
         WaitReady, TimedOut, HangsOn, NoAnswer, GuestWork, Expiry, InstallerFails, Interrupt,
         GuestMishap, Then, End, uvars, JobState
  <2> QED BY <2>1, <2>2, <2>3, <2>4
<1>3. UpgradeInv /\ [UpgradeNext]_uvars => says
  BY <1>1, <1>2
<1> QED BY <1>3, UpgradeInvariant, PTL DEF UpgradeSpec, AllUpgraded

\* kopsrox_k3s.py:301, never more than one master down at once: without a fault
\* but a missed lease, no k3s is taken down while that of another running master
\* is not up.
THEOREM OneMasterDown == UpgradeSpec => OneDown
<1> DEFINE one == job.pc = "install" /\ job.cur \in MastersDown' /\ met \subseteq {"flap"}
                    => MastersDown' = {job.cur}
<1>1. ASSUME UpgradeInv, [UpgradeNext]_uvars, job.pc = "install", met \subseteq {"flap"},
             job.cur \in MastersDown'
      PROVE  MastersDown' = {job.cur}
  <2> USE Facts
  <2>1. ASSUME NEW m \in Masters, m \in MastersDown PROVE FALSE
    BY <1>1, <2>1 DEF UpgradeInv, UpInv, MastersDown, Vms, Up
  <2>2. ASSUME NEW m \in Masters, m \in MastersDown', m # job.cur PROVE FALSE
    <3>1. CASE node'[m] = node[m]
      BY <2>1, <2>2, <3>1 DEF MastersDown, Up
    <3>2. CASE Keeps(m) /\ node'[m].st = node[m].st
      BY <2>1, <2>2, <3>2 DEF MastersDown, Up, Keeps
    <3>3. CASE node'[m].st = "stopped"
      BY <2>2, <3>3 DEF MastersDown, Up
    <3>4. ASSUME GuestWork PROVE Keeps(m) /\ node'[m].st = node[m].st
      BY <1>1, <3>4, Registering DEF GuestWork, UpgradeInv
    <3>5. ASSUME Expiry \/ GuestMishap
          PROVE  node'[m] = node[m] \/ node'[m].st = "stopped"
      <4>1. node[m] \in NodeState /\ node \in [Offset -> NodeState]
        BY <1>1 DEF UpgradeInv, UpgradeTyped
      <4>2. ASSUME NEW v \in Offset, PowerLoss(v)
            PROVE  node'[m] = node[m] \/ node'[m].st = "stopped"
        BY <4>1, <4>2 DEF PowerLoss, NodeState
      <4> QED BY <3>5, <4>2 DEF Expiry, GuestMishap, LeaseExpires, Flap
    <3>6. ASSUME ~GuestWork, ~Expiry, ~GuestMishap PROVE node'[m] = node[m]
      <4>1. node \in [Offset -> NodeState]
        BY <1>1 DEF UpgradeInv, UpgradeTyped
      <4> QED BY <1>1, <2>2, <3>6, <4>1 DEF UpgradeNext, UpgradeStep, Invoke, NextNode, Install,
           Returns, WaitReady, TimedOut, HangsOn, NoAnswer, Done, InstallerFails, Interrupt,
           Doing, uvars, gvars
    <3> QED BY <3>1, <3>2, <3>3, <3>4, <3>5, <3>6
  <2> QED BY <1>1, <2>2 DEF MastersDown
<1>2. UpgradeInv /\ [UpgradeNext]_uvars => one
  BY <1>1
<1> QED BY <1>2, UpgradeInvariant, PTL DEF UpgradeSpec, OneDown
=============================================================================
