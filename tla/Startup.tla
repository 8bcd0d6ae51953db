------------------------------ MODULE Startup -------------------------------
(***************************************************************************)
(* What happens before a command runs: kopsrox.ini is created on the first *)
(* use and edited by hand, the shell's words are looked up, every option   *)
(* is validated, the host is discovered in one call and its checks made,   *)
(* stopped VMs are powered on.  Host and user may interfere.               *)
(***************************************************************************)
EXTENDS Integers, Sequences, FiniteSets

CONSTANTS
  Argvs,          \* the command lines of the run: [verb, cmd, arg]
  Starts,         \* kopsrox.ini and host at first, and the counters' start values
  Edits,          \* what the user may write into kopsrox.ini: <<option, value>>
  MaxEdits, MaxInvocations, MaxMoves   \* bounds: edits, commands, host's moves

VARIABLES
  file,     \* kopsrox.ini: option -> value, or NoFile
  host,     \* the Proxmox node
  argv, stage, disc, todo, reason,
  edits, invocations, moves

svars == <<file, host, argv, stage, disc, todo, reason, edits, invocations, moves>>
user  == <<file, edits>>

(******************************* The schema ********************************)
Commented  == {"microvm_kernel", "microvm_initrd", "nfs_server", "nfs_path",
               "kubelet_args", "s3_region"}
Checked    == {"vm_disk", "vm_cpu", "vm_ram", "cluster_id", "masters"}
Ints       == Checked \cup {"network_mtu", "workers"}
BlankOk    == {"extra_packages", "nfs_server", "kubelet_args"}
MustChange == {"localsshkey", "s3_endpoint", "s3_access-key", "s3_access-secret", "s3_bucket"}
Options    == Commented \cup Ints \cup MustChange \cup
  {"proxmox_storage", "oci_image", "extra_packages", "localuser", "localpass",
   "network_bridge", "network_ip", "network_mask", "network_gw", "network_dns",
   "cluster_name", "k3s_version"}
\* A value: missing, blank, the shipped default, wrong (no number, no key),
\* outside (a number out of the range a check allows), good.
NoFile == [o \in {} |-> "missing"]

Values(o) == {"missing", "blank", "default", "good"}
               \cup (IF o \in Ints \cup {"localsshkey"} THEN {"wrong"} ELSE {})
               \cup (IF o \in Checked THEN {"outside"} ELSE {})
Ini(f) == DOMAIN f = Options /\ \A o \in Options : f[o] \in Values(o)

\* render_ini: a commented option is not there.
Shipped == [o \in Options |-> IF o \in Commented THEN "missing" ELSE "default"]

\* validate: what resolve() aborts on.  Mutant: a placeholder is known by its form.
JustMalformed(o) == o = "localsshkey" /\ file[o] = "default"
Absent(o)      == o \notin Commented /\ file[o] = "missing"
Placeholder(o) == o \in MustChange /\ file[o] = "default"
Rejected(o) ==
  \/ Absent(o) \/ Placeholder(o)
  \/ file[o] = "blank" /\ (o \in Ints \/ o \notin BlankOk \cup Commented)
  \/ file[o] = "wrong" /\ o \in Ints \cup {"localsshkey"}
  \/ file[o] = "outside" /\ o \in Checked

(****************************** Command lines ******************************)
Cmds == [image   |-> {"info", "create", "destroy"},
         cluster |-> {"info", "create", "update", "destroy", "restore", "exec"},
         k3s     |-> {"export-token", "kubeconfig", "check-config", "kubectl",
                      "reload-kubevip", "upgrade"},
         etcd    |-> {"snapshot", "list", "prune"},
         config  |-> {"check"},
         node    |-> {"destroy", "utility", "terminal", "ssh", "reboot",
                      "k3s-uninstall", "rejoin-slave"}]
TakesArg(a) == \/ a.cmd \in {"exec", "kubectl"}
               \/ a.verb = "node" /\ a.cmd # "utility"
Known(a) == /\ a.verb \in DOMAIN Cmds /\ a.cmd \in Cmds[a.verb]
            /\ TakesArg(a) => a.arg
NoArgv == [verb |-> "none", cmd |-> "none", arg |-> FALSE]
NoImageCmd(a) == <<a.verb, a.cmd>> \in {<<"image", "create">>, <<"image", "destroy">>,
                                        <<"config", "check">>}
PowersOn(a) == a.verb \in {"cluster", "k3s", "etcd", "node"}
PingsM1(a)  == a.verb = "cluster" \/ (a.verb = "image" /\ a.cmd = "create")
Builds(a)   == a.verb = "image" /\ a.cmd = "create"

(******************************** The host *********************************)
\* VMs by their offset from cluster_id; 10 is the next cluster's image.
\* sudo: root or passwordless, a cached credential, a password is wanted.
Image == 0
M1    == 1
Exist == {v \in DOMAIN host.vm : host.vm[v] # "absent"}
\* The ids discovery takes for ours.  Mutant: one too many.
OneMore == 0..10
Ours    == 0..9
\* The VMs to power on.  Mutant: only the masters.
StoppedMasters == {v \in DOMAIN disc \cap (1..3) : disc[v] = "stopped"}
Stopped == {v \in DOMAIN disc \ {Image} : disc[v] = "stopped"}

Vm == {"absent", "stopped", "running"}
Hosts == [pve : BOOLEAN, sudo : {"root", "cached", "password"}, storage : BOOLEAN,
          starts : BOOLEAN, agent : BOOLEAN, microvm : {"new", "old"},
          bridge : {"known", "unknown", "malformed"}, vm : UNION {[D -> Vm] : D \in SUBSET (0..10)}]

ASSUME StartsAssumption ==
  /\ \A s \in Starts : s.file = NoFile \/ Ini(s.file)
  /\ \A s \in Starts : s.host \in Hosts
  /\ \A s \in Starts : s.edits \in Nat /\ s.invocations \in Nat /\ s.moves \in Nat
ASSUME EditsAssumption == \A e \in Edits : e[1] \in Options /\ e[2] \in Values(e[1])

SInit ==
  /\ \E s \in Starts : /\ file = s.file /\ host = s.host
                       /\ edits = s.edits /\ invocations = s.invocations /\ moves = s.moves
  /\ argv = NoArgv /\ stage = "over" /\ disc = <<>> /\ todo = {} /\ reason = "none"

\* The user: one option at a time; one whose name is misspelt is missing.
Edit == /\ stage = "over" /\ file # NoFile /\ edits < MaxEdits /\ edits' = edits + 1
        /\ \E e \in Edits : \E value \in {e[2], "missing"} :
             file' = [file EXCEPT ![e[1]] = value]
        /\ UNCHANGED <<host, argv, stage, disc, todo, reason, invocations, moves>>

Goes(s)   == stage' = s /\ UNCHANGED <<reason, argv>>
Aborts(r) == stage' = "over" /\ reason' = r /\ argv' = NoArgv

\* kopsrox.py: without a kopsrox.ini one is written, and that is all.
Invoke == /\ stage = "over" /\ invocations < MaxInvocations /\ invocations' = invocations + 1
          /\ disc' = <<>> /\ todo' = {}
          /\ IF file = NoFile THEN file' = Shipped /\ Aborts("shipped")
             ELSE /\ UNCHANGED file
                  /\ \E a \in Argvs : IF Known(a) THEN stage' = "ini" /\ argv' = a /\ UNCHANGED reason
                                                  ELSE Aborts("usage")
          /\ UNCHANGED <<host, edits, moves>>

Validate == /\ stage = "ini"
            /\ IF \E o \in Options : Rejected(o) THEN Aborts("ini") ELSE Goes("host")
            /\ UNCHANGED <<user, host, disc, todo, invocations, moves>>

\* sudo_check: `sudo -n true` succeeds with a cached credential too.
CheckHost == /\ stage = "host"
             /\ IF ~host.pve THEN Aborts("host")
                ELSE IF host.sudo = "password" THEN Aborts("sudo") ELSE Goes("discover")
             /\ UNCHANGED <<user, host, disc, todo, invocations, moves>>

\* Every later pve_run is a plain `sudo`: it waits where a password is wanted.
Sudo == host.sudo # "password"

Discover == /\ stage = "discover" /\ Sudo
            /\ disc' = [v \in Exist \cap Ours |-> host.vm[v]]
            /\ IF ~host.storage THEN Aborts("storage")
               ELSE IF ~NoImageCmd(argv) /\ Image \notin Exist THEN Aborts("image")
               ELSE Goes("found")
            /\ UNCHANGED <<user, host, todo, invocations, moves>>

Decide == /\ stage = "found"
          /\ todo' = (IF PowersOn(argv) THEN Stopped ELSE {}) /\ Goes("power")
          /\ UNCHANGED <<user, host, disc, invocations, moves>>

\* qm start, in the order of the ids; one that fails ends the command.
PowerOn == /\ stage = "power" /\ todo # {} /\ Sudo
           /\ LET v == CHOOSE u \in todo : \A w \in todo : u <= w IN
              \/ /\ host.vm[v] = "stopped" /\ todo' = todo \ {v} /\ Goes("power")
                 /\ host' = [host EXCEPT !.vm[v] = "running"]
              \/ /\ host.vm[v] # "stopped" \/ ~host.starts
                 /\ Aborts("start") /\ UNCHANGED <<host, todo>>
           /\ UNCHANGED <<user, disc, invocations, moves>>

\* The ping of m1, the form of network_bridge.
PingMaster == /\ stage = "power" /\ todo = {}
              /\ PingsM1(argv) /\ M1 \in DOMAIN disc /\ disc[M1] = "running" => Sudo
              /\ IF host.bridge = "malformed" THEN Aborts("sdn") ELSE Goes("build")
              /\ UNCHANGED <<user, host, disc, todo, invocations, moves>>

MasterUp == M1 \in DOMAIN disc /\ disc[M1] = "running" /\ host.agent

\* The prerequisites of a build: the bridge only where no master is up.
Build == /\ stage = "build" /\ (Builds(argv) => Sudo)
         /\ IF Builds(argv) /\ host.microvm # "new" THEN Aborts("microvm")
            ELSE IF Builds(argv) /\ ~MasterUp /\ host.bridge = "unknown" THEN Aborts("bridge")
            ELSE Goes("dispatched")
         /\ UNCHANGED <<user, host, disc, todo, invocations, moves>>

\* run_verb.run: what it does is modelled elsewhere.
Dispatch == /\ stage = "dispatched" /\ Aborts("ran")
            /\ UNCHANGED <<user, host, disc, todo, invocations, moves>>

(******************************* Environment *******************************)
Moves == moves < MaxMoves /\ moves' = moves + 1
SomeoneStarts == /\ Moves /\ \E v \in Exist \ {0, 10} :
                      /\ host.vm[v] = "stopped" /\ host' = [host EXCEPT !.vm[v] = "running"]
                 /\ UNCHANGED <<user, argv, stage, disc, todo, reason, invocations>>
CredentialExpires == /\ Moves /\ host.sudo = "cached" /\ host' = [host EXCEPT !.sudo = "password"]
                     /\ UNCHANGED <<user, argv, stage, disc, todo, reason, invocations>>

Cli   == Validate \/ CheckHost \/ Discover \/ Decide \/ PowerOn \/ PingMaster \/ Build \/ Dispatch
SNext == Edit \/ Invoke \/ Cli \/ SomeoneStarts \/ CredentialExpires

StartupSpec == SInit /\ [][SNext]_svars

(******************************** Properties *******************************)
\* README.md:64,69: nothing runs while a value that has to be replaced is still
\* the one shipped, or has been left out or emptied.
PlaceholdersGone == stage = "dispatched" => \A o \in MustChange : file[o] = "good"

\* kopsrox_config.py:308-312: the commands that use the guests find every VM of
\* the cluster that discovery saw running, unless someone interferes.
EveryVmUp == stage = "dispatched" /\ PowersOn(argv) /\ moves = 0 =>
               \A v \in Exist \cap (1..9) : host.vm[v] = "running"

\* kopsrox_config.py:279, 308-312: no command starts the image or a VM of another
\* cluster, and none stops a VM.
OnlyOurs == [][\A v \in DOMAIN host.vm : host.vm'[v] # host.vm[v] =>
                 v \in 1..9 /\ host.vm'[v] = "running"]_svars
=============================================================================
