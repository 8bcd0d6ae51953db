---------------------------- MODULE StartupProofs ----------------------------
(***************************************************************************)
(* What is proved about what happens before a command runs, for every      *)
(* kopsrox.ini, every host and any number of commands and edits: no value  *)
(* that has to be replaced is left, every VM discovery saw runs, and only  *)
(* VMs of this cluster are started.                                        *)
(***************************************************************************)
EXTENDS Startup, WellFoundedInduction, TLAPS

(******************************** The types ********************************)
Stages == {"over", "ini", "host", "discover", "found", "power", "build", "dispatched"}
StartupTyped == /\ file = NoFile \/ Ini(file)
                /\ host \in Hosts /\ stage \in Stages /\ moves \in Nat

(****************************** The invariant ******************************)
\* A command that was let in has a kopsrox.ini, and from the validation on a
\* sound one: nobody writes it while a command runs.
IniInv == /\ stage # "over" => file # NoFile
          /\ stage \notin {"over", "ini"} => \A o \in MustChange : file[o] = "good"

\* What discovery saw is ours, and is still true where nobody interferes.
FoundInv == stage = "found" =>
  /\ DOMAIN disc \subseteq Ours \cap DOMAIN host.vm
  /\ moves = 0 => disc = [v \in Exist \cap Ours |-> host.vm[v]]

\* What does not run yet is still to be powered on, and is ours.
PowerInv ==
  /\ stage = "power" => todo \subseteq (1..9) \cap DOMAIN host.vm
  /\ stage \in {"build", "dispatched"} => todo = {}
  /\ stage \in {"power", "build", "dispatched"} /\ PowersOn(argv) /\ moves = 0 =>
       \A v \in Exist \cap (1..9) : host.vm[v] = "running" \/ v \in todo

StartupInv == StartupTyped /\ IniInv /\ FoundInv /\ PowerInv

(******************************* The operators *****************************)
\* What validation lets through has every placeholder replaced.
LEMMA AcceptedIsGood ==
  ASSUME Ini(file), NEW o \in MustChange, \A p \in Options : ~Rejected(p)
  PROVE  file[o] = "good"
<1>1. o \in Options /\ o \notin Commented /\ o \notin Checked /\ o \notin BlankOk
  BY DEF Options, MustChange, Commented, Checked, BlankOk, Ints
<1>2. file[o] \in {"missing", "blank", "default", "good", "wrong"}
      /\ (file[o] = "wrong" => o \in Ints \cup {"localsshkey"})
  BY <1>1 DEF Ini, Values
<1>3. ~Rejected(o)
  BY <1>1
<1> QED BY <1>1, <1>2, <1>3 DEF Rejected, Absent, Placeholder

\* The least of some of our VMs.
LEMMA Least ==
  ASSUME NEW S, S \subseteq 1..9, S # {}
  PROVE  (CHOOSE u \in S : \A w \in S : u <= w) \in S
<1> DEFINE R == OpToRel(<, Nat)
<1>1. IsWellFoundedOn(R, Nat)
  BY NatLessThanWellFounded
<1>2. \A x, y \in Nat : y < x => <<y, x>> \in R
  BY DEF OpToRel
<1> HIDE DEF R
<1>3. S \subseteq Nat
  OBVIOUS
<1>4. PICK u \in S : \A w \in S : ~(<<w, u>> \in R)
  BY <1>1, <1>3, WFMin
<1>5. ASSUME NEW w \in S PROVE u <= w
  <2>1. w \in Nat /\ u \in Nat /\ ~(<<w, u>> \in R)
    BY <1>3, <1>4
  <2>2. ~(w < u)
    BY <1>2, <2>1
  <2> QED BY <2>1, <2>2
<1> QED BY <1>4, <1>5

\* The host changes in one place: a VM is started, the credential runs out.
LEMMA VmStates ==
  ASSUME NEW h \in Hosts
  PROVE  DOMAIN h.vm \subseteq 0..10 /\ \A v \in DOMAIN h.vm : h.vm[v] \in Vm
<1>1. PICK D \in SUBSET (0..10) : h.vm \in [D -> Vm]
  BY DEF Hosts
<1> QED BY <1>1

\* A VM that is started runs, and no other VM changes.
LEMMA VmStarts ==
  ASSUME NEW h \in Hosts, NEW v \in DOMAIN h.vm, NEW g, g = [h EXCEPT !.vm[v] = "running"]
  PROVE  /\ g \in Hosts /\ DOMAIN g.vm = DOMAIN h.vm /\ g.vm[v] = "running"
         /\ \A u \in DOMAIN h.vm \ {v} : g.vm[u] = h.vm[u]
<1>1. PICK D \in SUBSET (0..10) : h.vm \in [D -> Vm]
  BY DEF Hosts
<1> DEFINE f == [h.vm EXCEPT ![v] = "running"]
<1>2. f \in [D -> Vm] /\ DOMAIN f = DOMAIN h.vm /\ f[v] = "running"
      /\ \A u \in DOMAIN h.vm \ {v} : f[u] = h.vm[u]
  BY <1>1 DEF Vm
<1>3. g = [h EXCEPT !.vm = f]
  OBVIOUS
<1> HIDE DEF f
<1>4. f \in UNION {[E -> Vm] : E \in SUBSET (0..10)}
  BY <1>1, <1>2
<1>5. g \in Hosts
  BY <1>3, <1>4 DEF Hosts
<1>6. g.vm = f
  BY <1>3 DEF Hosts
<1> QED BY <1>2, <1>5, <1>6

\* An expired credential changes no VM.
LEMMA CredentialGoes ==
  ASSUME NEW h \in Hosts, NEW g, g = [h EXCEPT !.sudo = "password"]
  PROVE  g \in Hosts /\ g.vm = h.vm
BY DEF Hosts

(********************************* The steps *******************************)
\* What a step of a command leaves alone keeps what was said of it.
LEMMA StartAtFirst == ASSUME SInit PROVE StartupInv
<1>1. PICK s \in Starts : file = s.file /\ host = s.host /\ moves = s.moves
  BY DEF SInit
<1>2. StartupTyped /\ stage = "over"
  BY <1>1, StartsAssumption DEF SInit, StartupTyped, Stages
<1> QED BY <1>2 DEF StartupInv, IniInv, FoundInv, PowerInv

\* The user edits only between two commands, so none that runs is deceived.
LEMMA EditKeeps == ASSUME StartupInv, Edit PROVE StartupInv'
<1>1. PICK e \in Edits : \E value \in {e[2], "missing"} : file' = [file EXCEPT ![e[1]] = value]
  BY DEF Edit
<1>2. PICK value \in {e[2], "missing"} : file' = [file EXCEPT ![e[1]] = value]
  BY <1>1
<1>3. Ini(file) /\ stage = "over" /\ UNCHANGED <<host, stage, moves>>
  BY DEF Edit, StartupInv, StartupTyped
<1>4. e[1] \in Options /\ value \in Values(e[1])
  BY EditsAssumption DEF Values
<1>5. Ini(file')
  BY <1>2, <1>3, <1>4 DEF Ini
<1> QED BY <1>3, <1>5 DEF StartupInv, StartupTyped, IniInv, FoundInv, PowerInv

\* The shipped file, and the command that is let in.
LEMMA InvokeKeeps == ASSUME StartupInv, Invoke PROVE StartupInv'
<1>1. UNCHANGED <<host, moves>> /\ stage' \in {"over", "ini"}
  BY DEF Invoke, Aborts
<1>2. file' \in {file, Shipped} /\ (stage' = "ini" => file' = file /\ file # NoFile)
  BY DEF Invoke, Aborts
<1>3. Ini(Shipped)
  BY DEF Ini, Shipped, Values
<1> QED BY <1>1, <1>2, <1>3 DEF StartupInv, StartupTyped, Stages, IniInv, FoundInv, PowerInv

\* An abort leaves nothing to say.
LEMMA Aborted ==
  ASSUME StartupInv, file' = file, host' = host, moves' = moves, stage' = "over"
  PROVE  StartupInv'
BY DEF StartupInv, StartupTyped, Stages, IniInv, FoundInv, PowerInv

\* A check that is passed: the ini's is the one that says something.
LEMMA ValidateKeeps == ASSUME StartupInv, Validate PROVE StartupInv'
<1>1. stage = "ini" /\ UNCHANGED <<file, host, moves>>
  BY DEF Validate, user
<1>2. CASE \E o \in Options : Rejected(o)
  BY <1>1, <1>2, Aborted DEF Validate, Aborts
<1>3. CASE \A o \in Options : ~Rejected(o)
  <2>1. stage' = "host"
    BY <1>3 DEF Validate, Goes
  <2>2. Ini(file)
    BY <1>1 DEF StartupInv, StartupTyped, IniInv
  <2>3. \A o \in MustChange : file[o] = "good"
    BY <1>3, <2>2, AcceptedIsGood
  <2> QED BY <1>1, <2>1, <2>3 DEF StartupInv, StartupTyped, Stages, IniInv, FoundInv, PowerInv
<1> QED BY <1>2, <1>3

\* The check of host and sudo writes nothing.
LEMMA CheckHostKeeps == ASSUME StartupInv, CheckHost PROVE StartupInv'
<1>1. stage = "host" /\ UNCHANGED <<file, host, moves>> /\ stage' \in {"over", "discover"}
  BY DEF CheckHost, user, Goes, Aborts
<1> QED BY <1>1 DEF StartupInv, StartupTyped, Stages, IniInv, FoundInv, PowerInv

\* What discovery reads is what there is at that moment.
LEMMA DiscoverKeeps == ASSUME StartupInv, Discover PROVE StartupInv'
<1>1. stage = "discover" /\ UNCHANGED <<file, host, moves>> /\ stage' \in {"over", "found"}
      /\ disc' = [v \in Exist \cap Ours |-> host.vm[v]]
  BY DEF Discover, user, Goes, Aborts
<1>2. DOMAIN disc' \subseteq Ours \cap DOMAIN host.vm
  BY <1>1 DEF Exist
<1> QED BY <1>1, <1>2 DEF StartupInv, StartupTyped, Stages, IniInv, FoundInv, PowerInv, Exist

\* What has to be powered on is what discovery saw stopped.
LEMMA DecideKeeps == ASSUME StartupInv, Decide PROVE StartupInv'
<1>1. stage = "found" /\ UNCHANGED <<file, host, argv, moves>> /\ stage' = "power"
      /\ todo' = IF PowersOn(argv) THEN Stopped ELSE {}
  BY DEF Decide, user, Goes
<1>2. todo' \subseteq (1..9) \cap DOMAIN host.vm
  BY <1>1 DEF StartupInv, FoundInv, Stopped, Ours, Image
<1>3. ASSUME PowersOn(argv), moves = 0, NEW v \in Exist \cap (1..9)
      PROVE  host.vm[v] = "running" \/ v \in todo'
  <2>1. v \in DOMAIN disc /\ disc[v] = host.vm[v]
    BY <1>1, <1>3 DEF StartupInv, FoundInv, Ours
  <2>2. host.vm[v] \in {"stopped", "running"}
    BY <1>3, VmStates DEF Exist, Vm, StartupInv, StartupTyped
  <2> QED BY <1>1, <1>3, <2>1, <2>2 DEF Stopped, Image
<1>4. PowerInv'
  BY <1>1, <1>2, <1>3 DEF PowerInv, PowersOn, Exist
<1> QED BY <1>1, <1>4 DEF StartupInv, StartupTyped, Stages, IniInv, FoundInv

\* Each start takes one VM off the list of those still to run.
LEMMA PowerOnKeeps == ASSUME StartupInv, PowerOn PROVE StartupInv'
<1> DEFINE v == CHOOSE u \in todo : \A w \in todo : u <= w
<1>1. stage = "power" /\ todo # {} /\ UNCHANGED <<file, moves>>
      /\ \/ /\ todo' = todo \ {v} /\ stage' = "power" /\ argv' = argv
            /\ host' = [host EXCEPT !.vm[v] = "running"]
         \/ stage' = "over" /\ host' = host
  BY DEF PowerOn, user, Goes, Aborts
<1>2. todo \subseteq (1..9) \cap DOMAIN host.vm /\ host \in Hosts
  BY <1>1 DEF StartupInv, PowerInv, StartupTyped
<1>3. v \in todo
  BY <1>1, <1>2, Least
<1> HIDE DEF v
<1>4. CASE stage' = "over" /\ host' = host
  BY <1>1, <1>4, Aborted
<1>5. CASE /\ todo' = todo \ {v} /\ stage' = "power" /\ argv' = argv
           /\ host' = [host EXCEPT !.vm[v] = "running"]
  <2>1. /\ host' \in Hosts /\ DOMAIN host'.vm = DOMAIN host.vm /\ host'.vm[v] = "running"
        /\ \A u \in DOMAIN host.vm \ {v} : host'.vm[u] = host.vm[u]
    BY <1>2, <1>3, <1>5, VmStarts
  <2>2. PowerInv'
    BY <1>1, <1>2, <1>5, <2>1 DEF StartupInv, PowerInv, PowersOn, Exist
  <2> QED BY <1>1, <1>5, <2>1, <2>2 DEF StartupInv, StartupTyped, IniInv, FoundInv
<1> QED BY <1>1, <1>4, <1>5

\* The last checks: everything to be powered on has been.
LEMMA LastChecksKeep ==
  ASSUME StartupInv, PingMaster \/ Build \/ Dispatch PROVE StartupInv'
<1>1. UNCHANGED <<file, host, todo, moves>>
  BY DEF PingMaster, Build, Dispatch, user
<1>2. \/ stage' = "over"
      \/ stage = "power" /\ todo = {} /\ stage' = "build" /\ argv' = argv
      \/ stage = "build" /\ stage' = "dispatched" /\ argv' = argv
  BY DEF PingMaster, Build, Dispatch, Goes, Aborts
<1>3. ASSUME stage \in {"power", "build"}, todo = {}, stage' \in {"build", "dispatched"},
             argv' = argv
      PROVE  StartupInv'
  BY <1>1, <1>3 DEF StartupInv, StartupTyped, Stages, IniInv, FoundInv, PowerInv, PowersOn, Exist
<1>4. stage = "build" => todo = {}
  BY DEF StartupInv, PowerInv
<1> QED BY <1>1, <1>2, <1>3, <1>4, Aborted

\* Someone interferes: from then on moves is not 0.
LEMMA MoveKeeps == ASSUME StartupInv, SomeoneStarts \/ CredentialExpires PROVE StartupInv'
<1>1. UNCHANGED <<file, argv, stage, disc, todo>> /\ moves' = moves + 1 /\ moves \in Nat
  BY DEF SomeoneStarts, CredentialExpires, Moves, user, StartupInv, StartupTyped
<1>2. host' \in Hosts /\ DOMAIN host'.vm = DOMAIN host.vm
  <2>1. host \in Hosts
    BY DEF StartupInv, StartupTyped
  <2>2. ASSUME SomeoneStarts PROVE host' \in Hosts /\ DOMAIN host'.vm = DOMAIN host.vm
    <3>1. PICK v \in DOMAIN host.vm : host' = [host EXCEPT !.vm[v] = "running"]
      BY <2>2 DEF SomeoneStarts, Exist
    <3> QED BY <2>1, <3>1, VmStarts
  <2>3. ASSUME CredentialExpires PROVE host' \in Hosts /\ DOMAIN host'.vm = DOMAIN host.vm
    BY <2>1, <2>3, CredentialGoes DEF CredentialExpires
  <2> QED BY <2>2, <2>3
<1>3. moves' # 0 /\ moves' \in Nat
  BY <1>1
<1> QED BY <1>1, <1>2, <1>3 DEF StartupInv, StartupTyped, IniInv, FoundInv, PowerInv, PowersOn

\* Every step of a command, the user and the host keeps the invariant.
LEMMA StartupStep == ASSUME StartupInv, [SNext]_svars PROVE StartupInv'
<1>1. CASE UNCHANGED svars
  BY <1>1 DEF svars, StartupInv, StartupTyped, IniInv, FoundInv, PowerInv, PowersOn, Exist
<1>2. CASE SNext
  BY <1>2, EditKeeps, InvokeKeeps, ValidateKeeps, CheckHostKeeps, DiscoverKeeps, DecideKeeps,
     PowerOnKeeps, LastChecksKeep, MoveKeeps DEF SNext, Cli
<1> QED BY <1>1, <1>2

(******************************* The theorems ******************************)
\* The invariant the others follow from.
THEOREM StartupInvariant == StartupSpec => []StartupInv
<1>1. SInit => StartupInv
  BY StartAtFirst
<1>2. StartupInv /\ [SNext]_svars => StartupInv'
  BY StartupStep
<1> QED BY <1>1, <1>2, PTL DEF StartupSpec

\* README.md:64,69: nothing runs while a value that has to be replaced has not
\* been.
THEOREM NoPlaceholderRuns == StartupSpec => []PlaceholdersGone
<1>1. StartupInv => PlaceholdersGone
  BY DEF StartupInv, IniInv, PlaceholdersGone
<1> QED BY <1>1, StartupInvariant, PTL

\* kopsrox_config.py:308-312: a command that uses the guests finds every VM of
\* the cluster running, unless someone interferes.
THEOREM VmsAreUp == StartupSpec => []EveryVmUp
<1>1. StartupInv => EveryVmUp
  BY DEF StartupInv, PowerInv, EveryVmUp
<1> QED BY <1>1, StartupInvariant, PTL

\* kopsrox_config.py:279: no command starts the image or a VM of another cluster,
\* and none stops a VM.
THEOREM StartsOnlyOurs == StartupSpec => OnlyOurs
<1> DEFINE ours == \A v \in DOMAIN host.vm : host.vm'[v] # host.vm[v] =>
                 v \in 1..9 /\ host.vm'[v] = "running"
<1>1. ASSUME StartupInv, [SNext]_svars, ~PowerOn, ~SomeoneStarts PROVE host'.vm = host.vm
  <2>1. host \in Hosts
    BY <1>1 DEF StartupInv, StartupTyped
  <2>2. CASE CredentialExpires
    BY <2>1, <2>2, CredentialGoes DEF CredentialExpires
  <2>3. CASE ~CredentialExpires
    BY <1>1, <2>3 DEF SNext, Cli, Edit, Invoke, Validate, CheckHost, Discover, Decide, PingMaster,
       Build, Dispatch, svars
  <2> QED BY <2>2, <2>3
<1>2. ASSUME StartupInv, SomeoneStarts PROVE ours
  <2>1. PICK v \in Exist \ {0, 10} : host' = [host EXCEPT !.vm[v] = "running"]
    BY <1>2 DEF SomeoneStarts
  <2>2. host \in Hosts /\ v \in DOMAIN host.vm /\ DOMAIN host.vm \subseteq 0..10
    BY <1>2, VmStates DEF StartupInv, StartupTyped, Exist
  <2>3. host'.vm[v] = "running" /\ \A u \in DOMAIN host.vm \ {v} : host'.vm[u] = host.vm[u]
    BY <2>1, <2>2, VmStarts
  <2>4. v \in 1..9
    BY <2>2
  <2> QED BY <2>3, <2>4
<1>3. ASSUME StartupInv, PowerOn PROVE ours
  <2> DEFINE v == CHOOSE u \in todo : \A w \in todo : u <= w
  <2>1. stage = "power" /\ todo # {}
        /\ (host' = [host EXCEPT !.vm[v] = "running"] \/ host' = host)
    BY <1>3 DEF PowerOn
  <2>2. todo \subseteq (1..9) \cap DOMAIN host.vm /\ host \in Hosts
    BY <1>3, <2>1 DEF StartupInv, PowerInv, StartupTyped
  <2>3. v \in todo
    BY <2>1, <2>2, Least
  <2> HIDE DEF v
  <2>4. CASE host' = host
    BY <2>4
  <2>5. CASE host' = [host EXCEPT !.vm[v] = "running"]
    <3>1. host'.vm[v] = "running" /\ \A u \in DOMAIN host.vm \ {v} : host'.vm[u] = host.vm[u]
      BY <2>2, <2>3, <2>5, VmStarts
    <3> QED BY <2>2, <2>3, <3>1
  <2> QED BY <2>1, <2>4, <2>5
<1>4. StartupInv /\ [SNext]_svars => ours
  BY <1>1, <1>2, <1>3
<1> QED BY <1>4, StartupInvariant, PTL DEF StartupSpec, OnlyOurs
=============================================================================
