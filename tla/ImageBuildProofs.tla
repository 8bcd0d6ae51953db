-------------------------- MODULE ImageBuildProofs --------------------------
(***************************************************************************)
(* What is proved about the image template, for every set of versions and  *)
(* options, every number of commands and faults: the description on a      *)
(* template says what was built, a build that nothing disturbed ends well  *)
(* whatever it found, an upgrade leaves nodes and image together, and      *)
(* `config check` tells the truth.                                         *)
(***************************************************************************)
EXTENDS ImageBuild, TLAPS

(******************************** The types ********************************)
Pcs == {"idle", "refuse", "check", "destroy", "patch", "build", "install", "bake",
        "template", "describe", "remove", "clone", "upgrade", "report"}
ImageState == [st : {"absent", "vm", "template"}, k3s : Versions \cup {"none"},
               opts : ImageOpts \cup {"none"}, desc : {<<>>} \cup {<<k>> : k \in Ini}]
RunState   == [cmd : Cmds \cup {"none"}, pc : Pcs, clean : BOOLEAN]

ImageTyped == img \in ImageState /\ ini \in Ini /\ run \in RunState

(****************************** The invariant ******************************)
\* Which command a call belongs to.
Building == {"check", "destroy", "patch", "build", "install", "bake", "template", "describe"}
CallsOfCommand ==
  /\ At("idle") <=> run.cmd = "none"
  /\ run.pc \in Building => run.cmd \in {"image create", "k3s upgrade"}
  /\ At("refuse")  => run.cmd \notin NoImageCmds
  /\ At("remove")  => run.cmd = "image destroy"
  /\ At("clone")   => run.cmd = "grow"
  /\ At("upgrade") => run.cmd = "k3s upgrade"
  /\ At("report")  => run.cmd = "config check"

\* How far the image is: nothing is left of an earlier one when it is built, it
\* is described last of all, and only an installer that failed has left it
\* without the k3s that was asked for.
Installed == run.clean \/ "installer" \notin met => img.k3s = ini.k3s
HowFar ==
  /\ run.pc \in {"patch", "build"} => img = NoImage
  /\ run.pc \in {"install", "bake", "template", "describe"} => img.desc = <<>>
  /\ run.pc \in {"bake", "template", "describe"} => Installed
  /\ run.pc \in {"template", "describe"} => img.opts = ini.opts
  /\ At("describe") => img.st = "template"

\* An upgrade has been through the nodes before it gets to the image.
NodesFirst == run.cmd = "k3s upgrade" /\ run.pc \in Building =>
                \A n \in DOMAIN fleet : fleet[n] = ini.k3s

ImageInv == /\ ImageTyped /\ CallsOfCommand /\ HowFar /\ NodesFirst
            /\ BaselineHonest

\* A call that leads to the next one.
LEMMA GotoNext ==
  ASSUME ImageTyped, NEW p \in Pcs, Goto(p)
  PROVE  run' \in RunState /\ run'.pc = p /\ run'.cmd = run.cmd /\ run'.clean = run.clean
  BY DEF ImageTyped, RunState, Goto

\* At rest nothing is claimed but that a baseline is honest.
LEMMA RestKeeps ==
  ASSUME ImageInv, run' = AtRest, img' \in ImageState, ini' = ini, BaselineHonest'
  PROVE  ImageInv'
<1>1. run'.cmd = "none" /\ run'.pc = "idle" /\ run' \in RunState
  BY DEF AtRest, RunState, Pcs
<1> QED BY <1>1 DEF ImageInv, ImageTyped, CallsOfCommand, HowFar, NodesFirst, Building, At

\* A baseline that was honest is as long as neither image nor record changes.
LEMMA StaysHonest ==
  ASSUME BaselineHonest, img' = img, met \subseteq met'
  PROVE  BaselineHonest'
  BY DEF BaselineHonest, BuiltFrom

\* Faults are only ever added to the record.
LEMMA TroubleAdds == ASSUME NEW kind, Trouble(kind) PROVE met \subseteq met' /\ kind \in met'
  BY DEF Trouble

\* The steps that end a command and leave the image alone.
LEMMA EndKeeps ==
  ASSUME ImageInv, run' = AtRest, img' = img, ini' = ini, met \subseteq met'
  PROVE  ImageInv'
  BY RestKeeps, StaysHonest DEF ImageInv, ImageTyped

\* A version that is not there yet, and a description.
LEMMA ImageParts ==
  /\ NoImage \in ImageState /\ Created \in ImageState
  /\ NoImage.desc = <<>> /\ NoImage.st = "absent" /\ Created.desc = <<>>
  BY DEF NoImage, Created, ImageState

\* The invariant holds at first, with no image.
LEMMA InitImage == ImageInit => ImageInv
<1> SUFFICES ASSUME ImageInit PROVE ImageInv
  OBVIOUS
<1>1. ImageTyped
  BY ImageParts DEF ImageInit, ImageTyped, AtRest, RunState, Pcs
<1>2. img.desc = <<>> /\ run.pc = "idle" /\ run.cmd = "none"
  BY ImageParts DEF ImageInit, AtRest
<1> QED BY <1>1, <1>2
        DEF ImageInv, CallsOfCommand, HowFar, NodesFirst, BaselineHonest, Building, At

\* The steps of a build.
LEMMA BuildStep ==
  ASSUME ImageInv,
         \/ CheckKernel \/ DestroyOld \/ Patch \/ Build \/ Install \/ InstallFails
         \/ Bake \/ Template \/ Describe
  PROVE  ImageInv'
<1> USE DEF ImageInv
<1>g. ASSUME NEW p \in Building, NEW q \in Building, At(q), Goto(p)
      PROVE  /\ run' \in RunState /\ run'.pc = p /\ run'.cmd = run.cmd
             /\ run'.clean = run.clean /\ CallsOfCommand'
  <2>1. /\ run' \in RunState /\ run'.pc = p /\ run'.cmd = run.cmd
        /\ run'.clean = run.clean
    BY <1>g, GotoNext DEF Building, Pcs
  <2>2. CallsOfCommand'
    BY <1>g, <2>1 DEF CallsOfCommand, Building, At
  <2> QED BY <2>1, <2>2
<1>m. img.st \in {"absent", "vm", "template"} /\ ini.k3s \in Versions /\ ini.opts \in ImageOpts
  BY DEF ImageTyped, ImageState, Ini
<1>1. CASE CheckKernel
  <2>1. run' \in RunState /\ run'.pc = "destroy" /\ run'.cmd = run.cmd /\ CallsOfCommand'
    BY <1>1, <1>g DEF CheckKernel, Building
  <2>2. UNCHANGED <<img, ini, fleet, met>>
    BY <1>1 DEF CheckKernel, count
  <2>3. HowFar' /\ NodesFirst'
    BY <1>1, <2>1, <2>2 DEF CheckKernel, HowFar, NodesFirst, Building, At
  <2> QED BY <2>1, <2>2, <2>3, StaysHonest DEF ImageTyped
<1>2. CASE DestroyOld
  <2>1. run' \in RunState /\ run'.pc = "patch" /\ run'.cmd = run.cmd /\ CallsOfCommand'
    BY <1>2, <1>g DEF DestroyOld, Building
  <2>2. UNCHANGED <<ini, fleet, met>> /\ img' = NoImage
    BY <1>2 DEF DestroyOld, Destroyed, count
  <2>3. HowFar' /\ NodesFirst'
    BY <1>2, <2>1, <2>2 DEF DestroyOld, HowFar, NodesFirst, Building, At
  <2> QED BY <2>1, <2>2, <2>3, ImageParts DEF ImageTyped, BaselineHonest
<1>3. CASE Patch
  <2>1. run' \in RunState /\ run'.pc = "build" /\ run'.cmd = run.cmd /\ CallsOfCommand'
    BY <1>3, <1>g DEF Patch, Building
  <2>2. UNCHANGED <<img, ini, fleet, met>>
    BY <1>3 DEF Patch, count
  <2>3. HowFar' /\ NodesFirst'
    BY <1>3, <2>1, <2>2 DEF Patch, HowFar, NodesFirst, Building, At
  <2> QED BY <2>1, <2>2, <2>3, StaysHonest DEF ImageTyped
<1>4. CASE Build
  <2>1. img.st = "absent"
    BY <1>4, ImageParts DEF Build, HowFar, At
  <2>2. run' \in RunState /\ run'.pc = "install" /\ run'.cmd = run.cmd /\ CallsOfCommand'
    BY <1>4, <1>g, <2>1 DEF Build, Building
  <2>3. UNCHANGED <<ini, fleet, met>> /\ img' = Created
    BY <1>4, <2>1 DEF Build, count
  <2>4. HowFar' /\ NodesFirst'
    BY <1>4, <2>2, <2>3, ImageParts DEF Build, HowFar, NodesFirst, Building, At
  <2> QED BY <2>2, <2>3, <2>4, ImageParts DEF ImageTyped, BaselineHonest
<1>5. CASE Install
  <2>1. run' \in RunState /\ run'.pc = "bake" /\ run'.cmd = run.cmd /\ CallsOfCommand'
    BY <1>5, <1>g DEF Install, Building
  <2>2. UNCHANGED <<ini, fleet, met>> /\ img' = [img EXCEPT !.k3s = ini.k3s]
    BY <1>5 DEF Install, count
  <2>3. img' \in ImageState /\ img'.k3s = ini.k3s /\ img'.desc = img.desc
    BY <2>2, <1>m DEF ImageTyped, ImageState
  <2>4. img.desc = <<>>
    BY <1>5 DEF Install, HowFar, At
  <2>5. HowFar' /\ NodesFirst'
    BY <1>5, <2>1, <2>2, <2>3, <2>4 DEF Install, HowFar, Installed, NodesFirst, Building, At
  <2> QED BY <2>1, <2>2, <2>3, <2>4, <2>5 DEF ImageTyped, BaselineHonest
<1>6. CASE InstallFails
  <2>1. /\ At("install") /\ run' = [run EXCEPT !.pc = "bake", !.clean = FALSE]
        /\ UNCHANGED <<img, ini, fleet>> /\ met \subseteq met' /\ "installer" \in met'
    BY <1>6, TroubleAdds DEF InstallFails
  <2>2. run' \in RunState /\ run'.pc = "bake" /\ run'.cmd = run.cmd /\ run'.clean = FALSE
    BY <2>1 DEF ImageTyped, RunState, Pcs
  <2>3. CallsOfCommand' /\ HowFar' /\ NodesFirst'
    BY <2>1, <2>2 DEF CallsOfCommand, HowFar, Installed, NodesFirst, Building, At
  <2> QED BY <2>1, <2>2, <2>3, StaysHonest DEF ImageTyped
<1>7. CASE Bake
  <2>1. /\ run' \in RunState /\ run'.pc = "template" /\ run'.cmd = run.cmd
        /\ run'.clean = run.clean /\ CallsOfCommand'
    BY <1>7, <1>g DEF Bake, Building
  <2>2. UNCHANGED <<ini, fleet, met>> /\ img' = [img EXCEPT !.opts = ini.opts]
    BY <1>7 DEF Bake, count
  <2>3. /\ img' \in ImageState /\ img'.opts = ini.opts /\ img'.k3s = img.k3s
        /\ img'.desc = img.desc
    BY <2>2, <1>m DEF ImageTyped, ImageState
  <2>4. img.desc = <<>> /\ Installed
    BY <1>7 DEF Bake, HowFar, At
  <2>5. HowFar' /\ NodesFirst'
    BY <1>7, <2>1, <2>2, <2>3, <2>4 DEF Bake, HowFar, Installed, NodesFirst, Building, At
  <2> QED BY <2>1, <2>2, <2>3, <2>4, <2>5 DEF ImageTyped, BaselineHonest
<1>8. CASE Template
  <2>1. /\ run' \in RunState /\ run'.pc = "describe" /\ run'.cmd = run.cmd
        /\ run'.clean = run.clean /\ CallsOfCommand'
    BY <1>8, <1>g DEF Template, Building
  <2>2. UNCHANGED <<ini, fleet, met>> /\ img' = [img EXCEPT !.st = "template"]
    BY <1>8 DEF Template, count
  <2>3. /\ img' \in ImageState /\ img'.st = "template" /\ img'.k3s = img.k3s
        /\ img'.opts = img.opts /\ img'.desc = img.desc
    BY <2>2 DEF ImageTyped, ImageState
  <2>4. img.desc = <<>> /\ Installed /\ img.opts = ini.opts
    BY <1>8 DEF Template, HowFar, At
  <2>5. HowFar' /\ NodesFirst'
    BY <1>8, <2>1, <2>2, <2>3, <2>4 DEF Template, HowFar, Installed, NodesFirst, Building, At
  <2> QED BY <2>1, <2>2, <2>3, <2>4, <2>5 DEF ImageTyped, BaselineHonest
<1>9. CASE Describe
  <2>1. run' = AtRest /\ UNCHANGED <<ini, fleet, met>> /\ img' = [img EXCEPT !.desc = <<ini>>]
    BY <1>9 DEF Describe, End, count
  <2>2. /\ img' \in ImageState /\ img'.st = img.st /\ img'.k3s = img.k3s
        /\ img'.opts = img.opts /\ img'.desc = <<ini>>
    BY <2>1 DEF ImageTyped, ImageState
  <2>3. Installed /\ img.opts = ini.opts /\ img.st = "template"
    BY <1>9 DEF Describe, HowFar, At
  <2>4. BaselineHonest'
    BY <2>1, <2>2, <2>3 DEF BaselineHonest, BuiltFrom, Installed
  <2> QED BY <2>1, <2>2, <2>4, RestKeeps
<1> QED BY <1>1, <1>2, <1>3, <1>4, <1>5, <1>6, <1>7, <1>8, <1>9

\* Every step keeps the invariant.
LEMMA NextImage == ImageInv /\ [ImageNext]_ivars => ImageInv'
<1> SUFFICES ASSUME ImageInv, [ImageNext]_ivars PROVE ImageInv'
  OBVIOUS
<1>1. ASSUME NEW c \in Cmds, NEW k \in Ini, Begin(c, k) PROVE ImageInv'
  <2>1. /\ run' = [cmd |-> c, clean |-> TRUE,
                   pc |-> IF c \notin NoImageCmds /\ img.st = "absent" THEN "refuse"
                                                                      ELSE Entry(c)]
        /\ UNCHANGED <<img, fleet, met>> /\ ini' = k
    BY <1>1 DEF Begin
  <2>2. \/ run'.pc = "refuse" /\ c \notin NoImageCmds
        \/ run'.pc = "check" /\ c = "image create"
        \/ run'.pc = "remove" /\ c = "image destroy"
        \/ run'.pc = "clone" /\ c = "grow"
        \/ run'.pc = "upgrade" /\ c = "k3s upgrade"
        \/ run'.pc = "report" /\ c = "config check"
    BY <2>1 DEF Entry, Cmds
  <2>3. run'.cmd = c /\ run' \in RunState /\ c # "none"
    BY <2>1, <2>2 DEF RunState, Pcs, Cmds
  <2>4. CallsOfCommand'
    BY <2>2, <2>3 DEF CallsOfCommand, Building, At
  <2>5. HowFar' /\ NodesFirst'
    BY <2>2, <2>3 DEF HowFar, NodesFirst, Building, At
  <2> QED BY <2>1, <2>3, <2>4, <2>5, StaysHonest DEF ImageInv, ImageTyped
<1>2. CASE Refuse \/ NothingToAdd \/ Report \/ \E n \in FleetNodes : Clone(n)
  <2>1. run' = AtRest /\ UNCHANGED <<img, ini, met>>
    BY <1>2 DEF Refuse, NothingToAdd, Report, Clone, End, count
  <2> QED BY <2>1, EndKeeps
<1>3. CASE NoKernel \/ PatchFails \/ Interrupt
  <2>1. run' = AtRest /\ UNCHANGED <<img, ini>> /\ met \subseteq met'
    BY <1>3, TroubleAdds DEF NoKernel, PatchFails, Interrupt, Fails
  <2> QED BY <2>1, EndKeeps
<1>4. CASE \/ CheckKernel \/ DestroyOld \/ Patch \/ Build \/ Install \/ InstallFails
           \/ Bake \/ Template \/ Describe
  BY <1>4, BuildStep
<1>5. CASE Remove
  <2>1. run' = AtRest /\ img' = NoImage /\ UNCHANGED <<ini, met>>
    BY <1>5 DEF Remove, End, count
  <2>2. BaselineHonest'
    BY <2>1, ImageParts DEF BaselineHonest
  <2> QED BY <2>1, <2>2, RestKeeps, ImageParts
<1>6. CASE UpgradeNodes
  <2>1. At("upgrade") /\ Goto("check") /\ UNCHANGED <<img, ini, met>>
        /\ fleet' = [n \in DOMAIN fleet |-> ini.k3s]
    BY <1>6 DEF UpgradeNodes, AfterUpgrade, count
  <2>2. run' \in RunState /\ run'.pc = "check" /\ run'.cmd = run.cmd
    BY <2>1, GotoNext DEF ImageInv, Pcs
  <2>3. CallsOfCommand' /\ HowFar' /\ NodesFirst'
    BY <2>1, <2>2 DEF ImageInv, CallsOfCommand, HowFar, NodesFirst, Building, At
  <2> QED BY <2>1, <2>2, <2>3, StaysHonest DEF ImageInv, ImageTyped
<1>7. CASE UNCHANGED ivars
  BY <1>7 DEF ivars, count, ImageInv, ImageTyped, CallsOfCommand, HowFar, Installed, NodesFirst,
              BaselineHonest, BuiltFrom, Building, At
<1> QED BY <1>1, <1>2, <1>3, <1>4, <1>5, <1>6, <1>7 DEF ImageNext

\* It holds in every reachable state.
LEMMA Invariant == ImageSpec => []ImageInv
  BY InitImage, NextImage, PTL DEF ImageSpec

\* verb_image.py:160-169: whatever is cut short and begun again, and whatever
\* else fails, only a finished template has a baseline, and where the installer
\* works it says what was built.
THEOREM BaselineTrue == ImageSpec => []BaselineHonest
<1>1. ImageInv => BaselineHonest
  BY DEF ImageInv
<1> QED BY <1>1, Invariant, PTL

(***************************** How commands end ****************************)
\* A command that nothing disturbed ends with the call that is its last, and
\* anything else is a refusal.
LEMMA Endings ==
  ASSUME ImageInv, [ImageNext]_ivars, run.cmd # "none", run'.cmd = "none", result'.clean
  PROVE  \/ Refuse \/ Describe \/ Remove \/ (\E n \in FleetNodes : Clone(n))
         \/ NothingToAdd \/ Report
<1>1. ~At("idle")
  BY DEF ImageInv, CallsOfCommand
<1>2. ASSUME NEW p, Goto(p) PROVE run'.cmd = run.cmd
  BY <1>2 DEF Goto, ImageInv, ImageTyped, RunState
<1>3. ~(\E c \in Cmds, k \in Ini : Begin(c, k)) /\ ~UNCHANGED ivars
  BY <1>1 DEF Begin, ivars
<1>4. ~CheckKernel /\ ~DestroyOld /\ ~Patch /\ ~Install /\ ~Bake /\ ~Template /\ ~UpgradeNodes
  BY <1>2 DEF CheckKernel, DestroyOld, Patch, Install, Bake, Template, UpgradeNodes, AfterUpgrade
<1>5. ~NoKernel /\ ~PatchFails /\ ~Interrupt
  BY DEF NoKernel, PatchFails, Interrupt, Fails
<1>6. ~InstallFails
  BY DEF InstallFails, ImageInv, ImageTyped, RunState
<1>7. ~Build
  BY <1>2, ImageParts DEF Build, ImageInv, HowFar, At
<1> QED BY <1>3, <1>4, <1>5, <1>6, <1>7 DEF ImageNext

\* A refusal, and a fault, end the command without success.
LEMMA NotOk ==
  ASSUME Refuse \/ NoKernel \/ PatchFails \/ Interrupt
  PROVE  ~result'.ok
<1>1. CASE Refuse
  BY <1>1 DEF Refuse, End
<1>2. CASE NoKernel \/ PatchFails \/ Interrupt
  BY <1>2 DEF NoKernel, PatchFails, Interrupt, Fails
<1> QED BY <1>1, <1>2

\* What the last call of a build leaves behind.
LEMMA Described ==
  ASSUME ImageInv, Describe, result'.clean
  PROVE  /\ result'.ok /\ img' = [img EXCEPT !.desc = <<ini>>] /\ img'.desc = <<ini>>
         /\ BuiltFrom(ini)' /\ ini' = ini /\ fleet' = fleet /\ At("describe")
<1>1. /\ At("describe") /\ UNCHANGED <<ini, fleet>> /\ img' = [img EXCEPT !.desc = <<ini>>]
      /\ result' = [cmd |-> run.cmd, ok |-> TRUE, clean |-> run.clean, drift |-> FALSE]
  BY DEF Describe, End
<1>2. run.clean
  BY <1>1
<1>3. img.k3s = ini.k3s /\ img.opts = ini.opts /\ img.st = "template"
  BY <1>1, <1>2 DEF ImageInv, HowFar, Installed, At
<1>4. /\ img'.st = img.st /\ img'.k3s = img.k3s /\ img'.opts = img.opts
      /\ img'.desc = <<ini>>
  BY <1>1 DEF ImageInv, ImageTyped, ImageState
<1> QED BY <1>1, <1>3, <1>4 DEF BuiltFrom

\* README.md:154: whatever an earlier build left on the id of the image, an
\* `image create` that nothing disturbs ends well, with a template built from
\* kopsrox.ini and described as that.
THEOREM RebuiltAlways == ImageSpec => RebuildWorks
<1> DEFINE Right == Ended("image create") /\ result'.clean
                      => result'.ok /\ BuiltFrom(ini)' /\ img'.desc = <<ini>>
<1>1. ImageInv /\ [ImageNext]_ivars => [Right]_ivars
  <2> SUFFICES ASSUME ImageInv, [ImageNext]_ivars, Ended("image create"), result'.clean
               PROVE  result'.ok /\ BuiltFrom(ini)' /\ img'.desc = <<ini>>
    OBVIOUS
  <2>1. Describe
    BY Endings DEF Ended, ImageInv, CallsOfCommand, NoImageCmds, Refuse, Remove, Clone,
                   NothingToAdd, Report
  <2> QED BY <2>1, Described
<1> QED BY <1>1, Invariant, PTL DEF ImageSpec, RebuildWorks

\* verb_k3s.py:28: an upgrade that ends well with nothing in its way leaves
\* every node, and the image of the nodes to come, with the k3s of kopsrox.ini.
THEOREM UpgradedAlways == ImageSpec => UpgradedTogether
<1> DEFINE Right == Ended("k3s upgrade") /\ result'.clean /\ result'.ok
                      => BuiltFrom(ini)' /\ \A n \in DOMAIN fleet : fleet'[n] = ini.k3s
<1>1. ImageInv /\ [ImageNext]_ivars => [Right]_ivars
  <2> SUFFICES ASSUME ImageInv, [ImageNext]_ivars, Ended("k3s upgrade"), result'.clean, result'.ok
               PROVE  BuiltFrom(ini)' /\ \A n \in DOMAIN fleet : fleet'[n] = ini.k3s
    OBVIOUS
  <2>1. ~Refuse
    BY NotOk
  <2>2. Describe
    BY <2>1, Endings DEF Ended, ImageInv, CallsOfCommand, Remove, Clone, NothingToAdd, Report
  <2>3. \A n \in DOMAIN fleet : fleet[n] = ini.k3s
    BY <2>2, Described DEF ImageInv, NodesFirst, Building, At, Ended
  <2> QED BY <2>2, <2>3, Described
<1> QED BY <1>1, Invariant, PTL DEF ImageSpec, UpgradedTogether

\* Two versions of kopsrox.ini differ in an option that was baked in.
LEMMA SameIni ==
  ASSUME NEW x \in Ini, NEW y \in Ini
  PROVE  x = y <=> x.k3s = y.k3s /\ x.opts = y.opts
<1>1. x = [k3s |-> x.k3s, opts |-> x.opts] /\ y = [k3s |-> y.k3s, opts |-> y.opts]
  BY DEF Ini
<1> QED BY <1>1

\* A baseline is one of them.
LEMMA BaselineIni ==
  ASSUME ImageInv, img.desc # <<>>
  PROVE  img.desc[1] \in Ini /\ ini \in Ini
<1>1. img.desc \in {<<>>} \cup {<<k>> : k \in Ini} /\ ini \in Ini
  BY DEF ImageInv, ImageTyped, ImageState
<1>2. PICK k \in Ini : img.desc = <<k>>
  BY <1>1
<1> QED BY <1>1, <1>2

\* README.md:150: for an image that was built to its end, by an installer that
\* works, `config check` reports drift exactly when the image is not the one
\* kopsrox.ini asks for.
THEOREM DriftTrue == ImageSpec => DriftReported
<1> DEFINE Right == Ended("config check") /\ result'.ok /\ img.desc # <<>> /\ "installer" \notin met
                      => (result'.drift <=> ~BuiltFrom(ini))
<1>1. ImageInv /\ [ImageNext]_ivars => [Right]_ivars
  <2> SUFFICES ASSUME ImageInv, [ImageNext]_ivars, Ended("config check"), result'.ok,
                      img.desc # <<>>, "installer" \notin met
               PROVE  result'.drift <=> ~BuiltFrom(ini)
    OBVIOUS
  <2>1. At("report")
    BY DEF ImageInv, ImageTyped, RunState, Pcs, CallsOfCommand, Building, NoImageCmds, At, Ended
  <2>2. ~NoKernel /\ ~PatchFails /\ ~Interrupt
    BY NotOk
  <2>3. Report
    BY <2>1, <2>2
       DEF ImageNext, Begin, Refuse, CheckKernel, DestroyOld, Patch, Build, Install, InstallFails,
           Bake, Template, Describe, Remove, Clone, NothingToAdd, UpgradeNodes, At, ivars, Ended
  <2>4. result'.drift = (img.desc[1] # ini)
    BY <2>3 DEF Report, ConfigDrift
  <2>5. img.desc[1] \in Ini /\ ini \in Ini
    BY BaselineIni
  <2>6. BuiltFrom(img.desc[1])
    BY DEF ImageInv, BaselineHonest
  <2>7. img.desc[1] = ini <=> img.desc[1].k3s = ini.k3s /\ img.desc[1].opts = ini.opts
    BY <2>5, SameIni
  <2> QED BY <2>4, <2>6, <2>7 DEF BuiltFrom
<1> QED BY <1>1, Invariant, PTL DEF ImageSpec, DriftReported
=============================================================================
