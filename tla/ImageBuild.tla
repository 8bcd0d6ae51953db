----------------------------- MODULE ImageBuild -----------------------------
(***************************************************************************)
(* The image template i0: how `image create` builds it, what the other     *)
(* commands make of one that is missing or half built, how `k3s upgrade`   *)
(* keeps it in step with the nodes, and what `config check` reports.       *)
(* kopsrox.ini is edited between commands.                                 *)
(***************************************************************************)
EXTENDS Naturals

CONSTANTS
  Versions,     \* values of k3s_version
  ImageOpts,    \* values of the options in IMAGE_CONFIG_OPTS
  FleetNodes,   \* the nodes that may be cloned
  Troubles,     \* the kinds of fault that may happen
  MaxRuns,      \* bound: invocations
  MaxTroubles   \* bound: faults

ASSUME ImageAssumption == "none" \notin Versions \cup ImageOpts
ASSUME TroublesAssumption ==
  Troubles \subseteq {"interrupt", "installer", "kernel", "patch"}
ASSUME ImageBoundAssumption == MaxRuns \in Nat /\ MaxTroubles \in Nat

VARIABLES
  img,     \* the VM with the id of the image
  fleet,   \* fleet[n]: the k3s installed in node n, for the nodes that exist
  ini,     \* kopsrox.ini
  run,     \* the invocation under way
  result,  \* how the last one ended
  invocations, troubles,
  met      \* the kinds of fault met so far

ivars == <<img, fleet, ini, run, result, invocations, troubles, met>>
count == <<invocations, troubles, met>>

Ini == [k3s : Versions, opts : ImageOpts]

(***************************************************************************)
(* st    no such VM, a VM, a template                                      *)
(* k3s, opts   what has been installed and baked in so far                 *)
(* desc  the description: <<>> or <<the ini it was built from>>            *)
(***************************************************************************)
NoImage == [st |-> "absent", k3s |-> "none", opts |-> "none", desc |-> <<>>]

Cmds == {"image create", "image destroy", "grow", "k3s upgrade", "config check"}
AtRest == [cmd |-> "none", pc |-> "idle", clean |-> TRUE]
NoFleet == [n \in {} |-> "none"]

ImageInit ==
  /\ img = NoImage /\ fleet = NoFleet /\ ini \in Ini /\ run = AtRest
  /\ result = [cmd |-> "none", ok |-> TRUE, clean |-> TRUE, drift |-> FALSE]
  /\ invocations = 0 /\ troubles = 0 /\ met = {}

(******************************** Helpers **********************************)
At(p)   == run.pc = p
Goto(p) == run' = [run EXCEPT !.pc = p]
End(ok) == /\ run' = AtRest
           /\ result' = [cmd |-> run.cmd, ok |-> ok, clean |-> run.clean,
                         drift |-> FALSE]

Trouble(kind) == /\ kind \in Troubles /\ troubles < MaxTroubles
                 /\ troubles' = troubles + 1 /\ met' = met \cup {kind} /\ UNCHANGED invocations
Fails == /\ run' = AtRest
         /\ result' = [cmd |-> run.cmd, ok |-> FALSE, clean |-> FALSE,
                       drift |-> FALSE]

NoImageCmds == {"image create", "image destroy", "config check"}

\* config_drift, the two lines about the image: only what its description says
\* is compared, and an absent baseline is silent.
\* Mutant: only the hash is.
HashDrift   == img.desc # <<>> /\ img.desc[1].opts # ini.opts
ConfigDrift == img.desc # <<>> /\ img.desc[1] # ini

(******************************* Invocation ********************************)
Entry(c) == CASE c = "image create"  -> "check"
              [] c = "image destroy" -> "remove"
              [] c = "grow"          -> "clone"
              [] c = "k3s upgrade"   -> "upgrade"
              [] c = "config check"  -> "report"

Begin(c, k) ==
  /\ At("idle") /\ invocations < MaxRuns
  /\ ini' = k
  /\ run' = [cmd |-> c, clean |-> TRUE,
             pc |-> IF c \notin NoImageCmds /\ img.st = "absent" THEN "refuse" ELSE Entry(c)]
  /\ invocations' = invocations + 1
  /\ UNCHANGED <<img, fleet, result, troubles, met>>

Refuse == At("refuse") /\ End(FALSE) /\ UNCHANGED <<img, fleet, ini, count>>

(****************************** image_create *******************************)
\* Mutant of Destroyed: only a finished template is.
OldTemplate == IF img.st = "template" THEN NoImage ELSE img
Destroyed   == NoImage

CheckKernel == /\ At("check") /\ Goto("destroy")
               /\ UNCHANGED <<img, fleet, ini, result, count>>

NoKernel == /\ Trouble("kernel") /\ At("check")
            /\ Fails
            /\ UNCHANGED <<img, fleet, ini>>

DestroyOld == /\ At("destroy") /\ Goto("patch")
              /\ img' = Destroyed
              /\ UNCHANGED <<fleet, ini, result, count>>

Patch == /\ At("patch") /\ Goto("build")
         /\ UNCHANGED <<img, fleet, ini, result, count>>

\* pve-microvm has changed: patch_microvm_template bails, the old image is gone.
PatchFails == /\ Trouble("patch") /\ At("patch")
              /\ Fails
              /\ UNCHANGED <<img, fleet, ini>>

\* pve-microvm-template refuses an id that is taken by anything.  Mutant: the
\* description is set when the VM is created.
DescribedFirst == [NoImage EXCEPT !.st = "vm", !.desc = <<ini>>]
Created == [NoImage EXCEPT !.st = "vm"]
Build == /\ At("build")
         /\ IF img.st = "absent" THEN img' = Created /\ Goto("install") /\ UNCHANGED result
                                 ELSE UNCHANGED img /\ End(FALSE)
         /\ UNCHANGED <<fleet, ini, count>>

Install == /\ At("install") /\ Goto("bake")
           /\ img' = [img EXCEPT !.k3s = ini.k3s]
           /\ UNCHANGED <<fleet, ini, result, count>>

\* The exit code of the installer is not looked at.
InstallFails == /\ Trouble("installer") /\ At("install")
                /\ run' = [run EXCEPT !.pc = "bake", !.clean = FALSE]
                /\ UNCHANGED <<img, fleet, ini, result>>

Bake == /\ At("bake") /\ Goto("template")
        /\ img' = [img EXCEPT !.opts = ini.opts]
        /\ UNCHANGED <<fleet, ini, result, count>>

Template == /\ At("template") /\ Goto("describe")
            /\ img' = [img EXCEPT !.st = "template"]
            /\ UNCHANGED <<fleet, ini, result, count>>

Describe == /\ At("describe") /\ End(TRUE)
            /\ img' = [img EXCEPT !.desc = <<ini>>]
            /\ UNCHANGED <<fleet, ini, count>>

(***************************** other commands ******************************)
Remove == /\ At("remove") /\ End(TRUE)
          /\ img' = NoImage
          /\ UNCHANGED <<fleet, ini, count>>

\* clone: any VM with the id of the image is cloned.  A node without k3s never
\* gets Ready, and the command fails.
Clone(n) == /\ At("clone") /\ n \notin DOMAIN fleet
            /\ fleet' = [m \in DOMAIN fleet \cup {n} |->
                           IF m = n THEN img.k3s ELSE fleet[m]]
            /\ End(img.k3s # "none")
            /\ UNCHANGED <<img, ini, count>>
NothingToAdd == /\ At("clone") /\ DOMAIN fleet = FleetNodes
                /\ End(TRUE)
                /\ UNCHANGED <<img, fleet, ini, count>>

\* k3s_upgrade_cluster (module Upgrade), then image_create.
\* Mutant of AfterUpgrade: the image is not rebuilt.
NotRebuilt   == End(TRUE)
AfterUpgrade == Goto("check") /\ UNCHANGED result
UpgradeNodes == /\ At("upgrade") /\ AfterUpgrade
                /\ fleet' = [n \in DOMAIN fleet |-> ini.k3s]
                /\ UNCHANGED <<img, ini, count>>

\* config_check.  (It also asks whether any VM has the id of the image.)
Report == /\ At("report") /\ run' = AtRest
          /\ result' = [cmd |-> run.cmd, ok |-> TRUE, clean |-> run.clean,
                        drift |-> ConfigDrift]
          /\ UNCHANGED <<img, fleet, ini, count>>

Interrupt == /\ Trouble("interrupt") /\ ~At("idle")
             /\ Fails
             /\ UNCHANGED <<img, fleet, ini>>

ImageNext ==
  \/ \E c \in Cmds, k \in Ini : Begin(c, k)
  \/ Refuse \/ CheckKernel \/ NoKernel \/ DestroyOld \/ Patch \/ PatchFails
  \/ Build \/ Install \/ InstallFails \/ Bake \/ Template \/ Describe
  \/ Remove \/ (\E n \in FleetNodes : Clone(n)) \/ NothingToAdd
  \/ UpgradeNodes \/ Report \/ Interrupt

ImageSpec == ImageInit /\ [][ImageNext]_ivars

(******************************* Properties ********************************)
Ended(c) == run.cmd = c /\ run'.cmd = "none"
BuiltFrom(k) == img.st = "template" /\ img.k3s = k.k3s /\ img.opts = k.opts

\* verb_image.py:160-169: a baseline is only ever found on a finished template,
\* and says what was built, wherever a build was cut and begun again, as long as the
\* installer, whose exit code is not looked at, works.
BaselineHonest == img.desc # <<>> /\ "installer" \notin met => BuiltFrom(img.desc[1])

\* README.md:154: an undisturbed `image create` ends well with a template built
\* from kopsrox.ini, whatever an earlier build left on its id.
RebuildWorks == [][Ended("image create") /\ result'.clean
                     => result'.ok /\ BuiltFrom(ini)' /\ img'.desc = <<ini>>]_ivars

\* verb_k3s.py:28: after an upgrade the nodes there are and the clones to come
\* have the k3s of kopsrox.ini.
UpgradedTogether ==
  [][Ended("k3s upgrade") /\ result'.clean /\ result'.ok
       => BuiltFrom(ini)' /\ \A n \in DOMAIN fleet : fleet'[n] = ini.k3s]_ivars

\* README.md:150: where an image was built to its end, `config check` reports
\* drift exactly when the image is not what kopsrox.ini asks for, as long as the
\* installer works.
DriftReported == [][Ended("config check") /\ result'.ok /\ img.desc # <<>>
                      /\ "installer" \notin met
                      => (result'.drift <=> ~BuiltFrom(ini))]_ivars
=============================================================================
