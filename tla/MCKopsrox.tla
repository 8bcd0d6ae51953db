----------------------------- MODULE MCKopsrox ------------------------------
(***************************************************************************)
(* Instances of Kopsrox for TLC: the versions of kopsrox.ini an operator   *)
(* switches between, and the ways to use the tool.                         *)
(***************************************************************************)
EXTENDS KopsroxProperties

Ini(m, w, o) == [masters |-> m, workers |-> w, opts |-> o]

OneWorker   == {Ini(1, 1, "a")}
OneMaster   == {Ini(1, 0, "a")}
HighlyAvail == {Ini(3, 0, "a")}
Either      == OneWorker \cup HighlyAvail
MastersOnly == OneMaster \cup HighlyAvail

\* The external side of a fair run: a CLI process that is scheduled, and k3s
\* units that retry until they are registered.
GuestProgress == Progress /\ UNCHANGED <<cli, files, ghost>>
FairSpec == Spec /\ WF_vars(Step) /\ WF_vars(GuestProgress)

\* README.md:163 and 177: clusters are backed up, destroyed and restored.
\* README.md:223-225: a master is re-added by k3s-uninstall and then, with
\* nothing in between, rejoin-slave.
BacksUp == cli'.cmd \in {"create", "update", "destroy", "snapshot", "restore"}
Readds  == CASE cmds = 0                   -> cli'.cmd = "create"
             [] last.cmd = "k3s-uninstall" -> cli'.cmd = "rejoin-slave" /\ cli'.arg = last.arg
             [] OTHER                      -> cli'.cmd = "k3s-uninstall"
AsDocumented ==
  /\ cli'.cfg = cli.cfg
  /\ cli.pc = "idle" /\ cli'.pc # "idle" => IF cli.cfg.masters = 3 THEN Readds ELSE BacksUp
DocumentedSpec == Init /\ [][Next /\ AsDocumented]_vars
=============================================================================
