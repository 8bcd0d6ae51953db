--------------------------- MODULE ClusterPromise ---------------------------
(***************************************************************************)
(* What kopsrox promises about the VMs of a cluster, whatever fails on the *)
(* way: a build adds what kopsrox.ini asks for from the lowest id up and   *)
(* takes away only what it does not ask for, surplus workers after every   *)
(* wanted node is there; a teardown takes the highest id first, so m1, the *)
(* node kubectl runs on, goes last; neither touches the image template or  *)
(* the utility VM; and nothing else adds or removes a VM, except a node    *)
(* command on the node it names.  A command may stop anywhere.             *)
(***************************************************************************)
EXTENDS Layout

VARIABLES
  vms,    \* the offsets that have a VM
  doing,  \* "idle", "build", "teardown" or "node"
  goal    \* the VMs the command aims at; for "node" the one it names

pvars == <<vms, doing, goal>>

Doings == {"idle", "build", "teardown", "node"}
Goals  == {Target(k) : k \in Configs} \cup {{v} : v \in Offset}

PromiseInit == vms = {Image} /\ doing = "idle" /\ goal = {}

\* A command starts, turns from tearing down to building, or stops.
Turn == /\ UNCHANGED vms
        /\ \/ doing = "idle" /\ doing' \in Doings \ {"idle"}
           \/ doing = "teardown" /\ doing' = "build"
           \/ doing' = "idle"
        /\ goal' \in Goals \cup {{}}

Add(v) == /\ doing = "build" /\ v \in goal \ vms
          /\ \A w \in goal : w < v => w \in vms
          /\ vms' = vms \cup {v} /\ UNCHANGED <<doing, goal>>

Drop(v) == /\ doing = "build" /\ v \in vms \ (goal \cup Protected)
           /\ v \in Masters \/ goal \subseteq vms
           /\ vms' = vms \ {v} /\ UNCHANGED <<doing, goal>>

TearDown(v) == /\ doing = "teardown" /\ v \in vms \ Protected
               /\ \A w \in vms \ Protected : w <= v
               /\ vms' = vms \ {v} /\ UNCHANGED <<doing, goal>>

One(v) == /\ doing = "node" /\ goal = {v}
          /\ \/ vms' = vms \ {v} /\ (UNCHANGED <<doing, goal>> \/ (doing' = "idle" /\ goal' = {}))
             \/ v = Utility /\ vms' = vms \cup {v} /\ UNCHANGED <<doing, goal>>

PromiseNext == \/ Turn
               \/ \E v \in Offset : Add(v) \/ Drop(v) \/ TearDown(v) \/ One(v)

PromiseSpec == PromiseInit /\ [][PromiseNext]_pvars
=============================================================================
