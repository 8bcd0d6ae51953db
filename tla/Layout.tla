------------------------------- MODULE Layout -------------------------------
(***************************************************************************)
(* Which VM is which.  A kopsrox cluster owns ten consecutive Proxmox VM   *)
(* ids from cluster_id on; the OFFSET of a VM in that range fixes its name *)
(* and its role.  Offsets stand for both the vmid and the vmname, which    *)
(* kopsrox_config.init maps onto each other one to one.                    *)
(*   0 = i0 the image template      4 = u1 the utility VM                  *)
(*   1, 2, 3 = m1, m2, m3 masters   5 .. 9 = w1 .. w5 workers              *)
(***************************************************************************)
EXTENDS Integers, FiniteSets

CONSTANTS LastOffset,   \* the highest offset in use: 9 in the code
          Settings      \* values of the s3_* and kubelet_args options

ASSUME LayoutAssumption == LastOffset \in 5..9 /\ Settings # {}

Offset  == 0..LastOffset
Image   == 0
M1      == 1
Utility == 4
Masters == {1, 2, 3}
Workers == 5..LastOffset

\* What no reconciliation and no teardown of the cluster may touch.
Protected == {Image, Utility}

\* The options of kopsrox.ini that the reconciliation reads.  The schema admits
\* 1 or 3 masters, and leaves `workers` to whoever edits the file: only the
\* values that have a name are modelled.
Configs == [masters : {1, 3}, workers : 0..(LastOffset - 4), opts : Settings]

\* Mutant of LastWorker: the loop over worker_count runs once too often.
LastWorkerAndOne(cfg) == 5 + cfg.workers

\* The slave masters and the workers a configuration asks for.
Slaves(cfg)     == IF cfg.masters = 3 THEN {2, 3} ELSE {}
LastWorker(cfg) == 4 + cfg.workers
WorkersOf(cfg)  == 5..LastWorker(cfg)
Target(cfg)     == {M1} \cup Slaves(cfg) \cup WorkersOf(cfg)
=============================================================================
