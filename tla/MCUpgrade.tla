----------------------------- MODULE MCUpgrade ------------------------------
(***************************************************************************)
(* The fleets TLC upgrades: three masters and a worker, one master and two *)
(* workers, three masters of which m2 was removed.                         *)
(***************************************************************************)
EXTENDS Upgrade

SmallFleets == {{1, 2, 3, 5}, {1, 5}, {1, 3, 5}}
=============================================================================
