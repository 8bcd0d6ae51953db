----------------------------- MODULE PlanTotals -----------------------------
(***************************************************************************)
(* The progress bar.  A cluster command announces before it starts how     *)
(* many steps it will take (kplan), each procedure ticks once for every    *)
(* step it finishes (kplan_tick), and nothing but arithmetic makes the two *)
(* agree: this module runs the counters beside Kopsrox.                    *)
(***************************************************************************)
EXTENDS KopsroxProperties

VARIABLE plan  \* PLAN: the steps announced and the steps done

planVars == <<vars, plan>>

NoPlan == [total |-> 0, done |-> 0]

(******************************** The total ********************************)
Removals == Cardinality(Removable)

\* init asks m1's agent only if discovery saw m1 running, before the power-on.
MasterUp == Up(M1)

\* Surplus nodes of a cluster: demoted masters and extra workers.
\* Mutant: the demoted masters are forgotten.
SurplusWorkers(k) == Cardinality({v \in Vms : v > LastWorker(k)})
Surplus(k) == Cardinality({v \in Vms : (k.masters = 1 /\ v \in {2, 3}) \/ v > LastWorker(k)})

ClusterPlanTotal(k) == Cardinality(Target(k) \ Vms) + Cardinality(Target(k))
                         + (IF MasterUp THEN 0 ELSE 1) + Surplus(k)

Announced(c, k) ==
  CASE c = "create"  -> ClusterPlanTotal(k) + 1
    [] c = "update"  -> ClusterPlanTotal(k)
    [] c = "destroy" -> Removals
    [] c = "restore" /\ MayRestore -> Removals + 4 + 2 * (k.masters - 1) + 2 * k.workers
    [] OTHER         -> 0

(******************************** The ticks ********************************)
\* The wait for the throwaway master of a restore ends no step.
Throwaway == At("wait") /\ NodeType = "restore"

\* k3s_init_node's export is done: the token was saved before, or is written.
\* `k3s export-token` calls export_k3s_token itself.
TokenThere == At("export") /\ node[M1].cl # 0 /\ tokenFile = <<LiveToken>>
Exports    == cli.cmd # "export-token" /\ (TokenThere \/ At("write"))

Ticks == \/ Prepare
         \/ CheckReady
         \/ WaitReady /\ ~Throwaway
         \/ Destroy
         \/ Exports /\ (ExportToken \/ WriteToken)

Silent == \/ Refuse \/ (\E v \in Offset : Pick(v)) \/ LoopEnds \/ Clone \/ Start
          \/ CheckNotReady \/ K3sJoin \/ (Throwaway /\ WaitReady) \/ TimedOut
          \/ ListSnapshots \/ Wipe \/ Reset \/ Manifest \/ Purge \/ Kubeconfig
          \/ (~Exports /\ (ExportToken \/ WriteToken))
          \/ Cordon \/ DelNode \/ DelSecret \/ Stamp \/ Info
          \/ Kill \/ Unconfig \/ SaveSnapshot \/ NoAnswer \/ NoInternet
          \/ GuestStep \/ Interrupt \/ TooSlow \/ GuestFault

PlanInit == Init /\ plan = NoPlan

PlanNext ==
  \/ \E c \in Commands, a \in 0..(LastOffset + MaxSnaps), k \in Inis :
       Begin(c, a, k) /\ plan' = [total |-> Announced(c, k), done |-> 0]
  \/ Ticks  /\ plan' = [plan EXCEPT !.done = @ + 1]
  \/ Silent /\ UNCHANGED plan

PlanSpec == PlanInit /\ [][PlanNext]_planVars

(******************************** Properties *******************************)
\* kopsrox_k3s.py:201, verb_cluster.py:19-20: an undisturbed cluster command
\* announces exactly the steps it takes, whatever it finds and has to change.
PlanExact == [][EndsOk(cli.cmd) /\ last'.clean
                  /\ cli.cmd \in {"create", "update", "restore", "destroy"}
                => plan.done = plan.total]_planVars
=============================================================================
