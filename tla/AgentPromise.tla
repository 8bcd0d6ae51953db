---------------------------- MODULE AgentPromise ----------------------------
(***************************************************************************)
(* What a caller may rely on when it has a guest run a command, lost       *)
(* answers and reboots notwithstanding: the command starts at most as      *)
(* often as the call may try, a caller told that it ran is told the truth, *)
(* and nothing starts any more once the caller has been told anything.     *)
(***************************************************************************)
EXTENDS Naturals

VARIABLES
  tries,  \* how often the call under way may try: 0 when there is none
  runs,   \* how often the guest has started the command
  told    \* what the caller was told: nothing yet, that it ran, that it failed

pvars == <<tries, runs, told>>

PromiseInit == tries = 0 /\ runs = 0 /\ told = "nothing"

Ask    == tries = 0 /\ tries' \in {1, 2} /\ runs' = 0 /\ told' = "nothing"
Run    == runs < tries /\ runs' = runs + 1 /\ UNCHANGED <<tries, told>>
Answer == tries > 0 /\ runs > 0 /\ tries' = 0 /\ told' = "ran" /\ UNCHANGED runs
GiveUp == tries > 0 /\ tries' = 0 /\ told' = "failed" /\ UNCHANGED runs

PromiseNext == Ask \/ Run \/ Answer \/ GiveUp

PromiseSpec == PromiseInit /\ [][PromiseNext]_pvars
=============================================================================
