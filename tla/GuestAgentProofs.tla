-------------------------- MODULE GuestAgentProofs --------------------------
(***************************************************************************)
(* What GuestAgent is checked for on a small instance, for any number of   *)
(* calls and faults: types, that a guest restarts at most twice per call,  *)
(* that a reboot that ends well has been seen, and that qa_exec and        *)
(* qa_write implement AgentPromise.                                        *)
(***************************************************************************)
EXTENDS GuestAgent, TLAPS

\* While a command is under way its caller has been told nothing, and every
\* attempt but the one in hand has started it at most once.
AttemptInv ==
  call.pc \in {"send", "collect", "ping"} =>
    /\ told = "nothing" /\ call.try <= Attempts
    /\ call.pc \in {"send", "ping"} => runs < call.try
    /\ call.pc = "collect" => 0 < runs /\ runs <= call.try

\* Boot ids only grow: the first one asked for is the oldest.
BootInv == call.first <= call.boot /\ call.boot <= guest.boot

\* The schedule commands that may still be started.
SchedulesLeft ==
  CASE call.cmd = "id" /\ call.pc # "idle" -> 2
    [] call.cmd = "schedule" /\ call.pc \in {"send", "ping"} -> 3 - call.try
    [] call.cmd = "schedule" /\ call.pc = "collect" -> 2 - call.try
    [] OTHER -> 0
\* The boots that are certain or possible without another call.
Restarts == (IF guest.timer THEN 1 ELSE 0) + (IF guest.st = "down" THEN 1 ELSE 0)
BudgetInv == guest.boot + Restarts + SchedulesLeft <= 1 + 2 * calls

AgentInv == AgentTypeOK /\ AttemptInv /\ BootInv /\ BudgetInv

CallState  == [op : Ops \cup {"none"},
               cmd : {"none", "exec", "write", "id", "schedule", "probe"},
               pc : {"idle", "send", "collect", "ping", "return"},
               try : 1..2, boot : Nat, first : Nat]

(***************************** Common endings ******************************)
\* A call's record, field by field.
LEMMA CallFields ==
  ASSUME AgentInv
  PROVE  /\ call \in CallState /\ call.op \in Ops \cup {"none"}
         /\ call.cmd \in {"none", "exec", "write", "id", "schedule", "probe"}
         /\ call.pc \in {"idle", "send", "collect", "ping", "return"}
         /\ call.try \in 1..2 /\ call.boot \in Nat /\ call.first \in Nat
  BY DEF AgentInv, AgentTypeOK, CallState

\* A schedule command that is not under way is not started any more.
LEMMA SchedulesNat ==
  ASSUME AgentInv
  PROVE  SchedulesLeft \in Nat /\ Restarts \in Nat /\ call.try \in 1..2
  BY DEF AgentInv, AgentTypeOK, AttemptInv, SchedulesLeft, Restarts, Attempts

\* Whatever ends an operation leaves the invariant in place.
LEMMA EndKeeps ==
  ASSUME AgentInv, NEW ok \in BOOLEAN, End(ok), guest' = guest, runs' = runs,
         told' \in {"nothing", "ran", "failed"}, faults' \in Nat
  PROVE  AgentInv'
<1>1. AgentTypeOK' /\ AttemptInv' /\ BootInv'
  BY DEF AgentInv, AgentTypeOK, AttemptInv, BootInv, End, NoCall
<1>2. BudgetInv'
  <2>1. SchedulesLeft' = 0 /\ Restarts' = Restarts /\ calls' = calls
    BY DEF SchedulesLeft, Restarts, End, NoCall
  <2>2. guest.boot \in Nat /\ calls \in Nat
    BY DEF AgentInv, AgentTypeOK
  <2> QED BY <2>1, <2>2, SchedulesNat DEF AgentInv, BudgetInv
<1> QED BY <1>1, <1>2 DEF AgentInv

\* A probe that fails returns to node_reboot_wait, any other command ends it.
LEMMA FailKeeps ==
  ASSUME AgentInv, call.pc \in {"send", "collect", "ping"}, Fail,
         guest' = guest, runs' = runs, faults' \in Nat
  PROVE  AgentInv'
<1>1. CASE call.cmd = "probe"
  <2>1. /\ call' = [call EXCEPT !.pc = "return"] /\ told' = "failed"
        /\ ended' = ended /\ calls' = calls
    BY <1>1 DEF Fail, results
  <2>2. AgentTypeOK' /\ AttemptInv' /\ BootInv'
    BY <2>1 DEF AgentInv, AgentTypeOK, AttemptInv, BootInv
  <2>3. SchedulesLeft' = 0 /\ SchedulesLeft = 0 /\ Restarts' = Restarts
    BY <1>1, <2>1 DEF SchedulesLeft, Restarts, AgentInv, AgentTypeOK
  <2> QED BY <2>1, <2>2, <2>3 DEF AgentInv, BudgetInv
<1>2. CASE call.cmd # "probe"
  BY <1>2, EndKeeps DEF Fail
<1> QED BY <1>1, <1>2

\* The second attempt is the last: it is counted before it is sent.
LEMMA RetryKeeps ==
  ASSUME AgentInv, call.pc \in {"send", "collect"}, Retry,
         guest' = guest, runs' = runs, faults' \in Nat
  PROVE  AgentInv'
<1>1. CASE call.try < Attempts
  <2>1. /\ call' = [call EXCEPT !.pc = "ping", !.try = @ + 1]
        /\ told' = told /\ ended' = ended /\ calls' = calls
    BY <1>1 DEF Retry, results
  <2>2. call.try = 1 /\ call.cmd # "write" /\ Attempts = 2
    BY <1>1, SchedulesNat DEF Attempts
  <2>3. AgentTypeOK'
    <3>1. call' = [op |-> call.op, cmd |-> call.cmd, pc |-> "ping",
                   try |-> call.try + 1, boot |-> call.boot, first |-> call.first]
      BY <2>1, CallFields DEF CallState
    <3>2. call' \in CallState
      BY <3>1, <2>2, CallFields DEF CallState
    <3> QED BY <2>1, <3>2 DEF AgentInv, AgentTypeOK, CallState
  <2>4. AttemptInv' /\ BootInv'
    BY <2>1, <2>2 DEF AgentInv, AgentTypeOK, AttemptInv, BootInv, Attempts
  <2>5. SchedulesLeft' <= SchedulesLeft /\ SchedulesLeft' \in Nat /\ Restarts' = Restarts
    BY <2>1, <2>2 DEF SchedulesLeft, Restarts, AgentInv, AgentTypeOK
  <2>6. BudgetInv'
    <3>1. guest.boot \in Nat /\ calls \in Nat
      BY DEF AgentInv, AgentTypeOK
    <3> QED BY <2>1, <2>5, <3>1, SchedulesNat DEF AgentInv, BudgetInv
  <2> QED BY <2>3, <2>4, <2>6 DEF AgentInv
<1>2. CASE ~(call.try < Attempts)
  BY <1>2, FailKeeps DEF Retry
<1> QED BY <1>1, <1>2

\* node_reboot_wait's next command starts from its first attempt.
LEMMA AskKeeps ==
  ASSUME AgentInv, NEW cmd \in {"schedule", "probe"}, NEW first \in Nat,
         Ask(cmd, first), first <= call.boot, call.pc = "return",
         cmd = "schedule" => call.cmd = "id", UNCHANGED <<guest, ended, calls, faults>>
  PROVE  AgentInv'
<1>1. /\ call' = [call EXCEPT !.cmd = cmd, !.pc = "send", !.try = 1, !.first = first]
      /\ runs' = 0 /\ told' = "nothing"
      /\ guest' = guest /\ ended' = ended /\ calls' = calls /\ faults' = faults
  BY DEF Ask
<1>2. AgentTypeOK'
  <2>1. call' = [op |-> call.op, cmd |-> cmd, pc |-> "send", try |-> 1,
                 boot |-> call.boot, first |-> first]
    BY <1>1, CallFields DEF CallState
  <2>2. call' \in CallState
    BY <2>1, CallFields DEF CallState
  <2> QED BY <1>1, <2>2 DEF AgentInv, AgentTypeOK, CallState
<1>3. AttemptInv' /\ BootInv'
  BY <1>1 DEF AgentInv, AgentTypeOK, AttemptInv, BootInv, Attempts
<1>4. SchedulesLeft' <= SchedulesLeft /\ SchedulesLeft' \in Nat /\ Restarts' = Restarts
  BY <1>1 DEF SchedulesLeft, Restarts, AgentInv, AgentTypeOK
<1>5. BudgetInv'
  <2>1. guest.boot \in Nat /\ calls \in Nat
    BY DEF AgentInv, AgentTypeOK
  <2> QED BY <1>1, <1>4, <2>1, SchedulesNat DEF AgentInv, BudgetInv
<1> QED BY <1>2, <1>3, <1>5 DEF AgentInv

(****************************** Every action *******************************)
\* A call starts the count of its attempts and adds two boots to the budget.
LEMMA CallKeeps ==
  ASSUME AgentInv, NEW op \in Ops, CallOp(op)
  PROVE  AgentInv'
<1>1. /\ call' = [op |-> op, cmd |-> FirstCmd(op), pc |-> "send", try |-> 1,
                  boot |-> 0, first |-> 0]
      /\ call.pc = "idle" /\ calls' = calls + 1 /\ runs' = 0 /\ told' = "nothing"
      /\ guest' = guest /\ ended' = ended /\ faults' = faults
  BY DEF CallOp, NoCall
<1>2. FirstCmd(op) \in {"exec", "write", "id"}
  BY OpsAssumption DEF FirstCmd
<1>3. AgentTypeOK'
  <2>1. call' \in CallState
    BY <1>1, <1>2 DEF CallState
  <2> QED BY <1>1, <2>1 DEF AgentInv, AgentTypeOK, CallState
<1>4. AttemptInv' /\ BootInv'
  BY <1>1, <1>2 DEF AgentInv, AgentTypeOK, AttemptInv, BootInv, Attempts
<1>5. SchedulesLeft = 0 /\ SchedulesLeft' \in {0, 2} /\ Restarts' = Restarts
  <2>1. SchedulesLeft = 0 /\ Restarts' = Restarts
    BY <1>1 DEF SchedulesLeft, Restarts
  <2>2. call'.pc = "send" /\ call'.cmd \in {"exec", "write", "id"}
    BY <1>1, <1>2
  <2> QED BY <2>1, <2>2 DEF SchedulesLeft
<1>6. BudgetInv'
  <2>1. guest.boot \in Nat /\ calls \in Nat
    BY DEF AgentInv, AgentTypeOK
  <2> QED BY <1>1, <1>5, <2>1, SchedulesNat DEF AgentInv, BudgetInv
<1> QED BY <1>3, <1>4, <1>6 DEF AgentInv

\* qm starts the command: one start more, and for a schedule one boot to come.
LEMMA SendKeeps ==
  ASSUME AgentInv, Send
  PROVE  AgentInv'
<1>1. /\ call' = [op |-> call.op, cmd |-> call.cmd, pc |-> "collect", try |-> call.try,
                  boot |-> guest.boot, first |-> call.first]
      /\ call.pc = "send" /\ runs' = runs + 1 /\ told' = told
      /\ ended' = ended /\ calls' = calls /\ faults' = faults
  BY CallFields DEF Send, results, CallState
<1>2. /\ guest' = [st |-> guest.st, boot |-> guest.boot,
                   timer |-> guest.timer \/ call.cmd = "schedule"]
      /\ guest.st = "up" /\ guest.boot \in Nat /\ guest.timer \in BOOLEAN
  BY DEF Send, Alive, AgentInv, AgentTypeOK
<1>3. runs \in Nat /\ runs < call.try /\ told = "nothing" /\ call.try <= Attempts
  BY <1>1 DEF AgentInv, AgentTypeOK, AttemptInv
<1>4. AgentTypeOK'
  <2>1. call' \in CallState
    BY <1>1, <1>2, CallFields DEF CallState
  <2>2. guest' \in [st : {"up", "down", "off"}, boot : Nat, timer : BOOLEAN]
    BY <1>2
  <2>3. runs' \in 0..2
    BY <1>1, <1>3, CallFields
  <2> QED BY <1>1, <2>1, <2>2, <2>3 DEF AgentInv, AgentTypeOK, CallState
<1>5. AttemptInv'
  BY <1>1, <1>3, CallFields DEF AttemptInv, Attempts
<1>6. BootInv'
  BY <1>1, <1>2, CallFields DEF AgentInv, BootInv
<1>7. BudgetInv'
  <2>1. CASE call.cmd = "schedule"
    <3>1. SchedulesLeft = 3 - call.try /\ SchedulesLeft' = 2 - call.try
      BY <1>1, <2>1 DEF SchedulesLeft
    <3>2. Restarts' <= Restarts + 1 /\ Restarts' \in Nat
      BY <1>2 DEF Restarts
    <3>3. guest'.boot = guest.boot /\ guest.boot \in Nat /\ calls \in Nat
      BY <1>2 DEF AgentInv, AgentTypeOK
    <3> QED BY <1>1, <3>1, <3>2, <3>3, SchedulesNat DEF AgentInv, BudgetInv
  <2>2. CASE call.cmd # "schedule"
    <3>1. SchedulesLeft' = SchedulesLeft
      BY <1>1, <2>2 DEF SchedulesLeft
    <3>2. Restarts' = Restarts
      BY <1>2, <2>2 DEF Restarts
    <3>3. guest'.boot = guest.boot
      BY <1>2
    <3> QED BY <1>1, <3>1, <3>2, <3>3 DEF AgentInv, BudgetInv
  <2> QED BY <2>1, <2>2
<1> QED BY <1>4, <1>5, <1>6, <1>7 DEF AgentInv

\* A result that is collected ends the call or returns to node_reboot_wait.
LEMMA CollectKeeps ==
  ASSUME AgentInv, Collect
  PROVE  AgentInv'
<1>1. /\ call.pc = "collect" /\ told' = "ran"
      /\ guest' = guest /\ runs' = runs /\ faults' = faults
  BY DEF Collect
<1>2. CASE call.op = "reboot"
  <2>1. /\ call' = [op |-> call.op, cmd |-> call.cmd, pc |-> "return", try |-> call.try,
                    boot |-> call.boot, first |-> call.first]
        /\ ended' = ended /\ calls' = calls
    BY <1>2, CallFields DEF Collect, results, CallState
  <2>2. AgentTypeOK'
    <3>1. call' \in CallState
      BY <2>1, CallFields DEF CallState
    <3> QED BY <1>1, <2>1, <3>1 DEF AgentInv, AgentTypeOK, CallState
  <2>3. AttemptInv' /\ BootInv'
    BY <1>1, <2>1 DEF AgentInv, AttemptInv, BootInv
  <2>4. SchedulesLeft' <= SchedulesLeft /\ SchedulesLeft' \in Nat
    BY <1>1, <2>1, CallFields DEF SchedulesLeft
  <2>5. Restarts' = Restarts /\ guest.boot \in Nat /\ calls \in Nat
    BY <1>1 DEF Restarts, AgentInv, AgentTypeOK
  <2>6. BudgetInv'
    BY <1>1, <2>1, <2>4, <2>5, SchedulesNat DEF AgentInv, BudgetInv
  <2> QED BY <2>2, <2>3, <2>6 DEF AgentInv
<1>3. CASE call.op # "reboot"
  <2>1. End(TRUE) /\ faults' \in Nat
    BY <1>1, <1>3 DEF Collect, AgentInv, AgentTypeOK
  <2> QED BY <1>1, <2>1, EndKeeps
<1> QED BY <1>2, <1>3

\* The agent answers the ping: the attempt that was counted is sent.
LEMMA PingKeeps ==
  ASSUME AgentInv, Ping
  PROVE  AgentInv'
<1>1. /\ call' = [op |-> call.op, cmd |-> call.cmd, pc |-> "send", try |-> call.try,
                  boot |-> call.boot, first |-> call.first]
      /\ call.pc = "ping" /\ guest' = guest /\ runs' = runs /\ told' = told
      /\ ended' = ended /\ calls' = calls /\ faults' = faults
  BY CallFields DEF Ping, results, CallState
<1>2. AgentTypeOK'
  <2>1. call' \in CallState
    BY <1>1, CallFields DEF CallState
  <2> QED BY <1>1, <2>1 DEF AgentInv, AgentTypeOK, CallState
<1>3. AttemptInv' /\ BootInv'
  BY <1>1 DEF AgentInv, AttemptInv, BootInv, Attempts
<1>4. SchedulesLeft' = SchedulesLeft /\ Restarts' = Restarts
  BY <1>1 DEF SchedulesLeft, Restarts
<1> QED BY <1>1, <1>2, <1>3, <1>4 DEF AgentInv, BudgetInv

\* node_reboot_wait asks for the boot id, schedules the reboot, then probes.
LEMMA WaitKeeps ==
  ASSUME AgentInv, Scheduled \/ ProbeAgain
  PROVE  AgentInv'
<1>1. UNCHANGED <<guest, ended, calls, faults>> /\ call.pc = "return"
  BY DEF Scheduled, ProbeAgain, results
<1>2. call.first <= call.boot /\ call.boot \in Nat /\ call.first \in Nat
  BY CallFields DEF AgentInv, BootInv
<1>3. CASE Scheduled /\ call.cmd = "id"
  <2>1. Ask("schedule", call.boot)
    BY <1>3 DEF Scheduled
  <2> QED BY <1>1, <1>2, <1>3, <2>1, AskKeeps
<1>4. CASE ProbeAgain \/ (Scheduled /\ call.cmd # "id")
  <2>1. Ask("probe", call.first)
    BY <1>4 DEF Scheduled, ProbeAgain
  <2> QED BY <1>1, <1>2, <2>1, AskKeeps
<1> QED BY <1>3, <1>4

\* The guest goes down, comes up or goes off: the budget covers its boots.
LEMMA GuestKeeps ==
  ASSUME AgentInv, TimerFires \/ Boots \/ PowerOff
  PROVE  AgentInv'
<1>1. /\ call' = call /\ runs' = runs /\ told' = told /\ ended' = ended /\ calls' = calls
      /\ faults' \in Nat
  BY DEF TimerFires, Boots, PowerOff, AgentFault, results, AgentInv, AgentTypeOK
<1>2. guest.boot \in Nat /\ guest.timer \in BOOLEAN /\ calls \in Nat
  BY DEF AgentInv, AgentTypeOK
<1>3. guest' \in [st : {"up", "down", "off"}, boot : Nat, timer : BOOLEAN]
  <2>1. /\ guest = [st |-> guest.st, boot |-> guest.boot, timer |-> guest.timer]
        /\ guest.boot + 1 \in Nat
    BY <1>2 DEF AgentInv, AgentTypeOK
  <2>2. CASE TimerFires
    BY <2>1, <2>2, <1>2 DEF TimerFires
  <2>3. CASE Boots
    <3>1. guest' = [st |-> "up", boot |-> guest.boot + 1, timer |-> guest.timer]
      BY <2>1, <2>3 DEF Boots
    <3> QED BY <2>1, <3>1, <1>2
  <2>4. CASE PowerOff
    BY <2>1, <2>4, <1>2 DEF PowerOff
  <2> QED BY <2>2, <2>3, <2>4
<1>4. guest.boot <= guest'.boot /\ guest'.boot + Restarts' <= guest.boot + Restarts
  <2>1. CASE TimerFires
    BY <2>1, <1>2 DEF TimerFires, Alive, Restarts, AgentInv, AgentTypeOK
  <2>2. CASE Boots
    BY <2>2, <1>2 DEF Boots, Restarts, AgentInv, AgentTypeOK
  <2>3. CASE PowerOff
    BY <2>3, <1>2 DEF PowerOff, Restarts, AgentInv, AgentTypeOK
  <2> QED BY <2>1, <2>2, <2>3
<1>5. AgentTypeOK'
  BY <1>1, <1>3 DEF AgentInv, AgentTypeOK
<1>6. AttemptInv'
  BY <1>1 DEF AgentInv, AttemptInv, Attempts
<1>7. BootInv'
  BY <1>1, <1>2, <1>3, <1>4, CallFields DEF AgentInv, BootInv
<1>8. BudgetInv'
  <2>1. SchedulesLeft' = SchedulesLeft
    BY <1>1 DEF SchedulesLeft
  <2>2. Restarts' \in Nat /\ guest'.boot \in Nat
    BY <1>3 DEF Restarts
  <2> QED BY <1>1, <1>2, <1>4, <2>1, <2>2, SchedulesNat DEF AgentInv, BudgetInv
<1> QED BY <1>5, <1>6, <1>7, <1>8 DEF AgentInv

\* The invariant is inductive.
LEMMA AgentStep ==
  ASSUME AgentInv, [AgentNext]_avars
  PROVE  AgentInv'
<1>1. CASE UNCHANGED avars
  BY <1>1 DEF avars, AgentInv, AgentTypeOK, AttemptInv, Attempts, BootInv, BudgetInv,
              SchedulesLeft, Restarts
<1>2. ASSUME NEW op \in Ops, CallOp(op) PROVE AgentInv'
  BY <1>2, CallKeeps
<1>3. CASE Send
  BY <1>3, SendKeeps
<1>4. CASE Collect
  BY <1>4, CollectKeeps
<1>5. CASE Ping
  BY <1>5, PingKeeps
<1>6. CASE Scheduled \/ ProbeAgain
  BY <1>6, WaitKeeps
<1>7. CASE SendFails \/ CollectFails \/ AnswerLost
  <2>1. /\ call.pc \in {"send", "collect"} /\ Retry
        /\ guest' = guest /\ runs' = runs /\ faults' \in Nat
    BY <1>7 DEF SendFails, CollectFails, AnswerLost, AgentFault, AgentInv, AgentTypeOK
  <2> QED BY <2>1, RetryKeeps
<1>8. CASE PingsRunOut \/ BadAnswer
  <2>1. /\ call.pc \in {"send", "collect", "ping"} /\ Fail
        /\ guest' = guest /\ runs' = runs /\ faults' \in Nat
    BY <1>8 DEF PingsRunOut, BadAnswer, AgentFault, AgentInv, AgentTypeOK
  <2> QED BY <2>1, FailKeeps
<1>9. ASSUME NEW ok \in BOOLEAN, End(ok), UNCHANGED <<guest, runs, told, faults>>
      PROVE  AgentInv'
  <2>1. told' \in {"nothing", "ran", "failed"} /\ faults' \in Nat /\ guest' = guest /\ runs' = runs
    BY <1>9 DEF AgentInv, AgentTypeOK
  <2> QED BY <1>9, <2>1, EndKeeps
<1>10. CASE Rebooted \/ DidNotReboot
  BY <1>9, <1>10 DEF Rebooted, DidNotReboot
<1>11. CASE TimerFires \/ Boots \/ PowerOff
  BY <1>11, GuestKeeps
<1> QED BY <1>1, <1>2, <1>3, <1>4, <1>5, <1>6, <1>7, <1>8, <1>10, <1>11
        DEF AgentNext, CliStep, GuestMoves

(******************************** Theorems *********************************)
LEMMA AgentBegins ==
  ASSUME AgentInit
  PROVE  AgentInv
  BY DEF AgentInit, NoCall, AgentInv, AgentTypeOK, AttemptInv, BootInv, BudgetInv,
         SchedulesLeft, Restarts

\* The invariant holds in every state.
LEMMA AgentInductive == AgentSpec => []AgentInv
<1>1. AgentInit => AgentInv
  BY AgentBegins
<1>2. AgentInv /\ [AgentNext]_avars => AgentInv'
  BY AgentStep
<1> QED BY <1>1, <1>2, PTL DEF AgentSpec

\* kopsrox_proxmox.py:30-135: the types of qa_exec's and node_reboot_wait's state.
THEOREM AgentTypeCorrect == AgentSpec => []AgentTypeOK
<1>1. AgentInv => AgentTypeOK
  BY DEF AgentInv
<1> QED BY <1>1, AgentInductive, PTL

\* kopsrox_proxmox.py:63,126: a reboot restarts its guest at most twice, however
\* many answers are lost.
THEOREM RestartsBounded == AgentSpec => []AtMostTwice
<1>1. AgentInv => AtMostTwice
  <2> SUFFICES ASSUME AgentInv PROVE AtMostTwice
    OBVIOUS
  <2>1. guest.boot \in Nat /\ calls \in Nat
    BY DEF AgentInv, AgentTypeOK
  <2> QED BY <2>1, SchedulesNat DEF AgentInv, BudgetInv, AtMostTwice
<1> QED BY <1>1, AgentInductive, PTL

\* kopsrox_proxmox.py:123-135: a reboot that ends well has seen its guest in a
\* boot later than the one it asked to leave.
THEOREM RebootSafe == AgentSpec => RebootWaits
<1>1. ASSUME AgentInv, [AgentNext]_avars, RebootEnds, ended'.ok
      PROVE  guest.boot > ended'.first
  <2>1. call.op = "reboot" /\ call'.op = "none"
    BY <1>1 DEF RebootEnds
  <2>2. CASE Rebooted
    <3>1. call.boot # call.first /\ ended'.first = call.first
      BY <2>2 DEF Rebooted, NewId, End
    <3>2. guest.boot \in Nat
      BY <1>1 DEF AgentInv, AgentTypeOK
    <3> QED BY <1>1, <3>1, <3>2, CallFields DEF AgentInv, BootInv
  <2>3. CASE ~Rebooted
    <3>1. ASSUME Fail PROVE ~ended'.ok \/ call'.op = call.op
      BY <3>1, <1>1, CallFields DEF Fail, End, CallState
    <3>2. ASSUME Retry PROVE ~ended'.ok \/ call'.op = call.op
      BY <3>1, <3>2, <1>1, CallFields DEF Retry, CallState
    <3>3. ~UNCHANGED avars
      BY <2>1 DEF avars
    <3>4. ~(\E op \in Ops : CallOp(op))
      BY <2>1, OpsAssumption DEF CallOp, NoCall
    <3>5. ~Send /\ ~Ping /\ ~Scheduled /\ ~ProbeAgain
      BY <1>1, <2>1, CallFields DEF Send, Ping, Scheduled, ProbeAgain, Ask, CallState
    <3>6. ~Collect
      BY <1>1, <2>1, CallFields DEF Collect, CallState
    <3>7. ~SendFails /\ ~CollectFails /\ ~AnswerLost
      BY <1>1, <2>1, <3>2 DEF SendFails, CollectFails, AnswerLost
    <3>8. ~PingsRunOut /\ ~BadAnswer
      BY <1>1, <2>1, <3>1 DEF PingsRunOut, BadAnswer
    <3>9. ~DidNotReboot
      BY <1>1 DEF DidNotReboot, End
    <3>10. ~TimerFires /\ ~Boots /\ ~PowerOff
      BY <2>1 DEF TimerFires, Boots, PowerOff
    <3> QED BY <1>1, <2>3, <3>3, <3>4, <3>5, <3>6, <3>7, <3>8, <3>9, <3>10
            DEF AgentNext, CliStep, GuestMoves
  <2> QED BY <2>2, <2>3
<1>2. AgentInv /\ [AgentNext]_avars => [RebootEnds /\ ended'.ok => guest.boot > ended'.first]_avars
  BY <1>1
<1> QED BY <1>2, AgentInductive, PTL DEF AgentSpec, RebootWaits

(**************************** The refinement *******************************)
\* How often the call under way may start its command.
LEMMA UnderwayIs ==
  ASSUME AgentInv
  PROVE  /\ call.pc \in {"send", "collect", "ping"} => Underway = Attempts
         /\ call.pc \in {"idle", "return"} => Underway = 0
  BY CallFields DEF Underway, Attempts

\* Fail keeps the promise by giving up.
LEMMA FailGivesUp ==
  ASSUME AgentInv, AgentInv', call.pc \in {"send", "collect", "ping"}, Fail, runs' = runs
  PROVE  Promise!GiveUp
<1>1. Underway > 0
  BY UnderwayIs DEF Attempts
<1>2. call'.pc \in {"idle", "return"} /\ told' = "failed"
  BY CallFields DEF Fail, End, NoCall, CallState
<1>3. Underway' = 0
  BY <1>2 DEF Underway
<1> QED BY <1>1, <1>2, <1>3 DEF Promise!GiveUp

\* The second attempt starts nothing by itself.
LEMMA RetryOrGivesUp ==
  ASSUME AgentInv, AgentInv', call.pc \in {"send", "collect"}, Retry, runs' = runs
  PROVE  Promise!GiveUp \/ UNCHANGED Promise!pvars
<1>1. CASE call.try < Attempts
  <2>1. call'.pc = "ping" /\ call'.cmd = call.cmd /\ told' = told
    BY <1>1, CallFields DEF Retry, CallState
  <2>2. Underway' = Underway
    BY <2>1 DEF Underway
  <2> QED BY <2>1, <2>2 DEF Promise!pvars
<1>2. CASE ~(call.try < Attempts)
  BY <1>2, FailGivesUp DEF Retry
<1> QED BY <1>1, <1>2

\* What is asked next starts from nothing.
LEMMA AskAsks ==
  ASSUME AgentInv, AgentInv', call.pc = "return", NEW cmd \in {"schedule", "probe"},
         NEW first, Ask(cmd, first)
  PROVE  Promise!Ask
<1>1. call'.pc = "send" /\ call'.cmd = cmd /\ runs' = 0 /\ told' = "nothing"
  BY CallFields DEF Ask, CallState
<1>2. Underway = 0 /\ Underway' = 2
  BY <1>1, UnderwayIs DEF Underway
<1> QED BY <1>1, <1>2 DEF Promise!Ask

\* Every step of the guest agent's user is a step of the promise or none.
LEMMA PromiseStep ==
  ASSUME AgentInv, AgentInv', [AgentNext]_avars
  PROVE  Promise!PromiseNext \/ UNCHANGED Promise!pvars
<1>1. CASE UNCHANGED <<call, runs, told>>
  BY <1>1 DEF Promise!pvars, Underway
<1>2. ASSUME NEW op \in Ops, CallOp(op) PROVE Promise!Ask
  <2>1. call.pc = "idle" /\ call'.pc = "send" /\ runs' = 0 /\ told' = "nothing"
    BY <1>2 DEF CallOp, NoCall
  <2>2. Underway = 0 /\ Underway' \in {1, 2}
    BY <2>1 DEF Underway
  <2> QED BY <2>1, <2>2 DEF Promise!Ask
<1>3. CASE Send
  <2>1. /\ call.pc = "send" /\ call'.pc = "collect" /\ call'.cmd = call.cmd
        /\ runs' = runs + 1 /\ told' = told
    BY <1>3, CallFields DEF Send, CallState
  <2>2. runs < call.try /\ call.try <= Attempts /\ runs \in Nat
    BY <2>1 DEF AgentInv, AttemptInv, AgentTypeOK
  <2>3. Underway' = Underway /\ Underway = Attempts
    BY <2>1, UnderwayIs DEF Underway
  <2>4. runs < Underway
    BY <2>2, <2>3, CallFields DEF Attempts
  <2> QED BY <2>1, <2>3, <2>4 DEF Promise!PromiseNext, Promise!Run
<1>4. CASE Collect
  <2>1. call.pc = "collect" /\ call'.pc \in {"idle", "return"} /\ told' = "ran" /\ runs' = runs
    BY <1>4, CallFields DEF Collect, End, NoCall, CallState
  <2>2. runs > 0 /\ Underway > 0 /\ Underway' = 0
    BY <2>1 DEF AgentInv, AttemptInv, AgentTypeOK, Underway
  <2> QED BY <2>1, <2>2 DEF Promise!PromiseNext, Promise!Answer
<1>5. CASE Ping
  <2>1. call.pc = "ping" /\ call'.pc = "send" /\ call'.cmd = call.cmd /\ runs' = runs /\ told' = told
    BY <1>5, CallFields DEF Ping, CallState
  <2> QED BY <2>1 DEF Promise!pvars, Underway
<1>6. CASE Scheduled \/ ProbeAgain
  <2>1. call.pc = "return"
        /\ (Ask("schedule", call.boot) \/ Ask("probe", call.first))
    BY <1>6 DEF Scheduled, ProbeAgain
  <2> QED BY <2>1, AskAsks DEF Promise!PromiseNext
<1>7. CASE SendFails \/ CollectFails \/ AnswerLost
  <2>1. call.pc \in {"send", "collect"} /\ Retry /\ runs' = runs
    BY <1>7 DEF SendFails, CollectFails, AnswerLost
  <2> QED BY <2>1, RetryOrGivesUp DEF Promise!PromiseNext
<1>8. CASE PingsRunOut \/ BadAnswer
  <2>1. call.pc \in {"send", "collect", "ping"} /\ Fail /\ runs' = runs
    BY <1>8 DEF PingsRunOut, BadAnswer
  <2> QED BY <2>1, FailGivesUp DEF Promise!PromiseNext
<1>9. CASE Rebooted \/ DidNotReboot
  <2>1. call.pc = "return" /\ call'.pc = "idle" /\ runs' = runs /\ told' = told
    BY <1>9 DEF Rebooted, DidNotReboot, End, NoCall
  <2> QED BY <2>1 DEF Promise!pvars, Underway
<1>10. CASE TimerFires \/ Boots \/ PowerOff
  BY <1>1, <1>10 DEF TimerFires, Boots, PowerOff
<1>11. CASE UNCHANGED avars
  BY <1>1, <1>11 DEF avars
<1> QED BY <1>2, <1>3, <1>4, <1>5, <1>6, <1>7, <1>8, <1>9, <1>10, <1>11
        DEF AgentNext, CliStep, GuestMoves, Promise!PromiseNext

\* kopsrox_proxmox.py:30-115: qa_exec with its retry, qa_write without one and
\* the reboot's three commands all keep what a caller is promised.
THEOREM AgentRefinement == AgentSpec => KeepsAgentPromise
<1>1. AgentInit => Promise!PromiseInit
  BY DEF AgentInit, NoCall, Underway, Promise!PromiseInit
<1>2. AgentInv /\ AgentInv' /\ [AgentNext]_avars => [Promise!PromiseNext]_(Promise!pvars)
  BY PromiseStep
<1> QED BY <1>1, <1>2, AgentInductive, PTL
        DEF AgentSpec, KeepsAgentPromise, Promise!PromiseSpec
=============================================================================
