----------------------------- MODULE GuestAgent -----------------------------
(***************************************************************************)
(* The only way kopsrox reaches a guest: `qm guest exec` through the guest *)
(* agent (qa_exec, qa_write), and the reboot built on it.  qm starts the   *)
(* command in the guest and then polls for its result, so a guest can go   *)
(* down between the two: the command has run and the call has failed.      *)
(***************************************************************************)
EXTENDS Integers, FiniteSets

CONSTANTS
  Ops,         \* the operations that are used
  MaxCalls,    \* bound: operations in one behaviour
  MaxFaults,   \* bound: faults in one behaviour
  AgentFaults  \* the kinds of fault that may happen

ASSUME OpsAssumption == Ops \subseteq {"exec", "write", "reboot"}
ASSUME AgentBoundAssumption == MaxCalls \in Nat /\ MaxFaults \in Nat
ASSUME AgentFaultAssumption == AgentFaults \subseteq {"lost", "bad", "off"}

VARIABLES
  guest,   \* the VM: st, its boot id, whether a reboot timer is pending
  call,    \* the operation under way
  runs,    \* how often the guest started the current command
  told,    \* how the last command ended, for its caller
  ended,   \* how the last operation ended
  calls,   \* operations so far
  faults   \* faults so far

avars == <<guest, call, runs, told, ended, calls, faults>>
results == <<ended, calls>>

(***************************************************************************)
(* op     the operation         cmd    the command qa_exec runs for it     *)
(* pc     send it, collect its result, ping the agent, return to op        *)
(* try    which attempt this is                                            *)
(* boot   the boot the command was started in, which knows its process     *)
(* first  node_reboot_wait's boot_id                                       *)
(***************************************************************************)
NoCall == [op |-> "none", cmd |-> "none", pc |-> "idle", try |-> 1,
           boot |-> 0, first |-> 0]

AgentInit ==
  /\ guest = [st |-> "up", boot |-> 1, timer |-> FALSE]
  /\ call = NoCall /\ runs = 0 /\ told = "nothing"
  /\ ended = [op |-> "none", ok |-> TRUE, first |-> 0]
  /\ calls = 0 /\ faults = 0

(******************************** The guest ********************************)
Alive == guest.st = "up"

\* The guest that started the command still knows its process.
Answers == Alive /\ guest.boot = call.boot

\* `systemd-run --on-active=1 systemctl reboot`: a timer of this boot.
TimerFires == /\ Alive /\ guest.timer
              /\ guest' = [guest EXCEPT !.st = "down", !.timer = FALSE]
              /\ UNCHANGED <<call, runs, told, ended, calls, faults>>
Boots == /\ guest.st = "down"
         /\ guest' = [guest EXCEPT !.st = "up", !.boot = @ + 1]
         /\ UNCHANGED <<call, runs, told, ended, calls, faults>>

\* The guest does nothing more on its own.
Settled == guest.st = "off" \/ (Alive /\ ~guest.timer)

(******************************** Operations *******************************)
FirstCmd(op) == IF op = "reboot" THEN "id" ELSE op

CallOp(op) ==
  /\ call.pc = "idle" /\ calls < MaxCalls
  /\ call' = [NoCall EXCEPT !.op = op, !.cmd = FirstCmd(op), !.pc = "send"]
  /\ calls' = calls + 1 /\ runs' = 0 /\ told' = "nothing"
  /\ UNCHANGED <<guest, ended, faults>>

\* Mutants: the retry is a loop of three; qa_write retries as qa_exec does.
ThirdAttempt  == 3
WriteAttempts == 2
Attempts == IF call.cmd = "write" THEN 1 ELSE 2

End(ok) == /\ call' = NoCall
           /\ ended' = [op |-> call.op, ok |-> ok, first |-> call.first]
           /\ UNCHANGED calls

\* fail: fatal, except for the probe, which returns ''.
Fail == /\ told' = "failed"
        /\ IF call.cmd = "probe"
             THEN call' = [call EXCEPT !.pc = "return"] /\ UNCHANGED results
             ELSE End(FALSE)

\* qm fails: one more attempt after a ping, if there is one.
Retry == IF call.try < Attempts
           THEN call' = [call EXCEPT !.pc = "ping", !.try = @ + 1] /\ UNCHANGED <<told, results>>
           ELSE Fail

Send == /\ call.pc = "send" /\ Alive
        /\ call' = [call EXCEPT !.pc = "collect", !.boot = guest.boot]
        /\ guest' = [guest EXCEPT !.timer = @ \/ call.cmd = "schedule"]
        /\ runs' = runs + 1
        /\ UNCHANGED <<told, results, faults>>

SendFails == /\ call.pc = "send" /\ ~Alive
             /\ Retry
             /\ UNCHANGED <<guest, runs, faults>>

Collect == /\ call.pc = "collect" /\ Answers
           /\ told' = "ran"
           /\ IF call.op = "reboot" THEN call' = [call EXCEPT !.pc = "return"] /\ UNCHANGED results
                                    ELSE End(TRUE)
           /\ UNCHANGED <<guest, runs, faults>>

CollectFails == /\ call.pc = "collect" /\ ~Answers
                /\ Retry
                /\ UNCHANGED <<guest, runs, faults>>

Ping == /\ call.pc = "ping" /\ Alive
        /\ call' = [call EXCEPT !.pc = "send"]
        /\ UNCHANGED <<guest, runs, told, results, faults>>

\* 120 pings: a guest that boots is back by then, one that is off is not.
PingsRunOut == /\ call.pc = "ping" /\ guest.st = "off"
               /\ Fail
               /\ UNCHANGED <<guest, runs, faults>>

(***************************** node_reboot_wait ****************************)
Ask(cmd, first) == /\ call' = [call EXCEPT !.cmd = cmd, !.pc = "send", !.try = 1,
                                           !.first = first]
                   /\ runs' = 0 /\ told' = "nothing"

\* Mutant of NewId: any answer will do.
AnyId == told = "ran"
NewId == told = "ran" /\ call.boot # call.first

Scheduled == /\ call.pc = "return" /\ call.cmd \in {"id", "schedule"}
             /\ IF call.cmd = "id" THEN Ask("schedule", call.boot)
                                   ELSE Ask("probe", call.first)
             /\ UNCHANGED <<guest, results, faults>>

Rebooted == /\ call.pc = "return" /\ call.cmd = "probe" /\ NewId
            /\ End(TRUE)
            /\ UNCHANGED <<guest, runs, told, faults>>

\* Mutant of Hopeless: the probes are not counted.
NeverHopeless == FALSE

\* 60 probes are enough unless the guest has settled without a new boot id.
Hopeless == guest.st = "off" \/ (Settled /\ guest.boot = call.first)
ProbeAgain == /\ call.pc = "return" /\ call.cmd = "probe" /\ ~NewId /\ ~Hopeless
              /\ Ask("probe", call.first)
              /\ UNCHANGED <<guest, results, faults>>

DidNotReboot == /\ call.pc = "return" /\ call.cmd = "probe" /\ ~NewId /\ Hopeless
                /\ End(FALSE)
                /\ UNCHANGED <<guest, runs, told, faults>>

(********************************* Faults **********************************)
AgentFault(kind) == kind \in AgentFaults /\ faults < MaxFaults /\ faults' = faults + 1

\* qm gives up on a guest that is well: it fails before or after the start.
AnswerLost == /\ AgentFault("lost") /\ call.pc \in {"send", "collect"}
              /\ Retry
              /\ UNCHANGED <<guest, runs>>

\* The command is started and does not end in time, or ends with 127, with
\* an answer that does not parse or (qa_exec) with nothing but stderr.
BadAnswer == /\ AgentFault("bad") /\ call.pc = "collect" /\ Answers
             /\ Fail
             /\ UNCHANGED <<guest, runs>>

PowerOff == /\ AgentFault("off") /\ guest.st # "off"
            /\ guest' = [guest EXCEPT !.st = "off", !.timer = FALSE]
            /\ UNCHANGED <<call, runs, told, results>>

(***************************** The specification ***************************)
CliStep == \/ Send \/ SendFails \/ Collect \/ CollectFails \/ Ping \/ PingsRunOut
           \/ Scheduled \/ Rebooted \/ ProbeAgain \/ DidNotReboot
GuestMoves == TimerFires \/ Boots
AgentNext  == \/ \E op \in Ops : CallOp(op)
              \/ CliStep \/ GuestMoves
              \/ AnswerLost \/ BadAnswer \/ PowerOff

AgentSpec == AgentInit /\ [][AgentNext]_avars

\* The process is scheduled and each of its calls has a timeout; a guest told
\* to reboot does, and comes up again.
FairAgentSpec == AgentSpec /\ WF_avars(CliStep) /\ WF_avars(GuestMoves)

(******************************* Properties ********************************)
AgentTypeOK ==
  /\ guest \in [st : {"up", "down", "off"}, boot : Nat, timer : BOOLEAN]
  /\ call \in [op : Ops \cup {"none"},
               cmd : {"none", "exec", "write", "id", "schedule", "probe"},
               pc : {"idle", "send", "collect", "ping", "return"},
               try : 1..2, boot : Nat, first : Nat]
  /\ runs \in 0..2 /\ told \in {"nothing", "ran", "failed"}
  /\ ended \in [op : Ops \cup {"none"}, ok : BOOLEAN, first : Nat]
  /\ calls \in Nat /\ faults \in Nat

\* kopsrox_proxmox.py:52: one attempt, and only on failure a second; a command
\* reported as run has run, and a file is written by one attempt or none.
Underway == IF call.pc \notin {"send", "collect", "ping"} THEN 0
            ELSE IF call.cmd = "write" THEN 1 ELSE 2
Promise == INSTANCE AgentPromise WITH tries <- Underway
KeepsAgentPromise == Promise!PromiseSpec

\* kopsrox_proxmox.py:123: a reboot that ends well has seen the guest after a
\* restart, however many answers were lost on the way.
RebootEnds == call.op = "reboot" /\ call'.op = "none"
RebootWaits == [][RebootEnds /\ ended'.ok => guest.boot > ended'.first]_avars

\* kopsrox_proxmox.py:63,126: the retry of a lost answer may restart the guest
\* once more, and never again.
AtMostTwice == guest.boot <= 1 + 2 * calls

\* kopsrox_proxmox.py:56,129: every operation ends, as all its polls do.
CallsEnd == call.pc # "idle" ~> call.pc = "idle"
=============================================================================
